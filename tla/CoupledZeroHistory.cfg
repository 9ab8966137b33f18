SPECIFICATION Spec
CONSTANTS
  NBlocks = 1
  s1 = s1
  va = va
  vb = vb
  Slots = {}
  Lens = {1}
  Vals = {va, vb}
  Zero = va
  Times = {0, 1, 2, 3}
  NonFinite = NonFinite
  None = None
  MaxStep = 2
  HistoryLimits = {0}
  MaxSaved = 1
  StepSizes = {1, 2}
  MaxRefusals = 1
  BlockLen <- MCBlockLen
  Delivered <- MCDelivered
INVARIANTS FailureLeavesNoTrace
