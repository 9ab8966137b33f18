SPECIFICATION Spec
CONSTANTS
  NBlocks = 1
  s1 = s1
  va = va
  vb = vb
  Slots = {s1}
  Lens = {1}
  Vals = {va, vb}
  Zero = va
  Times = {0, 1}
  NonFinite = NonFinite
  None = None
  MaxStep = 2
  HistoryLimits = {0, 1}
  MaxSaved = 1
  BlockLen <- MCBlockLen
  Delivered <- MCDelivered
INVARIANTS OnlyConvergedCommitted FailureLeavesNoTrace
PROPERTIES CallsAreAtomic
