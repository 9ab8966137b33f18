SPECIFICATION Spec
CONSTANTS
  NBlocks = 1
  va = va
  vb = vb
  vz = vz
  Slots = {}
  Lens = {1}
  Vals = {va, vb, vz}
  Zero = va
  NegZero = vz
  Times = {0, 1}
  NonFinite = NonFinite
  None = None
  MaxStep = 2
  HistoryLimits = {1}
  MaxSaved = 0
  StepSizes = {1}
  MaxRefusals = 2
  MaxPrior = 1
  BlockLen <- MCBlockLen
  Delivered <- MCDelivered
  Parses <- MCParses
  Realizations <- Twins
  Requests <- TwinRequests
  Presented <- MCPresented
INVARIANTS CoveringEvidenceBinds
CHECK_DEADLOCK FALSE
