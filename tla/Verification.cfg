SPECIFICATION Spec
CONSTANTS
  NBlocks = 1
  va = va
  vb = vb
  vz = vz
  Slots = {}
  Lens = {1}
  Vals = {va, vb, vz}
  Zero = va
  NegZero = vz
  Times = {0, 1, 2, 3, 4}
  NonFinite = NonFinite
  None = None
  MaxStep = 5
  HistoryLimits = {1, 2}
  MaxSaved = 0
  StepSizes = {1}
  MaxRefusals = 2
  MaxPrior = 1
  BlockLen <- MCBlockLen
  Delivered <- MCDelivered
  Parses <- MCParses
  Realizations <- TwoRealizations
  Requests <- MCRequests
  Presented <- MCPresented
INVARIANTS RollbackVerdict RestartVerdict HistoryVerdict ReportsReproduce
CHECK_DEADLOCK FALSE
