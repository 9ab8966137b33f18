SPECIFICATION Spec
CONSTANTS
  NBlocks = 1
  va = va
  vb = vb
  Slots = {}
  Lens = {1}
  Vals = {va, vb}
  Zero = va
  Times = {0, 1}
  NonFinite = NonFinite
  None = None
  MaxStep = 1
  HistoryLimits = {0, 1}
  MaxSaved = 1
  Changes = {1, 2, 5}
  Unbounded = 11
  Floors = {1, 2}
  Spread = 2
  Tolerance = 1
  MaxSweeps = 2
  Growth = 2
  BlockLen <- MCBlockLen
  Delivered <- MCDelivered
INVARIANTS AcceptedIsConverged RefusalsAreEarned FailureLeavesNoTrace
PROPERTIES CallsAreAtomic Returns
