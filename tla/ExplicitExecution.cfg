SPECIFICATION Spec
CONSTANTS
  NBlocks = 1
  va = va
  Slots = {}
  Lens = {1}
  Vals = {va}
  Zero = va
  Times = {0, 1, 2, 3}
  NonFinite = NonFinite
  None = None
  MaxStep = 2
  HistoryLimits = {1}
  MaxSaved = 1
  PolicyStep = 3
  AttemptBudget = 2
  MaxRejections = 2
  MaxRefusals = 1
  BlockLen <- MCBlockLen
  Delivered <- MCDelivered
INVARIANTS SynchronizedWhenIdle FailureLeavesNoTrace RecordsDescribeTrajectory RetriesAccounted
PROPERTIES ArrivesAtOutput Returns
