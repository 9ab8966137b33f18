SPECIFICATION Spec
CONSTANTS
  NBlocks = 2
  s1 = s1
  va = va
  vb = vb
  Slots = {s1}
  Lens = {1, 2}
  Vals = {va, vb}
  Zero = va
  Times = {0, 1}
  NonFinite = NonFinite
  None = None
  MaxStep = 3
  HistoryLimits = {0, 1}
  MaxSaved = 1
  BlockLen <- MCBlockLen
  Delivered <- UntrustedDelivery
INVARIANTS TypeOK TrialIsWhole ShapesHold HistoryBounded
PROPERTIES ErrChangesNothing SchemaFrozen
