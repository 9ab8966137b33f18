SPECIFICATION Spec
CONSTANTS
  Blank = ""
  None = None
  Shifts = {0, 3}
  Points = {2}
  MaxLeaves = 3
  RateValues = {0, 1}
  FieldBlock <- MCFieldBlock
  Prefixed <- MCPrefixed
  Projections <- MCProjections
  StateCoefficient <- MCStateCoefficient
  RateCoefficient <- MCRateCoefficient
  Forcing <- MCForcing
  EdgeCoefficient <- MCEdgeCoefficient
  Declarations <- MCDeclarations
  Edges <- MCEdges
  Connections <- MCConnections
INVARIANTS LayoutsPartition CompositionPlacesLeaves RowsMatchRates LinearizationExact SplittingExact InitializationDecides
CHECK_DEADLOCK FALSE
