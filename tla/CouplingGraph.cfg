SPECIFICATION Spec
CONSTANTS
  NNodes = 4
  None = None
  Edges <- MCEdges
INVARIANTS StackIsOpen
PROPERTIES SchedulesStages EndsComplete
CHECK_DEADLOCK FALSE
