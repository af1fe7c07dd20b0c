SPECIFICATION Spec
CONSTANTS
  Columns = 2
  ColumnClocks = 2
  Blocks = 2
  BlockClocks = 5
  SboutClocks = 1
  MaxFRMCYC = 1
  MaxUnit = 3
  Budget = 19
  Ints <- MCInts
  EnableValues <- MCEnableValues
  ClearValues <- MCClearValues
INVARIANTS
  LineTracksPending
  DrawingInStep
  BudgetNeverReached
  RegistersInPhase
  SboutSoonOver
PROPERTIES
  ImplementsDoubleBuffer
  DrawingEnds
