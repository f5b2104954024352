SPECIFICATION MCSpec
CONSTANTS
  Flows <- MCFlows
  Order <- MCOrder
  DaemonMark = 1
  Tuple5 <- MCTuple5
  Mark = 0
  MaxBatch = 2
  MaxQueries = 2
  MaxChurn = 1
  MaxFaults = 1
INVARIANTS MarksReset UpdateNamesEntry NothingLeft AttributesSurvive
PROPERTIES QueryReturns NatUndone
