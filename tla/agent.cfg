CONSTANTS
  Tools <- TwoTools
  Unknown = Unknown
  Asked <- OneOrNone
  Outcomes <- AllOutcomes
  MaxSteps = 2
  MaxCalls = 2
  MaxFaults = 1
SPECIFICATION FairSpec
CHECK_DEADLOCK FALSE
INVARIANTS TypeOK Conversation RowAgreesWithStream BudgetPlanComplete ConsoleFollows
PROPERTIES RunStops RunIsSaved
