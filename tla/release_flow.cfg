SPECIFICATION RFairSpec
CONSTANTS
  Fleets <- MCFleets
  None = None
  MaxDeploys = 2
  MaxFaults = 1
CHECK_DEADLOCK FALSE
INVARIANTS OldTasksRetired SuccessMeansDeployed LateFailureRestores
PROPERTIES RolloutCompletes
