SPECIFICATION RunnerSpec
CONSTANTS
  Names = {job}
  Slots = 2
  MaxActions = 2
  MaxConfigs = 2
  MaxFaults = 1
  ResultsCap = 1
INVARIANTS OneEntityPerJob
PROPERTIES EndsOnlyAfterFault RecordedIsTried EntitiesSettle
CHECK_DEADLOCK FALSE
