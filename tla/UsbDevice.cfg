SPECIFICATION FairSpec
CONSTANTS
  Configurations <- SomeConfigurations
  EpConfigEntries = 2
  RingSize = 6
  SetupEntries = 2
  WaiterEntries = 1
  Heads = {0, 4}
  Codes = {4, 5}
  MaxReports = 3
INVARIANTS TypeOK AnswersFindTheirRequests ReportsAreBootReports ObserversToldRight
PROPERTIES ReportsOneByOne AlwaysAskedAgain
CHECK_DEADLOCK FALSE
