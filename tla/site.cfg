SPECIFICATION SiteSpec
CONSTANTS
  NoRequest = NoRequest
  NoDecision = NoDecision
  NoBaseline = NoBaseline
  Slugs <- MCSlugs
  Requests <- MCRequests
  Response <- MCResponse
  CaseFiles <- MCCaseFiles
  Baselines <- MCBaselines
  MaxTasks = 3
  MaxMounts = 3
INVARIANTS
  ShownAnswersThisForm
  StagesPainted
PROPERTY
  TasksEnd
CHECK_DEADLOCK FALSE
