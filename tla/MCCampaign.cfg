SPECIFICATION CampaignSpec
CONSTANTS
  Seeds = 1
  MaxFinds = 2
  MaxOthers = 2
  MaxSessions = 4
  MaxEvents = 3
  Crashes = {"c"}
INVARIANTS QueueKept FindingsSurvive SyncLooksAtAll
CHECK_DEADLOCK FALSE
