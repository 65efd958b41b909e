SPECIFICATION FairSpec
CONSTANTS
  Customers = {1, 2}
  Workers = {w1}
  Texts <- MCTexts
  Batch = 2
  Page = 2
  MaxTries = 2
  MaxCrash = 1
  CrashKinds = {"dispatch", "multicast", "deliver"}
  MaxFail = 2
  MaxNights = 1
  MaxChanges = 0
INVARIANTS TypeOK
PROPERTIES CampaignEnds
CHECK_DEADLOCK FALSE
