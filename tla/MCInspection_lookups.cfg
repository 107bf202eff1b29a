\* One process, each registry, every way a call can fail.
SPECIFICATION FairSpec
CONSTANTS
  Period = 4
  Burst = 1
  Versions = {"v1", "v2", "published_at", "pushed_at", "created_at", "tag_last_pushed", "last_updated"}
  None = "none"
  Bad = Bad
  MaxRetries = 2
  Timeout = 2
  Durations = {0, 2}
  Backoff <- MCBackoff
  MaxTotal = 5
  MaxEntries = 4
  MaxPerEntry = 2
  MaxDepth = 3
  Sizes = {1, 3}
  Spellings = {"slash", "backslash"}
  Files <- MCFiles
  Jobs <- MCAllJobs
  Length <- MCLength
  Contents <- MCContents
  Budget = 5
  EnrichTimeout = 3
INVARIANTS
  TypeOK GrantsKeepCeiling AgedAsPublished ScannedIsAged InTime InBudget
  ScanIsBounded ScanJudgesWhatStays VerdictIsEarned
PROPERTY LookupEnds
CHECK_DEADLOCK FALSE
