CONSTANTS
  MaxCells = 2
  Listed = {0, 5, 13, 31}
  SharedCount = 2
  MaxLines = 2
  MaxRotations = 2
  MaxLength = 1
  MaxWrapperKills = 1
  Shared = {s1, s2}
  MaxInformation = 2
  MaxPublishErrors = 2
  MaxPublishKills = 2
  ProfileKeys = {a, b}
  Mixed = {b}
  MaxEdits = 2
  MaxUpgrades = 2
  MaxWriteKills = 2
  MaxIOErrors = 2
  Volumes = {v1}
  MaxAnswers = 2
  MaxVolumeChanges = 2
  MaxPartitionKills = 1
  MaxReleases = 3
  MaxGenerationKills = 3
  MaxTracFailures = 2
  MaxTracKills = 1
  MaxWishes = 2
  MaxScriptRuns = 3
SPECIFICATION Spec
INVARIANTS ResultIsOwn SameTimes SharedSorted LogsAreKept ServiceIsFresh PublishedOrRetried UserKeeps OneConfiguration NeverRegenerated DoneIsComplete NoneLeft
CHECK_DEADLOCK FALSE
