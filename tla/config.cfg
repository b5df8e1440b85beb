SPECIFICATION FairSpec
CONSTANTS
  fast = fast
  slow = slow
  small = small
  dozing = dozing
  dozingSmall = dozingSmall
  None = none
  Watched = slow
  Config = {fast, slow, small}
  Group <- MCGroup
  DozeMode <- MCDozeMode
  Period <- MCPeriod
  Preferred = fast
  Blob = {1, 2, 3, 4, 5, 6}
  MayFail = {"test", "property", "switch", "request", "frame"}
INVARIANTS TypeOK BlobsOwned ResolutionAgrees ConfirmationPossible
PROPERTIES PostponedTakenUp Settles
VIEW ToldApart
