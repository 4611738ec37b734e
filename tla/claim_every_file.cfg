SPECIFICATION Spec
CONSTANTS
  NFiles = 1
  Size <- OneUnit
  Window = 2
  ChunkSize = 1
  MaxRead = 1
  Manifests = {TRUE}
  Verdicts = {"Accept", "Reject"}
  Cancels = {}
  Misfortunes = {"hangup"}
  MaxMisfortunes = 1
INVARIANT
  CompletedMeansEveryFile
