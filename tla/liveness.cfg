SPECIFICATION FairSpec
CONSTANTS
  NFiles = 1
  Size <- OneUnit
  Window = 1
  ChunkSize = 2
  MaxRead = 1
  Manifests = {TRUE}
  Verdicts = {"Accept"}
  Cancels = {"snd", "rcv"}
  Misfortunes = {"hangup", "network"}
  MaxMisfortunes = 1
INVARIANTS
  NoLeftovers
PROPERTIES
  ReceiverFreed
  ReceiverCancelEnds
  CancelWhileWaitingEnds
  UndisturbedCompletes
