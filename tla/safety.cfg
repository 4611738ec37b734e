SPECIFICATION Spec
CONSTANTS
  NFiles = 2
  Size <- LongThenEmpty
  Window = 2
  ChunkSize = 2
  MaxRead = 2
  Manifests = {TRUE, FALSE}
  Verdicts = {"Accept", "Reject"}
  Cancels = {"snd", "rcv"}
  Misfortunes = {"refused", "browser", "hangup", "network", "data", "disk", "slow"}
  MaxMisfortunes = 2
INVARIANTS
  TypeOK
  NothingWithoutApproval
  LandedIsWhole
  VerdictsAgree
  AgreedCompletion
  SenderCancelledByClick
PROPERTIES
  DeliversAsPromised
  DecidesAtOnce
