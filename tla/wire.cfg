SPECIFICATION FairSpec
CONSTANTS
  Base = 3
  LengthDigits = 2
  MaxFrame = 3
  Commands <- Command
  Contents <- Content
  MaxSent = 2
  MaxAltered = 1
INVARIANTS
  TypeOK
  FramesAsSent
  BufferBounded
PROPERTIES
  KeepsFrames
  AllHandedOut
  ReadingEnds
CHECK_DEADLOCK FALSE
