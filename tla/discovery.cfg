SPECIFICATION FairSpec
CONSTANTS
  ana = ana
  luis = luis
  Host = {ana, luis}
  Passes <- OneWay
  Probed <- OtherWay
  Targets = 2
  Announce = 1
  Stale = 5
  Shown = 15
  Late = 1
  MaxLost = 1
INVARIANTS
  TypeOK
  NoGhosts
PROPERTIES
  StaysListed
  NoFlicker
  ComesToRest
  FindEachOther
