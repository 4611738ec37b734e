SPECIFICATION FairSpec
CONSTANTS
  tab = tab
  other = other
  s1 = s1
  s2 = s2
  None = None
  Tab = {tab}
  Session = {s1}
  Capacity = 2
  MaxUpsets = 2
INVARIANTS
  TypeOK
  DoneIsRecorded
PROPERTIES
  RowsConverge
