SPECIFICATION Spec
CONSTANTS
  tab = tab
  other = other
  s1 = s1
  s2 = s2
  None = None
  Tab = {tab}
  Session = {s1, s2}
  Capacity = 2
  MaxUpsets = 0
INVARIANTS
  TagIsOwn
