SPECIFICATION FairSpec
CONSTANTS
  s1 = s1
  s2 = s2
  left = left
  right = right
  Tab = {left, right}
  Session = {s1, s2}
  Capacity = 2
  MaxUpsets = 1
INVARIANTS
  TypeOK
  PromptShown
  AckedIsVerdict
PROPERTIES
  AnsweredOnce
  StalePromptsGo
CHECK_DEADLOCK FALSE
