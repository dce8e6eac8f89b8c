SPECIFICATION Spec
CONSTANTS
  Request = {a1}
  Session = {s1, s2}
  MaxLevels = 3
  Given = {}
  Null = Null
PROPERTY DecisionIsFinal
CHECK_DEADLOCK FALSE
