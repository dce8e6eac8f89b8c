SPECIFICATION MixedSpec
CONSTANTS
  Request = {a1}
  Session = {s1, s2, s3}
  MaxLevels = 3
  Given <- Bodies
  Null = Null
  Caller = {c1, c2}
  Digits = {d1, d2}
  MaxAttempts = 2
  MaxCodes = 2
SYMMETRY Symmetry
INVARIANTS
  MixedTypeOK
  ExecutedNeedsAllLevels
  CodesOpenOnce
PROPERTIES
  TargetNeedsAllLevels
  DecisionIsLogged
