SPECIFICATION Spec
CONSTANTS
  Member = {m1}
  Session = {s1, s2}
  Ref = {r1}
  Foreign = {f1, f2}
  Short = {f2}
  Null = Null
INVARIANT VerifiedIsPaid
