SPECIFICATION Spec
CONSTANTS
  Session = {s1, s2, s3}
  Payment = {p1}
  Code = {c1, c2}
  Email = {e1}
  MockMode = FALSE
  Null = Null
INVARIANT TokenRegistersOne
