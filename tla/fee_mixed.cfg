SPECIFICATION PaymentsSpec
CONSTANTS
  m1 = m1  m2 = m2
  s1 = s1  s2 = s2  s3 = s3
  r1 = r1  r2 = r2  f1 = f1  f2 = f2
  Member = {m1, m2}
  Session = {s1, s2, s3}
  Ref = {r1, r2}
  Foreign = {f1, f2}
  Short = {f2}
  Null = Null
  n1 = n1  n2 = n2  y1 = y1  p1 = p1  d1 = d1
  Worker = {m1, m2}
  Owner = {m1, m2}
  Number = {n1, n2}
  PaymentRef = {y1}
  PayoutRef = {p1}
  Deposit <- Deposits
  Absent = Absent
  Upload = {m1, m2}
  Saver = {m1, m2}
  MaxItems = 2
  Unwritten = Unwritten
  Desk = {s1, s2, s3}
  Login <- Logins
  Wanted <- Asked
  Tokens <- Carried
  Patch <- Patches
  Edit <- Changes
  MaxOrgs = 4
  MaxStaff = 4
SYMMETRY Symmetry
INVARIANTS
  PaymentTypesOK
  PaidIsConfirmed
  PaymentUsedOnce
  RecordsHappened
  NumbersReachOwners
  SavingsWithinBooks
  SyncsInTurnAgree
  OrgTypeOK
  SubOrgsStayUnderPartner
  LoginsDistinctInTurn
  CompleteHaveAdmin
  RepresentativesAreTheirOwn
