SPECIFICATION PaymentsSpec
CONSTANTS
  w1 = w1  w2 = w2  w3 = w3
  p1 = p1  p2 = p2  h1 = h1  h2 = h2
  u1 = u1  u2 = u2
  r1 = r1  r2 = r2  r3 = r3
  e1 = e1  e2 = e2  e3 = e3  e4 = e4
  Wallet <- Wallets
  Proc <- Procs
  Hook <- Hooks
  User <- Users2
  Row <- Rows3
  Event <- MixedEvents
  Requests <- MixedRequests
  Tables <- MixedTables
  Threshold = 20
  MaxBalance = 12
  PoolSize = 4
  NoWallet = NoWallet
  NoProc = NoProc
  NoUser = NoUser
  Null = Null
  k3 = k3
  Clerk <- Clerks
  Holder = {u1, u2}
  AccountNo = {n1, n2}
  Someone = Someone
SYMMETRY HookSymmetry
INVARIANTS
  MixedTypeOK
  SavingsMatchBooks
  NoLostUpdate
  NumbersAreOfTheirUser
  AccountIsKept
