SPECIFICATION EventuallySpec
CONSTANTS
  w1 = w1  w2 = w2  w3 = w3
  p1 = p1  p2 = p2  h1 = h1  h2 = h2
  u1 = u1  u2 = u2
  r1 = r1  r2 = r2  r3 = r3
  e1 = e1  e2 = e2  e3 = e3  e4 = e4
  Wallet <- Wallets
  Proc <- ProcsRing
  Hook <- Hook1
  User <- Users1
  Row <- Rows1
  Event <- TwoPayments
  Requests <- OppositeTransfers
  Tables <- PairTables
  Threshold = 20
  MaxBalance = 12
  PoolSize = 4
  NoWallet = NoWallet
  NoProc = NoProc
  NoUser = NoUser
  Null = Null
  c1 = c1  c2 = c2  b1 = b1  b2 = b2
  Message = {c1, c2}
  Run = {b1, b2}
  Batches = {1, 2}
  MaxFaults = 1
  MaxTries = 2
INVARIANTS
  RowsTellTruth
PROPERTIES
  Answered
  QueuedMailIsTried
