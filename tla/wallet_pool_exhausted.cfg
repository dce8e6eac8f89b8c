SPECIFICATION FairSpec
CONSTANTS
  w1 = w1  w2 = w2  w3 = w3
  p1 = p1  p2 = p2  p3 = p3
  Wallet <- Wallets2
  Proc <- Procs2
  Requests <- PairRequests
  Tables <- PairTables
  Threshold = 6
  MaxBalance = 10
  PoolSize = 2
  NoWallet = NoWallet
  NoProc = NoProc
  Null = Null
PROPERTY Answered
