SPECIFICATION Spec
CONSTANTS
  w1 = w1  w2 = w2  w3 = w3
  p1 = p1  p2 = p2  p3 = p3
  Wallet <- Wallets3
  Proc <- Procs3
  Requests <- MixedRequests
  Tables <- MixedTables
  Threshold = 6
  MaxBalance = 10
  PoolSize = 4
  NoWallet = NoWallet
  NoProc = NoProc
  Null = Null
SYMMETRY Symmetry
INVARIANTS
  TypeOK
  NoLostUpdate
  LockDiscipline
  StatementMatchesBalance
  BooksAgree
  AnswerTellsTruth
  TotalExplained
PROPERTY RefinesBank
