--------------------------- MODULE WalletService ---------------------------
(***************************************************************************)
(* The money-moving operations of WalletService (transfer, deposit,         *)
(* withdraw), each running as an HTTP request of its own in one PostgreSQL  *)
(* transaction, interleaved at every `await'.                               *)
(*                                                                          *)
(* A request takes a connection from the pool, locks the wallet rows it     *)
(* needs with SELECT ... FOR UPDATE, checks and computes in memory, saves   *)
(* the rows, inserts a Transaction and a Ledger entry, and commits.  Until  *)
(* then its row versions are its own.  A failed statement aborts the        *)
(* transaction, PostgreSQL breaks deadlocks, and the server may crash.      *)
(***************************************************************************)
EXTENDS Money, Sequences, FiniteSetsExt

CONSTANTS
  Wallet,       \* ids of wallet rows (a row need not exist)
  Proc,         \* requests, each with the database session that serves it
  Requests,     \* what a request may ask for
  Tables,       \* contents the wallets table may have to begin with
  Threshold,    \* from this amount on an OTP must be given
  PoolSize,     \* connections in the pool
  NoWallet,     \* the end of a deposit or a withdrawal that is no wallet
  NoProc,       \* nobody: the holder of a lock nobody holds
  Null          \* no value: the balance of a row that does not exist

TransactionType ==
  {"contribution", "loan_disbursement", "loan_repayment", "withdrawal",
   "deposit", "transfer_in", "transfer_out", "interest_credit", "penalty",
   "fee", "settlement", "reversal"}

(* `type' is the type the transaction is recorded with: fixed by deposit    *)
(* and withdraw, any string (by default internal_transfer) in a transfer.   *)
RequestType ==
  [op : {"transfer"}, src : Wallet, dst : Wallet,
   amount : Int, otp : BOOLEAN, type : STRING]
  \cup
  [op : {"deposit"}, src : {NoWallet}, dst : Wallet,
   amount : Int, otp : BOOLEAN, type : {"deposit"}]
  \cup
  [op : {"withdraw"}, src : Wallet, dst : {NoWallet},
   amount : Int, otp : BOOLEAN, type : {"withdrawal"}]

ASSUME ConstantsAssumption ==
  /\ NoWallet \notin Wallet /\ NoProc \notin Proc
  /\ Null \notin Int /\ Null \notin Requests
  /\ Requests \subseteq RequestType
  /\ Tables \subseteq [Wallet -> {m \in Money : Fits(m)} \cup {Null}]
  /\ Threshold \in Int /\ PoolSize \in Nat \ {0}

VARIABLES
  balance,       \* balance[w]: the committed row of w in table wallets
  lock,          \* lock[w]: the session that holds the row lock of w
  transactions,  \* the committed rows of table transactions
  ledger,        \* the committed rows of table ledgers, in commit order
  req,           \* req[p]: what request p asks for
  pc,            \* pc[p]: where request p is
  mem,           \* mem[p]: the balance of the entities source, destination
  dirty,         \* dirty[p]: the uncommitted row versions p wrote
  opening        \* history variable: the balances at the beginning

vars == <<balance, lock, transactions, ledger, req, pc, mem, dirty, opening>>
tables == <<balance, transactions, ledger, opening>>

NoWrites == [w \in Wallet |-> Null]

Init ==
  /\ balance \in Tables
  /\ opening = balance
  /\ lock = [w \in Wallet |-> NoProc]
  /\ transactions = {} /\ ledger = <<>>
  /\ req = [p \in Proc |-> Null]
  /\ pc = [p \in Proc |-> "idle"]
  /\ mem = [p \in Proc |-> [src |-> Null, dst |-> Null]]
  /\ dirty = [p \in Proc |-> NoWrites]

-----------------------------------------------------------------------------
(* Helpers.                                                                 *)

Debits(r)  == r.op \in {"transfer", "withdraw"}
Credits(r) == r.op \in {"transfer", "deposit"}

Ended     == {"idle", "done", "failed", "lost"}
InFlight(p)  == pc[p] \notin Ended
Connected(p) == InFlight(p) /\ pc[p] # "connect"
PoolHasRoom  == Cardinality({p \in Proc : Connected(p)}) < PoolSize

Goto(p, label) == pc' = [pc EXCEPT ![p] = label]

(* The first checks of an operation, before any connection is taken.        *)
Accepted(r) ==
  /\ r.amount > 0
  /\ Debits(r) /\ r.amount >= Threshold => r.otp

(* Mutant: findOne without the pessimistic_write lock.                      *)
LockableUnlocked(p, w) == TRUE

(* SELECT ... FOR UPDATE returns when nobody else holds the row's lock, and *)
(* takes the lock if the row exists.                                        *)
Lockable(p, w) == lock[w] \in {NoProc, p}
Locked(p, w)   == IF balance[w] = Null THEN lock ELSE [lock EXCEPT ![w] = p]

(* Mutant: the session is released with its row locks still held.           *)
EndTransactionLeaking(p) ==
  /\ lock' = lock
  /\ dirty' = [dirty EXCEPT ![p] = NoWrites]

(* The end of a transaction, by COMMIT, ROLLBACK or a failed statement:     *)
(* PostgreSQL drops its row versions and releases its locks.                *)
EndTransaction(p) ==
  /\ lock' = [w \in Wallet |-> IF lock[w] = p THEN NoProc ELSE lock[w]]
  /\ dirty' = [dirty EXCEPT ![p] = NoWrites]

StatementFails(p) ==
  /\ EndTransaction(p)
  /\ Goto(p, "rollback")
  /\ UNCHANGED <<tables, req, mem>>

(* Mutants: the balance of the wrong wallet in a transfer's transaction,    *)
(* and the two balances of its ledger entry swapped.                        *)
TransactionRowWrong(p) ==
  [reference |-> p, src |-> req[p].src, dst |-> req[p].dst,
   amount |-> Stored(req[p].amount),
   balanceAfter |-> IF Credits(req[p]) THEN mem[p].dst ELSE mem[p].src]
LedgerRowSwapped(p) ==
  [reference |-> p, src |-> req[p].src, dst |-> req[p].dst,
   amount |-> Stored(req[p].amount),
   sourceBalanceAfter |-> IF Credits(req[p]) THEN mem[p].dst ELSE mem[p].src,
   destinationBalanceAfter |-> IF Debits(req[p]) THEN mem[p].src ELSE mem[p].dst]

(* The rows a request inserts.                                              *)
TransactionRow(p) ==
  [reference |-> p, src |-> req[p].src, dst |-> req[p].dst,
   amount |-> Stored(req[p].amount),
   balanceAfter |-> IF Debits(req[p]) THEN mem[p].src ELSE mem[p].dst]

LedgerRow(p) ==
  [reference |-> p, src |-> req[p].src, dst |-> req[p].dst,
   amount |-> Stored(req[p].amount),
   sourceBalanceAfter |-> IF Debits(req[p]) THEN mem[p].src ELSE Null,
   destinationBalanceAfter |-> IF Credits(req[p]) THEN mem[p].dst ELSE Null]

-----------------------------------------------------------------------------
(* Steps of a request.                                                      *)

Submit(p) ==
  /\ pc[p] = "idle"
  /\ \E r \in Requests :
       /\ req' = [req EXCEPT ![p] = r]
       /\ Goto(p, IF Accepted(r) THEN "connect" ELSE "failed")
  /\ UNCHANGED <<tables, lock, mem, dirty>>

(* createQueryRunner, connect (waits for a connection), startTransaction.   *)
Begin(p) ==
  /\ pc[p] = "connect"
  /\ PoolHasRoom
  /\ Goto(p, IF Debits(req[p]) THEN "lockSource" ELSE "lockDestination")
  /\ UNCHANGED <<tables, lock, req, mem, dirty>>

LockSource(p) ==
  /\ pc[p] = "lockSource"
  /\ Lockable(p, req[p].src)
  /\ lock' = Locked(p, req[p].src)
  /\ mem' = [mem EXCEPT ![p].src = balance[req[p].src]]
  /\ Goto(p, IF Credits(req[p]) THEN "lockDestination" ELSE "compute")
  /\ UNCHANGED <<tables, req, dirty>>

LockDestination(p) ==
  /\ pc[p] = "lockDestination"
  /\ Lockable(p, req[p].dst)
  /\ lock' = Locked(p, req[p].dst)
  /\ mem' = [mem EXCEPT ![p].dst = balance[req[p].dst]]
  /\ Goto(p, "compute")
  /\ UNCHANGED <<tables, req, dirty>>

(* Mutant: the balance is not compared with the amount.                     *)
InsufficientIgnored(p) == FALSE

(* `Wallet not found' and `Insufficient balance'.                           *)
WalletMissing(p) ==
  \/ Debits(req[p]) /\ mem[p].src = Null
  \/ Credits(req[p]) /\ mem[p].dst = Null
Insufficient(p) ==
  ~ WalletMissing(p) /\ Debits(req[p]) /\ mem[p].src < req[p].amount

Reject(p) ==
  /\ pc[p] = "compute"
  /\ WalletMissing(p) \/ Insufficient(p)
  /\ Goto(p, "rollback")
  /\ UNCHANGED <<tables, lock, req, mem, dirty>>

(* The new balances.  What the column will hold is chosen here: the same    *)
(* number is written to the wallet, the transaction and the ledger entry.   *)
SourceAfter(p) ==
  IF Debits(req[p]) THEN Column(mem[p].src - req[p].amount) ELSE {mem[p].src}
DestinationAfter(p) ==
  IF Credits(req[p]) THEN Column(mem[p].dst + req[p].amount) ELSE {mem[p].dst}

Compute(p) ==
  /\ pc[p] = "compute"
  /\ ~ WalletMissing(p) /\ ~ Insufficient(p)
  /\ \E s \in SourceAfter(p), d \in DestinationAfter(p) :
       mem' = [mem EXCEPT ![p] = [src |-> s, dst |-> d]]
  /\ Goto(p, IF Debits(req[p]) THEN "saveSource" ELSE "saveDestination")
  /\ UNCHANGED <<tables, lock, req, dirty>>

(* Mutants: the source is never saved; or it is saved by the repository, on *)
(* a connection of its own, instead of by the query runner.                 *)
SaveSourceForgotten(p) ==
  /\ pc[p] = "saveSource"
  /\ Goto(p, IF Credits(req[p]) THEN "saveDestination" ELSE "insertTransaction")
  /\ UNCHANGED <<tables, lock, req, mem, dirty>>
SaveSourceAutocommit(p) ==
  /\ pc[p] = "saveSource"
  /\ balance' = [balance EXCEPT ![req[p].src] = mem[p].src]
  /\ Goto(p, IF Credits(req[p]) THEN "saveDestination" ELSE "insertTransaction")
  /\ UNCHANGED <<transactions, ledger, opening, lock, req, mem, dirty>>

SaveSource(p) ==
  /\ pc[p] = "saveSource"
  /\ dirty' = [dirty EXCEPT ![p][req[p].src] = mem[p].src]
  /\ Goto(p, IF Credits(req[p]) THEN "saveDestination" ELSE "insertTransaction")
  /\ UNCHANGED <<tables, lock, req, mem>>

SaveDestination(p) ==
  /\ pc[p] = "saveDestination"
  /\ Fits(mem[p].dst)
  /\ dirty' = [dirty EXCEPT ![p][req[p].dst] = mem[p].dst]
  /\ Goto(p, "insertTransaction")
  /\ UNCHANGED <<tables, lock, req, mem>>

DestinationOverflows(p) ==
  /\ pc[p] = "saveDestination"
  /\ ~ Fits(mem[p].dst)
  /\ StatementFails(p)

InsertTransaction(p) ==
  /\ pc[p] = "insertTransaction"
  /\ req[p].type \in TransactionType
  /\ Goto(p, "insertLedger")
  /\ UNCHANGED <<tables, lock, req, mem, dirty>>

TypeRejected(p) ==
  /\ pc[p] = "insertTransaction"
  /\ req[p].type \notin TransactionType
  /\ StatementFails(p)

(* The ledger entry and, for a transfer, the audit record.                  *)
InsertLedger(p) ==
  /\ pc[p] = "insertLedger"
  /\ Goto(p, "commit")
  /\ UNCHANGED <<tables, lock, req, mem, dirty>>

Commit(p) ==
  /\ pc[p] = "commit"
  /\ balance' = [w \in Wallet |->
                   IF dirty[p][w] = Null THEN balance[w] ELSE dirty[p][w]]
  /\ transactions' = transactions \cup {TransactionRow(p)}
  /\ ledger' = Append(ledger, LedgerRow(p))
  /\ EndTransaction(p)
  /\ Goto(p, IF req[p].op = "transfer" THEN "alert" ELSE "done")
  /\ UNCHANGED <<req, mem, opening>>

(* Mutant: a failing alert reaches the catch block of the transaction.      *)
AlertUncaught(p) ==
  /\ pc[p] = "alert"
  /\ PoolHasRoom
  /\ \E l \in {"done", "rollback"} : Goto(p, l)
  /\ UNCHANGED <<tables, lock, req, mem, dirty>>

(* A transfer alerts both owners before it releases its connection, and the *)
(* alerts query the database on further connections of the pool.            *)
Alert(p) ==
  /\ pc[p] = "alert"
  /\ PoolHasRoom
  /\ Goto(p, "done")
  /\ UNCHANGED <<tables, lock, req, mem, dirty>>

(* rollbackTransaction, release, and the error is rethrown.                 *)
Rollback(p) ==
  /\ pc[p] = "rollback"
  /\ EndTransaction(p)
  /\ Goto(p, "failed")
  /\ UNCHANGED <<tables, req, mem>>

-----------------------------------------------------------------------------
(* What PostgreSQL and the environment do.                                  *)

(* The wallet whose lock request p waits for, and who it waits for.         *)
Wanted(p) ==
  CASE pc[p] = "lockSource"      -> {req[p].src}
    [] pc[p] = "lockDestination" -> {req[p].dst}
    [] OTHER                     -> {}
WaitsFor(p, q) == q # p /\ \E w \in Wanted(p) : lock[w] = q

(* p is on a cycle of waiting requests: a set on which everyone waits for a *)
(* member and is waited for by a member (nobody waits for two).             *)
OnCycle(p) ==
  \E S \in SUBSET Proc :
    /\ p \in S
    /\ \A q \in S : /\ \E r \in S : WaitsFor(q, r)
                    /\ \E r \in S : WaitsFor(r, q)

DeadlockVictim(p) == OnCycle(p) /\ StatementFails(p)

(* The server dies: PostgreSQL rolls every open transaction back, and the   *)
(* clients of the requests in flight never get an answer.                   *)
Crash ==
  /\ \E p \in Proc : InFlight(p)
  /\ pc' = [p \in Proc |-> IF InFlight(p) THEN "lost" ELSE pc[p]]
  /\ lock' = [w \in Wallet |-> NoProc]
  /\ dirty' = [p \in Proc |-> NoWrites]
  /\ UNCHANGED <<tables, req, mem>>

AllAnswered == (\A p \in Proc : pc[p] \in Ended \ {"idle"}) /\ UNCHANGED vars

Step(p) ==
  \/ Begin(p) \/ LockSource(p) \/ LockDestination(p)
  \/ Reject(p) \/ Compute(p)
  \/ SaveSource(p) \/ SaveDestination(p) \/ DestinationOverflows(p)
  \/ InsertTransaction(p) \/ TypeRejected(p) \/ InsertLedger(p)
  \/ Commit(p) \/ Alert(p) \/ Rollback(p)
  \/ DeadlockVictim(p)

Next ==
  \/ \E p \in Proc : Submit(p) \/ Step(p)
  \/ Crash
  \/ AllAnswered

Spec == Init /\ [][Next]_vars

(* Node keeps running every request that is not waiting, PostgreSQL grants  *)
(* a free lock and breaks a deadlock, the pool hands out a free connection. *)
(* Clients need not submit anything and nothing needs to crash.             *)
Fairness == \A p \in Proc : WF_vars(Step(p))
FairSpec == Spec /\ Fairness

-----------------------------------------------------------------------------
(* Properties.                                                              *)

(* Every variable has its type; a balance may not become negative.          *)
Balances == Money \cup {Null}
Label == Ended \cup
  {"connect", "lockSource", "lockDestination", "compute", "saveSource",
   "saveDestination", "insertTransaction", "insertLedger", "commit", "alert",
   "rollback"}
TypeOK ==
  /\ balance \in [Wallet -> Balances] /\ opening \in [Wallet -> Balances]
  /\ lock \in [Wallet -> Proc \cup {NoProc}]
  /\ transactions \subseteq
       [reference : Proc, src : Wallet \cup {NoWallet},
        dst : Wallet \cup {NoWallet}, amount : Money, balanceAfter : Money]
  /\ ledger \in Seq([reference : Proc, src : Wallet \cup {NoWallet},
        dst : Wallet \cup {NoWallet}, amount : Money,
        sourceBalanceAfter : Balances, destinationBalanceAfter : Balances])
  /\ pc \in [Proc -> Label]
  /\ req \in [Proc -> Requests \cup {Null}]
  /\ mem \in [Proc -> [src : Balances, dst : Balances]]
  /\ dirty \in [Proc -> [Wallet -> Balances]]

(* The rows a request has locked, by where it is.                           *)
HasSource(p) ==
  /\ pc[p] \in {"lockDestination", "compute", "saveSource", "saveDestination",
                "insertTransaction", "insertLedger", "commit"}
  /\ Debits(req[p])
HasDestination(p) ==
  /\ pc[p] \in {"compute", "saveSource", "saveDestination",
                "insertTransaction", "insertLedger", "commit"}
  /\ Credits(req[p])
Computed(p) ==
  pc[p] \in {"saveSource", "saveDestination", "insertTransaction",
             "insertLedger", "commit"}

(* No lost update: from the moment a request has read a wallet row until it *)
(* commits, what it holds in memory is the row that is still in the table,  *)
(* or that row plus or minus the amount of the request: nobody has changed  *)
(* the row in between, whatever else runs (transfer, deposit, withdraw      *)
(* between their findOne and their commitTransaction).                      *)
NoLostUpdate ==
  \A p \in Proc :
    /\ HasSource(p) =>
         IF Computed(p)
         THEN /\ balance[req[p].src] # Null
              /\ balance[req[p].src] >= req[p].amount
              /\ mem[p].src \in Column(balance[req[p].src] - req[p].amount)
         ELSE mem[p].src \in {Null, balance[req[p].src]}
    /\ HasDestination(p) =>
         IF Computed(p)
         THEN /\ balance[req[p].dst] # Null
              /\ mem[p].dst \in Column(balance[req[p].dst] + req[p].amount)
         ELSE mem[p].dst \in {Null, balance[req[p].dst]}

(* Row locks do their work and are not leaked: a request that has read a    *)
(* row holds its lock until it commits or rolls back, and a lock is only    *)
(* ever held by a request inside its transaction (every path of the         *)
(* try/catch/finally, a failed statement and a crash included).             *)
LockDiscipline ==
  /\ \A p \in Proc :
       /\ HasSource(p) /\ mem[p].src # Null => lock[req[p].src] = p
       /\ HasDestination(p) /\ mem[p].dst # Null => lock[req[p].dst] = p
  /\ \A w \in Wallet : lock[w] # NoProc =>
       /\ Connected(lock[w])
       /\ pc[lock[w]] # "alert"
       /\ w \in {req[lock[w]].src, req[lock[w]].dst}

(* The statement of a wallet: the balance after its last ledger entry is    *)
(* the balance in its row, and without an entry the row never changed       *)
(* (what LedgerService.findByWallet lists against Wallet.balance).          *)
Touches(e, w) == w \in {e.src, e.dst}
AfterEntry(e, w) ==
  IF w = e.src THEN e.sourceBalanceAfter ELSE e.destinationBalanceAfter
LastEntry(i, w) ==
  /\ Touches(ledger[i], w)
  /\ \A j \in 1..Len(ledger) : j > i => ~ Touches(ledger[j], w)
StatementMatchesBalance ==
  \A w \in Wallet :
    /\ (\A i \in 1..Len(ledger) : ~ Touches(ledger[i], w)) =>
         balance[w] = opening[w]
    /\ \A i \in 1..Len(ledger) :
         LastEntry(i, w) => balance[w] = AfterEntry(ledger[i], w)

(* The two records of a movement agree: a ledger entry and a transaction    *)
(* exist together, once per request, with the same ends and amount and the  *)
(* same balance after (the rows InsertTransaction and InsertLedger write).  *)
Agree(e, t) ==
  /\ t.src = e.src /\ t.dst = e.dst /\ t.amount = e.amount
  /\ t.balanceAfter = IF e.src # NoWallet THEN e.sourceBalanceAfter
                                          ELSE e.destinationBalanceAfter
Booked == {ledger[i].reference : i \in 1..Len(ledger)}
BooksAgree ==
  /\ \A i, j \in 1..Len(ledger) :
       ledger[i].reference = ledger[j].reference => i = j
  /\ {t.reference : t \in transactions} = Booked
  /\ \A i \in 1..Len(ledger), t \in transactions :
       t.reference = ledger[i].reference => Agree(ledger[i], t)

(* The answer tells the truth: a request that returned its transaction was  *)
(* booked, and one that was answered with an error moved nothing.           *)
AnswerTellsTruth ==
  \A p \in Proc :
    /\ pc[p] \in {"alert", "done"} => p \in Booked
    /\ pc[p] \in {"failed", "rollback"} => p \notin Booked

(* Money is neither created nor destroyed: what the wallets hold in total   *)
(* is what they held in the beginning plus the deposits minus the           *)
(* withdrawals in the ledger, up to one kobo for each entry whose amount    *)
(* had a fraction of a kobo.                                                *)
Held(table) == SumFunctionOnSet(table, {w \in Wallet : table[w] # Null})
External(e) ==
  IF e.src = NoWallet THEN e.amount
  ELSE IF e.dst = NoWallet THEN -e.amount ELSE 0
Explained ==
  Held(opening) + SumFunction([i \in 1..Len(ledger) |-> External(ledger[i])])
Fractional == {p \in Booked : ~ Whole(req[p].amount)}
Slack == 2 * Cardinality(Fractional)
TotalExplained ==
  LET d == Held(balance) - Explained IN d <= Slack /\ -d <= Slack

(* The requests and the tables behave as the bank of module Bank: every     *)
(* request is settled at most once, in one step, and moves its amount       *)
(* between the wallets it names and no other.                               *)
Abstract ==
  INSTANCE Bank WITH Client <- Proc, Orders <- Requests,
                     funds <- balance, settled <- Booked
RefinesBank == Abstract!Spec

(* Every request a client submits is eventually answered, unless the server *)
(* dies: waiting for connections, waiting for row locks in opposite orders  *)
(* and alerting never leave a request hanging.                              *)
Answered == \A p \in Proc : InFlight(p) ~> ~ InFlight(p)

(* LedgerService.createTransaction: `Cannot transfer to the same wallet'.   *)
NoEntryToItself ==
  \A i \in 1..Len(ledger) : ledger[i].src # ledger[i].dst
=============================================================================
