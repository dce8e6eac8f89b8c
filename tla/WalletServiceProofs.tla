------------------------ MODULE WalletServiceProofs ------------------------
EXTENDS WalletService, FiniteSetTheorems, TLAPS

(* A column that is written a natural number holds an amount of money.      *)
LEMMA ColumnIsMoney ==
  ASSUME NEW x \in Nat, NEW v \in Column(x)
  PROVE  v \in Money
BY DEF Column, Money, Whole

(* An amount that is recorded is an amount of money.                        *)
LEMMA StoredIsMoney ==
  ASSUME NEW a \in Nat
  PROVE  Stored(a) \in Money
BY DEF Stored, Money, Whole

(* The shape of a request: what it debits and credits are wallets.          *)
LEMMA RequestFacts ==
  ASSUME NEW r \in Requests
  PROVE  /\ r.op \in {"transfer", "deposit", "withdraw"}
         /\ r.amount \in Int
         /\ Debits(r) \/ Credits(r)
         /\ Debits(r) => r.src \in Wallet
         /\ ~ Debits(r) => r.src = NoWallet
         /\ Credits(r) => r.dst \in Wallet
         /\ ~ Credits(r) => r.dst = NoWallet
         /\ r # Null
BY ConstantsAssumption DEF RequestType, Debits, Credits

-----------------------------------------------------------------------------
(* Type correctness.  TypeOK is not inductive alone: that the row a commit  *)
(* writes is a balance depends on the request having passed the checks of   *)
(* Accepted, and on its memory holding computed balances by then.           *)

RequestInv ==
  \A p \in Proc :
    /\ pc[p] # "idle" => req[p] \in Requests
    /\ InFlight(p) => Accepted(req[p])
    /\ pc[p] \in {"lockSource", "saveSource"} => Debits(req[p])
    /\ pc[p] \in {"lockDestination", "saveDestination"} => Credits(req[p])

MemInv ==
  \A p \in Proc :
    Computed(p) => /\ Debits(req[p]) => mem[p].src \in Money
                   /\ Credits(req[p]) => mem[p].dst \in Money

TypeInv == TypeOK /\ RequestInv /\ MemInv

(* The initial states are well typed.                                       *)
LEMMA TypeInit == Init => TypeInv
<1> SUFFICES ASSUME Init PROVE TypeInv
  OBVIOUS
<1>1. TypeOK
  BY ConstantsAssumption
  DEF Init, TypeOK, Balances, Label, Ended, NoWrites, Fits
<1>2. RequestInv /\ MemInv
  BY DEF Init, RequestInv, MemInv, Computed, InFlight, Ended
<1> QED
  BY <1>1, <1>2 DEF TypeInv

(* Only a request that waits for a lock can be a deadlock victim.           *)
LEMMA VictimWaits ==
  ASSUME NEW p \in Proc, OnCycle(p)
  PROVE  pc[p] \in {"lockSource", "lockDestination"}
BY DEF OnCycle, WaitsFor, Wanted

(* Every step of a request preserves the types, one case per action.        *)
LEMMA TypeStep ==
  ASSUME TypeInv, NEW p \in Proc, Submit(p) \/ Step(p)
  PROVE  TypeInv'
<1> USE DEF TypeInv
<1>1. CASE Submit(p)
  BY <1>1 DEF Submit, Goto, tables, TypeOK, RequestInv, MemInv, Label, Ended,
              InFlight, Computed, Accepted
<1>2. CASE Begin(p)
  BY <1>2, RequestFacts
  DEF Begin, Goto, tables, TypeOK, RequestInv, MemInv, Label, Ended, InFlight,
      Computed
<1>3. CASE LockSource(p)
  BY <1>3, RequestFacts
  DEF LockSource, Locked, Goto, tables, TypeOK, RequestInv, MemInv, Label,
      Ended, InFlight, Computed
<1>4. CASE LockDestination(p)
  BY <1>4, RequestFacts
  DEF LockDestination, Locked, Goto, tables, TypeOK, RequestInv, MemInv, Label,
      Ended, InFlight, Computed
<1>5. CASE Reject(p)
  BY <1>5 DEF Reject, Goto, tables, TypeOK, RequestInv, MemInv, Label, Ended,
              InFlight, Computed
<1>6. CASE Compute(p)
  <2> USE <1>6 DEF Compute
  <2>1. req[p] \in Requests /\ req[p].amount \in Nat
    BY RequestFacts DEF RequestInv, InFlight, Ended, Accepted
  <2>2. /\ Debits(req[p]) => /\ mem[p].src \in Nat
                             /\ mem[p].src - req[p].amount \in Nat
        /\ Credits(req[p]) => /\ mem[p].dst \in Nat
                              /\ mem[p].dst + req[p].amount \in Nat
    BY <2>1 DEF WalletMissing, Insufficient, TypeOK, Balances, Money
  <2>3. PICK s \in SourceAfter(p), d \in DestinationAfter(p) :
          mem' = [mem EXCEPT ![p] = [src |-> s, dst |-> d]]
    OBVIOUS
  <2>4. /\ s \in Balances /\ d \in Balances
        /\ Debits(req[p]) => s \in Money
        /\ Credits(req[p]) => d \in Money
    BY <2>2, ColumnIsMoney
    DEF SourceAfter, DestinationAfter, Balances, TypeOK
  <2>5. mem' \in [Proc -> [src : Balances, dst : Balances]]
    BY <2>3, <2>4 DEF TypeOK
  <2>6. pc' \in [Proc -> Label] /\ RequestInv'
    BY <2>1, RequestFacts DEF Goto, TypeOK, RequestInv, Label, Ended, InFlight
  <2>7. MemInv'
    BY <2>3, <2>4, <2>6 DEF MemInv, Computed, Goto, TypeOK
  <2> QED
    BY <2>5, <2>6, <2>7 DEF TypeOK, tables
<1>7. CASE SaveSource(p)
  BY <1>7, RequestFacts
  DEF SaveSource, Goto, tables, TypeOK, RequestInv, MemInv, Label,
      Ended, InFlight, Computed
<1>8. CASE SaveDestination(p)
  BY <1>8, RequestFacts
  DEF SaveDestination, Goto, tables, TypeOK, RequestInv, MemInv, Label,
      Ended, InFlight, Computed
<1>9. CASE DestinationOverflows(p)
  BY <1>9, RequestFacts
  DEF DestinationOverflows, StatementFails, EndTransaction, NoWrites,
      Balances, Goto, tables, TypeOK, RequestInv, MemInv, Label, Ended,
      InFlight, Computed
<1>10. CASE InsertTransaction(p)
  BY <1>10, RequestFacts
  DEF InsertTransaction, Goto, tables, TypeOK, RequestInv, MemInv, Label,
      Ended, InFlight, Computed
<1>11. CASE TypeRejected(p)
  BY <1>11, RequestFacts
  DEF TypeRejected, StatementFails, EndTransaction, NoWrites,
      Balances, Goto, tables, TypeOK, RequestInv, MemInv, Label, Ended,
      InFlight, Computed
<1>12. CASE InsertLedger(p)
  BY <1>12, RequestFacts
  DEF InsertLedger, Goto, tables, TypeOK, RequestInv, MemInv, Label,
      Ended, InFlight, Computed
<1>13. CASE Commit(p)
  <2> USE <1>13 DEF Commit
  <2>1. req[p] \in Requests /\ req[p].amount \in Nat
    BY RequestFacts DEF RequestInv, InFlight, Ended, Accepted
  <2>2. /\ Debits(req[p]) => mem[p].src \in Money
        /\ Credits(req[p]) => mem[p].dst \in Money
        /\ mem[p].src \in Balances /\ mem[p].dst \in Balances
    BY DEF MemInv, Computed, TypeOK
  <2>3. Stored(req[p].amount) \in Money
    BY <2>1, StoredIsMoney
  <2>4. /\ req[p].src \in Wallet \cup {NoWallet}
        /\ req[p].dst \in Wallet \cup {NoWallet}
        /\ Debits(req[p]) \/ Credits(req[p])
    BY <2>1, RequestFacts
  <2>5. /\ balance' \in [Wallet -> Balances]
        /\ lock' \in [Wallet -> Proc \cup {NoProc}]
        /\ dirty' \in [Proc -> [Wallet -> Balances]]
    BY DEF EndTransaction, NoWrites, TypeOK, Balances
  <2>6. transactions' \subseteq
          [reference : Proc, src : Wallet \cup {NoWallet},
           dst : Wallet \cup {NoWallet}, amount : Money, balanceAfter : Money]
    BY <2>2, <2>3, <2>4 DEF TransactionRow, TypeOK
  <2>7. LedgerRow(p) \in
          [reference : Proc, src : Wallet \cup {NoWallet},
           dst : Wallet \cup {NoWallet}, amount : Money,
           sourceBalanceAfter : Balances, destinationBalanceAfter : Balances]
    BY <2>2, <2>3, <2>4 DEF LedgerRow, Balances
  <2>8. ledger' \in Seq(
          [reference : Proc, src : Wallet \cup {NoWallet},
           dst : Wallet \cup {NoWallet}, amount : Money,
           sourceBalanceAfter : Balances, destinationBalanceAfter : Balances])
    BY <2>7 DEF TypeOK
  <2>9. pc' \in [Proc -> Label] /\ RequestInv' /\ MemInv'
    BY <2>1
    DEF Goto, TypeOK, RequestInv, MemInv, Label, Ended, InFlight, Computed
  <2> QED
    BY <2>5, <2>6, <2>8, <2>9 DEF TypeOK
<1>14. CASE Alert(p)
  BY <1>14, RequestFacts
  DEF Alert, Goto, tables, TypeOK, RequestInv, MemInv, Label,
      Ended, InFlight, Computed
<1>15. CASE Rollback(p)
  BY <1>15, RequestFacts
  DEF Rollback, EndTransaction, NoWrites,
      Balances, Goto, tables, TypeOK, RequestInv, MemInv, Label, Ended,
      InFlight, Computed
<1>16. CASE DeadlockVictim(p)
  BY <1>16, VictimWaits, RequestFacts
  DEF DeadlockVictim, StatementFails, EndTransaction, NoWrites,
      Balances, Goto, tables, TypeOK, RequestInv, MemInv, Label, Ended,
      InFlight, Computed
<1> QED
  BY <1>1, <1>2, <1>3, <1>4, <1>5, <1>6, <1>7, <1>8, <1>9, <1>10, <1>11,
     <1>12, <1>13, <1>14, <1>15, <1>16
  DEF Step

(* So does every step of the system.                                        *)
LEMMA TypeNext == TypeInv /\ [Next]_vars => TypeInv'
<1> SUFFICES ASSUME TypeInv, [Next]_vars PROVE TypeInv'
  OBVIOUS
<1>1. CASE \E p \in Proc : Submit(p) \/ Step(p)
  BY <1>1, TypeStep
<1>2. CASE Crash
  BY <1>2
  DEF Crash, tables, NoWrites, TypeInv, TypeOK, RequestInv, MemInv, Label,
      Ended, InFlight, Computed, Balances
<1>3. CASE UNCHANGED vars
  BY <1>3
  DEF vars, TypeInv, TypeOK, RequestInv, MemInv, Ended, InFlight, Computed
<1> QED
  BY <1>1, <1>2, <1>3 DEF Next, AllAnswered

(* Every variable keeps its type, whatever the requests, tables, threshold, *)
(* number of concurrent requests and size of the pool: in particular no     *)
(* wallet is ever overdrawn and no row holds more than two decimals.        *)
THEOREM TypeCorrect == Spec => []TypeOK
<1>1. TypeInv => TypeOK
  BY DEF TypeInv
<1> QED
  BY TypeInit, TypeNext, <1>1, PTL DEF Spec

-----------------------------------------------------------------------------
(* Row locks and lost updates.  Neither LockDiscipline nor NoLostUpdate is  *)
(* inductive alone: that a commit overwrites only rows nobody else relies   *)
(* on needs to know that it writes exactly the rows that were saved, which  *)
(* are rows it has read, hence rows it has locked.                          *)

Inserting == {"insertTransaction", "insertLedger", "commit"}
SavedSource(p) ==
  pc[p] \in Inserting \cup {"saveDestination"} /\ Debits(req[p])
SavedDestination(p) == pc[p] \in Inserting /\ Credits(req[p])

Draft(p, w) ==
  IF SavedDestination(p) /\ w = req[p].dst THEN mem[p].dst
  ELSE IF SavedSource(p) /\ w = req[p].src THEN mem[p].src
  ELSE Null

DirtyInv == \A p \in Proc, w \in Wallet : dirty[p][w] = Draft(p, w)

SafetyInv == TypeInv /\ LockDiscipline /\ NoLostUpdate /\ DirtyInv

(* Initially nothing is locked, drafted or in memory.                       *)
LEMMA SafetyInit == Init => SafetyInv
<1> SUFFICES ASSUME Init PROVE SafetyInv
  OBVIOUS
<1>1. LockDiscipline /\ NoLostUpdate
  BY DEF Init, LockDiscipline, NoLostUpdate, HasSource, HasDestination
<1>2. DirtyInv
  BY DEF Init, DirtyInv, Draft, SavedSource, SavedDestination, Inserting,
         NoWrites
<1> QED
  BY TypeInit, <1>1, <1>2 DEF SafetyInv

(* The drafts of a request are exactly what its place in the code has saved. *)
LEMMA DirtyStep ==
  ASSUME SafetyInv, NEW p \in Proc, Submit(p) \/ Step(p)
  PROVE  DirtyInv'
<1> USE DEF SafetyInv, TypeInv, Goto, tables, TypeOK, RequestInv,
            DirtyInv, Draft, SavedSource, SavedDestination, Inserting, NoWrites
<1>1. CASE Submit(p)
  BY <1>1, RequestFacts, ConstantsAssumption
  DEF Submit
<1>2. CASE Begin(p)
  BY <1>2, RequestFacts, ConstantsAssumption
  DEF Begin
<1>3. CASE LockSource(p)
  BY <1>3, RequestFacts, ConstantsAssumption
  DEF LockSource, Locked, Lockable
<1>4. CASE LockDestination(p)
  BY <1>4, RequestFacts, ConstantsAssumption
  DEF LockDestination, Locked, Lockable
<1>5. CASE Reject(p)
  BY <1>5, RequestFacts, ConstantsAssumption
  DEF Reject
<1>6. CASE Compute(p)
  BY <1>6, RequestFacts, ConstantsAssumption
  DEF Compute, WalletMissing, Insufficient, SourceAfter, DestinationAfter
<1>7. CASE SaveSource(p)
  BY <1>7, RequestFacts, ConstantsAssumption
  DEF SaveSource
<1>8. CASE SaveDestination(p)
  BY <1>8, RequestFacts, ConstantsAssumption
  DEF SaveDestination
<1>9. CASE DestinationOverflows(p)
  BY <1>9, RequestFacts, ConstantsAssumption
  DEF DestinationOverflows, StatementFails, EndTransaction
<1>10. CASE InsertTransaction(p)
  BY <1>10, RequestFacts, ConstantsAssumption
  DEF InsertTransaction
<1>11. CASE TypeRejected(p)
  BY <1>11, RequestFacts, ConstantsAssumption
  DEF TypeRejected, StatementFails, EndTransaction
<1>12. CASE InsertLedger(p)
  BY <1>12, RequestFacts, ConstantsAssumption
  DEF InsertLedger
<1>13. CASE Commit(p)
  BY <1>13, RequestFacts, ConstantsAssumption
  DEF Commit, EndTransaction
<1>14. CASE Alert(p)
  BY <1>14, RequestFacts, ConstantsAssumption
  DEF Alert
<1>15. CASE Rollback(p)
  BY <1>15, RequestFacts, ConstantsAssumption
  DEF Rollback, EndTransaction
<1>16. CASE DeadlockVictim(p)
  BY <1>16, VictimWaits, RequestFacts, ConstantsAssumption
  DEF DeadlockVictim, StatementFails, EndTransaction
<1> QED
  BY <1>1, <1>2, <1>3, <1>4, <1>5, <1>6, <1>7, <1>8, <1>9, <1>10, <1>11, <1>12,
     <1>13, <1>14, <1>15, <1>16 DEF Step

(* Every step of a request keeps to the lock discipline.                    *)
LEMMA LockStep ==
  ASSUME SafetyInv, NEW p \in Proc, Submit(p) \/ Step(p)
  PROVE  LockDiscipline'
<1> USE DEF SafetyInv, TypeInv, Goto, tables, TypeOK, RequestInv,
            LockDiscipline, HasSource, HasDestination, Connected, InFlight, Ended
<1>1. CASE Submit(p)
  BY <1>1, RequestFacts, ConstantsAssumption
  DEF Submit
<1>2. CASE Begin(p)
  BY <1>2, RequestFacts, ConstantsAssumption
  DEF Begin
<1>3. CASE LockSource(p)
  BY <1>3, RequestFacts, ConstantsAssumption
  DEF LockSource, Locked, Lockable
<1>4. CASE LockDestination(p)
  BY <1>4, RequestFacts, ConstantsAssumption
  DEF LockDestination, Locked, Lockable
<1>5. CASE Reject(p)
  BY <1>5, RequestFacts, ConstantsAssumption
  DEF Reject
<1>6. CASE Compute(p)
  BY <1>6, RequestFacts, ConstantsAssumption
  DEF Compute, WalletMissing, Insufficient, SourceAfter, DestinationAfter
<1>7. CASE SaveSource(p)
  BY <1>7, RequestFacts, ConstantsAssumption
  DEF SaveSource
<1>8. CASE SaveDestination(p)
  BY <1>8, RequestFacts, ConstantsAssumption
  DEF SaveDestination
<1>9. CASE DestinationOverflows(p)
  BY <1>9, RequestFacts, ConstantsAssumption
  DEF DestinationOverflows, StatementFails, EndTransaction
<1>10. CASE InsertTransaction(p)
  BY <1>10, RequestFacts, ConstantsAssumption
  DEF InsertTransaction
<1>11. CASE TypeRejected(p)
  BY <1>11, RequestFacts, ConstantsAssumption
  DEF TypeRejected, StatementFails, EndTransaction
<1>12. CASE InsertLedger(p)
  BY <1>12, RequestFacts, ConstantsAssumption
  DEF InsertLedger
<1>13. CASE Commit(p)
  BY <1>13, RequestFacts, ConstantsAssumption
  DEF Commit, EndTransaction
<1>14. CASE Alert(p)
  BY <1>14, RequestFacts, ConstantsAssumption
  DEF Alert
<1>15. CASE Rollback(p)
  BY <1>15, RequestFacts, ConstantsAssumption
  DEF Rollback, EndTransaction
<1>16. CASE DeadlockVictim(p)
  BY <1>16, VictimWaits, RequestFacts, ConstantsAssumption
  DEF DeadlockVictim, StatementFails, EndTransaction
<1> QED
  BY <1>1, <1>2, <1>3, <1>4, <1>5, <1>6, <1>7, <1>8, <1>9, <1>10, <1>11, <1>12,
     <1>13, <1>14, <1>15, <1>16 DEF Step

(* No step of a request changes a row another request has read.             *)
LEMMA UpdateStep ==
  ASSUME SafetyInv, NEW p \in Proc, Submit(p) \/ Step(p)
  PROVE  NoLostUpdate'
<1> USE DEF SafetyInv, TypeInv, Goto, tables, TypeOK, RequestInv,
            NoLostUpdate, HasSource, HasDestination, Computed, InFlight, Ended
<1>1. CASE Submit(p)
  BY <1>1, RequestFacts, ConstantsAssumption
  DEF Submit
<1>2. CASE Begin(p)
  BY <1>2, RequestFacts, ConstantsAssumption
  DEF Begin
<1>3. CASE LockSource(p)
  BY <1>3, RequestFacts, ConstantsAssumption
  DEF LockSource, Locked, Lockable
<1>4. CASE LockDestination(p)
  BY <1>4, RequestFacts, ConstantsAssumption
  DEF LockDestination, Locked, Lockable
<1>5. CASE Reject(p)
  BY <1>5, RequestFacts, ConstantsAssumption
  DEF Reject
<1>6. CASE Compute(p)
  <2> USE <1>6 DEF Compute
  <2>1. PICK s \in SourceAfter(p), d \in DestinationAfter(p) :
          mem' = [mem EXCEPT ![p] = [src |-> s, dst |-> d]]
    OBVIOUS
  <2>2. mem'[p].src = s /\ mem'[p].dst = d
    BY <2>1 DEF TypeOK
  <2>3. Debits(req[p]) => /\ balance[req[p].src] # Null
                          /\ balance[req[p].src] >= req[p].amount
                          /\ s \in Column(balance[req[p].src] - req[p].amount)
    <3>1. ASSUME Debits(req[p])
          PROVE  /\ mem[p].src = balance[req[p].src] /\ mem[p].src # Null
                 /\ ~ (mem[p].src < req[p].amount)
                 /\ s \in Column(mem[p].src - req[p].amount)
      BY <3>1, <2>1
      DEF NoLostUpdate, HasSource, Computed, WalletMissing, Insufficient,
          SourceAfter
    <3>2. Debits(req[p]) => mem[p].src \in Int /\ req[p].amount \in Int
      BY <3>1, RequestFacts DEF TypeOK, Balances, Money, RequestInv
    <3> QED
      BY <3>1, <3>2
  <2>4. Credits(req[p]) => /\ balance[req[p].dst] # Null
                           /\ d \in Column(balance[req[p].dst] + req[p].amount)
    BY <2>1
    DEF NoLostUpdate, HasDestination, Computed, WalletMissing,
        DestinationAfter
  <2>5. UNCHANGED <<balance, req>>
    BY DEF tables
  <2>6. Computed(p)'
    BY DEF Computed, Goto, TypeOK
  <2>7. ASSUME NEW q \in Proc, q # p
        PROVE  /\ HasSource(q)' <=> HasSource(q)
               /\ HasDestination(q)' <=> HasDestination(q)
               /\ Computed(q)' <=> Computed(q)
               /\ mem'[q] = mem[q]
    BY <2>1, <2>7 DEF HasSource, HasDestination, Computed, Goto, TypeOK, tables
  <2>8. /\ HasSource(p)' => Debits(req[p])
        /\ HasDestination(p)' => Credits(req[p])
    BY <2>5 DEF HasSource, HasDestination
  <2> QED
    BY <2>2, <2>3, <2>4, <2>5, <2>6, <2>7, <2>8 DEF NoLostUpdate
<1>7. CASE SaveSource(p)
  BY <1>7, RequestFacts, ConstantsAssumption
  DEF SaveSource
<1>8. CASE SaveDestination(p)
  BY <1>8, RequestFacts, ConstantsAssumption
  DEF SaveDestination
<1>9. CASE DestinationOverflows(p)
  BY <1>9, RequestFacts, ConstantsAssumption
  DEF DestinationOverflows, StatementFails, EndTransaction
<1>10. CASE InsertTransaction(p)
  BY <1>10, RequestFacts, ConstantsAssumption
  DEF InsertTransaction
<1>11. CASE TypeRejected(p)
  BY <1>11, RequestFacts, ConstantsAssumption
  DEF TypeRejected, StatementFails, EndTransaction
<1>12. CASE InsertLedger(p)
  BY <1>12, RequestFacts, ConstantsAssumption
  DEF InsertLedger
<1>13. CASE Commit(p)
  <2> USE <1>13 DEF Commit
  <2>1. ASSUME NEW w \in Wallet, balance'[w] # balance[w]
        PROVE  lock[w] = p /\ balance[w] # Null
    <3>1. dirty[p][w] = Draft(p, w) /\ dirty[p][w] # Null
      BY <2>1 DEF DirtyInv
    <3>2. \/ HasDestination(p) /\ w = req[p].dst /\ mem[p].dst # Null
          \/ HasSource(p) /\ w = req[p].src /\ mem[p].src # Null
      BY <3>1
      DEF Draft, SavedSource, SavedDestination, Inserting, HasSource,
          HasDestination
    <3>3. Computed(p)
      BY DEF Computed
    <3> QED
      BY <3>2, <3>3 DEF LockDiscipline, NoLostUpdate
  <2>2. ASSUME NEW q \in Proc, NEW w \in Wallet, q # p,
               lock[w] = q \/ balance[w] = Null
        PROVE  balance'[w] = balance[w]
    BY <2>1, <2>2
  <2>3. ~ HasSource(p)' /\ ~ HasDestination(p)'
    BY DEF HasSource, HasDestination, Goto, TypeOK
  <2>4. ASSUME NEW q \in Proc, q # p
        PROVE  /\ HasSource(q)' <=> HasSource(q)
               /\ HasDestination(q)' <=> HasDestination(q)
               /\ Computed(q)' <=> Computed(q)
    BY <2>4 DEF HasSource, HasDestination, Computed, Goto, TypeOK
  <2>5. ASSUME NEW q \in Proc, q # p, HasSource(q)
        PROVE  \/ mem[q].src = Null /\ ~ Computed(q)
               \/ balance'[req[q].src] = balance[req[q].src]
    <3>1. CASE mem[q].src = Null
      BY <2>5, <3>1, ConstantsAssumption DEF MemInv, HasSource, Money
    <3>2. CASE mem[q].src # Null
      <4>1. req[q].src \in Wallet /\ lock[req[q].src] = q
        BY <2>5, <3>2, RequestFacts DEF HasSource, RequestInv, LockDiscipline
      <4> QED
        BY <2>2, <2>5, <4>1
    <3> QED
      BY <3>1, <3>2
  <2>6. ASSUME NEW q \in Proc, q # p, HasDestination(q)
        PROVE  \/ mem[q].dst = Null /\ ~ Computed(q)
               \/ balance'[req[q].dst] = balance[req[q].dst]
    <3>1. CASE mem[q].dst = Null
      BY <2>6, <3>1, ConstantsAssumption DEF MemInv, HasDestination, Money
    <3>2. CASE mem[q].dst # Null
      <4>1. req[q].dst \in Wallet /\ lock[req[q].dst] = q
        BY <2>6, <3>2, RequestFacts DEF HasDestination, RequestInv, LockDiscipline
      <4> QED
        BY <2>2, <2>6, <4>1
    <3> QED
      BY <3>1, <3>2
  <2> QED
    BY <2>3, <2>4, <2>5, <2>6 DEF NoLostUpdate
<1>14. CASE Alert(p)
  BY <1>14, RequestFacts, ConstantsAssumption
  DEF Alert
<1>15. CASE Rollback(p)
  BY <1>15, RequestFacts, ConstantsAssumption
  DEF Rollback, EndTransaction
<1>16. CASE DeadlockVictim(p)
  BY <1>16, VictimWaits, RequestFacts, ConstantsAssumption
  DEF DeadlockVictim, StatementFails, EndTransaction
<1> QED
  BY <1>1, <1>2, <1>3, <1>4, <1>5, <1>6, <1>7, <1>8, <1>9, <1>10, <1>11, <1>12,
     <1>13, <1>14, <1>15, <1>16 DEF Step

(* The three together are inductive.                                        *)
LEMMA SafetyNext == SafetyInv /\ [Next]_vars => SafetyInv'
<1> SUFFICES ASSUME SafetyInv, [Next]_vars PROVE SafetyInv'
  OBVIOUS
<1>1. TypeInv'
  BY TypeNext DEF SafetyInv
<1>2. CASE \E p \in Proc : Submit(p) \/ Step(p)
  BY <1>1, <1>2, DirtyStep, LockStep, UpdateStep DEF SafetyInv
<1>3. CASE Crash
  <2>1. \A p \in Proc : pc'[p] \in Ended
    BY <1>3 DEF Crash, InFlight, Ended
  <2>2. LockDiscipline' /\ NoLostUpdate'
    BY <1>3, <2>1
    DEF Crash, LockDiscipline, NoLostUpdate, HasSource, HasDestination, Ended
  <2>3. DirtyInv'
    BY <1>3, <2>1
    DEF Crash, DirtyInv, Draft, SavedSource, SavedDestination, Inserting,
        Ended, NoWrites
  <2> QED
    BY <1>1, <2>2, <2>3 DEF SafetyInv
<1>4. CASE UNCHANGED vars
  BY <1>1, <1>4
  DEF vars, SafetyInv, LockDiscipline, NoLostUpdate, DirtyInv, Draft,
      SavedSource, SavedDestination, HasSource, HasDestination, Computed,
      Connected, InFlight
<1> QED
  BY <1>2, <1>3, <1>4 DEF Next, AllAnswered

(* No interleaving of transfers, deposits and withdrawals loses an update:  *)
(* a request computes from, and overwrites, the row that is in the table.   *)
THEOREM NoUpdateIsLost == Spec => []NoLostUpdate
<1>1. SafetyInv => NoLostUpdate
  BY DEF SafetyInv
<1> QED
  BY SafetyInit, SafetyNext, <1>1, PTL DEF Spec

(* A request holds the lock of every row it has read, and no request that   *)
(* has left its transaction holds one, on any path.                         *)
THEOREM LocksAreDisciplined == Spec => []LockDiscipline
<1>1. SafetyInv => LockDiscipline
  BY DEF SafetyInv
<1> QED
  BY SafetyInit, SafetyNext, <1>1, PTL DEF Spec

-----------------------------------------------------------------------------
(* The books.                                                               *)

Answers ==
  \A p \in Proc :
    /\ pc[p] \in {"alert", "done"} => p \in Booked
    /\ pc[p] \notin {"alert", "done", "lost"} => p \notin Booked

BooksInv == SafetyInv /\ BooksAgree /\ Answers

(* A commit adds one transaction and one ledger entry under one reference.  *)
LEMMA CommitBooks ==
  ASSUME SafetyInv, NEW p \in Proc, Commit(p)
  PROVE  /\ Len(ledger') = Len(ledger) + 1 /\ Len(ledger) \in Nat
         /\ \A i \in 1..Len(ledger) : ledger'[i] = ledger[i]
         /\ ledger'[Len(ledger) + 1] = LedgerRow(p)
         /\ Booked' = Booked \cup {p}
<1>1. /\ Len(ledger') = Len(ledger) + 1 /\ Len(ledger) \in Nat
      /\ \A i \in 1..Len(ledger) : ledger'[i] = ledger[i]
      /\ ledger'[Len(ledger) + 1] = LedgerRow(p)
  BY DEF Commit, SafetyInv, TypeInv, TypeOK
<1>2. LedgerRow(p).reference = p
  BY DEF LedgerRow
<1> QED
  BY <1>1, <1>2 DEF Booked

(* Every other step leaves the tables alone, and only ends a request that   *)
(* has not committed in "failed" or "lost".                                 *)
LEMMA OtherBooks ==
  ASSUME BooksInv, [Next]_vars, \A p \in Proc : ~ Commit(p)
  PROVE  UNCHANGED tables /\ Answers'
<1> USE DEF BooksInv, SafetyInv, TypeInv
<1>1. ASSUME NEW p \in Proc, Submit(p) \/ Step(p)
      PROVE  /\ UNCHANGED tables
             /\ \E l \in Label :
                   /\ pc' = [pc EXCEPT ![p] = l]
                   /\ l \in {"alert", "done"} => pc[p] \in {"alert", "done"}
                   /\ pc[p] \in {"alert", "done", "lost"} =>
                        l \in {"alert", "done"}
  BY <1>1, VictimWaits
  DEF Step, Submit, Begin, LockSource, LockDestination, Reject, Compute,
      SaveSource, SaveDestination, DestinationOverflows, InsertTransaction,
      TypeRejected, InsertLedger, Alert, Rollback, DeadlockVictim,
      StatementFails, Goto, Label, Ended
<1>2. CASE \E p \in Proc : Submit(p) \/ Step(p)
  <2>1. PICK p \in Proc : Submit(p) \/ Step(p)
    BY <1>2
  <2>2. PICK l \in Label :
          /\ pc' = [pc EXCEPT ![p] = l]
          /\ l \in {"alert", "done"} => pc[p] \in {"alert", "done"}
          /\ pc[p] \in {"alert", "done", "lost"} => l \in {"alert", "done"}
    BY <1>1, <2>1
  <2>3. UNCHANGED tables
    BY <1>1, <2>1
  <2>4. Booked' = Booked
    BY <2>3 DEF Booked, tables
  <2> QED
    BY <2>2, <2>3, <2>4 DEF Answers, TypeOK
<1>3. CASE Crash
  BY <1>3 DEF Crash, Answers, Booked, tables, InFlight, Ended
<1>4. CASE UNCHANGED vars
  BY <1>4 DEF vars, tables, Answers, Booked
<1> QED
  BY <1>2, <1>3, <1>4 DEF Next, AllAnswered

(* Initially nothing is booked.                                             *)
LEMMA BooksInit == Init => BooksInv
<1> SUFFICES ASSUME Init PROVE BooksInv
  OBVIOUS
<1>1. BooksAgree /\ Answers
  BY DEF Init, BooksAgree, Answers, Booked
<1> QED
  BY SafetyInit, <1>1 DEF BooksInv

(* Every step keeps the books in agreement.                                 *)
LEMMA BooksNext == BooksInv /\ [Next]_vars => BooksInv'
<1> SUFFICES ASSUME BooksInv, [Next]_vars PROVE BooksInv'
  OBVIOUS
<1>1. SafetyInv'
  BY SafetyNext DEF BooksInv
<1>2. CASE \E p \in Proc : Commit(p)
  <2>1. PICK p \in Proc : Commit(p)
    BY <1>2
  <2>2. /\ Len(ledger') = Len(ledger) + 1 /\ Len(ledger) \in Nat
        /\ \A i \in 1..Len(ledger) : ledger'[i] = ledger[i]
        /\ ledger'[Len(ledger) + 1] = LedgerRow(p)
        /\ Booked' = Booked \cup {p}
    BY <2>1, CommitBooks DEF BooksInv
  <2>3. p \notin Booked /\ transactions' = transactions \cup {TransactionRow(p)}
    BY <2>1 DEF BooksInv, Answers, Commit
  <2>4. LedgerRow(p).reference = p /\ TransactionRow(p).reference = p
    BY DEF LedgerRow, TransactionRow
  <2>5. Agree(LedgerRow(p), TransactionRow(p))
    <3>1. req[p] \in Requests
      BY <2>1 DEF Commit, BooksInv, SafetyInv, TypeInv, RequestInv
    <3>2. Debits(req[p]) <=> req[p].src # NoWallet
      BY <3>1, RequestFacts, ConstantsAssumption
    <3>3. ~ Debits(req[p]) => Credits(req[p])
      BY <3>1, RequestFacts
    <3> QED
      BY <3>2, <3>3 DEF Agree, LedgerRow, TransactionRow
  <2>6. \A i \in 1..Len(ledger) : ledger[i].reference \in Booked
    BY DEF Booked
  <2>7. \A i, j \in 1..Len(ledger') :
          ledger'[i].reference = ledger'[j].reference => i = j
    BY <2>2, <2>3, <2>4, <2>6 DEF BooksInv, BooksAgree
  <2>8. {t.reference : t \in transactions'} = Booked'
    BY <2>2, <2>3, <2>4 DEF BooksInv, BooksAgree
  <2>9. ASSUME NEW i \in 1..Len(ledger'), NEW t \in transactions',
               t.reference = ledger'[i].reference
        PROVE  Agree(ledger'[i], t)
    <3>1. CASE i = Len(ledger) + 1 /\ t = TransactionRow(p)
      BY <2>2, <2>5, <3>1
    <3>2. CASE i \in 1..Len(ledger) /\ t \in transactions
      BY <2>2, <2>9, <3>2 DEF BooksInv, BooksAgree
    <3>3. CASE i = Len(ledger) + 1 /\ t \in transactions
      <4>1. t.reference \in Booked
        BY <3>3 DEF BooksInv, BooksAgree
      <4> QED
        BY <2>2, <2>3, <2>4, <2>9, <3>3, <4>1
    <3>4. CASE i \in 1..Len(ledger) /\ t = TransactionRow(p)
      BY <2>2, <2>3, <2>4, <2>6, <2>9, <3>4
    <3> QED
      BY <2>2, <2>3, <3>1, <3>2, <3>3, <3>4
  <2>10. Answers'
    BY <2>1, <2>2 DEF Answers, BooksInv, SafetyInv, TypeInv, TypeOK, Commit,
       Goto
  <2> QED
    BY <1>1, <2>7, <2>8, <2>9, <2>10 DEF BooksInv, BooksAgree
<1>3. CASE \A p \in Proc : ~ Commit(p)
  <2>1. UNCHANGED <<transactions, ledger>> /\ Answers'
    BY <1>3, OtherBooks DEF tables
  <2>2. BooksAgree'
    BY <2>1 DEF BooksInv, BooksAgree, Booked
  <2> QED
    BY <1>1, <2>1, <2>2 DEF BooksInv
<1> QED
  BY <1>2, <1>3

(* Every movement has one transaction and one ledger entry that agree.      *)
THEOREM BooksAlwaysAgree == Spec => []BooksAgree
<1>1. BooksInv => BooksAgree
  BY DEF BooksInv
<1> QED
  BY BooksInit, BooksNext, <1>1, PTL DEF Spec

(* A request that returned a transaction was booked; one that was answered  *)
(* with an error was not.                                                   *)
THEOREM AnswersTellTheTruth == Spec => []AnswerTellsTruth
<1>1. BooksInv => AnswerTellsTruth
  BY DEF BooksInv, Answers, AnswerTellsTruth
<1> QED
  BY BooksInit, BooksNext, <1>1, PTL DEF Spec

-----------------------------------------------------------------------------
(* What holds when no transfer names one wallet twice (WalletService does   *)
(* not refuse such a transfer; see NoEntryToItself).                        *)

DistinctEnds == \A r \in Requests : r.src # r.dst

FitsInv == \A p \in Proc : SavedDestination(p) => Fits(mem[p].dst)

(* Initially no destination balance is about to be saved.                   *)
LEMMA FitsInit == Init => FitsInv
BY DEF Init, FitsInv, SavedDestination, Inserting

(* A destination balance that was saved fits its column.                    *)
LEMMA FitsNext == TypeInv /\ FitsInv /\ [Next]_vars => FitsInv'
<1> SUFFICES ASSUME TypeInv, FitsInv, [Next]_vars PROVE FitsInv'
  OBVIOUS
<1> USE DEF TypeInv
<1>1. ASSUME NEW p \in Proc, Submit(p) \/ Step(p)
      PROVE  /\ \A q \in Proc : q # p => /\ pc'[q] = pc[q]
                                         /\ mem'[q] = mem[q]
                                         /\ req'[q] = req[q]
             /\ pc'[p] \in Inserting =>
                  \/ pc[p] \in Inserting /\ UNCHANGED <<mem, req>>
                  \/ ~ Credits(req'[p])
                  \/ Fits(mem'[p].dst)
  BY <1>1, VictimWaits
  DEF Step, Submit, Begin, LockSource, LockDestination, Reject, Compute,
      SaveSource, SaveDestination, DestinationOverflows, InsertTransaction,
      TypeRejected, InsertLedger, Commit, Alert, Rollback, DeadlockVictim,
      StatementFails, Goto, TypeOK, Inserting
<1>2. CASE \E p \in Proc : Submit(p) \/ Step(p)
  BY <1>1, <1>2 DEF FitsInv, SavedDestination
<1>3. CASE Crash
  BY <1>3 DEF Crash, FitsInv, SavedDestination, Inserting, InFlight, Ended
<1>4. CASE UNCHANGED vars
  BY <1>4 DEF vars, FitsInv, SavedDestination
<1> QED
  BY <1>2, <1>3, <1>4 DEF Next, AllAnswered

(* What a commit does to the wallets table.                                 *)
LEMMA CommitMoves ==
  ASSUME DistinctEnds, SafetyInv, NEW p \in Proc, Commit(p)
  PROVE  /\ req[p] \in Requests /\ req[p].amount \in Nat \ {0}
         /\ Debits(req[p]) =>
              /\ balance'[req[p].src] = mem[p].src
              /\ balance[req[p].src] \in Money
              /\ balance[req[p].src] >= req[p].amount
              /\ mem[p].src \in Column(balance[req[p].src] - req[p].amount)
         /\ Credits(req[p]) =>
              /\ balance'[req[p].dst] = mem[p].dst
              /\ balance[req[p].dst] \in Money
              /\ mem[p].dst \in Column(balance[req[p].dst] + req[p].amount)
         /\ \A w \in Wallet \ {req[p].src, req[p].dst} :
              balance'[w] = balance[w]
         /\ balance' = [w \in Wallet |-> balance'[w]]
<1> USE DEF SafetyInv, TypeInv
<1>1. /\ req[p] \in Requests /\ req[p].amount \in Nat \ {0}
      /\ req[p].src # req[p].dst
  BY RequestFacts DEF Commit, RequestInv, InFlight, Ended, Accepted,
     DistinctEnds
<1>2. /\ Debits(req[p]) => req[p].src \in Wallet
      /\ ~ Debits(req[p]) => req[p].src = NoWallet
      /\ Credits(req[p]) => req[p].dst \in Wallet
      /\ ~ Credits(req[p]) => req[p].dst = NoWallet
  BY <1>1, RequestFacts
<1>3. Computed(p) /\ pc[p] = "commit"
  BY DEF Commit, Computed
<1>4. /\ Debits(req[p]) => mem[p].src \in Money
      /\ Credits(req[p]) => mem[p].dst \in Money
  BY <1>3 DEF MemInv
<1>5. \A w \in Wallet :
        balance'[w] = IF Draft(p, w) = Null THEN balance[w] ELSE Draft(p, w)
  BY DEF Commit, DirtyInv
<1>6. \A w \in Wallet :
        Draft(p, w) = IF Credits(req[p]) /\ w = req[p].dst THEN mem[p].dst
                      ELSE IF Debits(req[p]) /\ w = req[p].src THEN mem[p].src
                      ELSE Null
  BY <1>3 DEF Draft, SavedDestination, SavedSource, Inserting
<1>7. /\ Debits(req[p]) =>
           /\ balance[req[p].src] # Null
           /\ balance[req[p].src] >= req[p].amount
           /\ mem[p].src \in Column(balance[req[p].src] - req[p].amount)
      /\ Credits(req[p]) =>
           /\ balance[req[p].dst] # Null
           /\ mem[p].dst \in Column(balance[req[p].dst] + req[p].amount)
  BY <1>3 DEF NoLostUpdate, HasSource, HasDestination
<1>8. Null \notin Money
  BY ConstantsAssumption DEF Money
<1>9. balance' = [w \in Wallet |-> balance'[w]]
  BY DEF Commit
<1> QED
  BY <1>1, <1>2, <1>4, <1>5, <1>6, <1>7, <1>8, <1>9 DEF TypeOK, Balances

(* A commit is a step of the bank.                                          *)
LEMMA CommitSettles ==
  ASSUME DistinctEnds, BooksInv, FitsInv, NEW p \in Proc, Commit(p)
  PROVE  Abstract!Settle(p, req[p])
<1> DEFINE r == req[p]
<1>1. SafetyInv /\ p \notin Booked /\ Booked' = Booked \cup {p}
  BY CommitBooks DEF BooksInv, Answers, Commit
<1>2. /\ r \in Requests /\ r.amount \in Nat \ {0} /\ r.src # r.dst
      /\ balance \in [Wallet -> Balances]
      /\ Debits(r) => r.src \in Wallet
      /\ Credits(r) => r.dst \in Wallet
      /\ r.op \in {"transfer", "deposit", "withdraw"}
  BY <1>1, CommitMoves, RequestFacts
  DEF DistinctEnds, SafetyInv, TypeInv, TypeOK
<1>3. /\ Debits(r) => /\ balance'[r.src] = mem[p].src
                      /\ balance[r.src] \in Money
                      /\ mem[p].src \in Abstract!PaidOut(r.src, r.amount)
      /\ Credits(r) => /\ balance'[r.dst] = mem[p].dst
                       /\ balance[r.dst] \in Money
                       /\ mem[p].dst \in Abstract!PaidIn(r.dst, r.amount)
  <2>1. Credits(r) => Fits(mem[p].dst)
    BY DEF FitsInv, SavedDestination, Inserting, Commit
  <2> QED
    BY <1>1, <2>1, CommitMoves
    DEF Abstract!PaidOut, Abstract!PaidIn, Abstract!Column, Abstract!Fits,
        Abstract!Whole, Column, Fits, Whole
<1>4. /\ \A w \in Wallet \ {r.src, r.dst} : balance'[w] = balance[w]
      /\ balance' = [w \in Wallet |-> balance'[w]]
  BY <1>1, CommitMoves
<1>5. Null \notin Money
  BY ConstantsAssumption DEF Money
<1>6. CASE r.op = "transfer"
  <2>1. Debits(r) /\ Credits(r)
    BY <1>6 DEF Debits, Credits
  <2>2. balance' = [balance EXCEPT ![r.src] = mem[p].src, ![r.dst] = mem[p].dst]
    BY <1>2, <1>3, <1>4, <2>1
  <2>3. Abstract!Transfer(r)
    BY <1>2, <1>3, <1>5, <1>6, <2>1, <2>2
    DEF Abstract!Transfer, Abstract!Exists
  <2> QED
    BY <1>1, <1>2, <2>3 DEF Abstract!Settle
<1>7. CASE r.op = "deposit"
  <2>1. ~ Debits(r) /\ Credits(r)
    BY <1>7 DEF Debits, Credits
  <2>2. r.src \notin Wallet
    BY <1>2, <2>1, RequestFacts, ConstantsAssumption
  <2>3. balance' = [balance EXCEPT ![r.dst] = mem[p].dst]
    BY <1>2, <1>3, <1>4, <2>1, <2>2
  <2>4. Abstract!Deposit(r)
    BY <1>2, <1>3, <1>5, <1>7, <2>1, <2>3
    DEF Abstract!Deposit, Abstract!Exists
  <2> QED
    BY <1>1, <1>2, <2>4 DEF Abstract!Settle
<1>8. CASE r.op = "withdraw"
  <2>1. Debits(r) /\ ~ Credits(r)
    BY <1>8 DEF Debits, Credits
  <2>2. r.dst \notin Wallet
    BY <1>2, <2>1, RequestFacts, ConstantsAssumption
  <2>3. balance' = [balance EXCEPT ![r.src] = mem[p].src]
    BY <1>2, <1>3, <1>4, <2>1, <2>2
  <2>4. Abstract!Withdraw(r)
    BY <1>2, <1>3, <1>5, <1>8, <2>1, <2>3
    DEF Abstract!Withdraw, Abstract!Exists
  <2> QED
    BY <1>1, <1>2, <2>4 DEF Abstract!Settle
<1> QED
  BY <1>2, <1>6, <1>7, <1>8

RefinementInv == BooksInv /\ FitsInv

(* The initial states are initial states of the bank.                       *)
LEMMA RefinementInit == Init => Abstract!Init
BY ConstantsAssumption
DEF Init, Booked, Abstract!Init, Abstract!Money, Abstract!Whole, Money, Whole,
    Fits

(* Every step is a step of the bank or leaves it alone.                     *)
LEMMA RefinementStep ==
  ASSUME DistinctEnds, RefinementInv, [Next]_vars
  PROVE  [Abstract!Next]_(Abstract!vars)
<1> USE DEF RefinementInv
<1>1. CASE \E p \in Proc : Commit(p)
  <2>1. PICK p \in Proc : Commit(p)
    BY <1>1
  <2>2. Abstract!Settle(p, req[p]) /\ req[p] \in Requests
    BY <2>1, CommitSettles, CommitMoves DEF BooksInv
  <2> QED
    BY <2>2 DEF Abstract!Next
<1>2. CASE \A p \in Proc : ~ Commit(p)
  BY <1>2, OtherBooks DEF tables, Abstract!vars, Booked
<1> QED
  BY <1>1, <1>2

(* The wallet operations, with their locks, sessions, failures and crashes, *)
(* implement the bank: each request moves money at most once, in one step,  *)
(* between its own wallets, and never more than there is.                   *)
THEOREM WalletServiceIsABank ==
  ASSUME DistinctEnds
  PROVE  Spec => RefinesBank
<1>1. RefinementInv /\ [Next]_vars => RefinementInv'
  BY BooksNext, FitsNext DEF RefinementInv, BooksInv, SafetyInv
<1>2. Init => RefinementInv
  BY BooksInit, FitsInit DEF RefinementInv
<1>3. RefinementInv /\ [Next]_vars => [Abstract!Next]_(Abstract!vars)
  BY RefinementStep
<1> QED
  BY RefinementInit, <1>1, <1>2, <1>3, PTL
  DEF Spec, RefinesBank, Abstract!Spec

StatementInv == BooksInv /\ StatementMatchesBalance

(* A commit keeps the last entry of each wallet equal to its balance.       *)
LEMMA StatementStep ==
  ASSUME DistinctEnds, StatementInv, NEW p \in Proc, Commit(p)
  PROVE  StatementMatchesBalance'
<1> USE DEF StatementInv
<1> DEFINE n == Len(ledger)
<1>1. /\ Len(ledger') = n + 1 /\ n \in Nat
      /\ \A i \in 1..n : ledger'[i] = ledger[i]
      /\ ledger'[n + 1] = LedgerRow(p)
  BY CommitBooks DEF BooksInv
<1>2. SafetyInv /\ UNCHANGED opening
  BY DEF BooksInv, Commit
<1>3. ASSUME NEW w \in Wallet, ~ Touches(LedgerRow(p), w)
      PROVE  balance'[w] = balance[w]
  BY <1>2, <1>3, CommitMoves DEF Touches, LedgerRow
<1>4. ASSUME NEW w \in Wallet, Touches(LedgerRow(p), w)
      PROVE  balance'[w] = AfterEntry(LedgerRow(p), w)
  <2>1. /\ Debits(req[p]) => balance'[req[p].src] = mem[p].src
        /\ Credits(req[p]) => balance'[req[p].dst] = mem[p].dst
        /\ req[p] \in Requests /\ req[p].src # req[p].dst
    BY <1>2, CommitMoves DEF DistinctEnds
  <2>2. /\ w = req[p].src => Debits(req[p])
        /\ w = req[p].dst => Credits(req[p])
    BY <2>1, RequestFacts, ConstantsAssumption
  <2> QED
    BY <1>4, <2>1, <2>2 DEF Touches, AfterEntry, LedgerRow
<1>5. ASSUME NEW w \in Wallet,
             \A i \in 1..Len(ledger') : ~ Touches(ledger'[i], w)
      PROVE  balance'[w] = opening'[w]
  <2>1. ~ Touches(LedgerRow(p), w) /\ \A i \in 1..n : ~ Touches(ledger[i], w)
    BY <1>1, <1>5
  <2> QED
    BY <1>2, <1>3, <2>1 DEF StatementMatchesBalance
<1>6. ASSUME NEW w \in Wallet, NEW i \in 1..Len(ledger'), LastEntry(i, w)'
      PROVE  balance'[w] = AfterEntry(ledger'[i], w)
  <2>1. CASE i = n + 1
    BY <1>1, <1>4, <1>6, <2>1 DEF LastEntry
  <2>2. CASE i \in 1..n
    <3>1. ~ Touches(LedgerRow(p), w)
      BY <1>1, <1>6, <2>2 DEF LastEntry
    <3>2. LastEntry(i, w)
      BY <1>1, <1>6, <2>2 DEF LastEntry
    <3> QED
      BY <1>1, <1>3, <2>2, <3>1, <3>2 DEF StatementMatchesBalance
  <2> QED
    BY <1>1, <2>1, <2>2
<1> QED
  BY <1>5, <1>6 DEF StatementMatchesBalance, LastEntry

(* The last ledger entry of a wallet shows the balance of its row.          *)
THEOREM StatementsMatchBalances ==
  ASSUME DistinctEnds
  PROVE  Spec => []StatementMatchesBalance
<1>1. Init => StatementInv
  BY BooksInit DEF Init, StatementInv, StatementMatchesBalance
<1>2. StatementInv /\ [Next]_vars => StatementInv'
  <2> SUFFICES ASSUME StatementInv, [Next]_vars PROVE StatementInv'
    OBVIOUS
  <2>1. BooksInv'
    BY BooksNext DEF StatementInv
  <2>2. CASE \E p \in Proc : Commit(p)
    BY <2>1, <2>2, StatementStep DEF StatementInv
  <2>3. CASE \A p \in Proc : ~ Commit(p)
    BY <2>1, <2>3, OtherBooks
    DEF StatementInv, StatementMatchesBalance, LastEntry, tables
  <2> QED
    BY <2>2, <2>3
<1>3. StatementInv => StatementMatchesBalance
  BY DEF StatementInv
<1> QED
  BY <1>1, <1>2, <1>3, PTL DEF Spec

-----------------------------------------------------------------------------
(* Sums over finite sets, as TotalExplained and SavingsMatchBooks form them.*)
(* SumFunctionOnSet is defined with the recursive function MapThenFoldSet   *)
(* chooses; these lemmas say that there is one and what it yields, by       *)
(* induction over the subsets of a finite set (the strict subset order is   *)
(* well founded: a set of subsets that is not empty has a smallest member). *)

PickOf(s) == CHOOSE x \in s : TRUE
IsSum(f, S, g) ==
  g = [s \in SUBSET S |-> IF s = {} THEN 0 ELSE f[PickOf(s)] + g[s \ {PickOf(s)}]]

(* What is picked from a set with members is a member.                      *)
LEMMA PickIsIn == ASSUME NEW s, s # {} PROVE PickOf(s) \in s
BY DEF PickOf

(* The library's sum is what any function that sums yields.                 *)
LEMMA SumIsChosen ==
  ASSUME NEW f, NEW S
  PROVE  SumFunctionOnSet(f, S) = (CHOOSE g : IsSum(f, S, g))[S]
BY DEF SumFunctionOnSet, FoldFunctionOnSet, MapThenFoldSet, IsSum, PickOf

(* Induction over the subsets of a finite set.                              *)
LEMMA SubsetInduction ==
  ASSUME NEW S, IsFiniteSet(S), NEW Good,
         \A T \in SUBSET S :
           (\A U \in SUBSET T : U # T => U \in Good) => T \in Good
  PROVE  SUBSET S \subseteq Good
<1> DEFINE Bad == (SUBSET S) \ Good
<1>1. SUFFICES ASSUME Bad # {} PROVE FALSE
  OBVIOUS
<1>2. IsWellFoundedOn(StrictSubsetOrdering(S), SUBSET S)
  BY FS_StrictSubsetOrderingWellFounded, FS_FiniteSubsetsOfFinite
<1>3. PICK T \in Bad : \A U \in Bad : <<U, T>> \notin StrictSubsetOrdering(S)
  <2> HIDE DEF Bad
  <2>1. Bad \subseteq SUBSET S
    BY DEF Bad
  <2> QED
    BY <1>1, <1>2, <2>1, WFMin
<1>4. ASSUME NEW U \in SUBSET T, U # T PROVE U \in Good
  BY <1>3, <1>4 DEF StrictSubsetOrdering
<1>5. T \in Good
  <2>1. \A U \in SUBSET T : U # T => U \in Good
    BY <1>4
  <2> QED
    BY <1>3, <2>1
<1> QED
  BY <1>3, <1>5

(* Two functions that sum the same numbers agree where both are defined.    *)
LEMMA SumsAgree ==
  ASSUME NEW S, NEW T \in SUBSET S, IsFiniteSet(T),
         NEW f, NEW e, \A x \in T : f[x] = e[x],
         NEW g, IsSum(f, S, g), NEW h, IsSum(e, T, h)
  PROVE  g[T] = h[T]
<1> DEFINE Good == {s \in SUBSET T : g[s] = h[s]}
<1>1. ASSUME NEW s \in SUBSET T, \A U \in SUBSET s : U # s => U \in Good
      PROVE  s \in Good
  <2>1. g[s] = IF s = {} THEN 0 ELSE f[PickOf(s)] + g[s \ {PickOf(s)}]
    BY DEF IsSum
  <2>2. h[s] = IF s = {} THEN 0 ELSE e[PickOf(s)] + h[s \ {PickOf(s)}]
    BY DEF IsSum
  <2>3. CASE s # {}
    <3>1. PickOf(s) \in s
      BY <2>3, PickIsIn
    <3>2. s \ {PickOf(s)} \in Good
      BY <1>1, <3>1
    <3> QED
      BY <2>1, <2>2, <3>1, <3>2
  <2> QED
    BY <2>1, <2>2, <2>3
<1> HIDE DEF Good
<1>2. SUBSET T \subseteq Good
  BY <1>1, SubsetInduction
<1> QED
  BY <1>2 DEF Good

(* There is such a function.                                                *)
LEMMA SumExists ==
  ASSUME NEW S, IsFiniteSet(S), NEW f
  PROVE  \E g : IsSum(f, S, g)
<1> DEFINE Good == {T \in SUBSET S : \E g : IsSum(f, T, g)}
           G(T) == CHOOSE g : IsSum(f, T, g)
           V(T) == G(T)[T]
<1>1. ASSUME NEW T \in SUBSET S, \A U \in SUBSET T : U # T => U \in Good
      PROVE  T \in Good
  <2>1. ASSUME NEW s \in SUBSET T, s # T
        PROVE  IsSum(f, s, G(s))
    BY <1>1, <2>1
  <2>2. ASSUME NEW s \in SUBSET T, s # T, NEW U \in SUBSET s
        PROVE  G(s)[U] = V(U)
    <3>1. IsFiniteSet(U)
      BY FS_Subset
    <3>2. IsSum(f, s, G(s)) /\ IsSum(f, U, G(U))
      BY <2>1, <2>2
    <3> HIDE DEF G
    <3> QED
      BY <3>1, <3>2, SumsAgree
  <2>3. ASSUME NEW s \in SUBSET T, s # T
        PROVE  V(s) = IF s = {} THEN 0 ELSE f[PickOf(s)] + V(s \ {PickOf(s)})
    <3>1. V(s) = IF s = {} THEN 0
                 ELSE f[PickOf(s)] + G(s)[s \ {PickOf(s)}]
      <4> HIDE DEF G
      <4> QED
        BY <2>1, <2>3 DEF IsSum
    <3> HIDE DEF V, G
    <3> QED
      BY <2>2, <2>3, <3>1
  <2> DEFINE h == [s \in SUBSET T |-> IF s = {} THEN 0
                                      ELSE f[PickOf(s)] + V(s \ {PickOf(s)})]
  <2>4. ASSUME NEW s \in SUBSET T, s # {}
        PROVE  h[s \ {PickOf(s)}] = V(s \ {PickOf(s)})
    <3>1. s \ {PickOf(s)} \in SUBSET T /\ s \ {PickOf(s)} # T
      BY <2>4, PickIsIn
    <3> HIDE DEF V, G
    <3> QED
      BY <2>3, <3>1
  <2>5. IsSum(f, T, h)
    <3>1. h = [s \in SUBSET T |-> IF s = {} THEN 0
                                  ELSE f[PickOf(s)] + h[s \ {PickOf(s)}]]
      <4>1. ASSUME NEW s \in SUBSET T
            PROVE  h[s] = IF s = {} THEN 0 ELSE f[PickOf(s)] + h[s \ {PickOf(s)}]
        <5> HIDE DEF V, G
        <5>1. h[s] = IF s = {} THEN 0 ELSE f[PickOf(s)] + V(s \ {PickOf(s)})
          OBVIOUS
        <5> HIDE DEF h
        <5> QED
          BY <2>4, <5>1
      <4>2. h = [s \in SUBSET T |-> h[s]]
        OBVIOUS
      <4> HIDE DEF h
      <4> QED
        BY <4>1, <4>2
    <3> HIDE DEF h
    <3> QED
      BY <3>1 DEF IsSum
  <2> QED
    BY <2>5
<1> HIDE DEF Good, G
<1>2. SUBSET S \subseteq Good
  BY <1>1, SubsetInduction
<1> QED
  BY <1>2 DEF Good

(* The library's sum is the sum of such a function, for every subset.       *)
LEMMA SumIsSum ==
  ASSUME NEW S, IsFiniteSet(S), NEW f, NEW g, IsSum(f, S, g)
  PROVE  \A T \in SUBSET S : SumFunctionOnSet(f, T) = g[T]
<1> SUFFICES ASSUME NEW T \in SUBSET S PROVE SumFunctionOnSet(f, T) = g[T]
  OBVIOUS
<1>1. IsFiniteSet(T)
  BY FS_Subset
<1> DEFINE h == CHOOSE e : IsSum(f, T, e)
<1>2. IsSum(f, T, h)
  BY <1>1, SumExists
<1>3. SumFunctionOnSet(f, T) = h[T]
  BY SumIsChosen
<1> HIDE DEF h
<1> QED
  BY <1>1, <1>2, <1>3, SumsAgree

(* Nothing adds up to nothing.                                              *)
LEMMA SumEmpty == ASSUME NEW f PROVE SumFunctionOnSet(f, {}) = 0
<1>1. IsFiniteSet({})
  BY FS_EmptySet
<1>2. PICK g : IsSum(f, {}, g)
  BY <1>1, SumExists
<1>3. SumFunctionOnSet(f, {}) = g[{}]
  BY <1>1, <1>2, SumIsSum
<1> QED
  BY <1>2, <1>3 DEF IsSum

(* The same numbers have the same sum.                                      *)
LEMMA SumSame ==
  ASSUME NEW S, IsFiniteSet(S), NEW f, NEW e, \A x \in S : f[x] = e[x]
  PROVE  SumFunctionOnSet(f, S) = SumFunctionOnSet(e, S)
<1>1. PICK g : IsSum(f, S, g)
  BY SumExists
<1>2. PICK h : IsSum(e, S, h)
  BY SumExists
<1>3. SumFunctionOnSet(f, S) = g[S] /\ SumFunctionOnSet(e, S) = h[S]
  BY <1>1, <1>2, SumIsSum
<1> QED
  BY <1>1, <1>2, <1>3, SumsAgree

(* Integers add up to an integer.                                           *)
LEMMA SumIsInt ==
  ASSUME NEW S, IsFiniteSet(S), NEW f, \A x \in S : f[x] \in Int
  PROVE  \A T \in SUBSET S : SumFunctionOnSet(f, T) \in Int
<1>1. PICK g : IsSum(f, S, g)
  BY SumExists
<1> DEFINE Good == {T \in SUBSET S : g[T] \in Int}
<1>2. ASSUME NEW T \in SUBSET S, \A U \in SUBSET T : U # T => U \in Good
      PROVE  T \in Good
  <2>1. g[T] = IF T = {} THEN 0 ELSE f[PickOf(T)] + g[T \ {PickOf(T)}]
    BY <1>1 DEF IsSum
  <2>2. CASE T # {}
    <3>1. PickOf(T) \in T
      BY <2>2, PickIsIn
    <3>2. T \ {PickOf(T)} \in Good
      BY <1>2, <3>1
    <3> QED
      BY <2>1, <2>2, <3>1, <3>2
  <2> QED
    BY <2>1, <2>2
<1> HIDE DEF Good
<1>3. SUBSET S \subseteq Good
  BY <1>2, SubsetInduction
<1> QED
  BY <1>1, <1>3, SumIsSum DEF Good

(* Any number may be taken first.                                           *)
LEMMA SumTakeOne ==
  ASSUME NEW S, IsFiniteSet(S), NEW f, \A x \in S : f[x] \in Int, NEW x \in S
  PROVE  SumFunctionOnSet(f, S) = f[x] + SumFunctionOnSet(f, S \ {x})
<1>1. PICK g : IsSum(f, S, g)
  BY SumExists
<1>2. \A T \in SUBSET S : g[T] \in Int /\ SumFunctionOnSet(f, T) = g[T]
  BY <1>1, SumIsSum, SumIsInt
<1> DEFINE Good == {T \in SUBSET S : \A y \in T : g[T] = f[y] + g[T \ {y}]}
<1>3. ASSUME NEW T \in SUBSET S, \A U \in SUBSET T : U # T => U \in Good
      PROVE  T \in Good
  <2> SUFFICES ASSUME NEW y \in T PROVE g[T] = f[y] + g[T \ {y}]
    OBVIOUS
  <2>1. PICK z \in T : g[T] = f[z] + g[T \ {z}]
    <3>1. PickOf(T) \in T
      BY PickIsIn
    <3> QED
      BY <1>1, <3>1 DEF IsSum
  <2>2. CASE z # y
    <3>1. T \ {z} \in Good /\ T \ {y} \in Good
      BY <1>3
    <3>2. y \in T \ {z} /\ z \in T \ {y}
      BY <2>2
    <3>3. /\ g[T \ {z}] = f[y] + g[(T \ {z}) \ {y}]
          /\ g[T \ {y}] = f[z] + g[(T \ {y}) \ {z}]
      BY <3>1, <3>2
    <3>4. (T \ {z}) \ {y} = (T \ {y}) \ {z}
      OBVIOUS
    <3>5. f[y] \in Int /\ f[z] \in Int /\ g[(T \ {y}) \ {z}] \in Int
      BY <1>2
    <3>6. f[z] + (f[y] + g[(T \ {y}) \ {z}]) =
          f[y] + (f[z] + g[(T \ {y}) \ {z}])
      BY ONLY <3>5
    <3> QED
      BY ONLY <2>1, <3>3, <3>4, <3>6
  <2> QED
    BY <2>1, <2>2
<1> HIDE DEF Good
<1>4. SUBSET S \subseteq Good
  BY <1>3, SubsetInduction
<1> QED
  BY <1>2, <1>4 DEF Good

(* A sum in which one number has changed.                                   *)
LEMMA SumOneChanged ==
  ASSUME NEW S, IsFiniteSet(S), NEW f, NEW e, NEW x \in S,
         \A y \in S : f[y] \in Int /\ e[y] \in Int,
         \A y \in S \ {x} : e[y] = f[y]
  PROVE  SumFunctionOnSet(e, S) = SumFunctionOnSet(f, S) + e[x] - f[x]
<1>1. IsFiniteSet(S \ {x})
  BY FS_Subset
<1>2. SumFunctionOnSet(e, S \ {x}) = SumFunctionOnSet(f, S \ {x})
  BY <1>1, SumSame
<1>3. /\ SumFunctionOnSet(e, S) = e[x] + SumFunctionOnSet(e, S \ {x})
      /\ SumFunctionOnSet(f, S) = f[x] + SumFunctionOnSet(f, S \ {x})
  BY SumTakeOne
<1>4. SumFunctionOnSet(f, S \ {x}) \in Int
  BY SumIsInt
<1> QED
  BY <1>2, <1>3, <1>4

(* A sum over one place more.                                               *)
LEMMA SumOneMore ==
  ASSUME NEW S, IsFiniteSet(S), NEW x, x \notin S, NEW T, T = S \cup {x},
         NEW f, NEW e,
         \A y \in S : f[y] \in Int, \A y \in S : e[y] = f[y], e[x] \in Int
  PROVE  SumFunctionOnSet(e, T) = SumFunctionOnSet(f, S) + e[x]
<1>1. IsFiniteSet(T) /\ x \in T /\ T \ {x} = S
  BY FS_AddElement
<1>2. \A y \in T : e[y] \in Int
  OBVIOUS
<1>3. SumFunctionOnSet(e, T) = e[x] + SumFunctionOnSet(e, S)
  BY <1>1, <1>2, SumTakeOne
<1>4. SumFunctionOnSet(e, S) = SumFunctionOnSet(f, S)
  BY SumSame
<1>5. SumFunctionOnSet(f, S) \in Int
  BY SumIsInt
<1>6. SumFunctionOnSet(e, T) = e[x] + SumFunctionOnSet(f, S)
  BY ONLY <1>3, <1>4, Zenon
<1>7. e[x] \in Int
  OBVIOUS
<1> QED
  BY ONLY <1>5, <1>6, <1>7

-----------------------------------------------------------------------------
(* Where the money is.  A commit changes what the wallets hold in total by  *)
(* what its ledger entry explains, or by a kobo more or less if its amount  *)
(* is not whole; it changes the row of each end, and no row comes or goes.  *)

TotalInv == BooksInv /\ TotalExplained

(* Only so many requests are booked as the ledger has entries.              *)
LEMMA BookedIsFinite ==
  ASSUME Len(ledger) \in Nat
  PROVE  IsFiniteSet(Booked)
<1> DEFINE f == [i \in 1..Len(ledger) |-> ledger[i].reference]
<1>1. f \in Surjection(1..Len(ledger), Booked)
  BY DEF Surjection, Booked
<1>2. IsFiniteSet(1..Len(ledger))
  BY FS_Interval
<1> QED
  BY <1>1, <1>2, FS_Surjection

(* The shape of a ledger entry.                                             *)
LEMMA EntryFacts ==
  ASSUME TypeOK, NEW i \in 1..Len(ledger)
  PROVE  ledger[i].reference \in Proc /\ ledger[i].amount \in Money
<1> DEFINE Row == [reference : Proc, src : Wallet \cup {NoWallet},
                   dst : Wallet \cup {NoWallet}, amount : Money,
                   sourceBalanceAfter : Balances,
                   destinationBalanceAfter : Balances]
<1>1. ledger \in Seq(Row)
  BY DEF TypeOK
<1>2. \A e \in Row : e.reference \in Proc /\ e.amount \in Money
  OBVIOUS
<1> HIDE DEF Row
<1>3. ledger[i] \in Row
  BY <1>1
<1> QED
  BY <1>2, <1>3

(* What the wallets hold is an integer, and so is what the ledger explains. *)
LEMMA TotalsAreIntegers ==
  ASSUME TypeOK, IsFiniteSet(Wallet)
  PROVE  /\ Held(balance) \in Int /\ Held(opening) \in Int
         /\ SumFunction([i \in 1..Len(ledger) |-> External(ledger[i])]) \in Int
         /\ \A i \in 1..Len(ledger) : External(ledger[i]) \in Int
<1>1. ASSUME NEW table \in [Wallet -> Balances] PROVE Held(table) \in Int
  <2> DEFINE rows == {w \in Wallet : table[w] # Null}
  <2>1. IsFiniteSet(rows)
    BY FS_Subset
  <2>2. \A w \in rows : table[w] \in Int
    BY DEF Balances, Money
  <2> HIDE DEF rows
  <2>3. SumFunctionOnSet(table, rows) \in Int
    BY <2>1, <2>2, SumIsInt
  <2> QED
    BY <2>3 DEF Held, rows
<1>2. ASSUME NEW i \in 1..Len(ledger) PROVE External(ledger[i]) \in Int
  <2>1. ledger[i].amount \in Int
    BY EntryFacts DEF Money
  <2> QED
    BY <2>1 DEF External
<1>3. SumFunction([i \in 1..Len(ledger) |-> External(ledger[i])]) \in Int
  <2> DEFINE f == [i \in 1..Len(ledger) |-> External(ledger[i])]
  <2>1. IsFiniteSet(1..Len(ledger))
    BY FS_Interval DEF TypeOK
  <2>2. \A i \in 1..Len(ledger) : f[i] \in Int
    BY <1>2
  <2>3. DOMAIN f = 1..Len(ledger)
    OBVIOUS
  <2> HIDE DEF f
  <2>4. SumFunctionOnSet(f, 1..Len(ledger)) \in Int
    BY <2>1, <2>2, SumIsInt
  <2>5. SumFunction(f) \in Int
    BY <2>3, <2>4 DEF SumFunction
  <2> QED
    BY <2>5 DEF f
<1> QED
  BY <1>1, <1>2, <1>3 DEF TypeOK

(* By how much a commit changes the row of each end of its request.         *)
SourceChange(p) ==
  IF Debits(req[p]) THEN mem[p].src - balance[req[p].src] ELSE 0
DestinationChange(p) ==
  IF Credits(req[p]) THEN mem[p].dst - balance[req[p].dst] ELSE 0

(* What the wallets hold changes by just that.                              *)
LEMMA CommitChangesTotal ==
  ASSUME DistinctEnds, IsFiniteSet(Wallet), SafetyInv, NEW p \in Proc, Commit(p)
  PROVE  Held(balance') = Held(balance) + SourceChange(p) + DestinationChange(p)
<1> DEFINE rows == {w \in Wallet : balance[w] # Null}
           mid == [w \in Wallet |-> IF Debits(req[p]) /\ w = req[p].src
                                    THEN mem[p].src ELSE balance[w]]
<1>1. /\ balance \in [Wallet -> Balances] /\ balance' \in [Wallet -> Balances]
      /\ Null \notin Money /\ Money \subseteq Int
  BY SafetyNext, ConstantsAssumption
  DEF SafetyInv, TypeInv, TypeOK, Next, Step, Money
<1>2. /\ req[p] \in Requests /\ req[p].src # req[p].dst
      /\ Debits(req[p]) => /\ req[p].src \in rows
                           /\ balance'[req[p].src] = mem[p].src
                           /\ mem[p].src \in Int
      /\ Credits(req[p]) => /\ req[p].dst \in rows
                            /\ balance'[req[p].dst] = mem[p].dst
                            /\ mem[p].dst \in Int
      /\ \A w \in Wallet \ {req[p].src, req[p].dst} : balance'[w] = balance[w]
  <2>1. /\ req[p] \in Requests /\ req[p].amount \in Int
        /\ Debits(req[p]) =>
             /\ balance'[req[p].src] = mem[p].src
             /\ balance[req[p].src] \in Money
             /\ mem[p].src \in Column(balance[req[p].src] - req[p].amount)
        /\ Credits(req[p]) =>
             /\ balance'[req[p].dst] = mem[p].dst
             /\ balance[req[p].dst] \in Money
             /\ mem[p].dst \in Column(balance[req[p].dst] + req[p].amount)
        /\ \A w \in Wallet \ {req[p].src, req[p].dst} :
             balance'[w] = balance[w]
    BY CommitMoves
  <2>2. \A x \in Int : \A v \in Column(x) : v \in Int
    BY DEF Column
  <2>3. /\ Debits(req[p]) => balance[req[p].src] - req[p].amount \in Int
        /\ Credits(req[p]) => balance[req[p].dst] + req[p].amount \in Int
    <3>1. /\ req[p].amount \in Int
          /\ Debits(req[p]) => balance[req[p].src] \in Int
          /\ Credits(req[p]) => balance[req[p].dst] \in Int
      BY <1>1, <2>1
    <3> QED
      BY ONLY <3>1
  <2>4. /\ Debits(req[p]) => mem[p].src \in Int
        /\ Credits(req[p]) => mem[p].dst \in Int
    BY <2>1, <2>2, <2>3
  <2>5. /\ Debits(req[p]) => req[p].src \in rows
        /\ Credits(req[p]) => req[p].dst \in rows
    BY <1>1, <2>1, RequestFacts
  <2> QED
    BY <2>1, <2>4, <2>5 DEF DistinctEnds
<1>3. {w \in Wallet : balance'[w] # Null} = rows
  <2>1. /\ Debits(req[p]) => balance'[req[p].src] # Null
        /\ Credits(req[p]) => balance'[req[p].dst] # Null
    BY <1>1, <1>2, ConstantsAssumption
  <2>2. /\ ~ Debits(req[p]) => req[p].src \notin Wallet
        /\ ~ Credits(req[p]) => req[p].dst \notin Wallet
    BY <1>2, RequestFacts, ConstantsAssumption
  <2> QED
    BY <1>2, <2>1, <2>2
<1>4. IsFiniteSet(rows) /\ rows \subseteq Wallet
  BY FS_Subset
<1>5. \A w \in rows : /\ balance[w] \in Int /\ balance'[w] \in Int
                      /\ mid[w] \in Int
  BY <1>1, <1>2, <1>3 DEF Balances
<1>6. \A w \in rows : /\ w # req[p].src => mid[w] = balance[w]
                      /\ w # req[p].dst => balance'[w] = mid[w]
  BY <1>2, RequestFacts, ConstantsAssumption
<1>7. Debits(req[p]) => mid[req[p].src] = mem[p].src
  BY <1>2
<1>8. Credits(req[p]) => mid[req[p].dst] = balance[req[p].dst]
  BY <1>2
<1>9. \A w \in rows : /\ ~ Debits(req[p]) => mid[w] = balance[w]
                      /\ ~ Credits(req[p]) => balance'[w] = mid[w]
  BY <1>2, <1>6, RequestFacts, ConstantsAssumption
<1>10. Held(balance) = SumFunctionOnSet(balance, rows)
  BY DEF Held
<1>11. Held(balance') = SumFunctionOnSet(balance', rows)
  BY <1>3 DEF Held
<1> HIDE DEF rows, mid
<1>12. SumFunctionOnSet(mid, rows) =
         SumFunctionOnSet(balance, rows) + SourceChange(p)
  <2>1. SumFunctionOnSet(balance, rows) \in Int
    BY <1>4, <1>5, SumIsInt
  <2>2. CASE Debits(req[p])
    <3>1. SumFunctionOnSet(mid, rows) =
            SumFunctionOnSet(balance, rows) + mid[req[p].src]
              - balance[req[p].src]
      <4> DEFINE x == req[p].src
      <4>1. x \in rows
        BY <1>2, <2>2
      <4>2. \A w \in rows : balance[w] \in Int /\ mid[w] \in Int
        BY <1>5
      <4>3. \A w \in rows \ {x} : mid[w] = balance[w]
        BY <1>6
      <4> HIDE DEF x
      <4>4. SumFunctionOnSet(mid, rows) =
              SumFunctionOnSet(balance, rows) + mid[x] - balance[x]
        BY <1>4, <4>1, <4>2, <4>3, SumOneChanged
      <4> QED
        BY <4>4 DEF x
    <3>2. balance[req[p].src] \in Int /\ mem[p].src \in Int
      BY <1>2, <1>5, <2>2
    <3> QED
      BY <1>7, <2>1, <2>2, <3>1, <3>2 DEF SourceChange
  <2>3. CASE ~ Debits(req[p])
    <3>1. SumFunctionOnSet(mid, rows) = SumFunctionOnSet(balance, rows)
      BY <1>4, <1>9, <2>3, SumSame
    <3> QED
      BY <2>1, <2>3, <3>1 DEF SourceChange
  <2> QED
    BY <2>2, <2>3
<1>13. SumFunctionOnSet(balance', rows) =
         SumFunctionOnSet(mid, rows) + DestinationChange(p)
  <2>1. SumFunctionOnSet(mid, rows) \in Int
    BY <1>4, <1>5, SumIsInt
  <2>2. CASE Credits(req[p])
    <3>1. SumFunctionOnSet(balance', rows) =
            SumFunctionOnSet(mid, rows) + balance'[req[p].dst]
              - mid[req[p].dst]
      <4> DEFINE x == req[p].dst
      <4>1. x \in rows
        BY <1>2, <2>2
      <4>2. \A w \in rows : mid[w] \in Int /\ balance'[w] \in Int
        BY <1>5
      <4>3. \A w \in rows \ {x} : balance'[w] = mid[w]
        BY <1>6
      <4> HIDE DEF x
      <4>4. SumFunctionOnSet(balance', rows) =
              SumFunctionOnSet(mid, rows) + balance'[x] - mid[x]
        BY <1>4, <4>1, <4>2, <4>3, SumOneChanged
      <4> QED
        BY <4>4 DEF x
    <3>2. balance[req[p].dst] \in Int /\ mem[p].dst \in Int
      BY <1>2, <1>5, <2>2
    <3> QED
      BY <1>2, <1>8, <2>1, <2>2, <3>1, <3>2 DEF DestinationChange
  <2>3. CASE ~ Credits(req[p])
    <3>1. SumFunctionOnSet(balance', rows) = SumFunctionOnSet(mid, rows)
      BY <1>4, <1>9, <2>3, SumSame
    <3> QED
      BY <2>1, <2>3, <3>1 DEF DestinationChange
  <2> QED
    BY <2>2, <2>3
<1> QED
  BY <1>10, <1>11, <1>12, <1>13

(* The ledger entry of a commit explains the change, but for a kobo if the  *)
(* amount is not whole.                                                     *)
LEMMA CommitIsExplained ==
  ASSUME DistinctEnds, SafetyInv, NEW p \in Proc, Commit(p)
  PROVE  LET d == SourceChange(p) + DestinationChange(p)
                  - External(LedgerRow(p))
             s == IF Whole(req[p].amount) THEN 0 ELSE 2
         IN  /\ SourceChange(p) \in Int /\ DestinationChange(p) \in Int
             /\ External(LedgerRow(p)) \in Int
             /\ d <= s /\ -d <= s
<1> DEFINE a == req[p].amount
           b == balance[req[p].src]
           c == balance[req[p].dst]
<1>1. /\ req[p] \in Requests /\ a \in Nat \ {0}
      /\ Debits(req[p]) => b \in Money /\ mem[p].src \in Column(b - a)
      /\ Credits(req[p]) => c \in Money /\ mem[p].dst \in Column(c + a)
  BY CommitMoves
<1>2. /\ LedgerRow(p).src = req[p].src /\ LedgerRow(p).dst = req[p].dst
      /\ LedgerRow(p).amount = a + (a % 2)
  BY DEF LedgerRow, Stored
<1>3. External(LedgerRow(p)) = IF ~ Debits(req[p]) THEN a + (a % 2)
                               ELSE IF ~ Credits(req[p]) THEN -(a + (a % 2))
                               ELSE 0
  <2>1. /\ req[p].src = NoWallet <=> ~ Debits(req[p])
        /\ req[p].dst = NoWallet <=> ~ Credits(req[p])
    BY <1>1, RequestFacts, ConstantsAssumption
  <2> QED
    BY <1>2, <2>1 DEF External
<1>4. Debits(req[p]) =>
        /\ SourceChange(p) \in Int
        /\ IF a % 2 = 0 THEN SourceChange(p) = -a
           ELSE SourceChange(p) \in {-a - 1, -a + 1}
  <2> SUFFICES ASSUME Debits(req[p]) PROVE
        /\ SourceChange(p) \in Int
        /\ IF a % 2 = 0 THEN SourceChange(p) = -a
           ELSE SourceChange(p) \in {-a - 1, -a + 1}
    OBVIOUS
  <2>1. b \in Nat /\ b % 2 = 0 /\ a \in Nat
    BY <1>1 DEF Money, Whole
  <2>2. mem[p].src \in {b - a - 1, b - a, b - a + 1} /\ mem[p].src % 2 = 0
    BY <1>1, <2>1 DEF Column, Whole
  <2>3. SourceChange(p) = mem[p].src - b
    BY DEF SourceChange
  <2> HIDE DEF a, b
  <2> QED
    BY ONLY <2>1, <2>2, <2>3
<1>5. Credits(req[p]) =>
        /\ DestinationChange(p) \in Int
        /\ IF a % 2 = 0 THEN DestinationChange(p) = a
           ELSE DestinationChange(p) \in {a - 1, a + 1}
  <2> SUFFICES ASSUME Credits(req[p]) PROVE
        /\ DestinationChange(p) \in Int
        /\ IF a % 2 = 0 THEN DestinationChange(p) = a
           ELSE DestinationChange(p) \in {a - 1, a + 1}
    OBVIOUS
  <2>1. c \in Nat /\ c % 2 = 0 /\ a \in Nat
    BY <1>1 DEF Money, Whole
  <2>2. mem[p].dst \in {c + a - 1, c + a, c + a + 1} /\ mem[p].dst % 2 = 0
    BY <1>1, <2>1 DEF Column, Whole
  <2>3. DestinationChange(p) = mem[p].dst - c
    BY DEF DestinationChange
  <2> HIDE DEF a, c
  <2> QED
    BY ONLY <2>1, <2>2, <2>3
<1>6. /\ ~ Debits(req[p]) => SourceChange(p) = 0
      /\ ~ Credits(req[p]) => DestinationChange(p) = 0
      /\ Debits(req[p]) \/ Credits(req[p])
  BY <1>1, RequestFacts DEF SourceChange, DestinationChange
<1>7. Whole(a) <=> a % 2 = 0
  BY DEF Whole
<1>8. a \in Nat /\ a % 2 \in {0, 1}
  BY <1>1
<1> HIDE DEF a
<1>9. /\ SourceChange(p) \in Int /\ DestinationChange(p) \in Int
      /\ External(LedgerRow(p)) \in Int
  BY <1>3, <1>4, <1>5, <1>6, <1>8
<1> QED
  <2>1. CASE a % 2 = 0
    <3>1. Whole(req[p].amount)
      BY <1>7, <2>1 DEF a
    <3> QED
      BY ONLY <1>3, <1>4, <1>5, <1>6, <1>8, <1>9, <2>1, <3>1
  <2>2. CASE a % 2 = 1
    <3>1. ~ Whole(req[p].amount)
      BY <1>7, <2>2 DEF a
    <3> QED
      BY ONLY <1>3, <1>4, <1>5, <1>6, <1>8, <1>9, <2>2, <3>1
  <2> QED
    BY <1>8, <2>1, <2>2

(* What a commit adds to the explained total and to the slack.              *)
LEMMA CommitExplains ==
  ASSUME IsFiniteSet(Wallet), BooksInv, NEW p \in Proc, Commit(p)
  PROVE  /\ Explained \in Int
         /\ External(LedgerRow(p)) \in Int =>
              Explained' = Explained + External(LedgerRow(p))
<1> DEFINE n == Len(ledger)
           f == [i \in 1..n |-> External(ledger[i])]
           e == [i \in 1..Len(ledger') |-> External(ledger'[i])]
<1>1. /\ Len(ledger') = n + 1 /\ n \in Nat
      /\ \A i \in 1..n : ledger'[i] = ledger[i]
      /\ ledger'[n + 1] = LedgerRow(p)
  BY CommitBooks DEF BooksInv
<1>2. /\ Held(opening) \in Int /\ SumFunction(f) \in Int
      /\ \A i \in 1..n : External(ledger[i]) \in Int
  BY TotalsAreIntegers DEF BooksInv, SafetyInv, TypeInv
<1>3. Explained = Held(opening) + SumFunction(f)
  BY DEF Explained
<1>4. Explained' = Held(opening) + SumFunction(e)
  BY DEF Explained, Held, External, Commit
<1>5. ASSUME External(LedgerRow(p)) \in Int
      PROVE  SumFunction(e) = SumFunction(f) + External(LedgerRow(p))
  <2>1. /\ IsFiniteSet(1..n) /\ n + 1 \notin 1..n
        /\ 1..Len(ledger') = 1..n \cup {n + 1}
    <3>1. IsFiniteSet(1..n)
      BY <1>1, FS_Interval
    <3>2. n + 1 \notin 1..n /\ 1..(n + 1) = 1..n \cup {n + 1}
      BY <1>1
    <3> QED
      BY <1>1, <3>1, <3>2
  <2>2. \A i \in 1..n : f[i] \in Int /\ e[i] = f[i]
    BY <1>1, <1>2
  <2>3. e[n + 1] = External(LedgerRow(p))
    BY <1>1
  <2>4. DOMAIN f = 1..n /\ DOMAIN e = 1..Len(ledger')
    OBVIOUS
  <2> HIDE DEF e, f, n
  <2>5. SumFunctionOnSet(e, 1..n \cup {n + 1}) =
          SumFunctionOnSet(f, 1..n) + e[n + 1]
    <3> DEFINE N == 1..n
               k == n + 1
               M == 1..n \cup {n + 1}
    <3>1. IsFiniteSet(N) /\ k \notin N /\ M = N \cup {k} /\ e[k] \in Int
      BY <1>5, <2>1, <2>3
    <3>2. \A i \in N : f[i] \in Int /\ e[i] = f[i]
      BY <2>2
    <3> HIDE DEF N, M, k
    <3>3. SumFunctionOnSet(e, M) = SumFunctionOnSet(f, N) + e[k]
      BY <3>1, <3>2, SumOneMore
    <3> QED
      BY <3>3 DEF N, M, k
  <2> QED
    BY <2>1, <2>3, <2>4, <2>5 DEF SumFunction
<1> HIDE DEF e, f
<1> QED
  BY <1>2, <1>3, <1>4, <1>5

(* A request that is booked is what it was when it was booked.              *)
LEMMA BookedRequestsStay ==
  ASSUME BooksInv, [Next]_vars, NEW p \in Booked
  PROVE  p \in Proc /\ req'[p] = req[p]
<1> USE DEF BooksInv, SafetyInv, TypeInv
<1>1. p \in Proc
  <2>1. PICK i \in 1..Len(ledger) : p = ledger[i].reference
    BY DEF Booked
  <2> QED
    BY <2>1, EntryFacts
<1>2. pc[p] # "idle"
  BY <1>1 DEF Answers
<1>3. ASSUME NEW q \in Proc, Submit(q) PROVE req'[p] = req[p]
  BY <1>1, <1>2, <1>3 DEF Submit, TypeOK
<1>4. ASSUME NEW q \in Proc, Step(q) PROVE UNCHANGED req
  BY <1>4
  DEF Step, Begin, LockSource, LockDestination, Reject, Compute, SaveSource,
      SaveDestination, DestinationOverflows, InsertTransaction, TypeRejected,
      InsertLedger, Commit, Alert, Rollback, DeadlockVictim, StatementFails
<1> QED
  BY <1>1, <1>3, <1>4 DEF Next, Crash, AllAnswered, vars

(* A commit of an amount that is not whole adds a kobo of slack.            *)
LEMMA CommitSlack ==
  ASSUME BooksInv, NEW p \in Proc, Commit(p)
  PROVE  /\ Slack \in Int
         /\ Slack' = Slack + IF Whole(req[p].amount) THEN 0 ELSE 2
<1>1. /\ Booked' = Booked \cup {p} /\ p \notin Booked /\ req' = req
      /\ Len(ledger) \in Nat
  BY CommitBooks DEF BooksInv, Answers, Commit
<1>2. IsFiniteSet(Fractional)
  BY <1>1, BookedIsFinite, FS_Subset DEF Fractional
<1>3. /\ Fractional' = IF Whole(req[p].amount) THEN Fractional
                       ELSE Fractional \cup {p}
      /\ p \notin Fractional
  BY <1>1 DEF Fractional
<1>4. Cardinality(Fractional) \in Nat
  BY <1>2, FS_CardinalityType
<1>5. ~ Whole(req[p].amount) =>
        Cardinality(Fractional') = Cardinality(Fractional) + 1
  BY <1>2, <1>3, FS_AddElement
<1> QED
  BY <1>3, <1>4, <1>5 DEF Slack

(* A commit keeps the total explained.                                      *)
LEMMA CommitKeepsTotal ==
  ASSUME DistinctEnds, IsFiniteSet(Wallet), TotalInv, NEW p \in Proc, Commit(p)
  PROVE  TotalExplained'
<1> DEFINE x == External(LedgerRow(p))
           s == IF Whole(req[p].amount) THEN 0 ELSE 2
<1> USE DEF TotalInv, BooksInv
<1>1. Held(balance') = Held(balance) + SourceChange(p) + DestinationChange(p)
  BY CommitChangesTotal
<1>2. /\ SourceChange(p) \in Int /\ DestinationChange(p) \in Int /\ x \in Int
      /\ SourceChange(p) + DestinationChange(p) - x <= s
      /\ -(SourceChange(p) + DestinationChange(p) - x) <= s
  BY CommitIsExplained
<1>3. Explained \in Int /\ Explained' = Explained + x
  BY <1>2, CommitExplains
<1>4. Slack \in Int /\ Slack' = Slack + s
  BY CommitSlack
<1>5. Held(balance) \in Int
  BY TotalsAreIntegers DEF SafetyInv, TypeInv
<1>6. /\ Held(balance) - Explained <= Slack
      /\ -(Held(balance) - Explained) <= Slack
  BY DEF TotalExplained
<1>7. s \in Int
  OBVIOUS
<1> HIDE DEF x, s
<1>8. /\ Held(balance') - Explained' <= Slack'
      /\ -(Held(balance') - Explained') <= Slack'
  BY ONLY <1>1, <1>2, <1>3, <1>4, <1>5, <1>6, <1>7
<1> QED
  BY <1>8 DEF TotalExplained, Held

(* Every other step leaves the money, the entries and the slack alone.      *)
LEMMA OthersKeepTotal ==
  ASSUME TotalInv, [Next]_vars, \A p \in Proc : ~ Commit(p)
  PROVE  TotalExplained'
<1>1. UNCHANGED <<balance, ledger, opening>>
  BY OtherBooks DEF TotalInv, tables
<1>2. Booked' = Booked
  BY <1>1 DEF Booked
<1>3. \A p \in Booked : req'[p] = req[p]
  BY BookedRequestsStay DEF TotalInv
<1>4. Fractional' = Fractional
  BY <1>2, <1>3 DEF Fractional
<1>5. Slack' = Slack
  BY <1>4 DEF Slack
<1>6. Explained' = Explained /\ Held(balance)' = Held(balance)
  BY <1>1 DEF Explained, Held
<1> QED
  BY <1>5, <1>6 DEF TotalInv, TotalExplained

(* Money is neither created nor destroyed: the wallets hold what they held  *)
(* in the beginning plus the deposits minus the withdrawals in the ledger,  *)
(* up to a kobo for each entry of an amount that was not whole.             *)
THEOREM MoneyIsConserved ==
  ASSUME DistinctEnds, IsFiniteSet(Wallet)
  PROVE  Spec => []TotalExplained
<1>1. Init => TotalInv
  <2> SUFFICES ASSUME Init PROVE TotalInv
    OBVIOUS
  <2>1. BooksInv /\ ledger = <<>> /\ balance = opening
    BY BooksInit DEF Init
  <2>2. 1..Len(ledger) = {} /\ Len(ledger) \in Nat /\ Booked = {}
    BY <2>1 DEF Booked
  <2>3. SumFunction([i \in 1..Len(ledger) |-> External(ledger[i])]) = 0
    BY <2>2, SumEmpty DEF SumFunction
  <2>4. Held(balance) \in Int
    BY <2>1, TotalsAreIntegers DEF BooksInv, SafetyInv, TypeInv
  <2>5. Slack = 0
    BY <2>2, FS_EmptySet DEF Slack, Fractional
  <2>6. Explained = Held(balance)
    BY <2>1, <2>3, <2>4 DEF Explained
  <2> QED
    BY <2>1, <2>4, <2>5, <2>6 DEF TotalInv, TotalExplained
<1>2. TotalInv /\ [Next]_vars => TotalInv'
  BY BooksNext, CommitKeepsTotal, OthersKeepTotal DEF TotalInv
<1>3. TotalInv => TotalExplained
  BY DEF TotalInv
<1> QED
  BY <1>1, <1>2, <1>3, PTL DEF Spec
=============================================================================
