--------------------------- MODULE PaystackCredit ---------------------------
(***************************************************************************)
(* VirtualAccountService.creditWallet: a Paystack webhook credits the       *)
(* wallet of the user whose virtual account was paid into, while the        *)
(* requests of WalletService use the same wallets and the same pool.        *)
(*                                                                          *)
(* A delivery is one more session: it takes a connection, reads the wallet  *)
(* on a SECOND connection (walletRepo, so outside its transaction and       *)
(* without a lock), then updates the wallet, the virtual account and the    *)
(* member, and records the movement under PAYSTACK-<event>, a unique        *)
(* reference.  Paystack may deliver an event any number of times.           *)
(***************************************************************************)
EXTENDS WalletService

CONSTANTS
  Hook,           \* deliveries: the members of Proc that are no requests
  User,           \* the users that have a virtual account
  Row,            \* rows of virtual_accounts: user_id is not unique in them
  Event,          \* what Paystack may deliver: [id, row, user, amount, success]
  NoUser          \* the owner of a wallet that belongs to no such user

Client == Proc \ Hook

ASSUME PaystackAssumption ==
  /\ Hook \subseteq Proc /\ NoUser \notin User
  /\ Event \subseteq [id : {e.id : e \in Event}, row : Row, user : User,
                      amount : {a \in Int : Whole(a)}, success : BOOLEAN]
  /\ \A e \in Event : e.id \notin Proc
  /\ \A e, f \in Event : e.id = f.id => e = f
  /\ \A e, f \in Event : e.row = f.row => e.user = f.user

VARIABLES
  owner,          \* owner[w]: the user whose member wallet w is, or NoUser
  account,        \* account[r]: the balance of row r of virtual_accounts
  contribution,   \* contribution[u]: members.contribution_balance, or Null
  accountLock,    \* accountLock[r]: who holds the lock of row r
  hook            \* hook[h]: the event of delivery h and the rows it has read

paystackVars == <<owner, account, contribution, accountLock, hook>>
allVars == <<vars, paystackVars>>
accounts == <<owner, account, contribution>>

NoDelivery == [event |-> Null, account |-> Null, member |-> Null, new |-> FALSE]

PaystackInit ==
  /\ Init
  /\ owner \in [Wallet -> User \cup {NoUser}]
  /\ \A w \in Wallet : balance[w] = Null => owner[w] = NoUser
  /\ \A v, w \in Wallet : owner[v] = owner[w] /\ owner[v] # NoUser => v = w
  /\ account = [r \in Row |-> 0]
  /\ contribution \in [User -> {0, Null}]
  /\ accountLock = [r \in Row |-> NoProc]
  /\ hook = [h \in Hook |-> NoDelivery]

-----------------------------------------------------------------------------
EventOf(h)  == hook[h].event
WalletOf(h) == req[h].dst

(* The lock of the account row, released with the others.                   *)
EndCredit(h) ==
  accountLock' = [r \in Row |-> IF accountLock[r] = h THEN NoProc
                                ELSE accountLock[r]]
CreditFails(h) ==
  /\ StatementFails(h) /\ EndCredit(h)
  /\ UNCHANGED <<accounts, hook>>

(* handleWebhookEvent: an event that is not a success, or without a         *)
(* positive amount, is ignored.  Otherwise the virtual account is loaded:   *)
(* creditWallet will use its balance as it was then.                        *)
Deliver(h) ==
  /\ pc[h] = "idle"
  /\ \E e \in Event :
       IF e.success /\ e.amount > 0
       THEN /\ hook' = [hook EXCEPT ![h].event = e,
                                    ![h].account = account[e.row]]
            /\ Goto(h, "connect")
       ELSE Goto(h, "done") /\ UNCHANGED hook
  /\ UNCHANGED <<tables, lock, req, mem, dirty, accounts, accountLock>>

BeginCredit(h) ==
  /\ pc[h] = "connect"
  /\ PoolHasRoom
  /\ Goto(h, "findWallet")
  /\ UNCHANGED <<tables, lock, req, mem, dirty, paystackVars>>

(* The wallet of the user as walletRepo sees it, or a new row.  `req' keeps *)
(* what is to be booked, in the form of a deposit into that wallet.         *)
Fresh(w) ==
  balance[w] = Null /\ \A g \in Hook : hook[g].new => WalletOf(g) # w
FindWallet(h) ==
  LET mine == {w \in Wallet : balance[w] # Null /\ owner[w] = EventOf(h).user}
  IN /\ pc[h] = "findWallet"
     /\ PoolHasRoom
     /\ \E w \in IF mine # {} THEN mine ELSE {v \in Wallet : Fresh(v)} :
          /\ req' = [req EXCEPT ![h] =
                       [op |-> "deposit", src |-> NoWallet, dst |-> w,
                        amount |-> EventOf(h).amount, otp |-> FALSE,
                        type |-> "contribution"]]
          /\ mem' = [mem EXCEPT ![h].dst = IF mine = {} THEN 0 ELSE balance[w]]
     /\ hook' = [hook EXCEPT ![h].new = (mine = {})]
     /\ Goto(h, "updateWallet")
     /\ UNCHANGED <<tables, lock, dirty, accounts, accountLock>>

(* UPDATE wallets SET balance = balanceBefore + amount: waits for the row,  *)
(* but does not look at it.                                                 *)
UpdateWallet(h) ==
  LET w == WalletOf(h)
      balanceAfter == mem[h].dst + EventOf(h).amount
  IN /\ pc[h] = "updateWallet"
     /\ hook[h].new \/ Lockable(h, w)
     /\ \/ /\ ~ Fits(balanceAfter)
           /\ CreditFails(h)
        \/ /\ Fits(balanceAfter)
           /\ lock' = IF hook[h].new THEN lock ELSE Locked(h, w)
           /\ mem' = [mem EXCEPT ![h].dst = balanceAfter]
           /\ dirty' = [dirty EXCEPT ![h][w] = balanceAfter]
           /\ Goto(h, "updateAccount")
           /\ UNCHANGED <<tables, req, paystackVars>>

(* UPDATE virtual_accounts by the id of the row.  The rows of one user are  *)
(* locked apart, so that two deliveries for it may run side by side.        *)
AccountLockable(h) == accountLock[EventOf(h).row] \in {NoProc, h}

UpdateAccount(h) ==
  /\ pc[h] = "updateAccount"
  /\ AccountLockable(h)
  /\ \/ ~ Fits(hook[h].account + EventOf(h).amount) /\ CreditFails(h)
     \/ /\ Fits(hook[h].account + EventOf(h).amount)
        /\ accountLock' = [accountLock EXCEPT ![EventOf(h).row] = h]
        /\ Goto(h, "readMember")
        /\ UNCHANGED <<tables, lock, req, mem, dirty, accounts, hook>>

(* The member is read inside the transaction, after both updates.           *)
ReadMember(h) ==
  /\ pc[h] = "readMember"
  /\ hook' = [hook EXCEPT ![h].member = contribution[EventOf(h).user]]
  /\ Goto(h, "saveMember")
  /\ UNCHANGED <<tables, lock, req, mem, dirty, accounts, accountLock>>

(* The row of the member is locked by a session that has saved it.          *)
SavedMember(g, u) ==
  /\ pc[g] \in {"record", "commitCredit"}
  /\ EventOf(g).user = u /\ hook[g].member # Null
SaveMember(h) ==
  LET seen == hook[h].member
  IN /\ pc[h] = "saveMember"
     /\ seen # Null => \A g \in Hook : ~ SavedMember(g, EventOf(h).user)
     /\ \/ /\ seen # Null /\ ~ Fits(seen + EventOf(h).amount)
           /\ CreditFails(h)
        \/ /\ seen # Null => Fits(seen + EventOf(h).amount)
           /\ Goto(h, "record")
           /\ UNCHANGED <<tables, lock, req, mem, dirty, paystackVars>>

(* Mutant: a reference of the delivery, TXN-<now>, as in WalletService.     *)
ReferenceOfDelivery(h) == h

(* The unique reference of the transaction, PAYSTACK-<id of the event>.     *)
Reference(h) == EventOf(h).id

(* Transaction, ledger entry, audit record and notification.  The insert    *)
(* of a reference waits for a session that has inserted it, and fails if it *)
(* is in the table.                                                         *)
Record(h) ==
  /\ pc[h] = "record"
  /\ \A g \in Hook : pc[g] = "commitCredit" => Reference(g) # Reference(h)
  /\ \/ /\ \E t \in transactions : t.reference = Reference(h)
        /\ CreditFails(h)
     \/ /\ \A t \in transactions : t.reference # Reference(h)
        /\ Goto(h, "commitCredit")
        /\ UNCHANGED <<tables, lock, req, mem, dirty, paystackVars>>

CommitCredit(h) ==
  LET e == EventOf(h)
      w == WalletOf(h)
  IN /\ pc[h] = "commitCredit"
     /\ balance' = [balance EXCEPT ![w] = dirty[h][w]]
     /\ owner' = IF hook[h].new THEN [owner EXCEPT ![w] = e.user] ELSE owner
     /\ account' = [account EXCEPT ![e.row] = hook[h].account + e.amount]
     /\ contribution' =
          IF hook[h].member = Null THEN contribution
          ELSE [contribution EXCEPT ![e.user] = hook[h].member + e.amount]
     /\ transactions' =
          transactions \cup
            {[reference |-> Reference(h), src |-> NoWallet, dst |-> w,
              amount |-> e.amount, balanceAfter |-> mem[h].dst]}
     /\ ledger' =
          Append(ledger,
             [reference |-> Reference(h), src |-> NoWallet, dst |-> w,
              amount |-> e.amount, sourceBalanceAfter |-> Null,
              destinationBalanceAfter |-> mem[h].dst])
     /\ EndTransaction(h) /\ EndCredit(h)
     /\ Goto(h, "notify")
     /\ UNCHANGED <<opening, req, mem, hook>>

(* The owner is notified before the connection is released, and the         *)
(* notification needs another one; its errors are caught.                   *)
Notify(h) ==
  /\ pc[h] = "notify"
  /\ PoolHasRoom
  /\ Goto(h, "done")
  /\ UNCHANGED <<tables, lock, req, mem, dirty, paystackVars>>

(* The webhook was answered 200 long ago: the error is only logged.         *)
RollbackCredit(h) ==
  /\ pc[h] = "rollback"
  /\ EndTransaction(h) /\ EndCredit(h)
  /\ Goto(h, "failed")
  /\ UNCHANGED <<tables, req, mem, accounts, hook>>

PaystackCrash ==
  /\ Crash
  /\ accountLock' = [r \in Row |-> NoProc]
  /\ UNCHANGED <<accounts, hook>>

Credit(h) ==
  \/ BeginCredit(h) \/ FindWallet(h) \/ UpdateWallet(h) \/ UpdateAccount(h)
  \/ ReadMember(h) \/ SaveMember(h) \/ Record(h) \/ CommitCredit(h)
  \/ Notify(h) \/ RollbackCredit(h)

PaystackNext ==
  \/ \E p \in Client : (Submit(p) \/ Step(p)) /\ UNCHANGED paystackVars
  \/ \E h \in Hook : Deliver(h) \/ Credit(h)
  \/ PaystackCrash
  \/ AllAnswered /\ UNCHANGED paystackVars

PaystackSpec == PaystackInit /\ [][PaystackNext]_allVars

(* As in WalletService; nobody has to deliver anything.                     *)
PaystackFairness ==
  /\ \A p \in Client : WF_allVars(Step(p) /\ UNCHANGED paystackVars)
  /\ \A h \in Hook : WF_allVars(Credit(h))

-----------------------------------------------------------------------------
(* Properties.                                                              *)

(* Every variable has its type; wallets and accounts fit their columns and  *)
(* are never negative.                                                      *)
PaystackTypeOK ==
  /\ balance \in [Wallet -> {m \in Money : Fits(m)} \cup {Null}]
  /\ owner \in [Wallet -> User \cup {NoUser}]
  /\ account \in [Row -> {m \in Money : Fits(m)}]
  /\ contribution \in [User -> Balances]
  /\ accountLock \in [Row -> Hook \cup {NoProc}]
  /\ hook \in [Hook -> [event : Event \cup {Null}, account : Balances,
                       member : Balances, new : BOOLEAN]]

(* However often Paystack delivers an event, whatever runs at the same      *)
(* time, and whichever of its accounts was paid into, a member's savings    *)
(* (contribution_balance) are the sum of the events that were booked, each  *)
(* counted once (creditWallet reads the member after it has locked the      *)
(* wallet, and rolls a duplicate back).  The exception: two deliveries to a *)
(* user without a wallet each insert one, nothing makes them wait for each  *)
(* other, and the second overwrites what the first added.  No account ever  *)
(* shows more than the events that were booked on it.                       *)
SumOf(events) == SumFunction([e \in events |-> e.amount])
CreditedTo(u) == {e \in Event : e.user = u /\ e.id \in Booked}
CreditedOn(r) == {e \in Event : e.row = r /\ e.id \in Booked}
AtMostOneWallet(u) ==
  \A v, w \in Wallet : owner[v] = u /\ owner[w] = u => v = w
SavingsMatchBooks ==
  /\ \A u \in User : contribution[u] # Null /\ AtMostOneWallet(u) =>
       contribution[u] = SumOf(CreditedTo(u))
  /\ \A r \in Row : account[r] <= SumOf(CreditedOn(r))

(* `Your wallet has been credited with NGN ... New balance: ...': what a    *)
(* wallet holds is what it held, plus every credit and minus every debit    *)
(* that was booked on it.                                                   *)
Effect(e, w) == (IF e.dst = w THEN e.amount ELSE 0)
                - (IF e.src = w THEN e.amount ELSE 0)
Opened(w) == IF opening[w] = Null THEN 0 ELSE opening[w]
BalanceIsSumOfEntries ==
  \A w \in Wallet : balance[w] # Null =>
    balance[w] = Opened(w)
      + SumFunction([i \in 1..Len(ledger) |-> Effect(ledger[i], w)])
=============================================================================
