-------------------------------- MODULE Bank --------------------------------
(***************************************************************************)
(* What the wallet operations promise, without sessions, locks, memory or   *)
(* failures: every order is settled at most once and in one step, which     *)
(* moves its amount between two different wallets, into a wallet or out of  *)
(* a wallet, never takes more than the wallet holds, and touches no other   *)
(* wallet.  WalletService is shown to implement it.                         *)
(***************************************************************************)
EXTENDS Money

CONSTANTS
  Wallet,     \* the wallets
  Client,     \* who places orders: at most one order each
  Orders,     \* the orders: [op, src, dst, amount, ...]
  Null        \* the funds of a wallet that does not exist

VARIABLES
  funds,      \* funds[w]: what wallet w holds, or Null
  settled     \* the clients whose order was settled

vars == <<funds, settled>>

Init == /\ funds \in [Wallet -> Money \cup {Null}]
        /\ settled = {}

Exists(w) == w \in Wallet /\ funds[w] # Null

(* The funds wallet w may hold after `amount' was paid out of it, into it.  *)
PaidOut(w, amount) == {v \in Column(funds[w] - amount) : funds[w] >= amount}
PaidIn(w, amount)  == {v \in Column(funds[w] + amount) : Fits(v)}

Transfer(o) ==
  /\ o.op = "transfer"
  /\ o.src # o.dst /\ Exists(o.src) /\ Exists(o.dst)
  /\ \E s \in PaidOut(o.src, o.amount), d \in PaidIn(o.dst, o.amount) :
       funds' = [funds EXCEPT ![o.src] = s, ![o.dst] = d]

Deposit(o) ==
  /\ o.op = "deposit" /\ Exists(o.dst)
  /\ \E d \in PaidIn(o.dst, o.amount) : funds' = [funds EXCEPT ![o.dst] = d]

Withdraw(o) ==
  /\ o.op = "withdraw" /\ Exists(o.src)
  /\ \E s \in PaidOut(o.src, o.amount) : funds' = [funds EXCEPT ![o.src] = s]

Settle(c, o) ==
  /\ c \notin settled /\ o.amount > 0
  /\ Transfer(o) \/ Deposit(o) \/ Withdraw(o)
  /\ settled' = settled \cup {c}

Next == \E c \in Client, o \in Orders : Settle(c, o)

Spec == Init /\ [][Next]_vars
=============================================================================
