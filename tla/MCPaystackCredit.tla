-------------------------- MODULE MCPaystackCredit --------------------------
(***************************************************************************)
(* Instances of PaystackCredit for TLC.  Amounts are in half kobo.          *)
(***************************************************************************)
EXTENDS PaystackCredit, TLC

CONSTANTS w1, w2, w3, p1, p2, h1, h2, u1, u2, r1, r2, r3, e1, e2, e3, e4

Wallets == {w1, w2, w3}
Procs == {p1, h1, h2}
Hooks == {h1, h2}
ProcsRing == {p1, p2, h1}
Hook1 == {h1}
Users1 == {u1}
Users2 == {u1, u2}
Rows1 == {r1}
Rows3 == {r1, r2, r3}
HookSymmetry == Permutations(Hooks)

Transfer(a, b, n) ==
  [op |-> "transfer", src |-> a, dst |-> b, amount |-> n, otp |-> FALSE,
   type |-> "transfer_out"]
Withdraw(w, n) ==
  [op |-> "withdraw", src |-> w, dst |-> NoWallet, amount |-> n, otp |-> FALSE,
   type |-> "withdrawal"]
Pay(id, r, n, success) ==
  [id |-> id, row |-> r, user |-> IF r = r3 THEN u2 ELSE u1, amount |-> n,
   success |-> success]

(* Two payments to one user, who may have no wallet, into two accounts; one *)
(* that overflows, to another user; and an event that is ignored.           *)
MixedEvents ==
  {Pay(e1, r1, 2, TRUE), Pay(e2, r2, 4, TRUE), Pay(e3, r3, 10, TRUE),
   Pay(e4, r3, 2, FALSE)}
MixedRequests ==
  {Transfer(w1, w2, 2), Transfer(w2, w1, 2), Withdraw(w1, 6)}
MixedTables ==
  {(w1 :> 4) @@ (w2 :> 2) @@ (w3 :> Null),
   (w1 :> Null) @@ (w2 :> 2) @@ (w3 :> Null)}

(* Two payments at the same time into one wallet.                           *)
TwoPayments == {Pay(e1, r1, 2, TRUE), Pay(e2, r1, 4, TRUE)}
OneTransfer == {Transfer(w1, w2, 2)}
OneWallet == {(w1 :> 4) @@ (w2 :> Null) @@ (w3 :> Null)}

(* Opposite transfers, which deadlock, and a payment into one of their      *)
(* wallets.                                                                 *)
OppositeTransfers == {Transfer(w1, w2, 2), Transfer(w2, w1, 2)}
PairTables == {(w1 :> 4) @@ (w2 :> 2) @@ (w3 :> Null)}
=============================================================================
