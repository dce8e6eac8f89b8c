-------------------------- MODULE MCWalletService --------------------------
(***************************************************************************)
(* Instances of WalletService for TLC.  Amounts are in half kobo.           *)
(***************************************************************************)
EXTENDS WalletService, TLC

CONSTANTS w1, w2, w3, p1, p2, p3

Wallets2 == {w1, w2}
Wallets3 == {w1, w2, w3}
Procs2 == {p1, p2}
Procs3 == {p1, p2, p3}
Symmetry == Permutations(Procs3)

Transfer(a, b, n, type) ==
  [op |-> "transfer", src |-> a, dst |-> b, amount |-> n, otp |-> FALSE,
   type |-> type]
Deposit(w, n) ==
  [op |-> "deposit", src |-> NoWallet, dst |-> w, amount |-> n, otp |-> FALSE,
   type |-> "deposit"]
Withdraw(w, n, otp) ==
  [op |-> "withdraw", src |-> w, dst |-> NoWallet, amount |-> n, otp |-> otp,
   type |-> "withdrawal"]

(* Opposite transfers, a fractional one, one that overflows w2, one to a    *)
(* wallet without a row, one with a type that is no TransactionType, a      *)
(* deposit, withdrawals with and without the OTP, and a zero amount.        *)
MixedRequests ==
  {Transfer(w1, w2, 2, "transfer_out"), Transfer(w2, w1, 4, "transfer_out"),
   Transfer(w1, w2, 3, "transfer_out"), Transfer(w1, w3, 2, "transfer_out"),
   Transfer(w2, w1, 2, "internal_transfer"),
   Deposit(w1, 3), Deposit(w2, 0), Deposit(w2, 6),
   Withdraw(w3, 2, FALSE), Withdraw(w1, 4, FALSE), Withdraw(w2, 6, TRUE),
   Withdraw(w2, 6, FALSE)}
MixedTables == {(w1 :> 4) @@ (w2 :> 6) @@ (w3 :> Null)}

SelfRequests == {Transfer(w1, w1, 2, "transfer_out")}
PairRequests == {Transfer(w1, w2, 2, "transfer_out")}
PairTables == {(w1 :> 4) @@ (w2 :> 0)}
=============================================================================
