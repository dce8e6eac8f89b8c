------------------------------- MODULE Money -------------------------------
(***************************************************************************)
(* Amounts and balances.                                                    *)
(*                                                                          *)
(* Every money column of the schema is DECIMAL(15,2) while the service      *)
(* computes with JavaScript numbers that no DTO limits to two decimals.     *)
(* The unit of these modules is HALF A KOBO: an even number is an amount    *)
(* the column can hold, an odd one is an amount that lies exactly between   *)
(* two representable ones.  (Amounts closer to one of the two round to it   *)
(* on both sides of a movement, so that the half is the only case in which  *)
(* two rows can round differently.)                                         *)
(***************************************************************************)
EXTENDS Integers

CONSTANT MaxBalance     \* the largest value DECIMAL(15,2) can hold

Whole(x) == x % 2 = 0

ASSUME MaxBalanceAssumption == MaxBalance \in Nat /\ Whole(MaxBalance)

Money == {m \in Nat : Whole(m)}

(* What the column may hold once the computed number x was written to it.   *)
(* PostgreSQL rounds a half away from zero, but the number it is sent is    *)
(* the result of a binary addition or subtraction and may lie on either     *)
(* side of the half: 1.15 + 0.005 is stored as 1.15, 1 + 0.005 as 1.01.     *)
Column(x) == {v \in {x - 1, x, x + 1} : Whole(v)}

(* What the amount columns hold: the amount itself is sent as it was        *)
(* submitted, and a half goes up.                                           *)
Stored(a) == a + (a % 2)

(* A larger value makes the statement fail: numeric field overflow.         *)
Fits(v) == v <= MaxBalance
=============================================================================
