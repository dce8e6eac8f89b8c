--------------------------- MODULE MCRegistration ---------------------------
(***************************************************************************)
(* Instances of Registration for TLC, and of Accounts: an account is looked *)
(* at from the moment it exists, so that a behaviour is one of one of the   *)
(* two, and the other one stays in its first state.                         *)
(***************************************************************************)
EXTENDS Registration, Accounts, TLC

VARIABLE part      \* the service that this behaviour is of

(* The instances use one set for codes and slots, and one for addresses and *)
(* passwords: what is one of them is never compared with the other.         *)
Symmetry == Permutations(Session) \cup Permutations(Code)
            \cup Permutations(Email)

MixedInit ==
  /\ part \in {"registration", "account"}
  /\ Init /\ AccountsInit
  /\ part # "account" => row = NoRow
MixedNext ==
  \/ part = "registration" /\ Next /\ UNCHANGED <<part, accountsVars>>
  \/ part = "account" /\ AccountsNext /\ UNCHANGED <<part, regVars>>
MixedSpec == MixedInit /\ [][MixedNext]_<<part, regVars, accountsVars>>

(* The types of both, with what they say of tokens and copies of rows.      *)
MixedTypeOK == RegTypeOK /\ AccountsTypeOK
=============================================================================
