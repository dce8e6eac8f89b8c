------------------------- MODULE MCVirtualAccounts -------------------------
(***************************************************************************)
(* Instances of PaystackCredit, payments into virtual accounts, and of      *)
(* VirtualAccounts, which opens them.  A payment writes no column that the  *)
(* opening of an account reads or writes, so that a behaviour is one of one *)
(* of the two, and the other one stays in its first state.                  *)
(***************************************************************************)
EXTENDS MCPaystackCredit, VirtualAccounts

CONSTANT k3

VARIABLE part      \* the component that this behaviour is of

(* The deliveries' values name requests as well: the smaller the symmetry,  *)
(* the faster the run.                                                      *)
Clerks == Hooks \cup {k3}

PaymentsInit ==
  /\ part \in {"payments", "accounts"}
  /\ PaystackInit /\ VaInit
  /\ part = "payments" => /\ ~ parallexOn
                          /\ owner[w1] \in {u1, NoUser}
                          /\ contribution[u2] = 0
  /\ part = "accounts" => /\ balance[w1] = Null
                          /\ owner = [w \in Wallet |-> NoUser]
                          /\ contribution = [u \in User |-> Null]
PaymentsNext ==
  \/ part = "payments" /\ PaystackNext /\ UNCHANGED <<part, vaVars>>
  \/ part = "accounts" /\ VaNext /\ UNCHANGED <<part, allVars>>
PaymentsSpec == PaymentsInit /\ [][PaymentsNext]_<<part, allVars, vaVars>>

(* The types of both, with what they say of balances and numbers.           *)
MixedTypeOK == PaystackTypeOK /\ VaTypeOK
=============================================================================
