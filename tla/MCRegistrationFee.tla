------------------------- MODULE MCRegistrationFee -------------------------
(***************************************************************************)
(* Instances of RegistrationFee for TLC, with the other ways money comes    *)
(* in (ParallexPayments, GroupSync) and with Organisations.  They share no  *)
(* variable: a behaviour is one of one of them, and the others stay in      *)
(* their first state.  The same values stand for what comes in at once.     *)
(***************************************************************************)
EXTENDS RegistrationFee, ParallexPayments, GroupSync, Organisations, TLC

CONSTANTS m1, m2, s1, s2, s3, r1, r2, f1, f2, n1, n2, y1, p1, d1

VARIABLE part      \* the service that this behaviour is of

Symmetry == Permutations(Session) \cup Permutations(Member)

Deposits == {[reference |-> d1, number |-> n1]}
LoginA  == [email |-> "e1", phone |-> "p1"]
LoginB  == [email |-> "e1", phone |-> "p2"]
LoginC  == [email |-> "e2", phone |-> "p2"]
Logins  == {LoginA, LoginB, LoginC}
Asked   == {[type |-> "partner", parent |-> 1, rep |-> 0, login |-> LoginA],
            [type |-> "unset",   parent |-> 0, rep |-> 0, login |-> LoginB],
            [type |-> "sub_org", parent |-> 2, rep |-> 2, login |-> NoLogin],
            [type |-> "sub_org", parent |-> 2, rep |-> 0, login |-> LoginC]}
Patches == {[parent |-> 3], [rep |-> 3]}
Carried == {0, 2}
Changes == {[org |-> 1], [role |-> "super_admin"],
            [login |-> LoginB]}

PaymentsInit ==
  /\ part \in {"fee", "parallex", "group", "organisations"}
  /\ Init /\ ParallexInit /\ GroupInit /\ OrgInit
  /\ part # "fee" => \A r \in Foreign : gateway[r] = "failed"
  /\ part # "parallex" => ~ enabled
PaymentsNext ==
  \/ /\ part = "fee" /\ Next
     /\ UNCHANGED <<part, parallexVars, groupVars, orgVars>>
  \/ /\ part = "parallex" /\ ParallexNext
     /\ UNCHANGED <<part, feeVars, groupVars, orgVars>>
  \/ /\ part = "group" /\ GroupNext
     /\ UNCHANGED <<part, feeVars, parallexVars, orgVars>>
  \/ /\ part = "organisations" /\ OrgNext
     /\ UNCHANGED <<part, feeVars, parallexVars, groupVars>>
PaymentsSpec ==
  PaymentsInit /\ [][PaymentsNext]_<<part, feeVars, parallexVars, groupVars, orgVars>>

(* The types of two of them, with what they say of references and rows.     *)
PaymentTypesOK == FeeTypeOK /\ ParallexTypeOK
=============================================================================
