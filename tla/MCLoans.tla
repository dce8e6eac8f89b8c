------------------------------ MODULE MCLoans ------------------------------
(***************************************************************************)
(* Instances of Loans, with the workflow, for TLC, and of OneTimeCodes,     *)
(* which shares nothing with a workflow: a behaviour is one of one of the   *)
(* two, and the other one stays in its first state.                         *)
(***************************************************************************)
EXTENDS Loans, OneTimeCodes, TLC

VARIABLE part      \* the service that this behaviour is of

Symmetry == Permutations(Session) \cup Permutations(Caller)

(* What bodies of POST /approvals give: a length, or a level and a status.  *)
Bodies == {[totalLevels |-> n] : n \in 0..3}
            \cup {[currentLevel |-> 3, status |-> "executed"]}

MixedInit == part \in {"workflow", "codes"} /\ Init /\ CodesInit
MixedNext ==
  \/ part = "workflow" /\ LoansNext /\ UNCHANGED <<part, codesVars>>
  \/ part = "codes" /\ CodesNext /\ UNCHANGED <<part, approvalVars>>
MixedSpec == MixedInit /\ [][MixedNext]_<<part, approvalVars, codesVars>>

(* The types of both, with what they say of levels and attempts.            *)
MixedTypeOK == ApprovalTypeOK /\ CodesTypeOK
=============================================================================
