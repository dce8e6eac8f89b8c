-------------------------------- MODULE Loans --------------------------------
(***************************************************************************)
(* Loans, beside the workflow that is to approve them (Approvals).          *)
(*                                                                          *)
(* LoanService.approveLoan and rejectLoan, the desk, first write the status *)
(* of the loan and then look for its approval: only one that is `pending',  *)
(* with no level granted, is found and decided along with it, as by any     *)
(* other session.  The token under which they look up WalletService is not  *)
(* one it is registered under, so that no money moves.                      *)
(***************************************************************************)
EXTENDS Approvals

(* Completed and defaulted loans are as good as active.                     *)
LoanStatus == {"pending", "approved", "rejected", "active"}

(* create: an administrator enters a loan in any status and starts no       *)
(* workflow.                                                                *)
CreateLoan(a) ==
  /\ kind[a] = Null /\ requestType[a] = Null
  /\ kind' = [kind EXCEPT ![a] = "loan"]
  /\ \E given \in LoanStatus : target' = [target EXCEPT ![a] = given]
  /\ UNCHANGED <<approvals, log, sessions>>

(* approveLoan of a loan that exists, or rejectLoan.                        *)
AtDesk(s) ==
  /\ pc[s] = "idle"
  /\ \E a \in Request, decision \in {"approved", "rejected"} :
       /\ kind[a] = "loan"
       /\ job' = [job EXCEPT ![s] = [request |-> a, decision |-> decision]]
  /\ Goto(s, "loan")
  /\ UNCHANGED <<approvals, kind, target, log, copy, granted, held, forced>>

WriteLoan(s) ==
  /\ pc[s] = "loan"
  /\ target' = [target EXCEPT ![Of(s)] =
                   IF Approves(s) THEN "active" ELSE "rejected"]
  /\ Goto(s, "find")
  /\ UNCHANGED <<approvals, kind, log, job, copy, granted, held, forced>>

FindPending(s) ==
  /\ pc[s] = "find"
  /\ Goto(s, IF requestType[Of(s)] = "loan" /\ status[Of(s)] = "pending"
             THEN "load" ELSE "end")
  /\ UNCHANGED <<approvals, kind, target, log, job, copy, granted, held,
                 forced>>

LoansNext ==
  \/ Next
  \/ \E a \in Request : CreateLoan(a)
  \/ \E s \in Session : AtDesk(s) \/ WriteLoan(s) \/ FindPending(s)

LoansSpec == Init /\ [][LoansNext]_approvalVars
=============================================================================
