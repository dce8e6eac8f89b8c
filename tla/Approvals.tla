------------------------------ MODULE Approvals ------------------------------
(***************************************************************************)
(* The approval workflow: ApprovalEngineService.process and advance with    *)
(* ApprovalService.approve and reject, and the rows they are about.         *)
(*                                                                          *)
(* A decision runs in several steps without a transaction: it loads the     *)
(* approval, decides on the copy, saves the copy (TypeORM writes every      *)
(* column in which it differs from the row), writes a log entry and only    *)
(* then applies the decision to what the approval was about.  Decisions of  *)
(* several administrators interleave, and the server may die in between.    *)
(* Bound: a row has at most one approval.                                   *)
(***************************************************************************)
EXTENDS Naturals, FiniteSets

CONSTANTS
  Request,      \* approvals
  Session,      \* calls of advance
  MaxLevels,    \* the length of the longest approval chain
  Given,        \* what bodies of POST /approvals give of Columns
  Null

(* Any other type (withdrawal, transfer, ...) is `other'.                   *)
Kinds == {"loan", "member_registration", "program_application",
          "organisation_onboarding"}
RequestTypes == Kinds \cup {"other"}

Statuses == {"pending", "approved", "executed", "rejected"}
Levels   == 0..MaxLevels
Outcomes == {"none", "pending", "approved", "rejected", "active"}
Columns  == {"currentLevel", "totalLevels", "status"}
DefaultLevels == 3

ASSUME ApprovalsAssumption ==
  /\ MaxLevels \in Nat /\ MaxLevels >= DefaultLevels
  /\ Null \notin Request \cup RequestTypes
  /\ \A g \in Given : \A c \in DOMAIN g \cap Columns :
       g[c] \in IF c = "status" THEN Statuses ELSE Levels

VARIABLES
  requestType,  \* requestType[a]: the type of approval a, Null if none exists
  totalLevels,  \* totalLevels[a]: how many levels have to approve
  currentLevel, \* currentLevel[a]: the level whose turn it is
  status,       \* status[a]: pending, approved (partially), executed, rejected
  kind,         \* kind[a]: what a is about: a loan, member, ..., Null if none
  target,       \* target[a]: the status of that loan, member, ..., `active'
                \* as the desk or a payment sets it, else `approved'
  log,          \* the entries of table approval_logs
  job,          \* job[s]: the decision session s brings, and on what
  pc,           \* pc[s]: where it is
  copy,         \* copy[s]: the levels of the approval as s has loaded it
  granted,      \* history variable: the sessions that have saved an approval
  held,         \* held[a]: the status of member a in a copy of its row that
                \* another service has loaded and not saved yet, or Null
  forced        \* history variable: the approvals of which a body has set
                \* more than the length of a new one

approvalVars == <<requestType, totalLevels, currentLevel, status, target, log,
                  kind, job, pc, copy, granted, held, forced>>
approvals == <<requestType, totalLevels, currentLevel, status>>
sessions  == <<job, pc, copy, granted, held, forced>>

Init ==
  /\ requestType = [a \in Request |-> Null]
  /\ totalLevels = [a \in Request |-> DefaultLevels]
  /\ currentLevel = [a \in Request |-> 1]
  /\ status = [a \in Request |-> "pending"]
  /\ kind = [a \in Request |-> Null]
  /\ target = [a \in Request |-> "none"]
  /\ log = {}
  /\ job = [s \in Session |-> Null]
  /\ pc = [s \in Session |-> "idle"]
  /\ copy = [s \in Session |-> Null]
  /\ granted = {}
  /\ held = [a \in Request |-> Null]
  /\ forced = {}

Goto(s, label) == pc' = [pc EXCEPT ![s] = label]
Of(s) == job[s].request

(* The row an approval will be about is saved by a statement of its own:    *)
(* register (a member with a token is born approved), requestLoan,          *)
(* applyForProgram, an organisation (born active).                          *)
Newborn(k) ==
  CASE k = "organisation_onboarding" -> {"approved"}
    [] k = "member_registration"     -> {"pending", "approved"}
    [] OTHER                         -> {"pending"}
Submit(a) ==
  /\ kind[a] = Null /\ requestType[a] = Null
  /\ \E k \in Kinds : \E born \in Newborn(k) :
       /\ kind' = [kind EXCEPT ![a] = k]
       /\ target' = [target EXCEPT ![a] = born]
  /\ UNCHANGED <<approvals, log, sessions>>

(* A member who pays the registration fee, or for whom emergencyFixUser is  *)
(* called, is active whatever the workflow says.                            *)
ActivateMember(a) ==
  /\ kind[a] = "member_registration"
  /\ target' = [target EXCEPT ![a] = "active"]
  /\ UNCHANGED <<approvals, kind, log, sessions>>

(* updateProfile, syncData and creditWallet load a member, and save the row *)
(* with the status it had then.  (Bound: one of them at a time.)            *)
LoadMember(a) ==
  /\ kind[a] = "member_registration" /\ held[a] = Null
  /\ held' = [held EXCEPT ![a] = target[a]]
  /\ UNCHANGED <<approvals, kind, target, log, job, pc, copy, granted, forced>>
SaveMember(a) ==
  /\ held[a] # Null
  /\ target' = [target EXCEPT ![a] = held[a]]
  /\ held' = [held EXCEPT ![a] = Null]
  /\ UNCHANGED <<approvals, kind, log, job, pc, copy, granted, forced>>

(* resolveApprovalChain: the levels above the member's group, sub-          *)
(* organisation or partner, and always the apex.  Other chains are fixed.   *)
ChainLengths(type) == IF type = "loan" THEN 1..MaxLevels ELSE {2}

(* process: only the length of the chain is stored.                         *)
Process(a) ==
  /\ requestType[a] = Null
  /\ kind[a] \in {"loan", "member_registration", "program_application"}
  /\ requestType' = [requestType EXCEPT ![a] = kind[a]]
  /\ \E n \in ChainLengths(kind[a]) \cap 1..MaxLevels :
       totalLevels' = [totalLevels EXCEPT ![a] = n]
  /\ UNCHANGED <<currentLevel, status, kind, target, log, sessions>>

(* POST /approvals saves the body as it is: a new approval, of any type and *)
(* of a row that need not exist, or, if the body names one by its id, that  *)
(* one (bound: with the type and the row it has, and once).                 *)
Value(g, c, else) == IF c \in DOMAIN g THEN g[c] ELSE else
OnlyLength(g) ==
  /\ DOMAIN g \cap Columns \subseteq {"totalLevels"}
  /\ Value(g, "totalLevels", 1) # 0
PostApproval(a) ==
  \E g \in Given, type \in RequestTypes :
    /\ kind[a] \in {type, Null} /\ requestType[a] \in {type, Null}
    /\ a \notin forced
    /\ requestType' = [requestType EXCEPT ![a] = type]
    /\ totalLevels' = [totalLevels EXCEPT ![a] = Value(g, "totalLevels", @)]
    /\ currentLevel' = [currentLevel EXCEPT ![a] = Value(g, "currentLevel", @)]
    /\ status' = [status EXCEPT ![a] = Value(g, "status", @)]
    /\ forced' = IF requestType[a] = Null /\ OnlyLength(g) THEN forced
                 ELSE forced \cup {a}
    /\ UNCHANGED <<kind, target, log, job, pc, copy, granted, held>>

(* advance: the approval must exist.                                        *)
Advance(s) ==
  /\ pc[s] = "idle"
  /\ \E a \in Request, decision \in {"approved", "rejected"} :
       /\ requestType[a] # Null
       /\ job' = [job EXCEPT ![s] = [request |-> a, decision |-> decision]]
  /\ Goto(s, "load")
  /\ UNCHANGED <<approvals, kind, target, log, copy, granted, held, forced>>

Active(a) == status[a] \in {"pending", "approved"}

Load(s) ==
  /\ pc[s] = "load"
  /\ IF Active(Of(s))
     THEN /\ copy' = [copy EXCEPT ![s] =
                         [currentLevel |-> currentLevel[Of(s)],
                          totalLevels |-> totalLevels[Of(s)]]]
          /\ Goto(s, "save")
     ELSE Goto(s, "end") /\ UNCHANGED copy
  /\ UNCHANGED <<approvals, kind, target, log, job, granted, held, forced>>

(* Mutants: one level too few, and the level is raised on the last one too. *)
IsFinalStepEarly(s) == copy[s].currentLevel + 1 >= copy[s].totalLevels
LevelAfterAlways(s) == copy[s].currentLevel + 1

IsFinalStep(s) == copy[s].currentLevel >= copy[s].totalLevels
Approves(s)    == job[s].decision = "approved"
StatusAfter(s) ==
  IF ~ Approves(s) THEN "rejected"
  ELSE IF IsFinalStep(s) THEN "executed" ELSE "approved"
LevelAfter(s) ==
  copy[s].currentLevel + IF Approves(s) /\ ~ IsFinalStep(s) THEN 1 ELSE 0

(* Mutant: the log entry is forgotten.                                      *)
SaveUnlogged(s) ==
  /\ pc[s] = "save"
  /\ status' = [status EXCEPT ![Of(s)] = StatusAfter(s)]
  /\ currentLevel' = [currentLevel EXCEPT ![Of(s)] = LevelAfter(s)]
  /\ totalLevels' = [totalLevels EXCEPT ![Of(s)] = copy[s].totalLevels]
  /\ granted' = granted \cup {t \in {s} : Approves(t)}
  /\ Goto(s, "apply")
  /\ UNCHANGED <<requestType, kind, target, log, job, copy, held, forced>>

Save(s) ==
  /\ pc[s] = "save"
  /\ status' = [status EXCEPT ![Of(s)] = StatusAfter(s)]
  /\ currentLevel' = [currentLevel EXCEPT ![Of(s)] = LevelAfter(s)]
  /\ totalLevels' = [totalLevels EXCEPT ![Of(s)] = copy[s].totalLevels]
  /\ granted' = granted \cup {t \in {s} : Approves(t)}
  /\ Goto(s, "log")
  /\ UNCHANGED <<requestType, kind, target, log, job, copy, held, forced>>

LogAction(s) ==
  IF ~ Approves(s) THEN "rejected"
  ELSE IF IsFinalStep(s) THEN "final_approval" ELSE "partial_approval"

WriteLog(s) ==
  /\ pc[s] = "log"
  /\ log' = log \cup {[by |-> s, request |-> Of(s), action |-> LogAction(s)]}
  /\ Goto(s, "apply")
  /\ UNCHANGED <<approvals, kind, target, job, copy, granted, held, forced>>

(* Mutant: every approval is applied, not only the final one.               *)
EffectOfAny(s) == IF Approves(s) THEN "approved" ELSE "rejected"

(* handleFinalApproval and handleRejection (which knows no onboarding).     *)
Effect(s) ==
  IF Approves(s) THEN IF IsFinalStep(s) THEN "approved" ELSE target[Of(s)]
  ELSE IF kind[Of(s)] = "organisation_onboarding" THEN target[Of(s)]
  ELSE "rejected"

(* A row that does not exist stays so; the rest is a notification.          *)
Apply(s) ==
  /\ pc[s] = "apply"
  /\ target' = [target EXCEPT ![Of(s)] =
                   IF kind[Of(s)] = Null THEN @ ELSE Effect(s)]
  /\ Goto(s, "end")
  /\ UNCHANGED <<approvals, kind, log, job, copy, granted, held, forced>>

(* The server dies: what was saved stays, nothing takes up the rest.        *)
Crash ==
  /\ \/ \E s \in Session : pc[s] \notin {"idle", "end"}
     \/ \E a \in Request : held[a] # Null
  /\ pc' = [s \in Session |-> IF pc[s] = "idle" THEN "idle" ELSE "end"]
  /\ held' = [a \in Request |-> Null]
  /\ UNCHANGED <<approvals, kind, target, log, job, copy, granted, forced>>

AllDecided == (\A s \in Session : pc[s] = "end") /\ UNCHANGED approvalVars

Next ==
  \/ \E a \in Request :
       \/ Submit(a) \/ ActivateMember(a) \/ LoadMember(a) \/ SaveMember(a)
       \/ Process(a) \/ PostApproval(a)
  \/ \E s \in Session :
       Advance(s) \/ Load(s) \/ Save(s) \/ WriteLog(s) \/ Apply(s)
  \/ Crash
  \/ AllDecided

Spec == Init /\ [][Next]_approvalVars

-----------------------------------------------------------------------------
(* Properties.                                                              *)

(* Every variable has its type, and no approval is beyond its last level    *)
(* unless a body has put it there.                                          *)
ApprovalTypeOK ==
  /\ requestType \in [Request -> RequestTypes \cup {Null}]
  /\ totalLevels \in [Request -> Levels] /\ currentLevel \in [Request -> Levels]
  /\ forced \subseteq Request
  /\ \A a \in Request \ forced : currentLevel[a] \in 1..totalLevels[a]
  /\ status \in [Request -> Statuses]
  /\ kind \in [Request -> Kinds \cup {Null}]
  /\ target \in [Request -> Outcomes]
  /\ held \in [Request -> Outcomes \cup {Null}]

(* However decisions interleave, an approval is executed, and what it is    *)
(* about is approved, only after as many approvals as it has levels: a lost *)
(* update may cost an approval, never save one (ApprovalService.approve     *)
(* decides on a copy that may be stale).  Not promised of an approval of    *)
(* which POST /approvals has set the level, the status or, once it existed, *)
(* the length: that one needs nobody.  Rows may also be born approved, be   *)
(* made active by the desk or by a payment, and a member gets back the      *)
(* status that a copy of its row has kept.                                  *)
Granted(a) == {s \in granted : Of(s) = a}
AllLevelsApproved(a) ==
  requestType[a] # Null /\ Cardinality(Granted(a)) >= totalLevels[a]
ExecutedNeedsAllLevels ==
  \A a \in Request \ forced : status[a] = "executed" => AllLevelsApproved(a)
TargetNeedsAllLevels ==
  [][\A a \in Request \ forced :
       /\ target[a] \notin {"none", "approved"} /\ target'[a] = "approved"
       /\ held'[a] = held[a]
       => AllLevelsApproved(a)
    ]_approvalVars

(* The log knows every decision that reaches its target, even if the server *)
(* dies on the way: what approves or rejects a row after its birth has its  *)
(* entry by then (ApprovalService logs before ApprovalEngineService acts).  *)
(* Loans are rejected at the desk, members activated by a payment and old   *)
(* copies of members saved without one.                                     *)
DecisionIsLogged ==
  [][\A a \in Request :
       /\ target[a] # "none" /\ target'[a] # target[a] /\ held'[a] = held[a]
       /\ \/ target'[a] = "approved"
          \/ target'[a] = "rejected" /\ kind[a] # "loan"
       => \E e \in log : /\ e.request = a
                         /\ e.action = IF target'[a] = "approved"
                                       THEN "final_approval" ELSE "rejected"
    ]_approvalVars

(* `Approval is no longer active', `Can only reject active requests': once  *)
(* executed or rejected, an approval is not decided again.                  *)
DecisionIsFinal ==
  [][\A a \in Request :
       status[a] \in {"executed", "rejected"} => status'[a] = status[a]
    ]_approvalVars
=============================================================================
