----------------------------- MODULE LoansProofs -----------------------------
(***************************************************************************)
(* Proofs about Approvals and Loans, for any number of approvals, decisions *)
(* at once and levels.                                                      *)
(***************************************************************************)
EXTENDS Loans, FiniteSetTheorems, TLAPS

-----------------------------------------------------------------------------
(* The invariant.                                                           *)

Labels    == {"idle", "loan", "find", "load", "save", "log", "apply", "end"}
Deciding  == {"load", "save", "log", "apply"}
Decisions == [request : Request, decision : {"approved", "rejected"}]
Copies    == [currentLevel : Levels, totalLevels : Levels]

(* What a session knows, by the step it is at; it decides on an approval    *)
(* that exists, and the levels it has loaded are right unless forced.       *)
SessionInv ==
  /\ pc \in [Session -> Labels]
  /\ job \in [Session -> Decisions \cup {Null}]
  /\ copy \in [Session -> Copies \cup {Null}]
  /\ \A s \in Session :
       /\ pc[s] \notin {"idle", "end"} => job[s] \in Decisions
       /\ pc[s] \in {"loan", "find"} => kind[Of(s)] = "loan"
       /\ pc[s] \in Deciding => requestType[Of(s)] # Null
       /\ pc[s] \in Deciding \ {"load"} =>
            /\ copy[s] \in Copies
            /\ Of(s) \notin forced =>
                 /\ copy[s].currentLevel \in 1..totalLevels[Of(s)]
                 /\ copy[s].totalLevels = totalLevels[Of(s)]
NewInv ==
  \A a \in Request :
    /\ kind[a] = Null => target[a] = "none" /\ held[a] = Null
    /\ requestType[a] = Null =>
         /\ currentLevel[a] = 1 /\ totalLevels[a] = DefaultLevels
         /\ status[a] = "pending" /\ a \notin forced

(* Whoever has granted a level is past saving it and decides nothing else.  *)
GrantedInv ==
  /\ granted \subseteq Session /\ IsFiniteSet(granted)
  /\ \A s \in granted : /\ pc[s] \in {"log", "apply", "end"}
                        /\ job[s] \in Decisions /\ copy[s] \in Copies
  /\ \A s \in Session : pc[s] \in {"log", "apply"} /\ Approves(s) => s \in granted

(* ExecutedNeedsAllLevels is not inductive alone.  Stale copies may set the *)
(* level back but never ahead: each level below the current one, and below  *)
(* the one a session believes in, has been granted by somebody.             *)
LevelInv ==
  /\ \A a \in Request \ forced : currentLevel[a] <= Cardinality(Granted(a)) + 1
  /\ \A s \in Session : pc[s] = "save" /\ Of(s) \notin forced =>
       copy[s].currentLevel <= Cardinality(Granted(Of(s))) + 1
  /\ \A s \in granted : Of(s) \notin forced =>
       copy[s].currentLevel <= Cardinality(Granted(Of(s)))
  /\ ExecutedNeedsAllLevels

(* Whoever is about to apply a decision has logged it.                      *)
Entry(s) == [by |-> s, request |-> Of(s), action |-> LogAction(s)]
LogInv == \A s \in Session : pc[s] = "apply" => Entry(s) \in log

WorkInv == /\ ApprovalTypeOK /\ SessionInv /\ NewInv /\ GrantedInv
           /\ LevelInv /\ LogInv

(* The initial states.                                                      *)
LEMMA WorkInit == Init => WorkInv
<1> SUFFICES ASSUME Init PROVE WorkInv
  OBVIOUS
<1> USE ApprovalsAssumption DEF Init
<1>1. ApprovalTypeOK
  BY DEF ApprovalTypeOK, RequestTypes, Levels, Statuses, DefaultLevels, Outcomes
<1>2. SessionInv /\ NewInv
  BY DEF SessionInv, NewInv, Labels, Deciding
<1>3. GrantedInv
  BY FS_EmptySet DEF GrantedInv
<1>4. LevelInv
  <2>1. \A a \in Request : Granted(a) = {}
    BY DEF Granted
  <2> QED
    BY <2>1, FS_EmptySet DEF LevelInv, ExecutedNeedsAllLevels
<1>5. LogInv
  BY DEF LogInv
<1> QED
  BY <1>1, <1>2, <1>3, <1>4, <1>5 DEF WorkInv

-----------------------------------------------------------------------------
(* What has been granted.                                                   *)

(* The levels granted to an approval are finitely many.                     *)
LEMMA GrantedFinite ==
  ASSUME GrantedInv, NEW a
  PROVE  IsFiniteSet(Granted(a)) /\ Cardinality(Granted(a)) \in Nat
<1>1. Granted(a) \subseteq granted
  BY DEF Granted
<1> QED
  BY <1>1, FS_Subset, FS_CardinalityType DEF GrantedInv

(* A step that saves no decision, and leaves those who have granted a level *)
(* alone, loses none.                                                       *)
LEMMA GrantedKept ==
  ASSUME UNCHANGED granted, \A s \in granted : job'[s] = job[s], NEW a
  PROVE  Granted(a)' = Granted(a)
BY DEF Granted, Of

(* Such a step keeps the levels right if whoever comes to save has just     *)
(* read the level as it is, and approvals keep what they have unless forced.*)
LEMMA LevelsKept ==
  ASSUME WorkInv, UNCHANGED granted, forced \subseteq forced',
         \A s \in granted : job'[s] = job[s] /\ copy'[s] = copy[s],
         \A a \in Request \ forced' :
           /\ currentLevel'[a] = currentLevel[a] /\ status'[a] = status[a]
           /\ requestType[a] # Null => /\ requestType'[a] = requestType[a]
                                      /\ totalLevels'[a] = totalLevels[a],
         \A s \in Session : pc'[s] = "save" =>
           \/ pc[s] = "save" /\ job'[s] = job[s] /\ copy'[s] = copy[s]
           \/ /\ Of(s)' \in Request
              /\ copy'[s].currentLevel = currentLevel[Of(s)']
  PROVE  LevelInv'
<1> USE DEF WorkInv
<1>1. \A a : Granted(a)' = Granted(a)
  BY GrantedKept
<1>2. \A a \in Request \ forced' :
        currentLevel'[a] <= Cardinality(Granted(a)') + 1
  BY <1>1 DEF LevelInv
<1>3. ASSUME NEW s \in Session, pc'[s] = "save", Of(s)' \notin forced'
      PROVE  copy'[s].currentLevel <= Cardinality(Granted(Of(s))') + 1
  <2>1. CASE pc[s] = "save" /\ job'[s] = job[s] /\ copy'[s] = copy[s]
    BY <1>1, <1>3, <2>1 DEF LevelInv, Of
  <2>2. CASE Of(s)' \in Request /\ copy'[s].currentLevel = currentLevel[Of(s)']
    BY <1>1, <1>3, <2>2 DEF LevelInv, Of, Granted
  <2> QED
    BY <1>3, <2>1, <2>2
<1>4. \A s \in granted' : Of(s)' \notin forced' =>
        copy'[s].currentLevel <= Cardinality(Granted(Of(s))')
  BY <1>1 DEF LevelInv, Of
<1>5. ExecutedNeedsAllLevels'
  BY <1>1 DEF LevelInv, ExecutedNeedsAllLevels, AllLevelsApproved
<1> QED
  BY <1>2, <1>3, <1>4, <1>5 DEF LevelInv

-----------------------------------------------------------------------------
(* The actions.                                                             *)

LEMMA SubmitStep ==
  ASSUME WorkInv, NEW a \in Request, Submit(a)
  PROVE  WorkInv'
<1> USE ApprovalsAssumption DEF WorkInv, Submit, approvals, sessions
<1>1. ApprovalTypeOK' /\ NewInv'
  BY DEF ApprovalTypeOK, NewInv, SessionInv, Deciding, ChainLengths,
         Kinds, RequestTypes, LoanStatus, Newborn, Levels, DefaultLevels,
         Outcomes
<1>2. SessionInv' /\ GrantedInv'
  BY DEF ApprovalTypeOK, NewInv, SessionInv, GrantedInv, Decisions, Copies,
         Deciding, Labels, Approves, Of, Kinds, RequestTypes
<1>3. LevelInv'
  BY LevelsKept DEF SessionInv, GrantedInv, ApprovalTypeOK, Decisions, Of
<1>4. LogInv'
  BY DEF SessionInv, LogInv, Entry, LogAction, IsFinalStep, Approves,
         Deciding, Of, NewInv, Kinds, RequestTypes
<1> QED
  BY <1>1, <1>2, <1>3, <1>4

LEMMA ProcessStep ==
  ASSUME WorkInv, NEW a \in Request, Process(a)
  PROVE  WorkInv'
<1> USE ApprovalsAssumption DEF WorkInv, Process, approvals, sessions
<1>1. ApprovalTypeOK' /\ NewInv'
  BY DEF ApprovalTypeOK, NewInv, SessionInv, Deciding, ChainLengths,
         Kinds, RequestTypes, LoanStatus, Newborn, Levels, DefaultLevels,
         Outcomes
<1>2. SessionInv' /\ GrantedInv'
  BY DEF ApprovalTypeOK, NewInv, SessionInv, GrantedInv, Decisions, Copies,
         Deciding, Labels, Approves, Of, Kinds, RequestTypes
<1>3. LevelInv'
  BY LevelsKept DEF SessionInv, GrantedInv, ApprovalTypeOK, Decisions, Of
<1>4. LogInv'
  BY DEF SessionInv, LogInv, Entry, LogAction, IsFinalStep, Approves,
         Deciding, Of, NewInv, Kinds, RequestTypes
<1> QED
  BY <1>1, <1>2, <1>3, <1>4

LEMMA PostApprovalStep ==
  ASSUME WorkInv, NEW a \in Request, PostApproval(a)
  PROVE  WorkInv'
<1> USE DEF WorkInv
<1>1. PICK g \in Given, type \in RequestTypes :
        /\ requestType[a] \in {type, Null}
        /\ requestType' = [requestType EXCEPT ![a] = type]
        /\ totalLevels' = [totalLevels EXCEPT ![a] = Value(g, "totalLevels", @)]
        /\ currentLevel' = [currentLevel EXCEPT ![a] = Value(g, "currentLevel", @)]
        /\ status' = [status EXCEPT ![a] = Value(g, "status", @)]
        /\ forced' = IF requestType[a] = Null /\ OnlyLength(g) THEN forced
                     ELSE forced \cup {a}
        /\ UNCHANGED <<kind, target, log, job, pc, copy, granted, held>>
  BY DEF PostApproval
<1> DEFINE total   == Value(g, "totalLevels", totalLevels[a])
           current == Value(g, "currentLevel", currentLevel[a])
           stat    == Value(g, "status", status[a])
<1>2. /\ total \in Levels /\ current \in Levels /\ stat \in Statuses
      /\ type # Null
  BY ApprovalsAssumption DEF Value, Columns, ApprovalTypeOK
<1>3. a \notin forced' =>
        /\ requestType[a] = Null /\ current = 1 /\ stat = "pending"
        /\ current = currentLevel[a] /\ stat = status[a] /\ total \in 1..MaxLevels
  <2> SUFFICES ASSUME a \notin forced'
               PROVE  /\ requestType[a] = Null /\ current = 1 /\ stat = "pending"
                      /\ current = currentLevel[a] /\ stat = status[a]
                      /\ total \in 1..MaxLevels
    OBVIOUS
  <2>1. requestType[a] = Null /\ OnlyLength(g)
    BY <1>1
  <2>2. current = currentLevel[a] /\ stat = status[a] /\ total # 0
    BY <2>1 DEF OnlyLength, Value, Columns, NewInv, DefaultLevels
  <2> QED
    BY <1>2, <2>1, <2>2, ApprovalsAssumption DEF NewInv, Levels, DefaultLevels
<1>4. /\ totalLevels' = [totalLevels EXCEPT ![a] = total]
      /\ currentLevel' = [currentLevel EXCEPT ![a] = current]
      /\ status' = [status EXCEPT ![a] = stat]
      /\ forced \subseteq forced' /\ forced' \subseteq forced \cup {a}
  BY <1>1
<1> HIDE DEF total, current, stat
<1>5. ApprovalTypeOK' /\ NewInv'
  BY <1>1, <1>2, <1>3, <1>4 DEF ApprovalTypeOK, NewInv, Levels
<1>6. SessionInv' /\ GrantedInv'
  BY <1>1, <1>2, <1>3, <1>4
  DEF ApprovalTypeOK, SessionInv, GrantedInv, Decisions, Deciding, Approves, Of
<1>7. LevelInv'
  BY <1>1, <1>3, <1>4, LevelsKept DEF ApprovalTypeOK, SessionInv, Decisions, Of
<1>8. LogInv'
  BY <1>1 DEF LogInv, Entry, LogAction, IsFinalStep, Approves, Of
<1> QED
  BY <1>5, <1>6, <1>7, <1>8

LEMMA ActivateMemberStep ==
  ASSUME WorkInv, NEW a \in Request, ActivateMember(a)
  PROVE  WorkInv'
<1> USE ApprovalsAssumption DEF WorkInv, ActivateMember, approvals, sessions
<1>1. ApprovalTypeOK' /\ NewInv'
  BY DEF ApprovalTypeOK, NewInv, SessionInv, Deciding, ChainLengths,
         Kinds, RequestTypes, LoanStatus, Newborn, Levels, DefaultLevels,
         Outcomes
<1>2. SessionInv' /\ GrantedInv'
  BY DEF ApprovalTypeOK, NewInv, SessionInv, GrantedInv, Decisions, Copies,
         Deciding, Labels, Approves, Of, Kinds, RequestTypes
<1>3. LevelInv'
  BY LevelsKept DEF SessionInv, GrantedInv, ApprovalTypeOK, Decisions, Of
<1>4. LogInv'
  BY DEF ApprovalTypeOK, SessionInv, LogInv, Entry, LogAction, IsFinalStep, Approves,
         Deciding, Of, NewInv, Kinds, RequestTypes
<1> QED
  BY <1>1, <1>2, <1>3, <1>4

LEMMA LoadMemberStep ==
  ASSUME WorkInv, NEW a \in Request, LoadMember(a)
  PROVE  WorkInv'
<1> USE ApprovalsAssumption DEF WorkInv, LoadMember, approvals, sessions
<1>1. ApprovalTypeOK' /\ NewInv'
  BY DEF ApprovalTypeOK, NewInv, SessionInv, Deciding, ChainLengths,
         Kinds, RequestTypes, LoanStatus, Newborn, Levels, DefaultLevels,
         Outcomes
<1>2. SessionInv' /\ GrantedInv'
  BY DEF ApprovalTypeOK, NewInv, SessionInv, GrantedInv, Decisions, Copies,
         Deciding, Labels, Approves, Of, Kinds, RequestTypes
<1>3. LevelInv'
  BY LevelsKept DEF SessionInv, GrantedInv, ApprovalTypeOK, Decisions, Of
<1>4. LogInv'
  BY DEF ApprovalTypeOK, SessionInv, LogInv, Entry, LogAction, IsFinalStep, Approves,
         Deciding, Of, NewInv, Kinds, RequestTypes
<1> QED
  BY <1>1, <1>2, <1>3, <1>4

LEMMA SaveMemberStep ==
  ASSUME WorkInv, NEW a \in Request, SaveMember(a)
  PROVE  WorkInv'
<1> USE ApprovalsAssumption DEF WorkInv, SaveMember, approvals, sessions
<1>1. ApprovalTypeOK' /\ NewInv'
  BY DEF ApprovalTypeOK, NewInv, SessionInv, Deciding, ChainLengths,
         Kinds, RequestTypes, LoanStatus, Newborn, Levels, DefaultLevels,
         Outcomes
<1>2. SessionInv' /\ GrantedInv'
  BY DEF ApprovalTypeOK, NewInv, SessionInv, GrantedInv, Decisions, Copies,
         Deciding, Labels, Approves, Of, Kinds, RequestTypes
<1>3. LevelInv'
  BY LevelsKept DEF SessionInv, GrantedInv, ApprovalTypeOK, Decisions, Of
<1>4. LogInv'
  BY DEF ApprovalTypeOK, SessionInv, LogInv, Entry, LogAction, IsFinalStep, Approves,
         Deciding, Of, NewInv, Kinds, RequestTypes
<1> QED
  BY <1>1, <1>2, <1>3, <1>4

LEMMA CreateLoanStep ==
  ASSUME WorkInv, NEW a \in Request, CreateLoan(a)
  PROVE  WorkInv'
<1> USE ApprovalsAssumption DEF WorkInv, CreateLoan, approvals, sessions
<1>1. ApprovalTypeOK' /\ NewInv'
  BY DEF ApprovalTypeOK, NewInv, SessionInv, Deciding, ChainLengths,
         Kinds, RequestTypes, LoanStatus, Newborn, Levels, DefaultLevels,
         Outcomes
<1>2. SessionInv' /\ GrantedInv'
  BY DEF ApprovalTypeOK, NewInv, SessionInv, GrantedInv, Decisions, Copies,
         Deciding, Labels, Approves, Of, Kinds, RequestTypes
<1>3. LevelInv'
  BY LevelsKept DEF SessionInv, GrantedInv, ApprovalTypeOK, Decisions, Of
<1>4. LogInv'
  BY DEF ApprovalTypeOK, SessionInv, LogInv, Entry, LogAction, IsFinalStep, Approves,
         Deciding, Of, NewInv, Kinds, RequestTypes
<1> QED
  BY <1>1, <1>2, <1>3, <1>4

LEMMA AdvanceStep ==
  ASSUME WorkInv, NEW s \in Session, Advance(s)
  PROVE  WorkInv'
<1> USE ApprovalsAssumption DEF WorkInv, Advance, Goto, approvals, sessions
<1>1. ApprovalTypeOK' /\ NewInv'
  BY DEF ApprovalTypeOK, NewInv, SessionInv, Deciding, ChainLengths,
         Kinds, RequestTypes, LoanStatus, Newborn, Levels, DefaultLevels,
         Outcomes
<1>2. SessionInv' /\ GrantedInv'
  BY DEF ApprovalTypeOK, NewInv, SessionInv, GrantedInv, Decisions, Copies,
         Deciding, Labels, Approves, Of, Kinds, RequestTypes
<1>3. LevelInv'
  BY LevelsKept DEF SessionInv, GrantedInv, ApprovalTypeOK, Decisions, Of
<1>4. LogInv'
  BY DEF SessionInv, LogInv, Entry, LogAction, IsFinalStep, Approves,
         Deciding, Of, NewInv, Kinds, RequestTypes
<1> QED
  BY <1>1, <1>2, <1>3, <1>4

LEMMA AtDeskStep ==
  ASSUME WorkInv, NEW s \in Session, AtDesk(s)
  PROVE  WorkInv'
<1> USE ApprovalsAssumption DEF WorkInv, AtDesk, Goto, approvals, sessions
<1>1. ApprovalTypeOK' /\ NewInv'
  BY DEF ApprovalTypeOK, NewInv, SessionInv, Deciding, ChainLengths,
         Kinds, RequestTypes, LoanStatus, Newborn, Levels, DefaultLevels,
         Outcomes
<1>2. SessionInv' /\ GrantedInv'
  BY DEF ApprovalTypeOK, NewInv, SessionInv, GrantedInv, Decisions, Copies,
         Deciding, Labels, Approves, Of, Kinds, RequestTypes
<1>3. LevelInv'
  BY LevelsKept DEF SessionInv, GrantedInv, ApprovalTypeOK, Decisions, Of
<1>4. LogInv'
  BY DEF SessionInv, LogInv, Entry, LogAction, IsFinalStep, Approves,
         Deciding, Of, NewInv, Kinds, RequestTypes
<1> QED
  BY <1>1, <1>2, <1>3, <1>4

LEMMA LoadStep ==
  ASSUME WorkInv, NEW s \in Session, Load(s)
  PROVE  WorkInv'
<1> USE ApprovalsAssumption DEF WorkInv, Load, Goto, approvals, sessions
<1>1. ApprovalTypeOK' /\ NewInv'
  BY DEF ApprovalTypeOK, NewInv, SessionInv, Deciding, ChainLengths,
         Kinds, RequestTypes, LoanStatus, Newborn, Levels, DefaultLevels,
         Outcomes
<1>2. SessionInv' /\ GrantedInv'
  BY DEF ApprovalTypeOK, NewInv, SessionInv, GrantedInv, Decisions, Copies,
         Deciding, Labels, Approves, Of, Kinds, RequestTypes
<1>3. LevelInv'
  BY LevelsKept DEF SessionInv, GrantedInv, ApprovalTypeOK, Decisions, Of
<1>4. LogInv'
  BY DEF SessionInv, LogInv, Entry, LogAction, IsFinalStep, Approves,
         Deciding, Of, NewInv, Kinds, RequestTypes
<1> QED
  BY <1>1, <1>2, <1>3, <1>4

LEMMA WriteLoanStep ==
  ASSUME WorkInv, NEW s \in Session, WriteLoan(s)
  PROVE  WorkInv'
<1> USE ApprovalsAssumption DEF WorkInv, WriteLoan, Goto, approvals, sessions
<1>1. ApprovalTypeOK' /\ NewInv'
  BY DEF ApprovalTypeOK, NewInv, SessionInv, Deciding, ChainLengths,
         Kinds, RequestTypes, LoanStatus, Newborn, Levels, DefaultLevels,
         Outcomes
<1>2. SessionInv' /\ GrantedInv'
  BY DEF ApprovalTypeOK, NewInv, SessionInv, GrantedInv, Decisions, Copies,
         Deciding, Labels, Approves, Of, Kinds, RequestTypes
<1>3. LevelInv'
  BY LevelsKept DEF SessionInv, GrantedInv, ApprovalTypeOK, Decisions, Of
<1>4. LogInv'
  BY DEF SessionInv, LogInv, Entry, LogAction, IsFinalStep, Approves,
         Deciding, Of, NewInv, Kinds, RequestTypes
<1> QED
  BY <1>1, <1>2, <1>3, <1>4

LEMMA FindPendingStep ==
  ASSUME WorkInv, NEW s \in Session, FindPending(s)
  PROVE  WorkInv'
<1> USE ApprovalsAssumption DEF WorkInv, FindPending, Goto, approvals, sessions
<1>1. ApprovalTypeOK' /\ NewInv'
  BY DEF ApprovalTypeOK, NewInv, SessionInv, Deciding, ChainLengths,
         Kinds, RequestTypes, LoanStatus, Newborn, Levels, DefaultLevels,
         Outcomes
<1>2. SessionInv' /\ GrantedInv'
  BY DEF ApprovalTypeOK, NewInv, SessionInv, GrantedInv, Decisions, Copies,
         Deciding, Labels, Approves, Of, Kinds, RequestTypes
<1>3. LevelInv'
  BY LevelsKept DEF SessionInv, GrantedInv, ApprovalTypeOK, Decisions, Of
<1>4. LogInv'
  BY DEF SessionInv, LogInv, Entry, LogAction, IsFinalStep, Approves,
         Deciding, Of, NewInv, Kinds, RequestTypes
<1> QED
  BY <1>1, <1>2, <1>3, <1>4

LEMMA WriteLogStep ==
  ASSUME WorkInv, NEW s \in Session, WriteLog(s)
  PROVE  WorkInv'
<1> USE ApprovalsAssumption DEF WorkInv, WriteLog, Goto, approvals, sessions
<1>1. ApprovalTypeOK' /\ NewInv'
  BY DEF ApprovalTypeOK, NewInv, SessionInv, Deciding, ChainLengths,
         Kinds, RequestTypes, LoanStatus, Newborn, Levels, DefaultLevels,
         Outcomes
<1>2. SessionInv' /\ GrantedInv'
  BY DEF ApprovalTypeOK, NewInv, SessionInv, GrantedInv, Decisions, Copies,
         Deciding, Labels, Approves, Of, Kinds, RequestTypes
<1>3. LevelInv'
  BY LevelsKept DEF SessionInv, GrantedInv, ApprovalTypeOK, Decisions, Of
<1>4. LogInv'
  BY DEF SessionInv, LogInv, Entry, LogAction, IsFinalStep, Approves,
         Deciding, Of, NewInv, Kinds, RequestTypes
<1> QED
  BY <1>1, <1>2, <1>3, <1>4

LEMMA ApplyStep ==
  ASSUME WorkInv, NEW s \in Session, Apply(s)
  PROVE  WorkInv'
<1> USE ApprovalsAssumption DEF WorkInv, Apply, Goto, approvals, sessions
<1>1. ApprovalTypeOK' /\ NewInv'
  BY DEF ApprovalTypeOK, NewInv, SessionInv, Effect, Outcomes
<1>2. SessionInv' /\ GrantedInv'
  BY DEF ApprovalTypeOK, NewInv, SessionInv, GrantedInv, Decisions, Copies,
         Deciding, Labels, Approves, Of, Kinds, RequestTypes
<1>3. LevelInv'
  BY LevelsKept DEF SessionInv, GrantedInv, ApprovalTypeOK, Decisions, Of
<1>4. LogInv'
  <2>1. /\ pc[s] = "apply" /\ Of(s) \in Request /\ Entry(s) \in log
        /\ pc' = [pc EXCEPT ![s] = "end"]
        /\ UNCHANGED <<kind, log, job, copy, totalLevels>>
    BY DEF SessionInv, LogInv, Decisions, Of
  <2>2. \A q \in Session : pc'[q] = "apply" => Entry(q)' \in log'
    BY <2>1 DEF SessionInv, LogInv, Entry, LogAction, IsFinalStep, Approves, Of
  <2> QED
    BY <2>1, <2>2 DEF LogInv
<1> QED
  BY <1>1, <1>2, <1>3, <1>4

(* The step that can raise the level: its session has not granted one yet,  *)
(* and the level it believes in is one that the others have granted.        *)
LEMMA SaveStep ==
  ASSUME WorkInv, NEW s \in Session, Save(s)
  PROVE  WorkInv'
<1> USE ApprovalsAssumption DEF WorkInv
<1>0. PICK a \in Request : a = Of(s)
  BY DEF Save, SessionInv, Decisions, Of
<1> DEFINE more == granted \cup {t \in {s} : Approves(t)}
<1>1. /\ pc[s] = "save" /\ pc' = [pc EXCEPT ![s] = "log"]
      /\ status' = [status EXCEPT ![a] = StatusAfter(s)]
      /\ currentLevel' = [currentLevel EXCEPT ![a] = LevelAfter(s)]
      /\ totalLevels' = [totalLevels EXCEPT ![a] = copy[s].totalLevels]
      /\ granted' = more
      /\ UNCHANGED <<requestType, kind, target, log, job, copy, held, forced>>
  BY <1>0 DEF Save, Goto
<1>2. /\ job[s] \in Decisions /\ a \in Request /\ requestType[a] # Null
      /\ copy[s] \in Copies /\ totalLevels[a] \in Levels /\ s \notin granted
      /\ a \notin forced =>
           /\ copy[s].currentLevel \in 1..totalLevels[a]
           /\ copy[s].totalLevels = totalLevels[a]
           /\ copy[s].currentLevel <= Cardinality(Granted(a)) + 1
  BY <1>0, <1>1
  DEF ApprovalTypeOK, SessionInv, GrantedInv, LevelInv, Decisions, Deciding
<1>3. /\ LevelAfter(s) \in Levels
      /\ a \notin forced => LevelAfter(s) \in 1..totalLevels[a]
      /\ copy[s].totalLevels \in Levels
      /\ StatusAfter(s) \in {"approved", "executed", "rejected"}
  BY <1>0, <1>2, ApprovalsAssumption
  DEF LevelAfter, StatusAfter, IsFinalStep, Copies, Levels, DefaultLevels
<1>4. \A b \in Request \ forced : totalLevels'[b] = totalLevels[b]
  BY <1>1, <1>2 DEF ApprovalTypeOK
<1>5. SessionInv'
  BY <1>1, <1>4 DEF SessionInv, Labels, Deciding, Decisions, Of
<1>9. ApprovalTypeOK' /\ NewInv'
  BY <1>1, <1>2, <1>3, <1>4 DEF ApprovalTypeOK, NewInv, Statuses
<1>6. GrantedInv'
  <2>1. IsFiniteSet(more)
    <3>1. more = granted \/ more = granted \cup {s}
      OBVIOUS
    <3> QED
      BY <3>1, FS_AddElement DEF GrantedInv
  <2> QED
    BY <1>1, <1>2, <2>1 DEF GrantedInv, SessionInv, ApprovalTypeOK, Approves
<1>7. LevelInv'
  <2>1. \A b : Cardinality(Granted(b)) \in Nat /\ IsFiniteSet(Granted(b))
    BY GrantedFinite
  <2>2. CASE ~ Approves(s)
    <3>1. \A b : Granted(b)' = Granted(b)
      BY <1>1, <2>2 DEF Granted, Of
    <3>2. LevelAfter(s) = copy[s].currentLevel /\ StatusAfter(s) = "rejected"
      BY <1>2, <2>2 DEF LevelAfter, StatusAfter, Copies, Levels
    <3>3. \A b \in Request \ forced : currentLevel'[b] <= Cardinality(Granted(b)') + 1
      BY <1>0, <1>1, <1>2, <3>1, <3>2 DEF LevelInv, ApprovalTypeOK
    <3>4. \A b \in Request : status'[b] = "executed" => status[b] = "executed"
      BY <1>1, <3>2 DEF ApprovalTypeOK
    <3>5. ExecutedNeedsAllLevels'
      BY <1>1, <1>4, <3>1, <3>4 DEF LevelInv, ExecutedNeedsAllLevels, AllLevelsApproved
    <3>6. \A q \in Session : pc'[q] = "save" /\ Of(q)' \notin forced' =>
            copy'[q].currentLevel <= Cardinality(Granted(Of(q))') + 1
      BY <1>1, <3>1 DEF LevelInv, SessionInv, Of
    <3>7. \A q \in granted' : Of(q)' \notin forced' =>
            copy'[q].currentLevel <= Cardinality(Granted(Of(q))')
      BY <1>1, <2>2, <3>1 DEF LevelInv, Of
    <3> QED
      BY <1>1, <3>3, <3>5, <3>6, <3>7 DEF LevelInv
  <2>3. CASE Approves(s)
    <3>1. /\ granted' = granted \cup {s}
          /\ Granted(a)' = Granted(a) \cup {s} /\ s \notin Granted(a)
          /\ \A b : b # a => Granted(b)' = Granted(b)
      BY <1>0, <1>1, <1>2, <2>3 DEF Granted, Of
    <3>2. Cardinality(Granted(a)') = Cardinality(Granted(a)) + 1
      BY <2>1, <3>1, FS_AddElement
    <3>3. \A b : Cardinality(Granted(b)') \in Nat
                 /\ Cardinality(Granted(b)') >= Cardinality(Granted(b))
      <4> SUFFICES ASSUME NEW b
                   PROVE  /\ Cardinality(Granted(b)') \in Nat
                          /\ Cardinality(Granted(b)') >= Cardinality(Granted(b))
        OBVIOUS
      <4>1. CASE b = a
        BY <2>1, <3>2, <4>1
      <4>2. CASE b # a
        BY <2>1, <3>1, <4>2
      <4> QED
        BY <4>1, <4>2
    <3>4. a \notin forced => copy[s].currentLevel <= Cardinality(Granted(a)')
      BY <1>2, <2>1, <3>2 DEF Copies, Levels
    <3>5. /\ LevelAfter(s) <= copy[s].currentLevel + 1 /\ LevelAfter(s) \in Nat
          /\ copy[s].currentLevel \in Nat /\ totalLevels[a] \in Nat
          /\ a \notin forced /\ StatusAfter(s) = "executed" =>
               copy[s].currentLevel >= totalLevels[a]
      BY <1>0, <1>2, ApprovalsAssumption
      DEF LevelAfter, StatusAfter, IsFinalStep, Copies, Levels
    <3>6. ASSUME NEW b \in Request \ forced
          PROVE  currentLevel'[b] <= Cardinality(Granted(b)') + 1
      <4>1. CASE b = a
        <5>1. currentLevel'[b] = LevelAfter(s)
          BY <1>1, <4>1 DEF ApprovalTypeOK
        <5> QED
          BY <3>3, <3>4, <3>5, <4>1, <5>1
      <4>2. CASE b # a
        <5>1. currentLevel'[b] = currentLevel[b] /\ currentLevel[b] \in Nat
          BY <1>1, <4>2, ApprovalsAssumption DEF ApprovalTypeOK, Levels
        <5>2. currentLevel[b] <= Cardinality(Granted(b)) + 1
          BY DEF LevelInv
        <5> QED
          BY <2>1, <3>3, <5>1, <5>2
      <4> QED
        BY <4>1, <4>2
    <3>7. ASSUME NEW b \in Request \ forced, status'[b] = "executed"
          PROVE  requestType[b] # Null /\ Cardinality(Granted(b)') >= totalLevels[b]
      <4>0. totalLevels[b] \in Nat
        BY ApprovalsAssumption DEF ApprovalTypeOK, Levels
      <4>1. CASE b = a
        <5>1. status'[b] = StatusAfter(s)
          BY <1>1, <4>1 DEF ApprovalTypeOK
        <5> QED
          BY <1>2, <3>3, <3>4, <3>5, <3>7, <4>0, <4>1, <5>1
      <4>2. CASE b # a
        <5>1. status[b] = "executed"
          BY <1>1, <3>7, <4>2 DEF ApprovalTypeOK
        <5>2. requestType[b] # Null /\ Cardinality(Granted(b)) >= totalLevels[b]
          BY <5>1 DEF LevelInv, ExecutedNeedsAllLevels, AllLevelsApproved
        <5> QED
          BY <2>1, <3>3, <4>0, <5>2
      <4> QED
        BY <4>1, <4>2
    <3>8. ExecutedNeedsAllLevels'
      BY <1>1, <1>4, <3>7 DEF ExecutedNeedsAllLevels, AllLevelsApproved
    <3>9. ASSUME NEW q \in Session, q # s
          PROVE  /\ Cardinality(Granted(Of(q))') >= Cardinality(Granted(Of(q)))
                 /\ Cardinality(Granted(Of(q))') \in Nat
      <4> DEFINE b == Of(q)
      <4>1. Granted(Of(q))' = {t \in granted' : Of(t)' = b}
        BY <1>1 DEF Granted, Of
      <4>2. {t \in granted' : Of(t)' = b} =
              IF b = a THEN Granted(a) \cup {s} ELSE Granted(b)
        BY <1>0, <1>1, <2>3 DEF Granted, Of
      <4>3. CASE b = a
        <5>1. /\ Granted(Of(q))' = Granted(a) \cup {s}
              /\ Granted(Of(q)) = Granted(a)
          BY <4>1, <4>2, <4>3
        <5>2. Cardinality(Granted(a) \cup {s}) = Cardinality(Granted(a)) + 1
          BY <2>1, <3>1, FS_AddElement
        <5> QED
          BY <2>1, <5>1, <5>2
      <4>4. CASE b # a
        BY <2>1, <4>1, <4>2, <4>4
      <4> QED
        BY <4>1, <4>3, <4>4
    <3>10. \A q \in Session : pc'[q] = "save" /\ Of(q)' \notin forced' =>
             copy'[q].currentLevel <= Cardinality(Granted(Of(q))') + 1
      <4> SUFFICES ASSUME NEW q \in Session, pc'[q] = "save", Of(q)' \notin forced'
                   PROVE  copy'[q].currentLevel <= Cardinality(Granted(Of(q))') + 1
        OBVIOUS
      <4>1. /\ q # s /\ pc[q] = "save" /\ copy'[q] = copy[q] /\ copy[q] \in Copies
            /\ Of(q) \notin forced
        BY <1>1 DEF SessionInv, ApprovalTypeOK, Deciding, Decisions, Of
      <4>2. copy[q].currentLevel <= Cardinality(Granted(Of(q))) + 1
        BY <4>1 DEF LevelInv
      <4>3. copy[q].currentLevel \in Nat
        BY <4>1 DEF Copies, Levels
      <4> QED
        BY <2>1, <3>9, <4>1, <4>2, <4>3
    <3>11. \A q \in granted' : Of(q)' \notin forced' =>
             copy'[q].currentLevel <= Cardinality(Granted(Of(q))')
      <4> SUFFICES ASSUME NEW q \in granted', Of(q)' \notin forced'
                   PROVE  copy'[q].currentLevel <= Cardinality(Granted(Of(q))')
        OBVIOUS
      <4>1. CASE q = s
        <5>1. Granted(Of(s))' = Granted(a)' /\ a \notin forced
          BY <1>0, <1>1, <4>1 DEF Granted, Of
        <5> QED
          BY <1>1, <3>4, <4>1, <5>1
      <4>2. CASE q # s
        <5>1. q \in granted /\ q \in Session /\ copy'[q] = copy[q]
              /\ copy[q] \in Copies /\ Of(q) \notin forced
          BY <1>1, <3>1, <4>2 DEF GrantedInv, Of
        <5>2. copy[q].currentLevel <= Cardinality(Granted(Of(q)))
              /\ copy[q].currentLevel \in Nat
          BY <5>1 DEF LevelInv, Copies, Levels
        <5> QED
          BY <2>1, <3>9, <4>2, <5>1, <5>2
      <4> QED
        BY <4>1, <4>2
    <3> QED
      BY <1>1, <3>6, <3>8, <3>10, <3>11 DEF LevelInv
  <2> QED
    BY <2>2, <2>3
<1>8. LogInv'
  BY <1>1
  DEF SessionInv, LogInv, Entry, LogAction, IsFinalStep,
      Approves, Of
<1> QED
  BY <1>5, <1>6, <1>7, <1>8, <1>9

LEMMA CrashStep == WorkInv /\ Crash => WorkInv'
<1> SUFFICES ASSUME WorkInv, Crash PROVE WorkInv'
  OBVIOUS
<1> USE DEF WorkInv, approvals
<1>1. /\ pc' \in [Session -> {"idle", "end"}]
      /\ \A s \in Session : pc[s] = "end" => pc'[s] = "end"
      /\ \A s \in Session : pc'[s] = "idle" => pc[s] = "idle"
      /\ held' = [a \in Request |-> Null]
      /\ UNCHANGED <<approvals, kind, target, log, job, copy, granted, forced>>
  BY DEF Crash
<1>2. ApprovalTypeOK' /\ NewInv' /\ SessionInv' /\ GrantedInv'
  BY <1>1 DEF ApprovalTypeOK, NewInv, SessionInv, GrantedInv, Labels, Deciding
<1>3. LevelInv'
  BY <1>1, LevelsKept
<1>4. LogInv'
  BY <1>1 DEF LogInv
<1> QED
  BY <1>2, <1>3, <1>4

LEMMA WorkNext == WorkInv /\ [LoansNext]_approvalVars => WorkInv'
<1> SUFFICES ASSUME WorkInv, [LoansNext]_approvalVars PROVE WorkInv'
  OBVIOUS
<1>1. CASE UNCHANGED approvalVars
  BY <1>1
  DEF approvalVars, WorkInv, ApprovalTypeOK, SessionInv, NewInv, GrantedInv,
      LevelInv, LogInv, ExecutedNeedsAllLevels, AllLevelsApproved, Granted, Of,
      Approves, Entry, LogAction, IsFinalStep
<1>2. CASE AllDecided
  BY <1>1, <1>2 DEF AllDecided
<1>3. CASE Next /\ ~ AllDecided
  BY <1>3, SubmitStep, ActivateMemberStep, LoadMemberStep, SaveMemberStep, ProcessStep, PostApprovalStep, AdvanceStep, LoadStep,
     SaveStep, WriteLogStep, ApplyStep, CrashStep
  DEF Next
<1> QED
  BY <1>1, <1>2, <1>3, CreateLoanStep, AtDeskStep, WriteLoanStep, FindPendingStep
  DEF LoansNext

LEMMA WorkInvariant == LoansSpec => []WorkInv
BY WorkInit, WorkNext, PTL DEF LoansSpec

-----------------------------------------------------------------------------
(* What follows.                                                            *)

(* The variables have their types and no approval is beyond its last level  *)
(* unless forced, however decisions at the desk and in the workflow         *)
(* interleave.                                                              *)
THEOREM ApprovalTypes == LoansSpec => []ApprovalTypeOK
<1>1. WorkInv => ApprovalTypeOK
  BY DEF WorkInv
<1> QED
  BY WorkInvariant, <1>1, PTL

(* An approval is executed only after as many approvals as it has levels,   *)
(* unless forced, although every decision is made on a copy.                *)
THEOREM ExecutedAfterAllLevels == LoansSpec => []ExecutedNeedsAllLevels
<1>1. WorkInv => ExecutedNeedsAllLevels
  BY DEF WorkInv, LevelInv
<1> QED
  BY WorkInvariant, <1>1, PTL

(* Only Apply approves a row after its birth, and apart from a loan rejects *)
(* one.                                                                     *)
LEMMA OnlyApply ==
  ASSUME WorkInv, [LoansNext]_approvalVars, NEW a \in Request,
         target[a] # "none", target'[a] # target[a], held'[a] = held[a],
         \/ target'[a] = "approved"
         \/ target'[a] = "rejected" /\ kind[a] # "loan"
  PROVE  \E s \in Session : /\ Apply(s) /\ a = Of(s) /\ target'[a] = Effect(s)
                           /\ Entry(s) \in log
<1>1. PICK s \in Session : Apply(s) /\ a = Of(s)
  BY DEF LoansNext, Next, approvalVars, Submit, ActivateMember, LoadMember,
     SaveMember, Process,
     PostApproval, Advance, Load, Save, WriteLog, Apply, Crash, AllDecided,
     CreateLoan, AtDesk, WriteLoan, FindPending, WorkInv, ApprovalTypeOK, NewInv,
     SessionInv
<1> QED
  BY <1>1 DEF Apply, WorkInv, ApprovalTypeOK, LogInv

(* Whatever of a decision reaches the loan, member or application is in the *)
(* log, wherever the server died: who applies it has logged it.             *)
THEOREM DecisionsAreLogged == LoansSpec => DecisionIsLogged
<1>1. ASSUME WorkInv, [LoansNext]_approvalVars, NEW a \in Request,
             target[a] # "none", target'[a] # target[a], held'[a] = held[a],
             \/ target'[a] = "approved"
             \/ target'[a] = "rejected" /\ kind[a] # "loan"
      PROVE  \E e \in log : /\ e.request = a
                           /\ e.action = IF target'[a] = "approved"
                                         THEN "final_approval" ELSE "rejected"
  <2>1. PICK s \in Session : /\ Apply(s) /\ a = Of(s) /\ target'[a] = Effect(s)
                            /\ Entry(s) \in log
    BY <1>1, OnlyApply
  <2> QED
    BY <1>1, <2>1 DEF Effect, Entry, LogAction
<1>2. WorkInv /\ [LoansNext]_approvalVars =>
        [\A a \in Request :
           /\ target[a] # "none" /\ target'[a] # target[a] /\ held'[a] = held[a]
           /\ \/ target'[a] = "approved"
              \/ target'[a] = "rejected" /\ kind[a] # "loan"
           => \E e \in log : /\ e.request = a
                             /\ e.action = IF target'[a] = "approved"
                                           THEN "final_approval" ELSE "rejected"
        ]_approvalVars
  BY <1>1
<1> QED
  BY WorkInvariant, <1>2, PTL DEF LoansSpec, DecisionIsLogged

(* No step approves what an approval is about before all levels have been   *)
(* granted, unless a body has forced it: the final decision was made on a   *)
(* level that others had granted.                                           *)
THEOREM TargetsAfterAllLevels == LoansSpec => TargetNeedsAllLevels
<1>1. ASSUME WorkInv, [LoansNext]_approvalVars, NEW a \in Request \ forced,
             target[a] \notin {"none", "approved"}, target'[a] = "approved",
             held'[a] = held[a]
      PROVE  AllLevelsApproved(a)
  <2>1. PICK s \in Session : Apply(s) /\ a = Of(s) /\ target'[a] = Effect(s)
    BY <1>1, OnlyApply
  <2>2. Approves(s) /\ IsFinalStep(s) /\ pc[s] = "apply"
    BY <1>1, <2>1 DEF Apply, Effect
  <2>3. /\ requestType[a] # Null /\ s \in granted /\ copy[s] \in Copies
        /\ totalLevels[a] \in Nat /\ copy[s].totalLevels = totalLevels[a]
        /\ copy[s].currentLevel <= Cardinality(Granted(a))
        /\ Cardinality(Granted(a)) \in Nat
    BY <1>1, <2>1, <2>2, GrantedFinite, ApprovalsAssumption
    DEF WorkInv, SessionInv, GrantedInv, LevelInv, ApprovalTypeOK, Deciding,
        Decisions, Of, Levels
  <2>4. copy[s].currentLevel \in Nat /\ copy[s].currentLevel >= totalLevels[a]
    BY <2>2, <2>3 DEF IsFinalStep, Copies, Levels
  <2> QED
    BY <2>3, <2>4 DEF AllLevelsApproved
<1>2. WorkInv /\ [LoansNext]_approvalVars =>
        [\A a \in Request \ forced :
           /\ target[a] \notin {"none", "approved"} /\ target'[a] = "approved"
           /\ held'[a] = held[a]
           => AllLevelsApproved(a)]_approvalVars
  BY <1>1
<1> QED
  BY WorkInvariant, <1>2, PTL DEF LoansSpec, TargetNeedsAllLevels
=============================================================================
