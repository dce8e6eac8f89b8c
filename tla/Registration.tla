---------------------------- MODULE Registration ----------------------------
(***************************************************************************)
(* Registration with a token: TokenService.verifyAndGenerateToken sells a   *)
(* token for a payment, AuthService.register spends it on a new user.       *)
(*                                                                          *)
(* register looks at the token and at the email before its transaction,     *)
(* inserts user, wallet and member inside it, and marks the token as used   *)
(* by TokenService, on another connection, so that the mark is committed    *)
(* on its own before the transaction is.  What has been committed is all    *)
(* that other sessions see.                                                 *)
(*                                                                          *)
(* Beside them, what else makes users or has them count as having paid the  *)
(* registration fee: googleLogin, emergencyFixUser and PaymentService (in   *)
(* detail: RegistrationFee).  Bound: nobody else creates users.             *)
(***************************************************************************)
EXTENDS Naturals, FiniteSets

CONSTANTS
  Session,      \* calls of verifyAndGenerateToken, register, googleLogin
  Payment,      \* payment references at Monnify
  Code,         \* token codes
  Email,
  MockMode,     \* isMonnifyMockModeEnabled, meant for development
  Null

ASSUME RegistrationAssumption ==
  /\ MockMode \in BOOLEAN
  /\ Null \notin Session \cup Payment \cup Code
  /\ Null \notin [payment : Payment, used : BOOLEAN]      \* no row is null

VARIABLES
  paid,         \* the payments Monnify reports as PAID
  token,        \* token[c]: the row of code c, or Null
  users,        \* the committed users, and whether each has a member row
  userPaid,     \* has_paid_registration_fee of users, by who created them
  memberPaid,   \* has_paid_registration_fee of their members
  settled,      \* history variable: those who paid the fee at Paystack, or
                \* for whom emergencyFixUser was called
  approvals,    \* the sessions whose member_registration workflow exists
  job,          \* job[s]: what session s was called with
  found,        \* found[s]: the code that s has found or generated
  pc            \* pc[s]: the step session s is at

fees == <<userPaid, memberPaid, settled>>
regVars == <<paid, token, users, fees, approvals, job, found, pc>>
tables == <<token, users, fees, approvals>>

Init ==
  /\ paid = {}
  /\ token = [c \in Code |-> Null]
  /\ users = {} /\ approvals = {}
  /\ userPaid = {} /\ memberPaid = {} /\ settled = {}
  /\ job = [s \in Session |-> Null]
  /\ found = [s \in Session |-> Null]
  /\ pc = [s \in Session |-> "idle"]

Goto(s, label) == pc' = [pc EXCEPT ![s] = label]
Unused(c) == token[c] # Null /\ ~ token[c].used

(* A payment is completed at Monnify, whatever happens here.                *)
Pay(p) ==
  /\ p \notin paid
  /\ paid' = paid \cup {p}
  /\ UNCHANGED <<tables, job, found, pc>>

-----------------------------------------------------------------------------
(* verifyAndGenerateToken.                                                  *)

Buy(s) ==
  /\ pc[s] = "idle"
  /\ \E p \in Payment : job' = [job EXCEPT ![s] = [payment |-> p]]
  /\ Goto(s, "askMonnify")
  /\ UNCHANGED <<paid, tables, found>>

(* Mutant: the status of the payment is not looked at.                      *)
PaidAtMonnifyAssumed(p) == TRUE

(* The answer of Monnify; without one, mock mode takes the payment as paid. *)
PaidAtMonnify(p) == p \in paid \/ MockMode
AskMonnify(s) ==
  /\ pc[s] = "askMonnify"
  /\ \/ PaidAtMonnify(job[s].payment) /\ Goto(s, "findToken")
     \/ job[s].payment \notin paid /\ Goto(s, "failed")
     \/ ~ MockMode /\ Goto(s, "failed")                     \* no answer
  /\ UNCHANGED <<paid, tables, job, found>>

TokensOf(p) == {c \in Code : token[c] # Null /\ token[c].payment = p}
FindToken(s) ==
  /\ pc[s] = "findToken"
  /\ IF TokensOf(job[s].payment) # {}
     THEN /\ \E c \in TokensOf(job[s].payment) : found' = [found EXCEPT ![s] = c]
          /\ Goto(s, "done")
     ELSE Goto(s, "saveToken") /\ UNCHANGED found
  /\ UNCHANGED <<paid, tables, job>>

(* Mutant: the buyer is sent a code that was not saved.                     *)
SaveTokenUnsaved(s) ==
  /\ pc[s] = "saveToken"
  /\ \E c \in Code : token[c] = Null /\ found' = [found EXCEPT ![s] = c]
  /\ Goto(s, "done")
  /\ UNCHANGED <<paid, tables, job>>

(* A new code; then the buyer gets it by email and SMS, errors are caught.  *)
SaveToken(s) ==
  /\ pc[s] = "saveToken"
  /\ \E c \in Code :
       /\ token[c] = Null
       /\ token' = [token EXCEPT ![c] =
                      [payment |-> job[s].payment, used |-> FALSE]]
       /\ found' = [found EXCEPT ![s] = c]
  /\ Goto(s, "done")
  /\ UNCHANGED <<paid, users, fees, approvals, job>>

-----------------------------------------------------------------------------
(* register.                                                                *)

Roles == {"member", "other", Null}       \* Null: the client gives no role
Forms == [email : Email, code : Code \cup {Null}, role : Roles]
HasToken(s) == job[s].code # Null
IsMember(s) == job[s].role # "other"     \* register's normalizedRole

(* The checks before the first query: a member needs a token, but a client  *)
(* that gives no role is only made a member later.                          *)
Register(s) ==
  /\ pc[s] = "idle"
  /\ \E form \in Forms :
       /\ job' = [job EXCEPT ![s] = form]
       /\ Goto(s, IF form.role = "member" /\ form.code = Null THEN "failed"
                  ELSE IF form.code = Null THEN "checkEmail" ELSE "checkToken")
  /\ UNCHANGED <<paid, tables, found>>

CheckToken(s) ==
  /\ pc[s] = "checkToken"
  /\ Goto(s, IF Unused(job[s].code) THEN "checkEmail" ELSE "failed")
  /\ UNCHANGED <<paid, tables, job, found>>

CheckEmail(s) ==
  /\ pc[s] = "checkEmail"
  /\ Goto(s, IF \E u \in users : u.email = job[s].email
             THEN "failed" ELSE "create")
  /\ UNCHANGED <<paid, tables, job, found>>

(* Mutant: the workflow is started before the transaction is committed.     *)
CreateWithWorkflow(s) ==
  /\ pc[s] = "create"
  /\ approvals' = approvals \cup {t \in {s} : IsMember(t)}
  /\ \E next \in {"failed", IF HasToken(s) THEN "validateToken" ELSE "commit"} :
       Goto(s, next)
  /\ UNCHANGED <<paid, token, users, fees, job, found>>

(* Weak passwords are refused.  User, wallet, bank account, member and next *)
(* of kin, in one transaction: nothing is visible yet, and any of the       *)
(* inserts may fail.                                                        *)
Create(s) ==
  /\ pc[s] = "create"
  /\ \E next \in {"failed", IF HasToken(s) THEN "validateToken" ELSE "commit"} :
       Goto(s, next)
  /\ UNCHANGED <<paid, tables, job, found>>

(* markTokenAsUsed: it checks the token once more, and then marks it by its *)
(* id, whatever has become of it.                                           *)
ValidateToken(s) ==
  /\ pc[s] = "validateToken"
  /\ Goto(s, IF Unused(job[s].code) THEN "markToken" ELSE "failed")
  /\ UNCHANGED <<paid, tables, job, found>>

(* Mutant: the mark is written on the connection of the transaction and     *)
(* lost with it, here always.                                               *)
MarkTokenLost(s) ==
  /\ pc[s] = "markToken"
  /\ Goto(s, "commit")
  /\ UNCHANGED <<paid, tables, job, found>>

MarkToken(s) ==
  /\ pc[s] = "markToken"
  /\ token' = [token EXCEPT ![job[s].code].used = TRUE]
  /\ Goto(s, "commit")
  /\ UNCHANGED <<paid, users, fees, approvals, job, found>>

(* Whatever the role, there is a member.  A user with a token has paid; the *)
(* same flag of its member is not among the columns insertMemberCompat      *)
(* writes.                                                                  *)
Commit(s) ==
  /\ pc[s] = "commit"
  /\ users' = users \cup {[by |-> s, email |-> job[s].email,
                           code |-> job[s].code, member |-> TRUE]}
  /\ userPaid' = userPaid \cup {t \in {s} : HasToken(t)}
  /\ Goto(s, "startWorkflow")
  /\ UNCHANGED <<paid, token, memberPaid, settled, approvals, job, found>>

(* The approval workflow of a member, and the greetings; an error is only   *)
(* logged, and the client is told that the registration was successful.     *)
StartWorkflow(s) ==
  /\ pc[s] = "startWorkflow"
  /\ \/ approvals' = approvals \cup {t \in {s} : IsMember(t)}
     \/ UNCHANGED approvals
  /\ Goto(s, "done")
  /\ UNCHANGED <<paid, token, users, fees, job, found>>

-----------------------------------------------------------------------------
(* Whatever else writes users and what they have paid.                      *)

(* googleLogin: a user who is not known by email gets a row, active, but    *)
(* neither a member nor a fee.                                              *)
RegisterByGoogle(s) ==
  /\ pc[s] = "idle"
  /\ \E e \in Email : job' = [job EXCEPT ![s] = [email |-> e]]
  /\ Goto(s, "findGoogle")
  /\ UNCHANGED <<paid, tables, found>>

FindGoogle(s) ==
  /\ pc[s] = "findGoogle"
  /\ Goto(s, IF \E u \in users : u.email = job[s].email
             THEN "done" ELSE "createGoogle")
  /\ UNCHANGED <<paid, tables, job, found>>

CreateGoogle(s) ==
  /\ pc[s] = "createGoogle"
  /\ users' = users \cup {[by |-> s, email |-> job[s].email,
                           code |-> Null, member |-> FALSE]}
  /\ Goto(s, "done")
  /\ UNCHANGED <<paid, token, fees, approvals, job, found>>

(* emergencyFixUser, for anybody's email; the update of members fails where *)
(* there is no table "user".                                                *)
Named(e) == {u \in users : u.email = e}
EmergencyFix(e) ==
  /\ Named(e) # {}
  /\ userPaid' = userPaid \cup {u.by : u \in Named(e)}
  /\ settled' = settled \cup {u.by : u \in Named(e)}
  /\ \/ UNCHANGED memberPaid
     \/ memberPaid' = memberPaid \cup {u.by : u \in {v \in Named(e) : v.member}}
  /\ UNCHANGED <<paid, token, users, approvals, job, found, pc>>

(* handleRegistrationSuccess, for a member that has not paid: both rows are *)
(* updated in one transaction.                                              *)
PayFee(u) ==
  /\ u.member /\ u.by \notin memberPaid
  /\ memberPaid' = memberPaid \cup {u.by}
  /\ userPaid' = userPaid \cup {u.by}
  /\ settled' = settled \cup {u.by}
  /\ UNCHANGED <<paid, token, users, approvals, job, found, pc>>

-----------------------------------------------------------------------------
Ended == {"idle", "done", "failed", "lost"}

(* The server dies: transactions that are open are rolled back.             *)
Crash ==
  /\ \E s \in Session : pc[s] \notin Ended
  /\ pc' = [s \in Session |-> IF pc[s] \in Ended THEN pc[s] ELSE "lost"]
  /\ UNCHANGED <<paid, tables, job, found>>

AllEnded ==
  (\A s \in Session : pc[s] \in Ended \ {"idle"}) /\ UNCHANGED regVars

Next ==
  \/ \E p \in Payment : Pay(p)
  \/ \E s \in Session :
       \/ Buy(s) \/ AskMonnify(s) \/ FindToken(s) \/ SaveToken(s)
       \/ Register(s) \/ CheckToken(s) \/ CheckEmail(s) \/ Create(s)
       \/ ValidateToken(s) \/ MarkToken(s) \/ Commit(s) \/ StartWorkflow(s)
       \/ RegisterByGoogle(s) \/ FindGoogle(s) \/ CreateGoogle(s)
  \/ \E e \in Email : EmergencyFix(e)
  \/ \E u \in users : PayFee(u)
  \/ Crash
  \/ AllEnded

Spec == Init /\ [][Next]_regVars

-----------------------------------------------------------------------------
(* Properties.                                                              *)

(* Every variable has its type, and every code on its way to be spent or    *)
(* handed out is the code of a token in the table.                          *)
Step == Ended \cup {"askMonnify", "findToken", "saveToken", "checkToken",
                    "checkEmail", "create", "validateToken", "markToken",
                    "commit", "startWorkflow", "findGoogle", "createGoogle"}
RegTypeOK ==
  /\ paid \subseteq Payment
  /\ token \in [Code -> [payment : Payment, used : BOOLEAN] \cup {Null}]
  /\ users \subseteq [by : Session, email : Email, code : Code \cup {Null},
                      member : BOOLEAN]
  /\ userPaid \subseteq Session /\ memberPaid \subseteq Session
  /\ settled \subseteq Session /\ approvals \subseteq Session
  /\ found \in [Session -> Code \cup {Null}]
  /\ pc \in [Session -> Step]
  /\ \A s \in Session : found[s] # Null => token[found[s]] # Null

(* Whoever is registered with a token has spent it: no committed user's     *)
(* token can be validated again, also if the server died anywhere in        *)
(* between (register marks the token before it commits the user).           *)
RegisteredTokensAreUsed ==
  \A u \in users : u.code # Null => token[u.code] # Null /\ ~ Unused(u.code)

(* Outside mock mode there is no token unless Monnify was paid for it, and  *)
(* whoever counts as having paid the registration fee (what the             *)
(* RegistrationFeeGuard asks, of the user or of the member) has registered  *)
(* with such a token, paid at Paystack, or had emergencyFixUser called.     *)
(* Two users may share a token (TokenRegistersOne), and with it a payment.  *)
TokensArePaid ==
  ~ MockMode =>
    /\ \A c \in Code : token[c] # Null => token[c].payment \in paid
    /\ \A u \in users :
         u.by \in (userPaid \cup memberPaid) \ settled =>
           u.code # Null /\ token[u.code] # Null /\ token[u.code].payment \in paid

(* A workflow is only ever started for a member that exists: an approver    *)
(* never decides on a registration that was rolled back.                    *)
WorkflowsHaveMembers == \A s \in approvals : \E u \in users : u.by = s

(* validateToken: `This token has already been used.'  Two users are never  *)
(* registered with one token.                                               *)
TokenRegistersOne ==
  \A u, v \in users : u.code = v.code /\ u.code # Null => u = v
=============================================================================
