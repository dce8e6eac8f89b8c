------------------------- MODULE AuthServiceProofs -------------------------
(***************************************************************************)
(* Proofs about the two halves of AuthService: Registration, for any number *)
(* of calls, payments, codes and emails, and Accounts, for any number of    *)
(* overlapping requests and any thresholds.                                 *)
(***************************************************************************)
EXTENDS MCRegistration, TLAPS

(* What a call of verifyAndGenerateToken, or of register, was called with   *)
(* and knows, by the step it is at.                                         *)
Buying      == {"askMonnify", "findToken", "saveToken"}
Registering == {"checkToken", "checkEmail", "create", "validateToken",
                "markToken", "commit", "startWorkflow"}
ByGoogle    == {"findGoogle", "createGoogle"}

JobInv ==
  /\ job \in [Session ->
               [payment : Payment] \cup Forms \cup [email : Email] \cup {Null}]
  /\ \A s \in Session :
       /\ pc[s] \in Buying => job[s] \in [payment : Payment]
       /\ pc[s] \in Registering => job[s] \in Forms
       /\ pc[s] \in ByGoogle => job[s] \in [email : Email]
       /\ pc[s] \in {"checkToken", "validateToken", "markToken"} => HasToken(s)

(* RegisteredTokensAreUsed is not inductive alone: a transaction commits a  *)
(* user whose token has been marked by then.                                *)
MarkInv ==
  \A s \in Session :
    /\ pc[s] = "markToken" => token[job[s].code] # Null
    /\ pc[s] = "commit" /\ HasToken(s) =>
         token[job[s].code] # Null /\ token[job[s].code].used

(* Nor is TokensArePaid: Monnify has confirmed the payment by the time a    *)
(* token is looked for or saved.                                            *)
PaymentInv ==
  ~ MockMode =>
    /\ \A c \in Code : token[c] # Null => token[c].payment \in paid
    /\ \A s \in Session :
         pc[s] \in {"findToken", "saveToken"} => job[s].payment \in paid

(* Nor is it for those who have paid: with a token, unless settled, and no  *)
(* user is by a session that is still to make one.                          *)
FeeInv ==
  /\ \A u \in users : u.by \in (userPaid \cup memberPaid) \ settled => u.code # Null
  /\ memberPaid \subseteq settled
  /\ \A u \in users : pc[u.by] \in {"startWorkflow", "done", "lost"}
  /\ \A s \in userPaid \cup memberPaid : pc[s] \in {"startWorkflow", "done", "lost"}

(* Nor is WorkflowsHaveMembers: the member was committed before.            *)
MemberInv ==
  /\ WorkflowsHaveMembers
  /\ \A s \in Session : pc[s] = "startWorkflow" => \E u \in users : u.by = s

RegInv == /\ RegTypeOK /\ JobInv
          /\ MarkInv /\ RegisteredTokensAreUsed
          /\ PaymentInv /\ FeeInv /\ MemberInv
(* The initial states.                                                      *)
LEMMA RegInit == Init => RegInv
BY RegistrationAssumption
DEF Init, RegInv, RegTypeOK, JobInv, MarkInv, RegisteredTokensAreUsed,
    PaymentInv, FeeInv, MemberInv, WorkflowsHaveMembers, Buying, Registering,
    ByGoogle, Step, Ended

(* A row of table token is not null, and a form's code is one or null.      *)
LEMMA FormFacts ==
  ASSUME NEW form \in Forms
  PROVE  /\ form.email \in Email /\ form.code \in Code \cup {Null}
         /\ form.code # Null => form.code \in Code
BY DEF Forms

(* markTokenAsUsed changes one row, and of that only the mark.              *)
LEMMA MarkFacts ==
  ASSUME RegInv, NEW s \in Session, MarkToken(s)
  PROVE  /\ job[s].code \in Code
         /\ token[job[s].code] # Null /\ token'[job[s].code] # Null
         /\ token'[job[s].code].used
         /\ token'[job[s].code].payment = token[job[s].code].payment
         /\ \A c \in Code \ {job[s].code} : token'[c] = token[c]
         /\ token' \in [Code -> [payment : Payment, used : BOOLEAN] \cup {Null}]
<1> DEFINE c == job[s].code
           old == token[c]
           marked == [old EXCEPT !.used = TRUE]
<1>1. c \in Code /\ old # Null
  BY FormFacts DEF MarkToken, RegInv, JobInv, MarkInv, Registering, HasToken
<1>2. old \in [payment : Payment, used : BOOLEAN]
  BY <1>1 DEF RegInv, RegTypeOK
<1>3. /\ marked \in [payment : Payment, used : BOOLEAN]
      /\ marked.used /\ marked.payment = old.payment
  BY <1>2
<1>4. marked # Null
  BY <1>3, RegistrationAssumption
<1>5. token' = [token EXCEPT ![c] = marked]
  BY DEF MarkToken
<1> HIDE DEF marked
<1> QED
  BY <1>1, <1>3, <1>4, <1>5 DEF RegInv, RegTypeOK

-----------------------------------------------------------------------------
(* Types.                                                                   *)

(* The steps of a call keep the types, and what the call knows.             *)
LEMMA RegTypeStep ==
  ASSUME RegInv, NEW s \in Session,
         \/ Buy(s) \/ AskMonnify(s) \/ FindToken(s) \/ SaveToken(s)
         \/ Register(s) \/ CheckToken(s) \/ CheckEmail(s) \/ Create(s)
         \/ ValidateToken(s) \/ MarkToken(s) \/ Commit(s) \/ StartWorkflow(s)
         \/ RegisterByGoogle(s) \/ FindGoogle(s) \/ CreateGoogle(s)
  PROVE  RegTypeOK' /\ JobInv'
<1> USE RegistrationAssumption DEF RegInv, RegTypeOK, JobInv, Goto, tables,
        fees, Buying, Registering, ByGoogle, Step, Ended, HasToken
<1>1. CASE Buy(s)
  BY <1>1 DEF Buy
<1>2. CASE AskMonnify(s)
  BY <1>2 DEF AskMonnify
<1>3. CASE FindToken(s)
  BY <1>3 DEF FindToken, TokensOf
<1>4. CASE SaveToken(s)
  <2>1. job[s] \in [payment : Payment]
    BY <1>4 DEF SaveToken
  <2>2. PICK c \in Code :
          /\ token[c] = Null
          /\ token' = [token EXCEPT ![c] =
                         [payment |-> job[s].payment, used |-> FALSE]]
          /\ found' = [found EXCEPT ![s] = c]
    BY <1>4 DEF SaveToken
  <2>3. [payment |-> job[s].payment, used |-> FALSE]
          \in [payment : Payment, used : BOOLEAN]
    BY <2>1
  <2>4. /\ token' \in [Code -> [payment : Payment, used : BOOLEAN] \cup {Null}]
        /\ token'[c] # Null
        /\ \A d \in Code : token[d] # Null => token'[d] # Null
    BY <2>2, <2>3
  <2> QED
    BY <1>4, <2>1, <2>2, <2>4 DEF SaveToken
<1>5. CASE Register(s)
  BY <1>5, FormFacts DEF Register
<1>6. CASE CheckToken(s)
  BY <1>6 DEF CheckToken
<1>7. CASE CheckEmail(s)
  BY <1>7 DEF CheckEmail
<1>8. CASE Create(s)
  BY <1>8 DEF Create
<1>9. CASE ValidateToken(s)
  BY <1>9 DEF ValidateToken
<1>10. CASE MarkToken(s)
  <2>1. /\ pc[s] = "markToken" /\ pc' = [pc EXCEPT ![s] = "commit"]
        /\ UNCHANGED <<paid, users, fees, approvals, job, found>>
    BY <1>10 DEF MarkToken
  <2>2. /\ token' \in [Code -> [payment : Payment, used : BOOLEAN] \cup {Null}]
        /\ \A c \in Code : token[c] # Null => token'[c] # Null
    BY <1>10, MarkFacts
  <2> QED
    BY <2>1, <2>2
<1>11. CASE Commit(s)
  <2>1. /\ pc[s] = "commit" /\ pc' = [pc EXCEPT ![s] = "startWorkflow"]
        /\ UNCHANGED <<paid, token, memberPaid, settled, approvals, job, found>>
    BY <1>11 DEF Commit
  <2>2. job[s] \in Forms
    BY <2>1
  <2>3. users' \subseteq [by : Session, email : Email, code : Code \cup {Null},
                         member : BOOLEAN]
    <3>1. job[s].email \in Email /\ job[s].code \in Code \cup {Null}
      BY <2>2, FormFacts
    <3>2. [by |-> s, email |-> job[s].email, code |-> job[s].code, member |-> TRUE]
            \in [by : Session, email : Email, code : Code \cup {Null},
                 member : BOOLEAN]
      BY ONLY <3>1, s \in Session
    <3> QED
      BY <1>11, <3>2 DEF Commit
  <2>4. userPaid' \subseteq Session
    BY <1>11 DEF Commit
  <2> QED
    BY <2>1, <2>3, <2>4
<1>12. CASE StartWorkflow(s)
  <2>1. approvals' \subseteq approvals \cup {s}
    BY <1>12 DEF StartWorkflow
  <2> QED
    BY <1>12, <2>1 DEF StartWorkflow
<1>13. CASE RegisterByGoogle(s)
  BY <1>13 DEF RegisterByGoogle
<1>14. CASE FindGoogle(s)
  BY <1>14 DEF FindGoogle
<1>15. CASE CreateGoogle(s)
  <2>1. /\ pc[s] = "createGoogle" /\ pc' = [pc EXCEPT ![s] = "done"]
        /\ UNCHANGED <<paid, token, fees, approvals, job, found>>
    BY <1>15 DEF CreateGoogle
  <2>2. job[s] \in [email : Email]
    BY <2>1
  <2>3. users' \subseteq [by : Session, email : Email, code : Code \cup {Null},
                         member : BOOLEAN]
    <3>1. job[s].email \in Email
      BY <2>2
    <3>2. [by |-> s, email |-> job[s].email, code |-> Null, member |-> FALSE]
            \in [by : Session, email : Email, code : Code \cup {Null},
                 member : BOOLEAN]
      BY ONLY <3>1, s \in Session
    <3> QED
      BY <1>15, <3>2 DEF CreateGoogle
  <2> QED
    BY <2>1, <2>3
<1> QED
  BY <1>1, <1>2, <1>3, <1>4, <1>5, <1>6, <1>7, <1>8, <1>9, <1>10, <1>11, <1>12,
     <1>13, <1>14, <1>15

-----------------------------------------------------------------------------
(* Tokens are marked before their users are committed, and stay marked.     *)
LEMMA MarkStep ==
  ASSUME RegInv, NEW s \in Session,
         \/ Buy(s) \/ AskMonnify(s) \/ FindToken(s) \/ SaveToken(s)
         \/ Register(s) \/ CheckToken(s) \/ CheckEmail(s) \/ Create(s)
         \/ ValidateToken(s) \/ MarkToken(s) \/ Commit(s) \/ StartWorkflow(s)
         \/ RegisterByGoogle(s) \/ FindGoogle(s) \/ CreateGoogle(s)
  PROVE  MarkInv' /\ RegisteredTokensAreUsed'
<1> USE RegistrationAssumption DEF RegInv, RegTypeOK, JobInv, MarkInv,
        RegisteredTokensAreUsed, Goto, tables, Buying, Registering, Step,
        Ended, HasToken, Unused
<1>1. CASE Buy(s) \/ Register(s)
  BY <1>1 DEF Buy, Register
<1>2. CASE AskMonnify(s) \/ FindToken(s)
  BY <1>2 DEF AskMonnify, FindToken
<1>3. CASE SaveToken(s)
  BY <1>3 DEF SaveToken
<1>4. CASE CheckToken(s) \/ CheckEmail(s) \/ Create(s)
  BY <1>4 DEF CheckToken, CheckEmail, Create
<1>5. CASE ValidateToken(s)
  BY <1>5 DEF ValidateToken
<1>6. CASE MarkToken(s)
  <2>1. /\ pc[s] = "markToken" /\ pc' = [pc EXCEPT ![s] = "commit"]
        /\ job' = job /\ users' = users
    BY <1>6 DEF MarkToken
  <2>2. \A c \in Code : token[c] # Null =>
          token'[c] # Null /\ (token[c].used => token'[c].used)
    BY <1>6, MarkFacts
  <2> QED
    BY <1>6, <2>1, <2>2, MarkFacts, FormFacts
<1>7. CASE Commit(s)
  BY <1>7 DEF Commit
<1>8. CASE StartWorkflow(s)
  BY <1>8 DEF StartWorkflow
<1>9. CASE RegisterByGoogle(s) \/ FindGoogle(s) \/ CreateGoogle(s)
  BY <1>9 DEF RegisterByGoogle, FindGoogle, CreateGoogle
<1> QED
  BY <1>1, <1>2, <1>3, <1>4, <1>5, <1>6, <1>7, <1>8, <1>9

(* A token is only saved for a payment that Monnify has confirmed.          *)
LEMMA PaymentStep ==
  ASSUME RegInv, NEW s \in Session,
         \/ Buy(s) \/ AskMonnify(s) \/ FindToken(s) \/ SaveToken(s)
         \/ Register(s) \/ CheckToken(s) \/ CheckEmail(s) \/ Create(s)
         \/ ValidateToken(s) \/ MarkToken(s) \/ Commit(s) \/ StartWorkflow(s)
         \/ RegisterByGoogle(s) \/ FindGoogle(s) \/ CreateGoogle(s)
  PROVE  PaymentInv'
<1> USE RegistrationAssumption DEF RegInv, RegTypeOK, JobInv, PaymentInv,
        Goto, tables, Buying, Registering, Step, Ended
<1>1. CASE Buy(s) \/ Register(s)
  BY <1>1 DEF Buy, Register
<1>2. CASE AskMonnify(s)
  BY <1>2 DEF AskMonnify, PaidAtMonnify
<1>3. CASE FindToken(s)
  BY <1>3 DEF FindToken
<1>4. CASE SaveToken(s)
  BY <1>4 DEF SaveToken
<1>5. CASE CheckToken(s) \/ CheckEmail(s) \/ Create(s) \/ ValidateToken(s)
  BY <1>5 DEF CheckToken, CheckEmail, Create, ValidateToken
<1>6. CASE MarkToken(s)
  <2>1. /\ pc[s] = "markToken" /\ pc' = [pc EXCEPT ![s] = "commit"]
        /\ paid' = paid /\ job' = job
    BY <1>6 DEF MarkToken
  <2>2. \A c \in Code : token'[c] # Null =>
          token[c] # Null /\ token'[c].payment = token[c].payment
    BY <1>6, MarkFacts
  <2> QED
    BY <2>1, <2>2
<1>7. CASE Commit(s) \/ StartWorkflow(s)
  BY <1>7 DEF Commit, StartWorkflow
<1>8. CASE RegisterByGoogle(s) \/ FindGoogle(s) \/ CreateGoogle(s)
  BY <1>8 DEF RegisterByGoogle, FindGoogle, CreateGoogle
<1> QED
  BY <1>1, <1>2, <1>3, <1>4, <1>5, <1>6, <1>7, <1>8

(* A session that makes a user has made none before, and a user it makes    *)
(* has paid only with a token.                                              *)
LEMMA FeeStep ==
  ASSUME RegInv, NEW s \in Session,
         \/ Buy(s) \/ AskMonnify(s) \/ FindToken(s) \/ SaveToken(s)
         \/ Register(s) \/ CheckToken(s) \/ CheckEmail(s) \/ Create(s)
         \/ ValidateToken(s) \/ MarkToken(s) \/ Commit(s) \/ StartWorkflow(s)
         \/ RegisterByGoogle(s) \/ FindGoogle(s) \/ CreateGoogle(s)
  PROVE  FeeInv'
<1> USE DEF RegInv, RegTypeOK, FeeInv, Goto, tables, fees, Step, Ended
<1>1. CASE Commit(s)
  <2>1. /\ pc[s] = "commit" /\ pc' = [pc EXCEPT ![s] = "startWorkflow"]
        /\ users' = users \cup {[by |-> s, email |-> job[s].email,
                                 code |-> job[s].code, member |-> TRUE]}
        /\ userPaid' \subseteq userPaid \cup {s}
        /\ s \in userPaid' => s \in userPaid \/ job[s].code # Null
        /\ memberPaid' = memberPaid /\ settled' = settled
    BY <1>1 DEF Commit, HasToken
  <2>2. s \notin userPaid \cup memberPaid /\ \A u \in users : u.by # s
    BY <2>1
  <2> QED
    BY <2>1, <2>2
<1>2. CASE CreateGoogle(s)
  <2>1. /\ pc[s] = "createGoogle" /\ pc' = [pc EXCEPT ![s] = "done"]
        /\ users' = users \cup {[by |-> s, email |-> job[s].email,
                                 code |-> Null, member |-> FALSE]}
        /\ UNCHANGED <<userPaid, memberPaid, settled>>
    BY <1>2 DEF CreateGoogle
  <2>2. s \notin userPaid \cup memberPaid
    BY <2>1
  <2> QED
    BY <2>1, <2>2
<1>3. CASE Buy(s) \/ AskMonnify(s) \/ FindToken(s) \/ SaveToken(s)
  BY <1>3 DEF Buy, AskMonnify, FindToken, SaveToken
<1>4. CASE \/ Register(s) \/ CheckToken(s) \/ CheckEmail(s) \/ Create(s)
           \/ ValidateToken(s) \/ MarkToken(s)
  BY <1>4
  DEF Register, CheckToken, CheckEmail, Create, ValidateToken, MarkToken
<1>5. CASE StartWorkflow(s) \/ RegisterByGoogle(s) \/ FindGoogle(s)
  BY <1>5 DEF StartWorkflow, RegisterByGoogle, FindGoogle
<1> QED
  BY <1>1, <1>2, <1>3, <1>4, <1>5

(* Users are never removed, and a workflow starts after its user's commit.  *)
LEMMA MemberStep ==
  ASSUME RegInv, NEW s \in Session,
         \/ Buy(s) \/ AskMonnify(s) \/ FindToken(s) \/ SaveToken(s)
         \/ Register(s) \/ CheckToken(s) \/ CheckEmail(s) \/ Create(s)
         \/ ValidateToken(s) \/ MarkToken(s) \/ Commit(s) \/ StartWorkflow(s)
         \/ RegisterByGoogle(s) \/ FindGoogle(s) \/ CreateGoogle(s)
  PROVE  MemberInv'
<1> USE DEF RegInv, RegTypeOK, MemberInv, WorkflowsHaveMembers, Goto, tables,
            Step, Ended
<1>1. CASE Commit(s)
  <2> DEFINE user == [by |-> s, email |-> job[s].email, code |-> job[s].code,
                      member |-> TRUE]
  <2>1. user \in users' /\ user.by = s
    BY <1>1 DEF Commit
  <2> QED
    BY <1>1, <2>1 DEF Commit
<1>2. CASE StartWorkflow(s)
  <2>1. approvals' \subseteq approvals \cup {s} /\ users' = users
    BY <1>2 DEF StartWorkflow
  <2> QED
    BY <1>2, <2>1 DEF StartWorkflow
<1>3. CASE Buy(s) \/ AskMonnify(s) \/ FindToken(s) \/ SaveToken(s)
  BY <1>3 DEF Buy, AskMonnify, FindToken, SaveToken
<1>4. CASE \/ Register(s) \/ CheckToken(s) \/ CheckEmail(s) \/ Create(s)
           \/ ValidateToken(s) \/ MarkToken(s)
  BY <1>4
  DEF Register, CheckToken, CheckEmail, Create, ValidateToken, MarkToken
<1>5. CASE RegisterByGoogle(s) \/ FindGoogle(s) \/ CreateGoogle(s)
  BY <1>5 DEF RegisterByGoogle, FindGoogle, CreateGoogle
<1> QED
  BY <1>1, <1>2, <1>3, <1>4, <1>5

(* Whoever pays, or is fixed, is settled by that.                           *)
LEMMA SettleStep ==
  ASSUME RegInv, (\E e \in Email : EmergencyFix(e)) \/ (\E u \in users : PayFee(u))
  PROVE  RegInv'
<1>1. PICK by \in SUBSET {u.by : u \in users} :
        /\ settled' = settled \cup by
        /\ userPaid' \subseteq userPaid \cup by
        /\ memberPaid' \subseteq memberPaid \cup by
        /\ UNCHANGED <<paid, token, users, approvals, job, found, pc>>
  <2>1. CASE \E e \in Email : EmergencyFix(e)
    <3>1. PICK e \in Email : EmergencyFix(e)
      BY <2>1
    <3>2. {u.by : u \in Named(e)} \in SUBSET {u.by : u \in users}
      BY DEF Named
    <3> QED
      BY <3>1, <3>2 DEF EmergencyFix
  <2>2. CASE \E u \in users : PayFee(u)
    <3>1. PICK u \in users : PayFee(u)
      BY <2>2
    <3>2. {u.by} \in SUBSET {v.by : v \in users}
      OBVIOUS
    <3> QED
      BY <3>1, <3>2 DEF PayFee
  <2> QED
    BY <2>1, <2>2
<1>2. by \subseteq Session /\ \A s \in by : \E u \in users : u.by = s
  BY <1>1 DEF RegInv, RegTypeOK
<1>3. RegTypeOK' /\ JobInv' /\ MarkInv' /\ RegisteredTokensAreUsed' /\ PaymentInv'
      /\ MemberInv'
  BY <1>1, <1>2
  DEF RegInv, RegTypeOK, JobInv, MarkInv, RegisteredTokensAreUsed, PaymentInv,
      MemberInv, WorkflowsHaveMembers, HasToken, Unused
<1>4. FeeInv'
  BY <1>1, <1>2 DEF RegInv, FeeInv
<1> QED
  BY <1>3, <1>4 DEF RegInv

(* A payment at Monnify, a crash and a stuttering step.                     *)
LEMMA RegOther ==
  ASSUME RegInv, (\E p \in Payment : Pay(p)) \/ Crash \/ UNCHANGED regVars
  PROVE  RegInv'
<1> USE DEF RegInv, RegTypeOK, JobInv, MarkInv, RegisteredTokensAreUsed,
            PaymentInv, FeeInv, MemberInv, WorkflowsHaveMembers, tables, fees,
            Buying, Registering, ByGoogle, Step, Ended, HasToken, Unused
<1>1. CASE \E p \in Payment : Pay(p)
  BY <1>1 DEF Pay
<1>2. CASE Crash
  <2>1. \A s \in Session : pc'[s] = pc[s] \/ pc'[s] = "lost"
    BY <1>2 DEF Crash
  <2>2. pc' \in [Session -> Step]
    BY <1>2 DEF Crash
  <2> QED
    BY <1>2, <2>1, <2>2 DEF Crash
<1>3. CASE UNCHANGED regVars
  BY <1>3 DEF regVars
<1> QED
  BY <1>1, <1>2, <1>3

(* Every step preserves the invariant.                                      *)
LEMMA RegNext == RegInv /\ [Next]_regVars => RegInv'
<1> SUFFICES ASSUME RegInv, [Next]_regVars PROVE RegInv'
  OBVIOUS
<1>1. CASE \E s \in Session :
             \/ Buy(s) \/ AskMonnify(s) \/ FindToken(s) \/ SaveToken(s)
             \/ Register(s) \/ CheckToken(s) \/ CheckEmail(s) \/ Create(s)
             \/ ValidateToken(s) \/ MarkToken(s) \/ Commit(s)
             \/ StartWorkflow(s)
             \/ RegisterByGoogle(s) \/ FindGoogle(s) \/ CreateGoogle(s)
  <2>1. RegTypeOK' /\ JobInv'
    BY <1>1, RegTypeStep
  <2>2. MarkInv' /\ RegisteredTokensAreUsed'
    BY <1>1, MarkStep
  <2>3. PaymentInv' /\ FeeInv' /\ MemberInv'
    BY <1>1, PaymentStep, FeeStep, MemberStep
  <2> QED
    BY <2>1, <2>2, <2>3 DEF RegInv
<1>2. CASE (\E p \in Payment : Pay(p)) \/ Crash \/ UNCHANGED regVars
  BY <1>2, RegOther
<1>3. CASE (\E e \in Email : EmergencyFix(e)) \/ (\E u \in users : PayFee(u))
  BY <1>3, SettleStep
<1> QED
  BY <1>1, <1>2, <1>3 DEF Next, AllEnded

(* The invariant holds, and implies what it was made for.                   *)
LEMMA RegInvariant == Spec => []RegInv
BY RegInit, RegNext, PTL DEF Spec

(* Every variable has its type, whatever the number of calls and codes, and *)
(* every code that is handed out is the code of a token in the table.       *)
THEOREM RegistrationTypes == Spec => []RegTypeOK
<1>1. RegInv => RegTypeOK
  BY DEF RegInv
<1> QED
  BY RegInvariant, <1>1, PTL

(* Whoever is registered with a token has spent it, however many calls      *)
(* register at the same time and wherever the server dies.                  *)
THEOREM TokensOfUsersAreSpent == Spec => []RegisteredTokensAreUsed
<1>1. RegInv => RegisteredTokensAreUsed
  BY DEF RegInv
<1> QED
  BY RegInvariant, <1>1, PTL

(* Outside mock mode nobody has a token unless Monnify was paid for it, and *)
(* nobody counts as having paid the fee without such a token, a payment at  *)
(* Paystack or a call of emergencyFixUser.                                  *)
THEOREM EveryTokenIsPaid == Spec => []TokensArePaid
<1>1. RegInv => TokensArePaid
  <2> SUFFICES ASSUME RegInv, ~ MockMode PROVE TokensArePaid
    BY DEF TokensArePaid
  <2>1. \A c \in Code : token[c] # Null => token[c].payment \in paid
    BY DEF RegInv, PaymentInv
  <2>2. ASSUME NEW u \in users, u.by \in (userPaid \cup memberPaid) \ settled
        PROVE  u.code # Null /\ token[u.code] # Null /\ token[u.code].payment \in paid
    <3>1. u.code # Null /\ u.code \in Code
      BY <2>2 DEF RegInv, FeeInv, RegTypeOK
    <3> QED
      BY <2>1, <3>1 DEF RegInv, RegisteredTokensAreUsed
  <2> QED
    BY <2>1, <2>2 DEF TokensArePaid
<1> QED
  BY RegInvariant, <1>1, PTL

(* No approver ever decides on a registration that was rolled back.         *)
THEOREM NoWorkflowWithoutMember == Spec => []WorkflowsHaveMembers
<1>1. RegInv => WorkflowsHaveMembers
  BY DEF RegInv, MemberInv
<1> QED
  BY RegInvariant, <1>1, PTL

-----------------------------------------------------------------------------
(* Accounts: the invariant.                                                 *)

Guessing == {"compare", "resetCount", "countFailure"}
Saving   == {"save", "saveOrganisation"}
Labels   == {"idle", "login", "refresh", "reset", "change", "profile", "logout",
             "forgot", "google", "sign", "store", "writePassword"}
              \cup Guessing \cup Saving
Histories == [chosen : Password \cup {RandomPassword}, used : SUBSET Nat,
              loggedOut : BOOLEAN, overlap : BOOLEAN]

(* What is in a slot, by the step it is at.                                 *)
SlotOK(r, seen, label) ==
  /\ label \in Labels /\ seen \in Rows
  /\ label \in {"change", "reset", "writePassword"} => r.new \in Password
  /\ label \in {"reset", "writePassword"} => r.token \in 1..resets
  /\ label = "store" => r.token \in 1..signed
  /\ label \in {"change", "profile"} => r.kind = label
  /\ label = "saveOrganisation" => r.kind = "profile"
  /\ label = "save" /\ r.kind = "change" => r.new = seen.password
  /\ label \in Saving => seen.refresh <= signed /\ seen.reset <= resets
  /\ label \in Guessing => ~ seen.locked /\ row.exists
  /\ label \in Saving => seen.exists
SlotInv ==
  /\ call = [c \in Call |-> call[c]] /\ at = [c \in Call |-> at[c]]
  /\ \A c \in Call : SlotOK(call[c], loaded[c], at[c])
  /\ row.exists \/ ~ row.locked
  /\ history \in Histories

(* LockNeedsFailures is not inductive alone: the failures account for every *)
(* copy of the row too, and one that is about to be counted is among them.  *)
Justified(r) ==
  /\ r.locked => failures >= LockAfter
  /\ r.captcha => failures >= CaptchaAfter
  /\ r.attempts <= failures
CountOK(seen, label) ==
  /\ Justified(seen)
  /\ label = "countFailure" => Capped(seen.attempts + 1) <= failures

(* Nor is SequentialCallsAgree: the copy of the one request there is is the *)
(* row, but for the password that this request changes.                     *)
CopyOK(r, seen, label) ==
  label \in Saving =>
    /\ seen.refresh = row.refresh /\ seen.reset = row.reset
    /\ r.kind # "change" => seen.password = row.password
SequenceInv ==
  /\ \A c, d \in Call : at[c] # "idle" /\ at[d] # "idle" => c = d
  /\ \A c \in Call : CopyOK(call[c], loaded[c], at[c])
  /\ SequentialCallsAgree
  /\ history.used \subseteq 1..resets

AccountsInv == /\ AccountsTypeOK /\ SlotInv
               /\ Justified(row) /\ \A c \in Call : CountOK(loaded[c], at[c])
               /\ (~ history.overlap => SequenceInv)

(* A row no request has loaded.                                             *)
LEMMA EmptyRow ==
  /\ NoRow \in Rows /\ ~ NoRow.locked /\ ~ NoRow.captcha /\ NoRow.attempts = 0
  /\ NoRow.refresh = 0 /\ NoRow.reset = 0
  /\ \A p \in Password \cup {RandomPassword} :
       /\ NewRow(p) \in Rows /\ NewRow(p).exists /\ NewRow(p).password = p
       /\ ~ NewRow(p).locked /\ ~ NewRow(p).captcha /\ NewRow(p).attempts = 0
       /\ NewRow(p).refresh = 0 /\ NewRow(p).reset = 0
<1>1. ASSUME NEW p \in Password \cup {RandomPassword}, NEW there \in BOOLEAN
      PROVE  [exists |-> there, password |-> p, refresh |-> 0, attempts |-> 0,
              locked |-> FALSE, captcha |-> FALSE, reset |-> 0] \in Rows
  BY AccountsAssumption DEF Rows
<1>2. \A p \in Password \cup {RandomPassword} : NewRow(p) \in Rows
  BY <1>1 DEF NewRow
<1>3. PICK r : r = NewRow(RandomPassword)
  OBVIOUS
<1>4. r \in Rows
  BY <1>2, <1>3
<1>5. /\ r.attempts = 0 /\ ~ r.locked /\ ~ r.captcha
      /\ r.refresh = 0 /\ r.reset = 0
  BY <1>3 DEF NewRow
<1>6. NoRow = [r EXCEPT !.exists = FALSE]
  BY <1>3 DEF NoRow
<1>7. /\ NoRow \in Rows /\ ~ NoRow.locked /\ ~ NoRow.captcha
      /\ NoRow.attempts = 0 /\ NoRow.refresh = 0 /\ NoRow.reset = 0
  BY <1>4, <1>5, <1>6 DEF Rows
<1> QED
  BY <1>2, <1>7 DEF NewRow

(* The initial states.                                                      *)
LEMMA AccountsInitially == AccountsInit => AccountsInv
<1> SUFFICES ASSUME AccountsInit PROVE AccountsInv
  OBVIOUS
<1> USE AccountsAssumption, EmptyRow DEF AccountsInit
<1>1. /\ row \in Rows /\ ~ row.locked /\ ~ row.captcha /\ row.attempts = 0
      /\ row.refresh = 0 /\ row.reset = 0
  OBVIOUS
<1>2. AccountsTypeOK
  BY <1>1 DEF AccountsTypeOK
<1>3. history \in Histories
  BY <1>1 DEF Histories, Rows
<1>4. SlotInv
  BY <1>1, <1>3 DEF SlotInv, SlotOK, Labels, Guessing, Saving
<1>5. Justified(row) /\ \A c \in Call : CountOK(loaded[c], at[c])
  BY <1>1 DEF Justified, CountOK
<1>6. SequenceInv
  BY <1>1 DEF SequenceInv, CopyOK, Saving, SequentialCallsAgree
<1> QED
  BY <1>2, <1>4, <1>5, <1>6 DEF AccountsInv

-----------------------------------------------------------------------------
(* A step of one slot.                                                      *)

InSlot(c, r, seen, label) ==
  /\ call' = [call EXCEPT ![c] = r]
  /\ loaded' = [loaded EXCEPT ![c] = seen]
  /\ at' = [at EXCEPT ![c] = label]

LEMMA SlotFacts ==
  ASSUME AccountsInv, NEW c \in Call, NEW r, NEW seen, NEW label,
         InSlot(c, r, seen, label)
  PROVE  /\ call'[c] = r /\ loaded'[c] = seen /\ at'[c] = label
         /\ \A d \in Call \ {c} :
              call'[d] = call[d] /\ loaded'[d] = loaded[d] /\ at'[d] = at[d]
         /\ call' = [d \in Call |-> call'[d]]
         /\ at' = [d \in Call |-> at'[d]]
         /\ loaded' = [d \in Call |-> loaded'[d]]
BY DEF AccountsInv, AccountsTypeOK, SlotInv, InSlot

(* It is enough to look at this slot and the row: what the history counts   *)
(* only grows.                                                              *)
LEMMA OneSlot ==
  ASSUME AccountsInv, NEW c \in Call, NEW r, NEW seen, NEW label,
         InSlot(c, r, seen, label),
         row' \in Rows, row.exists => row'.exists, row'.exists \/ ~ row'.locked,
         signed' \in 0..MaxIssued, resets' \in 0..(MaxIssued - signed'),
         row'.refresh <= signed', row'.reset <= resets',
         failures' \in 0..LockAfter, signed <= signed', resets <= resets',
         failures <= failures', history' \in Histories,
         SlotOK(r, seen, label)', Justified(row)', CountOK(seen, label)',
         ~ history'.overlap =>
           /\ ~ history.overlap /\ \A d \in Call \ {c} : at[d] = "idle"
           /\ CopyOK(r, seen, label)'
           /\ SequentialCallsAgree'
           /\ history'.used \subseteq 1..resets'
  PROVE  AccountsInv'
<1> USE DEF AccountsInv
<1>1. /\ call'[c] = r /\ loaded'[c] = seen /\ at'[c] = label
      /\ \A d \in Call \ {c} :
           call'[d] = call[d] /\ loaded'[d] = loaded[d] /\ at'[d] = at[d]
      /\ call' = [d \in Call |-> call'[d]]
      /\ at' = [d \in Call |-> at'[d]]
      /\ loaded' = [d \in Call |-> loaded'[d]]
  BY SlotFacts
<1>2. ASSUME NEW d \in Call \ {c}
      PROVE  SlotOK(call[d], loaded[d], at[d])' /\ CountOK(loaded[d], at[d])'
  <2>1. SlotOK(call[d], loaded[d], at[d]) /\ CountOK(loaded[d], at[d])
    BY DEF SlotInv
  <2>2. /\ signed \in Nat /\ resets \in Nat /\ failures \in Nat
        /\ signed' \in Nat /\ resets' \in Nat /\ failures' \in Nat
        /\ LockAfter \in Nat /\ CaptchaAfter \in Nat
    BY AccountsAssumption DEF AccountsTypeOK
  <2>3. loaded[d] \in Rows
    BY DEF AccountsTypeOK
  <2>4. /\ loaded[d].attempts \in Nat /\ loaded[d].refresh \in Nat
        /\ loaded[d].reset \in Nat /\ Capped(loaded[d].attempts + 1) \in Nat
    BY <2>2, <2>3 DEF Rows, Capped
  <2>5. SlotOK(call[d], loaded[d], at[d])'
    BY <1>1, <2>1, <2>2, <2>4 DEF SlotOK
  <2>6. CountOK(loaded[d], at[d])'
    BY <1>1, <2>1, <2>2, <2>4 DEF CountOK, Justified, Capped
  <2> QED
    BY <2>5, <2>6
<1>3. AccountsTypeOK'
  <2>1. \A d \in Call : loaded'[d] \in Rows
    BY <1>1, <1>2 DEF SlotOK
  <2> QED
    BY <1>1, <2>1 DEF AccountsTypeOK
<1>4. SlotInv'
  BY <1>1, <1>2 DEF SlotInv
<1>5. \A d \in Call : CountOK(loaded[d], at[d])'
  BY <1>1, <1>2 DEF CountOK, Justified
<1>6. ASSUME ~ history'.overlap PROVE SequenceInv'
  <2>1. \A d \in Call \ {c} : at'[d] = "idle"
    BY <1>1, <1>6
  <2> QED
    BY <1>1, <1>6, <2>1 DEF SequenceInv, CopyOK, Saving
<1> QED
  BY <1>3, <1>4, <1>5, <1>6

LEMMA BoundFacts ==
  ASSUME AccountsTypeOK
  PROVE  /\ signed \in Nat /\ resets \in Nat /\ failures \in Nat
         /\ MaxIssued \in Nat /\ LockAfter \in Nat /\ CaptchaAfter \in Nat
         /\ row \in Rows
         /\ row.refresh \in Nat /\ row.reset \in Nat /\ row.attempts \in Nat
BY AccountsAssumption DEF AccountsTypeOK, Rows

(* As long as requests come one after the other, only one slot is in use.   *)
LEMMA OnlyOne ==
  ASSUME AccountsInv, NEW c \in Call, at[c] # "idle", ~ history.overlap
  PROVE  \A d \in Call \ {c} : at[d] = "idle"
BY DEF AccountsInv, SequenceInv

(* A step that changes no more than its slot, or counts a failure.          *)
LEMMA QuietSlot ==
  ASSUME AccountsInv, NEW c \in Call, NEW r, NEW seen, NEW label,
         InSlot(c, r, seen, label), at[c] # "idle",
         UNCHANGED <<row, signed, resets, history>>,
         failures' \in 0..LockAfter, failures <= failures',
         SlotOK(r, seen, label), CountOK(seen, label)', CopyOK(r, seen, label)
  PROVE  AccountsInv'
<1> USE DEF AccountsInv
<1>1. SlotOK(r, seen, label)' /\ CopyOK(r, seen, label)'
  BY DEF SlotOK, CopyOK
<1>2. Justified(row)'
  BY BoundFacts, AccountsAssumption DEF Justified
<1>3. /\ row' \in Rows /\ (row'.exists \/ ~ row'.locked)
      /\ row.exists => row'.exists
      /\ signed' \in 0..MaxIssued /\ resets' \in 0..(MaxIssued - signed')
      /\ row'.refresh <= signed' /\ row'.reset <= resets'
      /\ history' \in Histories /\ signed <= signed' /\ resets <= resets'
  BY BoundFacts DEF AccountsTypeOK, SlotInv
<1>4. ~ history'.overlap =>
        /\ ~ history.overlap /\ \A d \in Call \ {c} : at[d] = "idle"
        /\ SequentialCallsAgree' /\ history'.used \subseteq 1..resets'
  BY OnlyOne DEF SequenceInv, SequentialCallsAgree
<1> QED
  BY <1>1, <1>2, <1>3, <1>4, OneSlot

(* A slot whose request is answered, or goes on with login, has no copy.    *)
LEMMA NoCopy ==
  ASSUME NEW label \in {"idle", "sign"}, AccountsTypeOK
  PROVE  /\ SlotOK(NoCall, NoRow, label) /\ CopyOK(NoCall, NoRow, label)
         /\ CountOK(NoRow, label)
BY EmptyRow, BoundFacts
DEF SlotOK, CopyOK, CountOK, Justified, Labels, Guessing, Saving

LEMMA Answered ==
  ASSUME NEW c \in Call
  PROVE  /\ Answer(c) => InSlot(c, NoCall, NoRow, "idle")
         /\ ToLogin(c) => InSlot(c, NoCall, NoRow, "sign")
BY DEF Answer, ToLogin, InSlot

LEMMA QuietEnd ==
  ASSUME AccountsInv, NEW c \in Call, Answer(c) \/ ToLogin(c), at[c] # "idle",
         UNCHANGED <<row, signed, resets, failures, history>>
  PROVE  AccountsInv'
<1>1. /\ \A label \in {"idle", "sign"} :
           /\ SlotOK(NoCall, NoRow, label) /\ CopyOK(NoCall, NoRow, label)
           /\ CountOK(NoRow, label)'
      /\ failures' \in 0..LockAfter /\ failures <= failures'
  BY NoCopy, BoundFacts DEF AccountsInv, AccountsTypeOK, CountOK, Justified
<1> QED
  BY <1>1, Answered, QuietSlot

(* A step that writes the row and leaves its slot.                          *)
LEMMA WritingEnd ==
  ASSUME AccountsInv, NEW c \in Call, Answer(c) \/ ToLogin(c), at[c] # "idle",
         UNCHANGED <<signed, failures>>,
         resets <= resets', resets' \in 0..(MaxIssued - signed),
         row' \in Rows, row.exists => row'.exists, row'.exists \/ ~ row'.locked,
         row'.refresh <= signed, row'.reset <= resets', Justified(row)',
         history' \in Histories,
         ~ history'.overlap =>
           /\ ~ history.overlap /\ SequentialCallsAgree'
           /\ history'.used \subseteq 1..resets'
  PROVE  AccountsInv'
<1> USE DEF AccountsInv
<1>1. PICK label \in {"idle", "sign"} : InSlot(c, NoCall, NoRow, label)
  BY Answered
<1>2. /\ SlotOK(NoCall, NoRow, label)' /\ CountOK(NoRow, label)'
      /\ CopyOK(NoCall, NoRow, label)'
  BY EmptyRow, BoundFacts, AccountsAssumption
  DEF SlotOK, CopyOK, CountOK, Justified, Labels, Guessing, Saving
<1>3. /\ signed' \in 0..MaxIssued /\ failures' \in 0..LockAfter
      /\ signed <= signed' /\ failures <= failures'
  BY BoundFacts DEF AccountsTypeOK
<1>4. ~ history'.overlap => \A d \in Call \ {c} : at[d] = "idle"
  BY OnlyOne
<1> QED
  BY <1>1, <1>2, <1>3, <1>4, OneSlot

(* What is known of the row, of a copy and of a request.                    *)
LEMMA RowFacts ==
  ASSUME AccountsInv
  PROVE  /\ row \in Rows /\ (row.exists \/ ~ row.locked)
         /\ row.refresh <= signed /\ row.reset <= resets /\ Justified(row)
         /\ signed \in 0..MaxIssued /\ resets \in 0..(MaxIssued - signed)
         /\ history \in Histories
BY DEF AccountsInv, AccountsTypeOK, SlotInv

LEMMA CopyFacts ==
  ASSUME AccountsInv, NEW c \in Call
  PROVE  /\ SlotOK(call[c], loaded[c], at[c]) /\ CountOK(loaded[c], at[c])
         /\ loaded[c] \in Rows
         /\ loaded[c].attempts \in Nat
         /\ ~ history.overlap => CopyOK(call[c], loaded[c], at[c])
BY AccountsAssumption
DEF AccountsInv, AccountsTypeOK, SlotInv, SequenceInv, Rows

LEMMA BeginStep ==
  ASSUME AccountsInv, NEW c \in Call, Begin(c)
  PROVE  AccountsInv'
<1>1. PICK r \in Asked : /\ call' = [call EXCEPT ![c] = r]
                         /\ at' = [at EXCEPT ![c] = r.kind]
  BY DEF Begin
<1>2. PICK seen, label : seen = loaded[c] /\ label = r.kind
  OBVIOUS
<1>3. /\ label \in {"login", "refresh", "reset", "change", "profile", "logout",
                    "forgot", "google"}
      /\ label \in {"change", "reset"} => r.new \in Password
      /\ label = "reset" => r.token \in 1..resets
      /\ r.kind = label
  BY <1>2 DEF Asked
<1>4. InSlot(c, r, seen, label)
  BY <1>1, <1>2 DEF Begin, InSlot, AccountsInv, AccountsTypeOK
<1>5. /\ SlotOK(r, seen, label)' /\ CountOK(seen, label)'
      /\ CopyOK(r, seen, label)'
  BY <1>2, <1>3, CopyFacts
  DEF Begin, SlotOK, CountOK, Justified, CopyOK, Labels, Guessing, Saving
<1>6. /\ row' \in Rows /\ (row'.exists \/ ~ row'.locked)
      /\ row.exists => row'.exists
      /\ row'.refresh <= signed' /\ row'.reset <= resets' /\ Justified(row)'
      /\ signed' \in 0..MaxIssued /\ resets' \in 0..(MaxIssued - signed')
      /\ failures' \in 0..LockAfter
      /\ signed <= signed' /\ resets <= resets' /\ failures <= failures'
  BY RowFacts, BoundFacts DEF Begin, AccountsInv, AccountsTypeOK, Justified
<1>7. /\ history' \in Histories
      /\ ~ history'.overlap =>
           history' = history /\ \A d \in Call \ {c} : at[d] = "idle"
  BY RowFacts DEF Begin, Overlapped, Histories
<1>8. ~ history'.overlap =>
        SequentialCallsAgree' /\ history'.used \subseteq 1..resets'
  BY <1>7 DEF Begin, AccountsInv, SequenceInv, SequentialCallsAgree
<1> QED
  BY <1>4, <1>5, <1>6, <1>7, <1>8, OneSlot

(* What an update of some columns leaves of a row.                          *)
LEMMA TokenUpdate ==
  ASSUME NEW r \in Rows, NEW n \in 0..MaxIssued
  PROVE  /\ [r EXCEPT !.refresh = n] \in Rows
         /\ [r EXCEPT !.reset = n] \in Rows
BY DEF Rows

LEMMA PasswordUpdate ==
  ASSUME NEW r \in Rows, NEW p \in Password
  PROVE  [r EXCEPT !.password = p] \in Rows
BY DEF Rows

Counts(r, n, lock, ask) ==
  [r EXCEPT !.attempts = n, !.locked = lock, !.captcha = ask]

LEMMA CountUpdate ==
  ASSUME NEW r \in Rows, NEW n \in 0..LockAfter, NEW lock \in BOOLEAN,
         NEW ask \in BOOLEAN, NEW q, q = Counts(r, n, lock, ask)
  PROVE  /\ q \in Rows
         /\ q.attempts = n /\ q.locked = lock /\ q.captcha = ask
         /\ q.exists = r.exists /\ q.password = r.password
         /\ q.refresh = r.refresh /\ q.reset = r.reset
<1>1. PICK q1 : q1 = [r EXCEPT !.attempts = n]
  OBVIOUS
<1>2. /\ q1 \in Rows /\ q1.attempts = n
      /\ q1.exists = r.exists /\ q1.password = r.password
      /\ q1.refresh = r.refresh /\ q1.reset = r.reset
  BY <1>1 DEF Rows
<1>3. PICK q2 : q2 = [q1 EXCEPT !.locked = lock]
  OBVIOUS
<1>4. /\ q2 \in Rows /\ q2.attempts = n /\ q2.locked = lock
      /\ q2.exists = r.exists /\ q2.password = r.password
      /\ q2.refresh = r.refresh /\ q2.reset = r.reset
  BY <1>2, <1>3 DEF Rows
<1>5. q = [q2 EXCEPT !.captcha = ask]
  BY <1>1, <1>3 DEF Counts
<1>6. /\ q \in Rows /\ q.attempts = n /\ q.locked = lock /\ q.captcha = ask
      /\ q.exists = r.exists /\ q.password = r.password
      /\ q.refresh = r.refresh /\ q.reset = r.reset
  BY <1>4, <1>5 DEF Rows
<1> QED
  BY <1>6

(* Copies of the row that a login works on.                                 *)
LEMMA LoginRows ==
  ASSUME AccountsInv, NEW seen \in FindUserForLogin
  PROVE  seen \in Rows /\ Justified(seen)
<1>1. /\ row.attempts \in Nat /\ failures \in Nat /\ LockAfter \in Nat
      /\ 0 \in 0..MaxIssued /\ 0 \in 0..LockAfter
  BY BoundFacts DEF AccountsInv
<1>2. PICK q1 : q1 = [row EXCEPT !.refresh = 0]
  OBVIOUS
<1>3. q1 \in Rows
  BY <1>1, <1>2, RowFacts, TokenUpdate
<1>4. /\ q1.locked = row.locked /\ q1.captcha = row.captcha
      /\ q1.attempts = row.attempts
  BY <1>2, RowFacts DEF Rows
<1>5. PICK q : q = [q1 EXCEPT !.reset = 0]
  OBVIOUS
<1>6. q \in Rows
  BY <1>1, <1>3, <1>5, TokenUpdate
<1>7. /\ q.locked = row.locked /\ q.captcha = row.captcha
      /\ q.attempts = row.attempts
  BY <1>3, <1>4, <1>5 DEF Rows
<1>8. q = LoginRow
  BY <1>2, <1>5 DEF LoginRow
<1>9. CASE seen = q
  BY <1>6, <1>7, <1>9, RowFacts DEF Justified
<1>10. CASE seen = LegacyRow
  <2>0. PICK no \in BOOLEAN : no = FALSE
    OBVIOUS
  <2>1. seen = Counts(q, 0, no, no)
    BY <1>8, <1>10, <2>0 DEF LegacyRow, Counts
  <2>2. seen \in Rows /\ seen.attempts = 0 /\ ~ seen.locked /\ ~ seen.captcha
    BY <1>1, <1>6, <2>0, <2>1, CountUpdate
  <2> QED
    BY <1>1, <2>2 DEF Justified
<1> QED
  BY <1>8, <1>9, <1>10 DEF FindUserForLogin

LEMMA ValidateUserStep ==
  ASSUME AccountsInv, NEW c \in Call, ValidateUser(c)
  PROVE  AccountsInv'
<1>1. at[c] # "idle" /\ UNCHANGED <<row, signed, resets, failures, history>>
  BY DEF ValidateUser
<1>2. CASE Answer(c)
  BY <1>1, <1>2, QuietEnd
<1>3. ASSUME NEW seen \in FindUserForLogin, ~ seen.locked, row.exists,
             Keep(c, seen), Move(c, "compare")
      PROVE  AccountsInv'
  <2>1. PICK r : r = call[c]
    OBVIOUS
  <2>2. InSlot(c, r, seen, "compare")
    BY <1>3, <2>1 DEF Keep, Move, InSlot, AccountsInv, SlotInv
  <2>3. seen \in Rows /\ Justified(seen)
    BY LoginRows
  <2>4. SlotOK(r, seen, "compare") /\ CopyOK(r, seen, "compare")
    BY <1>3, <2>3 DEF SlotOK, CopyOK, Labels, Guessing, Saving
  <2>5. CountOK(seen, "compare")'
    BY <1>1, <2>3 DEF CountOK, Justified
  <2>6. failures' \in 0..LockAfter /\ failures <= failures'
    BY <1>1, BoundFacts DEF AccountsInv, AccountsTypeOK
  <2> QED
    BY <1>1, <2>2, <2>4, <2>5, <2>6, QuietSlot
<1> QED
  BY <1>2, <1>3 DEF ValidateUser

LEMMA CompareStep ==
  ASSUME AccountsInv, NEW c \in Call, Compare(c)
  PROVE  AccountsInv'
<1>1. at[c] = "compare" /\ UNCHANGED <<row, signed, resets, history>>
  BY DEF Compare
<1>2. PICK r, seen : r = call[c] /\ seen = loaded[c]
  OBVIOUS
<1>3. /\ seen \in Rows /\ ~ seen.locked /\ row.exists /\ Justified(seen)
      /\ seen.attempts \in Nat
  BY <1>1, <1>2, CopyFacts DEF SlotOK, CountOK, Guessing
<1>4. /\ failures \in 0..LockAfter /\ failures \in Nat /\ LockAfter \in Nat
  BY BoundFacts DEF AccountsInv, AccountsTypeOK
<1>5. ASSUME NEW label \in {"resetCount", "countFailure"}
      PROVE  SlotOK(r, seen, label) /\ CopyOK(r, seen, label)
  BY <1>3 DEF SlotOK, CopyOK, Labels, Guessing, Saving
<1>6. CASE Move(c, "resetCount") /\ UNCHANGED <<loaded, failures>>
  <2>1. InSlot(c, r, seen, "resetCount")
    BY <1>2, <1>6 DEF Move, InSlot, AccountsInv, AccountsTypeOK, SlotInv
  <2>2. CountOK(seen, "resetCount")'
    BY <1>3, <1>6 DEF CountOK, Justified
  <2> QED
    BY <1>1, <1>4, <1>5, <1>6, <2>1, <2>2, QuietSlot
<1>7. CASE /\ failures' = Capped(failures + 1)
           /\ Move(c, "countFailure") /\ UNCHANGED loaded
  <2>1. InSlot(c, r, seen, "countFailure")
    BY <1>2, <1>7 DEF Move, InSlot, AccountsInv, AccountsTypeOK, SlotInv
  <2>2. failures' \in 0..LockAfter /\ failures <= failures' /\ failures' \in Nat
    BY <1>4, <1>7 DEF Capped
  <2>3. CountOK(seen, "countFailure")'
    BY <1>3, <1>4, <1>7, <2>2, AccountsAssumption DEF CountOK, Justified, Capped
  <2> QED
    BY <1>1, <1>5, <2>1, <2>2, <2>3, QuietSlot
<1>8. CASE ToLogin(c) /\ UNCHANGED failures
  BY <1>1, <1>8, QuietEnd
<1> QED
  BY <1>6, <1>7, <1>8 DEF Compare

(* The counters are updated or the update is lost: validateUser's end.      *)
LEMMA ResetCountStep ==
  ASSUME AccountsInv, NEW c \in Call, ResetCount(c)
  PROVE  AccountsInv'
<1>1. /\ at[c] # "idle" /\ ToLogin(c)
      /\ UNCHANGED <<signed, resets, failures, history>>
  BY DEF ResetCount
<1>2. CASE UNCHANGED row
  BY <1>1, <1>2, QuietEnd
<1>3. CASE row' = Counts(row, 0, FALSE, FALSE)
  <2>1. PICK q, no : q = row' /\ no \in BOOLEAN /\ no = FALSE
    OBVIOUS
  <2>0. q = Counts(row, 0, no, no)
    BY <1>3, <2>1
  <2>2. /\ q \in Rows /\ q.attempts = 0 /\ ~ q.locked /\ ~ q.captcha
        /\ q.exists = row.exists /\ q.password = row.password
        /\ q.refresh = row.refresh /\ q.reset = row.reset
    BY <2>0, <2>1, RowFacts, BoundFacts, CountUpdate DEF AccountsInv
  <2>3. Justified(row)'
    BY <1>1, <2>1, <2>2, BoundFacts DEF Justified, AccountsInv
  <2>4. ~ history'.overlap =>
          /\ ~ history.overlap /\ SequentialCallsAgree'
          /\ history'.used \subseteq 1..resets'
    BY <1>1, <2>1, <2>2 DEF AccountsInv, SequenceInv, SequentialCallsAgree
  <2> QED
    BY <1>1, <2>1, <2>2, <2>3, <2>4, RowFacts, BoundFacts, WritingEnd
    DEF AccountsInv
<1> QED
  BY <1>2, <1>3 DEF ResetCount, SafeUserUpdate, Counts

LEMMA CountFailureStep ==
  ASSUME AccountsInv, NEW c \in Call, CountFailure(c)
  PROVE  AccountsInv'
<1>1. /\ at[c] = "countFailure" /\ at[c] # "idle" /\ Answer(c)
      /\ UNCHANGED <<signed, resets, failures, history>>
  BY DEF CountFailure
<1>2. PICK n, lock, ask :
        /\ n = Capped(loaded[c].attempts + 1) /\ lock = (n >= LockAfter)
        /\ ask = (loaded[c].captcha \/ n >= CaptchaAfter)
  OBVIOUS
<1>3. CASE UNCHANGED row
  BY <1>1, <1>3, QuietEnd
<1>4. CASE row' = Counts(row, n, lock, ask)
  <2>1. /\ n \in 0..LockAfter /\ n \in Nat /\ ask \in BOOLEAN
        /\ lock \in BOOLEAN
        /\ failures \in Nat /\ LockAfter \in Nat /\ CaptchaAfter \in Nat
    BY <1>2, CopyFacts, BoundFacts DEF Capped, AccountsInv, Rows
  <2>2. /\ n <= failures /\ (loaded[c].captcha => failures >= CaptchaAfter)
        /\ row.exists
    BY <1>1, <1>2, CopyFacts DEF CountOK, Justified, SlotOK, Guessing
  <2>3. PICK q : q = row'
    OBVIOUS
  <2>4. /\ q \in Rows /\ q.attempts = n /\ q.locked = lock /\ q.captcha = ask
        /\ q.exists = row.exists /\ q.password = row.password
        /\ q.refresh = row.refresh /\ q.reset = row.reset
    BY <1>4, <2>1, <2>3, RowFacts, CountUpdate
  <2>5. Justified(row)'
    <3>1. /\ q.locked => failures >= LockAfter
          /\ q.captcha => failures >= CaptchaAfter
          /\ q.attempts <= failures
      <4>1. /\ lock => n >= LockAfter
            /\ ask => loaded[c].captcha \/ n >= CaptchaAfter
        BY <1>2, Zenon
      <4>2. /\ n >= LockAfter => failures >= LockAfter
            /\ n >= CaptchaAfter => failures >= CaptchaAfter
        BY <2>1, <2>2
      <4> QED
        BY <2>2, <2>4, <4>1, <4>2, Zenon
    <3> QED
      BY <1>1, <2>3, <3>1 DEF Justified
  <2>6. ~ history'.overlap =>
          /\ ~ history.overlap /\ SequentialCallsAgree'
          /\ history'.used \subseteq 1..resets'
    BY <1>1, <2>3, <2>4 DEF AccountsInv, SequenceInv, SequentialCallsAgree
  <2> QED
    BY <1>1, <2>2, <2>3, <2>4, <2>5, <2>6, RowFacts, BoundFacts, WritingEnd
    DEF AccountsInv
<1> QED
  BY <1>2, <1>3, <1>4 DEF CountFailure, SafeUserUpdate, Counts

(* What the history becomes, and what sequential requests know.             *)
LEMMA Remembered ==
  ASSUME AccountsInv, NEW new \in Histories, Remember(new)
  PROVE  /\ history' \in Histories
         /\ ~ history'.overlap => ~ history.overlap /\ history' = new
BY DEF Remember, Overlapped, Histories

LEMMA InTurn ==
  ASSUME AccountsInv, ~ history.overlap
  PROVE  /\ row.password = history.chosen /\ row.reset \notin history.used
         /\ history.loggedOut => row.refresh = 0
         /\ history.used \subseteq 1..resets
BY DEF AccountsInv, SequenceInv, SequentialCallsAgree

(* Tokens.                                                                  *)
LEMMA SignStep ==
  ASSUME AccountsInv, NEW c \in Call, Sign(c)
  PROVE  AccountsInv'
<1>1. /\ at[c] # "idle" /\ UNCHANGED <<row, loaded, resets, failures, history>>
  BY DEF Sign
<1>2. PICK t \in {signed, signed + 1} \cap 1..(MaxIssued - resets) :
        /\ signed' = t
        /\ call' = [call EXCEPT ![c] = [kind |-> "store", token |-> t]]
  BY DEF Sign
<1>3. PICK r, seen : r = [kind |-> "store", token |-> t] /\ seen = loaded[c]
  OBVIOUS
<1>4. InSlot(c, r, seen, "store")
  BY <1>1, <1>2, <1>3 DEF Sign, InSlot, AccountsInv, AccountsTypeOK
<1>5. /\ signed' \in 0..MaxIssued /\ resets' \in 0..(MaxIssued - signed')
      /\ signed <= signed' /\ resets <= resets'
      /\ row'.refresh <= signed' /\ row'.reset <= resets'
  BY <1>1, <1>2, RowFacts, BoundFacts DEF AccountsInv
<1>6. /\ row' \in Rows /\ (row.exists => row'.exists)
      /\ (row'.exists \/ ~ row'.locked) /\ Justified(row)'
      /\ failures' \in 0..LockAfter /\ failures <= failures'
      /\ history' \in Histories
  BY <1>1, RowFacts, BoundFacts DEF Justified, AccountsInv, AccountsTypeOK
<1>7. r.token = t
  BY <1>3
<1>8. SlotOK(r, seen, "store")'
  BY <1>2, <1>3, <1>7, CopyFacts DEF SlotOK, Labels, Guessing, Saving
<1>9. CountOK(seen, "store")' /\ CopyOK(r, seen, "store")'
  BY <1>1, <1>3, CopyFacts DEF CountOK, Justified, CopyOK, Saving
<1>10. ~ history'.overlap =>
         /\ ~ history.overlap /\ \A d \in Call \ {c} : at[d] = "idle"
         /\ SequentialCallsAgree' /\ history'.used \subseteq 1..resets'
  BY <1>1, OnlyOne, InTurn DEF SequentialCallsAgree
<1> QED
  BY <1>4, <1>5, <1>6, <1>8, <1>9, <1>10, OneSlot

(* Only the token that is stored, and the history, are affected.            *)
LEMMA StoreToken ==
  ASSUME AccountsInv, NEW c \in Call, at[c] # "idle", Answer(c),
         UNCHANGED <<signed, resets, failures>>,
         NEW n \in 0..MaxIssued, n <= signed,
         row' = [row EXCEPT !.refresh = n] \/ UNCHANGED row,
         NEW out \in BOOLEAN, out => row'.refresh = 0,
         Remember([history EXCEPT !.loggedOut = out])
  PROVE  AccountsInv'
<1>1. PICK new : new = [history EXCEPT !.loggedOut = out]
  OBVIOUS
<1>2. /\ new \in Histories /\ new.loggedOut = out
      /\ new.chosen = history.chosen /\ new.used = history.used
  BY <1>1, RowFacts DEF Histories
<1>3. /\ history' \in Histories
      /\ ~ history'.overlap => ~ history.overlap /\ history' = new
  BY <1>1, <1>2, Remembered
<1>4. row' \in Rows
  BY RowFacts, TokenUpdate
<1>5. /\ row'.exists = row.exists /\ row'.locked = row.locked
      /\ row'.captcha = row.captcha /\ row'.attempts = row.attempts
      /\ row'.password = row.password /\ row'.reset = row.reset
      /\ row'.refresh = n \/ row'.refresh = row.refresh
  BY RowFacts DEF Rows
<1>6. Justified(row)'
  BY <1>5, RowFacts DEF Justified
<1>7. ~ history'.overlap =>
        /\ ~ history.overlap /\ SequentialCallsAgree'
        /\ history'.used \subseteq 1..resets'
  BY <1>2, <1>3, <1>5, InTurn DEF SequentialCallsAgree
<1> QED
  BY <1>3, <1>4, <1>5, <1>6, <1>7, RowFacts, BoundFacts, WritingEnd
  DEF AccountsInv

LEMMA GenerateRefreshTokenStep ==
  ASSUME AccountsInv, NEW c \in Call, GenerateRefreshToken(c)
  PROVE  AccountsInv'
<1>1. PICK n, out : n = call[c].token /\ out \in BOOLEAN /\ out = FALSE
  OBVIOUS
<1>2. at[c] = "store" /\ n \in 1..signed
  BY <1>1, CopyFacts DEF GenerateRefreshToken, SlotOK
<1>3. n \in 0..MaxIssued /\ n <= signed
  BY <1>2, RowFacts, BoundFacts DEF AccountsInv
<1>4. row' = [row EXCEPT !.refresh = n] \/ UNCHANGED row
  BY <1>1 DEF GenerateRefreshToken, SafeUserUpdate
<1>5. Remember([history EXCEPT !.loggedOut = out])
  BY <1>1 DEF GenerateRefreshToken
<1> QED
  BY <1>1, <1>2, <1>3, <1>4, <1>5, StoreToken DEF GenerateRefreshToken

LEMMA LogoutStep ==
  ASSUME AccountsInv, NEW c \in Call, Logout(c)
  PROVE  AccountsInv'
<1>1. PICK out : out \in BOOLEAN /\ out = TRUE
  OBVIOUS
<1>2. Remember([history EXCEPT !.loggedOut = out])
  BY <1>1 DEF Logout
<1>3. row' = [row EXCEPT !.refresh = 0] /\ row'.refresh = 0
  BY RowFacts DEF Logout, Rows
<1>4. 0 \in 0..MaxIssued /\ 0 <= signed
  BY BoundFacts DEF AccountsInv
<1> QED
  BY <1>1, <1>2, <1>3, <1>4, StoreToken DEF Logout

LEMMA RefreshTokenStep ==
  ASSUME AccountsInv, NEW c \in Call, RefreshToken(c)
  PROVE  AccountsInv'
BY QuietEnd DEF RefreshToken

LEMMA GoogleLoginStep ==
  ASSUME AccountsInv, NEW c \in Call, GoogleLogin(c)
  PROVE  AccountsInv'
<1>1. at[c] # "idle" /\ UNCHANGED <<signed, resets, failures>>
  BY DEF GoogleLogin
<1>2. CASE ToLogin(c) /\ UNCHANGED <<row, history>>
  BY <1>1, <1>2, QuietEnd
<1>3. CASE /\ ~ row.exists /\ row' = NewRow(RandomPassword)
           /\ Remember([history EXCEPT !.chosen = RandomPassword])
           /\ ToLogin(c) \/ Answer(c)
  <2>1. PICK new : new = [history EXCEPT !.chosen = RandomPassword]
    OBVIOUS
  <2>2. /\ new \in Histories /\ new.chosen = RandomPassword
        /\ new.used = history.used
    BY <2>1, RowFacts DEF Histories
  <2>3. /\ history' \in Histories
        /\ ~ history'.overlap => ~ history.overlap /\ history' = new
    BY <1>3, <2>1, <2>2, Remembered
  <2>4. /\ row' \in Rows /\ row'.exists /\ ~ row'.locked /\ ~ row'.captcha
        /\ row'.attempts = 0 /\ row'.refresh = 0 /\ row'.reset = 0
        /\ row'.password = RandomPassword
    BY <1>3, EmptyRow
  <2>5. Justified(row)'
    BY <1>1, <2>4, BoundFacts DEF Justified, AccountsInv
  <2>6. ~ history'.overlap =>
          /\ ~ history.overlap /\ SequentialCallsAgree'
          /\ history'.used \subseteq 1..resets'
    BY <1>1, <2>2, <2>3, <2>4, InTurn DEF SequentialCallsAgree
  <2> QED
    BY <1>1, <1>3, <2>3, <2>4, <2>5, <2>6, RowFacts, BoundFacts, WritingEnd
    DEF AccountsInv
<1> QED
  BY <1>2, <1>3 DEF GoogleLogin

-----------------------------------------------------------------------------
(* Passwords and profile.                                                   *)

LEMMA ForgotPasswordStep ==
  ASSUME AccountsInv, NEW c \in Call, ForgotPassword(c)
  PROVE  AccountsInv'
<1>1. at[c] # "idle" /\ Answer(c) /\ UNCHANGED <<signed, failures, history>>
  BY DEF ForgotPassword
<1>2. CASE UNCHANGED <<row, resets>>
  BY <1>1, <1>2, QuietEnd
<1>3. CASE /\ row.exists /\ signed + resets < MaxIssued
           /\ resets' = resets + 1 /\ row' = [row EXCEPT !.reset = resets + 1]
  <2>1. /\ resets + 1 \in 0..MaxIssued /\ resets <= resets'
        /\ resets' \in 0..(MaxIssued - signed)
    BY <1>3, RowFacts, BoundFacts DEF AccountsInv
  <2>2. row' \in Rows
    BY <1>3, <2>1, RowFacts, TokenUpdate
  <2>3. /\ row'.exists = row.exists /\ row'.locked = row.locked
        /\ row'.captcha = row.captcha /\ row'.attempts = row.attempts
        /\ row'.password = row.password /\ row'.refresh = row.refresh
        /\ row'.reset = resets + 1
    BY <1>3, RowFacts DEF Rows
  <2>4. Justified(row)'
    BY <1>1, <2>3, RowFacts DEF Justified
  <2>5. ~ history'.overlap =>
          /\ ~ history.overlap /\ SequentialCallsAgree'
          /\ history'.used \subseteq 1..resets'
    BY <1>1, <1>3, <2>3, InTurn, BoundFacts
    DEF SequentialCallsAgree, AccountsInv
  <2>6. row'.refresh <= signed /\ row'.reset <= resets'
    BY <1>3, <2>1, <2>3, RowFacts
  <2> QED
    BY <1>1, <1>3, <2>1, <2>2, <2>3, <2>4, <2>5, <2>6, RowFacts, WritingEnd
<1> QED
  BY <1>2, <1>3 DEF ForgotPassword

LEMMA FindResetTokenStep ==
  ASSUME AccountsInv, NEW c \in Call, FindResetToken(c)
  PROVE  AccountsInv'
<1>1. at[c] = "reset" /\ UNCHANGED <<row, signed, resets, failures, history>>
  BY DEF FindResetToken
<1>2. CASE Answer(c)
  BY <1>1, <1>2, QuietEnd
<1>3. CASE Move(c, "writePassword") /\ UNCHANGED loaded
  <2>1. PICK r, seen : r = call[c] /\ seen = loaded[c]
    OBVIOUS
  <2>2. InSlot(c, r, seen, "writePassword")
    BY <1>3, <2>1 DEF Move, InSlot, AccountsInv, AccountsTypeOK, SlotInv
  <2>3. /\ SlotOK(r, seen, "writePassword") /\ CopyOK(r, seen, "writePassword")
        /\ CountOK(seen, "writePassword")'
    BY <1>1, <2>1, CopyFacts
    DEF SlotOK, CopyOK, CountOK, Justified, Labels, Guessing, Saving
  <2>4. failures' \in 0..LockAfter /\ failures <= failures'
    BY <1>1, BoundFacts DEF AccountsInv, AccountsTypeOK
  <2> QED
    BY <1>1, <2>2, <2>3, <2>4, QuietSlot
<1> QED
  BY <1>2, <1>3 DEF FindResetToken

LEMMA ResetPasswordStep ==
  ASSUME AccountsInv, NEW c \in Call, ResetPassword(c)
  PROVE  AccountsInv'
<1>1. /\ at[c] = "writePassword" /\ at[c] # "idle" /\ Answer(c)
      /\ UNCHANGED <<signed, resets, failures>>
  BY DEF ResetPassword
<1>2. PICK p, t : p = call[c].new /\ t = call[c].token
  OBVIOUS
<1>3. p \in Password /\ t \in 1..resets
  BY <1>1, <1>2, CopyFacts DEF SlotOK
<1>4. PICK new : new = [history EXCEPT !.chosen = p, !.used = @ \cup {t}]
  OBVIOUS
<1>5. /\ new.chosen = p /\ new.used = history.used \cup {t}
      /\ new.loggedOut = history.loggedOut
  BY <1>4, RowFacts DEF Histories
<1>6. new \in Histories
  <2>1. t \in Nat
    BY <1>3, BoundFacts DEF AccountsInv
  <2>2. history.used \cup {t} \in SUBSET Nat
    BY <2>1, RowFacts DEF Histories
  <2>3. PICK h : h = [history EXCEPT !.chosen = p]
    OBVIOUS
  <2>4. h \in Histories /\ h.used = history.used
    BY <1>3, <2>3, RowFacts DEF Histories
  <2>5. new = [h EXCEPT !.used = history.used \cup {t}]
    BY <1>4, <2>3
  <2> QED
    BY <2>2, <2>4, <2>5 DEF Histories
<1>7. Remember(new)
  BY <1>2, <1>4 DEF ResetPassword
<1>8. /\ history' \in Histories
      /\ ~ history'.overlap => ~ history.overlap /\ history' = new
  BY <1>6, <1>7, Remembered
<1>9. PICK q : q = [row EXCEPT !.password = p]
  OBVIOUS
<1>10. q \in Rows
  BY <1>3, <1>9, RowFacts, PasswordUpdate
<1>11. /\ q.exists = row.exists /\ q.locked = row.locked
       /\ q.captcha = row.captcha /\ q.attempts = row.attempts
       /\ q.password = p /\ q.refresh = row.refresh
  BY <1>9, RowFacts DEF Rows
<1>12. row' = [q EXCEPT !.reset = 0]
  BY <1>2, <1>9 DEF ResetPassword
<1>13. row' \in Rows
  <2>1. 0 \in 0..MaxIssued
    BY BoundFacts DEF AccountsInv
  <2> QED
    BY <1>10, <1>12, <2>1, TokenUpdate
<1>14. /\ row'.exists = row.exists /\ row'.locked = row.locked
       /\ row'.captcha = row.captcha /\ row'.attempts = row.attempts
       /\ row'.password = p /\ row'.refresh = row.refresh /\ row'.reset = 0
  BY <1>10, <1>11, <1>12 DEF Rows
<1>15. Justified(row)'
  BY <1>1, <1>14, RowFacts DEF Justified
<1>16. ~ history'.overlap =>
         /\ ~ history.overlap /\ SequentialCallsAgree'
         /\ history'.used \subseteq 1..resets'
  <2> SUFFICES ASSUME ~ history'.overlap
               PROVE  /\ ~ history.overlap /\ SequentialCallsAgree'
                      /\ history'.used \subseteq 1..resets'
    OBVIOUS
  <2>1. ~ history.overlap /\ history' = new
    BY <1>8
  <2>2. resets' = resets
    BY <1>1
  <2>3. history'.used \subseteq 1..resets'
    BY <1>3, <1>5, <2>1, <2>2, InTurn
  <2>4. 0 \notin history'.used
    BY <2>3, <2>2, BoundFacts DEF AccountsInv
  <2> QED
    BY <1>5, <1>14, <2>1, <2>3, <2>4, InTurn DEF SequentialCallsAgree
<1> QED
  BY <1>1, <1>8, <1>13, <1>14, <1>15, <1>16, RowFacts, BoundFacts, WritingEnd
  DEF AccountsInv

(* A request loads the row to save it later.                                *)
LEMMA LoadRow ==
  ASSUME AccountsInv, NEW c \in Call, at[c] # "idle", row.exists,
         NEW seen \in Rows, seen.exists, Keep(c, seen),
         seen.attempts = row.attempts, seen.locked = row.locked,
         seen.captcha = row.captcha,
         seen.refresh = row.refresh, seen.reset = row.reset,
         call[c].kind \in {"change", "profile"},
         IF call[c].kind = "change" THEN seen.password = call[c].new
                                   ELSE seen.password = row.password,
         NEW label \in Saving, Move(c, label),
         label = "saveOrganisation" => call[c].kind = "profile",
         UNCHANGED <<row, signed, resets, failures, history>>
  PROVE  AccountsInv'
<1>1. PICK r : r = call[c]
  OBVIOUS
<1>2. InSlot(c, r, seen, label)
  BY <1>1 DEF Keep, Move, InSlot, AccountsInv, SlotInv
<1>3. SlotOK(r, seen, label)
  BY <1>1, RowFacts DEF SlotOK, Labels, Guessing, Saving
<1>4. CopyOK(r, seen, label)
  BY <1>1 DEF CopyOK
<1>5. CountOK(seen, label)'
  BY RowFacts DEF CountOK, Justified, Saving
<1>6. failures' \in 0..LockAfter /\ failures <= failures'
  BY BoundFacts DEF AccountsInv, AccountsTypeOK
<1> QED
  BY <1>2, <1>3, <1>4, <1>5, <1>6, QuietSlot

LEMMA ChangePasswordStep ==
  ASSUME AccountsInv, NEW c \in Call, ChangePassword(c)
  PROVE  AccountsInv'
<1>1. at[c] = "change" /\ UNCHANGED <<row, signed, resets, failures, history>>
  BY DEF ChangePassword
<1>2. CASE Answer(c)
  BY <1>1, <1>2, QuietEnd
<1>3. CASE /\ row.exists /\ Keep(c, [row EXCEPT !.password = call[c].new])
           /\ Move(c, "save")
  <2>1. PICK seen : seen = [row EXCEPT !.password = call[c].new]
    OBVIOUS
  <2>2. call[c].new \in Password /\ call[c].kind = "change"
    BY <1>1, CopyFacts DEF SlotOK
  <2>3. seen \in Rows
    BY <2>1, <2>2, RowFacts, PasswordUpdate
  <2>4. /\ seen.exists = row.exists /\ seen.attempts = row.attempts
        /\ seen.locked = row.locked /\ seen.captcha = row.captcha
        /\ seen.refresh = row.refresh /\ seen.reset = row.reset
        /\ seen.password = call[c].new
    BY <2>1, RowFacts DEF Rows
  <2>5. "save" \in Saving
    BY DEF Saving
  <2> QED
    BY <1>1, <1>3, <2>1, <2>2, <2>3, <2>4, <2>5, LoadRow
<1> QED
  BY <1>2, <1>3 DEF ChangePassword

LEMMA UpdateProfileStep ==
  ASSUME AccountsInv, NEW c \in Call, UpdateProfile(c)
  PROVE  AccountsInv'
<1>1. at[c] = "profile" /\ UNCHANGED <<row, signed, resets, failures, history>>
  BY DEF UpdateProfile
<1>2. CASE Answer(c)
  BY <1>1, <1>2, QuietEnd
<1>3. CASE row.exists /\ Keep(c, row) /\ \E label \in Saving : Move(c, label)
  <2>1. call[c].kind = "profile"
    BY <1>1, CopyFacts DEF SlotOK
  <2>2. PICK label \in Saving : Move(c, label)
    BY <1>3
  <2> QED
    BY <1>1, <1>3, <2>1, <2>2, RowFacts, LoadRow
<1> QED
  BY <1>2, <1>3 DEF UpdateProfile, Saving

LEMMA SaveOrganisationStep ==
  ASSUME AccountsInv, NEW c \in Call, SaveOrganisation(c)
  PROVE  AccountsInv'
<1>1. /\ at[c] = "saveOrganisation" /\ at[c] # "idle"
      /\ UNCHANGED <<signed, resets, failures, history>>
  BY DEF SaveOrganisation
<1>2. CASE Answer(c) /\ UNCHANGED row
  BY <1>1, <1>2, QuietEnd
<1>3. CASE row' = loaded[c] /\ Move(c, "save") /\ UNCHANGED loaded
  <2>1. PICK r, seen : r = call[c] /\ seen = loaded[c]
    OBVIOUS
  <2>2. InSlot(c, r, seen, "save")
    BY <1>3, <2>1 DEF Move, InSlot, AccountsInv, AccountsTypeOK, SlotInv
  <2>3. /\ r.kind = "profile" /\ seen \in Rows /\ seen.exists
        /\ seen.refresh <= signed /\ seen.reset <= resets /\ Justified(seen)
        /\ ~ history.overlap =>
             /\ seen.refresh = row.refresh /\ seen.reset = row.reset
             /\ seen.password = row.password
    BY <1>1, <2>1, CopyFacts DEF SlotOK, CountOK, CopyOK, Saving
  <2>4. SlotOK(r, seen, "save")'
    BY <1>1, <2>3 DEF SlotOK, Labels, Guessing, Saving
  <2>5. Justified(row)' /\ CountOK(seen, "save")'
    BY <1>1, <1>3, <2>1, <2>3 DEF Justified, CountOK
  <2>6. ~ history'.overlap =>
          /\ ~ history.overlap /\ \A d \in Call \ {c} : at[d] = "idle"
          /\ CopyOK(r, seen, "save")' /\ SequentialCallsAgree'
          /\ history'.used \subseteq 1..resets'
    BY <1>1, <1>3, <2>1, <2>3, OnlyOne, InTurn
    DEF CopyOK, SequentialCallsAgree
  <2>7. /\ row' \in Rows /\ (row.exists => row'.exists)
        /\ (row'.exists \/ ~ row'.locked)
        /\ signed' \in 0..MaxIssued /\ resets' \in 0..(MaxIssued - signed')
        /\ row'.refresh <= signed' /\ row'.reset <= resets'
        /\ failures' \in 0..LockAfter /\ failures <= failures'
        /\ signed <= signed' /\ resets <= resets' /\ history' \in Histories
    BY <1>1, <1>3, <2>1, <2>3, RowFacts, BoundFacts
    DEF AccountsInv, AccountsTypeOK
  <2> QED
    BY <2>2, <2>4, <2>5, <2>6, <2>7, OneSlot
<1> QED
  BY <1>2, <1>3 DEF SaveOrganisation

LEMMA SaveUserStep ==
  ASSUME AccountsInv, NEW c \in Call, SaveUser(c)
  PROVE  AccountsInv'
<1>1. /\ at[c] = "save" /\ at[c] # "idle" /\ Answer(c)
      /\ row' = loaded[c] /\ UNCHANGED <<signed, resets, failures>>
  BY DEF SaveUser
<1>2. PICK r, seen : r = call[c] /\ seen = loaded[c]
  OBVIOUS
<1>3. /\ seen \in Rows /\ seen.exists
      /\ seen.refresh <= signed /\ seen.reset <= resets /\ Justified(seen)
      /\ r.kind = "change" => r.new = seen.password
      /\ ~ history.overlap =>
           /\ seen.refresh = row.refresh /\ seen.reset = row.reset
           /\ r.kind # "change" => seen.password = row.password
  BY <1>1, <1>2, CopyFacts DEF SlotOK, CountOK, CopyOK, Saving
<1>4. PICK new : new = IF r.kind = "change"
                       THEN [history EXCEPT !.chosen = r.new] ELSE history
  OBVIOUS
<1>5. /\ new \in Histories /\ new.used = history.used
      /\ new.loggedOut = history.loggedOut
      /\ new.chosen = IF r.kind = "change" THEN seen.password
                                           ELSE history.chosen
  <2>1. CASE r.kind = "change"
    <3>1. seen.password \in Password \cup {RandomPassword}
      BY <1>3 DEF Rows
    <3> QED
      BY <1>3, <1>4, <2>1, <3>1, RowFacts DEF Histories
  <2>2. CASE r.kind # "change"
    BY <1>4, <2>2, RowFacts
  <2> QED
    BY <2>1, <2>2
<1>6. Remember(new)
  BY <1>2, <1>4 DEF SaveUser
<1>7. /\ history' \in Histories
      /\ ~ history'.overlap => ~ history.overlap /\ history' = new
  BY <1>5, <1>6, Remembered
<1>8. Justified(row)'
  BY <1>1, <1>2, <1>3 DEF Justified
<1>9. ~ history'.overlap =>
        /\ ~ history.overlap /\ SequentialCallsAgree'
        /\ history'.used \subseteq 1..resets'
  BY <1>1, <1>2, <1>3, <1>5, <1>7, InTurn DEF SequentialCallsAgree
<1>10. resets <= resets' /\ resets' \in 0..(MaxIssued - signed)
  BY <1>1, RowFacts, BoundFacts DEF AccountsInv
<1> QED
  BY <1>1, <1>2, <1>3, <1>7, <1>8, <1>9, <1>10, WritingEnd

-----------------------------------------------------------------------------
(* Steps of every slot at once.                                             *)

LEMMA LockExpiresStep ==
  ASSUME AccountsInv, LockExpires
  PROVE  AccountsInv'
<1> USE DEF AccountsInv
<1>1. PICK q : q = [row EXCEPT !.locked = FALSE]
  OBVIOUS
<1>2. /\ row' = q /\ row.exists
      /\ UNCHANGED <<call, at, signed, resets, failures, history>>
  BY <1>1 DEF LockExpires, SlotInv
<1>3. /\ q \in Rows /\ ~ q.locked /\ q.exists = row.exists
      /\ q.password = row.password /\ q.refresh = row.refresh
      /\ q.reset = row.reset /\ q.attempts = row.attempts
      /\ q.captcha = row.captcha
  BY <1>1, RowFacts DEF Rows
<1>4. ASSUME NEW d \in Call
      PROVE  /\ loaded'[d] \in Rows /\ ~ loaded'[d].locked
             /\ loaded'[d].exists = loaded[d].exists
             /\ loaded'[d].password = loaded[d].password
             /\ loaded'[d].refresh = loaded[d].refresh
             /\ loaded'[d].reset = loaded[d].reset
             /\ loaded'[d].attempts = loaded[d].attempts
             /\ loaded'[d].captcha = loaded[d].captcha
  <2>1. PICK s, t : s = loaded[d] /\ t = loaded'[d]
    OBVIOUS
  <2>2. s \in Rows /\ t = [s EXCEPT !.locked = FALSE]
    BY <2>1 DEF LockExpires, AccountsTypeOK
  <2>3. /\ t \in Rows /\ ~ t.locked /\ t.exists = s.exists
        /\ t.password = s.password /\ t.refresh = s.refresh
        /\ t.reset = s.reset /\ t.attempts = s.attempts
        /\ t.captcha = s.captcha
    BY <2>2 DEF Rows
  <2> QED
    BY <2>1, <2>3
<1>5. loaded' = [d \in Call |-> loaded'[d]]
  BY DEF LockExpires
<1>6. AccountsTypeOK'
  BY <1>2, <1>3, <1>4, <1>5, RowFacts DEF AccountsTypeOK
<1>7. Justified(row)'
  BY <1>2, <1>3, RowFacts DEF Justified
<1>8. ASSUME NEW d \in Call
      PROVE  SlotOK(call[d], loaded[d], at[d])' /\ CountOK(loaded[d], at[d])'
  <2>1. SlotOK(call[d], loaded[d], at[d])'
    BY <1>2, <1>3, <1>4, CopyFacts DEF SlotOK
  <2>2. CountOK(loaded[d], at[d])'
    BY <1>2, <1>4, CopyFacts DEF CountOK, Justified
  <2> QED
    BY <2>1, <2>2
<1>9. SlotInv'
  BY <1>2, <1>3, <1>8 DEF SlotInv
<1>10. ~ history'.overlap => SequenceInv'
  <2> SUFFICES ASSUME ~ history'.overlap PROVE SequenceInv'
    OBVIOUS
  <2>1. \A d \in Call : CopyOK(call[d], loaded[d], at[d])'
    BY <1>2, <1>3, <1>4 DEF SequenceInv, CopyOK
  <2>2. SequentialCallsAgree'
    BY <1>2, <1>3, InTurn DEF SequentialCallsAgree
  <2> QED
    BY <1>2, <2>1, <2>2 DEF SequenceInv
<1> QED
  BY <1>6, <1>7, <1>8, <1>9, <1>10

LEMMA AccountsCrashStep ==
  ASSUME AccountsInv, AccountsCrash
  PROVE  AccountsInv'
<1> USE DEF AccountsInv
<1>1. /\ UNCHANGED <<row, signed, resets, failures, history>>
      /\ call' = [d \in Call |-> call'[d]] /\ at' = [d \in Call |-> at'[d]]
      /\ loaded' = [d \in Call |-> NoRow]
      /\ \A d \in Call :
           call'[d] = NoCall /\ at'[d] = "idle" /\ loaded'[d] = NoRow
  BY DEF AccountsCrash
<1>2. AccountsTypeOK'
  BY <1>1, RowFacts, EmptyRow DEF AccountsTypeOK
<1>3. Justified(row)'
  BY <1>1, RowFacts DEF Justified
<1>4. SlotOK(NoCall, NoRow, "idle")' /\ CountOK(NoRow, "idle")'
  BY <1>1, NoCopy DEF SlotOK, CountOK, Justified
<1>5. \A d \in Call :
        SlotOK(call[d], loaded[d], at[d])' /\ CountOK(loaded[d], at[d])'
  BY <1>1, <1>4 DEF SlotOK, CountOK, Justified
<1>6. SlotInv'
  BY <1>1, <1>5, RowFacts DEF SlotInv
<1>7. ~ history'.overlap => SequenceInv'
  BY <1>1, InTurn DEF SequenceInv, CopyOK, Saving, SequentialCallsAgree
<1> QED
  BY <1>2, <1>3, <1>5, <1>6, <1>7

LEMMA AccountsStep == AccountsInv /\ [AccountsNext]_accountsVars => AccountsInv'
<1> SUFFICES ASSUME AccountsInv, [AccountsNext]_accountsVars
             PROVE  AccountsInv'
  OBVIOUS
<1>1. CASE UNCHANGED accountsVars
  BY <1>1 DEF accountsVars, AccountsInv, AccountsTypeOK, SlotInv, SlotOK,
     Justified, CountOK, SequenceInv, CopyOK, SequentialCallsAgree
<1>2. CASE LockExpires
  BY <1>2, LockExpiresStep
<1>3. CASE AccountsCrash
  BY <1>3, AccountsCrashStep
<1>4. ASSUME NEW c \in Call,
             \/ Begin(c) \/ ValidateUser(c) \/ Compare(c) \/ ResetCount(c)
             \/ CountFailure(c) \/ Sign(c) \/ GenerateRefreshToken(c)
             \/ RefreshToken(c) \/ Logout(c) \/ GoogleLogin(c)
             \/ ForgotPassword(c) \/ FindResetToken(c) \/ ResetPassword(c)
             \/ ChangePassword(c) \/ UpdateProfile(c) \/ SaveOrganisation(c)
             \/ SaveUser(c)
      PROVE  AccountsInv'
  BY <1>4, BeginStep, ValidateUserStep, CompareStep, ResetCountStep,
     CountFailureStep, SignStep, GenerateRefreshTokenStep, RefreshTokenStep,
     LogoutStep, GoogleLoginStep, ForgotPasswordStep, FindResetTokenStep,
     ResetPasswordStep, ChangePasswordStep, UpdateProfileStep,
     SaveOrganisationStep, SaveUserStep
<1> QED
  BY <1>1, <1>2, <1>3, <1>4 DEF AccountsNext

LEMMA AccountsInvariant == AccountsSpec => []AccountsInv
BY AccountsInitially, AccountsStep, PTL DEF AccountsSpec

-----------------------------------------------------------------------------
(* Every variable has its type, whatever the bound and the thresholds.      *)
THEOREM AccountsTypes == AccountsSpec => []AccountsTypeOK
<1>1. AccountsInv => AccountsTypeOK
  BY DEF AccountsInv
<1> QED
  BY AccountsInvariant, <1>1, PTL

(* Nobody is locked out after fewer wrong passwords than it takes, for any  *)
(* number of overlapping requests and any thresholds (validateUser).        *)
THEOREM LocksAreEarned == AccountsSpec => []LockNeedsFailures
<1>1. AccountsInv => LockNeedsFailures
  BY DEF AccountsInv, Justified, LockNeedsFailures
<1> QED
  BY AccountsInvariant, <1>1, PTL

(* Requests that come one after the other leave no stale password, link or  *)
(* refresh token behind (resetPassword, changePassword, logout).            *)
THEOREM CallsInTurnAgree == AccountsSpec => []SequentialCallsAgree
<1>1. AccountsInv => SequentialCallsAgree
  BY DEF AccountsInv, SequenceInv, SequentialCallsAgree
<1> QED
  BY AccountsInvariant, <1>1, PTL

(* A step that has lifted a lock belongs to a request that loaded the row   *)
(* without it: validateUser refuses one that has seen it.                   *)
LEMMA LiftedUnseen ==
  ASSUME AccountsInv, AccountsNext, row.locked, ~ row'.locked
  PROVE  LockExpires \/ \E c \in Call : at[c] # at'[c] /\ ~ loaded[c].locked
<1>2. ASSUME NEW c \in Call, at[c] \in Guessing, Answer(c) \/ ToLogin(c)
      PROVE  at[c] # at'[c] /\ ~ loaded[c].locked
  BY <1>2, CopyFacts
  DEF Answer, ToLogin, Guessing, SlotOK, AccountsInv, SlotInv
<1>3. ASSUME NEW c \in Call, at[c] \in Saving, row' = loaded[c],
             Answer(c) \/ (at[c] = "saveOrganisation" /\ Move(c, "save"))
      PROVE  at[c] # at'[c] /\ ~ loaded[c].locked
  BY <1>3 DEF Answer, Move, Saving, AccountsInv, SlotInv
<1>4. ASSUME NEW n
      PROVE  /\ [row EXCEPT !.refresh = n].locked
             /\ [row EXCEPT !.reset = n].locked
             /\ \A p : [row EXCEPT !.password = p, !.reset = n].locked
  BY RowFacts DEF Rows
<1>5. ASSUME NEW c \in Call, ResetCount(c) \/ CountFailure(c)
      PROVE  at[c] # at'[c] /\ ~ loaded[c].locked
  BY <1>2, <1>5 DEF ResetCount, CountFailure, Guessing
<1>6. ASSUME NEW c \in Call, SaveOrganisation(c) \/ SaveUser(c)
      PROVE  at[c] # at'[c] /\ ~ loaded[c].locked
  <2>1. CASE SaveOrganisation(c)
    <3>1. row' = loaded[c] /\ Move(c, "save") /\ at[c] = "saveOrganisation"
      BY <2>1 DEF SaveOrganisation
    <3> QED
      BY <3>1, <1>3 DEF Saving
  <2>2. CASE SaveUser(c)
    <3>1. row' = loaded[c] /\ Answer(c) /\ at[c] = "save"
      BY <2>2 DEF SaveUser
    <3> QED
      BY <3>1, <1>3 DEF Saving
  <2> QED
    BY <1>6, <2>1, <2>2
<1>7. ASSUME NEW c \in Call,
             GenerateRefreshToken(c) \/ Logout(c) \/ ForgotPassword(c)
               \/ ResetPassword(c) \/ GoogleLogin(c)
      PROVE  FALSE
  BY <1>4, <1>7, RowFacts
  DEF GenerateRefreshToken, SafeUserUpdate, Logout, ForgotPassword,
      ResetPassword, GoogleLogin
<1>8. ASSUME NEW c \in Call,
             \/ Begin(c) \/ ValidateUser(c) \/ Compare(c) \/ Sign(c)
             \/ RefreshToken(c) \/ FindResetToken(c) \/ ChangePassword(c)
             \/ UpdateProfile(c)
      PROVE  FALSE
  BY <1>8 DEF Begin, ValidateUser, Compare, Sign, RefreshToken, FindResetToken,
     ChangePassword, UpdateProfile
<1>9. ~ AccountsCrash
  BY DEF AccountsCrash
<1> QED
  BY <1>5, <1>6, <1>7, <1>8, <1>9 DEF AccountsNext

(* Before its ten minutes are over a lock is lifted only by a request that  *)
(* has not seen it (SeenLockHolds), for any number of overlapping requests. *)
THEOREM SeenLocksHold == AccountsSpec => SeenLockHolds
<1>1. AccountsInv /\ [AccountsNext]_accountsVars =>
        [ row.locked /\ ~ row'.locked =>
            LockExpires \/ \E c \in Call : at[c] # at'[c] /\ ~ loaded[c].locked
        ]_accountsVars
  BY LiftedUnseen
<1> QED
  BY AccountsInvariant, <1>1, PTL DEF AccountsSpec, SeenLockHolds

-----------------------------------------------------------------------------
(* The run of registrations and accounts.                                   *)

(* A behaviour of the run is one of registrations and one of an account, so *)
(* that what is proved of each holds in the run.                            *)
LEMMA MixedIsBoth == MixedSpec => Spec /\ AccountsSpec
<1>1. MixedInit => Init /\ AccountsInit
  BY DEF MixedInit
<1>2. [MixedNext]_<<part, regVars, accountsVars>> =>
        [Next]_regVars /\ [AccountsNext]_accountsVars
  BY DEF MixedNext
<1> QED
  BY <1>1, <1>2, PTL DEF MixedSpec, Spec, AccountsSpec

(* What the run says of tokens and of the copies of a row.                  *)
THEOREM AuthServiceTypes == MixedSpec => []MixedTypeOK
<1>1. RegTypeOK /\ AccountsTypeOK => MixedTypeOK
  BY DEF MixedTypeOK
<1> QED
  BY MixedIsBoth, RegistrationTypes, AccountsTypes, <1>1, PTL
=============================================================================
