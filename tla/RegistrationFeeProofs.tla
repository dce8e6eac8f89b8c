------------------------ MODULE RegistrationFeeProofs ------------------------
(***************************************************************************)
(* Proofs about RegistrationFee, for any number of members, calls and       *)
(* payments.                                                                *)
(***************************************************************************)
EXTENDS RegistrationFee, FiniteSetTheorems, TLAPS

-----------------------------------------------------------------------------
(* The invariant.                                                           *)

(* What a call was called with and knows, by the step it is at.             *)
Steps   == {"idle", "create", "storeReference", "insertPending", "ask",
            "findAttempt", "saveAttempt", "begin", "updateMember",
            "insertFee", "commit", "commitAborted", "end"}
Issuing    == {"storeReference", "insertPending"}
Attempting == {"findAttempt", "saveAttempt"}
Succeeding == {"begin", "updateMember", "insertFee", "commit", "commitAborted"}

Ops  == {"initialize", "verify", "webhook"}
Jobs == [op : Ops, member : Member, ref : References \cup {Null}]
        \cup [op : Ops, member : Member, ref : References,
              status : TransactionStatus]

JobInv ==
  /\ pc \in [Session -> Steps]
  /\ job \in [Session -> Jobs \cup {Null}]
  /\ \A s \in Session :
       /\ pc[s] \notin {"idle", "end"} => job[s] \in Jobs
       /\ pc[s] \in Issuing \cup {"ask"} \cup Attempting \cup Succeeding =>
            job[s].ref \in References
       /\ pc[s] \in Attempting => job[s].status \in TransactionStatus

(* Every row of the fee is recorded under the reference it is about, or     *)
(* under that of an attempt.                                                *)
FeeRow(t) ==
  /\ t \in [key : ({"fee"} \X References) \cup ({"verify"} \X Session),
            external : References, member : Member, status : TransactionStatus]
  /\ t.key[1] = "fee" => t.key = <<"fee", t.external>>
TableInv == \A t \in transactions : FeeRow(t)

(* PaidIsConfirmed is not inductive alone: whoever is about to be marked as *)
(* paid has a confirmed payment, and what is confirmed stays so.            *)
ConfirmedInv ==
  /\ \A r \in Foreign : payer[r] = Null /\ gateway[r] # "unknown"
  /\ \A r \in References : payer[r] # Null => gateway[r] # "unknown"
  /\ \A s \in Session : pc[s] \in Succeeding =>
       /\ gateway[job[s].ref] = "success" /\ job[s].ref \notin Short
       /\ payer[job[s].ref] \in {job[s].member, Null}

(* A page is only ever given for a payment Paystack knows.                  *)
IssuedInv == \A r \in issued : r \in Ref /\ gateway[r] # "unknown"

(* Nor is PaymentUsedOnce: it takes that no two rows share REG-FEE-<ref>,   *)
(* which no session about to insert one is going to change.  A reference    *)
(* that is being issued is nobody else's, cannot have been paid and is in   *)
(* no row; a session that commits is the only one to insert its key.        *)
FeeRowsOf(r) == {t \in transactions : t.key = <<"fee", r>>}
UniqueInv ==
  /\ \A t, u \in transactions : t.key[1] = "fee" /\ t.key = u.key => t = u
  /\ \A t \in transactions : t.key[1] = "fee" =>
       t.external \in issued \/ gateway[t.external] = "success"
  /\ \A s \in Session : pc[s] \in Issuing =>
       /\ job[s].ref \in Ref \ issued /\ gateway[job[s].ref] = "open"
       /\ \A q \in Session \ {s} : pc[q] \in Issuing => job[q].ref # job[s].ref
  /\ \A s \in Session : pc[s] = "commit" =>
       /\ FeeRowsOf(job[s].ref) = {}
       /\ \A q \in Session \ {s} : pc[q] = "commit" => job[q].ref # job[s].ref

FeeInv == /\ FeeTypeOK /\ JobInv /\ TableInv
          /\ ConfirmedInv /\ PaidIsConfirmed
          /\ IssuedInv /\ UniqueInv

(* The initial states.                                                      *)
LEMMA FeeInit == Init => FeeInv
<1> SUFFICES ASSUME Init PROVE FeeInv
  OBVIOUS
<1> USE RegistrationFeeAssumption DEF Init, References
<1>1. FeeTypeOK
  BY DEF FeeTypeOK, GatewayStatus
<1>2. JobInv
  BY DEF JobInv, Steps, Issuing, Attempting, Succeeding
<1>3. TableInv /\ ConfirmedInv /\ PaidIsConfirmed /\ IssuedInv
  BY DEF TableInv, ConfirmedInv, PaidIsConfirmed, Succeeding, IssuedInv
<1>4. UniqueInv
  BY DEF UniqueInv, Issuing
<1> QED
  BY <1>1, <1>2, <1>3, <1>4 DEF FeeInv

(* A job that is given a reference, or the status of an attempt.            *)
LEMMA JobFacts ==
  ASSUME NEW j \in Jobs, NEW r \in References
  PROVE  /\ j.member \in Member /\ j.op \in Ops
         /\ [j EXCEPT !.ref = r] \in Jobs
         /\ [j EXCEPT !.ref = r].ref = r
         /\ [j EXCEPT !.ref = r].member = j.member
BY DEF Jobs

(* A row is what it is recorded as, in the name of who recorded it.         *)
LEMMA RowFacts ==
  ASSUME FeeInv, NEW s \in Session, job[s] \in Jobs,
         job[s].ref \in References, NEW status \in TransactionStatus
  PROVE  /\ FeeRow(Row(FeeKey(s), s, status))
         /\ FeeRow(Row(VerifyKey(s), s, status))
         /\ Row(FeeKey(s), s, status).key = <<"fee", job[s].ref>>
         /\ Row(FeeKey(s), s, status).external = job[s].ref
         /\ Row(FeeKey(s), s, status).member = job[s].member
         /\ Row(VerifyKey(s), s, status).key[1] # "fee"
<1>1. job[s].member \in Member
  BY DEF Jobs
<1> QED
  BY <1>1 DEF FeeRow, Row, FeeKey, VerifyKey

(* Who has paid stays so when neither the books nor Paystack change.        *)
LEMMA PaidStays ==
  ASSUME PaidIsConfirmed, UNCHANGED <<paid, transactions, gateway, payer>>
  PROVE  PaidIsConfirmed'
BY DEF PaidIsConfirmed

-----------------------------------------------------------------------------
(* initializeRegistrationPayment.                                           *)

LEMMA StartInitializeStep ==
  ASSUME FeeInv, NEW s \in Session, StartInitialize(s)
  PROVE  FeeInv'
<1> USE RegistrationFeeAssumption
    DEF FeeInv, StartInitialize, Finish, Goto, rows, paystack
<1>1. FeeTypeOK' /\ TableInv' /\ IssuedInv'
  BY DEF FeeTypeOK, TableInv, IssuedInv
<1>2. JobInv'
  BY DEF JobInv, Jobs, Ops, Steps, Issuing, Attempting, Succeeding
<1>3. ConfirmedInv' /\ PaidIsConfirmed'
  BY PaidStays DEF JobInv, ConfirmedInv, Succeeding
<1>4. UniqueInv'
  BY DEF JobInv, UniqueInv, FeeRowsOf, Issuing
<1> QED
  BY <1>1, <1>2, <1>3, <1>4

LEMMA CreateAtPaystackStep ==
  ASSUME FeeInv, NEW s \in Session, CreateAtPaystack(s)
  PROVE  FeeInv'
<1> USE RegistrationFeeAssumption DEF FeeInv, rows
<1>1. CASE Finish(s, "nothing") /\ UNCHANGED <<gateway, payer, job>>
  <2> USE <1>1 DEF CreateAtPaystack, Finish, Goto
  <2>1. FeeTypeOK' /\ TableInv' /\ JobInv' /\ IssuedInv'
    BY DEF FeeTypeOK, TableInv, IssuedInv, JobInv, Steps, Issuing, Attempting, Succeeding
  <2>2. ConfirmedInv' /\ PaidIsConfirmed'
    BY PaidStays DEF JobInv, ConfirmedInv, Succeeding
  <2>3. UniqueInv'
    BY DEF JobInv, UniqueInv, FeeRowsOf, Issuing
  <2> QED
    BY <2>1, <2>2, <2>3
<1>2. ASSUME NEW r \in Ref, gateway[r] = "unknown",
             gateway' = [gateway EXCEPT ![r] = "open"],
             payer' = [payer EXCEPT ![r] = job[s].member],
             job' = [job EXCEPT ![s].ref = r],
             Goto(s, "storeReference"), UNCHANGED answer
      PROVE  FeeInv'
  <2>1. /\ pc[s] = "create" /\ job[s] \in Jobs /\ job[s].member \in Member
        /\ UNCHANGED <<rows, memberLock, issued, seen>>
        /\ pc' = [pc EXCEPT ![s] = "storeReference"]
    BY <1>2, JobFacts DEF CreateAtPaystack, Goto, JobInv, References
  <2>2. /\ job' \in [Session -> Jobs \cup {Null}]
        /\ job'[s] \in Jobs /\ job'[s].ref = r
        /\ job'[s].member = job[s].member
        /\ \A q \in Session \ {s} : job'[q] = job[q]
    BY <1>2, <2>1, JobFacts DEF JobInv, References
  <2>3. FeeTypeOK' /\ TableInv' /\ IssuedInv'
    BY <1>2, <2>1 DEF FeeTypeOK, TableInv, IssuedInv, GatewayStatus, References
  <2>4. JobInv'
    BY <2>1, <2>2
    DEF JobInv, Steps, Issuing, Attempting, Succeeding, References
  <2>5. \A q \in References \ {r} : gateway'[q] = gateway[q] /\ payer'[q] = payer[q]
    BY <1>2 DEF FeeTypeOK
  <2>6. gateway'[r] = "open" /\ payer'[r] = job[s].member /\ r \notin Foreign
    BY <1>2 DEF FeeTypeOK, References
  <2>7. ConfirmedInv'
    BY <1>2, <2>1, <2>2, <2>5, <2>6
    DEF JobInv, ConfirmedInv, Succeeding, References
  <2>8. PaidIsConfirmed'
    BY <1>2, <2>1, <2>5 DEF FeeTypeOK, PaidIsConfirmed
  <2>9. ASSUME NEW t \in transactions, t.key[1] = "fee"
        PROVE  t.external \in issued' \/ gateway'[t.external] = "success"
    BY <1>2, <2>1, <2>5, <2>9 DEF UniqueInv, TableInv, FeeRow
  <2>10. r \notin issued
    BY <1>2 DEF IssuedInv
  <2>11. ASSUME NEW q \in Session, pc'[q] \in Issuing
         PROVE  /\ job'[q].ref \in Ref \ issued' /\ gateway'[job'[q].ref] = "open"
                /\ \A p \in Session \ {q} :
                     pc'[p] \in Issuing => job'[p].ref # job'[q].ref
    <3>1. ASSUME NEW p \in Session \ {s}, pc'[p] \in Issuing
          PROVE  job'[p].ref = job[p].ref /\ job[p].ref # r
      BY <1>2, <2>1, <2>2, <3>1 DEF JobInv, UniqueInv
    <3> QED
      BY <1>2, <2>1, <2>2, <2>5, <2>6, <2>10, <2>11, <3>1 DEF UniqueInv, JobInv, References
  <2>12. ASSUME NEW q \in Session, pc'[q] = "commit"
         PROVE  /\ FeeRowsOf(job[q].ref)' = {}
                /\ \A p \in Session \ {q} :
                     pc'[p] = "commit" => job'[p].ref # job'[q].ref
    BY <2>1, <2>2, <2>12 DEF UniqueInv, FeeRowsOf, JobInv
  <2>13. UniqueInv'
    BY <2>1, <2>9, <2>11, <2>12 DEF UniqueInv, FeeRowsOf
  <2> QED
    BY <2>3, <2>4, <2>7, <2>8, <2>13
<1> QED
  BY <1>1, <1>2 DEF CreateAtPaystack

LEMMA StoreReferenceStep ==
  ASSUME FeeInv, NEW s \in Session, StoreReference(s)
  PROVE  FeeInv'
<1> USE RegistrationFeeAssumption DEF FeeInv, StoreReference, Goto, rows, paystack
<1>1. FeeTypeOK' /\ TableInv' /\ IssuedInv'
  BY DEF FeeTypeOK, TableInv, IssuedInv, JobInv, Issuing
<1>2. JobInv'
  BY DEF JobInv, Steps, Issuing, Attempting, Succeeding
<1>3. ConfirmedInv' /\ PaidIsConfirmed'
  BY PaidStays DEF JobInv, ConfirmedInv, Succeeding
<1>4. UniqueInv'
  BY DEF JobInv, UniqueInv, FeeRowsOf, Issuing
<1> QED
  BY <1>1, <1>2, <1>3, <1>4

LEMMA InsertPendingStep ==
  ASSUME FeeInv, NEW s \in Session, InsertPending(s)
  PROVE  FeeInv'
<1> DEFINE row == Row(FeeKey(s), s, "pending")
<1> USE RegistrationFeeAssumption DEF FeeInv
<1>1. /\ pc[s] = "insertPending" /\ pc' = [pc EXCEPT ![s] = "end"]
      /\ transactions' \in {transactions, transactions \cup {row}}
      /\ issued' = issued \cup {job[s].ref}
      /\ UNCHANGED <<paid, reference, memberLock, gateway, payer, job, seen>>
  BY DEF InsertPending, Finish, Goto
<1>2. /\ job[s] \in Jobs /\ job[s].ref \in Ref \ issued
      /\ gateway[job[s].ref] = "open" /\ job[s].member \in Member
  BY <1>1 DEF JobInv, UniqueInv, Issuing, Jobs
<1>3. /\ FeeRow(row) /\ row.key = <<"fee", job[s].ref>>
      /\ row.external = job[s].ref /\ row.member = job[s].member
      /\ row.status \in TransactionStatus
  BY <1>1, <1>2, RowFacts DEF TransactionStatus, References, FeeRow
<1> HIDE DEF row
<1>4. FeeRowsOf(job[s].ref) = {}
  <2> SUFFICES ASSUME NEW t \in transactions, t.key = <<"fee", job[s].ref>>
               PROVE  FALSE
    BY DEF FeeRowsOf
  <2> QED
    BY <1>2 DEF TableInv, FeeRow, UniqueInv
<1>5. FeeTypeOK' /\ TableInv' /\ IssuedInv'
  BY <1>1, <1>2, <1>3 DEF FeeTypeOK, TableInv, IssuedInv, FeeRow, References
<1>6. JobInv'
  BY <1>1 DEF JobInv, Steps, Issuing, Attempting, Succeeding
<1>7. ConfirmedInv'
  BY <1>1 DEF JobInv, ConfirmedInv, Succeeding
<1>8. PaidIsConfirmed'
  BY <1>1 DEF PaidIsConfirmed
<1>9. UniqueInv'
  <2>1. \A t, u \in transactions' : t.key[1] = "fee" /\ t.key = u.key => t = u
    BY <1>1, <1>3, <1>4 DEF UniqueInv, FeeRowsOf
  <2>2. \A t \in transactions' : t.key[1] = "fee" =>
          t.external \in issued' \/ gateway'[t.external] = "success"
    BY <1>1, <1>3 DEF UniqueInv
  <2>3. \A q \in Session : pc'[q] \in Issuing =>
          /\ job'[q].ref \in Ref \ issued' /\ gateway'[job'[q].ref] = "open"
          /\ \A p \in Session \ {q} :
               pc'[p] \in Issuing => job'[p].ref # job'[q].ref
    BY <1>1 DEF UniqueInv, JobInv, Issuing
  <2>4. ASSUME NEW q \in Session, pc'[q] = "commit"
        PROVE  /\ FeeRowsOf(job[q].ref)' = {}
               /\ \A p \in Session \ {q} :
                    pc'[p] = "commit" => job'[p].ref # job'[q].ref
    <3>1. pc[q] = "commit" /\ gateway[job[q].ref] = "success"
      BY <1>1, <2>4 DEF JobInv, ConfirmedInv, Succeeding
    <3>2. job[q].ref # job[s].ref
      BY <1>2, <3>1
    <3> QED
      BY <1>1, <1>3, <3>1, <3>2, <2>4 DEF UniqueInv, FeeRowsOf, JobInv
  <2> QED
    BY <1>1, <2>1, <2>2, <2>3, <2>4 DEF UniqueInv, FeeRowsOf
<1> QED
  BY <1>5, <1>6, <1>7, <1>8, <1>9

-----------------------------------------------------------------------------
(* verifyRegistrationPayment, and the webhook.                              *)

(* Calls that only read: what a call knows changes, and nothing else.       *)
LEMMA ReadingStep ==
  ASSUME FeeInv, NEW s \in Session,
         UNCHANGED <<rows, memberLock, paystack, job>>,
         \E label \in Steps \ (Issuing \cup {"commit"}) :
           pc' = [pc EXCEPT ![s] = label],
         pc'[s] \notin {"idle", "end"} => job[s] \in Jobs,
         pc'[s] \in Attempting => job[s].status \in TransactionStatus,
         pc'[s] \in {"ask"} \cup Attempting \cup Succeeding =>
           job[s].ref \in References,
         pc'[s] \in Succeeding =>
           /\ gateway[job[s].ref] = "success" /\ job[s].ref \notin Short
           /\ payer[job[s].ref] \in {job[s].member, Null}
  PROVE  FeeInv'
<1> USE DEF FeeInv, rows, paystack
<1>1. FeeTypeOK' /\ TableInv' /\ IssuedInv'
  BY DEF FeeTypeOK, TableInv, IssuedInv
<1>2. JobInv'
  BY DEF JobInv
<1>3. ConfirmedInv'
  BY DEF JobInv, ConfirmedInv
<1>4. PaidIsConfirmed'
  BY PaidStays
<1>5. UniqueInv'
  BY DEF JobInv, UniqueInv, FeeRowsOf
<1> QED
  BY <1>1, <1>2, <1>3, <1>4, <1>5

(* Calls that begin, and the answer of Paystack: the job changes as well,   *)
(* and the call does not issue or commit anything next.                     *)
LEMMA AskingStep ==
  ASSUME FeeInv, NEW s \in Session,
         UNCHANGED <<rows, memberLock, paystack>>,
         NEW j \in Jobs, job' = [job EXCEPT ![s] = j],
         NEW label \in {"ask", "findAttempt", "begin", "end"},
         pc' = [pc EXCEPT ![s] = label],
         label # "end" => j.ref \in References,
         label = "findAttempt" => j.status \in TransactionStatus,
         label = "begin" => /\ gateway[j.ref] = "success" /\ j.ref \notin Short
                            /\ payer[j.ref] \in {j.member, Null}
  PROVE  FeeInv'
<1> USE DEF FeeInv, rows, paystack
<1>1. FeeTypeOK' /\ TableInv' /\ IssuedInv'
  BY DEF FeeTypeOK, TableInv, IssuedInv
<1>2. JobInv'
  BY DEF JobInv, Steps, Issuing, Attempting, Succeeding
<1>3. ConfirmedInv'
  BY DEF JobInv, ConfirmedInv, Succeeding
<1>4. PaidIsConfirmed'
  BY PaidStays
<1>5. UniqueInv'
  BY DEF JobInv, UniqueInv, FeeRowsOf, Issuing
<1> QED
  BY <1>1, <1>2, <1>3, <1>4, <1>5

LEMMA StartVerifyStep ==
  ASSUME FeeInv, NEW s \in Session, StartVerify(s)
  PROVE  FeeInv'
<1>1. PICK m \in Member, r \in References :
        /\ job' = [job EXCEPT ![s] = [op |-> "verify", member |-> m, ref |-> r]]
        /\ IF paid[m] THEN Finish(s, "success")
           ELSE Goto(s, "ask") /\ UNCHANGED answer
  BY DEF StartVerify
<1> DEFINE j == [op |-> "verify", member |-> m, ref |-> r]
<1>2. j \in Jobs /\ j.ref \in References
  BY DEF Jobs, Ops
<1> HIDE DEF j
<1>3. /\ UNCHANGED <<rows, memberLock, paystack>>
      /\ job' = [job EXCEPT ![s] = j]
      /\ \E label \in {"ask", "end"} : pc' = [pc EXCEPT ![s] = label]
  BY <1>1 DEF j, StartVerify, Finish, Goto
<1> QED
  BY <1>2, <1>3, AskingStep

LEMMA AskPaystackStep ==
  ASSUME FeeInv, NEW s \in Session, AskPaystack(s)
  PROVE  FeeInv'
<1>1. /\ pc[s] = "ask" /\ job[s] \in Jobs /\ job[s].ref \in References
      /\ job[s].member \in Member
      /\ UNCHANGED <<rows, memberLock, paystack, seen, answer>>
  BY DEF AskPaystack, FeeInv, JobInv, Jobs
<1>2. CASE Confirmed(s) /\ Goto(s, "begin") /\ UNCHANGED job
  BY <1>1, <1>2, ReadingStep
  DEF Confirmed, Mismatch, Sufficient, Goto, Steps, Issuing, Attempting,
      Succeeding, FeeInv, JobInv
<1>3. ASSUME NEW status \in TransactionStatus,
             job' = [job EXCEPT ![s] = [op |-> "verify", member |-> job[s].member,
                       ref |-> job[s].ref, status |-> status]],
             Goto(s, "findAttempt")
      PROVE  FeeInv'
  <2> DEFINE j == [op |-> "verify", member |-> job[s].member,
                   ref |-> job[s].ref, status |-> status]
  <2>1. j \in Jobs /\ j.ref \in References /\ j.status \in TransactionStatus
    BY <1>1 DEF Jobs, Ops
  <2> HIDE DEF j
  <2>2. job' = [job EXCEPT ![s] = j]
    BY <1>3 DEF j
  <2> QED
    BY <1>1, <1>3, <2>1, <2>2, AskingStep DEF Goto
<1>4. AttemptStatus(s) \in TransactionStatus /\ {"pending", "failed"} \subseteq TransactionStatus
  BY DEF AttemptStatus, TransactionStatus
<1> QED
  BY <1>1, <1>2, <1>3, <1>4 DEF AskPaystack

LEMMA StartWebhookStep ==
  ASSUME FeeInv, NEW s \in Session, StartWebhook(s)
  PROVE  FeeInv'
<1>1. PICK r \in References :
        /\ gateway[r] = "success" /\ payer[r] # Null
        /\ job' = [job EXCEPT ![s] = [op |-> "webhook", member |-> payer[r],
                                      ref |-> r]]
  BY DEF StartWebhook
<1>2. payer[r] \in Member /\ r \notin Short
  BY <1>1, RegistrationFeeAssumption
  DEF FeeInv, FeeTypeOK, ConfirmedInv
<1> DEFINE j == [op |-> "webhook", member |-> payer[r], ref |-> r]
<1>3. /\ j \in Jobs /\ j.ref = r /\ j.member = payer[r]
  BY <1>2 DEF Jobs, Ops
<1> HIDE DEF j
<1>4. /\ job' = [job EXCEPT ![s] = j] /\ pc' = [pc EXCEPT ![s] = "begin"]
      /\ UNCHANGED <<rows, memberLock, paystack>>
  BY <1>1 DEF j, StartWebhook, Goto
<1> QED
  BY <1>1, <1>2, <1>3, <1>4, AskingStep

LEMMA FindAttemptStep ==
  ASSUME FeeInv, NEW s \in Session, FindAttempt(s)
  PROVE  FeeInv'
BY ReadingStep
DEF FindAttempt, Goto, FeeInv, JobInv, Steps, Issuing, Attempting, Succeeding

(* A row under another key, or rows whose status alone is overwritten, is   *)
(* nothing the invariant tells apart.                                       *)
SameRow(t, u) == t.key = u.key /\ t.external = u.external /\ t.member = u.member

LEMMA RecordingStep ==
  ASSUME FeeInv, NEW s \in Session, pc' = [pc EXCEPT ![s] = "end"],
         UNCHANGED <<paid, reference, memberLock, paystack, job>>,
         \A t \in transactions' :
           FeeRow(t) /\ (t.key[1] = "fee" =>
                            \E u \in transactions : SameRow(t, u)),
         \A u \in transactions : \E t \in transactions' : SameRow(t, u),
         \A t, u \in transactions' : t.key[1] = "fee" /\ t.key = u.key => t = u
  PROVE  FeeInv'
<1> USE DEF FeeInv, paystack
<1>1. FeeTypeOK' /\ TableInv' /\ IssuedInv'
  BY DEF FeeTypeOK, TableInv, IssuedInv, FeeRow
<1>2. JobInv'
  BY DEF JobInv, Steps, Issuing, Attempting, Succeeding
<1>3. ConfirmedInv'
  BY DEF JobInv, ConfirmedInv, Succeeding
<1>4. PaidIsConfirmed'
  <2> SUFFICES ASSUME NEW m \in Member, paid[m]
               PROVE  \E t \in transactions' :
                        /\ t.key = <<"fee", t.external>> /\ t.member = m
                        /\ gateway[t.external] = "success"
                        /\ t.external \notin Short
                        /\ payer[t.external] \in {m, Null}
    BY DEF PaidIsConfirmed
  <2>1. PICK u \in transactions :
          /\ u.key = <<"fee", u.external>> /\ u.member = m
          /\ gateway[u.external] = "success" /\ u.external \notin Short
          /\ payer[u.external] \in {m, Null}
    BY DEF PaidIsConfirmed
  <2>2. PICK t \in transactions' : SameRow(t, u)
    OBVIOUS
  <2> QED
    BY <2>1, <2>2 DEF SameRow
<1>5. UniqueInv'
  <2>1. \A t \in transactions' : t.key[1] = "fee" =>
          t.external \in issued \/ gateway[t.external] = "success"
    BY DEF UniqueInv, SameRow
  <2>2. \A q \in Session : pc'[q] \in Issuing \cup {"commit"} => pc'[q] = pc[q]
    BY DEF JobInv, Issuing
  <2>4. ASSUME NEW q \in Session, pc'[q] = "commit"
        PROVE  /\ FeeRowsOf(job[q].ref)' = {}
               /\ \A p \in Session \ {q} :
                    pc'[p] = "commit" => job[p].ref # job[q].ref
    <3>1. pc[q] = "commit" /\ job[q].ref \in References
      BY <2>2, <2>4 DEF JobInv, Succeeding
    <3>2. FeeRowsOf(job[q].ref) = {}
      BY <3>1 DEF UniqueInv
    <3>3. FeeRowsOf(job[q].ref)' = {}
      BY <3>1, <3>2 DEF FeeRowsOf, SameRow
    <3>4. \A p \in Session \ {q} :
            pc'[p] = "commit" => job[p].ref # job[q].ref
      BY <2>2, <3>1 DEF UniqueInv
    <3> QED
      BY <3>3, <3>4
  <2> QED
    BY <2>1, <2>2, <2>4 DEF UniqueInv, FeeRowsOf
<1> QED
  BY <1>1, <1>2, <1>3, <1>4, <1>5

LEMMA SaveAttemptStep ==
  ASSUME FeeInv, NEW s \in Session, SaveAttempt(s)
  PROVE  FeeInv'
<1>1. /\ pc' = [pc EXCEPT ![s] = "end"]
      /\ UNCHANGED <<paid, reference, memberLock, paystack, job>>
      /\ job[s] \in Jobs /\ job[s].ref \in References
      /\ job[s].status \in TransactionStatus
  BY DEF SaveAttempt, Finish, Goto, FeeInv, JobInv, Attempting
<1>2. /\ \A t \in transactions : FeeRow(t)
      /\ \A t, u \in transactions :
           t.key[1] = "fee" /\ t.key = u.key => t = u
  BY DEF FeeInv, TableInv, UniqueInv
<1>3. CASE seen[s] = Null
  <2> DEFINE row == Row(VerifyKey(s), s, job[s].status)
  <2>1. FeeRow(row) /\ row.key[1] # "fee"
    BY <1>1, RowFacts
  <2>2. transactions' = transactions \cup {row}
    BY <1>3 DEF SaveAttempt
  <2> HIDE DEF row
  <2> QED
    BY <1>1, <1>2, <2>1, <2>2, RecordingStep DEF SameRow
<1>4. CASE seen[s] # Null
  <2> DEFINE Saved(t) == IF t.key = seen[s].key
                         THEN [t EXCEPT !.status = job[s].status] ELSE t
  <2>1. transactions' = {Saved(t) : t \in transactions}
    BY <1>4 DEF SaveAttempt
  <2>2. ASSUME NEW t \in transactions
        PROVE  FeeRow(Saved(t)) /\ SameRow(Saved(t), t)
    <3>1. /\ t \in [key : ({"fee"} \X References) \cup ({"verify"} \X Session),
                    external : References, member : Member,
                    status : TransactionStatus]
          /\ t.key[1] = "fee" => t.key = <<"fee", t.external>>
      BY <1>2 DEF FeeRow
    <3> DEFINE v == [t EXCEPT !.status = job[s].status]
    <3>2. /\ v \in [key : ({"fee"} \X References) \cup ({"verify"} \X Session),
                    external : References, member : Member,
                    status : TransactionStatus]
          /\ v.key = t.key /\ v.external = t.external /\ v.member = t.member
      BY <1>1, <3>1
    <3>3. Saved(t) \in {t, v}
      OBVIOUS
    <3> HIDE DEF v, Saved
    <3> QED
      BY <3>1, <3>2, <3>3 DEF FeeRow, SameRow
  <2> HIDE DEF Saved
  <2>3. ASSUME NEW t \in transactions', NEW u \in transactions',
               t.key[1] = "fee", t.key = u.key
        PROVE  t = u
    BY <1>2, <2>1, <2>2, <2>3 DEF SameRow
  <2>4. \A t \in transactions' :
          FeeRow(t) /\ \E u \in transactions : SameRow(t, u)
    BY <2>1, <2>2
  <2>5. \A u \in transactions : \E t \in transactions' : SameRow(t, u)
    BY <2>1, <2>2
  <2> QED
    BY <1>1, <2>3, <2>4, <2>5, RecordingStep
<1> QED
  BY <1>3, <1>4

-----------------------------------------------------------------------------
(* handleRegistrationSuccess.                                               *)

LEMMA BeginSuccessStep ==
  ASSUME FeeInv, NEW s \in Session, BeginSuccess(s)
  PROVE  FeeInv'
BY ReadingStep
DEF BeginSuccess, Finish, Goto, FeeInv, JobInv, ConfirmedInv, Steps, Issuing,
    Attempting, Succeeding

LEMMA CommitAbortedStep ==
  ASSUME FeeInv, NEW s \in Session, CommitAborted(s)
  PROVE  FeeInv'
BY ReadingStep
DEF CommitAborted, Finish, Goto, FeeInv, JobInv, Steps, Issuing, Attempting,
    Succeeding

LEMMA UpdateMemberStep ==
  ASSUME FeeInv, NEW s \in Session, UpdateMember(s)
  PROVE  FeeInv'
<1> USE DEF FeeInv, UpdateMember, Goto, rows, paystack
<1>1. FeeTypeOK' /\ TableInv' /\ IssuedInv'
  BY DEF FeeTypeOK, TableInv, IssuedInv
<1>2. JobInv'
  BY DEF JobInv, Steps, Issuing, Attempting, Succeeding
<1>3. ConfirmedInv' /\ PaidIsConfirmed'
  BY PaidStays DEF JobInv, ConfirmedInv, Succeeding
<1>4. UniqueInv'
  BY DEF JobInv, UniqueInv, FeeRowsOf, Issuing
<1> QED
  BY <1>1, <1>2, <1>3, <1>4

LEMMA InsertFeeStep ==
  ASSUME FeeInv, NEW s \in Session, InsertFee(s)
  PROVE  FeeInv'
<1> USE DEF FeeInv, rows, paystack
<1>1. PICK label \in {"commitAborted", "commit"} :
        /\ pc[s] = "insertFee" /\ pc' = [pc EXCEPT ![s] = label]
        /\ label = "commit" => ~ Taken(SuccessKey(s))
        /\ \A q \in Session \ {s} : ~ InsertingKey(q, SuccessKey(s))
        /\ UNCHANGED <<paid, reference, transactions, gateway, payer, issued,
                       job, seen>>
  BY DEF InsertFee, Goto
<1>2. FeeTypeOK' /\ TableInv' /\ IssuedInv'
  BY RegistrationFeeAssumption
  DEF InsertFee, FeeTypeOK, TableInv, IssuedInv
<1>3. JobInv'
  BY <1>1 DEF JobInv, Steps, Issuing, Attempting, Succeeding
<1>4. ConfirmedInv' /\ PaidIsConfirmed'
  BY <1>1, PaidStays DEF JobInv, ConfirmedInv, Succeeding
<1>5. label = "commit" => FeeRowsOf(job[s].ref) = {}
  BY <1>1 DEF Taken, SuccessKey, FeeKey, FeeRowsOf
<1>6. \A q \in Session \ {s} : pc[q] = "commit" => job[q].ref # job[s].ref
  BY <1>1 DEF InsertingKey, SuccessKey, FeeKey
<1>7. UniqueInv'
  BY <1>1, <1>5, <1>6 DEF JobInv, UniqueInv, FeeRowsOf, Issuing
<1> QED
  BY <1>2, <1>3, <1>4, <1>7

LEMMA CommitFeeStep ==
  ASSUME FeeInv, NEW s \in Session, CommitFee(s)
  PROVE  FeeInv'
<1> DEFINE row == Row(SuccessKey(s), s, "completed")
<1> USE RegistrationFeeAssumption DEF FeeInv
<1>1. /\ pc[s] = "commit" /\ pc' = [pc EXCEPT ![s] = "end"]
      /\ paid' = [paid EXCEPT ![job[s].member] = TRUE]
      /\ reference' = [reference EXCEPT ![job[s].member] = job[s].ref]
      /\ transactions' = transactions \cup {row}
      /\ memberLock' = [memberLock EXCEPT ![job[s].member] = Null]
      /\ UNCHANGED <<gateway, payer, issued, job, seen>>
  BY DEF CommitFee, Finish, Goto, paystack
<1>2. /\ job[s] \in Jobs /\ job[s].ref \in References
      /\ job[s].member \in Member
      /\ gateway[job[s].ref] = "success" /\ job[s].ref \notin Short
      /\ payer[job[s].ref] \in {job[s].member, Null}
      /\ FeeRowsOf(job[s].ref) = {}
      /\ \A q \in Session \ {s} : pc[q] = "commit" => job[q].ref # job[s].ref
  BY <1>1 DEF JobInv, ConfirmedInv, UniqueInv, Succeeding, Jobs
<1>3. /\ FeeRow(row) /\ row.key = <<"fee", job[s].ref>>
      /\ row.external = job[s].ref /\ row.member = job[s].member
      /\ row.status \in TransactionStatus
  BY <1>2, RowFacts DEF TransactionStatus, FeeRow, SuccessKey
<1> HIDE DEF row
<1>4. FeeTypeOK' /\ TableInv' /\ IssuedInv'
  BY <1>1, <1>2, <1>3 DEF FeeTypeOK, TableInv, IssuedInv, FeeRow
<1>5. JobInv'
  BY <1>1 DEF JobInv, Steps, Issuing, Attempting, Succeeding
<1>6. ConfirmedInv'
  BY <1>1 DEF JobInv, ConfirmedInv, Succeeding
<1>7. PaidIsConfirmed'
  <2> SUFFICES ASSUME NEW m \in Member, paid'[m]
               PROVE  \E t \in transactions' :
                        /\ t.key = <<"fee", t.external>> /\ t.member = m
                        /\ gateway[t.external] = "success"
                        /\ t.external \notin Short
                        /\ payer[t.external] \in {m, Null}
    BY <1>1 DEF PaidIsConfirmed
  <2>1. CASE m = job[s].member
    BY <1>1, <1>2, <1>3, <2>1
  <2>2. CASE m # job[s].member
    BY <1>1, <2>2 DEF PaidIsConfirmed, FeeTypeOK
  <2> QED
    BY <2>1, <2>2
<1>8. UniqueInv'
  <2>1. \A t, u \in transactions' : t.key[1] = "fee" /\ t.key = u.key => t = u
    BY <1>1, <1>2, <1>3 DEF UniqueInv, FeeRowsOf
  <2>2. \A t \in transactions' : t.key[1] = "fee" =>
          t.external \in issued' \/ gateway'[t.external] = "success"
    BY <1>1, <1>2, <1>3 DEF UniqueInv
  <2>3. \A q \in Session : pc'[q] \in Issuing =>
          /\ job'[q].ref \in Ref \ issued' /\ gateway'[job'[q].ref] = "open"
          /\ \A p \in Session \ {q} :
               pc'[p] \in Issuing => job'[p].ref # job'[q].ref
    BY <1>1 DEF UniqueInv, JobInv, Issuing
  <2>4. ASSUME NEW q \in Session, pc'[q] = "commit"
        PROVE  /\ FeeRowsOf(job[q].ref)' = {}
               /\ \A p \in Session \ {q} :
                    pc'[p] = "commit" => job'[p].ref # job'[q].ref
    <3>1. pc[q] = "commit" /\ job[q].ref # job[s].ref
      BY <1>1, <1>2, <2>4 DEF JobInv
    <3> QED
      BY <1>1, <1>3, <3>1, <2>4 DEF UniqueInv, FeeRowsOf, JobInv
  <2> QED
    BY <1>1, <2>1, <2>2, <2>3, <2>4 DEF UniqueInv, FeeRowsOf
<1> QED
  BY <1>4, <1>5, <1>6, <1>7, <1>8

-----------------------------------------------------------------------------
(* The environment.                                                         *)

LEMMA PayStep ==
  ASSUME FeeInv, NEW r \in Ref, Pay(r)
  PROVE  FeeInv'
<1> USE DEF FeeInv, rows, References
<1>1. PICK o \in {"success", "failed", "abandoned"} :
        gateway' = [gateway EXCEPT ![r] = o]
  BY DEF Pay
<1>2. /\ r \in issued /\ gateway[r] = "open"
      /\ UNCHANGED <<paid, reference, transactions, memberLock, payer, issued,
                     job, pc, seen>>
  BY DEF Pay
<1>3. /\ gateway' \in [References -> GatewayStatus] /\ gateway'[r] = o
      /\ \A q \in References \ {r} : gateway'[q] = gateway[q]
  BY <1>1 DEF FeeTypeOK, GatewayStatus
<1>4. FeeTypeOK' /\ TableInv' /\ IssuedInv'
  BY <1>2, <1>3 DEF FeeTypeOK, TableInv, IssuedInv
<1>5. JobInv'
  BY <1>2 DEF JobInv
<1>6. ConfirmedInv'
  BY <1>2, <1>3 DEF JobInv, ConfirmedInv
<1>7. PaidIsConfirmed'
  BY <1>2, <1>3 DEF PaidIsConfirmed, FeeTypeOK
<1>8. UniqueInv'
  <2>1. \A t \in transactions : t.key[1] = "fee" =>
          t.external \in issued \/ gateway'[t.external] = "success"
    BY <1>2, <1>3 DEF UniqueInv, FeeTypeOK
  <2>2. \A q \in Session : pc[q] \in Issuing => gateway'[job[q].ref] = "open"
    BY <1>2, <1>3 DEF UniqueInv
  <2> QED
    BY <1>2, <2>1, <2>2 DEF UniqueInv, FeeRowsOf
<1> QED
  BY <1>4, <1>5, <1>6, <1>7, <1>8

LEMMA CrashStep == FeeInv /\ Crash => FeeInv'
<1> SUFFICES ASSUME FeeInv, Crash PROVE FeeInv'
  OBVIOUS
<1> USE DEF FeeInv, rows, paystack
<1>1. /\ \A s \in Session : pc'[s] \in {"idle", "end"}
      /\ pc' \in [Session -> Steps]
      /\ \A s \in Session : pc'[s] = "idle" => pc[s] = "idle"
      /\ memberLock' = [m \in Member |-> Null]
      /\ UNCHANGED <<paid, reference, transactions, gateway, payer, issued, job>>
  BY DEF Crash, Steps
<1>2. FeeTypeOK' /\ TableInv' /\ IssuedInv' /\ PaidIsConfirmed'
  BY <1>1, PaidStays DEF FeeTypeOK, TableInv, IssuedInv
<1>3. JobInv' /\ ConfirmedInv' /\ UniqueInv'
  BY <1>1
  DEF JobInv, ConfirmedInv, UniqueInv, FeeRowsOf, Issuing, Attempting, Succeeding
<1> QED
  BY <1>2, <1>3

LEMMA FeeNext == FeeInv /\ [Next]_feeVars => FeeInv'
<1> SUFFICES ASSUME FeeInv, [Next]_feeVars PROVE FeeInv'
  OBVIOUS
<1>1. CASE UNCHANGED feeVars
  BY <1>1
  DEF feeVars, rows, paystack, FeeInv, FeeTypeOK, JobInv, TableInv, FeeRow,
      ConfirmedInv, PaidIsConfirmed, IssuedInv, UniqueInv, FeeRowsOf
<1>2. CASE AllDone
  BY <1>1, <1>2 DEF AllDone
<1>3. CASE Next /\ ~ AllDone
  BY <1>3, StartInitializeStep, CreateAtPaystackStep, StoreReferenceStep,
     InsertPendingStep, StartVerifyStep, AskPaystackStep, FindAttemptStep,
     SaveAttemptStep, StartWebhookStep, BeginSuccessStep, UpdateMemberStep,
     InsertFeeStep, CommitFeeStep, CommitAbortedStep, PayStep, CrashStep
  DEF Next
<1> QED
  BY <1>1, <1>2, <1>3

LEMMA FeeInvariant == Spec => []FeeInv
BY FeeInit, FeeNext, PTL DEF Spec

-----------------------------------------------------------------------------
(* What follows.                                                            *)

(* The variables have their types, whatever calls are made, payments are    *)
(* reported and crashes happen.                                             *)
THEOREM FeeTypes == Spec => []FeeTypeOK
<1>1. FeeInv => FeeTypeOK
  BY DEF FeeInv
<1> QED
  BY FeeInvariant, <1>1, PTL

(* No member is marked as paid without a confirmed payment of the whole     *)
(* fee, in nobody else's name, and its transaction in the books             *)
(* (handleRegistrationSuccess, reached from verify and the webhook).        *)
THEOREM PaidMembersPaid == Spec => []PaidIsConfirmed
<1>1. FeeInv => PaidIsConfirmed
  BY DEF FeeInv
<1> QED
  BY FeeInvariant, <1>1, PTL

(* The payments members are marked as paid for can be chosen all different. *)
LEMMA PaymentsDiffer ==
  FeeInv /\ IsFiniteSet(References) => PaymentUsedOnce
<1> SUFFICES ASSUME FeeInv, IsFiniteSet(References) PROVE PaymentUsedOnce
  OBVIOUS
<1> DEFINE P == {m \in Member : paid[m]}
           C == {r \in References \ Short : gateway[r] = "success"}
           Pays(t, m) == /\ t.key = <<"fee", t.external>> /\ t.member = m
                         /\ t.external \in C
           f == [m \in P |-> (CHOOSE t \in transactions : Pays(t, m)).external]
<1>1. ASSUME NEW m \in P
      PROVE  \E t \in transactions : Pays(t, m) /\ f[m] = t.external
  <2>1. \E t \in transactions : Pays(t, m)
    BY DEF FeeInv, FeeTypeOK, PaidIsConfirmed
  <2> QED
    BY <2>1
<1>2. IsFiniteSet(C)
  BY FS_Subset
<1> HIDE DEF C
<1>3. \A m, n \in P : f[m] = f[n] => m = n
  <2> SUFFICES ASSUME NEW m \in P, NEW n \in P, f[m] = f[n] PROVE m = n
    OBVIOUS
  <2> HIDE DEF f, P
  <2>1. PICK t \in transactions : Pays(t, m) /\ f[m] = t.external
    BY <1>1
  <2>2. PICK u \in transactions : Pays(u, n) /\ f[n] = u.external
    BY <1>1
  <2>3. t.key = u.key /\ t.key[1] = "fee"
    <3>1. t.key = <<"fee", f[m]>> /\ u.key = <<"fee", f[m]>>
      BY <2>1, <2>2
    <3> QED
      BY <3>1
  <2>4. \A v, w \in transactions : v.key[1] = "fee" /\ v.key = w.key => v = w
    BY DEF FeeInv, UniqueInv
  <2>5. t = u
    BY <2>3, <2>4
  <2> QED
    BY <2>1, <2>2, <2>5
<1>4. f \in [P -> C]
  <2>1. \A m \in P : f[m] \in C
    BY <1>1
  <2> QED
    BY <2>1
<1> HIDE DEF f, P
<1>5. f \in Injection(P, C)
  BY <1>3, <1>4 DEF Injection, IsInjective
<1>6. Cardinality(P) <= Cardinality(C)
  BY <1>2, <1>5, FS_Injection
<1> QED
  BY <1>6 DEF PaymentUsedOnce, P, C

(* No payment makes two members paid, out of finitely many payments.        *)
THEOREM PaymentsUsedOnce ==
  ASSUME IsFiniteSet(References)
  PROVE  Spec => []PaymentUsedOnce
<1>1. FeeInv => PaymentUsedOnce
  BY PaymentsDiffer
<1> QED
  BY FeeInvariant, <1>1, PTL
=============================================================================
