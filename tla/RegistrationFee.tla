-------------------------- MODULE RegistrationFee --------------------------
(***************************************************************************)
(* PaymentService: how a member pays the registration fee.                  *)
(*                                                                          *)
(* A session is one call: initialize obtains a payment reference from       *)
(* Paystack and records a pending transaction; verify asks Paystack about a *)
(* reference on the member's request; the webhook reports a success.  Both  *)
(* of the latter end in handleRegistrationSuccess, a transaction of its own *)
(* that marks the member as paid and inserts the transaction REG-FEE-<ref>. *)
(* A statement that fails there is caught inside the transaction, so that   *)
(* COMMIT is sent for a transaction PostgreSQL has already aborted, and     *)
(* does what it does with those: it rolls them back, without an error.      *)
(***************************************************************************)
EXTENDS Naturals, FiniteSets

CONSTANTS
  Member,       \* members with a user; one user each
  Session,      \* calls of the service
  Ref,          \* references Paystack hands out in initialize
  Foreign,      \* references of other Paystack payments, without metadata
  Short,        \* the references among them whose amount is below the fee
  Null

ASSUME RegistrationFeeAssumption ==
  /\ Ref \cap Foreign = {} /\ Short \subseteq Foreign
  /\ Null \notin Ref \cup Foreign \cup Member \cup Session

References == Ref \cup Foreign

VARIABLES
  paid,         \* paid[m]: has_paid_registration_fee of the member and user
  reference,    \* reference[m]: members.payment_reference
  transactions, \* rows of table transactions for the fee
  memberLock,   \* memberLock[m]: the session that has updated the member row
  gateway,      \* gateway[r]: what Paystack knows of r
  payer,        \* payer[r]: the member metadata.memberId or userId names
  issued,       \* the references whose payment page a member was given
  job,          \* job[s]: what session s does
  pc,           \* pc[s]: where it is
  seen,         \* seen[s]: the transaction that session s found
  answer        \* answer[s]: what it told the client

feeVars == <<paid, reference, transactions, memberLock, gateway, payer, issued,
             job, pc, seen, answer>>
rows == <<paid, reference, transactions>>
paystack == <<gateway, payer, issued>>

GatewayStatus == {"unknown", "open", "success", "failed", "abandoned"}
TransactionStatus == {"pending", "completed", "failed"}

(* The unique column reference: REG-FEE-<ref>, REG-FEE-VERIFY-<random>.     *)
FeeKey(s)    == <<"fee", job[s].ref>>
VerifyKey(s) == <<"verify", s>>
Row(key, s, status) ==
  [key |-> key, external |-> job[s].ref, member |-> job[s].member,
   status |-> status]

Init ==
  /\ paid = [m \in Member |-> FALSE]
  /\ reference = [m \in Member |-> Null]
  /\ transactions = {}
  /\ memberLock = [m \in Member |-> Null]
  /\ gateway \in [References -> {"unknown", "success", "failed"}]
  /\ \A r \in Ref : gateway[r] = "unknown"
  /\ \A r \in Foreign : gateway[r] # "unknown"
  /\ payer = [r \in References |-> Null]
  /\ issued = {}
  /\ job = [s \in Session |-> Null]
  /\ pc = [s \in Session |-> "idle"]
  /\ seen = [s \in Session |-> Null]
  /\ answer = [s \in Session |-> Null]

Goto(s, label) == pc' = [pc EXCEPT ![s] = label]
Finish(s, what) == Goto(s, "end") /\ answer' = [answer EXCEPT ![s] = what]

-----------------------------------------------------------------------------
(* initializeRegistrationPayment.                                           *)

StartInitialize(s) ==
  /\ pc[s] = "idle"
  /\ \E m \in Member :
       /\ job' = [job EXCEPT ![s] = [op |-> "initialize", member |-> m,
                                     ref |-> Null]]
       /\ IF paid[m] THEN Finish(s, "alreadyPaid")
          ELSE Goto(s, "create") /\ UNCHANGED answer
  /\ UNCHANGED <<rows, memberLock, paystack, seen>>

(* POST /transaction/initialize.  A disabled gateway is not asked.  An      *)
(* error is swallowed: the client gets an empty answer, and Paystack may    *)
(* know a reference nobody else knows.                                      *)
CreateAtPaystack(s) ==
  /\ pc[s] = "create"
  /\ \/ \E r \in Ref :
          /\ gateway[r] = "unknown"
          /\ gateway' = [gateway EXCEPT ![r] = "open"]
          /\ payer' = [payer EXCEPT ![r] = job[s].member]
          /\ job' = [job EXCEPT ![s].ref = r]
          /\ Goto(s, "storeReference")
          /\ UNCHANGED answer
     \/ Finish(s, "nothing") /\ UNCHANGED <<gateway, payer, job>>
  /\ UNCHANGED <<rows, memberLock, issued, seen>>

StoreReference(s) ==
  /\ pc[s] = "storeReference"
  /\ memberLock[job[s].member] = Null
  /\ reference' = [reference EXCEPT ![job[s].member] = job[s].ref]
  /\ Goto(s, "insertPending")
  /\ UNCHANGED <<paid, transactions, memberLock, paystack, job, seen, answer>>

(* The pending transaction; a failure of this insert is only logged.        *)
InsertPending(s) ==
  /\ pc[s] = "insertPending"
  /\ transactions' \in {transactions,
                        transactions \cup {Row(FeeKey(s), s, "pending")}}
  /\ issued' = issued \cup {job[s].ref}
  /\ Finish(s, "pay")
  /\ UNCHANGED <<paid, reference, memberLock, gateway, payer, job, seen>>

-----------------------------------------------------------------------------
(* verifyRegistrationPayment.                                               *)

StartVerify(s) ==
  /\ pc[s] = "idle"
  /\ \E m \in Member, r \in References :
       /\ gateway[r] # "unknown"
       /\ job' = [job EXCEPT ![s] = [op |-> "verify", member |-> m, ref |-> r]]
       /\ IF paid[m] THEN Finish(s, "success")
          ELSE Goto(s, "ask") /\ UNCHANGED answer
  /\ UNCHANGED <<rows, memberLock, paystack, seen>>

(* Mutant: any amount will do.                                              *)
AnyAmount(r) == TRUE

Sufficient(r) == r \notin Short
Mismatch(s)   == payer[job[s].ref] \notin {Null, job[s].member}
Confirmed(s)  == /\ ~ Mismatch(s) /\ gateway[job[s].ref] = "success"
                 /\ Sufficient(job[s].ref)

(* Mutant: Paystack's own word is written into the enum column.             *)
AttemptStatusRaw(s) == gateway[job[s].ref]

(* The status an attempt is recorded with when Paystack answered.           *)
AttemptStatus(s) ==
  IF Mismatch(s) \/ gateway[job[s].ref] \in {"success", "failed"}
  THEN "failed" ELSE "pending"

(* GET /transaction/verify: an answer, or none in time, which is recorded   *)
(* as pending; a disabled gateway is not asked and recorded as failed.      *)
AskPaystack(s) ==
  /\ pc[s] = "ask"
  /\ \/ Confirmed(s) /\ Goto(s, "begin") /\ UNCHANGED job
     \/ /\ ~ Confirmed(s)
        /\ job' = [job EXCEPT ![s] = [op |-> "verify", member |-> job[s].member,
                     ref |-> job[s].ref, status |-> AttemptStatus(s)]]
        /\ Goto(s, "findAttempt")
     \/ /\ \E status \in {"pending", "failed"} :
             job' = [job EXCEPT ![s] = [op |-> "verify",
                       member |-> job[s].member, ref |-> job[s].ref,
                       status |-> status]]
        /\ Goto(s, "findAttempt")
  /\ UNCHANGED <<rows, memberLock, paystack, seen, answer>>

(* recordRegistrationVerificationAttempt: a transaction of this member with *)
(* this external reference is overwritten with the status of the attempt.   *)
Found(s) == {t \in transactions :
               t.external = job[s].ref /\ t.member = job[s].member}
FindAttempt(s) ==
  /\ pc[s] = "findAttempt"
  /\ seen' \in {[seen EXCEPT ![s] = t] :
                  t \in IF Found(s) = {} THEN {Null} ELSE Found(s)}
  /\ Goto(s, "saveAttempt")
  /\ UNCHANGED <<rows, memberLock, paystack, job, answer>>

SaveAttempt(s) ==
  /\ pc[s] = "saveAttempt"
  /\ transactions' =
       IF seen[s] = Null
       THEN transactions \cup {Row(VerifyKey(s), s, job[s].status)}
       ELSE {IF t.key = seen[s].key THEN [t EXCEPT !.status = job[s].status]
             ELSE t : t \in transactions}
  /\ Finish(s, "notPaid")
  /\ UNCHANGED <<paid, reference, memberLock, paystack, job, seen>>

(* handleWebhookEvent for a registration fee: Paystack reports a success    *)
(* of a payment that names its member, as often as it likes.  The member is *)
(* metadata.memberId or, without one, the member of metadata.userId, which  *)
(* is the same: initialize writes both.  The amount is not looked at.       *)
StartWebhook(s) ==
  /\ pc[s] = "idle"
  /\ \E r \in References :
       /\ gateway[r] = "success" /\ payer[r] # Null
       /\ job' = [job EXCEPT ![s] = [op |-> "webhook", member |-> payer[r],
                                     ref |-> r]]
  /\ Goto(s, "begin")
  /\ UNCHANGED <<rows, memberLock, paystack, seen, answer>>

-----------------------------------------------------------------------------
(* handleRegistrationSuccess.                                               *)

Returned(s) == IF job[s].op = "verify" THEN "success" ELSE "received"

(* The member is read in the transaction, without a lock.                   *)
BeginSuccess(s) ==
  /\ pc[s] = "begin"
  /\ IF paid[job[s].member] THEN Finish(s, Returned(s))
     ELSE Goto(s, "updateMember") /\ UNCHANGED answer
  /\ UNCHANGED <<rows, memberLock, paystack, job, seen>>

(* The updates of members and users wait for the member's row.              *)
UpdateMember(s) ==
  /\ pc[s] = "updateMember"
  /\ memberLock[job[s].member] = Null
  /\ memberLock' = [memberLock EXCEPT ![job[s].member] = s]
  /\ Goto(s, "insertFee")
  /\ UNCHANGED <<rows, paystack, job, seen, answer>>

(* Mutant: a reference of its own for every success.                        *)
SuccessKeyFresh(s) == VerifyKey(s)

SuccessKey(s) == FeeKey(s)
Taken(key)    == \E t \in transactions : t.key = key
InsertingKey(q, key) == pc[q] = "commit" /\ SuccessKey(q) = key

(* The insert of the completed transaction waits for a session that has     *)
(* inserted the same key.  A duplicate key aborts the transaction, which    *)
(* releases its locks; the error is caught and logged.                      *)
InsertFee(s) ==
  /\ pc[s] = "insertFee"
  /\ \A q \in Session \ {s} : ~ InsertingKey(q, SuccessKey(s))
  /\ Goto(s, IF Taken(SuccessKey(s)) THEN "commitAborted" ELSE "commit")
  /\ memberLock' = IF Taken(SuccessKey(s))
                   THEN [memberLock EXCEPT ![job[s].member] = Null]
                   ELSE memberLock
  /\ UNCHANGED <<rows, paystack, job, seen, answer>>

CommitFee(s) ==
  /\ pc[s] = "commit"
  /\ paid' = [paid EXCEPT ![job[s].member] = TRUE]
  /\ reference' = [reference EXCEPT ![job[s].member] = job[s].ref]
  /\ transactions' = transactions \cup {Row(SuccessKey(s), s, "completed")}
  /\ memberLock' = [memberLock EXCEPT ![job[s].member] = Null]
  /\ Finish(s, Returned(s))
  /\ UNCHANGED <<paystack, job, seen>>

(* COMMIT of an aborted transaction: rolled back, and the code goes on as   *)
(* if it had been committed (log, notification, return).                    *)
CommitAborted(s) ==
  /\ pc[s] = "commitAborted"
  /\ Finish(s, Returned(s))
  /\ UNCHANGED <<rows, memberLock, paystack, job, seen>>

-----------------------------------------------------------------------------
(* The environment.                                                         *)

(* A member pays on the page behind an issued reference, or the attempt     *)
(* fails or is abandoned.                                                   *)
Pay(r) ==
  /\ r \in issued /\ gateway[r] = "open"
  /\ \E o \in {"success", "failed", "abandoned"} :
       gateway' = [gateway EXCEPT ![r] = o]
  /\ UNCHANGED <<rows, memberLock, payer, issued, job, pc, seen, answer>>

(* The server dies.                                                         *)
Crash ==
  /\ \E s \in Session : pc[s] \notin {"idle", "end"}
  /\ pc' = [s \in Session |-> IF pc[s] = "idle" THEN "idle" ELSE "end"]
  /\ memberLock' = [m \in Member |-> Null]
  /\ UNCHANGED <<rows, paystack, job, seen, answer>>

AllDone == (\A s \in Session : pc[s] = "end") /\ UNCHANGED feeVars

Next ==
  \/ \E s \in Session :
       \/ StartInitialize(s) \/ CreateAtPaystack(s) \/ StoreReference(s)
       \/ InsertPending(s)
       \/ StartVerify(s) \/ AskPaystack(s) \/ FindAttempt(s) \/ SaveAttempt(s)
       \/ StartWebhook(s)
       \/ BeginSuccess(s) \/ UpdateMember(s) \/ InsertFee(s)
       \/ CommitFee(s) \/ CommitAborted(s)
  \/ \E r \in Ref : Pay(r)
  \/ Crash
  \/ AllDone

Spec == Init /\ [][Next]_feeVars

-----------------------------------------------------------------------------
(* Properties.                                                              *)

(* Every variable has its type.                                             *)
FeeTypeOK ==
  /\ paid \in [Member -> BOOLEAN]
  /\ reference \in [Member -> References \cup {Null}]
  /\ \A t \in transactions :
       /\ t.external \in References /\ t.member \in Member
       /\ t.status \in TransactionStatus
  /\ memberLock \in [Member -> Session \cup {Null}]
  /\ gateway \in [References -> GatewayStatus]
  /\ payer \in [References -> Member \cup {Null}]
  /\ issued \subseteq Ref

(* A member is marked as paid only for a payment that Paystack has          *)
(* confirmed, that names this member or nobody and that covers the fee, and *)
(* which has a row REG-FEE-<ref> for this member in the books, whatever the *)
(* status of that row: a verification whose answer came late writes pending *)
(* or failed over it (verifyRegistrationPayment, handleWebhookEvent).       *)
PaidIsConfirmed ==
  \A m \in Member : paid[m] =>
    \E t \in transactions :
      /\ t.key = <<"fee", t.external>> /\ t.member = m
      /\ gateway[t.external] = "success" /\ t.external \notin Short
      /\ payer[t.external] \in {m, Null}

(* No payment is used twice: there are never more paid members than         *)
(* confirmed payments, although nothing in the code compares a reference    *)
(* with those of other members.                                             *)
PaymentUsedOnce ==
  Cardinality({m \in Member : paid[m]})
    <= Cardinality({r \in References \ Short : gateway[r] = "success"})

(* `Payment verified. Registration status updated to paid and transaction   *)
(* history saved.'                                                          *)
VerifiedIsPaid ==
  \A s \in Session : answer[s] = "success" => paid[job[s].member]
=============================================================================
