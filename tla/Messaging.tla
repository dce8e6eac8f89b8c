------------------------------ MODULE Messaging ------------------------------
(***************************************************************************)
(* Messages to users: NotificationService.trigger, the queue of EmailService*)
(* with its worker and the administrator's retry, and the text messages of  *)
(* SmsService.                                                              *)
(*                                                                          *)
(* A mail is queued as a row; every half minute a run of the worker takes at*)
(* most ten pending rows and sends them one by one.  A run does not wait    *)
(* for the one before it, and neither a run nor a retry locks the row: each *)
(* loads it, works on the copy and saves the copy.  A text message is sent  *)
(* by the call that asks for it and is never sent again.                    *)
(***************************************************************************)
EXTENDS Naturals, FiniteSets

CONSTANTS
  Message,     \* messages: a channel of a call of trigger, or a queueEmail
  Run,         \* runs of the worker that may overlap
  Batches,     \* how many rows one run may take: the code's 10 made small
  MaxFaults,   \* bound: retries by the administrator and restarts of the server
  MaxTries     \* bound: the counters of attempts stop here

ASSUME MessagingAssumption ==
  /\ Batches \subseteq Nat \ {0}
  /\ MaxTries \in Nat \ {0}
  /\ MaxFaults \in Nat

VARIABLES
  at,        \* at[e]: where the call for message e is
  mail,      \* table email_logs: mail[e] has a status and attempts
  sms,       \* table sms_logs: sms[e] is the status of the text message
  run,       \* run[r]: the rows it has taken, the one it is at, and its copy
  desk,      \* the administrator's retry: the mail it has loaded, if any
  batch,     \* how many rows one run takes, chosen once
  faults,    \* how many retries and restarts there have been
  tried,     \* history variable: how often mail e was handed to the server
  taken      \* history variable: the <<e, channel>> that somebody took; channel
             \* "simulated" is that of a text message nobody was asked to send

messagingVars == <<at, mail, sms, run, desk, batch, faults, tried, taken>>
messageRows == <<mail, sms>>
counters == <<batch, faults>>

NoMail  == [status |-> "none", attempts |-> 0]
Resting == [todo |-> {}, step |-> "idle", mail |-> "none", attempts |-> 0,
            verdict |-> "failed"]
NoRetry == "none"

MessagingInit ==
  /\ at = [e \in Message |-> "new"]
  /\ mail = [e \in Message |-> NoMail]
  /\ sms = [e \in Message |-> "none"]
  /\ run = [r \in Run |-> Resting]
  /\ desk = NoRetry
  /\ batch \in Batches /\ faults = 0
  /\ tried = [e \in Message |-> 0]
  /\ taken = {}

OneMore(n) == IF n < MaxTries THEN n + 1 ELSE n
Stand(e, place) == at' = [at EXCEPT ![e] = place]

-----------------------------------------------------------------------------
(* The call: trigger with its channels, or queueEmail alone.                *)

(* The user exists and has not switched the channel off.  `push' only logs  *)
(* and `in_app' is no more than a row that nothing here reads.              *)
Trigger(e) ==
  /\ at[e] = "new"
  /\ \E channel \in {"email", "sms"} : Stand(e, channel)
  /\ UNCHANGED <<messageRows, run, desk, counters, tried, taken>>

(* queueEmail, by trigger or by a caller of its own.                        *)
QueueEmail(e) ==
  /\ at[e] \in {"new", "email"}
  /\ mail' = [mail EXCEPT ![e] = [status |-> "pending", attempts |-> 0]]
  /\ Stand(e, "done")
  /\ UNCHANGED <<sms, run, desk, counters, tried, taken>>

(* sendSms: the row, the provider, the row again.                           *)
LogSms(e) ==
  /\ at[e] = "sms"
  /\ sms' = [sms EXCEPT ![e] = "pending"]
  /\ Stand(e, "provider")
  /\ UNCHANGED <<mail, run, desk, counters, tried, taken>>

(* Any answer that is not an HTTP error counts as sent, whatever its body   *)
(* says.                                                                    *)
AskProvider(e) ==
  /\ at[e] = "provider"
  /\ \/ taken' = taken \cup {<<e, "sms">>} /\ Stand(e, "sms sent")
     \/ Stand(e, "sms failed") /\ UNCHANGED taken
  /\ UNCHANGED <<messageRows, run, desk, counters, tried>>

(* Where no provider could be set up, sending is simulated.                 *)
SimulateSms(e) ==
  /\ at[e] = "provider"
  /\ taken' = taken \cup {<<e, "simulated">>}
  /\ Stand(e, "sms sent")
  /\ UNCHANGED <<messageRows, run, desk, counters, tried>>

SaveSms(e) ==
  /\ at[e] \in {"sms sent", "sms failed"}
  /\ sms' = [sms EXCEPT ![e] = IF at[e] = "sms sent" THEN "sent" ELSE "failed"]
  /\ Stand(e, "done")
  /\ UNCHANGED <<mail, run, desk, counters, tried, taken>>

-----------------------------------------------------------------------------
(* processQueue and sendEmail.                                              *)

Pending == {e \in Message : mail[e].status = "pending"}

(* Any batch of the pending rows: the query has no order.                   *)
ProcessQueue(r) ==
  /\ run[r].step = "idle"
  /\ \E rows \in SUBSET Pending :
       /\ rows # {}
       /\ Cardinality(rows) <= batch
       /\ rows = Pending \/ Cardinality(rows) = batch
       /\ run' = [run EXCEPT ![r].todo = rows, ![r].step = "next"]
  /\ UNCHANGED <<at, messageRows, desk, counters, tried, taken>>

(* The row is read again, its status is not.                                *)
LoadMail(r) ==
  /\ run[r].step = "next"
  /\ \E e \in run[r].todo :
       run' = [run EXCEPT ![r].todo = @ \ {e}, ![r].mail = e, ![r].step = "send",
                          ![r].attempts = OneMore(mail[e].attempts)]
  /\ UNCHANGED <<at, messageRows, desk, counters, tried, taken>>

(* Mutant: an error of the mail server ends the run.                        *)
SendMailUncaught(r) ==
  LET e == run[r].mail IN
  /\ run[r].step = "send"
  /\ tried' = [tried EXCEPT ![e] = OneMore(@)]
  /\ \/ /\ run' = [run EXCEPT ![r].step = "save", ![r].verdict = "sent"]
        /\ taken' = taken \cup {<<e, "email">>}
     \/ run' = [run EXCEPT ![r] = Resting] /\ UNCHANGED taken
  /\ UNCHANGED <<at, messageRows, desk, counters>>

(* The mail server takes the mail, or does not: either way it answers.      *)
SendMail(r) ==
  LET e == run[r].mail IN
  /\ run[r].step = "send"
  /\ tried' = [tried EXCEPT ![e] = OneMore(@)]
  /\ \/ /\ run' = [run EXCEPT ![r].step = "save", ![r].verdict = "sent"]
        /\ taken' = taken \cup {<<e, "email">>}
     \/ /\ run' = [run EXCEPT ![r].step = "save", ![r].verdict = "failed"]
        /\ UNCHANGED taken
  /\ UNCHANGED <<at, messageRows, desk, counters>>

(* Mutant: the attempt counts twice.                                        *)
SettledTwice(r) == [status   |-> run[r].verdict,
                    attempts |-> OneMore(run[r].attempts)]

Outcome(r) == [status |-> run[r].verdict, attempts |-> run[r].attempts]

SaveMail(r) ==
  /\ run[r].step = "save"
  /\ mail' = [mail EXCEPT ![run[r].mail] = Outcome(r)]
  /\ run' = [run EXCEPT ![r] = IF @.todo = {} THEN Resting
                               ELSE [Resting EXCEPT !.todo = run[r].todo,
                                                    !.step = "next"]]
  /\ UNCHANGED <<at, sms, desk, counters, tried, taken>>

-----------------------------------------------------------------------------
(* POST /email/retry/:id, of a mail in any status.                          *)
LoadRetry(e) ==
  /\ desk = NoRetry /\ faults < MaxFaults
  /\ mail[e] # NoMail
  /\ desk' = e
  /\ faults' = faults + 1
  /\ UNCHANGED <<at, messageRows, run, batch, tried, taken>>

SaveRetry ==
  /\ desk # NoRetry
  /\ mail' = [mail EXCEPT ![desk] = [status |-> "pending", attempts |-> 0]]
  /\ desk' = NoRetry
  /\ UNCHANGED <<at, sms, run, counters, tried, taken>>

(* The server dies: calls, runs and the retry are gone, the rows stay.      *)
MessagingCrash ==
  /\ faults < MaxFaults
  /\ faults' = faults + 1
  /\ at' = [e \in Message |-> IF at[e] = "new" THEN "new" ELSE "gone"]
  /\ run' = [r \in Run |-> Resting]
  /\ desk' = NoRetry
  /\ UNCHANGED <<messageRows, batch, tried, taken>>

RunStep(r) == LoadMail(r) \/ SendMail(r) \/ SaveMail(r)

AllHandled ==
  /\ \A e \in Message : at[e] \in {"done", "gone"}
  /\ Pending = {} /\ desk = NoRetry
  /\ \A r \in Run : run[r].step = "idle"
  /\ UNCHANGED messagingVars

MessagingNext ==
  \/ \E e \in Message :
       \/ Trigger(e) \/ QueueEmail(e)
       \/ LogSms(e) \/ AskProvider(e) \/ SimulateSms(e) \/ SaveSms(e)
       \/ LoadRetry(e)
  \/ \E r \in Run : ProcessQueue(r) \/ RunStep(r)
  \/ SaveRetry
  \/ MessagingCrash
  \/ AllHandled

(* The timer starts a run every half minute, and a run that has begun goes  *)
(* on: the mail server answers or its client gives up.  Nothing makes an    *)
(* administrator retry or a caller call.                                    *)
MessagingFairness ==
  \A r \in Run : WF_messagingVars(ProcessQueue(r)) /\ WF_messagingVars(RunStep(r))

MessagingSpec ==
  MessagingInit /\ [][MessagingNext]_messagingVars /\ MessagingFairness

-----------------------------------------------------------------------------
(* Properties.                                                              *)

(* A mail's row that says `sent' tells the truth: the mail server took the  *)
(* mail at least once; and it never claims more attempts than were made.    *)
(* Overlapping runs that raise and save copies of one row, a retry that     *)
(* saves over a run and a restart do not make it say otherwise (sendEmail,  *)
(* retryEmail).  The row of a text message says less: a provider answered   *)
(* without an HTTP error, or there was none and nobody was asked (sendSms). *)
SmsTaken(e) == \E channel \in {"sms", "simulated"} : <<e, channel>> \in taken
RowsTellTruth ==
  \A e \in Message :
    /\ mail[e].status = "sent" => <<e, "email">> \in taken
    /\ sms[e] = "sent" => SmsTaken(e)
    /\ mail[e].attempts <= tried[e]

(* Every queued mail is tried: no restart, no failure of another mail of    *)
(* the same run and no retry leaves a row pending for ever (processQueue).  *)
QueuedMailIsTried ==
  \A e \in Message : mail[e].status = "pending" ~> mail[e].status # "pending"
=============================================================================
