-------------------------- MODULE ParallexPayments --------------------------
(***************************************************************************)
(* ParallexPaymentService: payments that are opened at Parallex, virtual    *)
(* accounts, payouts, and the reports (webhooks) Parallex sends of them.    *)
(*                                                                          *)
(* Every operation calls Parallex first and writes to the database after-   *)
(* wards, or the other way round; either may fail, the answer of Parallex   *)
(* may be lost, and the server may die in between.  Parallex may send a     *)
(* report any number of times, in any order.  A slot of Worker handles one  *)
(* request or report after the other.                                       *)
(***************************************************************************)
EXTENDS Naturals, Sequences

CONSTANTS
  Worker,        \* slots for requests and reports handled at the same time
  Owner,         \* users and organisations
  Number,        \* account numbers Parallex may generate
  PaymentRef,    \* references of payments opened at Parallex
  PayoutRef,     \* references initiateTransfer makes up
  Deposit,       \* deposits into virtual accounts: [reference, number]
  Absent         \* no row, no owner

(* The service's references begin with NGO- and TRF-, Parallex's are unique.*)
ASSUME ParallexAssumption ==
  /\ Deposit \subseteq [reference : {d.reference : d \in Deposit}, number : Number]
  /\ Absent \notin Owner \cup {"pending", "completed", "failed"}
  /\ PaymentRef \cap PayoutRef = {}
  /\ \A d \in Deposit : d.reference \notin PaymentRef \cup PayoutRef

VARIABLES
  enabled,       \* PARALLEX_ENABLED, read anew by every request
  records,       \* records[r]: status of the transaction r, Absent if none
  findable,      \* the payments whose external_reference a report will carry
  opened,        \* the payments that exist at Parallex
  named,         \* the payments whose metadata names the user
  vaRows,        \* rows of virtual_accounts with gateway parallex
  generated,     \* generated[n]: for whom Parallex has generated number n
  answered,      \* answered[o]: the numbers o was given as its account
  sent,          \* the payouts Parallex has executed
  task,          \* task[w]: what slot w does
  step           \* step[w]: where it is

parallexVars == <<enabled, records, findable, opened, named, vaRows, generated,
                  answered, sent, task, step>>
outside == <<opened, named, generated, sent>>

Reference == PaymentRef \cup PayoutRef \cup {d.reference : d \in Deposit}

(* What the endpoints of the controller, or a report, may bring; the other  *)
(* endpoints only pass a question on to Parallex.                           *)
NoTask == [kind |-> "none"]
Tasks ==
  {NoTask}
    \cup [kind : {"payment"}, reference : PaymentRef]
    \cup [kind : {"payout"}, reference : PayoutRef]
    \cup [kind : {"account"}, owner : Owner]
    \cup [kind : {"account"}, owner : Owner, number : Number]
    \cup [kind : {"account"}, owner : Owner, number : Number, row : Nat]
    \cup [kind : {"report"}, reference : PaymentRef,
          verdict : {"completed", "failed"}]
    \cup [kind : {"deposit"}, deposit : Deposit]

ParallexInit ==
  /\ enabled \in BOOLEAN
  /\ records = [r \in Reference |-> Absent]
  /\ findable = {} /\ opened = {} /\ named = {} /\ sent = {}
  /\ vaRows = <<>>
  /\ generated = [n \in Number |-> Absent]
  /\ answered = [o \in Owner |-> {}]
  /\ task = [w \in Worker |-> NoTask]
  /\ step = [w \in Worker |-> "free"]

Take(w, t, label) ==
  /\ step[w] = "free"
  /\ task' = [task EXCEPT ![w] = t]
  /\ step' = [step EXCEPT ![w] = label]
GoOn(w, t, label) ==
  /\ task' = [task EXCEPT ![w] = t]
  /\ step' = [step EXCEPT ![w] = label]
Leave(w) == GoOn(w, NoTask, "free")

(* The environment is set anew when the server is started.                  *)
Switch ==
  /\ \A w \in Worker : step[w] = "free"
  /\ enabled' = ~ enabled
  /\ UNCHANGED <<records, findable, vaRows, answered, task, step, outside>>

-----------------------------------------------------------------------------
(* initializePayment.  The controllers look for the user under req.user.sub *)
(* or .id, and the JWT strategy sets neither: TypeORM leaves out the empty  *)
(* condition and finds some user.  The metadata name a user only if the     *)
(* client has put one there.                                                *)
InitializePayment(w) ==
  /\ enabled
  /\ \E r \in PaymentRef \ opened :
       /\ \/ /\ opened' = opened \cup {r}
             /\ named' \in {named, named \cup {r}}
             /\ \/ Take(w, [kind |-> "payment", reference |-> r], "savePending")
                \/ Take(w, NoTask, "free")          \* the answer is lost
          \/ Take(w, NoTask, "free") /\ UNCHANGED <<opened, named>>
  /\ UNCHANGED <<enabled, records, findable, vaRows, answered,
                 generated, sent>>

(* external_reference is the id in Parallex's answer, or the reference: a   *)
(* report is looked up by the reference it carries, if it carries one.      *)
SavePending(w) ==
  LET r == task[w].reference
  IN /\ step[w] = "savePending"
     /\ \/ /\ records' = [records EXCEPT ![r] = "pending"]
           /\ findable' \in {findable, findable \cup {r}}
        \/ UNCHANGED <<records, findable>>          \* the insert fails
     /\ Leave(w)
     /\ UNCHANGED <<enabled, vaRows, answered, outside>>

-----------------------------------------------------------------------------
(* createVirtualAccount, createOrganisationVirtualAccount and provision.    *)

RowsOf(o) == {i \in DOMAIN vaRows : vaRows[i].owner = o}

(* provision (with Parallex enabled) refuses an owner that has an account;  *)
(* the others do not.  registerCustomer's errors are only logged.           *)
CreateAccount(w) ==
  /\ enabled
  /\ \E o \in Owner, provision \in BOOLEAN :
       /\ provision => RowsOf(o) = {}
       /\ Take(w, [kind |-> "account", owner |-> o], "generate")
  /\ UNCHANGED <<enabled, records, findable, vaRows, answered, outside>>

GenerateNumber(w) ==
  LET o == task[w].owner
  IN /\ step[w] = "generate"
     /\ \/ \E n \in Number :
             /\ generated[n] = Absent
             /\ generated' = [generated EXCEPT ![n] = o]
             /\ \/ GoOn(w, [kind |-> "account", owner |-> o, number |-> n],
                        "findAccount")
                \/ Leave(w)                         \* the answer is lost
        \/ Leave(w) /\ UNCHANGED generated
     /\ UNCHANGED <<enabled, records, findable, vaRows, answered,
                    opened, named, sent>>

FindAccount(w) ==
  /\ step[w] = "findAccount"
  /\ \E i \in IF RowsOf(task[w].owner) = {} THEN {0} ELSE RowsOf(task[w].owner) :
       GoOn(w, [kind |-> "account", owner |-> task[w].owner,
                number |-> task[w].number, row |-> i], "saveAccount")
  /\ UNCHANGED <<enabled, records, findable, vaRows, answered, outside>>

(* Mutant: the row that is overwritten is not looked for by its owner.      *)
SaveAccountFirstRow(w) ==
  LET n == task[w].number   o == task[w].owner
  IN /\ step[w] = "saveAccount"
     /\ vaRows' = IF vaRows = <<>> THEN <<[owner |-> o, number |-> n]>>
                  ELSE [vaRows EXCEPT ![1].number = n]
     /\ answered' = [answered EXCEPT ![o] = @ \cup {n}]
     /\ Leave(w)
     /\ UNCHANGED <<enabled, records, findable, outside>>

(* A new row, or a new number in the row there was: deposits to the number  *)
(* it had before are then deposits to an unknown account.                   *)
SaveAccount(w) ==
  LET n == task[w].number   o == task[w].owner   i == task[w].row
  IN /\ step[w] = "saveAccount"
     /\ \/ /\ vaRows' = IF i = 0 THEN Append(vaRows, [owner |-> o, number |-> n])
                        ELSE [vaRows EXCEPT ![i].number = n]
           /\ answered' = [answered EXCEPT ![o] = @ \cup {n}]
        \/ UNCHANGED <<vaRows, answered>>           \* the save fails
     /\ Leave(w)
     /\ UNCHANGED <<enabled, records, findable, outside>>

-----------------------------------------------------------------------------
(* initiateTransfer: money leaves an account at Parallex, and a completed   *)
(* withdrawal is recorded; no wallet is touched.                            *)

(* Mutant: the withdrawal is recorded before Parallex is asked.             *)
InitiateTransferEarly(w) ==
  /\ enabled /\ vaRows # <<>>
  /\ \E p \in PayoutRef \ sent :
       /\ records' = [records EXCEPT ![p] = "completed"]
       /\ sent' \in {sent, sent \cup {p}}
       /\ Take(w, NoTask, "free")
  /\ UNCHANGED <<enabled, findable, vaRows, answered, opened, named,
                 generated>>

InitiateTransfer(w) ==
  /\ enabled /\ vaRows # <<>>
  /\ \E p \in PayoutRef \ sent :
       \/ /\ sent' = sent \cup {p}
          /\ \/ Take(w, [kind |-> "payout", reference |-> p], "savePayout")
             \/ Take(w, NoTask, "free")             \* the answer is lost
       \/ Take(w, NoTask, "free") /\ UNCHANGED sent
  /\ UNCHANGED <<enabled, records, findable, vaRows, answered,
                 opened, named, generated>>

SavePayout(w) ==
  /\ step[w] = "savePayout"
  /\ \/ records' = [records EXCEPT ![task[w].reference] = "completed"]
     \/ UNCHANGED records                           \* the insert fails
  /\ Leave(w)
  /\ UNCHANGED <<enabled, findable, vaRows, answered, outside>>

-----------------------------------------------------------------------------
(* handleWebhook: reports of payments and of deposits.                      *)

(* handlePaymentSuccess and handlePaymentFailure do nothing without a user  *)
(* in the metadata.                                                         *)
ReportPayment(w) ==
  /\ \E r \in opened, verdict \in {"completed", "failed"} :
       IF r \in named
       THEN Take(w, [kind |-> "report", reference |-> r, verdict |-> verdict],
                 "findPayment")
       ELSE Take(w, NoTask, "free")
  /\ UNCHANGED <<enabled, records, findable, vaRows, answered, outside>>

FindPayment(w) ==
  /\ step[w] = "findPayment"
  /\ IF task[w].reference \in findable THEN GoOn(w, task[w], "savePayment")
     ELSE Leave(w)
  /\ UNCHANGED <<enabled, records, findable, vaRows, answered, outside>>

(* The later save wins; then the user is notified, errors are caught.       *)
SavePayment(w) ==
  /\ step[w] = "savePayment"
  /\ records' = [records EXCEPT ![task[w].reference] = task[w].verdict]
  /\ Leave(w)
  /\ UNCHANGED <<enabled, findable, vaRows, answered, outside>>

(* Parallex reports deposits into accounts it has generated.                *)
ReportDeposit(w) ==
  /\ \E d \in Deposit :
       /\ generated[d.number] # Absent
       /\ Take(w, [kind |-> "deposit", deposit |-> d], "findNumber")
  /\ UNCHANGED <<enabled, records, findable, vaRows, answered, outside>>

Known(n) == \E i \in DOMAIN vaRows : vaRows[i].number = n

(* A deposit into an unknown account, or one that is booked already, is     *)
(* answered as processed.                                                   *)
FindNumber(w) ==
  /\ step[w] = "findNumber"
  /\ IF Known(task[w].deposit.number) THEN GoOn(w, task[w], "checkBooked")
     ELSE Leave(w)
  /\ UNCHANGED <<enabled, records, findable, vaRows, answered, outside>>

CheckBooked(w) ==
  /\ step[w] = "checkBooked"
  /\ IF records[task[w].deposit.reference] = Absent
     THEN GoOn(w, task[w], "book") ELSE Leave(w)
  /\ UNCHANGED <<enabled, records, findable, vaRows, answered, outside>>

(* The transaction is saved, on a connection of its own, under its unique   *)
(* reference.                                                               *)
Book(w) ==
  LET r == task[w].deposit.reference
  IN /\ step[w] = "book"
     /\ IF records[r] = Absent
        THEN /\ records' = [records EXCEPT ![r] = "completed"]
             /\ GoOn(w, task[w], "creditWallet")
        ELSE Leave(w) /\ UNCHANGED records
     /\ UNCHANGED <<enabled, findable, vaRows, answered, outside>>

(* Wallet, account balance, savings, a second transaction under the same    *)
(* unique reference, ledger and audit, in one database transaction.  The    *)
(* reference is in the table since Book, and no row is ever deleted: the    *)
(* second insert fails, all of it is rolled back, and Parallex gets an      *)
(* error.  Sent again the deposit is found to be booked: it is not credited.*)
CreditWallet(w) ==
  /\ step[w] = "creditWallet"
  /\ Leave(w)
  /\ UNCHANGED <<enabled, records, findable, vaRows, answered, outside>>

-----------------------------------------------------------------------------
ParallexCrash ==
  /\ \E w \in Worker : step[w] # "free"
  /\ task' = [w \in Worker |-> NoTask]
  /\ step' = [w \in Worker |-> "free"]
  /\ UNCHANGED <<enabled, records, findable, vaRows, answered, outside>>

ParallexNext ==
  \/ \E w \in Worker :
       \/ InitializePayment(w) \/ SavePending(w)
       \/ CreateAccount(w) \/ GenerateNumber(w) \/ FindAccount(w) \/ SaveAccount(w)
       \/ InitiateTransfer(w) \/ SavePayout(w)
       \/ ReportPayment(w) \/ FindPayment(w) \/ SavePayment(w)
       \/ ReportDeposit(w) \/ FindNumber(w) \/ CheckBooked(w) \/ Book(w)
       \/ CreditWallet(w)
  \/ Switch
  \/ ParallexCrash

ParallexSpec == ParallexInit /\ [][ParallexNext]_parallexVars

-----------------------------------------------------------------------------
(* Properties.                                                              *)

(* Every variable has its type, and what is in progress is about rows and   *)
(* payments there are.                                                      *)
ParallexTypeOK ==
  /\ records \in [Reference -> {Absent, "pending", "completed", "failed"}]
  /\ findable \cup named \subseteq opened /\ opened \subseteq PaymentRef
  /\ sent \subseteq PayoutRef
  /\ vaRows \in Seq([owner : Owner, number : Number])
  /\ generated \in [Number -> Owner \cup {Absent}]
  /\ \A o \in Owner : answered[o] \subseteq {n \in Number : generated[n] = o}
  /\ task \in [Worker -> Tasks]
  /\ \A w \in Worker :
       step[w] = "savePayment" => records[task[w].reference] # Absent

(* A withdrawal is in the books only if the money has left, and a payment   *)
(* is there only if it was opened at Parallex, wherever the server dies     *)
(* (initiateTransfer and initializePayment ask before they write).          *)
RecordsHappened ==
  /\ \A p \in PayoutRef : records[p] # Absent => p \in sent
  /\ \A r \in PaymentRef : records[r] # Absent => r \in opened

(* However account creations overlap, fail or are repeated: a number stands *)
(* in one row at most, in a row of the owner it was generated for, and who  *)
(* was ever given a number can still be paid under one of those it was      *)
(* given.                                                                   *)
NumbersReachOwners ==
  /\ \A i, j \in DOMAIN vaRows : vaRows[i].number = vaRows[j].number => i = j
  /\ \A i \in DOMAIN vaRows : generated[vaRows[i].number] = vaRows[i].owner
  /\ \A o \in Owner : answered[o] # {} =>
       \E i \in RowsOf(o) : vaRows[i].number \in answered[o]
=============================================================================
