----------------------- MODULE ParallexPaymentsProofs -----------------------
(***************************************************************************)
(* Proofs about ParallexPayments, for any number of requests, owners,       *)
(* payments and deposits, and about the run it shares with other ways money *)
(* comes in.                                                                *)
(***************************************************************************)
EXTENDS MCRegistrationFee, RegistrationFeeProofs, SequenceTheorems

-----------------------------------------------------------------------------
(* The invariant.                                                           *)

Status   == {"pending", "completed", "failed"}
Verdict  == {"completed", "failed"}
VaRow    == [owner : Owner, number : Number]
Size     == Len(vaRows)
Holding  == {"findAccount", "saveAccount"}
Booking  == {"findNumber", "checkBooked", "book", "creditWallet"}

(* What a slot is about, by the step it is at; what there is outside.       *)
TaskAmong(t, at, there, found, gone, size) ==
  \/ at = "free" /\ t = NoTask
  \/ at = "savePending" /\ t \in [kind : {"payment"}, reference : there]
  \/ at = "savePayout" /\ t \in [kind : {"payout"}, reference : gone]
  \/ at = "generate" /\ t \in [kind : {"account"}, owner : Owner]
  \/ at = "findAccount" /\
       t \in [kind : {"account"}, owner : Owner, number : Number]
  \/ at = "saveAccount" /\
       t \in [kind : {"account"}, owner : Owner, number : Number, row : 0..size]
  \/ at = "findPayment" /\
       t \in [kind : {"report"}, reference : there, verdict : Verdict]
  \/ at = "savePayment" /\
       t \in [kind : {"report"}, reference : found, verdict : Verdict]
  \/ at \in Booking /\ t \in [kind : {"deposit"}, deposit : Deposit]
TaskOK(t, at) == TaskAmong(t, at, opened, findable, sent, Size)
TaskInv ==
  /\ task = [w \in Worker |-> task[w]]
  /\ step = [w \in Worker |-> step[w]]
  /\ answered = [o \in Owner |-> answered[o]]
  /\ \A w \in Worker : TaskOK(task[w], step[w])

(* A report finds only what is recorded.                                    *)
FindableInv == \A r \in findable : records[r] # Absent

(* NumbersReachOwners is not inductive alone: a number that is on its way   *)
(* into a row is the owner's, in no row, and on no other way.               *)
Fresh(t, at) ==
  at \in Holding =>
    /\ generated[t.number] = t.owner
    /\ \A i \in 1..Size : vaRows[i].number # t.number
    /\ at = "saveAccount" /\ t.row # 0 => vaRows[t.row].owner = t.owner
HoldingInv ==
  /\ \A w \in Worker : Fresh(task[w], step[w])
  /\ \A v, w \in Worker :
       step[v] \in Holding /\ step[w] \in Holding
         /\ task[v].number = task[w].number => v = w

ParallexInv == /\ ParallexTypeOK /\ TaskInv /\ FindableInv /\ HoldingInv
               /\ RecordsHappened /\ NumbersReachOwners

(* The table as a sequence.                                                 *)
LEMMA TableFacts ==
  ASSUME ParallexTypeOK
  PROVE  /\ vaRows \in Seq(VaRow) /\ Size \in Nat /\ DOMAIN vaRows = 1..Size
         /\ \A i \in 1..Size : vaRows[i] \in VaRow
         /\ \A o \in Owner : RowsOf(o) = {i \in 1..Size : vaRows[i].owner = o}
<1>1. vaRows \in Seq(VaRow)
  BY DEF ParallexTypeOK, VaRow
<1>2. Size \in Nat /\ DOMAIN vaRows = 1..Size
  BY <1>1, LenProperties DEF Size
<1>3. \A i \in 1..Size : vaRows[i] \in VaRow
  BY <1>1, <1>2, ElementOfSeq DEF Size
<1> QED
  BY <1>1, <1>2, <1>3 DEF RowsOf

(* What a slot is about is a task.                                          *)
LEMMA TaskTypes ==
  ASSUME NEW there \in SUBSET PaymentRef, NEW found \in SUBSET there,
         NEW gone \in SUBSET PayoutRef, NEW size \in Nat,
         NEW t, NEW at, TaskAmong(t, at, there, found, gone, size)
  PROVE  t \in Tasks
<1> USE DEF TaskAmong, Tasks, Booking, Verdict
<1>1. CASE at = "free"
  BY <1>1
<1>2. CASE at = "savePending"
  BY <1>2
<1>3. CASE at = "savePayout"
  BY <1>3
<1>4. CASE at = "generate"
  BY <1>4
<1>5. CASE at = "findAccount"
  BY <1>5
<1>6. CASE at = "saveAccount"
  BY <1>6
<1>7. CASE at \in {"findPayment", "savePayment"}
  BY <1>7
<1>8. CASE at \in Booking
  BY <1>8
<1> QED
  BY <1>1, <1>2, <1>3, <1>4, <1>5, <1>6, <1>7, <1>8

(* What is outside only grows: a slot stays about what it is about.         *)
LEMMA TaskStays ==
  ASSUME NEW there, NEW found, NEW gone, NEW size \in Nat,
         NEW there2, NEW found2, NEW gone2, NEW size2 \in Nat,
         there \subseteq there2, found \subseteq found2, gone \subseteq gone2,
         size <= size2,
         NEW t, NEW at, TaskAmong(t, at, there, found, gone, size)
  PROVE  TaskAmong(t, at, there2, found2, gone2, size2)
BY DEF TaskAmong, Booking, Verdict

(* The initial states.                                                      *)
LEMMA ParallexInitially == ParallexInit => ParallexInv
<1> SUFFICES ASSUME ParallexInit PROVE ParallexInv
  OBVIOUS
<1> USE ParallexAssumption DEF ParallexInit
<1>1. vaRows \in Seq(VaRow) /\ Size = 0
  BY EmptySeq DEF Size
<1>2. ParallexTypeOK
  <2>1. vaRows \in Seq([owner : Owner, number : Number])
    BY <1>1 DEF VaRow
  <2>2. task \in [Worker -> Tasks]
    BY DEF Tasks
  <2> QED
    BY <2>1, <2>2 DEF ParallexTypeOK
<1>3. TaskInv
  BY DEF TaskInv, TaskOK, TaskAmong
<1>4. FindableInv /\ HoldingInv
  BY DEF FindableInv, HoldingInv, Fresh, Holding
<1>5. RecordsHappened
  BY DEF RecordsHappened, Reference
<1>6. NumbersReachOwners
  BY <1>1 DEF NumbersReachOwners, RowsOf, Size
<1> QED
  BY <1>2, <1>3, <1>4, <1>5, <1>6 DEF ParallexInv

-----------------------------------------------------------------------------
(* A step of one slot that leaves the accounts alone: what happens outside  *)
(* only grows, and it is enough to look at that slot.                       *)
LEMMA MovingStep ==
  ASSUME ParallexInv, NEW w \in Worker, NEW t, NEW label, GoOn(w, t, label),
         UNCHANGED <<vaRows, answered>>,
         records' \in [Reference -> Status \cup {Absent}],
         \A r \in Reference : records[r] # Absent => records'[r] # Absent,
         opened \subseteq opened', opened' \subseteq PaymentRef,
         sent \subseteq sent', sent' \subseteq PayoutRef,
         named' \subseteq opened',
         findable \subseteq findable', findable' \subseteq opened',
         generated' \in [Number -> Owner \cup {Absent}],
         \A n \in Number : generated[n] # Absent => generated'[n] = generated[n],
         TaskOK(t, label)', Fresh(t, label)',
         label \in Holding => \A v \in Worker \ {w} :
           step[v] \in Holding => task[v].number # t.number,
         FindableInv', RecordsHappened'
  PROVE  ParallexInv'
<1> USE DEF ParallexInv
<1>0. ParallexTypeOK /\ Size \in Nat /\ Size' = Size
  BY TableFacts DEF Size
<1>1. /\ task'[w] = t /\ step'[w] = label
      /\ \A v \in Worker \ {w} : task'[v] = task[v] /\ step'[v] = step[v]
      /\ task' = [v \in Worker |-> task'[v]]
      /\ step' = [v \in Worker |-> step'[v]]
  BY DEF TaskInv, GoOn
<1>2. ASSUME NEW v \in Worker \ {w} PROVE TaskOK(task[v], step[v])'
  <2>1. TaskOK(task[v], step[v])
    BY DEF TaskInv
  <2> QED
    BY <1>0, <1>1, <2>1, TaskStays DEF TaskOK
<1>3. TaskInv'
  BY <1>1, <1>2 DEF TaskInv
<1>4. \A v \in Worker : task'[v] \in Tasks
  <2>1. \A v \in Worker :
          TaskAmong(task'[v], step'[v], opened', findable', sent', Size')
    BY <1>3 DEF TaskInv, TaskOK
  <2> QED
    BY <1>0, <2>1, TaskTypes
<1>5. \A v \in Worker :
        step'[v] = "savePayment" => records'[task'[v].reference] # Absent
  <2>1. ASSUME NEW v \in Worker, step'[v] = "savePayment"
        PROVE  task'[v].reference \in findable'
    BY <1>3, <2>1 DEF TaskInv, TaskOK, TaskAmong, Booking
  <2> QED
    BY <2>1 DEF FindableInv
<1>6. \A o \in Owner : answered'[o] \subseteq {n \in Number : generated'[n] = o}
  BY ParallexAssumption DEF ParallexTypeOK
<1>7. ParallexTypeOK'
  BY <1>1, <1>4, <1>5, <1>6 DEF ParallexTypeOK, Status
<1>8. \A i \in 1..Size : generated'[vaRows[i].number] = vaRows[i].owner
  <2>1. ASSUME NEW i \in 1..Size
        PROVE  /\ vaRows[i].number \in Number /\ vaRows[i].owner \in Owner
               /\ generated[vaRows[i].number] = vaRows[i].owner
    BY <1>0, <2>1, TableFacts DEF NumbersReachOwners, VaRow
  <2> QED
    BY <2>1, ParallexAssumption
<1>9. NumbersReachOwners'
  BY <1>0, <1>8, TableFacts DEF NumbersReachOwners, RowsOf
<1>10. HoldingInv'
  <2>1. ASSUME NEW v \in Worker \ {w} PROVE Fresh(task[v], step[v])'
    <3>1. Fresh(task[v], step[v]) /\ TaskOK(task[v], step[v])
      BY DEF HoldingInv, TaskInv
    <3>2. step[v] \in Holding => task[v].number \in Number /\ task[v].owner \in Owner
      BY <3>1 DEF TaskOK, TaskAmong, Holding, Booking
    <3> QED
      BY <1>0, <1>1, <3>1, <3>2, ParallexAssumption DEF Fresh
  <2> QED
    BY <1>1, <2>1 DEF HoldingInv
<1> QED
  BY <1>3, <1>7, <1>9, <1>10

(* A step that changes nothing but what its slot is about.                  *)
LEMMA QuietStep ==
  ASSUME ParallexInv, NEW w \in Worker, NEW t, NEW label, GoOn(w, t, label),
         UNCHANGED <<records, findable, vaRows, answered, outside>>,
         TaskOK(t, label), Fresh(t, label),
         label \in Holding => \A v \in Worker \ {w} :
           step[v] \in Holding => task[v].number # t.number
  PROVE  ParallexInv'
<1> USE DEF ParallexInv, outside
<1>1. TaskOK(t, label)' /\ Fresh(t, label)'
  BY DEF TaskOK, Fresh, Size
<1>2. FindableInv' /\ RecordsHappened'
  BY DEF FindableInv, RecordsHappened
<1>3. /\ records \in [Reference -> Status \cup {Absent}]
      /\ opened \subseteq PaymentRef /\ sent \subseteq PayoutRef
      /\ named \subseteq opened /\ findable \subseteq opened
      /\ generated \in [Number -> Owner \cup {Absent}]
  BY DEF ParallexTypeOK, Status
<1> QED
  BY <1>1, <1>2, <1>3, MovingStep

(* A step that writes the record of a payment or payout that has happened,  *)
(* or of a deposit.                                                         *)
LEMMA RecordStep ==
  ASSUME ParallexInv, NEW w \in Worker, NEW t, NEW label, GoOn(w, t, label),
         TaskOK(t, label), label \notin Holding,
         UNCHANGED <<vaRows, answered, outside>>,
         NEW r \in Reference, NEW status \in Status,
         records' = [records EXCEPT ![r] = status],
         r \in PayoutRef => r \in sent, r \in PaymentRef => r \in opened,
         findable' \in {findable, findable \cup {r}},
         findable' # findable => r \in opened
  PROVE  ParallexInv'
<1> USE DEF ParallexInv, outside
<1>1. /\ records \in [Reference -> Status \cup {Absent}]
      /\ opened \subseteq PaymentRef /\ sent \subseteq PayoutRef
      /\ named \subseteq opened /\ findable \subseteq opened
      /\ generated \in [Number -> Owner \cup {Absent}]
  BY DEF ParallexTypeOK, Status
<1>2. /\ records' \in [Reference -> Status \cup {Absent}]
      /\ records'[r] = status /\ status # Absent
      /\ \A q \in Reference \ {r} : records'[q] = records[q]
  BY <1>1, ParallexAssumption DEF Status
<1>3. TaskOK(t, label)'
  <2>1. Size \in Nat /\ Size' = Size
    BY TableFacts DEF Size
  <2>2. findable \subseteq findable'
    OBVIOUS
  <2> QED
    BY <2>1, <2>2, TaskStays DEF TaskOK
<1>4. Fresh(t, label)'
  BY DEF Fresh
<1>5. FindableInv'
  <2>1. \A q \in findable : q \in Reference /\ records[q] # Absent
    BY <1>1 DEF FindableInv, Reference
  <2> QED
    BY <1>2, <2>1 DEF FindableInv
<1>6. RecordsHappened'
  <2>1. PaymentRef \subseteq Reference /\ PayoutRef \subseteq Reference
    BY DEF Reference
  <2> QED
    BY <1>2, <2>1 DEF RecordsHappened
<1> QED
  BY <1>1, <1>2, <1>3, <1>4, <1>5, <1>6, MovingStep

(* A slot that is left is about nothing.                                    *)
LEMMA LeaveStep ==
  ASSUME ParallexInv, NEW w \in Worker, Leave(w),
         UNCHANGED <<records, findable, vaRows, answered, outside>>
  PROVE  ParallexInv'
<1>1. TaskOK(NoTask, "free") /\ Fresh(NoTask, "free") /\ "free" \notin Holding
  BY DEF TaskOK, TaskAmong, Fresh, Holding
<1> QED
  BY <1>1, QuietStep DEF Leave

(* What a slot is about, by what is next.                                   *)
LEMMA TaskFacts ==
  ASSUME ParallexInv, NEW w \in Worker
  PROVE  /\ step[w] = "savePending" =>
              task[w].reference \in PaymentRef \cap opened
         /\ step[w] = "savePayout" =>
              task[w].reference \in PayoutRef \cap sent
         /\ step[w] \in {"generate"} \cup Holding => task[w].owner \in Owner
         /\ step[w] \in Holding => task[w].number \in Number
         /\ step[w] = "saveAccount" => task[w].row \in 0..Size
         /\ step[w] \in {"findPayment", "savePayment"} =>
              /\ task[w].reference \in PaymentRef \cap opened
              /\ task[w].verdict \in Verdict
         /\ step[w] \in Booking => /\ task[w].deposit \in Deposit
                                   /\ task[w].deposit.number \in Number
<1>1. TaskOK(task[w], step[w])
  BY DEF ParallexInv, TaskInv
<1>2. /\ findable \subseteq opened /\ opened \subseteq PaymentRef
      /\ sent \subseteq PayoutRef
  BY DEF ParallexInv, ParallexTypeOK
<1>3. \A d \in Deposit : d.number \in Number
  BY ParallexAssumption
<1> QED
  BY <1>1, <1>2, <1>3 DEF TaskOK, TaskAmong, Holding, Booking

-----------------------------------------------------------------------------
(* initializePayment.                                                       *)
LEMMA InitializePaymentStep ==
  ASSUME ParallexInv, NEW w \in Worker, InitializePayment(w)
  PROVE  ParallexInv'
<1> USE DEF ParallexInv
<1>1. PICK r \in PaymentRef \ opened :
        \/ /\ opened' = opened \cup {r}
           /\ named' \in {named, named \cup {r}}
           /\ \/ Take(w, [kind |-> "payment", reference |-> r], "savePending")
              \/ Take(w, NoTask, "free")
        \/ Take(w, NoTask, "free") /\ UNCHANGED <<opened, named>>
  BY DEF InitializePayment
<1>2. /\ opened \subseteq opened' /\ opened' \subseteq PaymentRef
      /\ sent \subseteq PayoutRef
      /\ named' \subseteq opened' /\ findable \subseteq opened'
      /\ records \in [Reference -> Status \cup {Absent}]
      /\ generated \in [Number -> Owner \cup {Absent}]
  BY <1>1 DEF ParallexTypeOK, Status
<1>3. UNCHANGED <<records, findable, vaRows, answered, generated, sent>>
  BY DEF InitializePayment
<1>4. FindableInv' /\ RecordsHappened'
  BY <1>2, <1>3 DEF FindableInv, RecordsHappened
<1>5. PICK t : t = [kind |-> "payment", reference |-> r]
  OBVIOUS
<1>6. CASE opened' = opened \cup {r} /\ Take(w, t, "savePending")
  <2>1. TaskOK(t, "savePending")' /\ Fresh(t, "savePending")'
    BY <1>5, <1>6 DEF TaskOK, TaskAmong, Fresh, Holding
  <2> QED
    BY <1>2, <1>3, <1>4, <1>6, <2>1, MovingStep DEF Take, GoOn, Holding
<1>7. CASE Take(w, NoTask, "free")
  <2>1. TaskOK(NoTask, "free")' /\ Fresh(NoTask, "free")'
    BY DEF TaskOK, TaskAmong, Fresh, Holding
  <2> QED
    BY <1>2, <1>3, <1>4, <1>7, <2>1, MovingStep DEF Take, GoOn, Holding
<1> QED
  BY <1>1, <1>5, <1>6, <1>7

LEMMA SavePendingStep ==
  ASSUME ParallexInv, NEW w \in Worker, SavePending(w)
  PROVE  ParallexInv'
<1>1. PICK r : r = task[w].reference
  OBVIOUS
<1>2. r \in PaymentRef \cap opened /\ r \in Reference /\ r \notin PayoutRef
  BY <1>1, TaskFacts, ParallexAssumption DEF SavePending, Reference
<1>3. TaskOK(NoTask, "free") /\ "free" \notin Holding
  BY DEF TaskOK, TaskAmong, Holding
<1>4. CASE UNCHANGED <<records, findable>>
  BY <1>4, LeaveStep DEF SavePending
<1>5. CASE /\ records' = [records EXCEPT ![r] = "pending"]
           /\ findable' \in {findable, findable \cup {r}}
  BY <1>2, <1>3, <1>5, RecordStep DEF SavePending, Leave, Status
<1> QED
  BY <1>1, <1>4, <1>5 DEF SavePending

-----------------------------------------------------------------------------
(* createVirtualAccount and provision.                                      *)
LEMMA CreateAccountStep ==
  ASSUME ParallexInv, NEW w \in Worker, CreateAccount(w)
  PROVE  ParallexInv'
<1>1. PICK o \in Owner : Take(w, [kind |-> "account", owner |-> o], "generate")
  BY DEF CreateAccount
<1>2. PICK t : t = [kind |-> "account", owner |-> o]
  OBVIOUS
<1>3. TaskOK(t, "generate") /\ Fresh(t, "generate") /\ "generate" \notin Holding
  BY <1>2 DEF TaskOK, TaskAmong, Fresh, Holding
<1>4. GoOn(w, t, "generate")
  BY <1>1, <1>2 DEF Take, GoOn
<1>5. UNCHANGED <<records, findable, vaRows, answered, outside>>
  BY DEF CreateAccount
<1> QED
  BY <1>3, <1>4, <1>5, QuietStep

(* A number that is generated has been nobody's: it is in no row and on no  *)
(* other way.                                                               *)
LEMMA GenerateNumberStep ==
  ASSUME ParallexInv, NEW w \in Worker, GenerateNumber(w)
  PROVE  ParallexInv'
<1> USE DEF ParallexInv
<1>1. PICK o : o = task[w].owner
  OBVIOUS
<1>2. o \in Owner /\ o # Absent
  BY <1>1, TaskFacts, ParallexAssumption DEF GenerateNumber
<1>3. UNCHANGED <<records, findable, vaRows, answered, opened, named, sent>>
  BY DEF GenerateNumber
<1>4. CASE Leave(w) /\ UNCHANGED generated
  BY <1>3, <1>4, LeaveStep DEF outside
<1>5. ASSUME NEW n \in Number, generated[n] = Absent,
             generated' = [generated EXCEPT ![n] = o],
             \/ GoOn(w, [kind |-> "account", owner |-> o, number |-> n],
                     "findAccount")
             \/ Leave(w)
      PROVE  ParallexInv'
  <2>1. /\ generated \in [Number -> Owner \cup {Absent}]
        /\ records \in [Reference -> Status \cup {Absent}]
        /\ opened \subseteq PaymentRef /\ sent \subseteq PayoutRef
        /\ named \subseteq opened /\ findable \subseteq opened
    BY DEF ParallexTypeOK, Status
  <2>2. /\ generated' \in [Number -> Owner \cup {Absent}] /\ generated'[n] = o
        /\ \A m \in Number : generated[m] # Absent => generated'[m] = generated[m]
    BY <1>2, <1>5, <2>1
  <2>3. FindableInv' /\ RecordsHappened'
    BY <1>3 DEF FindableInv, RecordsHappened
  <2>4. PICK t : t = [kind |-> "account", owner |-> o, number |-> n]
    OBVIOUS
  <2>5. CASE GoOn(w, t, "findAccount")
    <3>1. TaskOK(t, "findAccount")'
      BY <1>2, <2>4 DEF TaskOK, TaskAmong
    <3>2. \A i \in 1..Size : vaRows[i].number # n
      <4>1. ASSUME NEW i \in 1..Size
            PROVE  generated[vaRows[i].number] = vaRows[i].owner
                   /\ vaRows[i].owner \in Owner
        BY <4>1, TableFacts DEF NumbersReachOwners, VaRow
      <4> QED
        BY <1>5, <4>1, ParallexAssumption
    <3>3. Fresh(t, "findAccount")'
      BY <1>3, <2>2, <2>4, <3>2 DEF Fresh, Size
    <3>4. \A v \in Worker \ {w} : step[v] \in Holding => task[v].number # t.number
      <4>1. ASSUME NEW v \in Worker, step[v] \in Holding
            PROVE  generated[task[v].number] = task[v].owner
                   /\ task[v].owner \in Owner
        BY <4>1, TaskFacts DEF HoldingInv, Fresh
      <4> QED
        BY <1>5, <2>4, <4>1, ParallexAssumption
    <3> QED
      BY <1>3, <2>1, <2>2, <2>3, <2>5, <3>1, <3>3, <3>4, MovingStep
  <2>6. CASE Leave(w)
    <3>1. TaskOK(NoTask, "free")' /\ Fresh(NoTask, "free")'
      BY DEF TaskOK, TaskAmong, Fresh, Holding
    <3> QED
      BY <1>3, <2>1, <2>2, <2>3, <2>6, <3>1, MovingStep DEF Leave, Holding
  <2> QED
    BY <1>5, <2>4, <2>5, <2>6
<1> QED
  BY <1>1, <1>4, <1>5 DEF GenerateNumber

LEMMA FindAccountStep ==
  ASSUME ParallexInv, NEW w \in Worker, FindAccount(w)
  PROVE  ParallexInv'
<1> USE DEF ParallexInv
<1>1. PICK o, n : o = task[w].owner /\ n = task[w].number
  OBVIOUS
<1>2. /\ step[w] = "findAccount" /\ o \in Owner /\ n \in Number
      /\ generated[n] = o /\ \A i \in 1..Size : vaRows[i].number # n
  BY <1>1, TaskFacts DEF FindAccount, Holding, HoldingInv, Fresh
<1>3. PICK i \in IF RowsOf(o) = {} THEN {0} ELSE RowsOf(o) :
        GoOn(w, [kind |-> "account", owner |-> o, number |-> n, row |-> i],
             "saveAccount")
  BY <1>1 DEF FindAccount
<1>4. PICK t : t = [kind |-> "account", owner |-> o, number |-> n, row |-> i]
  OBVIOUS
<1>5. i \in 0..Size /\ (i # 0 => vaRows[i].owner = o)
  BY <1>2, <1>3, TableFacts
<1>6. TaskOK(t, "saveAccount")
  BY <1>2, <1>4, <1>5 DEF TaskOK, TaskAmong
<1>7. Fresh(t, "saveAccount")
  BY <1>2, <1>4, <1>5 DEF Fresh
<1>8. \A v \in Worker \ {w} : step[v] \in Holding => task[v].number # t.number
  BY <1>1, <1>2, <1>4 DEF HoldingInv, Holding
<1>9. UNCHANGED <<records, findable, vaRows, answered, outside>>
  BY DEF FindAccount
<1> QED
  BY <1>3, <1>4, <1>6, <1>7, <1>8, <1>9, QuietStep

(* A number is written into row i.                                          *)
Numbered(i, n) == vaRows' = [vaRows EXCEPT ![i].number = n]

LEMMA RowNumbered ==
  ASSUME ParallexTypeOK, NEW i \in 1..Size, NEW n \in Number, Numbered(i, n)
  PROVE  /\ vaRows' \in Seq(VaRow) /\ Size' = Size
         /\ vaRows'[i] = [owner |-> vaRows[i].owner, number |-> n]
         /\ \A j \in 1..Size : j # i => vaRows'[j] = vaRows[j]
<1>1. PICK row : row = [vaRows[i] EXCEPT !.number = n]
  OBVIOUS
<1>2. vaRows[i] \in VaRow /\ Size \in Nat /\ vaRows \in Seq(VaRow)
  BY TableFacts
<1>3. row \in VaRow /\ row = [owner |-> vaRows[i].owner, number |-> n]
  BY <1>1, <1>2 DEF VaRow
<1>4. vaRows' = [vaRows EXCEPT ![i] = row]
  BY <1>1, <1>2, TableFacts DEF Numbered
<1>5. /\ vaRows' \in Seq(VaRow) /\ Size' = Size
      /\ \A j \in 1..Size : vaRows'[j] = IF j = i THEN row ELSE vaRows[j]
  BY <1>2, <1>3, <1>4, ExceptSeq DEF Size
<1> QED
  BY <1>3, <1>5

LEMMA RowAppended ==
  ASSUME ParallexTypeOK, NEW row \in VaRow, vaRows' = Append(vaRows, row)
  PROVE  /\ vaRows' \in Seq(VaRow) /\ Size' = Size + 1
         /\ vaRows'[Size + 1] = row
         /\ \A j \in 1..Size : vaRows'[j] = vaRows[j]
BY TableFacts, AppendProperties DEF Size

(* The number that a slot holds gets into a row of its owner, number i.     *)
LEMMA AccountSaved ==
  ASSUME ParallexInv, NEW w \in Worker, step[w] = "saveAccount", Leave(w),
         NEW o \in Owner, NEW n \in Number,
         task[w].owner = o, task[w].number = n,
         NEW i \in Nat, Size' \in Nat, 1..Size' = (1..Size) \cup {i},
         vaRows' \in Seq(VaRow), vaRows'[i].owner = o, vaRows'[i].number = n,
         \A j \in 1..Size : j # i => vaRows'[j] = vaRows[j],
         i \in 1..Size => vaRows[i].owner = o,
         answered' = [answered EXCEPT ![o] = answered[o] \cup {n}],
         UNCHANGED <<records, findable, outside>>
  PROVE  ParallexInv'
<1> USE DEF ParallexInv, outside
<1>1. /\ step'[w] = "free" /\ task'[w] = NoTask
      /\ \A v \in Worker \ {w} : task'[v] = task[v] /\ step'[v] = step[v]
      /\ task' = [v \in Worker |-> task'[v]]
      /\ step' = [v \in Worker |-> step'[v]]
  BY DEF TaskInv, Leave, GoOn
<1>2. /\ vaRows'[i].owner = o /\ vaRows'[i].number = n
      /\ Size \in Nat /\ Size <= Size'
      /\ DOMAIN vaRows' = 1..Size' /\ DOMAIN vaRows = 1..Size
      /\ \A j \in 1..Size : vaRows[j] \in VaRow
  BY TableFacts, LenProperties DEF Size
<1>3. generated[n] = o /\ \A j \in 1..Size : vaRows[j].number # n
  BY DEF HoldingInv, Fresh, Holding
<1>4. /\ answered' = [p \in Owner |-> answered'[p]]
      /\ answered'[o] = answered[o] \cup {n}
      /\ \A p \in Owner \ {o} : answered'[p] = answered[p]
  BY DEF TaskInv
<1>5. TaskInv'
  <2>1. ASSUME NEW v \in Worker \ {w} PROVE TaskOK(task[v], step[v])'
    <3>1. TaskOK(task[v], step[v])
      BY DEF TaskInv
    <3> QED
      BY <1>1, <1>2, <3>1, TaskStays DEF TaskOK
  <2>2. TaskOK(NoTask, "free")'
    BY DEF TaskOK, TaskAmong
  <2> QED
    BY <1>1, <1>4, <2>1, <2>2 DEF TaskInv
<1>6. ParallexTypeOK'
  <2>1. \A v \in Worker :
          TaskAmong(task'[v], step'[v], opened, findable, sent, Size')
    BY <1>5 DEF TaskInv, TaskOK
  <2>2. \A v \in Worker : task'[v] \in Tasks
    BY <2>1, TaskTypes DEF ParallexTypeOK
  <2>3. \A v \in Worker :
          step'[v] = "savePayment" => records'[task'[v].reference] # Absent
    BY <1>1 DEF ParallexTypeOK
  <2>4. \A p \in Owner : answered'[p] \subseteq {m \in Number : generated'[m] = p}
    BY <1>3, <1>4 DEF ParallexTypeOK
  <2> QED
    BY <1>1, <2>2, <2>3, <2>4 DEF ParallexTypeOK, VaRow
<1>7. FindableInv' /\ RecordsHappened'
  BY DEF FindableInv, RecordsHappened
<1>8. HoldingInv'
  <2>1. ASSUME NEW v \in Worker \ {w} PROVE Fresh(task[v], step[v])'
    <3>1. Fresh(task[v], step[v]) /\ (step[v] \in Holding => task[v].number # n)
      BY DEF HoldingInv, Holding
    <3>2. step[v] = "saveAccount" => task[v].row \in 0..Size
      BY TaskFacts
    <3>3. step[v] \in Holding => \A j \in 1..Size' : vaRows'[j].number # task[v].number
      BY <1>2, <3>1 DEF Fresh
    <3>4. step[v] = "saveAccount" /\ task[v].row # 0 =>
            vaRows'[task[v].row].owner = task[v].owner
      <4>1. ASSUME step[v] = "saveAccount", task[v].row # 0
            PROVE  /\ task[v].row \in 1..Size
                   /\ vaRows[task[v].row].owner = task[v].owner
        BY <1>2, <3>1, <3>2, <4>1 DEF Fresh, Holding
      <4> QED
        BY <1>2, <4>1
    <3> QED
      BY <1>1, <3>1, <3>3, <3>4 DEF Fresh
  <2> QED
    BY <1>1, <2>1 DEF HoldingInv, Fresh, Holding
<1>9. NumbersReachOwners'
  <2>1. \A j, k \in 1..Size' : vaRows'[j].number = vaRows'[k].number => j = k
    BY <1>2, <1>3 DEF NumbersReachOwners
  <2>2. \A j \in 1..Size' : generated'[vaRows'[j].number] = vaRows'[j].owner
    BY <1>2, <1>3 DEF NumbersReachOwners
  <2>3. ASSUME NEW p \in Owner, answered'[p] # {}
        PROVE  \E j \in 1..Size' : vaRows'[j].owner = p /\ vaRows'[j].number \in answered'[p]
    <3>1. CASE p = o
      BY <1>2, <1>4, <3>1
    <3>2. CASE p # o
      <4>1. PICK j \in 1..Size :
              vaRows[j].owner = p /\ vaRows[j].number \in answered[p]
        BY <1>2, <1>4, <2>3, <3>2 DEF NumbersReachOwners, RowsOf
      <4>2. j # i
        BY <3>2, <4>1
      <4> QED
        BY <1>4, <3>2, <4>1, <4>2
    <3> QED
      BY <3>1, <3>2
  <2> QED
    BY <1>2, <2>1, <2>2, <2>3 DEF NumbersReachOwners, RowsOf
<1> QED
  BY <1>5, <1>6, <1>7, <1>8, <1>9

LEMMA SaveAccountStep ==
  ASSUME ParallexInv, NEW w \in Worker, SaveAccount(w)
  PROVE  ParallexInv'
<1>1. PICK o, n, i : /\ o = task[w].owner /\ n = task[w].number
                     /\ i = task[w].row
  OBVIOUS
<1>2. /\ step[w] = "saveAccount" /\ Leave(w)
      /\ UNCHANGED <<records, findable, outside>>
  BY DEF SaveAccount
<1>3. /\ o \in Owner /\ n \in Number /\ i \in 0..Size
      /\ i # 0 => vaRows[i].owner = o
  BY <1>1, <1>2, TaskFacts DEF ParallexInv, HoldingInv, Fresh, Holding
<1>4. ParallexTypeOK /\ Size \in Nat
  BY TableFacts DEF ParallexInv
<1>5. PICK row : row = [owner |-> o, number |-> n]
  OBVIOUS
<1>6. row \in VaRow
  BY <1>3, <1>5 DEF VaRow
<1>7. \/ /\ i = 0 => vaRows' = Append(vaRows, row)
         /\ i # 0 => Numbered(i, n)
         /\ answered' = [answered EXCEPT ![o] = answered[o] \cup {n}]
      \/ UNCHANGED <<vaRows, answered>>
  BY <1>1, <1>5, Zenon DEF SaveAccount, Numbered
<1>8. CASE UNCHANGED <<vaRows, answered>>
  BY <1>2, <1>8, LeaveStep
<1>9. CASE /\ i = 0 => vaRows' = Append(vaRows, row)
           /\ i # 0 => Numbered(i, n)
           /\ answered' = [answered EXCEPT ![o] = answered[o] \cup {n}]
  <2>1. CASE i = 0
    <3>1. PICK k \in Nat : k = Size + 1
      BY <1>4
    <3>2. /\ vaRows' \in Seq(VaRow) /\ Size' = k /\ vaRows'[k] = row
          /\ \A j \in 1..Size : vaRows'[j] = vaRows[j]
      BY <1>4, <1>6, <1>9, <2>1, <3>1, RowAppended
    <3>3. 1..Size' = (1..Size) \cup {k} /\ k \notin 1..Size
      BY <1>4, <3>1, <3>2
    <3> QED
      <4>1. /\ Size' \in Nat /\ (k \in 1..Size => vaRows[k].owner = o)
            /\ \A j \in 1..Size : j # k => vaRows'[j] = vaRows[j]
            /\ vaRows'[k].owner = o /\ vaRows'[k].number = n
        BY <1>5, <3>2, <3>3
      <4>2. task[w].owner = o /\ task[w].number = n
        BY <1>1
      <4> QED
        BY <1>2, <1>3, <1>9, <3>2, <3>3, <4>1, <4>2, AccountSaved
  <2>2. CASE i # 0
    <3>1. i \in 1..Size /\ Numbered(i, n)
      BY <1>3, <1>4, <1>9, <2>2
    <3>2. /\ vaRows' \in Seq(VaRow) /\ Size' = Size
          /\ vaRows'[i] = [owner |-> o, number |-> n]
          /\ \A j \in 1..Size : j # i => vaRows'[j] = vaRows[j]
      BY <1>3, <1>4, <2>2, <3>1, RowNumbered
    <3>3. 1..Size' = (1..Size) \cup {i} /\ i \in Nat
      BY <1>4, <3>1, <3>2
    <3> QED
      <4>1. Size' \in Nat /\ (i \in 1..Size => vaRows[i].owner = o)
        BY <1>3, <1>4, <2>2, <3>2
      <4>3. vaRows'[i].owner = o /\ vaRows'[i].number = n
        BY <1>3, <1>4, <2>2, <3>2
      <4>2. task[w].owner = o /\ task[w].number = n
        BY <1>1
      <4> QED
        BY <1>2, <1>3, <1>9, <3>2, <3>3, <4>1, <4>2, <4>3, AccountSaved
  <2> QED
    BY <2>1, <2>2
<1> QED
  BY <1>7, <1>8, <1>9

-----------------------------------------------------------------------------
(* initiateTransfer.                                                        *)
LEMMA InitiateTransferStep ==
  ASSUME ParallexInv, NEW w \in Worker, InitiateTransfer(w)
  PROVE  ParallexInv'
<1> USE DEF ParallexInv
<1>1. PICK p \in PayoutRef \ sent :
        \/ /\ sent' = sent \cup {p}
           /\ \/ Take(w, [kind |-> "payout", reference |-> p], "savePayout")
              \/ Take(w, NoTask, "free")
        \/ Take(w, NoTask, "free") /\ UNCHANGED sent
  BY DEF InitiateTransfer
<1>2. /\ sent \subseteq sent' /\ sent' \subseteq PayoutRef
      /\ opened \subseteq PaymentRef
      /\ named \subseteq opened /\ findable \subseteq opened
      /\ records \in [Reference -> Status \cup {Absent}]
      /\ generated \in [Number -> Owner \cup {Absent}]
  BY <1>1 DEF ParallexTypeOK, Status
<1>3. UNCHANGED <<records, findable, vaRows, answered, opened, named, generated>>
  BY DEF InitiateTransfer
<1>4. FindableInv' /\ RecordsHappened'
  BY <1>2, <1>3 DEF FindableInv, RecordsHappened
<1>5. PICK t : t = [kind |-> "payout", reference |-> p]
  OBVIOUS
<1>6. CASE sent' = sent \cup {p} /\ Take(w, t, "savePayout")
  <2>1. TaskOK(t, "savePayout")' /\ Fresh(t, "savePayout")'
    BY <1>5, <1>6 DEF TaskOK, TaskAmong, Fresh, Holding
  <2> QED
    BY <1>2, <1>3, <1>4, <1>6, <2>1, MovingStep DEF Take, GoOn, Holding
<1>7. CASE Take(w, NoTask, "free")
  <2>1. TaskOK(NoTask, "free")' /\ Fresh(NoTask, "free")'
    BY DEF TaskOK, TaskAmong, Fresh, Holding
  <2> QED
    BY <1>2, <1>3, <1>4, <1>7, <2>1, MovingStep DEF Take, GoOn, Holding
<1> QED
  BY <1>1, <1>5, <1>6, <1>7

LEMMA SavePayoutStep ==
  ASSUME ParallexInv, NEW w \in Worker, SavePayout(w)
  PROVE  ParallexInv'
<1>1. PICK r : r = task[w].reference
  OBVIOUS
<1>2. r \in PayoutRef \cap sent /\ r \in Reference /\ r \notin PaymentRef
  BY <1>1, TaskFacts, ParallexAssumption DEF SavePayout, Reference
<1>3. TaskOK(NoTask, "free") /\ "free" \notin Holding
  BY DEF TaskOK, TaskAmong, Holding
<1>4. CASE UNCHANGED records
  BY <1>4, LeaveStep DEF SavePayout
<1>5. CASE records' = [records EXCEPT ![r] = "completed"]
  BY <1>2, <1>3, <1>5, RecordStep DEF SavePayout, Leave, Status
<1> QED
  BY <1>1, <1>4, <1>5 DEF SavePayout

-----------------------------------------------------------------------------
(* handleWebhook.                                                           *)
LEMMA ReportPaymentStep ==
  ASSUME ParallexInv, NEW w \in Worker, ReportPayment(w)
  PROVE  ParallexInv'
<1>1. PICK r \in opened, verdict \in Verdict :
        IF r \in named
        THEN Take(w, [kind |-> "report", reference |-> r, verdict |-> verdict],
                  "findPayment")
        ELSE Take(w, NoTask, "free")
  BY DEF ReportPayment, Verdict
<1>2. PICK t : t = [kind |-> "report", reference |-> r, verdict |-> verdict]
  OBVIOUS
<1>3. UNCHANGED <<records, findable, vaRows, answered, outside>>
  BY DEF ReportPayment
<1>4. CASE Take(w, t, "findPayment")
  <2>1. TaskOK(t, "findPayment") /\ Fresh(t, "findPayment")
    BY <1>2 DEF TaskOK, TaskAmong, Fresh, Holding
  <2> QED
    BY <1>3, <1>4, <2>1, QuietStep DEF Take, GoOn, Holding
<1>5. CASE Take(w, NoTask, "free")
  BY <1>3, <1>5, LeaveStep DEF Take, Leave, GoOn
<1> QED
  BY <1>1, <1>2, <1>4, <1>5

LEMMA FindPaymentStep ==
  ASSUME ParallexInv, NEW w \in Worker, FindPayment(w)
  PROVE  ParallexInv'
<1>1. PICK t : t = task[w]
  OBVIOUS
<1>2. step[w] = "findPayment" /\ TaskOK(t, "findPayment")
  BY <1>1 DEF FindPayment, ParallexInv, TaskInv
<1>3. UNCHANGED <<records, findable, vaRows, answered, outside>>
  BY DEF FindPayment
<1>4. CASE t.reference \in findable /\ GoOn(w, t, "savePayment")
  <2>1. t \in [kind : {"report"}, reference : opened, verdict : Verdict]
    BY <1>2 DEF TaskOK, TaskAmong, Booking
  <2>2. t \in [kind : {"report"}, reference : findable, verdict : Verdict]
    BY <1>4, <2>1
  <2>3. TaskOK(t, "savePayment") /\ Fresh(t, "savePayment")
    BY <2>2 DEF TaskOK, TaskAmong, Fresh, Holding
  <2> QED
    BY <1>3, <1>4, <2>3, QuietStep DEF Holding
<1>5. CASE Leave(w)
  BY <1>3, <1>5, LeaveStep
<1> QED
  BY <1>1, <1>4, <1>5 DEF FindPayment

LEMMA SavePaymentStep ==
  ASSUME ParallexInv, NEW w \in Worker, SavePayment(w)
  PROVE  ParallexInv'
<1>1. PICK r, verdict : r = task[w].reference /\ verdict = task[w].verdict
  OBVIOUS
<1>2. /\ r \in PaymentRef \cap opened /\ r \in Reference /\ r \notin PayoutRef
      /\ verdict \in Status
  BY <1>1, TaskFacts, ParallexAssumption
  DEF SavePayment, Reference, Verdict, Status
<1>3. TaskOK(NoTask, "free") /\ "free" \notin Holding
  BY DEF TaskOK, TaskAmong, Holding
<1>4. records' = [records EXCEPT ![r] = verdict]
  BY <1>1 DEF SavePayment
<1> QED
  BY <1>2, <1>3, <1>4, RecordStep DEF SavePayment, Leave

LEMMA ReportDepositStep ==
  ASSUME ParallexInv, NEW w \in Worker, ReportDeposit(w)
  PROVE  ParallexInv'
<1>1. PICK d \in Deposit :
        Take(w, [kind |-> "deposit", deposit |-> d], "findNumber")
  BY DEF ReportDeposit
<1>2. PICK t : t = [kind |-> "deposit", deposit |-> d]
  OBVIOUS
<1>3. TaskOK(t, "findNumber") /\ Fresh(t, "findNumber")
  BY <1>2 DEF TaskOK, TaskAmong, Booking, Fresh, Holding
<1>4. UNCHANGED <<records, findable, vaRows, answered, outside>>
  BY DEF ReportDeposit
<1> QED
  BY <1>1, <1>2, <1>3, <1>4, QuietStep DEF Take, GoOn, Holding

(* A slot that books a deposit goes on with it.                             *)
LEMMA DepositGoesOn ==
  ASSUME ParallexInv, NEW w \in Worker, step[w] \in Booking,
         NEW label \in Booking
  PROVE  /\ TaskOK(task[w], label) /\ Fresh(task[w], label)
         /\ label \notin Holding
BY DEF ParallexInv, TaskInv, TaskOK, TaskAmong, Booking, Fresh, Holding

LEMMA FindNumberStep ==
  ASSUME ParallexInv, NEW w \in Worker, FindNumber(w)
  PROVE  ParallexInv'
<1>1. PICK t : t = task[w]
  OBVIOUS
<1>2. TaskOK(t, "checkBooked") /\ Fresh(t, "checkBooked") /\ "checkBooked" \notin Holding
  BY <1>1, DepositGoesOn DEF FindNumber, Booking
<1>3. UNCHANGED <<records, findable, vaRows, answered, outside>>
  BY DEF FindNumber
<1>4. GoOn(w, t, "checkBooked") \/ Leave(w)
  BY <1>1 DEF FindNumber
<1> QED
  BY <1>2, <1>3, <1>4, QuietStep, LeaveStep

LEMMA CheckBookedStep ==
  ASSUME ParallexInv, NEW w \in Worker, CheckBooked(w)
  PROVE  ParallexInv'
<1>1. PICK t : t = task[w]
  OBVIOUS
<1>2. TaskOK(t, "book") /\ Fresh(t, "book") /\ "book" \notin Holding
  BY <1>1, DepositGoesOn DEF CheckBooked, Booking
<1>3. UNCHANGED <<records, findable, vaRows, answered, outside>>
  BY DEF CheckBooked
<1>4. GoOn(w, t, "book") \/ Leave(w)
  BY <1>1 DEF CheckBooked
<1> QED
  BY <1>2, <1>3, <1>4, QuietStep, LeaveStep

(* A deposit is no payment and no payout.                                   *)
LEMMA BookStep ==
  ASSUME ParallexInv, NEW w \in Worker, Book(w)
  PROVE  ParallexInv'
<1>1. PICK t, r : t = task[w] /\ r = task[w].deposit.reference
  OBVIOUS
<1>2. TaskOK(t, "creditWallet") /\ "creditWallet" \notin Holding
  BY <1>1, DepositGoesOn DEF Book, Booking
<1>3. r \in Reference /\ r \notin PaymentRef /\ r \notin PayoutRef
  BY <1>1, TaskFacts, ParallexAssumption DEF Book, Booking, Reference
<1>4. CASE /\ records' = [records EXCEPT ![r] = "completed"]
           /\ GoOn(w, t, "creditWallet")
  BY <1>2, <1>3, <1>4, RecordStep DEF Book, Status
<1>5. CASE Leave(w) /\ UNCHANGED records
  BY <1>5, LeaveStep DEF Book
<1> QED
  BY <1>1, <1>4, <1>5 DEF Book

LEMMA CreditWalletStep ==
  ASSUME ParallexInv, NEW w \in Worker, CreditWallet(w)
  PROVE  ParallexInv'
BY LeaveStep DEF CreditWallet

-----------------------------------------------------------------------------
LEMMA ParallexCrashStep ==
  ASSUME ParallexInv, ParallexCrash
  PROVE  ParallexInv'
<1> USE DEF ParallexInv
<1>1. /\ UNCHANGED <<records, findable, vaRows, answered, outside>>
      /\ task' = [w \in Worker |-> NoTask]
      /\ step' = [w \in Worker |-> "free"]
  BY DEF ParallexCrash
<1>2. task' \in [Worker -> Tasks]
  BY <1>1 DEF Tasks
<1>3. ParallexTypeOK'
  BY <1>1, <1>2 DEF ParallexTypeOK, outside
<1>4. TaskInv'
  BY <1>1 DEF TaskInv, TaskOK, TaskAmong
<1>5. HoldingInv'
  BY <1>1 DEF HoldingInv, Fresh, Holding
<1>6. FindableInv' /\ RecordsHappened' /\ NumbersReachOwners'
  BY <1>1 DEF FindableInv, RecordsHappened, NumbersReachOwners, RowsOf, outside
<1> QED
  BY <1>3, <1>4, <1>5, <1>6

LEMMA ParallexStep == ParallexInv /\ [ParallexNext]_parallexVars => ParallexInv'
<1> SUFFICES ASSUME ParallexInv, [ParallexNext]_parallexVars PROVE ParallexInv'
  OBVIOUS
<1>1. CASE UNCHANGED <<records, findable, vaRows, answered, task, step, outside>>
  <2> USE <1>1 DEF ParallexInv, outside
  <2>1. ParallexTypeOK'
    BY DEF ParallexTypeOK
  <2>2. TaskInv' /\ HoldingInv'
    BY DEF TaskInv, TaskOK, HoldingInv, Fresh, Size
  <2>3. FindableInv' /\ RecordsHappened' /\ NumbersReachOwners'
    BY DEF FindableInv, RecordsHappened, NumbersReachOwners, RowsOf
  <2> QED
    BY <2>1, <2>2, <2>3
<1>2. ASSUME NEW w \in Worker,
             \/ InitializePayment(w) \/ SavePending(w)
             \/ CreateAccount(w) \/ GenerateNumber(w) \/ FindAccount(w)
             \/ SaveAccount(w)
             \/ InitiateTransfer(w) \/ SavePayout(w)
             \/ ReportPayment(w) \/ FindPayment(w) \/ SavePayment(w)
             \/ ReportDeposit(w) \/ FindNumber(w) \/ CheckBooked(w) \/ Book(w)
             \/ CreditWallet(w)
      PROVE  ParallexInv'
  BY <1>2, InitializePaymentStep, SavePendingStep, CreateAccountStep,
     GenerateNumberStep, FindAccountStep, SaveAccountStep, InitiateTransferStep,
     SavePayoutStep, ReportPaymentStep, FindPaymentStep, SavePaymentStep,
     ReportDepositStep, FindNumberStep, CheckBookedStep, BookStep,
     CreditWalletStep
<1> QED
  BY <1>1, <1>2, ParallexCrashStep DEF ParallexNext, Switch, parallexVars, outside

LEMMA ParallexInvariant == ParallexSpec => []ParallexInv
BY ParallexInitially, ParallexStep, PTL DEF ParallexSpec

(* Every variable has its type, and a report changes only a record there is.*)
THEOREM ParallexTypes == ParallexSpec => []ParallexTypeOK
<1>1. ParallexInv => ParallexTypeOK
  BY DEF ParallexInv
<1> QED
  BY ParallexInvariant, <1>1, PTL

(* Only what has happened at Parallex is in the books, wherever the server  *)
(* dies (initiateTransfer, initializePayment).                              *)
THEOREM OnlyWhatHappened == ParallexSpec => []RecordsHappened
<1>1. ParallexInv => RecordsHappened
  BY DEF ParallexInv
<1> QED
  BY ParallexInvariant, <1>1, PTL

(* However account creations overlap, fail or are repeated, a number is in  *)
(* one row, of its owner, who can be paid under one it was given.           *)
THEOREM OwnersCanBePaid == ParallexSpec => []NumbersReachOwners
<1>1. ParallexInv => NumbersReachOwners
  BY DEF ParallexInv
<1> QED
  BY ParallexInvariant, <1>1, PTL

-----------------------------------------------------------------------------
(* The run of everything that brings money in.                              *)

(* A behaviour of the run is one of the registration fee, one of Parallex,  *)
(* one of uploads and one of organisations, so that what is proved of each  *)
(* holds in the run.                                                        *)
LEMMA PaymentsAreAll == PaymentsSpec => Spec /\ ParallexSpec /\ GroupSpec /\ OrgSpec
<1>1. PaymentsInit => Init /\ ParallexInit /\ GroupInit /\ OrgInit
  BY DEF PaymentsInit
<1>2. [PaymentsNext]_<<part, feeVars, parallexVars, groupVars, orgVars>> =>
        /\ [Next]_feeVars /\ [ParallexNext]_parallexVars
        /\ [GroupNext]_groupVars /\ [OrgNext]_orgVars
  BY DEF PaymentsNext
<1> QED
  BY <1>1, <1>2, PTL DEF PaymentsSpec, Spec, ParallexSpec, GroupSpec, OrgSpec

(* What the run says of references, transactions and rows of accounts.      *)
THEOREM PaymentTypes == PaymentsSpec => []PaymentTypesOK
<1>1. FeeTypeOK /\ ParallexTypeOK => PaymentTypesOK
  BY DEF PaymentTypesOK
<1> QED
  BY PaymentsAreAll, FeeTypes, ParallexTypes, <1>1, PTL
=============================================================================
