------------------------ MODULE VirtualAccountsProofs ------------------------
(***************************************************************************)
(* Proofs about VirtualAccountService: VirtualAccounts, which opens         *)
(* accounts, for any number of requests, users and numbers; PaystackCredit, *)
(* which books what is paid into them, for any number of wallets, requests, *)
(* deliveries and events; and the run of both.                              *)
(***************************************************************************)
EXTENDS MCVirtualAccounts, WalletServiceProofs, SequenceTheorems

-----------------------------------------------------------------------------
(* The invariant.                                                           *)

RowStages    == {"choose", "customer", "hold", "dedicated", "generateNumber"}
NumberStages == {"saveOpened", "findParallex", "saveParallex"}
Resting      == {"free", "left"}
Size         == Len(vaTable)

(* What a request has found, by the step it is at.                          *)
FindErrand   == [for : Holder \cup {Someone}, user : Holder,
                 at : {"provision", "activate"}]
RowErrand    == [for : Holder \cup {Someone}, user : Holder, row : 0..Size]
NumberErrand == [for : Holder \cup {Someone}, user : Holder, row : 0..Size,
                 number : AccountNo]
ErrandOK(e, at) ==
  \/ at \in Resting /\ e = NoErrand
  \/ at = "find" /\ e \in FindErrand
  \/ at \in RowStages /\ e \in RowErrand
  \/ at \in NumberStages /\ e \in NumberErrand
ErrandInv ==
  /\ errand = [k \in Clerk |-> errand[k]]
  /\ where = [k \in Clerk |-> where[k]]
  /\ \A k \in Clerk : ErrandOK(errand[k], where[k])
  /\ told \in [Holder -> SUBSET AccountNo] /\ bare \subseteq Holder
  /\ selfAsked \in BOOLEAN /\ inLine \in BOOLEAN

(* NumbersAreOfTheirUser is not inductive alone: as long as no member asks  *)
(* for itself, what a request has found and opened is of its user too.      *)
Own(e, at) ==
  /\ at \notin Resting => e.for = e.user
  /\ at \notin Resting \cup {"find"} /\ e.row # 0 => vaTable[e.row].user = e.user
  /\ at \in NumberStages => openedFor[e.number].user = e.user
OwnInv ==
  /\ \A k \in Clerk : Own(errand[k], where[k])
  /\ \A i \in 1..Size :
       /\ vaTable[i].user \in Holder
       /\ vaTable[i].number # NoNumber =>
            openedFor[vaTable[i].number].user = vaTable[i].user

(* Nor is AccountIsKept: as long as requests also come one after the other, *)
(* one that has found nothing for a user may rely on it to the end.         *)
HasFound(e, at) ==
  at \notin Resting \cup {"find"} /\ e.for \notin bare =>
    RowsFor(e.for) = {} /\ e.row = 0
Kept(u) == \A n \in told[u] :
             told[u] = {n} /\ \E i \in RowsFor(u) : vaTable[i].number = n
LineInv ==
  /\ \A k, j \in Clerk :
       where[k] \notin Resting /\ where[j] \notin Resting => k = j
  /\ \A k \in Clerk : HasFound(errand[k], where[k])
  /\ \A i \in 1..Size : vaTable[i].number = NoNumber => vaTable[i].user \in bare
  /\ \A u \in Holder \ bare : Kept(u)

VaInv == /\ VaTypeOK /\ ErrandInv
         /\ (~ selfAsked => OwnInv)
         /\ (~ selfAsked /\ inLine => LineInv)

(* The table as a sequence, and the rows of a user.                         *)
LEMMA TableFacts ==
  ASSUME VaTypeOK
  PROVE  /\ vaTable \in Seq(VirtualAccount) /\ Size \in Nat
         /\ DOMAIN vaTable = 1..Size
         /\ \A i \in 1..Size : vaTable[i] \in VirtualAccount
         /\ \A u \in Holder : RowsFor(u) = {i \in 1..Size : vaTable[i].user = u}
BY LenProperties, VirtualAccountsAssumption DEF VaTypeOK, Size, RowsFor

(* The initial states.                                                      *)
LEMMA VaInitially == VaInit => VaInv
<1> SUFFICES ASSUME VaInit PROVE VaInv
  OBVIOUS
<1> USE VirtualAccountsAssumption DEF VaInit
<1>1. vaTable \in Seq(VirtualAccount) /\ Size = 0
  BY EmptySeq DEF Size
<1>2. VaTypeOK
  BY <1>1 DEF VaTypeOK, NotIssued, Issue
<1>3. ErrandInv
  BY DEF ErrandInv, ErrandOK, Resting
<1>4. OwnInv
  BY <1>1 DEF OwnInv, Own, Resting, NumberStages
<1>5. LineInv
  BY <1>1 DEF LineInv, HasFound, Kept, Resting
<1> QED
  BY <1>2, <1>3, <1>4, <1>5 DEF VaInv

-----------------------------------------------------------------------------
(* Steps that leave the table alone.                                        *)

(* A request goes on: what it has found is of its user, and no number is    *)
(* taken from another user.                                                 *)
LEMMA MovingStep ==
  ASSUME VaInv, NEW k \in Clerk, where[k] \notin Resting,
         NEW e, NEW at, MoveOn(k, e, at), ErrandOK(e, at),
         UNCHANGED <<settings, vaTable, vaHistory>>,
         openedFor' \in [AccountNo -> [user : Holder \cup {Someone},
                                       gateway : {"paystack", "parallex"}]],
         \A n \in AccountNo : openedFor[n].user \in Holder =>
           openedFor'[n].user = openedFor[n].user,
         ~ selfAsked /\ at \notin Resting =>
           /\ e.for = e.user
           /\ at # "find" /\ e.row # 0 => vaTable[e.row].user = e.user
           /\ at \in NumberStages => openedFor'[e.number].user = e.user,
         ~ selfAsked /\ inLine => HasFound(e, at)
  PROVE  VaInv'
<1> USE DEF VaInv, MoveOn, vaHistory
<1>1. VaTypeOK'
  BY DEF VaTypeOK
<1>2. /\ errand'[k] = e /\ where'[k] = at
      /\ \A j \in Clerk \ {k} : errand'[j] = errand[j] /\ where'[j] = where[j]
  BY DEF ErrandInv
<1>3. ErrandInv'
  <2>1. \A j \in Clerk : ErrandOK(errand'[j], where'[j])
    BY <1>2 DEF ErrandInv
  <2>2. \A f, l : ErrandOK(f, l)' <=> ErrandOK(f, l)
    BY DEF ErrandOK, RowErrand, NumberErrand, Size
  <2> QED
    BY <2>1 DEF ErrandInv, ErrandOK, RowErrand, NumberErrand, Size
<1>4. ASSUME ~ selfAsked PROVE OwnInv'
  <2>1. ASSUME NEW j \in Clerk
        PROVE  /\ where'[j] \notin Resting => errand'[j].for = errand'[j].user
               /\ where'[j] \notin Resting \cup {"find"} /\ errand'[j].row # 0 =>
                    vaTable[errand'[j].row].user = errand'[j].user
               /\ where'[j] \in NumberStages =>
                    openedFor'[errand'[j].number].user = errand'[j].user
    <3>1. CASE j = k
      BY <1>2, <1>4, <3>1 DEF Resting, NumberStages
    <3>2. CASE j # k
      <4>1. Own(errand[j], where[j])
        BY <1>4 DEF OwnInv
      <4>2. where[j] \in NumberStages =>
              errand[j].number \in AccountNo /\ errand[j].user \in Holder
        BY DEF ErrandInv, ErrandOK, NumberErrand, NumberStages, RowStages, Resting
      <4> QED
        BY <1>2, <3>2, <4>1, <4>2 DEF Own
    <3> QED
      BY <3>1, <3>2
  <2>2. ASSUME NEW i \in 1..Size
        PROVE  /\ vaTable[i].user \in Holder
               /\ vaTable[i].number # NoNumber =>
                    openedFor'[vaTable[i].number].user = vaTable[i].user
    BY <1>4, TableFacts DEF OwnInv, VirtualAccount
  <2> QED
    BY <2>1, <2>2 DEF OwnInv, Own, Size
<1>5. ASSUME ~ selfAsked, inLine PROVE LineInv'
  <2>1. \A j, l \in Clerk : where'[j] \notin Resting /\ where'[l] \notin Resting => j = l
    BY <1>2, <1>5 DEF LineInv
  <2>2. \A j \in Clerk : HasFound(errand'[j], where'[j])
    BY <1>2, <1>5 DEF LineInv
  <2>3. \A j \in Clerk : HasFound(errand[j], where[j])'
    BY <2>2 DEF HasFound, RowsFor
  <2> QED
    BY <1>5, <2>1, <2>3 DEF LineInv, Kept, RowsFor, Size
<1> QED
  BY <1>1, <1>3, <1>4, <1>5

(* A request ends.                                                          *)
LEMMA EndingStep ==
  ASSUME VaInv, NEW k \in Clerk, where[k] \notin Resting, EndErrand(k),
         UNCHANGED <<settings, vaTable, vaHistory>>,
         openedFor' \in [AccountNo -> [user : Holder \cup {Someone},
                                       gateway : {"paystack", "parallex"}]],
         \A n \in AccountNo : openedFor[n].user \in Holder =>
           openedFor'[n].user = openedFor[n].user
  PROVE  VaInv'
BY MovingStep DEF EndErrand, ErrandOK, HasFound, Resting

(* A request begins.  When a member asks for itself, nothing more is known  *)
(* than the types.                                                          *)
LEMMA EnteringStep ==
  ASSUME VaInv, NEW k \in Clerk, NEW e \in FindErrand, Enter(k, e, "find"),
         UNCHANGED <<settings, vaTable, openedFor, told, bare>>,
         selfAsked' \in BOOLEAN, selfAsked => selfAsked',
         ~ selfAsked' => e.for = e.user
  PROVE  VaInv'
<1> USE DEF VaInv, Enter, MoveOn
<1>1. VaTypeOK'
  BY DEF VaTypeOK
<1>2. /\ errand'[k] = e /\ where'[k] = "find"
      /\ \A j \in Clerk \ {k} : errand'[j] = errand[j] /\ where'[j] = where[j]
  BY DEF ErrandInv
<1>3. ErrandInv'
  BY <1>2 DEF ErrandInv, ErrandOK, FindErrand, RowErrand, NumberErrand, Size
<1>4. ASSUME ~ selfAsked' PROVE OwnInv'
  BY <1>2, <1>4 DEF OwnInv, Own, Size, Resting, NumberStages
<1>5. ASSUME ~ selfAsked', inLine' PROVE LineInv'
  <2>1. LineInv /\ \A j \in Clerk : where[j] \in Resting
    BY <1>5 DEF Resting
  <2>2. \A j \in Clerk : where'[j] \notin Resting => j = k
    BY <1>2, <2>1
  <2> QED
    BY <1>2, <2>1, <2>2 DEF LineInv, HasFound, Kept, RowsFor, Size
<1> QED
  BY <1>1, <1>3, <1>4, <1>5

LEMMA ProvisionStep ==
  ASSUME VaInv, NEW k \in Clerk, Provision(k)
  PROVE  VaInv'
<1>1. PICK u \in Holder :
        Enter(k, [for |-> u, user |-> u, at |-> "provision"], "find")
  BY DEF Provision
<1>2. [for |-> u, user |-> u, at |-> "provision"] \in FindErrand
  BY DEF FindErrand
<1> QED
  BY <1>1, <1>2, EnteringStep DEF Provision, VaInv, ErrandInv

LEMMA RequestAccountStep ==
  ASSUME VaInv, NEW k \in Clerk, RequestAccount(k)
  PROVE  VaInv'
<1>1. PICK u \in Holder :
        Enter(k, [for |-> Someone, user |-> u, at |-> "provision"], "find")
  BY DEF RequestAccount
<1>2. [for |-> Someone, user |-> u, at |-> "provision"] \in FindErrand
  BY DEF FindErrand
<1> QED
  BY <1>1, <1>2, EnteringStep DEF RequestAccount, VaInv, ErrandInv

LEMMA ActivateStep ==
  ASSUME VaInv, NEW k \in Clerk, Activate(k)
  PROVE  VaInv'
<1>1. PICK u \in Holder :
        Enter(k, [for |-> u, user |-> u, at |-> "activate"], "find")
  BY DEF Activate
<1>2. [for |-> u, user |-> u, at |-> "activate"] \in FindErrand
  BY DEF FindErrand
<1> QED
  BY <1>1, <1>2, EnteringStep DEF Activate, VaInv, ErrandInv

(* A row that is found, or none, is of the user that was looked for.        *)
LEMMA OneOfRows ==
  ASSUME VaTypeOK, NEW u \in Holder \cup {Someone}, NEW rows,
         rows \subseteq RowsFor(u), NEW i \in OneOf(rows)
  PROVE  /\ i \in 0..Size
         /\ u \in Holder /\ i # 0 => vaTable[i].user = u
         /\ i = 0 => rows = {}
         /\ i # 0 => i \in rows
BY TableFacts, VirtualAccountsAssumption DEF OneOf, RowsFor

LEMMA FindRowStep ==
  ASSUME VaInv, NEW k \in Clerk, FindRow(k)
  PROVE  VaInv'
<1> USE DEF VaInv
<1>1. /\ where[k] = "find" /\ errand[k] \in FindErrand
      /\ UNCHANGED <<settings, parallexOn, vaTable, openedFor, vaHistory>>
  BY DEF FindRow, ErrandInv, ErrandOK, Resting, RowStages, NumberStages
<1>2. PICK i \in OneOf(RowsFor(errand[k].for)) :
        IF i # 0 /\ vaTable[i].number # NoNumber THEN EndErrand(k)
        ELSE MoveOn(k, [for |-> errand[k].for, user |-> errand[k].user, row |-> i],
                    IF errand[k].at = "activate" THEN "customer" ELSE "choose")
  BY DEF FindRow
<1>3. /\ errand[k].for \in Holder \cup {Someone} /\ errand[k].user \in Holder
      /\ i \in 0..Size
      /\ errand[k].for \in Holder /\ i # 0 => vaTable[i].user = errand[k].for
      /\ i = 0 => RowsFor(errand[k].for) = {}
  BY <1>1, OneOfRows DEF FindErrand
<1>4. CASE i # 0 /\ vaTable[i].number # NoNumber
  BY <1>1, <1>2, <1>4, EndingStep DEF VaTypeOK, Resting
<1>5. CASE ~ (i # 0 /\ vaTable[i].number # NoNumber)
  <2> DEFINE new == [for |-> errand[k].for, user |-> errand[k].user, row |-> i]
  <2>1. PICK e : e = new
    OBVIOUS
  <2>2. PICK at \in {"customer", "choose"} : MoveOn(k, e, at)
    BY <1>2, <1>5, <2>1
  <2>3. /\ e \in RowErrand /\ e.row = i
        /\ e.for = errand[k].for /\ e.user = errand[k].user
    BY <1>3, <2>1 DEF RowErrand
  <2>4. ErrandOK(e, at)
    BY <2>3 DEF ErrandOK, RowStages
  <2>5. ~ selfAsked => e.for = e.user /\ (e.row # 0 => vaTable[e.row].user = e.user)
    BY <1>1, <1>3, <2>3 DEF OwnInv, Own, Resting
  <2>6. ASSUME ~ selfAsked, inLine, e.for \notin bare
        PROVE  RowsFor(e.for) = {} /\ e.row = 0
    <3>1. e.for \in Holder
      BY <1>3, <2>3, <2>5, <2>6
    <3>2. i # 0 => vaTable[i].user \in bare
      BY <1>3, <1>5, <2>6, TableFacts DEF LineInv
    <3> QED
      BY <1>3, <2>3, <2>6, <3>1, <3>2
  <2>7. ~ selfAsked /\ inLine => HasFound(e, at)
    BY <2>6 DEF HasFound
  <2> QED
    BY <1>1, <2>2, <2>4, <2>5, <2>7, MovingStep
    DEF VaTypeOK, Resting, NumberStages
<1> QED
  BY <1>4, <1>5

(* What a request in the middle of its way may rely on.                     *)
LEMMA OnTheWay ==
  ASSUME VaInv, NEW k \in Clerk, where[k] \in RowStages \cup NumberStages
  PROVE  /\ where[k] \notin Resting /\ where[k] # "find"
         /\ where[k] \in RowStages => errand[k] \in RowErrand
         /\ where[k] \in NumberStages => errand[k] \in NumberErrand
         /\ errand[k].for \in Holder \cup {Someone} /\ errand[k].user \in Holder
         /\ errand[k].row \in 0..Size
         /\ ~ selfAsked =>
              /\ errand[k].for = errand[k].user
              /\ errand[k].row # 0 => vaTable[errand[k].row].user = errand[k].user
         /\ ~ selfAsked /\ inLine /\ errand[k].for \notin bare =>
              RowsFor(errand[k].for) = {} /\ errand[k].row = 0
<1>1. /\ where[k] \notin Resting /\ where[k] # "find"
      /\ where[k] \in RowStages => errand[k] \in RowErrand
      /\ where[k] \in NumberStages => errand[k] \in NumberErrand
  BY DEF VaInv, ErrandInv, ErrandOK, Resting, RowStages, NumberStages
<1>2. /\ errand[k].for \in Holder \cup {Someone} /\ errand[k].user \in Holder
      /\ errand[k].row \in 0..Size
  BY <1>1 DEF RowErrand, NumberErrand
<1>3. ~ selfAsked => Own(errand[k], where[k])
  BY DEF VaInv, OwnInv
<1>4. ~ selfAsked /\ inLine => HasFound(errand[k], where[k])
  BY DEF VaInv, LineInv
<1> QED
  BY <1>1, <1>2, <1>3, <1>4 DEF Own, HasFound

(* Going on with what was found.                                            *)
LEMMA GoingOn ==
  ASSUME VaInv, NEW k \in Clerk, where[k] \in RowStages,
         NEW at \in RowStages, MoveOn(k, errand[k], at),
         UNCHANGED <<settings, vaTable, openedFor, vaHistory>>
  PROVE  VaInv'
<1>1. PICK e : e = errand[k]
  OBVIOUS
<1>2. /\ e \in RowErrand /\ MoveOn(k, e, at) /\ where[k] \notin Resting
      /\ ~ selfAsked => /\ e.for = e.user
                        /\ e.row # 0 => vaTable[e.row].user = e.user
      /\ ~ selfAsked /\ inLine /\ e.for \notin bare => RowsFor(e.for) = {} /\ e.row = 0
  BY <1>1, OnTheWay
<1>3. ErrandOK(e, at) /\ (~ selfAsked /\ inLine => HasFound(e, at))
  BY <1>2 DEF ErrandOK, HasFound
<1>4. at \notin NumberStages
  BY DEF RowStages, NumberStages
<1> QED
  BY <1>2, <1>3, <1>4, MovingStep DEF VaInv, VaTypeOK

LEMMA ChooseGatewayStep ==
  ASSUME VaInv, NEW k \in Clerk, ChooseGateway(k)
  PROVE  VaInv'
<1>1. where[k] \in RowStages /\ where[k] \notin Resting
  BY DEF ChooseGateway, RowStages, Resting
<1> QED
  BY <1>1, GoingOn, EndingStep DEF ChooseGateway, RowStages, VaInv, VaTypeOK

LEMMA EnsurePaystackCustomerStep ==
  ASSUME VaInv, NEW k \in Clerk, EnsurePaystackCustomer(k)
  PROVE  VaInv'
<1>1. where[k] \in RowStages /\ where[k] \notin Resting
  BY DEF EnsurePaystackCustomer, RowStages, Resting
<1> QED
  BY <1>1, GoingOn, EndingStep
  DEF EnsurePaystackCustomer, RowStages, VaInv, VaTypeOK

(* A number that was opened, or found again at Paystack, is of no other     *)
(* user.                                                                    *)
LEMMA OpenAccountStep ==
  ASSUME VaInv, NEW k \in Clerk, where[k] \in RowStages,
         NEW label \in {"saveOpened", "findParallex"}, OpenAccount(k, label),
         UNCHANGED <<settings, vaTable, vaHistory>>
  PROVE  VaInv'
<1>1. where[k] \notin Resting /\ errand[k].user \in Holder
  BY OnTheWay
<1>2. CASE EndErrand(k) /\ UNCHANGED openedFor
  BY <1>1, <1>2, EndingStep DEF VaInv, VaTypeOK
<1>3. ASSUME NEW n \in AccountNo,
             \/ openedFor[n] = NotIssued
             \/ label = "saveOpened" /\ openedFor[n] = Issue(errand[k].user, label),
             openedFor' = [openedFor EXCEPT ![n] = Issue(errand[k].user, label)],
             \/ MoveOn(k, [for |-> errand[k].for, user |-> errand[k].user,
                           row |-> errand[k].row, number |-> n], label)
             \/ EndErrand(k)
      PROVE  VaInv'
  <2>1. /\ openedFor' \in [AccountNo -> [user : Holder \cup {Someone},
                                         gateway : {"paystack", "parallex"}]]
        /\ openedFor'[n].user = errand[k].user
        /\ \A m \in AccountNo : openedFor[m].user \in Holder =>
             openedFor'[m].user = openedFor[m].user
    <3>1. /\ Issue(errand[k].user, label) \in
               [user : Holder \cup {Someone}, gateway : {"paystack", "parallex"}]
          /\ Issue(errand[k].user, label).user = errand[k].user
          /\ NotIssued.user \notin Holder
      BY <1>1, VirtualAccountsAssumption DEF Issue, NotIssued
    <3> QED
      BY <1>3, <3>1 DEF VaInv, VaTypeOK
  <2>2. CASE EndErrand(k)
    BY <1>1, <2>1, <2>2, EndingStep
  <2>3. CASE MoveOn(k, [for |-> errand[k].for, user |-> errand[k].user,
                        row |-> errand[k].row, number |-> n], label)
    <3>1. PICK e : e = [for |-> errand[k].for, user |-> errand[k].user,
                        row |-> errand[k].row, number |-> n]
      OBVIOUS
    <3>2. /\ e \in NumberErrand /\ e.for = errand[k].for /\ e.number = n
          /\ e.user = errand[k].user /\ e.row = errand[k].row
      BY <3>1, OnTheWay DEF NumberErrand
    <3>3. /\ ~ selfAsked => /\ e.for = e.user
                            /\ e.row # 0 => vaTable[e.row].user = e.user
          /\ ~ selfAsked /\ inLine /\ e.for \notin bare =>
               RowsFor(e.for) = {} /\ e.row = 0
      BY <3>2, OnTheWay
    <3>4. /\ MoveOn(k, e, label) /\ ErrandOK(e, label)
          /\ ~ selfAsked /\ inLine => HasFound(e, label)
          /\ openedFor'[e.number].user = e.user
      BY <2>1, <2>3, <3>1, <3>2, <3>3 DEF ErrandOK, HasFound, NumberStages
    <3> QED
      BY <1>1, <2>1, <3>3, <3>4, MovingStep
  <2> QED
    BY <1>3, <2>2, <2>3
<1> QED
  BY <1>2, <1>3 DEF OpenAccount

LEMMA RequestDedicatedStep ==
  ASSUME VaInv, NEW k \in Clerk, RequestDedicated(k)
  PROVE  VaInv'
<1>1. where[k] \in RowStages /\ where[k] \notin Resting
  BY DEF RequestDedicated, RowStages, Resting
<1> QED
  BY <1>1, OpenAccountStep, EndingStep DEF RequestDedicated, VaInv, VaTypeOK

LEMMA GenerateAccountStep ==
  ASSUME VaInv, NEW k \in Clerk, GenerateAccount(k)
  PROVE  VaInv'
<1>1. where[k] \in RowStages /\ where[k] \notin Resting
  BY DEF GenerateAccount, RowStages, Resting
<1> QED
  BY <1>1, OpenAccountStep, EndingStep DEF GenerateAccount, VaInv, VaTypeOK

LEMMA FindParallexRowStep ==
  ASSUME VaInv, NEW k \in Clerk, FindParallexRow(k)
  PROVE  VaInv'
<1> DEFINE theirs == {j \in RowsFor(errand[k].for) : vaTable[j].gateway = "parallex"}
<1>1. /\ where[k] = "findParallex"
      /\ UNCHANGED <<settings, parallexOn, vaTable, openedFor, vaHistory>>
  BY DEF FindParallexRow
<1>2. /\ where[k] \notin Resting /\ errand[k] \in NumberErrand
      /\ errand[k].for \in Holder \cup {Someone}
      /\ ~ selfAsked => errand[k].for = errand[k].user
      /\ ~ selfAsked /\ inLine /\ errand[k].for \notin bare =>
           RowsFor(errand[k].for) = {}
      /\ ~ selfAsked => openedFor[errand[k].number].user = errand[k].user
  BY <1>1, OnTheWay DEF NumberStages, VaInv, OwnInv, Own
<1>3. PICK i \in OneOf(theirs) : MoveOn(k, [errand[k] EXCEPT !.row = i], "saveParallex")
  BY DEF FindParallexRow
<1>4. /\ i \in 0..Size
      /\ errand[k].for \in Holder /\ i # 0 => vaTable[i].user = errand[k].for
      /\ i # 0 => i \in theirs
  <2>1. theirs \subseteq RowsFor(errand[k].for)
    OBVIOUS
  <2> HIDE DEF theirs
  <2> QED
    BY <1>2, <2>1, OneOfRows DEF VaInv
<1>5. PICK e : e = [errand[k] EXCEPT !.row = i]
  OBVIOUS
<1>6. /\ e \in NumberErrand /\ e.row = i /\ e.for = errand[k].for
      /\ e.user = errand[k].user /\ e.number = errand[k].number
      /\ e.user \in Holder
  BY <1>2, <1>4, <1>5 DEF NumberErrand
<1>7. /\ ~ selfAsked => /\ e.for = e.user
                        /\ e.row # 0 => vaTable[e.row].user = e.user
                        /\ openedFor[e.number].user = e.user
      /\ ~ selfAsked /\ inLine /\ e.for \notin bare =>
           RowsFor(e.for) = {} /\ e.row = 0
  BY <1>2, <1>4, <1>6
<1>8. /\ MoveOn(k, e, "saveParallex") /\ ErrandOK(e, "saveParallex")
      /\ ~ selfAsked /\ inLine => HasFound(e, "saveParallex")
  BY <1>3, <1>5, <1>6, <1>7 DEF ErrandOK, HasFound, NumberStages
<1> QED
  BY <1>1, <1>2, <1>7, <1>8, MovingStep DEF VaInv, VaTypeOK

LEMMA SetSettingStep == VaInv /\ SetSetting => VaInv'
<1> SUFFICES ASSUME VaInv, SetSetting PROVE VaInv'
  OBVIOUS
<1>1. VaTypeOK'
  BY DEF SetSetting, VaInv, VaTypeOK
<1> QED
  BY <1>1
  DEF SetSetting, vaHistory, VaInv, ErrandInv, ErrandOK, RowErrand, NumberErrand,
      OwnInv, Own, LineInv, HasFound, Kept, RowsFor, Size

LEMMA RestartStep == VaInv /\ Restart => VaInv'
<1> SUFFICES ASSUME VaInv, Restart PROVE VaInv'
  OBVIOUS
<1> USE DEF VaInv, Restart, vaHistory
<1>1. \A k \in Clerk : errand'[k] = NoErrand /\ where'[k] \in Resting
  BY DEF Resting
<1>2. VaTypeOK' /\ ErrandInv'
  BY <1>1 DEF VaTypeOK, ErrandInv, ErrandOK
<1>3. ~ selfAsked => OwnInv'
  BY <1>1 DEF OwnInv, Own, Size, Resting, NumberStages
<1>4. ~ selfAsked /\ inLine => LineInv'
  BY <1>1 DEF LineInv, HasFound, Kept, RowsFor, Size
<1> QED
  BY <1>2, <1>3, <1>4

-----------------------------------------------------------------------------
(* Steps that save a row, each the last one of its request.                 *)

(* Rows keep their user, a number is nobody else's and was opened for the   *)
(* user of its row, and no user is told another number.                     *)
LEMMA SavingStep ==
  ASSUME VaInv, NEW k \in Clerk, where[k] \notin Resting, EndErrand(k),
         UNCHANGED <<settings, openedFor, selfAsked, inLine>>,
         vaTable' \in Seq(VirtualAccount), Size' >= Size,
         \A i \in 1..Size : vaTable'[i].user = vaTable[i].user,
         \A i, j \in 1..Size' :
           vaTable'[i].number = vaTable'[j].number =>
             i = j \/ vaTable'[i].number = NoNumber,
         told' \in [Holder -> SUBSET AccountNo],
         bare' \subseteq Holder,
         ~ selfAsked => \A i \in 1..Size' :
           /\ vaTable'[i].user \in Holder
           /\ vaTable'[i].number # NoNumber =>
                openedFor[vaTable'[i].number].user = vaTable'[i].user,
         ~ selfAsked /\ inLine =>
           /\ \A i \in 1..Size' :
                vaTable'[i].number = NoNumber => vaTable'[i].user \in bare'
           /\ \A u \in Holder \ bare' : \A n \in told'[u] :
                /\ told'[u] = {n}
                /\ \E i \in 1..Size' : vaTable'[i].user = u /\ vaTable'[i].number = n
  PROVE  VaInv'
<1> USE DEF VaInv
<1>1. /\ errand'[k] = NoErrand /\ where'[k] = "left"
      /\ \A j \in Clerk \ {k} : errand'[j] = errand[j] /\ where'[j] = where[j]
      /\ errand' = [j \in Clerk |-> errand'[j]] /\ where' = [j \in Clerk |-> where'[j]]
  BY DEF EndErrand, MoveOn, ErrandInv
<1>2. Size \in Nat /\ Size' \in Nat /\ DOMAIN vaTable' = 1..Size'
  BY TableFacts, LenProperties DEF Size
<1>3. VaTypeOK'
  BY <1>2 DEF VaTypeOK
<1>4. ErrandInv'
  <2>1. \A j \in Clerk : ErrandOK(errand[j], where[j])'
    <3> SUFFICES ASSUME NEW j \in Clerk PROVE ErrandOK(errand[j], where[j])'
      OBVIOUS
    <3>1. CASE j = k
      BY <1>1, <3>1 DEF ErrandOK, Resting
    <3>2. CASE j # k
      <4>1. ErrandOK(errand[j], where[j]) /\ 0..Size \subseteq 0..Size'
        BY <1>2 DEF ErrandInv
      <4> QED
        BY <1>1, <3>2, <4>1 DEF ErrandOK, RowErrand, NumberErrand
    <3> QED
      BY <3>1, <3>2
  <2> QED
    BY <1>1, <2>1 DEF ErrandInv
<1>5. ASSUME ~ selfAsked PROVE OwnInv'
  <2>1. \A j \in Clerk : Own(errand[j], where[j])'
    <3> SUFFICES ASSUME NEW j \in Clerk PROVE Own(errand[j], where[j])'
      OBVIOUS
    <3>1. CASE j = k
      BY <1>1, <3>1 DEF Own, Resting, NumberStages
    <3>2. CASE j # k
      <4>1. Own(errand[j], where[j])
        BY <1>5 DEF OwnInv
      <4>2. where[j] \notin Resting \cup {"find"} => errand[j].row \in 0..Size
        BY DEF ErrandInv, ErrandOK, RowErrand, NumberErrand
      <4>3. where[j] \notin Resting \cup {"find"} /\ errand[j].row # 0 =>
              errand[j].row \in 1..Size
        BY <1>2, <4>2
      <4> QED
        BY <1>1, <3>2, <4>1, <4>3 DEF Own
    <3> QED
      BY <3>1, <3>2
  <2> QED
    BY <1>5, <2>1 DEF OwnInv
<1>6. ASSUME ~ selfAsked, inLine PROVE LineInv'
  <2>1. \A j \in Clerk : where'[j] \in Resting
    BY <1>1, <1>6 DEF LineInv, Resting
  <2>2. \A u \in Holder \ bare' : Kept(u)'
    <3>1. \A u \in Holder : RowsFor(u)' = {i \in 1..Size' : vaTable'[i].user = u}
      BY <1>2, VirtualAccountsAssumption DEF RowsFor
    <3> QED
      BY <1>6, <3>1 DEF Kept
  <2> QED
    BY <1>6, <2>1, <2>2 DEF LineInv, HasFound
<1> QED
  BY <1>3, <1>4, <1>5, <1>6

(* One more row.                                                            *)
LEMMA RowAdded ==
  ASSUME VaTypeOK, NEW row \in VirtualAccount, vaTable' = Append(vaTable, row)
  PROVE  /\ vaTable' \in Seq(VirtualAccount) /\ Size' = Size + 1 /\ Size \in Nat
         /\ 1..Size' = (1..Size) \cup {Size + 1} /\ Size + 1 \notin 1..Size
         /\ vaTable'[Size + 1] = row
         /\ \A i \in 1..Size : vaTable'[i] = vaTable[i]
<1>1. Size \in Nat /\ vaTable \in Seq(VirtualAccount)
  BY TableFacts
<1>2. /\ vaTable' \in Seq(VirtualAccount) /\ Size' = Size + 1
      /\ vaTable'[Size + 1] = row
      /\ \A i \in 1..Size : vaTable'[i] = vaTable[i]
  BY <1>1, AppendProperties DEF Size
<1>3. \A i : i \in 1..Size + 1 <=> i \in 1..Size \/ i = Size + 1
  BY <1>1
<1>4. 1..Size' = (1..Size) \cup {Size + 1} /\ Size + 1 \notin 1..Size
  BY <1>1, <1>2, <1>3
<1> QED
  BY <1>1, <1>2, <1>4

(* A row that gets a number.                                                *)
Numbered(r, n) == vaTable' = [vaTable EXCEPT ![r].number = n]

LEMMA RowNumbered ==
  ASSUME VaTypeOK, NEW r \in 1..Size, NEW n \in AccountNo, Numbered(r, n)
  PROVE  /\ vaTable' \in Seq(VirtualAccount) /\ Size' = Size /\ Size \in Nat
         /\ \A i \in 1..Size : vaTable'[i].user = vaTable[i].user
         /\ \A i \in 1..Size : i # r => vaTable'[i] = vaTable[i]
         /\ vaTable'[r].number = n
<1>1. PICK row : row = [vaTable[r] EXCEPT !.number = n]
  OBVIOUS
<1>2. /\ vaTable[r] \in VirtualAccount /\ Size \in Nat
      /\ vaTable \in Seq(VirtualAccount)
  BY TableFacts
<1>3. row \in VirtualAccount /\ row.user = vaTable[r].user /\ row.number = n
  BY <1>1, <1>2 DEF VirtualAccount
<1>4. vaTable' = [vaTable EXCEPT ![r] = row]
  BY <1>1, <1>2, TableFacts DEF Numbered
<1>5. /\ vaTable' \in Seq(VirtualAccount) /\ Size' = Size
      /\ \A i \in 1..Size : vaTable'[i] = IF i = r THEN row ELSE vaTable[i]
  BY <1>2, <1>3, <1>4, ExceptSeq DEF Size
<1> QED
  BY <1>2, <1>3, <1>5

LEMMA HoldPlaceStep ==
  ASSUME VaInv, NEW k \in Clerk, HoldPlace(k)
  PROVE  VaInv'
<1> USE DEF VaInv
<1>1. PICK row : row = [user |-> errand[k].for, number |-> NoNumber, gateway |-> "paystack"]
  OBVIOUS
<1>2. /\ where[k] \notin Resting /\ errand[k].for \in Holder \cup {Someone}
      /\ ~ selfAsked => errand[k].for \in Holder
  BY OnTheWay DEF HoldPlace, RowStages
<1>3. row \in VirtualAccount /\ row.user = errand[k].for /\ row.number = NoNumber
  BY <1>1, <1>2 DEF VirtualAccount
<1>4. /\ vaTable' = Append(vaTable, row) /\ EndErrand(k)
      /\ bare' = bare \cup ({errand[k].for} \cap Holder)
      /\ UNCHANGED <<settings, openedFor, told, selfAsked, inLine>>
  BY <1>1 DEF HoldPlace
<1>5. /\ vaTable' \in Seq(VirtualAccount) /\ Size' = Size + 1 /\ Size \in Nat
      /\ 1..Size' = (1..Size) \cup {Size + 1}
      /\ vaTable'[Size + 1] = row
      /\ \A i \in 1..Size : vaTable'[i] = vaTable[i]
  BY <1>3, <1>4, RowAdded
<1>6. \A i, j \in 1..Size' :
        vaTable'[i].number = vaTable'[j].number =>
          i = j \/ vaTable'[i].number = NoNumber
  <2>1. \A i, j \in 1..Size : vaTable[i].number = vaTable[j].number =>
          i = j \/ vaTable[i].number = NoNumber
    BY TableFacts DEF VaTypeOK
  <2> QED
    BY <1>3, <1>5, <2>1
<1>7. ~ selfAsked => \A i \in 1..Size' :
        /\ vaTable'[i].user \in Holder
        /\ vaTable'[i].number # NoNumber =>
             openedFor[vaTable'[i].number].user = vaTable'[i].user
  BY <1>2, <1>3, <1>5 DEF OwnInv
<1>8. ASSUME ~ selfAsked, inLine
      PROVE  /\ \A i \in 1..Size' :
                  vaTable'[i].number = NoNumber => vaTable'[i].user \in bare'
             /\ \A u \in Holder \ bare' : \A n \in told'[u] :
                  /\ told'[u] = {n}
                  /\ \E i \in 1..Size' : vaTable'[i].user = u /\ vaTable'[i].number = n
  <2>1. \A i \in 1..Size' :
          vaTable'[i].number = NoNumber => vaTable'[i].user \in bare'
    BY <1>2, <1>3, <1>4, <1>5, <1>8 DEF LineInv
  <2>2. \A u \in Holder \ bare' : Kept(u) /\ told'[u] = told[u]
    BY <1>4, <1>8 DEF LineInv
  <2> QED
    BY <1>5, <2>1, <2>2, TableFacts DEF Kept
<1>9. told' \in [Holder -> SUBSET AccountNo] /\ bare' \subseteq Holder
  BY <1>4 DEF ErrandInv
<1>10. Size' >= Size /\ \A i \in 1..Size : vaTable'[i].user = vaTable[i].user
  BY <1>5
<1> HIDE DEF VaInv
<1> QED
  BY <1>2, <1>4, <1>5, <1>6, <1>7, <1>8, <1>9, <1>10, SavingStep

(* The number is saved in the row that was found, or in a new one: if       *)
(* nobody was in between, none was found for a user who gets its first one. *)
LEMMA NumberSaved ==
  ASSUME VaInv, NEW k \in Clerk, where[k] \in NumberStages,
         NEW e, e = errand[k], NEW row \in VirtualAccount,
         row.number = e.number, ~ selfAsked => row.user = e.user,
         Free(e.number, e.row), EndErrand(k), Tell(e.for, e.number),
         e.row # 0 => Numbered(e.row, e.number),
         e.row = 0 => vaTable' = Append(vaTable, row),
         UNCHANGED <<settings, openedFor, selfAsked, bare, inLine>>
  PROVE  VaInv'
<1> USE DEF VaInv
<1>0. VaTypeOK
  OBVIOUS
<1>1. /\ where[k] \notin Resting /\ e \in NumberErrand
      /\ e.for \in Holder \cup {Someone} /\ e.user \in Holder
      /\ e.row \in 0..Size /\ e.number \in AccountNo
      /\ ~ selfAsked => /\ e.for = e.user
                        /\ e.row # 0 => vaTable[e.row].user = e.user
                        /\ openedFor[e.number].user = e.user
      /\ ~ selfAsked /\ inLine /\ e.for \notin bare =>
           RowsFor(e.for) = {} /\ e.row = 0
  BY OnTheWay DEF NumberErrand, OwnInv, Own
<1> DEFINE r == IF e.row # 0 THEN e.row ELSE Size + 1
<1>2. /\ r \in 1..Size' /\ Size' \in Nat
      /\ vaTable' \in Seq(VirtualAccount) /\ Size' >= Size /\ Size \in Nat
      /\ \A i \in 1..Size : vaTable'[i].user = vaTable[i].user
      /\ \A i \in 1..Size' : i # r => i \in 1..Size /\ vaTable'[i] = vaTable[i]
      /\ vaTable'[r].number = e.number
      /\ ~ selfAsked => vaTable'[r].user = e.user
      /\ r \in 1..Size => r = e.row
      /\ e.row # 0 => r = e.row
  <2>1. CASE e.row # 0
    <3>1. r \in 1..Size /\ r = e.row /\ Numbered(r, e.number)
      BY <1>1, <2>1, TableFacts
    <3> HIDE DEF VaInv, r
    <3>2. /\ vaTable' \in Seq(VirtualAccount) /\ Size' = Size /\ Size \in Nat
          /\ \A i \in 1..Size : vaTable'[i].user = vaTable[i].user
          /\ \A i \in 1..Size : i # r => vaTable'[i] = vaTable[i]
          /\ vaTable'[r].number = e.number
      BY <1>0, <1>1, <3>1, RowNumbered
    <3>3. ~ selfAsked => vaTable'[r].user = e.user
      BY <1>1, <2>1, <3>1, <3>2
    <3> QED
      BY <3>1, <3>2, <3>3
  <2>2. CASE e.row = 0
    <3>1. r = Size + 1 /\ vaTable' = Append(vaTable, row)
      BY <2>2
    <3> HIDE DEF VaInv, r
    <3>2. /\ vaTable' \in Seq(VirtualAccount) /\ Size' = Size + 1 /\ Size \in Nat
          /\ 1..Size' = (1..Size) \cup {r} /\ r \notin 1..Size
          /\ vaTable'[r] = row
          /\ \A i \in 1..Size : vaTable'[i] = vaTable[i]
      BY <1>0, <3>1, RowAdded
    <3> QED
      BY <2>2, <3>2
  <2> QED
    BY <2>1, <2>2
<1> HIDE DEF r
<1>3. \A i \in 1..Size' : i # r => vaTable'[i].number # e.number
  BY <1>1, <1>2, TableFacts DEF Free
<1>4. \A i, j \in 1..Size' :
        vaTable'[i].number = vaTable'[j].number =>
          i = j \/ vaTable'[i].number = NoNumber
  <2>1. \A i, j \in 1..Size : vaTable[i].number = vaTable[j].number =>
          i = j \/ vaTable[i].number = NoNumber
    BY TableFacts DEF VaTypeOK
  <2> QED
    BY <1>2, <1>3, <2>1
<1>5. told' \in [Holder -> SUBSET AccountNo]
  BY <1>1 DEF Tell, ErrandInv
<1>6. ~ selfAsked => \A i \in 1..Size' :
        /\ vaTable'[i].user \in Holder
        /\ vaTable'[i].number # NoNumber =>
             openedFor[vaTable'[i].number].user = vaTable'[i].user
  <2>1. ~ selfAsked => \A i \in 1..Size :
          /\ vaTable[i].user \in Holder
          /\ vaTable[i].number # NoNumber =>
               openedFor[vaTable[i].number].user = vaTable[i].user
    BY DEF OwnInv
  <2> HIDE DEF VaInv, r
  <2> QED
    BY <1>1, <1>2, <2>1
<1>7. ASSUME ~ selfAsked, inLine
      PROVE  /\ \A i \in 1..Size' :
                  vaTable'[i].number = NoNumber => vaTable'[i].user \in bare
             /\ \A u \in Holder \ bare : \A n \in told'[u] :
                  /\ told'[u] = {n}
                  /\ \E i \in 1..Size' : vaTable'[i].user = u /\ vaTable'[i].number = n
  <2>1. ASSUME NEW i \in 1..Size', vaTable'[i].number = NoNumber
        PROVE  vaTable'[i].user \in bare
    <3>1. CASE i # r
      BY <1>2, <1>7, <2>1, <3>1 DEF LineInv
    <3>2. CASE i = r
      BY <1>1, <1>2, <2>1, <3>2, VirtualAccountsAssumption
    <3> QED
      BY <3>1, <3>2
  <2>2. ASSUME NEW u \in Holder \ bare, NEW n \in told'[u]
        PROVE  /\ told'[u] = {n}
               /\ \E i \in 1..Size' : vaTable'[i].user = u /\ vaTable'[i].number = n
    <3>1. Kept(u) /\ RowsFor(u) = {i \in 1..Size : vaTable[i].user = u}
      BY <1>7, TableFacts DEF LineInv
    <3>2. CASE u = e.for
      <4>1. told[u] = {}
        BY <1>1, <1>7, <3>1, <3>2 DEF Kept
      <4>2. told'[u] = {e.number}
        BY <3>2, <4>1, VirtualAccountsAssumption DEF Tell, ErrandInv
      <4> QED
        BY <1>1, <1>2, <1>7, <2>2, <3>2, <4>2
    <3>3. CASE u # e.for
      <4>1. told'[u] = told[u]
        BY <3>3 DEF Tell, ErrandInv
      <4>2. PICK i \in 1..Size : vaTable[i].user = u /\ vaTable[i].number = n
        BY <2>2, <3>1, <4>1 DEF Kept
      <4>3. i # r /\ i \in 1..Size'
        BY <1>1, <1>2, <1>7, <3>3, <4>2
      <4> QED
        BY <1>2, <2>2, <3>1, <4>1, <4>2, <4>3 DEF Kept
    <3> QED
      BY <3>2, <3>3
  <2> QED
    BY <2>1, <2>2
<1>8. bare \subseteq Holder
  BY DEF ErrandInv
<1> HIDE DEF VaInv
<1> QED
  BY <1>1, <1>2, <1>4, <1>5, <1>6, <1>7, <1>8, SavingStep

(* Nothing is saved.                                                        *)
LEMMA NothingSaved ==
  ASSUME VaInv, NEW k \in Clerk, where[k] \in NumberStages, EndErrand(k),
         UNCHANGED <<settings, vaTable, openedFor, vaHistory>>
  PROVE  VaInv'
<1>1. where[k] \notin Resting
  BY OnTheWay
<1> QED
  BY <1>1, EndingStep DEF VaInv, VaTypeOK

LEMMA SaveOpenedStep ==
  ASSUME VaInv, NEW k \in Clerk, SaveOpened(k)
  PROVE  VaInv'
<1>1. PICK e : e = errand[k]
  OBVIOUS
<1>2. /\ where[k] \in NumberStages /\ EndErrand(k)
      /\ UNCHANGED <<settings, openedFor, selfAsked, bare, inLine>>
  BY DEF SaveOpened, NumberStages
<1>3. CASE UNCHANGED <<vaTable, told>>
  BY <1>2, <1>3, NothingSaved DEF vaHistory
<1>4. PICK row : row = [user |-> e.user, number |-> e.number, gateway |-> "paystack"]
  OBVIOUS
<1>5. /\ row \in VirtualAccount /\ row.number = e.number /\ row.user = e.user
  <2>1. e.user \in Holder /\ e.number \in AccountNo
    BY <1>1, <1>2, OnTheWay DEF NumberErrand
  <2> QED
    BY <1>4, <2>1 DEF VirtualAccount
<1>6. CASE ~ UNCHANGED <<vaTable, told>>
  <2>1. /\ Free(e.number, e.row) /\ Tell(e.for, e.number)
        /\ e.row # 0 => Numbered(e.row, e.number)
        /\ e.row = 0 => vaTable' = Append(vaTable, row)
    BY <1>1, <1>4, <1>6, Zenon DEF SaveOpened, Numbered
  <2> QED
    BY <1>1, <1>2, <1>5, <2>1, NumberSaved
<1> QED
  BY <1>3, <1>6

LEMMA SaveParallexRowStep ==
  ASSUME VaInv, NEW k \in Clerk, SaveParallexRow(k)
  PROVE  VaInv'
<1>1. PICK e : e = errand[k]
  OBVIOUS
<1>2. /\ where[k] \in NumberStages /\ EndErrand(k)
      /\ UNCHANGED <<settings, openedFor, selfAsked, bare, inLine>>
  BY DEF SaveParallexRow, NumberStages
<1>3. CASE UNCHANGED <<vaTable, told>>
  BY <1>2, <1>3, NothingSaved DEF vaHistory
<1>4. PICK row : row = [user |-> e.for, number |-> e.number, gateway |-> "parallex"]
  OBVIOUS
<1>5. /\ row \in VirtualAccount /\ row.number = e.number
      /\ ~ selfAsked => row.user = e.user
  <2>1. /\ e.for \in Holder \cup {Someone} /\ e.number \in AccountNo
        /\ ~ selfAsked => e.for = e.user
    BY <1>1, <1>2, OnTheWay DEF NumberErrand
  <2> QED
    BY <1>4, <2>1 DEF VirtualAccount
<1>6. CASE ~ UNCHANGED <<vaTable, told>>
  <2>1. /\ Free(e.number, e.row) /\ Tell(e.for, e.number)
        /\ e.row # 0 => Numbered(e.row, e.number)
        /\ e.row = 0 => vaTable' = Append(vaTable, row)
    BY <1>1, <1>4, <1>6, Zenon DEF SaveParallexRow, Numbered
  <2> QED
    BY <1>1, <1>2, <1>5, <2>1, NumberSaved
<1> QED
  BY <1>3, <1>6

-----------------------------------------------------------------------------
(* What follows.                                                            *)

LEMMA VaInvNext == VaInv /\ [VaNext]_vaVars => VaInv'
<1> SUFFICES ASSUME VaInv, [VaNext]_vaVars PROVE VaInv'
  OBVIOUS
<1>1. CASE UNCHANGED vaVars
  BY <1>1
  DEF vaVars, vaHistory, VaInv, VaTypeOK, ErrandInv, ErrandOK, RowErrand,
      NumberErrand, OwnInv, Own, LineInv, HasFound, Kept, RowsFor, Size
<1>2. CASE VaNext
  BY <1>2, ProvisionStep, RequestAccountStep, ActivateStep, FindRowStep,
     ChooseGatewayStep, HoldPlaceStep, EnsurePaystackCustomerStep,
     RequestDedicatedStep, SaveOpenedStep, GenerateAccountStep,
     FindParallexRowStep, SaveParallexRowStep, SetSettingStep, RestartStep
  DEF VaNext
<1> QED
  BY <1>1, <1>2

LEMMA VaInvariant == VaSpec => []VaInv
BY VaInitially, VaInvNext, PTL DEF VaSpec

(* The table has its type, and a number stands in one row at most.          *)
THEOREM AccountTypes == VaSpec => []VaTypeOK
<1>1. VaInv => VaTypeOK
  BY DEF VaInv
<1> QED
  BY VaInvariant, <1>1, PTL

(* As long as no member asks for itself, every number in the table was      *)
(* opened for the user of its row, however requests overlap.                *)
THEOREM NumbersReachTheirUser == VaSpec => []NumbersAreOfTheirUser
<1>1. VaInv => NumbersAreOfTheirUser
  BY TableFacts DEF VaInv, OwnInv, NumbersAreOfTheirUser
<1> QED
  BY VaInvariant, <1>1, PTL

(* As long as requests also come one after the other, a user for whom no    *)
(* place was held gets one number and keeps it (provision, activate).       *)
THEOREM AccountsAreKept == VaSpec => []AccountIsKept
<1>1. VaInv => AccountIsKept
  BY DEF VaInv, LineInv, Kept, AccountIsKept
<1> QED
  BY VaInvariant, <1>1, PTL

-----------------------------------------------------------------------------
(* Payments.                                                                *)

Rows      == {m \in Money : Fits(m)} \cup {Null}
Begun     == {"connect", "findWallet"}
Crediting == {"updateWallet", "updateAccount", "readMember", "saveMember",
              "record", "commitCredit"}
Updated   == Crediting \ {"updateWallet"}
Checked   == Updated \ {"updateAccount"}
HookLabel == Begun \cup Crediting \cup
             {"idle", "notify", "rollback", "done", "failed", "lost"}
Booking   == [op : {"deposit"}, src : {NoWallet}, dst : Wallet,
              amount : Money, otp : {FALSE}, type : {"contribution"}]

PayTypes ==
  /\ PaystackTypeOK
  /\ lock \in [Wallet -> Proc \cup {NoProc}]
  /\ pc \in [Proc -> Label \cup HookLabel]
  /\ req \in [Proc -> Requests \cup Booking \cup {Null}]
  /\ mem \in [Proc -> [src : Balances, dst : Balances]]
  /\ dirty \in [Proc -> [Wallet -> Balances]]

(* A row that does not exist has no lock.                                   *)
LocksExist == \A w \in Wallet : lock[w] # NoProc => balance[w] # Null

(* A request of WalletService: what it holds in memory and has locked and   *)
(* saved, by the step it is at, is as it would be without deliveries.       *)
ClientRequest(p) ==
  /\ pc[p] \in Label
  /\ pc[p] # "idle" => req[p] \in Requests
  /\ InFlight(p) => Accepted(req[p])
  /\ pc[p] \in {"lockSource", "saveSource"} => Debits(req[p])
  /\ pc[p] \in {"lockDestination", "saveDestination"} => Credits(req[p])
  /\ Computed(p) => /\ Debits(req[p]) => mem[p].src \in Money
                    /\ Credits(req[p]) => mem[p].dst \in Money
  /\ SavedDestination(p) => Fits(mem[p].dst)
ClientLocks(p) ==
  /\ HasSource(p) /\ mem[p].src # Null => lock[req[p].src] = p
  /\ HasDestination(p) /\ mem[p].dst # Null => lock[req[p].dst] = p
ClientRows(p) ==
  /\ HasSource(p) =>
       IF Computed(p)
       THEN /\ balance[req[p].src] # Null
            /\ balance[req[p].src] >= req[p].amount
            /\ mem[p].src \in Column(balance[req[p].src] - req[p].amount)
       ELSE mem[p].src \in {Null, balance[req[p].src]}
  /\ HasDestination(p) =>
       IF Computed(p)
       THEN /\ balance[req[p].dst] # Null
            /\ mem[p].dst \in Column(balance[req[p].dst] + req[p].amount)
       ELSE mem[p].dst \in {Null, balance[req[p].dst]}
ClientDrafts(p) == \A w \in Wallet : dirty[p][w] = Draft(p, w)
ClientOK(p) == /\ ClientRequest(p) /\ ClientLocks(p)
               /\ ClientRows(p) /\ ClientDrafts(p)

(* A delivery: it credits a row that exists and that it has locked when it  *)
(* has written it, or a row of its own that nobody else sees.               *)
HookOK(h) ==
  /\ pc[h] \in HookLabel
  /\ pc[h] \in Begun \cup Crediting =>
       /\ EventOf(h) \in Event /\ EventOf(h).amount \in Money
       /\ hook[h].account \in Money
  /\ pc[h] \in Crediting =>
       /\ WalletOf(h) \in Wallet /\ mem[h].dst \in Money
       /\ hook[h].new <=> balance[WalletOf(h)] = Null
  /\ pc[h] \in Updated =>
       /\ Fits(mem[h].dst) /\ dirty[h][WalletOf(h)] = mem[h].dst
       /\ ~ hook[h].new => lock[WalletOf(h)] = h
  /\ pc[h] \in Checked => Fits(hook[h].account + EventOf(h).amount)
NewApart ==
  \A g, h \in Hook :
    g # h /\ hook[g].new /\ hook[h].new => WalletOf(g) # WalletOf(h)

PaymentsInv ==
  /\ PayTypes /\ LocksExist /\ NewApart
  /\ \A p \in Client : ClientOK(p)
  /\ \A h \in Hook : HookOK(h)

(* A step of p leaves what others know alone: it changes rows that it has   *)
(* locked, and at most one that is nobody's yet, and keeps others' locks.   *)
Frame(p) ==
  /\ \A q \in Proc \ {p} : /\ pc'[q] = pc[q] /\ req'[q] = req[q]
                           /\ mem'[q] = mem[q] /\ dirty'[q] = dirty[q]
  /\ \A h \in Hook \ {p} : hook'[h] = hook[h]
  /\ \A w \in Wallet : lock[w] \notin {NoProc, p} => lock'[w] = lock[w]
  /\ \A w \in Wallet :
       \/ balance'[w] = balance[w]
       \/ /\ lock[w] = p /\ balance'[w] # Null
       \/ /\ p \in Hook /\ hook[p].new /\ w = WalletOf(p)
          /\ balance[w] = Null

LEMMA PaymentsInitially == PaystackInit => PaymentsInv
<1> SUFFICES ASSUME PaystackInit PROVE PaymentsInv
  OBVIOUS
<1> USE ConstantsAssumption, PaystackAssumption, MaxBalanceAssumption
<1>1. balance \in [Wallet -> Rows]
  BY DEF PaystackInit, Init, Rows
<1>2. 0 \in Money /\ Fits(0)
  BY DEF Money, Whole, Fits
<1>3. PaystackTypeOK
  BY <1>1, <1>2
  DEF PaystackInit, PaystackTypeOK, Rows, Balances, NoDelivery
<1>4. PayTypes
  BY <1>3 DEF PaystackInit, Init, PayTypes, Label, Ended, NoWrites, Balances
<1>5. LocksExist /\ NewApart
  BY DEF PaystackInit, Init, LocksExist, NewApart, NoDelivery
<1>6. ASSUME NEW p \in Client PROVE ClientOK(p)
  BY <1>6
  DEF PaystackInit, Init, Client, ClientOK, ClientRequest, ClientLocks,
      ClientRows, ClientDrafts, Draft, SavedSource, SavedDestination, Inserting,
      HasSource, HasDestination, Computed, InFlight, Label, Ended, NoWrites
<1>7. ASSUME NEW h \in Hook PROVE HookOK(h)
  BY <1>7
  DEF PaystackInit, Init, HookOK, HookLabel, Begun, Crediting, Updated, Checked
<1> QED
  BY <1>4, <1>5, <1>6, <1>7 DEF PaymentsInv

(* Who is who.                                                              *)
LEMMA Parties ==
  /\ \A p \in Client : p \in Proc /\ p \notin Hook
  /\ \A h \in Hook : h \in Proc /\ h \notin Client
  /\ \A p \in Proc : p \in Client \/ p \in Hook
  /\ NoProc \notin Proc
BY PaystackAssumption, ConstantsAssumption DEF Client

(* What the others know stays true.                                         *)
LEMMA OthersStay ==
  ASSUME PaymentsInv, NEW p \in Proc, Frame(p)
  PROVE  /\ \A q \in Client \ {p} : ClientOK(q)'
         /\ \A h \in Hook \ {p} : HookOK(h)'
<1>1. ASSUME NEW q \in Client \ {p} PROVE ClientOK(q)'
  <2>1. /\ q \in Proc \ {p} /\ q # NoProc
        /\ pc'[q] = pc[q] /\ req'[q] = req[q]
        /\ mem'[q] = mem[q] /\ dirty'[q] = dirty[q]
    BY Parties DEF Frame
  <2>2. ClientOK(q)
    BY DEF PaymentsInv
  <2>3. /\ HasSource(q)' <=> HasSource(q)
        /\ HasDestination(q)' <=> HasDestination(q)
        /\ Computed(q)' <=> Computed(q)
    BY <2>1 DEF HasSource, HasDestination, Computed
  <2>4. ClientRequest(q)'
    BY <2>1, <2>2
    DEF ClientOK, ClientRequest, Computed, InFlight, SavedDestination
  <2>5. ClientDrafts(q)'
    BY <2>1, <2>2
    DEF ClientOK, ClientDrafts, Draft, SavedSource, SavedDestination
  <2>6. ASSUME HasSource(q) \/ HasDestination(q) PROVE req[q] \in Requests
    BY <2>2, <2>6
    DEF ClientOK, ClientRequest, HasSource, HasDestination
  <2>7. ASSUME NEW w \in Wallet, lock[w] = q
        PROVE  lock'[w] = q /\ balance'[w] = balance[w] /\ balance[w] # Null
    BY <2>1, <2>7 DEF Frame, PaymentsInv, LocksExist
  <2>8. HasSource(q) => req[q].src \in Wallet
    BY <2>6, RequestFacts DEF HasSource
  <2>9. HasDestination(q) => req[q].dst \in Wallet
    BY <2>6, RequestFacts DEF HasDestination
  <2>10. ClientLocks(q)'
    BY <2>1, <2>2, <2>3, <2>7, <2>8, <2>9 DEF ClientOK, ClientLocks
  <2>11. HasSource(q) /\ Computed(q) => mem[q].src # Null
    BY <2>2, ConstantsAssumption
    DEF ClientOK, ClientRequest, HasSource, Money
  <2>12. HasDestination(q) /\ Computed(q) => mem[q].dst # Null
    BY <2>2, ConstantsAssumption
    DEF ClientOK, ClientRequest, HasDestination, Money
  <2>13. ClientRows(q)'
    <3>2. HasSource(q) /\ mem[q].src # Null =>
            balance'[req[q].src] = balance[req[q].src]
      BY <2>2, <2>7, <2>8 DEF ClientOK, ClientLocks
    <3>3. HasDestination(q) /\ mem[q].dst # Null =>
            balance'[req[q].dst] = balance[req[q].dst]
      BY <2>2, <2>7, <2>9 DEF ClientOK, ClientLocks
    <3> QED
      BY <2>1, <2>2, <2>3, <2>11, <2>12, <3>2, <3>3 DEF ClientOK, ClientRows
  <2> QED
    BY <2>4, <2>5, <2>10, <2>13 DEF ClientOK
<1>2. ASSUME NEW h \in Hook \ {p} PROVE HookOK(h)'
  <2>1. /\ h \in Proc \ {p} /\ h # NoProc
        /\ pc'[h] = pc[h] /\ req'[h] = req[h] /\ hook'[h] = hook[h]
        /\ mem'[h] = mem[h] /\ dirty'[h] = dirty[h]
    BY Parties DEF Frame
  <2>2. HookOK(h)
    BY DEF PaymentsInv
  <2>3. ASSUME pc[h] \in Crediting
        PROVE  balance'[WalletOf(h)] = Null <=> balance[WalletOf(h)] = Null
    <3>1. WalletOf(h) \in Wallet /\ (hook[h].new <=> balance[WalletOf(h)] = Null)
      BY <2>2, <2>3 DEF HookOK
    <3>2. lock[WalletOf(h)] = p => balance[WalletOf(h)] # Null
      BY <3>1, Parties DEF PaymentsInv, LocksExist
    <3>3. p \in Hook /\ hook[p].new /\ hook[h].new => WalletOf(h) # WalletOf(p)
      BY DEF PaymentsInv, NewApart
    <3> QED
      BY <3>1, <3>2, <3>3 DEF Frame
  <2>4. ASSUME pc[h] \in Updated, ~ hook[h].new
        PROVE  lock'[WalletOf(h)] = h
    <3>1. lock[WalletOf(h)] = h /\ WalletOf(h) \in Wallet
      BY <2>2, <2>4 DEF HookOK, Updated
    <3> QED
      BY <2>1, <3>1 DEF Frame
  <2> QED
    BY <2>1, <2>2, <2>3, <2>4 DEF HookOK, WalletOf, EventOf, Updated
<1> QED
  BY <1>1, <1>2

-----------------------------------------------------------------------------
(* The steps of a request, one case per action.                             *)

(* Own facts of a request, where it is.                                     *)
LEMMA ClientFacts ==
  ASSUME PaymentsInv, NEW p \in Client
  PROVE  /\ p \in Proc /\ p \notin Hook /\ p # NoProc
         /\ mem[p].src \in Balances /\ mem[p].dst \in Balances
         /\ ClientRequest(p) /\ ClientLocks(p)
         /\ ClientRows(p) /\ ClientDrafts(p)
<1>1. p \in Proc /\ p \notin Hook /\ p # NoProc
  BY Parties
<1>2. mem[p] \in [src : Balances, dst : Balances]
  BY <1>1 DEF PaymentsInv, PayTypes
<1>3. ClientOK(p)
  BY DEF PaymentsInv
<1> QED
  BY <1>1, <1>2, <1>3 DEF ClientOK

(* What a request does to the rows and locks of others.                     *)
LEMMA ClientFrame ==
  ASSUME PaymentsInv, NEW p \in Client, Submit(p) \/ Step(p),
         UNCHANGED paystackVars
  PROVE  Frame(p) /\ LocksExist'
<1>0. /\ p \in Proc /\ p \notin Hook /\ p # NoProc
      /\ UNCHANGED hook /\ LocksExist
      /\ balance \in [Wallet -> Rows] /\ lock \in [Wallet -> Proc \cup {NoProc}]
      /\ pc \in [Proc -> Label \cup HookLabel]
      /\ req \in [Proc -> Requests \cup Booking \cup {Null}]
      /\ mem \in [Proc -> [src : Balances, dst : Balances]]
      /\ dirty \in [Proc -> [Wallet -> Balances]]
  BY ClientFacts DEF PaymentsInv, PayTypes, PaystackTypeOK, paystackVars, Rows
<1> USE DEF Frame, LocksExist, Goto, tables
<1>1. CASE Submit(p)
  BY <1>1, <1>0 DEF Submit
<1>2. CASE Begin(p)
  BY <1>2, <1>0 DEF Begin
<1>3. CASE LockSource(p)
  <2>1. req[p].src \in Wallet
    BY <1>3, ClientFacts, RequestFacts
    DEF LockSource, ClientRequest, InFlight, Ended
  <2> QED
    BY <1>0, <1>3, <2>1 DEF LockSource, Locked, Lockable
<1>4. CASE LockDestination(p)
  <2>1. req[p].dst \in Wallet
    BY <1>4, ClientFacts, RequestFacts
    DEF LockDestination, ClientRequest, InFlight, Ended
  <2> QED
    BY <1>0, <1>4, <2>1 DEF LockDestination, Locked, Lockable
<1>5. CASE Reject(p)
  BY <1>5, <1>0 DEF Reject
<1>6. CASE Compute(p)
  BY <1>6, <1>0 DEF Compute
<1>7. CASE SaveSource(p)
  BY <1>7, <1>0 DEF SaveSource
<1>8. CASE SaveDestination(p)
  BY <1>8, <1>0 DEF SaveDestination
<1>9. CASE DestinationOverflows(p)
  BY <1>9, <1>0
  DEF DestinationOverflows, StatementFails, EndTransaction, NoWrites
<1>10. CASE InsertTransaction(p)
  BY <1>10, <1>0 DEF InsertTransaction
<1>11. CASE TypeRejected(p)
  BY <1>11, <1>0 DEF TypeRejected, StatementFails, EndTransaction, NoWrites
<1>12. CASE InsertLedger(p)
  BY <1>12, <1>0 DEF InsertLedger
<1>13. CASE Commit(p)
  <2>1. \A w \in Wallet : dirty[p][w] = Draft(p, w)
    BY ClientFacts DEF ClientDrafts
  <2>2. req[p] \in Requests /\ Computed(p)
    BY <1>13, ClientFacts DEF Commit, ClientRequest, Computed
  <2>3. /\ Credits(req[p]) => mem[p].dst # Null /\ lock[req[p].dst] = p
        /\ Debits(req[p]) => mem[p].src # Null /\ lock[req[p].src] = p
    BY <1>13, <2>2, ClientFacts, ConstantsAssumption
    DEF Commit, ClientRequest, ClientLocks, HasSource, HasDestination, Money
  <2>4. ASSUME NEW w \in Wallet, dirty[p][w] # Null PROVE lock[w] = p
    BY <2>1, <2>3, <2>4 DEF Draft, SavedSource, SavedDestination
  <2>5. \A w \in Wallet : balance'[w] = IF dirty[p][w] = Null THEN balance[w]
                                       ELSE dirty[p][w]
    BY <1>13 DEF Commit
  <2>6. \A w \in Wallet : lock'[w] = IF lock[w] = p THEN NoProc ELSE lock[w]
    BY <1>13 DEF Commit, EndTransaction
  <2>7. /\ pc' = [pc EXCEPT ![p] = IF req[p].op = "transfer" THEN "alert" ELSE "done"]
        /\ dirty' = [dirty EXCEPT ![p] = NoWrites]
        /\ UNCHANGED <<req, mem>>
    BY <1>13 DEF Commit, EndTransaction
  <2> QED
    BY <1>0, <2>4, <2>5, <2>6, <2>7
<1>14. CASE Alert(p)
  BY <1>14, <1>0 DEF Alert
<1>15. CASE Rollback(p)
  BY <1>15, <1>0 DEF Rollback, EndTransaction, NoWrites
<1>16. CASE DeadlockVictim(p)
  BY <1>16, VictimWaits, <1>0
  DEF DeadlockVictim, StatementFails, EndTransaction, NoWrites
<1> QED
    BY <1>1, <1>2, <1>3, <1>4, <1>5, <1>6, <1>7, <1>8, <1>9, <1>10, <1>11,
     <1>12, <1>13, <1>14, <1>15, <1>16 DEF Step

(* One balance of what a request has in memory.                             *)
LEMMA MemField ==
  ASSUME NEW m \in [Proc -> [src : Balances, dst : Balances]], NEW p,
         NEW b \in Balances
  PROVE  /\ [m EXCEPT ![p].src = b] \in [Proc -> [src : Balances, dst : Balances]]
         /\ [m EXCEPT ![p].dst = b] \in [Proc -> [src : Balances, dst : Balances]]
OBVIOUS

(* The types, and what a request knows of itself.                           *)
LEMMA ClientTypes ==
  ASSUME PaymentsInv, NEW p \in Client, Submit(p) \/ Step(p),
         UNCHANGED paystackVars
  PROVE  PayTypes' /\ ClientRequest(p)'
<1>0. PayTypes /\ ClientRequest(p) /\ p \in Proc /\ UNCHANGED paystackVars
  BY ClientFacts DEF PaymentsInv
<1> USE ConstantsAssumption
    DEF PayTypes, PaystackTypeOK, paystackVars, ClientRequest, Goto, tables,
        Label, Ended, InFlight, Computed, SavedDestination, Inserting
<1>1. CASE Submit(p)
  BY <1>1, <1>0, RequestFacts DEF Submit
<1>2. CASE Begin(p)
  BY <1>2, <1>0, RequestFacts DEF Begin
<1>3. CASE LockSource(p)
  <2>1. req[p].src \in Wallet /\ balance[req[p].src] \in Balances
    BY <1>0, <1>3, RequestFacts DEF LockSource, Balances
  <2>2. Locked(p, req[p].src) \in [Wallet -> Proc \cup {NoProc}]
    BY <1>0, <2>1 DEF Locked
  <2>3. mem' \in [Proc -> [src : Balances, dst : Balances]]
    <3>1. PICK b \in Balances : mem' = [mem EXCEPT ![p].src = b]
      BY <1>3, <2>1 DEF LockSource
    <3> QED
      <4>1. mem \in [Proc -> [src : Balances, dst : Balances]]
        BY <1>0
      <4> QED
        BY ONLY <3>1, <4>1, MemField
  <2> QED
    BY <1>0, <1>3, <2>2, <2>3, RequestFacts DEF LockSource
<1>4. CASE LockDestination(p)
  <2>1. req[p].dst \in Wallet /\ balance[req[p].dst] \in Balances
    BY <1>0, <1>4, RequestFacts DEF LockDestination, Balances
  <2>2. Locked(p, req[p].dst) \in [Wallet -> Proc \cup {NoProc}]
    BY <1>0, <2>1 DEF Locked
  <2>3. mem' \in [Proc -> [src : Balances, dst : Balances]]
    <3>1. PICK b \in Balances : mem' = [mem EXCEPT ![p].dst = b]
      BY <1>4, <2>1 DEF LockDestination
    <3> QED
      <4>1. mem \in [Proc -> [src : Balances, dst : Balances]]
        BY <1>0
      <4> QED
        BY ONLY <3>1, <4>1, MemField
  <2> QED
    BY <1>0, <1>4, <2>2, <2>3, RequestFacts DEF LockDestination
<1>5. CASE Reject(p)
  BY <1>5, <1>0, RequestFacts DEF Reject
<1>6. CASE Compute(p)
  <2> USE <1>6 DEF Compute
  <2>1. req[p] \in Requests /\ req[p].amount \in Nat
    BY <1>0, RequestFacts DEF Accepted
  <2>2. /\ Debits(req[p]) => /\ mem[p].src \in Nat
                             /\ mem[p].src - req[p].amount \in Nat
        /\ Credits(req[p]) => /\ mem[p].dst \in Nat
                              /\ mem[p].dst + req[p].amount \in Nat
    BY <2>1, ClientFacts DEF WalletMissing, Insufficient, Balances, Money
  <2>3. PICK s \in SourceAfter(p), d \in DestinationAfter(p) :
          mem' = [mem EXCEPT ![p] = [src |-> s, dst |-> d]]
    OBVIOUS
  <2>4. /\ s \in Balances /\ d \in Balances
        /\ Debits(req[p]) => s \in Money
        /\ Credits(req[p]) => d \in Money
    BY <2>2, ColumnIsMoney, ClientFacts
    DEF SourceAfter, DestinationAfter, Balances
  <2>5. mem' \in [Proc -> [src : Balances, dst : Balances]]
    BY <1>0, <2>3, <2>4
  <2> QED
    BY <1>0, <2>1, <2>3, <2>4, <2>5, RequestFacts
<1>7. CASE SaveSource(p)
  BY <1>7, <1>0, RequestFacts DEF SaveSource
<1>8. CASE SaveDestination(p)
  BY <1>8, <1>0, RequestFacts DEF SaveDestination
<1>9. CASE DestinationOverflows(p)
  BY <1>9, <1>0, RequestFacts
  DEF DestinationOverflows, StatementFails, EndTransaction, NoWrites, Balances
<1>10. CASE InsertTransaction(p)
  BY <1>10, <1>0, RequestFacts DEF InsertTransaction
<1>11. CASE TypeRejected(p)
  BY <1>11, <1>0, RequestFacts
  DEF TypeRejected, StatementFails, EndTransaction, NoWrites, Balances
<1>12. CASE InsertLedger(p)
  BY <1>12, <1>0, RequestFacts DEF InsertLedger
<1>13. CASE Commit(p)
  <2> USE <1>13 DEF Commit
  <2>1. balance' \in [Wallet -> Rows]
    <3>1. ASSUME NEW w \in Wallet, dirty[p][w] # Null PROVE dirty[p][w] \in Rows
      <4>1. req[p] \in Requests /\ Accepted(req[p])
        BY <1>0
      <4>2. CASE Credits(req[p]) /\ w = req[p].dst
        <5>1. dirty[p][w] = mem[p].dst
          BY <4>2, ClientFacts DEF ClientDrafts, Draft
        <5> QED
          BY <1>0, <4>2, <5>1 DEF Rows
      <4>3. CASE Debits(req[p]) /\ w = req[p].src /\ ~ (Credits(req[p]) /\ w = req[p].dst)
        <5>1. dirty[p][w] = mem[p].src /\ mem[p].src \in Money
          BY <1>0, <4>3, ClientFacts DEF ClientDrafts, Draft, SavedSource
        <5>2. mem[p].src \in Column(balance[w] - req[p].amount) /\ balance[w] # Null
          BY <4>3, ClientFacts DEF ClientRows, HasSource
        <5>3. balance[w] \in Nat /\ balance[w] <= MaxBalance
          BY <1>0, <5>2 DEF Fits, Money
        <5>4. req[p].amount \in Int /\ req[p].amount > 0
          BY <4>1, RequestFacts DEF Accepted
        <5>5. PICK a \in Nat, b \in Nat, m \in Nat :
                /\ a = req[p].amount /\ b = balance[w] /\ m = mem[p].src
                /\ a > 0 /\ b <= MaxBalance /\ m \in Column(b - a)
          BY <5>1, <5>2, <5>3, <5>4 DEF Money
        <5>6. m = b - a - 1 \/ m = b - a \/ m = b - a + 1
          BY <5>5 DEF Column
        <5>7. m <= b
          <6>1. a >= 1 /\ a \in Nat /\ b \in Nat
            BY <5>5
          <6> QED
            BY ONLY <5>6, <6>1
        <5>8. m <= MaxBalance
          BY <5>5, <5>7, MaxBalanceAssumption
        <5>9. Fits(mem[p].src)
          BY <5>5, <5>8 DEF Fits
        <5> QED
          BY <5>1, <5>9 DEF Rows
      <4> QED
        BY <3>1, <4>2, <4>3, ClientFacts
        DEF ClientDrafts, Draft, SavedSource
    <3>2. balance \in [Wallet -> Rows]
      BY <1>0 DEF Rows
    <3> QED
      BY <3>1, <3>2
  <2>2. /\ lock' \in [Wallet -> Proc \cup {NoProc}]
        /\ dirty' \in [Proc -> [Wallet -> Balances]]
    BY <1>0 DEF EndTransaction, NoWrites, Balances
  <2> QED
    BY <1>0, <2>1, <2>2 DEF Rows
<1>14. CASE Alert(p)
  BY <1>14, <1>0, RequestFacts DEF Alert
<1>15. CASE Rollback(p)
  BY <1>15, <1>0, RequestFacts DEF Rollback, EndTransaction, NoWrites, Balances
<1>16. CASE DeadlockVictim(p)
  BY <1>16, VictimWaits, <1>0, RequestFacts
  DEF DeadlockVictim, StatementFails, EndTransaction, NoWrites, Balances
<1> QED
    BY <1>1, <1>2, <1>3, <1>4, <1>5, <1>6, <1>7, <1>8, <1>9, <1>10, <1>11,
     <1>12, <1>13, <1>14, <1>15, <1>16 DEF Step

(* Its drafts, locks and rows.                                              *)
LEMMA ClientDraftsStep ==
  ASSUME PaymentsInv, NEW p \in Client, Submit(p) \/ Step(p),
         UNCHANGED paystackVars
  PROVE  ClientDrafts(p)'
<1>0. /\ PayTypes /\ ClientRequest(p) /\ ClientDrafts(p) /\ p \in Proc
      /\ req[p] \in Requests => req[p].src # NoWallet <=> Debits(req[p])
  BY ClientFacts, RequestFacts, ConstantsAssumption DEF PaymentsInv
<1> USE DEF PayTypes, ClientRequest, Goto, tables, ClientDrafts, Draft,
            SavedSource, SavedDestination, Inserting, InFlight, Ended
<1>1. CASE Submit(p)
  BY <1>1, <1>0, RequestFacts, ConstantsAssumption DEF Submit
<1>2. CASE Begin(p)
  BY <1>2, <1>0, RequestFacts, ConstantsAssumption DEF Begin
<1>3. CASE LockSource(p)
  BY <1>3, <1>0, RequestFacts, ConstantsAssumption
  DEF LockSource, Locked, Lockable
<1>4. CASE LockDestination(p)
  BY <1>4, <1>0, RequestFacts, ConstantsAssumption
  DEF LockDestination, Locked, Lockable
<1>5. CASE Reject(p)
  BY <1>5, <1>0, RequestFacts, ConstantsAssumption DEF Reject
<1>6. CASE Compute(p)
  BY <1>6, <1>0, RequestFacts, ConstantsAssumption DEF Compute
<1>7. CASE SaveSource(p)
  BY <1>7, <1>0, RequestFacts, ConstantsAssumption DEF SaveSource
<1>8. CASE SaveDestination(p)
  BY <1>8, <1>0, RequestFacts, ConstantsAssumption DEF SaveDestination
<1>9. CASE DestinationOverflows(p)
  BY <1>9, <1>0, RequestFacts, ConstantsAssumption
  DEF DestinationOverflows, StatementFails, EndTransaction, NoWrites
<1>10. CASE InsertTransaction(p)
  BY <1>10, <1>0, RequestFacts, ConstantsAssumption DEF InsertTransaction
<1>11. CASE TypeRejected(p)
  BY <1>11, <1>0, RequestFacts, ConstantsAssumption
  DEF TypeRejected, StatementFails, EndTransaction, NoWrites
<1>12. CASE InsertLedger(p)
  BY <1>12, <1>0, RequestFacts, ConstantsAssumption DEF InsertLedger
<1>13. CASE Commit(p)
  BY <1>13, <1>0, RequestFacts, ConstantsAssumption
  DEF Commit, EndTransaction, NoWrites
<1>14. CASE Alert(p)
  BY <1>14, <1>0, RequestFacts, ConstantsAssumption DEF Alert
<1>15. CASE Rollback(p)
  BY <1>15, <1>0, RequestFacts, ConstantsAssumption
  DEF Rollback, EndTransaction, NoWrites
<1>16. CASE DeadlockVictim(p)
  BY <1>16, VictimWaits, <1>0, RequestFacts, ConstantsAssumption
  DEF DeadlockVictim, StatementFails, EndTransaction, NoWrites
<1> QED
    BY <1>1, <1>2, <1>3, <1>4, <1>5, <1>6, <1>7, <1>8, <1>9, <1>10, <1>11,
     <1>12, <1>13, <1>14, <1>15, <1>16 DEF Step

LEMMA ClientLocksStep ==
  ASSUME PaymentsInv, NEW p \in Client, Submit(p) \/ Step(p),
         UNCHANGED paystackVars
  PROVE  ClientLocks(p)'
<1>0. /\ PayTypes /\ ClientRequest(p) /\ ClientLocks(p) /\ p \in Proc
      /\ ClientRows(p) /\ balance \in [Wallet -> Rows]
  BY ClientFacts DEF PaymentsInv, PayTypes, PaystackTypeOK, Rows
<1> USE DEF PayTypes, ClientRequest, Goto, tables, ClientLocks,
            HasSource, HasDestination, Computed, InFlight, Ended
<1>1. CASE Submit(p)
  BY <1>1, <1>0, RequestFacts, ConstantsAssumption DEF Submit
<1>2. CASE Begin(p)
  BY <1>2, <1>0, RequestFacts, ConstantsAssumption DEF Begin
<1>3. CASE LockSource(p)
  BY <1>3, <1>0, RequestFacts, ConstantsAssumption
  DEF LockSource, Locked, Lockable
<1>4. CASE LockDestination(p)
  BY <1>4, <1>0, RequestFacts, ConstantsAssumption
  DEF LockDestination, Locked, Lockable
<1>5. CASE Reject(p)
  BY <1>5, <1>0, RequestFacts, ConstantsAssumption DEF Reject
<1>6. CASE Compute(p)
  <2>1. PICK s \in SourceAfter(p), d \in DestinationAfter(p) :
          mem' = [mem EXCEPT ![p] = [src |-> s, dst |-> d]]
    BY <1>6 DEF Compute
  <2>2. /\ Debits(req[p]) => mem[p].src # Null
        /\ Credits(req[p]) => mem[p].dst # Null
    BY <1>6 DEF Compute, WalletMissing
  <2> QED
    BY <1>0, <1>6, <2>2 DEF Compute
<1>7. CASE SaveSource(p)
  BY <1>7, <1>0, RequestFacts, ConstantsAssumption DEF SaveSource
<1>8. CASE SaveDestination(p)
  BY <1>8, <1>0, RequestFacts, ConstantsAssumption DEF SaveDestination
<1>9. CASE DestinationOverflows(p)
  BY <1>9, <1>0, RequestFacts, ConstantsAssumption
  DEF DestinationOverflows, StatementFails, EndTransaction, NoWrites
<1>10. CASE InsertTransaction(p)
  BY <1>10, <1>0, RequestFacts, ConstantsAssumption DEF InsertTransaction
<1>11. CASE TypeRejected(p)
  BY <1>11, <1>0, RequestFacts, ConstantsAssumption
  DEF TypeRejected, StatementFails, EndTransaction, NoWrites
<1>12. CASE InsertLedger(p)
  BY <1>12, <1>0, RequestFacts, ConstantsAssumption DEF InsertLedger
<1>13. CASE Commit(p)
  BY <1>13, <1>0, RequestFacts, ConstantsAssumption
  DEF Commit, EndTransaction, NoWrites
<1>14. CASE Alert(p)
  BY <1>14, <1>0, RequestFacts, ConstantsAssumption DEF Alert
<1>15. CASE Rollback(p)
  BY <1>15, <1>0, RequestFacts, ConstantsAssumption
  DEF Rollback, EndTransaction, NoWrites
<1>16. CASE DeadlockVictim(p)
  BY <1>16, VictimWaits, <1>0, RequestFacts, ConstantsAssumption
  DEF DeadlockVictim, StatementFails, EndTransaction, NoWrites
<1> QED
    BY <1>1, <1>2, <1>3, <1>4, <1>5, <1>6, <1>7, <1>8, <1>9, <1>10, <1>11,
     <1>12, <1>13, <1>14, <1>15, <1>16 DEF Step

LEMMA ClientRowsStep ==
  ASSUME PaymentsInv, NEW p \in Client, Submit(p) \/ Step(p),
         UNCHANGED paystackVars
  PROVE  ClientRows(p)'
<1>0. /\ PayTypes /\ ClientRequest(p) /\ ClientRows(p) /\ p \in Proc
  BY ClientFacts DEF PaymentsInv
<1> USE DEF PayTypes, ClientRequest, Goto, tables, ClientRows,
            HasSource, HasDestination, Computed, InFlight, Ended
<1>1. CASE Submit(p)
  BY <1>1, <1>0, RequestFacts, ConstantsAssumption DEF Submit
<1>2. CASE Begin(p)
  BY <1>2, <1>0, RequestFacts, ConstantsAssumption DEF Begin
<1>3. CASE LockSource(p)
  BY <1>3, <1>0, RequestFacts, ConstantsAssumption
  DEF LockSource, Locked, Lockable
<1>4. CASE LockDestination(p)
  BY <1>4, <1>0, RequestFacts, ConstantsAssumption
  DEF LockDestination, Locked, Lockable
<1>5. CASE Reject(p)
  BY <1>5, <1>0, RequestFacts, ConstantsAssumption DEF Reject
<1>6. CASE Compute(p)
  <2> USE <1>6 DEF Compute
  <2>1. PICK s \in SourceAfter(p), d \in DestinationAfter(p) :
          mem' = [mem EXCEPT ![p] = [src |-> s, dst |-> d]]
    OBVIOUS
  <2>2. mem'[p].src = s /\ mem'[p].dst = d
    BY <1>0, <2>1
  <2>3. Debits(req[p]) => /\ balance[req[p].src] # Null
                          /\ balance[req[p].src] >= req[p].amount
                          /\ s \in Column(balance[req[p].src] - req[p].amount)
    <3>1. ASSUME Debits(req[p])
          PROVE  /\ mem[p].src = balance[req[p].src] /\ mem[p].src # Null
                 /\ ~ (mem[p].src < req[p].amount)
                 /\ s \in Column(mem[p].src - req[p].amount)
      BY <1>0, <2>1, <3>1 DEF WalletMissing, Insufficient, SourceAfter
    <3>2. Debits(req[p]) => mem[p].src \in Int /\ req[p].amount \in Int
      BY <1>0, <3>1, ClientFacts, RequestFacts DEF Balances, Money
    <3> QED
      BY <3>1, <3>2
  <2>4. Credits(req[p]) => /\ balance[req[p].dst] # Null
                           /\ d \in Column(balance[req[p].dst] + req[p].amount)
    BY <1>0, <2>1 DEF WalletMissing, DestinationAfter
  <2>5. UNCHANGED <<balance, req>>
    OBVIOUS
  <2> QED
    BY <1>0, <2>2, <2>3, <2>4, <2>5
<1>7. CASE SaveSource(p)
  BY <1>7, <1>0, RequestFacts, ConstantsAssumption DEF SaveSource
<1>8. CASE SaveDestination(p)
  BY <1>8, <1>0, RequestFacts, ConstantsAssumption DEF SaveDestination
<1>9. CASE DestinationOverflows(p)
  BY <1>9, <1>0, RequestFacts, ConstantsAssumption
  DEF DestinationOverflows, StatementFails, EndTransaction, NoWrites
<1>10. CASE InsertTransaction(p)
  BY <1>10, <1>0, RequestFacts, ConstantsAssumption DEF InsertTransaction
<1>11. CASE TypeRejected(p)
  BY <1>11, <1>0, RequestFacts, ConstantsAssumption
  DEF TypeRejected, StatementFails, EndTransaction, NoWrites
<1>12. CASE InsertLedger(p)
  BY <1>12, <1>0, RequestFacts, ConstantsAssumption DEF InsertLedger
<1>13. CASE Commit(p)
  BY <1>13, <1>0, RequestFacts, ConstantsAssumption
  DEF Commit, EndTransaction, NoWrites
<1>14. CASE Alert(p)
  BY <1>14, <1>0, RequestFacts, ConstantsAssumption DEF Alert
<1>15. CASE Rollback(p)
  BY <1>15, <1>0, RequestFacts, ConstantsAssumption
  DEF Rollback, EndTransaction, NoWrites
<1>16. CASE DeadlockVictim(p)
  BY <1>16, VictimWaits, <1>0, RequestFacts, ConstantsAssumption
  DEF DeadlockVictim, StatementFails, EndTransaction, NoWrites
<1> QED
    BY <1>1, <1>2, <1>3, <1>4, <1>5, <1>6, <1>7, <1>8, <1>9, <1>10, <1>11,
     <1>12, <1>13, <1>14, <1>15, <1>16 DEF Step

(* A step of a request keeps the invariant.                                 *)
LEMMA ClientStep ==
  ASSUME PaymentsInv, NEW p \in Client, Submit(p) \/ Step(p),
         UNCHANGED paystackVars
  PROVE  PaymentsInv'
<1>1. Frame(p) /\ LocksExist' /\ PayTypes'
  BY ClientFrame, ClientTypes
<1>2. ClientOK(p)'
  BY ClientTypes, ClientDraftsStep, ClientLocksStep, ClientRowsStep DEF ClientOK
<1>3. p \in Proc /\ p \notin Hook
  BY Parties
<1>4. (\A q \in Client : ClientOK(q)') /\ \A h \in Hook : HookOK(h)'
  BY <1>1, <1>2, <1>3, OthersStay
<1>5. NewApart'
  BY <1>1, <1>3, Parties DEF PaymentsInv, NewApart, Frame, WalletOf
<1> QED
  BY <1>1, <1>4, <1>5 DEF PaymentsInv

-----------------------------------------------------------------------------
(* The steps of a delivery.                                                 *)

HookRow == [event : Event \cup {Null}, account : Balances,
            member : Balances, new : BOOLEAN]

(* Own facts of a delivery.                                                 *)
LEMMA HookFacts ==
  ASSUME PaymentsInv, NEW h \in Hook
  PROVE  /\ h \in Proc /\ h \notin Client /\ h # NoProc
         /\ hook[h] \in HookRow /\ mem[h] \in [src : Balances, dst : Balances]
         /\ HookOK(h)
<1>1. h \in Proc /\ h \notin Client /\ h # NoProc
  BY Parties
<1>2. hook[h] \in HookRow /\ mem[h] \in [src : Balances, dst : Balances]
  BY <1>1 DEF PaymentsInv, PayTypes, PaystackTypeOK, HookRow
<1> QED
  BY <1>1, <1>2 DEF PaymentsInv

LEMMA EventFacts ==
  ASSUME NEW e \in Event
  PROVE  /\ e.user \in User /\ e.row \in Row /\ e.amount \in Int
         /\ e.amount > 0 => e.amount \in Money
BY PaystackAssumption DEF Money

LEMMA MoneyAdds ==
  ASSUME NEW m \in Money, NEW n \in Money
  PROVE  m + n \in Money
BY DEF Money, Whole

(* The functions of the model, and what a step of a delivery leaves alone.  *)
LEMMA PaymentsFacts ==
  ASSUME PaymentsInv
  PROVE  /\ balance \in [Wallet -> Rows]
         /\ lock \in [Wallet -> Proc \cup {NoProc}]
         /\ pc \in [Proc -> Label \cup HookLabel]
         /\ req \in [Proc -> Requests \cup Booking \cup {Null}]
         /\ mem \in [Proc -> [src : Balances, dst : Balances]]
         /\ dirty \in [Proc -> [Wallet -> Balances]]
         /\ owner \in [Wallet -> User \cup {NoUser}]
         /\ account \in [Row -> {m \in Money : Fits(m)}]
         /\ contribution \in [User -> Balances]
         /\ accountLock \in [Row -> Hook \cup {NoProc}]
         /\ hook \in [Hook -> HookRow]
BY DEF PaymentsInv, PayTypes, PaystackTypeOK, Rows, HookRow

(* A step of a delivery that keeps the types, moves only what is its own    *)
(* and is where it should be afterwards keeps the invariant.                *)
LEMMA DeliveryKeeps ==
  ASSUME PaymentsInv, NEW h \in Hook,
         PayTypes', LocksExist', NewApart', Frame(h), HookOK(h)'
  PROVE  PaymentsInv'
<1>1. h \in Proc /\ h \notin Client
  BY Parties
<1>2. (\A p \in Client : ClientOK(p)') /\ \A g \in Hook : HookOK(g)'
  BY <1>1, OthersStay
<1> QED
  BY <1>2 DEF PaymentsInv

(* A step that only moves on, with what it has read of the account, of the  *)
(* member and of the event.                                                 *)
LEMMA MovesOn ==
  ASSUME PaymentsInv, NEW h \in Hook, NEW l \in HookLabel, NEW d \in HookRow,
         pc' = [pc EXCEPT ![h] = l], hook' = [hook EXCEPT ![h] = d],
         d.new = hook[h].new,
         accountLock' \in [Row -> Hook \cup {NoProc}],
         UNCHANGED <<tables, lock, req, mem, dirty, accounts>>
  PROVE  /\ PayTypes' /\ LocksExist' /\ NewApart' /\ Frame(h)
         /\ pc'[h] = l /\ hook'[h] = d
<1>1. pc'[h] = l /\ hook'[h] = d /\ h \in Proc
  BY PaymentsFacts, HookFacts
<1>2. pc' \in [Proc -> Label \cup HookLabel] /\ hook' \in [Hook -> HookRow]
  BY PaymentsFacts
<1>3. PayTypes'
  BY <1>2, PaymentsFacts
  DEF PayTypes, PaystackTypeOK, tables, accounts, Rows, HookRow
<1>4. LocksExist'
  BY DEF PaymentsInv, LocksExist, tables
<1>5. \A g \in Hook : hook'[g].new = hook[g].new
  BY PaymentsFacts
<1>6. NewApart'
  BY <1>5 DEF PaymentsInv, NewApart, WalletOf
<1>7. Frame(h)
  BY PaymentsFacts DEF Frame, tables
<1> QED
  BY <1>1, <1>3, <1>4, <1>6, <1>7

LEMMA DeliverStep ==
  ASSUME PaymentsInv, NEW h \in Hook, Deliver(h)
  PROVE  PaymentsInv'
<1>1. PICK e \in Event :
        IF e.success /\ e.amount > 0
        THEN /\ hook' = [hook EXCEPT ![h].event = e,
                                     ![h].account = account[e.row]]
             /\ Goto(h, "connect")
        ELSE Goto(h, "done") /\ UNCHANGED hook
  BY DEF Deliver
<1>2. UNCHANGED <<tables, lock, req, mem, dirty, accounts, accountLock>>
  BY DEF Deliver
<1>3. accountLock' \in [Row -> Hook \cup {NoProc}]
  BY <1>2, PaymentsFacts
<1>4. CASE e.success /\ e.amount > 0
  <2>1. e.row \in Row /\ e.amount \in Money
    BY <1>4, EventFacts
  <2>2. account[e.row] \in Money
    BY <2>1, PaymentsFacts
  <2> DEFINE d == [hook[h] EXCEPT !.event = e, !.account = account[e.row]]
  <2>3. /\ d \in HookRow /\ d.new = hook[h].new /\ d.event = e
        /\ d.account \in Money
    BY <2>2, HookFacts DEF HookRow, Balances
  <2>4. hook' = [hook EXCEPT ![h] = d] /\ pc' = [pc EXCEPT ![h] = "connect"]
    BY <1>1, <1>4, PaymentsFacts DEF Goto, HookRow
  <2> HIDE DEF d
  <2>5. /\ PayTypes' /\ LocksExist' /\ NewApart' /\ Frame(h)
        /\ pc'[h] = "connect" /\ hook'[h] = d
    BY <1>2, <1>3, <2>3, <2>4, MovesOn DEF HookLabel, Begun
  <2>6. HookOK(h)'
    BY <2>1, <2>3, <2>5
    DEF HookOK, EventOf, HookLabel, Begun, Crediting, Updated, Checked
  <2> QED
    BY <2>5, <2>6, DeliveryKeeps
<1>5. CASE ~ (e.success /\ e.amount > 0)
  <2>1. pc' = [pc EXCEPT ![h] = "done"] /\ hook' = [hook EXCEPT ![h] = hook[h]]
    BY <1>1, <1>5, PaymentsFacts DEF Goto
  <2>2. /\ PayTypes' /\ LocksExist' /\ NewApart' /\ Frame(h)
        /\ pc'[h] = "done" /\ hook'[h] = hook[h]
    BY <1>2, <1>3, <2>1, HookFacts, MovesOn DEF HookLabel, Begun
  <2>3. HookOK(h)'
    BY <2>2 DEF HookOK, HookLabel, Begun, Crediting, Updated, Checked
  <2> QED
    BY <2>2, <2>3, DeliveryKeeps
<1> QED
  BY <1>4, <1>5

(* Steps that read or check something and go on.                            *)
LEMMA ChecksPassed ==
  ASSUME PaymentsInv, NEW h \in Hook,
         \/ BeginCredit(h) \/ ReadMember(h) \/ Notify(h)
         \/ SaveMember(h) /\ ~ CreditFails(h)
         \/ Record(h) /\ ~ CreditFails(h)
  PROVE  PaymentsInv'
<1> DEFINE next(l) == CASE l = "connect"    -> "findWallet"
                        [] l = "readMember" -> "saveMember"
                        [] l = "saveMember" -> "record"
                        [] l = "record"     -> "commitCredit"
                        [] OTHER            -> "done"
<1>1. /\ pc[h] \in {"connect", "readMember", "saveMember", "record", "notify"}
      /\ pc' = [pc EXCEPT ![h] = next(pc[h])]
  BY DEF BeginCredit, ReadMember, Notify, SaveMember, Record, Goto
<1>2. UNCHANGED <<tables, lock, req, mem, dirty, accounts, accountLock>>
  BY DEF BeginCredit, ReadMember, Notify, SaveMember, Record, paystackVars,
         accounts
<1>3. PICK m \in Balances : hook' = [hook EXCEPT ![h].member = m]
  <2>1. CASE ReadMember(h)
    <3>1. EventOf(h).user \in User
      BY <2>1, HookFacts, EventFacts DEF ReadMember, HookOK, Crediting
    <3> QED
      BY <2>1, <3>1, PaymentsFacts DEF ReadMember
  <2>2. CASE ~ ReadMember(h)
    <3>1. UNCHANGED hook
      BY <2>2 DEF BeginCredit, Notify, SaveMember, Record, paystackVars
    <3>2. hook' = [hook EXCEPT ![h].member = hook[h].member]
      BY <3>1, PaymentsFacts DEF HookRow
    <3> QED
      BY <3>2, HookFacts DEF HookRow
  <2> QED
    BY <2>1, <2>2
<1> DEFINE d == [hook[h] EXCEPT !.member = m]
<1>4. /\ d \in HookRow /\ d.new = hook[h].new /\ d.event = hook[h].event
      /\ d.account = hook[h].account
  BY HookFacts DEF HookRow
<1>5. hook' = [hook EXCEPT ![h] = d]
  BY <1>3, PaymentsFacts DEF HookRow
<1>6. next(pc[h]) \in HookLabel
  BY <1>1 DEF HookLabel, Begun, Crediting
<1>7. accountLock' \in [Row -> Hook \cup {NoProc}]
  BY <1>2, PaymentsFacts
<1> HIDE DEF d, next
<1>8. /\ PayTypes' /\ LocksExist' /\ NewApart' /\ Frame(h)
      /\ pc'[h] = next(pc[h]) /\ hook'[h] = d
  BY <1>1, <1>2, <1>4, <1>5, <1>6, <1>7, MovesOn
<1>9. /\ pc'[h] \in Begun \cup Crediting => pc[h] \in Begun \cup Crediting
      /\ pc'[h] \in Crediting => pc[h] \in Checked /\ pc[h] \in Updated
                                 /\ pc[h] \in Crediting
      /\ pc'[h] \in HookLabel
      /\ pc'[h] \in Updated => pc'[h] \in Crediting
      /\ pc'[h] \in Checked => pc'[h] \in Crediting
  BY <1>1, <1>6, <1>8 DEF next, Begun, Crediting, Updated, Checked
<1>10. HookOK(h)'
  <2>1. UNCHANGED <<balance, lock, mem, req, dirty>>
    BY <1>2 DEF tables
  <2> QED
    BY <1>4, <1>8, <1>9, <2>1, HookFacts DEF HookOK, EventOf, WalletOf
<1> QED
  BY <1>8, <1>10, DeliveryKeeps

LEMMA UpdateAccountStep ==
  ASSUME PaymentsInv, NEW h \in Hook, UpdateAccount(h), ~ CreditFails(h)
  PROVE  PaymentsInv'
<1>1. /\ pc[h] = "updateAccount" /\ pc' = [pc EXCEPT ![h] = "readMember"]
      /\ Fits(hook[h].account + EventOf(h).amount)
      /\ accountLock' = [accountLock EXCEPT ![EventOf(h).row] = h]
      /\ UNCHANGED <<tables, lock, req, mem, dirty, accounts, hook>>
  BY DEF UpdateAccount, Goto
<1>2. hook' = [hook EXCEPT ![h] = hook[h]] /\ hook[h] \in HookRow
  BY <1>1, PaymentsFacts
<1>3. accountLock' \in [Row -> Hook \cup {NoProc}]
  BY <1>1, PaymentsFacts
<1>4. /\ PayTypes' /\ LocksExist' /\ NewApart' /\ Frame(h)
      /\ pc'[h] = "readMember" /\ hook'[h] = hook[h]
  BY <1>1, <1>2, <1>3, MovesOn DEF HookLabel, Crediting
<1>5. HookOK(h)'
  <2>1. UNCHANGED <<balance, lock, mem, req, dirty>>
    BY <1>1 DEF tables
  <2> QED
    BY <1>1, <1>4, <2>1, HookFacts
    DEF HookOK, EventOf, WalletOf, HookLabel, Begun, Crediting, Updated, Checked
<1> QED
  BY <1>4, <1>5, DeliveryKeeps

(* The wallet that is found exists, or is nobody's yet.                     *)
LEMMA FindWalletStep ==
  ASSUME PaymentsInv, NEW h \in Hook, FindWallet(h)
  PROVE  PaymentsInv'
<1> DEFINE mine == {v \in Wallet : balance[v] # Null /\ owner[v] = EventOf(h).user}
           booking(v) == [op |-> "deposit", src |-> NoWallet, dst |-> v,
                          amount |-> EventOf(h).amount, otp |-> FALSE,
                          type |-> "contribution"]
           read(v) == IF mine = {} THEN 0 ELSE balance[v]
<1>1. PICK w \in IF mine # {} THEN mine ELSE {v \in Wallet : Fresh(v)} :
        /\ req' = [req EXCEPT ![h] = booking(w)]
        /\ mem' = [mem EXCEPT ![h].dst = read(w)]
  BY DEF FindWallet
<1>2. /\ pc[h] = "findWallet" /\ pc' = [pc EXCEPT ![h] = "updateWallet"]
      /\ hook' = [hook EXCEPT ![h].new = (mine = {})]
      /\ UNCHANGED <<tables, lock, dirty, accounts, accountLock>>
  BY DEF FindWallet, Goto
<1>3. PICK new \in BOOLEAN : new = (mine = {})
  OBVIOUS
<1>4. /\ w \in Wallet
      /\ new => balance[w] = Null /\ \A g \in Hook : hook[g].new => WalletOf(g) # w
      /\ ~ new => balance[w] # Null
  BY <1>1, <1>3 DEF Fresh
<1>5. read(w) \in Money
  <2>1. new => read(w) = 0
    BY <1>3
  <2>2. ~ new => read(w) = balance[w]
    BY <1>3
  <2>3. balance[w] \in Rows /\ 0 \in Money
    BY <1>4, PaymentsFacts DEF Money, Whole
  <2> HIDE DEF read
  <2> QED
    BY <1>4, <2>1, <2>2, <2>3 DEF Rows
<1>6. booking(w) \in Booking /\ booking(w).dst = w
  BY <1>2, <1>4, HookFacts DEF HookOK, Begun, Booking
<1> HIDE DEF mine, booking, read
<1>7. /\ req' \in [Proc -> Requests \cup Booking \cup {Null}] /\ req'[h].dst = w
      /\ \A p \in Proc \ {h} : req'[p] = req[p]
  BY <1>1, <1>6, HookFacts, PaymentsFacts
<1>8. /\ mem' \in [Proc -> [src : Balances, dst : Balances]]
      /\ mem'[h].dst = read(w)
      /\ \A p \in Proc \ {h} : mem'[p] = mem[p]
  <2>1. PICK b \in Balances : b = read(w)
    BY <1>5 DEF Balances
  <2>2. mem' = [mem EXCEPT ![h].dst = b]
    BY <1>1, <2>1
  <2> QED
    BY <2>1, <2>2, HookFacts, PaymentsFacts
<1>9. /\ hook' \in [Hook -> HookRow] /\ hook'[h].new = new
      /\ hook'[h].event = hook[h].event /\ hook'[h].account = hook[h].account
      /\ \A g \in Hook \ {h} : hook'[g] = hook[g]
  <2>1. hook' = [hook EXCEPT ![h].new = new]
    BY <1>2, <1>3
  <2> QED
    BY <2>1, PaymentsFacts DEF HookRow
<1>10. /\ pc' \in [Proc -> Label \cup HookLabel] /\ pc'[h] = "updateWallet"
       /\ \A p \in Proc \ {h} : pc'[p] = pc[p]
  BY <1>2, HookFacts, PaymentsFacts DEF HookLabel, Crediting
<1>11. UNCHANGED <<balance, lock, dirty, owner, account, contribution, accountLock>>
  BY <1>2 DEF tables, accounts
<1>12. PayTypes'
  BY <1>7, <1>8, <1>9, <1>10, <1>11, PaymentsFacts
  DEF PayTypes, PaystackTypeOK, Rows, HookRow
<1>13. LocksExist'
  BY <1>11 DEF PaymentsInv, LocksExist
<1>14. NewApart'
  <2>1. \A g \in Hook \ {h} : g \in Proc /\ req'[g] = req[g]
    BY <1>7, Parties
  <2> QED
    BY <1>4, <1>7, <1>9, <2>1 DEF PaymentsInv, NewApart, WalletOf
<1>15. Frame(h)
  BY <1>7, <1>8, <1>9, <1>10, <1>11 DEF Frame
<1>16. HookOK(h)'
  BY <1>2, <1>4, <1>5, <1>7, <1>8, <1>9, <1>10, <1>11, HookFacts
  DEF HookOK, WalletOf, EventOf, HookLabel, Begun, Crediting, Updated, Checked
<1> QED
  BY <1>12, <1>13, <1>14, <1>15, <1>16, DeliveryKeeps

(* The update of the wallet: the row is locked, unless it is new.           *)
LEMMA UpdateWalletStep ==
  ASSUME PaymentsInv, NEW h \in Hook, UpdateWallet(h), ~ CreditFails(h)
  PROVE  PaymentsInv'
<1> DEFINE w == WalletOf(h)
           after == mem[h].dst + EventOf(h).amount
<1>1. /\ pc[h] = "updateWallet" /\ pc' = [pc EXCEPT ![h] = "updateAccount"]
      /\ hook[h].new \/ Lockable(h, w)
      /\ Fits(after)
      /\ lock' = IF hook[h].new THEN lock ELSE Locked(h, w)
      /\ mem' = [mem EXCEPT ![h].dst = after]
      /\ dirty' = [dirty EXCEPT ![h][w] = after]
      /\ UNCHANGED <<tables, req, paystackVars>>
  BY DEF UpdateWallet, Goto
<1>2. /\ w \in Wallet /\ after \in Money
      /\ hook[h].new <=> balance[w] = Null
  BY <1>1, HookFacts, MoneyAdds DEF HookOK, Crediting
<1>3. PICK b \in Money : b = after
  BY <1>2
<1> HIDE DEF w, after
<1>4. /\ mem' \in [Proc -> [src : Balances, dst : Balances]]
      /\ mem'[h].dst = b
      /\ \A p \in Proc \ {h} : mem'[p] = mem[p]
  <2>1. mem' = [mem EXCEPT ![h].dst = b] /\ b \in Balances
    BY <1>1, <1>3 DEF Balances
  <2> QED
    BY <2>1, HookFacts, PaymentsFacts
<1>5. /\ dirty' \in [Proc -> [Wallet -> Balances]]
      /\ dirty'[h][w] = b
      /\ \A p \in Proc \ {h} : dirty'[p] = dirty[p]
  <2>1. dirty' = [dirty EXCEPT ![h][w] = b] /\ b \in Balances
    BY <1>1, <1>3 DEF Balances
  <2> QED
    BY <1>2, <2>1, HookFacts, PaymentsFacts
<1>6. /\ pc' \in [Proc -> Label \cup HookLabel] /\ pc'[h] = "updateAccount"
      /\ \A p \in Proc \ {h} : pc'[p] = pc[p]
  BY <1>1, HookFacts, PaymentsFacts DEF HookLabel, Crediting
<1>7. /\ lock' \in [Wallet -> Proc \cup {NoProc}]
      /\ ~ hook[h].new => lock'[w] = h
      /\ \A v \in Wallet : lock[v] \notin {NoProc, h} => lock'[v] = lock[v]
      /\ \A v \in Wallet : lock'[v] # lock[v] => balance[v] # Null
  BY <1>1, <1>2, HookFacts, PaymentsFacts DEF Locked, Lockable
<1>8. UNCHANGED <<balance, req, owner, account, contribution, accountLock, hook>>
  BY <1>1 DEF tables, paystackVars
<1>9. PayTypes'
  BY <1>4, <1>5, <1>6, <1>7, <1>8, PaymentsFacts
  DEF PayTypes, PaystackTypeOK, Rows, HookRow
<1>10. LocksExist'
  BY <1>7, <1>8 DEF PaymentsInv, LocksExist
<1>11. NewApart'
  BY <1>8 DEF PaymentsInv, NewApart, WalletOf
<1>12. Frame(h)
  BY <1>4, <1>5, <1>6, <1>7, <1>8 DEF Frame
<1>13. HookOK(h)'
  BY <1>1, <1>2, <1>3, <1>4, <1>5, <1>6, <1>7, <1>8, HookFacts
  DEF w, HookOK, WalletOf, EventOf, HookLabel, Begun, Crediting, Updated, Checked
<1> QED
  BY <1>9, <1>10, <1>11, <1>12, <1>13, DeliveryKeeps

(* The end of a delivery, whatever became of it: its locks and drafts are   *)
(* gone.                                                                    *)
LEMMA CreditEnds ==
  ASSUME PaymentsInv, NEW h \in Hook, EndTransaction(h), EndCredit(h)
  PROVE  /\ lock' \in [Wallet -> Proc \cup {NoProc}]
         /\ \A v \in Wallet : lock[v] \notin {NoProc, h} => lock'[v] = lock[v]
         /\ \A v \in Wallet : lock'[v] # NoProc => lock'[v] = lock[v]
         /\ dirty' \in [Proc -> [Wallet -> Balances]]
         /\ \A p \in Proc \ {h} : dirty'[p] = dirty[p]
         /\ accountLock' \in [Row -> Hook \cup {NoProc}]
<1>1. NoWrites \in [Wallet -> Balances]
  BY DEF NoWrites, Balances
<1> QED
  BY <1>1, PaymentsFacts DEF EndTransaction, EndCredit

LEMMA CreditFailsStep ==
  ASSUME PaymentsInv, NEW h \in Hook, CreditFails(h) \/ RollbackCredit(h)
  PROVE  PaymentsInv'
<1>1. /\ EndTransaction(h) /\ EndCredit(h)
      /\ UNCHANGED <<tables, req, mem, accounts, hook>>
  BY DEF CreditFails, StatementFails, RollbackCredit
<1>2. PICK l \in {"rollback", "failed"} : pc' = [pc EXCEPT ![h] = l]
  BY DEF CreditFails, StatementFails, RollbackCredit, Goto
<1>3. /\ pc' \in [Proc -> Label \cup HookLabel] /\ pc'[h] = l
      /\ \A p \in Proc \ {h} : pc'[p] = pc[p]
  BY <1>2, HookFacts, PaymentsFacts DEF HookLabel
<1>4. UNCHANGED <<balance, req, mem, owner, account, contribution, hook>>
  BY <1>1 DEF tables, accounts
<1>5. PayTypes'
  BY <1>1, <1>3, <1>4, CreditEnds, PaymentsFacts
  DEF PayTypes, PaystackTypeOK, Rows, HookRow
<1>6. LocksExist' /\ NewApart'
  BY <1>1, <1>4, CreditEnds DEF PaymentsInv, LocksExist, NewApart, WalletOf
<1>7. Frame(h)
  BY <1>1, <1>3, <1>4, CreditEnds DEF Frame
<1>8. HookOK(h)'
  BY <1>3 DEF HookOK, HookLabel, Begun, Crediting, Updated, Checked
<1> QED
  BY <1>5, <1>6, <1>7, <1>8, DeliveryKeeps

(* The commit: a row that it has locked, or a new one, and the account and  *)
(* the savings of one user.                                                 *)
LEMMA CommitCreditStep ==
  ASSUME PaymentsInv, NEW h \in Hook, CommitCredit(h)
  PROVE  PaymentsInv'
<1> DEFINE w == WalletOf(h)
           u == EventOf(h).user
           r == EventOf(h).row
           a == EventOf(h).amount
<1>1. /\ pc[h] = "commitCredit" /\ pc' = [pc EXCEPT ![h] = "notify"]
      /\ balance' = [balance EXCEPT ![w] = dirty[h][w]]
      /\ owner' = IF hook[h].new THEN [owner EXCEPT ![w] = u] ELSE owner
      /\ account' = [account EXCEPT ![r] = hook[h].account + a]
      /\ contribution' = IF hook[h].member = Null THEN contribution
                         ELSE [contribution EXCEPT ![u] = hook[h].member + a]
      /\ EndTransaction(h) /\ EndCredit(h)
      /\ UNCHANGED <<req, mem, hook>>
  BY DEF CommitCredit, Goto
<1>2. /\ w \in Wallet /\ hook[h].new <=> balance[w] = Null
      /\ dirty[h][w] \in Rows /\ dirty[h][w] # Null
      /\ ~ hook[h].new => lock[w] = h
      /\ u \in User /\ r \in Row /\ a \in Money
      /\ hook[h].account \in Money /\ Fits(hook[h].account + a)
  <2>1. /\ pc[h] \in Begun \cup Crediting /\ pc[h] \in Crediting
        /\ pc[h] \in Updated /\ pc[h] \in Checked
    BY <1>1 DEF Crediting, Updated, Checked
  <2> QED
    BY <2>1, HookFacts, EventFacts, ConstantsAssumption
    DEF HookOK, Rows, Money
<1> HIDE DEF w, u, r, a
<1>3. /\ balance' \in [Wallet -> Rows]
      /\ \A v \in Wallet \ {w} : balance'[v] = balance[v]
      /\ balance'[w] # Null
  BY <1>1, <1>2, PaymentsFacts
<1>4. owner' \in [Wallet -> User \cup {NoUser}]
  BY <1>1, <1>2, PaymentsFacts
<1>5. account' \in [Row -> {m \in Money : Fits(m)}]
  <2>1. hook[h].account + a \in {m \in Money : Fits(m)}
    BY <1>2, MoneyAdds
  <2> QED
    BY <1>1, <2>1, PaymentsFacts
<1>6. contribution' \in [User -> Balances]
  <2>1. hook[h].member # Null => hook[h].member + a \in Balances
    BY <1>2, HookFacts, MoneyAdds DEF HookRow, Balances
  <2> QED
    BY <1>1, <2>1, PaymentsFacts
<1>7. /\ pc' \in [Proc -> Label \cup HookLabel] /\ pc'[h] = "notify"
      /\ \A p \in Proc \ {h} : pc'[p] = pc[p]
  BY <1>1, HookFacts, PaymentsFacts DEF HookLabel
<1>8. PayTypes'
  BY <1>1, <1>3, <1>4, <1>5, <1>6, <1>7, CreditEnds, PaymentsFacts
  DEF PayTypes, PaystackTypeOK, Rows, HookRow
<1>9. LocksExist' /\ NewApart'
  BY <1>1, <1>3, CreditEnds DEF PaymentsInv, LocksExist, NewApart, WalletOf
<1>10. Frame(h)
  BY <1>1, <1>2, <1>3, <1>7, CreditEnds DEF w, Frame
<1>11. HookOK(h)'
  BY <1>7 DEF HookOK, HookLabel, Begun, Crediting, Updated, Checked
<1> QED
  BY <1>8, <1>9, <1>10, <1>11, DeliveryKeeps

(* The server dies: rows and owners stay.                                   *)
LEMMA PaystackCrashStep == PaymentsInv /\ PaystackCrash => PaymentsInv'
<1> SUFFICES ASSUME PaymentsInv, PaystackCrash PROVE PaymentsInv'
  OBVIOUS
<1>1. /\ pc' = [p \in Proc |-> IF InFlight(p) THEN "lost" ELSE pc[p]]
      /\ lock' = [w \in Wallet |-> NoProc]
      /\ dirty' = [p \in Proc |-> NoWrites]
      /\ accountLock' = [r \in Row |-> NoProc]
      /\ UNCHANGED <<balance, req, mem, owner, account, contribution, hook>>
  BY DEF PaystackCrash, Crash, tables, accounts
<1>2. NoWrites \in [Wallet -> Balances]
  BY DEF NoWrites, Balances
<1>3. \A p \in Proc : pc'[p] \in Ended /\ (pc[p] = "idle" => pc'[p] = "idle")
  BY <1>1 DEF InFlight, Ended
<1>4. PayTypes'
  BY <1>1, <1>2, PaymentsFacts
  DEF PayTypes, PaystackTypeOK, Rows, HookRow, Label, Ended
<1>5. LocksExist' /\ NewApart'
  BY <1>1 DEF PaymentsInv, LocksExist, NewApart, WalletOf
<1>6. ASSUME NEW p \in Client PROVE ClientOK(p)'
  <2>1. pc'[p] \in Ended /\ (pc[p] = "idle" => pc'[p] = "idle")
    BY <1>3, Parties
  <2>2. pc[p] # "idle" => req[p] \in Requests
    BY ClientFacts DEF ClientRequest
  <2>3. dirty'[p] = NoWrites
    BY <1>1, Parties
  <2>4. ClientRequest(p)'
    BY <1>1, <2>1, <2>2
    DEF ClientRequest, SavedDestination, Inserting, Computed, InFlight, Label,
        Ended
  <2>5. ClientLocks(p)' /\ ClientRows(p)'
    BY <2>1 DEF ClientLocks, ClientRows, HasSource, HasDestination, Ended
  <2>6. ClientDrafts(p)'
    BY <2>1, <2>3
    DEF ClientDrafts, Draft, SavedSource, SavedDestination, Inserting, Ended,
        NoWrites
  <2> QED
    BY <2>4, <2>5, <2>6 DEF ClientOK
<1>7. ASSUME NEW h \in Hook PROVE HookOK(h)'
  BY <1>3, Parties
  DEF HookOK, HookLabel, Begun, Crediting, Updated, Checked, Ended
<1> QED
  BY <1>4, <1>5, <1>6, <1>7 DEF PaymentsInv

LEMMA PaymentsNextStep == PaymentsInv /\ [PaystackNext]_allVars => PaymentsInv'
<1> SUFFICES ASSUME PaymentsInv, [PaystackNext]_allVars PROVE PaymentsInv'
  OBVIOUS
<1>1. ASSUME UNCHANGED allVars PROVE PaymentsInv'
  BY <1>1
  DEF allVars, vars, paystackVars, PaymentsInv, PayTypes, PaystackTypeOK,
      LocksExist, NewApart, ClientOK, ClientRequest, ClientLocks, ClientRows,
      ClientDrafts, Draft, SavedSource, SavedDestination, HasSource,
      HasDestination, Computed, InFlight, HookOK, WalletOf, EventOf
<1>2. ASSUME NEW h \in Hook, Credit(h) PROVE PaymentsInv'
  <2>1. CASE CreditFails(h) \/ RollbackCredit(h)
    BY <2>1, CreditFailsStep
  <2>2. CASE ~ CreditFails(h) /\ ~ RollbackCredit(h)
    BY <1>2, <2>2, FindWalletStep, UpdateWalletStep, UpdateAccountStep,
       ChecksPassed, CommitCreditStep
    DEF Credit
  <2> QED
    BY <2>1, <2>2
<1> QED
  BY <1>1, <1>2, ClientStep, DeliverStep, PaystackCrashStep
  DEF PaystackNext, AllAnswered, allVars

LEMMA PaymentsInvariant == PaystackSpec => []PaymentsInv
BY PaymentsInitially, PaymentsNextStep, PTL DEF PaystackSpec

(* Every variable of a payment keeps its type, whatever requests and        *)
(* deliveries do at the same time: wallets and accounts fit their columns   *)
(* and are never negative.                                                  *)
THEOREM PaymentTypes == PaystackSpec => []PaystackTypeOK
<1>1. PaymentsInv => PaystackTypeOK
  BY DEF PaymentsInv, PayTypes
<1> QED
  BY PaymentsInvariant, <1>1, PTL

(* No delivery takes anything away from a request: what a request has read  *)
(* is still in the table when it commits, although a delivery reads the     *)
(* wallet without a lock (creditWallet's UPDATE waits for the row).         *)
THEOREM PaymentsLoseNoUpdate == PaystackSpec => []NoLostUpdate
<1>1. PaymentsInv => NoLostUpdate
  <2> SUFFICES ASSUME PaymentsInv PROVE NoLostUpdate
    OBVIOUS
  <2>1. \A p \in Client : ClientRows(p)
    BY ClientFacts
  <2>2. ASSUME NEW h \in Hook PROVE ~ HasSource(h) /\ ~ HasDestination(h)
    BY HookFacts DEF HookOK, HookLabel, Begun, Crediting, HasSource, HasDestination
  <2> QED
    BY <2>1, <2>2, Parties DEF NoLostUpdate, ClientRows
<1> QED
  BY PaymentsInvariant, <1>1, PTL

-----------------------------------------------------------------------------
(* The books, with payments in them.                                        *)

Entry == [reference : Proc \cup {e.id : e \in Event},
          src : Wallet \cup {NoWallet}, dst : Wallet \cup {NoWallet},
          amount : Money, sourceBalanceAfter : Balances,
          destinationBalanceAfter : Balances]

(* A request is booked when it has committed; a payment that is about to    *)
(* commit is not booked and no other delivery is about to book it.          *)
ClientBooked(p) ==
  /\ pc[p] \in {"alert", "done"} => p \in Booked
  /\ pc[p] \notin {"alert", "done", "lost"} => p \notin Booked
CreditBooked(h) ==
  pc[h] = "commitCredit" =>
    /\ Reference(h) \notin Booked
    /\ \A g \in Hook \ {h} : pc[g] = "commitCredit" => Reference(g) # Reference(h)
LedgerInv ==
  /\ PaymentsInv /\ ledger \in Seq(Entry) /\ BooksAgree
  /\ \A p \in Client : ClientBooked(p)
  /\ \A h \in Hook : CreditBooked(h)

(* One more movement under a reference that is not in the books.            *)
LEMMA MovementBooked ==
  ASSUME ledger \in Seq(Entry), BooksAgree, NEW e \in Entry, NEW t,
         t.reference = e.reference, e.reference \notin Booked, Agree(e, t),
         ledger' = Append(ledger, e), transactions' = transactions \cup {t}
  PROVE  /\ ledger' \in Seq(Entry) /\ BooksAgree'
         /\ Booked' = Booked \cup {e.reference}
<1>1. /\ ledger' \in Seq(Entry)
      /\ Len(ledger') = Len(ledger) + 1 /\ Len(ledger) \in Nat
      /\ \A i \in 1..Len(ledger) : ledger'[i] = ledger[i]
      /\ ledger'[Len(ledger) + 1] = e
  OBVIOUS
<1>2. Booked' = Booked \cup {e.reference}
  BY <1>1 DEF Booked
<1>3. \A i \in 1..Len(ledger) : ledger[i].reference \in Booked
  BY DEF Booked
<1>4. \A i, j \in 1..Len(ledger') :
        ledger'[i].reference = ledger'[j].reference => i = j
  BY <1>1, <1>3 DEF BooksAgree
<1>5. {s.reference : s \in transactions'} = Booked'
  BY <1>2 DEF BooksAgree
<1>6. ASSUME NEW i \in 1..Len(ledger'), NEW s \in transactions',
             s.reference = ledger'[i].reference
      PROVE  Agree(ledger'[i], s)
  <2>1. CASE i = Len(ledger) + 1 /\ s = t
    BY <1>1, <2>1
  <2>2. CASE i \in 1..Len(ledger) /\ s \in transactions
    BY <1>1, <1>6, <2>2 DEF BooksAgree
  <2>3. CASE i = Len(ledger) + 1 /\ s \in transactions
    <3>1. s.reference \in Booked
      BY <2>3 DEF BooksAgree
    <3> QED
      BY <1>1, <1>6, <2>3, <3>1
  <2>4. CASE i \in 1..Len(ledger) /\ s = t
    BY <1>1, <1>3, <1>6, <2>4
  <2> QED
    BY <1>1, <2>1, <2>2, <2>3, <2>4
<1> QED
  BY <1>1, <1>2, <1>4, <1>5, <1>6 DEF BooksAgree

LEMMA LedgerInitially == PaystackInit => LedgerInv
<1> SUFFICES ASSUME PaystackInit PROVE LedgerInv
  OBVIOUS
<1>1. ledger = <<>> /\ transactions = {}
  BY DEF PaystackInit, Init
<1>2. ledger \in Seq(Entry) /\ BooksAgree /\ Booked = {}
  BY <1>1 DEF BooksAgree, Booked
<1>3. \A p \in Proc : pc[p] = "idle"
  BY DEF PaystackInit, Init
<1> QED
  BY <1>2, <1>3, PaymentsInitially, Parties
  DEF LedgerInv, ClientBooked, CreditBooked

(* The entry of a request that commits.                                     *)
LEMMA RequestEntry ==
  ASSUME PaymentsInv, NEW p \in Client, Commit(p)
  PROVE  LedgerRow(p) \in Entry /\ Agree(LedgerRow(p), TransactionRow(p))
<1>1. p \in Proc /\ pc[p] = "commit"
  BY Parties DEF Commit
<1>2. req[p] \in Requests /\ Accepted(req[p]) /\ Computed(p)
  BY <1>1, ClientFacts DEF ClientRequest, Computed, InFlight, Ended
<1>3. /\ req[p].amount \in Nat
      /\ Debits(req[p]) <=> req[p].src # NoWallet
      /\ ~ Debits(req[p]) => Credits(req[p])
      /\ req[p].src \in Wallet \cup {NoWallet}
      /\ req[p].dst \in Wallet \cup {NoWallet}
  BY <1>2, RequestFacts, ConstantsAssumption DEF Accepted
<1>4. Stored(req[p].amount) \in Money
  BY <1>3, StoredIsMoney
<1>5. LedgerRow(p) \in Entry
  BY <1>1, <1>3, <1>4, ClientFacts DEF LedgerRow, Entry, Balances
<1>6. Agree(LedgerRow(p), TransactionRow(p))
  BY <1>3 DEF Agree, LedgerRow, TransactionRow
<1> QED
  BY <1>5, <1>6

(* The entries that are booked.                                             *)
LEMMA CommitLedger ==
  ASSUME LedgerInv, NEW p \in Client, Commit(p), UNCHANGED paystackVars
  PROVE  /\ ledger' \in Seq(Entry) /\ BooksAgree'
         /\ Booked' = Booked \cup {p}
<1>1. /\ pc[p] = "commit" /\ ledger' = Append(ledger, LedgerRow(p))
      /\ transactions' = transactions \cup {TransactionRow(p)}
  BY DEF Commit
<1>2. LedgerRow(p) \in Entry /\ Agree(LedgerRow(p), TransactionRow(p))
  BY RequestEntry DEF LedgerInv
<1>3. LedgerRow(p).reference = p /\ TransactionRow(p).reference = p
  BY DEF LedgerRow, TransactionRow
<1>4. p \notin Booked
  BY <1>1 DEF LedgerInv, ClientBooked
<1> HIDE DEF LedgerRow, TransactionRow
<1> QED
  BY <1>1, <1>2, <1>3, <1>4, MovementBooked DEF LedgerInv

LEMMA CreditLedger ==
  ASSUME LedgerInv, NEW h \in Hook, CommitCredit(h)
  PROVE  /\ ledger' \in Seq(Entry) /\ BooksAgree'
         /\ Booked' = Booked \cup {Reference(h)}
         /\ pc[h] = "commitCredit" /\ pc' = [pc EXCEPT ![h] = "notify"]
         /\ UNCHANGED hook
<1> DEFINE e == [reference |-> Reference(h), src |-> NoWallet, dst |-> WalletOf(h),
                 amount |-> EventOf(h).amount, sourceBalanceAfter |-> Null,
                 destinationBalanceAfter |-> mem[h].dst]
           t == [reference |-> Reference(h), src |-> NoWallet, dst |-> WalletOf(h),
                 amount |-> EventOf(h).amount, balanceAfter |-> mem[h].dst]
<1>1. /\ pc[h] = "commitCredit" /\ pc' = [pc EXCEPT ![h] = "notify"]
      /\ ledger' = Append(ledger, e) /\ transactions' = transactions \cup {t}
      /\ UNCHANGED hook /\ PaymentsInv
  BY DEF CommitCredit, Goto, LedgerInv
<1>2. /\ EventOf(h) \in Event /\ EventOf(h).amount \in Money
      /\ WalletOf(h) \in Wallet /\ mem[h].dst \in Money
  BY <1>1, HookFacts DEF HookOK, Crediting
<1>3. e \in Entry
  BY <1>2 DEF Entry, Reference, Balances
<1>4. /\ e.reference = Reference(h) /\ t.reference = Reference(h)
      /\ Agree(e, t)
  BY DEF Agree
<1>5. Reference(h) \notin Booked
  BY <1>1 DEF LedgerInv, CreditBooked
<1> HIDE DEF e, t
<1> QED
  BY <1>1, <1>3, <1>4, <1>5, MovementBooked DEF LedgerInv

(* Every other step leaves the books alone.                                 *)
LEMMA RequestBooksNothing ==
  ASSUME LedgerInv, NEW p \in Client, Submit(p) \/ Step(p), ~ Commit(p),
         UNCHANGED paystackVars
  PROVE  /\ UNCHANGED <<transactions, ledger, hook>>
         /\ \E l \in Label :
              /\ pc' = [pc EXCEPT ![p] = l]
              /\ l \in {"alert", "done"} => pc[p] \in {"alert", "done"}
              /\ pc[p] \in {"alert", "done", "lost"} => l \in {"alert", "done"}
<1> USE DEF tables, Goto, Label, Ended
<1>0. p \in Proc
  BY Parties
<1>1. UNCHANGED <<transactions, ledger, hook>>
  BY VictimWaits
  DEF paystackVars, Step, Submit, Begin, LockSource, LockDestination, Reject, Compute,
      SaveSource, SaveDestination, DestinationOverflows, InsertTransaction,
      TypeRejected, InsertLedger, Alert, Rollback, DeadlockVictim,
      StatementFails
<1>2. \E l \in Label :
        /\ pc' = [pc EXCEPT ![p] = l]
        /\ l \in {"alert", "done"} => pc[p] \in {"alert", "done"}
        /\ pc[p] \in {"alert", "done", "lost"} => l \in {"alert", "done"}
  BY <1>0, VictimWaits
  DEF Step, Submit, Begin, LockSource, LockDestination, Reject, Compute,
      SaveSource, SaveDestination, DestinationOverflows, InsertTransaction,
      TypeRejected, InsertLedger, Alert, Rollback, DeadlockVictim,
      StatementFails
<1> QED
  BY <1>1, <1>2

LEMMA DeliveryBooksNothing ==
  ASSUME LedgerInv, NEW h \in Hook, Deliver(h) \/ Credit(h), ~ CommitCredit(h)
  PROVE  /\ UNCHANGED <<transactions, ledger>>
         /\ \E l \in HookLabel : pc' = [pc EXCEPT ![h] = l]
         /\ \A g \in Hook : hook'[g] = hook[g] \/ (g = h /\ pc'[h] # "commitCredit")
         /\ pc'[h] = "commitCredit" =>
              /\ \A g \in Hook : pc[g] = "commitCredit" => Reference(g) # Reference(h)
              /\ \A t \in transactions : t.reference # Reference(h)
<1> USE DEF tables, Goto, HookLabel, Begun, Crediting, paystackVars
<1>1. PaymentsInv /\ h \in Proc /\ pc \in [Proc -> Label \cup HookLabel]
  BY Parties, PaymentsFacts DEF LedgerInv
<1>2. UNCHANGED <<transactions, ledger>>
  BY DEF Deliver, Credit, BeginCredit, FindWallet, UpdateWallet, UpdateAccount,
     ReadMember, SaveMember, Record, Notify, RollbackCredit, CreditFails,
     StatementFails
<1>3. \E l \in HookLabel : pc' = [pc EXCEPT ![h] = l]
  BY DEF Deliver, Credit, BeginCredit, FindWallet, UpdateWallet, UpdateAccount,
     ReadMember, SaveMember, Record, Notify, RollbackCredit, CreditFails,
     StatementFails
<1>4. pc'[h] = "commitCredit" => Record(h) /\ ~ CreditFails(h)
  BY <1>1
  DEF Deliver, Credit, BeginCredit, FindWallet, UpdateWallet, UpdateAccount,
      ReadMember, SaveMember, Notify, RollbackCredit, CreditFails,
      StatementFails, Record
<1>5. \A g \in Hook \ {h} : hook'[g] = hook[g]
  BY PaymentsFacts, <1>1
  DEF Deliver, Credit, BeginCredit, FindWallet, UpdateWallet, UpdateAccount,
      ReadMember, SaveMember, Record, Notify, RollbackCredit, CreditFails
<1>6. Record(h) => UNCHANGED hook
  BY DEF Record, CreditFails
<1>7. Record(h) /\ ~ CreditFails(h) =>
        /\ \A g \in Hook : pc[g] = "commitCredit" => Reference(g) # Reference(h)
        /\ \A t \in transactions : t.reference # Reference(h)
  BY DEF Record
<1> QED
  BY <1>2, <1>3, <1>4, <1>5, <1>6, <1>7

LEMMA LedgerNextStep == LedgerInv /\ [PaystackNext]_allVars => LedgerInv'
<1> SUFFICES ASSUME LedgerInv, [PaystackNext]_allVars PROVE LedgerInv'
  OBVIOUS
<1>0. /\ PaymentsInv /\ PaymentsInv'
      /\ pc \in [Proc -> Label \cup HookLabel]
  BY PaymentsNextStep, PaymentsFacts DEF LedgerInv
<1>1. \A h \in Hook : pc[h] = "commitCredit" =>
        Reference(h) \in {e.id : e \in Event} /\ Reference(h) \notin Proc
  BY <1>0, HookFacts, PaystackAssumption DEF HookOK, Crediting, Reference
<1>2. CASE \E p \in Client : (Submit(p) \/ Step(p)) /\ UNCHANGED paystackVars
  <2>1. PICK p \in Client : (Submit(p) \/ Step(p)) /\ UNCHANGED paystackVars
    BY <1>2
  <2>2. \A h \in Hook : p # h /\ hook'[h] = hook[h]
    BY <2>1, Parties DEF paystackVars
  <2>3. CASE Commit(p)
    <3>1. /\ ledger' \in Seq(Entry) /\ BooksAgree' /\ Booked' = Booked \cup {p}
      BY <2>1, <2>3, CommitLedger
    <3>2. \E l \in {"alert", "done"} : pc' = [pc EXCEPT ![p] = l]
      BY <2>3 DEF Commit, Goto
    <3>3. \A q \in Client : ClientBooked(q)'
      BY <1>0, <3>1, <3>2, Parties DEF LedgerInv, ClientBooked
    <3>4. \A h \in Hook : CreditBooked(h)'
      BY <1>0, <1>1, <2>2, <3>1, <3>2, Parties
      DEF LedgerInv, CreditBooked, Reference, EventOf
    <3> QED
      BY <1>0, <3>1, <3>3, <3>4 DEF LedgerInv
  <2>4. CASE ~ Commit(p)
    <3>1. PICK l \in Label :
            /\ pc' = [pc EXCEPT ![p] = l]
            /\ l \in {"alert", "done"} => pc[p] \in {"alert", "done"}
            /\ pc[p] \in {"alert", "done", "lost"} => l \in {"alert", "done"}
      BY <2>1, <2>4, RequestBooksNothing
    <3>2. UNCHANGED <<transactions, ledger>>
      BY <2>1, <2>4, RequestBooksNothing
    <3>3. Booked' = Booked /\ BooksAgree'
      BY <3>2 DEF LedgerInv, Booked, BooksAgree
    <3>4. \A q \in Client : ClientBooked(q)'
      BY <1>0, <3>1, <3>3, Parties DEF LedgerInv, ClientBooked
    <3>5. \A h \in Hook : CreditBooked(h)'
      BY <1>0, <2>2, <3>1, <3>3, Parties
      DEF LedgerInv, CreditBooked, Reference, EventOf
    <3> QED
      BY <1>0, <3>2, <3>3, <3>4, <3>5 DEF LedgerInv
  <2> QED
    BY <2>3, <2>4
<1>3. CASE \E h \in Hook : Deliver(h) \/ Credit(h)
  <2>1. PICK h \in Hook : Deliver(h) \/ Credit(h)
    BY <1>3
  <2>2. CASE CommitCredit(h)
    <3>1. /\ ledger' \in Seq(Entry) /\ BooksAgree'
          /\ Booked' = Booked \cup {Reference(h)}
          /\ pc[h] = "commitCredit" /\ pc' = [pc EXCEPT ![h] = "notify"]
          /\ UNCHANGED hook
      BY <2>2, CreditLedger
    <3>2. \A p \in Client : ClientBooked(p)'
      BY <1>0, <1>1, <3>1, Parties DEF LedgerInv, ClientBooked
    <3>3. \A g \in Hook : CreditBooked(g)'
      BY <1>0, <3>1, Parties DEF LedgerInv, CreditBooked, Reference, EventOf
    <3> QED
      BY <1>0, <3>1, <3>2, <3>3 DEF LedgerInv
  <2>3. CASE ~ CommitCredit(h)
    <3>1. UNCHANGED <<transactions, ledger>>
      BY <2>1, <2>3, DeliveryBooksNothing
    <3>2. PICK l \in HookLabel : pc' = [pc EXCEPT ![h] = l]
      BY <2>1, <2>3, DeliveryBooksNothing
    <3>3. \A g \in Hook : hook'[g] = hook[g] \/ (g = h /\ pc'[h] # "commitCredit")
      BY <2>1, <2>3, DeliveryBooksNothing
    <3>4. pc'[h] = "commitCredit" =>
            /\ \A g \in Hook : pc[g] = "commitCredit" => Reference(g) # Reference(h)
            /\ \A t \in transactions : t.reference # Reference(h)
      BY <2>1, <2>3, DeliveryBooksNothing
    <3>5. Booked' = Booked /\ BooksAgree'
      BY <3>1 DEF LedgerInv, Booked, BooksAgree
    <3>6. pc'[h] = "commitCredit" => Reference(h) \notin Booked
      BY <3>4 DEF LedgerInv, BooksAgree
    <3>7. \A p \in Client : ClientBooked(p)'
      BY <1>0, <3>2, <3>5, Parties DEF LedgerInv, ClientBooked
    <3>8. ASSUME NEW g \in Hook, pc'[g] = "commitCredit"
          PROVE  /\ g # h => pc[g] = "commitCredit"
                 /\ Reference(g)' = Reference(g)
      BY <1>0, <3>2, <3>3, <3>8, Parties DEF Reference, EventOf
    <3>9. \A g \in Hook : CreditBooked(g)'
      BY <3>4, <3>5, <3>6, <3>8 DEF LedgerInv, CreditBooked
    <3> QED
      BY <1>0, <3>1, <3>5, <3>7, <3>9 DEF LedgerInv
  <2> QED
    BY <2>2, <2>3
<1>4. CASE PaystackCrash
  <2>1. /\ pc' = [p \in Proc |-> IF InFlight(p) THEN "lost" ELSE pc[p]]
        /\ UNCHANGED <<transactions, ledger>>
    BY <1>4 DEF PaystackCrash, Crash, tables
  <2>2. Booked' = Booked /\ BooksAgree'
    BY <2>1 DEF LedgerInv, Booked, BooksAgree
  <2>3. \A p \in Client : ClientBooked(p)'
    BY <2>1, <2>2, Parties DEF LedgerInv, ClientBooked, InFlight, Ended
  <2>4. \A h \in Hook : CreditBooked(h)'
    BY <2>1, Parties DEF CreditBooked, InFlight, Ended
  <2> QED
    BY <1>0, <2>1, <2>2, <2>3, <2>4 DEF LedgerInv
<1>5. CASE UNCHANGED allVars
  <2>1. UNCHANGED <<pc, transactions, ledger, hook>>
    BY <1>5 DEF allVars, vars, tables, paystackVars
  <2>2. Booked' = Booked /\ BooksAgree'
    BY <2>1 DEF LedgerInv, Booked, BooksAgree
  <2>3. \A p \in Client : ClientBooked(p)'
    BY <2>1, <2>2 DEF LedgerInv, ClientBooked
  <2>4. \A h \in Hook : CreditBooked(h)'
    BY <2>1, <2>2 DEF LedgerInv, CreditBooked, Reference, EventOf
  <2> QED
    BY <1>0, <2>1, <2>2, <2>3, <2>4 DEF LedgerInv
<1> QED
  BY <1>2, <1>3, <1>4, <1>5 DEF PaystackNext, AllAnswered, allVars

(* However often and at whatever time Paystack delivers an event, it is     *)
(* booked once, and every movement of requests and payments has one         *)
(* transaction and one ledger entry that agree.                             *)
THEOREM PaymentsAreBookedOnce == PaystackSpec => []BooksAgree
<1>1. LedgerInv => BooksAgree
  BY DEF LedgerInv
<1> QED
  BY LedgerInitially, LedgerNextStep, <1>1, PTL DEF PaystackSpec

(* AnswerTellsTruth, of the sessions that answer somebody.                  *)
AnswersOfRequests ==
  \A p \in Client :
    /\ pc[p] \in {"alert", "done"} => p \in Booked
    /\ pc[p] \in {"failed", "rollback"} => p \notin Booked

(* What a request was answered is true of the books also with deliveries    *)
(* among the requests: a payment neither books a request nor undoes it.     *)
THEOREM AnswersTellTheTruthWithPayments == PaystackSpec => []AnswersOfRequests
<1>1. LedgerInv => AnswersOfRequests
  BY DEF LedgerInv, ClientBooked, AnswersOfRequests
<1> QED
  BY LedgerInitially, LedgerNextStep, <1>1, PTL DEF PaystackSpec

-----------------------------------------------------------------------------
(* The savings.  A delivery computes from the account as it was when it was *)
(* delivered, which may be stale, and from the member as it is.  What it    *)
(* has read of the member stays true because it holds the lock of the only  *)
(* wallet of its user, or because the user has none: another delivery that  *)
(* writes the savings of that user leaves it with two.                      *)

Saving == {"saveMember", "record", "commitCredit"}
Alone(h) ==
  IF hook[h].new THEN \A w \in Wallet : owner[w] # EventOf(h).user
  ELSE AtMostOneWallet(EventOf(h).user)
CreditSaves(h) ==
  /\ pc[h] \in Begun \cup Crediting =>
       hook[h].account <= SumOf(CreditedOn(EventOf(h).row))
  /\ pc[h] \in Crediting /\ ~ hook[h].new =>
       owner[WalletOf(h)] = EventOf(h).user
  /\ pc[h] \in Saving /\ Alone(h) =>
       hook[h].member = contribution[EventOf(h).user]
NobodyOwns == \A w \in Wallet : balance[w] = Null => owner[w] = NoUser
SavingsInv ==
  /\ LedgerInv /\ SavingsMatchBooks /\ NobodyOwns
  /\ \A h \in Hook : CreditSaves(h)

(* The sum of no events.                                                    *)
LEMMA SumOfNone == SumOf({}) = 0
<1> DEFINE f == [e \in {} |-> e.amount]
<1>1. DOMAIN f = {}
  OBVIOUS
<1> HIDE DEF f
<1>2. SumFunction(f) = 0
  BY <1>1, SumEmpty DEF SumFunction
<1> QED
  BY <1>2 DEF f, SumOf

(* The sum of events is an integer, and one event more adds its amount.     *)
LEMMA SumOfOneMore ==
  ASSUME NEW D \in SUBSET Event, IsFiniteSet(D), NEW d \in Event
  PROVE  /\ SumOf(D) \in Int
         /\ d \notin D => SumOf(D \cup {d}) = SumOf(D) + d.amount
<1> DEFINE N == D \cup {d}
           f == [x \in D |-> x.amount]
           g == [x \in N |-> x.amount]
<1>1. \A x \in N : x.amount \in Int
  BY EventFacts
<1>2. (\A x \in D : f[x] \in Int) /\ \A x \in D : g[x] = f[x]
  BY <1>1
<1>3. g[d] = d.amount /\ g[d] \in Int
  BY <1>1
<1>4. SumOf(D) = SumFunction(f) /\ SumOf(N) = SumFunction(g)
  BY DEF SumOf
<1>5. DOMAIN f = D /\ DOMAIN g = N /\ N = D \cup {d}
  OBVIOUS
<1> HIDE DEF f, g, N
<1>6. SumOf(D) = SumFunctionOnSet(f, D) /\ SumOf(N) = SumFunctionOnSet(g, N)
  BY <1>4, <1>5 DEF SumFunction
<1>7. SumFunctionOnSet(f, D) \in Int
  BY <1>2, SumIsInt
<1>8. d \notin D => SumFunctionOnSet(g, N) = SumFunctionOnSet(f, D) + g[d]
  BY <1>2, <1>3, <1>5, SumOneMore
<1> QED
  BY <1>3, <1>5, <1>6, <1>7, <1>8

(* Events that are booked are finitely many: their references differ.       *)
LEMMA BookedEvents ==
  ASSUME ledger \in Seq(Entry), NEW D \in SUBSET Event,
         \A e \in D : e.id \in Booked
  PROVE  IsFiniteSet(D) /\ SumOf(D) \in Int
<1> DEFINE f == [e \in D |-> e.id]
<1>1. IsFiniteSet(Booked)
  BY BookedIsFinite
<1>2. f \in Injection(D, Booked)
  <2>1. \A e \in D : f[e] = e.id /\ e.id \in Booked /\ e \in Event
    OBVIOUS
  <2>2. f \in [D -> Booked]
    BY <2>1
  <2>3. \A d, e \in D : f[d] = f[e] => d = e
    BY <2>1, PaystackAssumption
  <2> HIDE DEF f
  <2> QED
    BY <2>2, <2>3 DEF Injection, IsInjective
<1>3. IsFiniteSet(D)
  BY <1>1, <1>2, FS_Injection
<1>4. SumOf(D) \in Int
  <2>1. CASE D = {}
    BY <2>1, SumOfNone
  <2>2. CASE D # {}
    BY <1>3, <2>2, SumOfOneMore
  <2> QED
    BY <2>1, <2>2
<1> QED
  BY <1>3, <1>4

LEMMA CreditedFacts ==
  ASSUME ledger \in Seq(Entry)
  PROVE  /\ \A u : /\ CreditedTo(u) \in SUBSET Event
                   /\ IsFiniteSet(CreditedTo(u)) /\ SumOf(CreditedTo(u)) \in Int
         /\ \A r : /\ CreditedOn(r) \in SUBSET Event
                   /\ IsFiniteSet(CreditedOn(r)) /\ SumOf(CreditedOn(r)) \in Int
<1>1. ASSUME NEW u
      PROVE  /\ CreditedTo(u) \in SUBSET Event
             /\ IsFiniteSet(CreditedTo(u)) /\ SumOf(CreditedTo(u)) \in Int
  <2>1. /\ CreditedTo(u) \in SUBSET Event
        /\ \A e \in CreditedTo(u) : e.id \in Booked
    BY DEF CreditedTo
  <2> QED
    BY <2>1, BookedEvents
<1>2. ASSUME NEW r
      PROVE  /\ CreditedOn(r) \in SUBSET Event
             /\ IsFiniteSet(CreditedOn(r)) /\ SumOf(CreditedOn(r)) \in Int
  <2>1. /\ CreditedOn(r) \in SUBSET Event
        /\ \A e \in CreditedOn(r) : e.id \in Booked
    BY DEF CreditedOn
  <2> QED
    BY <2>1, BookedEvents
<1> QED
  BY <1>1, <1>2

(* What is booked of requests is no event.                                  *)
LEMMA RequestsAreNoEvents ==
  ASSUME NEW p \in Proc, Booked' \in {Booked, Booked \cup {p}}
  PROVE  /\ \A u : CreditedTo(u)' = CreditedTo(u)
         /\ \A r : CreditedOn(r)' = CreditedOn(r)
BY PaystackAssumption DEF CreditedTo, CreditedOn

LEMMA SameBooks ==
  ASSUME Booked' = Booked
  PROVE  /\ \A u : CreditedTo(u)' = CreditedTo(u)
         /\ \A r : CreditedOn(r)' = CreditedOn(r)
BY DEF CreditedTo, CreditedOn

(* The commit of a delivery credits its event to its user and its row.      *)
LEMMA CreditAdds ==
  ASSUME LedgerInv, NEW h \in Hook, CommitCredit(h), NEW e, e = EventOf(h)
  PROVE  /\ e \in Event /\ e.user \in User /\ e.row \in Row /\ e.amount \in Money
         /\ SumOf(CreditedTo(e.user)') = SumOf(CreditedTo(e.user)) + e.amount
         /\ \A u \in User \ {e.user} : CreditedTo(u)' = CreditedTo(u)
         /\ SumOf(CreditedOn(e.row)') = SumOf(CreditedOn(e.row)) + e.amount
         /\ \A r \in Row \ {e.row} : CreditedOn(r)' = CreditedOn(r)
<1>1. /\ Booked' = Booked \cup {Reference(h)} /\ pc[h] = "commitCredit"
      /\ Reference(h) = e.id /\ Reference(h) \notin Booked
  BY CreditLedger DEF LedgerInv, CreditBooked, Reference
<1>2. e \in Event /\ e.user \in User /\ e.row \in Row /\ e.amount \in Money
  BY <1>1, HookFacts, EventFacts DEF LedgerInv, HookOK, Crediting
<1>3. \A d \in Event : d.id = e.id => d = e
  BY <1>2, PaystackAssumption
<1>4. /\ \A d \in Event : d.id \in Booked' <=> d.id \in Booked \/ d = e
      /\ e.id \notin Booked
  BY <1>1, <1>3
<1>5. /\ CreditedTo(e.user)' = CreditedTo(e.user) \cup {e}
      /\ e \notin CreditedTo(e.user)
      /\ \A u \in User \ {e.user} : CreditedTo(u)' = CreditedTo(u)
  BY <1>2, <1>4 DEF CreditedTo
<1>6. /\ CreditedOn(e.row)' = CreditedOn(e.row) \cup {e}
      /\ e \notin CreditedOn(e.row)
      /\ \A r \in Row \ {e.row} : CreditedOn(r)' = CreditedOn(r)
  BY <1>2, <1>4 DEF CreditedOn
<1>7. SumOf(CreditedTo(e.user) \cup {e}) = SumOf(CreditedTo(e.user)) + e.amount
  BY <1>2, <1>5, CreditedFacts, SumOfOneMore DEF LedgerInv
<1>8. SumOf(CreditedOn(e.row) \cup {e}) = SumOf(CreditedOn(e.row)) + e.amount
  BY <1>2, <1>6, CreditedFacts, SumOfOneMore DEF LedgerInv
<1> QED
  BY <1>2, <1>5, <1>6, <1>7, <1>8

LEMMA SavingsInitially == PaystackInit => SavingsInv
<1> SUFFICES ASSUME PaystackInit PROVE SavingsInv
  OBVIOUS
<1>1. \A h \in Hook : pc[h] = "idle"
  BY Parties DEF PaystackInit, Init
<1>2. Booked = {}
  BY DEF PaystackInit, Init, Booked
<1>3. ASSUME NEW x PROVE SumOf(CreditedTo(x)) = 0 /\ SumOf(CreditedOn(x)) = 0
  <2>1. CreditedTo(x) = {} /\ CreditedOn(x) = {}
    BY <1>2 DEF CreditedTo, CreditedOn
  <2> QED
    BY <2>1, SumOfNone
<1>4. SavingsMatchBooks
  <2>1. /\ \A u \in User : contribution[u] \in {0, Null}
        /\ \A r \in Row : account[r] = 0
    BY DEF PaystackInit
  <2> QED
    BY <1>3, <2>1 DEF SavingsMatchBooks
<1>5. \A h \in Hook : CreditSaves(h)
  BY <1>1 DEF CreditSaves, Begun, Crediting, Updated, Checked, Saving
<1> QED
  BY <1>4, <1>5, LedgerInitially DEF SavingsInv, NobodyOwns, PaystackInit

(* A step that credits nobody, and writes no account, no savings and no     *)
(* owner.                                                                   *)
LEMMA NobodySaves ==
  ASSUME SavingsInv, UNCHANGED <<account, contribution, owner>>,
         Booked' = Booked \/ \E p \in Proc : Booked' = Booked \cup {p}
  PROVE  SavingsMatchBooks'
<1>1. /\ \A u : CreditedTo(u)' = CreditedTo(u)
      /\ \A r : CreditedOn(r)' = CreditedOn(r)
  BY SameBooks, RequestsAreNoEvents
<1> QED
  BY <1>1 DEF SavingsInv, SavingsMatchBooks, AtMostOneWallet

(* A delivery that has not committed is at one of its steps with the event  *)
(* and the account it began with and the wallet it has found, which was its *)
(* user's unless it is new, and what it holds of the member is what was in  *)
(* the table when it read it.                                               *)
LEMMA DeliveryMoves ==
  ASSUME PaymentsInv, NEW h \in Hook, Credit(h), ~ CommitCredit(h)
  PROVE  /\ UNCHANGED <<balance, account, contribution, owner>>
         /\ \A g \in Hook \ {h} : pc'[g] = pc[g] /\ hook'[g] = hook[g]
         /\ pc'[h] \in Begun \cup Crediting =>
              /\ pc[h] \in Begun \cup Crediting
              /\ EventOf(h)' = EventOf(h) /\ hook'[h].account = hook[h].account
         /\ pc'[h] \in Crediting =>
              \/ /\ pc[h] \in Crediting /\ hook'[h].new = hook[h].new
                 /\ WalletOf(h)' = WalletOf(h)
              \/ hook'[h].new \/ owner[WalletOf(h)'] = EventOf(h).user
         /\ pc'[h] \in Saving =>
              \/ /\ pc[h] \in Saving /\ hook'[h].member = hook[h].member
                 /\ hook'[h].new = hook[h].new
              \/ hook'[h].member = contribution[EventOf(h).user]
<1> USE DEF tables, Goto, Begun, Crediting, Updated, Checked, Saving, EventOf,
            WalletOf, paystackVars, accounts
<1>1. /\ h \in Proc /\ pc \in [Proc -> Label \cup HookLabel]
      /\ hook \in [Hook -> HookRow] /\ accountLock \in [Row -> Hook \cup {NoProc}]
      /\ req \in [Proc -> Requests \cup Booking \cup {Null}]
  BY PaymentsFacts, Parties
<1>2. CASE CreditFails(h) \/ RollbackCredit(h)
  BY <1>1, <1>2, Parties DEF CreditFails, RollbackCredit, StatementFails
<1>3. CASE ~ CreditFails(h) /\ BeginCredit(h)
  BY <1>1, <1>3, Parties DEF BeginCredit
<1>4. CASE ~ CreditFails(h) /\ FindWallet(h)
  <2> DEFINE mine == {w \in Wallet : balance[w] # Null
                                     /\ owner[w] = EventOf(h).user}
  <2>1. /\ pc[h] = "findWallet" /\ pc' = [pc EXCEPT ![h] = "updateWallet"]
        /\ UNCHANGED <<balance, account, contribution, owner>>
    BY <1>4 DEF FindWallet
  <2>2. PICK b \in BOOLEAN : b = (mine = {})
    OBVIOUS
  <2>3. hook' = [hook EXCEPT ![h].new = b]
    BY <1>4, <2>2 DEF FindWallet
  <2>4. /\ hook'[h].event = hook[h].event /\ hook'[h].account = hook[h].account
        /\ hook'[h].new = b /\ \A g \in Hook \ {h} : hook'[g] = hook[g]
    BY <1>1, <2>3 DEF HookRow
  <2>5. ~ b => req'[h].dst \in mine
    <3> DEFINE booking(x) == [op |-> "deposit", src |-> NoWallet, dst |-> x,
                              amount |-> EventOf(h).amount, otp |-> FALSE,
                              type |-> "contribution"]
    <3>1. PICK x \in IF mine # {} THEN mine ELSE {v \in Wallet : Fresh(v)} :
            req' = [req EXCEPT ![h] = booking(x)]
      BY <1>4 DEF FindWallet
    <3>2. booking(x).dst = x
      OBVIOUS
    <3> HIDE DEF booking, mine
    <3>3. req'[h].dst = x
      BY <1>1, <3>1, <3>2
    <3> QED
      BY <2>2, <3>1, <3>3
  <2>6. hook'[h].new \/ owner[WalletOf(h)'] = EventOf(h).user
    BY <2>4, <2>5
  <2> QED
    BY <1>1, <2>1, <2>4, <2>6, Parties
<1>5. CASE ~ CreditFails(h) /\ UpdateWallet(h)
  BY <1>1, <1>5, Parties DEF UpdateWallet
<1>6. CASE ~ CreditFails(h) /\ UpdateAccount(h)
  BY <1>1, <1>6, Parties DEF UpdateAccount
<1>7. CASE ~ CreditFails(h) /\ ReadMember(h)
  <2>1. /\ pc[h] = "readMember" /\ pc' = [pc EXCEPT ![h] = "saveMember"]
        /\ hook' = [hook EXCEPT ![h].member = contribution[EventOf(h).user]]
        /\ UNCHANGED <<balance, account, contribution, owner, accountLock, req>>
    BY <1>7 DEF ReadMember
  <2>2. /\ hook'[h].event = hook[h].event /\ hook'[h].account = hook[h].account
        /\ hook'[h].member = contribution[EventOf(h).user]
        /\ hook'[h].new = hook[h].new
        /\ \A g \in Hook \ {h} : hook'[g] = hook[g]
    BY <1>1, <2>1 DEF HookRow
  <2> QED
    BY <1>1, <2>1, <2>2, Parties
<1>8. CASE ~ CreditFails(h) /\ SaveMember(h)
  BY <1>1, <1>8, Parties DEF SaveMember
<1>9. CASE ~ CreditFails(h) /\ Record(h)
  BY <1>1, <1>9, Parties DEF Record
<1>10. CASE Notify(h)
  BY <1>1, <1>10, Parties DEF Notify
<1> QED
  BY <1>2, <1>3, <1>4, <1>5, <1>6, <1>7, <1>8, <1>9, <1>10 DEF Credit

(* A step of a delivery moves no other session.                             *)
LEMMA DeliveryApart ==
  ASSUME PaymentsInv, NEW h \in Hook, Deliver(h) \/ Credit(h),
         NEW q \in Proc \ {h}
  PROVE  pc'[q] = pc[q] /\ req'[q] = req[q] /\ (q \in Hook => hook'[q] = hook[q])
<1>0. /\ pc \in [Proc -> Label \cup HookLabel] /\ hook \in [Hook -> HookRow]
      /\ req \in [Proc -> Requests \cup Booking \cup {Null}]
  BY PaymentsFacts
<1> USE DEF Goto, paystackVars
<1>1. CASE Deliver(h)
  BY <1>0, <1>1 DEF Deliver
<1>2. CASE FindWallet(h)
  BY <1>0, <1>2 DEF FindWallet
<1>3. CASE UpdateWallet(h) \/ UpdateAccount(h) \/ SaveMember(h) \/ Record(h)
  BY <1>0, <1>3
  DEF UpdateWallet, UpdateAccount, SaveMember, Record, CreditFails,
      StatementFails
<1>4. CASE BeginCredit(h) \/ ReadMember(h) \/ Notify(h)
  BY <1>0, <1>4 DEF BeginCredit, ReadMember, Notify
<1>5. CASE CommitCredit(h) \/ RollbackCredit(h)
  BY <1>0, <1>5 DEF CommitCredit, RollbackCredit
<1> QED
  BY <1>1, <1>2, <1>3, <1>4, <1>5 DEF Credit

(* A delivery that a step leaves alone keeps what it knows, if the step     *)
(* leaves the owner of its wallet alone and, unless it gives its user a     *)
(* second wallet, the savings too.                                          *)
LEMMA OthersSave ==
  ASSUME SavingsInv, NEW g \in Hook, pc'[g] = pc[g], hook'[g] = hook[g],
         WalletOf(g)' = WalletOf(g),
         \A r \in Row : /\ SumOf(CreditedOn(r)') \in Int
                        /\ SumOf(CreditedOn(r)) <= SumOf(CreditedOn(r)'),
         pc[g] \in Crediting /\ ~ hook[g].new =>
           owner'[WalletOf(g)] = owner[WalletOf(g)],
         pc[g] \in Saving /\ Alone(g)' =>
           /\ Alone(g)
           /\ contribution'[EventOf(g).user] = contribution[EventOf(g).user]
  PROVE  CreditSaves(g)'
<1>0. PICK r : r = EventOf(g).row
  OBVIOUS
<1>1. CreditSaves(g) /\ PaymentsInv /\ ledger \in Seq(Entry)
  BY DEF SavingsInv, LedgerInv
<1>2. pc[g] \in Begun \cup Crediting => r \in Row /\ hook[g].account \in Int
  BY <1>0, <1>1, HookFacts, EventFacts DEF HookOK, Money
<1>3. EventOf(g)' = EventOf(g)
  BY DEF EventOf
<1>4. pc[g] \in Begun \cup Crediting => hook[g].account <= SumOf(CreditedOn(r)')
  <2> SUFFICES ASSUME pc[g] \in Begun \cup Crediting
               PROVE  hook[g].account <= SumOf(CreditedOn(r)')
    OBVIOUS
  <2>1. r \in Row /\ hook[g].account \in Int
    BY <1>2
  <2>2. /\ SumOf(CreditedOn(r)) \in Int /\ SumOf(CreditedOn(r)') \in Int
        /\ SumOf(CreditedOn(r)) <= SumOf(CreditedOn(r)')
    BY <1>1, <2>1, CreditedFacts
  <2>3. hook[g].account <= SumOf(CreditedOn(r))
    BY <1>0, <1>1 DEF CreditSaves
  <2> DEFINE x == hook[g].account
             s == SumOf(CreditedOn(r))
             t == SumOf(CreditedOn(r)')
  <2>4. x \in Int /\ s \in Int /\ t \in Int /\ x <= s /\ s <= t
    BY <2>1, <2>2, <2>3
  <2> HIDE DEF x, s, t
  <2>5. x <= t
    BY ONLY <2>4
  <2> QED
    BY <2>5 DEF x, t
<1>5. pc'[g] \in Begun \cup Crediting =>
        hook'[g].account <= SumOf(CreditedOn(EventOf(g).row)')
  BY <1>0, <1>3, <1>4 DEF CreditedOn
<1>6. pc'[g] \in Crediting /\ ~ hook'[g].new =>
        owner'[WalletOf(g)'] = EventOf(g)'.user
  BY <1>1, <1>3 DEF CreditSaves
<1>7. pc'[g] \in Saving /\ Alone(g)' =>
        hook'[g].member = contribution'[EventOf(g)'.user]
  BY <1>1, <1>3 DEF CreditSaves
<1> QED
  BY <1>5, <1>6, <1>7 DEF CreditSaves

(* A step that writes no owner and no savings.                              *)
LEMMA NothingWritten ==
  ASSUME UNCHANGED <<owner, contribution>>, NEW g \in Hook,
         hook'[g] = hook[g]
  PROVE  Alone(g)' = Alone(g) /\ EventOf(g)' = EventOf(g)
BY DEF Alone, EventOf, AtMostOneWallet

(* A delivery is handed over or moves on.                                   *)
LEMMA DeliverySaves ==
  ASSUME SavingsInv, NEW h \in Hook, Deliver(h) \/ Credit(h), ~ CommitCredit(h)
  PROVE  SavingsMatchBooks' /\ NobodyOwns' /\ \A g \in Hook : CreditSaves(g)'
<1>1. /\ LedgerInv /\ PaymentsInv /\ ledger \in Seq(Entry)
      /\ UNCHANGED <<transactions, ledger>>
  BY DeliveryBooksNothing DEF SavingsInv, LedgerInv
<1>2. Booked' = Booked
  BY <1>1 DEF Booked
<1>3. \A r : SumOf(CreditedOn(r)') = SumOf(CreditedOn(r))
  BY <1>2, SameBooks
<1>4. /\ UNCHANGED <<balance, account, contribution, owner>>
      /\ \A g \in Hook \ {h} : pc'[g] = pc[g] /\ hook'[g] = hook[g]
  <2>1. CASE Deliver(h)
    BY <1>1, <2>1, PaymentsFacts, Parties DEF Deliver, Goto, accounts, tables
  <2>2. CASE Credit(h)
    BY <1>1, <2>2, DeliveryMoves
  <2> QED
    BY <2>1, <2>2
<1>5. SavingsMatchBooks' /\ NobodyOwns'
  BY <1>2, <1>4, NobodySaves DEF SavingsInv, NobodyOwns
<1>6. ASSUME NEW g \in Hook \ {h} PROVE CreditSaves(g)'
  <2>1. \A r \in Row : /\ SumOf(CreditedOn(r)') \in Int
                       /\ SumOf(CreditedOn(r)) <= SumOf(CreditedOn(r)')
    BY <1>1, <1>3, CreditedFacts
  <2>2. WalletOf(g)' = WalletOf(g)
    BY <1>1, Parties, DeliveryApart DEF WalletOf
  <2>3. Alone(g)' = Alone(g)
    BY <1>4, NothingWritten
  <2> QED
    BY <1>4, <2>1, <2>2, <2>3, OthersSave
<1>7. CreditSaves(h)'
  <2>1. CASE Deliver(h)
    <3>1. PICK e \in Event :
            IF e.success /\ e.amount > 0
            THEN /\ hook' = [hook EXCEPT ![h].event = e,
                                         ![h].account = account[e.row]]
                 /\ Goto(h, "connect")
            ELSE Goto(h, "done") /\ UNCHANGED hook
      BY <2>1 DEF Deliver
    <3>2. e.row \in Row
      BY EventFacts
    <3>3. /\ pc'[h] \in {"connect", "done"}
          /\ pc'[h] = "connect" => /\ hook'[h].event = e
                                   /\ hook'[h].account = account[e.row]
      BY <1>1, <3>1, PaymentsFacts, HookFacts DEF Goto, HookRow
    <3>4. account[e.row] <= SumOf(CreditedOn(e.row)')
      BY <1>3, <3>2 DEF SavingsInv, SavingsMatchBooks
    <3>5. pc'[h] = "connect" => hook'[h].account <= SumOf(CreditedOn(EventOf(h).row)')
      BY <3>3, <3>4 DEF EventOf
    <3> QED
      BY <3>3, <3>5
      DEF CreditSaves, Begun, Crediting, Updated, Checked, Saving
  <2>2. CASE Credit(h)
    <3>1. CreditSaves(h)
      BY DEF SavingsInv
    <3>2. pc'[h] \in Begun \cup Crediting =>
            hook'[h].account <= SumOf(CreditedOn(EventOf(h).row)')
      BY <1>1, <1>3, <2>2, <3>1, DeliveryMoves DEF CreditSaves
    <3>3. pc'[h] \in Crediting /\ ~ hook'[h].new =>
            owner'[WalletOf(h)'] = EventOf(h)'.user
      <4>1. pc'[h] \in Crediting => EventOf(h)' = EventOf(h)
        BY <1>1, <2>2, DeliveryMoves
      <4>2. pc'[h] \in Crediting /\ ~ hook'[h].new =>
              owner[WalletOf(h)'] = EventOf(h).user
        BY <1>1, <2>2, <3>1, DeliveryMoves DEF CreditSaves
      <4> QED
        BY <1>4, <4>1, <4>2
    <3>4. pc'[h] \in Saving /\ Alone(h)' =>
            hook'[h].member = contribution'[EventOf(h)'.user]
      <4> SUFFICES ASSUME pc'[h] \in Saving, Alone(h)'
                   PROVE  hook'[h].member = contribution'[EventOf(h)'.user]
        OBVIOUS
      <4>1. EventOf(h)' = EventOf(h)
        BY <1>1, <2>2, DeliveryMoves DEF Saving, Crediting
      <4>2. CASE hook'[h].member = contribution[EventOf(h).user]
        BY <1>4, <4>1, <4>2
      <4>3. CASE /\ pc[h] \in Saving /\ hook'[h].member = hook[h].member
                 /\ hook'[h].new = hook[h].new
        <5>1. Alone(h)
          BY <1>4, <4>1, <4>3 DEF Alone, AtMostOneWallet
        <5> QED
          BY <1>4, <3>1, <4>1, <4>3, <5>1 DEF CreditSaves
      <4> QED
        BY <1>1, <2>2, <4>2, <4>3, DeliveryMoves
    <3> QED
      BY <3>2, <3>3, <3>4 DEF CreditSaves
  <2> QED
    BY <2>1, <2>2
<1> QED
  BY <1>5, <1>6, <1>7

(* A delivery commits: it adds the amount of its event to an account that   *)
(* showed no more than was booked on it, and to the savings of its user as  *)
(* they are, unless it leaves the user with two wallets.                    *)
LEMMA CommitSaves ==
  ASSUME SavingsInv, NEW h \in Hook, CommitCredit(h)
  PROVE  SavingsMatchBooks' /\ NobodyOwns' /\ \A g \in Hook : CreditSaves(g)'
<1>0. PICK e : e = EventOf(h)
  OBVIOUS
<1> DEFINE u == e.user
           r == e.row
           a == e.amount
           w == WalletOf(h)
           s(v) == SumOf(CreditedTo(v))
           t(v) == SumOf(CreditedTo(v)')
           on(q) == SumOf(CreditedOn(q))
           no(q) == SumOf(CreditedOn(q)')
<1>1. /\ LedgerInv /\ PaymentsInv /\ ledger \in Seq(Entry) /\ h \in Proc
      /\ Credit(h)
  BY Parties DEF SavingsInv, LedgerInv, Credit
<1>2. /\ pc[h] = "commitCredit" /\ pc' = [pc EXCEPT ![h] = "notify"]
      /\ UNCHANGED <<hook, req>>
      /\ balance' = [balance EXCEPT ![w] = dirty[h][w]]
      /\ owner' = IF hook[h].new THEN [owner EXCEPT ![w] = u] ELSE owner
      /\ account' = [account EXCEPT ![r] = hook[h].account + a]
      /\ contribution' = IF hook[h].member = Null THEN contribution
                         ELSE [contribution EXCEPT ![u] = hook[h].member + a]
  BY <1>0 DEF CommitCredit, Goto
<1>3. u \in User /\ r \in Row /\ a \in Nat
  BY <1>0, CreditAdds, <1>1 DEF Money
<1>4. (\A v \in User : s(v) \in Int) /\ \A q \in Row : on(q) \in Int
  BY <1>1, CreditedFacts
<1>5. /\ t(u) = s(u) + a /\ \A v \in User \ {u} : t(v) = s(v)
      /\ no(r) = on(r) + a /\ \A q \in Row \ {r} : no(q) = on(q)
  BY <1>0, <1>1, CreditAdds
<1>6. /\ w \in Wallet /\ dirty[h][w] # Null
      /\ hook[h].new => balance[w] = Null /\ owner[w] = NoUser
      /\ ~ hook[h].new => /\ balance[w] # Null /\ lock[w] = h
                          /\ owner[w] = u
      /\ hook[h].account <= on(r) /\ hook[h].account \in Int
      /\ Alone(h) => hook[h].member = contribution[u]
  <2>1. /\ pc[h] \in Begun \cup Crediting /\ pc[h] \in Crediting
        /\ pc[h] \in Updated /\ pc[h] \in Saving
    BY <1>2 DEF Crediting, Updated, Saving
  <2>2. HookOK(h) /\ CreditSaves(h) /\ NobodyOwns
    BY <1>1, HookFacts DEF SavingsInv
  <2>3. hook[h].account <= on(r) /\ Alone(h) => hook[h].member = contribution[u]
    BY <1>0, <2>1, <2>2 DEF CreditSaves
  <2>4. hook[h].account <= on(r)
    BY <1>0, <2>1, <2>2 DEF CreditSaves
  <2>5. w \in Wallet /\ (hook[h].new <=> balance[w] = Null)
        /\ dirty[h][w] \in Money /\ (~ hook[h].new => lock[w] = h)
    BY <2>1, <2>2 DEF HookOK
  <2>6. ~ hook[h].new => owner[w] = u
    BY <1>0, <2>1, <2>2 DEF CreditSaves
  <2>7. dirty[h][w] # Null
    BY <2>5, ConstantsAssumption DEF Money
  <2>8. hook[h].account \in Int
    BY <2>1, <2>2 DEF HookOK, Money
  <2> QED
    BY <2>2, <2>3, <2>4, <2>5, <2>6, <2>7, <2>8 DEF NobodyOwns
<1>7. /\ owner \in [Wallet -> User \cup {NoUser}] /\ NoUser \notin User
      /\ contribution \in [User -> Balances] /\ account \in [Row -> Money]
      /\ balance \in [Wallet -> Rows]
  BY <1>1, PaymentsFacts, PaystackAssumption
<1>8. /\ owner'[w] = u
      /\ \A x \in Wallet, v \in User \ {u} : owner'[x] = v <=> owner[x] = v
      /\ \A x \in Wallet : owner[x] = u => owner'[x] = u
      /\ \A x \in Wallet : balance[x] # Null => owner'[x] = owner[x]
  <2> HIDE DEF u, w
  <2> QED
    BY <1>2, <1>3, <1>6, <1>7
<1>9. \A v \in User : AtMostOneWallet(v)' => AtMostOneWallet(v)
  <2> HIDE DEF u, w
  <2> QED
    BY <1>8 DEF AtMostOneWallet
<1>10. AtMostOneWallet(u)' => Alone(h)
  <2> SUFFICES ASSUME AtMostOneWallet(u)' PROVE Alone(h)
    OBVIOUS
  <2>1. CASE hook[h].new
    <3>1. ASSUME NEW x \in Wallet, owner[x] = u PROVE FALSE
      <4>1. x # w
        BY <1>3, <1>6, <1>7, <2>1, <3>1
      <4>2. owner'[x] = u
        BY <1>8, <3>1
      <4> QED
        BY <1>6, <1>8, <4>1, <4>2 DEF AtMostOneWallet
    <3> QED
      BY <1>0, <2>1, <3>1 DEF Alone
  <2>2. CASE ~ hook[h].new
    BY <1>0, <1>3, <1>9, <2>2 DEF Alone
  <2> QED
    BY <2>1, <2>2
<1>11. ASSUME NEW v \in User, contribution'[v] # Null, AtMostOneWallet(v)'
       PROVE  contribution'[v] = t(v)
  <2>1. contribution[v] # Null => contribution[v] = s(v)
    BY <1>9, <1>11 DEF SavingsInv, SavingsMatchBooks
  <2>2. CASE v = u
    <3>1. hook[h].member = contribution[u]
      BY <1>6, <1>10, <1>11, <2>2
    <3>2. contribution'[v] = IF contribution[u] # Null
                             THEN contribution[u] + a ELSE contribution[v]
      BY <1>2, <1>3, <1>7, <2>2, <3>1
    <3> HIDE DEF s, t, a, u
    <3> QED
      BY <1>5, <1>11, <2>1, <2>2, <3>2
  <2>3. CASE v # u
    <3>1. contribution'[v] = contribution[v]
      BY <1>2, <1>7, <2>3
    <3> QED
      BY <1>5, <1>11, <2>1, <2>3, <3>1
  <2> QED
    BY <2>2, <2>3
<1>12. ASSUME NEW q \in Row PROVE account'[q] <= no(q)
  <2>1. account[q] <= on(q) /\ account[q] \in Int /\ on(q) \in Int /\ on(r) \in Int
    BY <1>3, <1>4, <1>7 DEF SavingsInv, SavingsMatchBooks, Money
  <2>2. account'[q] = IF q = r THEN hook[h].account + a ELSE account[q]
    BY <1>2, <1>7
  <2> DEFINE m == hook[h].account
  <2>3. m \in Int /\ m <= on(r)
    BY <1>6
  <2> HIDE DEF on, no, a, r, m
  <2>4. CASE q = r
    BY <1>3, <1>5, <2>1, <2>2, <2>3, <2>4 DEF m
  <2>5. CASE q # r
    BY <1>5, <2>1, <2>2, <2>5
  <2> QED
    BY <2>4, <2>5
<1>13. SavingsMatchBooks'
  BY <1>11, <1>12 DEF SavingsMatchBooks
<1>14. NobodyOwns'
  <2>1. ASSUME NEW x \in Wallet, balance'[x] = Null PROVE owner'[x] = NoUser
    <3>1. x # w /\ balance[x] = Null
      BY <1>2, <1>6, <1>7, <2>1
    <3>2. owner'[x] = owner[x]
      BY <1>2, <1>7, <3>1
    <3> QED
      BY <3>1, <3>2 DEF SavingsInv, NobodyOwns
  <2> QED
    BY <2>1 DEF NobodyOwns
<1>15. \A q \in Row : no(q) \in Int /\ on(q) <= no(q)
  <2> HIDE DEF on, no, a, r
  <2> QED
    BY <1>3, <1>4, <1>5
<1>16. ASSUME NEW g \in Hook \ {h} PROVE CreditSaves(g)'
  <2>1. pc'[g] = pc[g] /\ hook'[g] = hook[g] /\ WalletOf(g)' = WalletOf(g)
    BY <1>1, <1>2, PaymentsFacts, Parties DEF WalletOf
  <2>2. HookOK(g) /\ CreditSaves(g) /\ g \in Proc
    BY <1>1, HookFacts DEF SavingsInv
  <2>3. pc[g] \in Crediting /\ ~ hook[g].new =>
          /\ WalletOf(g) \in Wallet /\ balance[WalletOf(g)] # Null
          /\ owner'[WalletOf(g)] = owner[WalletOf(g)]
    BY <1>8, <2>2 DEF HookOK
  <2>4. ASSUME pc[g] \in Saving, Alone(g)'
        PROVE  /\ Alone(g)
               /\ contribution'[EventOf(g).user] = contribution[EventOf(g).user]
    <3>0. pc[g] \in Begun \cup Crediting /\ pc[g] \in Crediting /\ pc[g] \in Updated
      BY <2>4 DEF Saving, Updated, Crediting
    <3>1. PICK v : v = EventOf(g).user
      OBVIOUS
    <3>2. v \in User /\ EventOf(g)' = EventOf(g)
      BY <2>1, <2>2, <3>0, <3>1, EventFacts DEF HookOK, EventOf
    <3>3. Alone(g)' = IF hook[g].new THEN \A x \in Wallet : owner'[x] # v
                      ELSE AtMostOneWallet(v)'
      BY <2>1, <3>1, <3>2 DEF Alone, AtMostOneWallet
    <3>4. v # u
      <4> SUFFICES ASSUME v = u PROVE FALSE
        OBVIOUS
      <4>1. ~ hook[g].new /\ AtMostOneWallet(u)'
        BY <1>6, <1>8, <2>4, <3>3
      <4>2. owner'[WalletOf(g)] = u /\ WalletOf(g) \in Wallet
        BY <2>2, <2>3, <3>0, <3>1, <4>1 DEF CreditSaves
      <4>3. WalletOf(g) = w
        BY <1>6, <1>8, <4>1, <4>2 DEF AtMostOneWallet
      <4>4. balance[w] # Null /\ lock[w] = g
        BY <2>2, <2>3, <3>0, <4>1, <4>3 DEF HookOK
      <4> QED
        BY <1>6, <4>4
    <3>5. Alone(g)
      <4>1. CASE hook[g].new
        BY <1>8, <2>4, <3>1, <3>2, <3>3, <3>4, <4>1 DEF Alone
      <4>2. CASE ~ hook[g].new
        BY <1>9, <2>4, <3>1, <3>2, <3>3, <4>2 DEF Alone
      <4> QED
        BY <4>1, <4>2
    <3>6. contribution'[v] = contribution[v]
      BY <1>2, <1>7, <3>2, <3>4
    <3> QED
      BY <3>1, <3>5, <3>6
  <2> QED
    BY <1>15, <2>1, <2>3, <2>4, OthersSave
<1>17. CreditSaves(h)'
  <2>1. pc'[h] = "notify"
    BY <1>1, <1>2, PaymentsFacts
  <2> QED
    BY <2>1 DEF CreditSaves, Begun, Crediting, Updated, Checked, Saving
<1> QED
  BY <1>13, <1>14, <1>16, <1>17

(* Requests credit no event and give no wallet an owner, and a crash ends   *)
(* every delivery.                                                          *)
LEMMA SavingsNextStep == SavingsInv /\ [PaystackNext]_allVars => SavingsInv'
<1> SUFFICES ASSUME SavingsInv, [PaystackNext]_allVars PROVE SavingsInv'
  OBVIOUS
<1>1. LedgerInv /\ LedgerInv' /\ PaymentsInv /\ ledger \in Seq(Entry)
  BY LedgerNextStep DEF SavingsInv, LedgerInv
<1>2. ASSUME Booked' = Booked \/ \E p \in Proc : Booked' = Booked \cup {p},
             UNCHANGED <<owner, account, contribution>>,
             \A h \in Hook : \/ /\ pc'[h] = pc[h] /\ hook'[h] = hook[h]
                                /\ WalletOf(h)' = WalletOf(h)
                             \/ pc'[h] \notin Begun \cup Crediting,
             \A w \in Wallet : balance[w] # Null => balance'[w] # Null
      PROVE  SavingsInv'
  <2>1. SavingsMatchBooks' /\ NobodyOwns'
    BY <1>2, NobodySaves DEF SavingsInv, NobodyOwns
  <2>2. \A r : CreditedOn(r)' = CreditedOn(r)
    BY <1>2, SameBooks, RequestsAreNoEvents
  <2>3. \A r : SumOf(CreditedOn(r)') = SumOf(CreditedOn(r))
    BY <2>2
  <2>4. \A r \in Row : /\ SumOf(CreditedOn(r)') \in Int
                       /\ SumOf(CreditedOn(r)) <= SumOf(CreditedOn(r)')
    BY <1>1, <2>3, CreditedFacts
  <2>5. ASSUME NEW h \in Hook PROVE CreditSaves(h)'
    <3>1. CASE pc'[h] = pc[h] /\ hook'[h] = hook[h] /\ WalletOf(h)' = WalletOf(h)
      <4>1. Alone(h)' = Alone(h)
        BY <1>2, <3>1, NothingWritten
      <4> QED
        BY <1>2, <2>4, <3>1, <4>1, OthersSave
    <3>2. CASE pc'[h] \notin Begun \cup Crediting
      BY <3>2 DEF CreditSaves, Begun, Crediting, Saving
    <3> QED
      BY <1>2, <3>1, <3>2
  <2> QED
    BY <1>1, <2>1, <2>5 DEF SavingsInv
<1>3. ASSUME NEW p \in Client, Submit(p) \/ Step(p), UNCHANGED paystackVars
      PROVE  SavingsInv'
  <2>0. p \in Proc /\ p \notin Hook
    BY Parties
  <2>1. Booked' = Booked \/ Booked' = Booked \cup {p}
    <3>1. CASE Commit(p)
      BY <1>1, <1>3, <3>1, CommitLedger
    <3>2. CASE ~ Commit(p)
      <4>1. UNCHANGED ledger
        BY <1>1, <1>3, <3>2, RequestBooksNothing
      <4> QED
        BY <4>1 DEF Booked
    <3> QED
      BY <3>1, <3>2
  <2>2. Frame(p)
    BY <1>1, <1>3, ClientFrame
  <2>3. \A h \in Hook : /\ pc'[h] = pc[h] /\ hook'[h] = hook[h]
                        /\ WalletOf(h)' = WalletOf(h)
    BY <1>3, <2>0, <2>2, Parties DEF Frame, paystackVars, WalletOf
  <2>4. \A w \in Wallet : balance[w] # Null => balance'[w] # Null
    BY <2>0, <2>2 DEF Frame
  <2>5. UNCHANGED <<owner, account, contribution>>
    BY <1>3 DEF paystackVars
  <2> QED
    BY <1>2, <2>0, <2>1, <2>3, <2>4, <2>5
<1>4. ASSUME NEW h \in Hook, Deliver(h) \/ Credit(h) PROVE SavingsInv'
  BY <1>1, <1>4, DeliverySaves, CommitSaves DEF SavingsInv
<1>5. CASE PaystackCrash
  <2>1. /\ pc' = [p \in Proc |-> IF InFlight(p) THEN "lost" ELSE pc[p]]
        /\ UNCHANGED <<balance, owner, account, contribution, ledger>>
    BY <1>5 DEF PaystackCrash, Crash, tables, accounts
  <2>2. \A h \in Hook : pc'[h] \notin Begun \cup Crediting
    BY <2>1, Parties DEF Begun, Crediting, InFlight, Ended
  <2>3. Booked' = Booked
    BY <2>1 DEF Booked
  <2> QED
    BY <1>2, <2>1, <2>2, <2>3
<1>6. CASE UNCHANGED allVars
  <2>1. UNCHANGED <<pc, req, balance, ledger, owner, account, contribution, hook>>
    BY <1>6 DEF allVars, vars, paystackVars
  <2>2. Booked' = Booked
    BY <2>1 DEF Booked
  <2> QED
    BY <1>2, <2>1, <2>2 DEF WalletOf
<1> QED
  BY <1>3, <1>4, <1>5, <1>6 DEF PaystackNext, AllAnswered, allVars

(* However often Paystack delivers an event, whatever runs at the same      *)
(* time and into whichever of its accounts it pays, a member's savings are  *)
(* the sum of the events booked for its user, each counted once, as long as *)
(* the user has not been given a second wallet, and no account ever shows   *)
(* more than was booked on it: creditWallet computes the account from what  *)
(* it read at the beginning, and the savings from what it reads under the   *)
(* lock of the wallet.                                                      *)
THEOREM SavingsAreWhatIsBooked == PaystackSpec => []SavingsMatchBooks
<1>1. SavingsInv => SavingsMatchBooks
  BY DEF SavingsInv
<1> QED
  BY SavingsInitially, SavingsNextStep, <1>1, PTL DEF PaystackSpec

-----------------------------------------------------------------------------
(* The locks, with payments in them.  A delivery locks the row of its       *)
(* wallet and, once it has, the row of its account; whoever holds a lock    *)
(* is inside its transaction, so that no lock outlives one.                 *)

Rightful(p, w) ==
  IF p \in Hook THEN pc[p] \in Updated /\ w = WalletOf(p)
  ELSE Connected(p) /\ pc[p] # "alert" /\ w \in {req[p].src, req[p].dst}
HoldsAccount(h, r) == pc[h] \in Checked /\ EventOf(h).row = r
LocksInv ==
  /\ PaymentsInv
  /\ \A w \in Wallet, q \in Proc : lock[w] = q => Rightful(q, w)
  /\ \A r \in Row, g \in Hook : accountLock[r] = g => HoldsAccount(g, r)

(* A step of a request leaves the locks of others alone and holds its own   *)
(* rightfully, one case per action.                                         *)
LEMMA RequestLocks ==
  ASSUME PaymentsInv, NEW p \in Client, Submit(p) \/ Step(p),
         UNCHANGED paystackVars, NEW w \in Wallet,
         lock[w] = p => Rightful(p, w), lock'[w] # NoProc
  PROVE  IF lock'[w] = p THEN Rightful(p, w)' ELSE lock'[w] = lock[w]
<1>0. /\ p \in Proc /\ p \notin Hook /\ p # NoProc
      /\ lock \in [Wallet -> Proc \cup {NoProc}]
      /\ pc \in [Proc -> Label \cup HookLabel]
      /\ req \in [Proc -> Requests \cup Booking \cup {Null}]
  BY ClientFacts, PaymentsFacts
<1> USE DEF Goto, tables, Rightful, Connected, InFlight, Ended
<1>1. CASE Submit(p)
  BY <1>0, <1>1 DEF Submit
<1>2. CASE Begin(p)
  BY <1>0, <1>2 DEF Begin
<1>3. CASE LockSource(p)
  BY <1>0, <1>3 DEF LockSource, Locked, Lockable
<1>4. CASE LockDestination(p)
  BY <1>0, <1>4 DEF LockDestination, Locked, Lockable
<1>5. CASE Reject(p)
  BY <1>0, <1>5 DEF Reject
<1>6. CASE Compute(p)
  BY <1>0, <1>6 DEF Compute
<1>7. CASE SaveSource(p)
  BY <1>0, <1>7 DEF SaveSource
<1>8. CASE SaveDestination(p)
  BY <1>0, <1>8 DEF SaveDestination
<1>9. CASE InsertTransaction(p) \/ InsertLedger(p)
  BY <1>0, <1>9 DEF InsertTransaction, InsertLedger
<1>10. CASE Alert(p)
  BY <1>0, <1>10 DEF Alert
<1>11. CASE \/ DestinationOverflows(p) \/ TypeRejected(p) \/ DeadlockVictim(p)
            \/ Commit(p) \/ Rollback(p)
  BY <1>0, <1>11
  DEF DestinationOverflows, TypeRejected, DeadlockVictim, StatementFails,
      Commit, Rollback, EndTransaction
<1> QED
  BY <1>1, <1>2, <1>3, <1>4, <1>5, <1>6, <1>7, <1>8, <1>9, <1>10, <1>11
  DEF Step

(* So does a step of a delivery, of rows ...                                *)
LEMMA DeliveryLocks ==
  ASSUME PaymentsInv, NEW h \in Hook, Deliver(h) \/ Credit(h), NEW w \in Wallet,
         lock[w] = h => Rightful(h, w), lock'[w] # NoProc
  PROVE  IF lock'[w] = h THEN Rightful(h, w)' ELSE lock'[w] = lock[w]
<1>0. /\ h \in Proc /\ h # NoProc
      /\ lock \in [Wallet -> Proc \cup {NoProc}]
      /\ pc \in [Proc -> Label \cup HookLabel]
      /\ req \in [Proc -> Requests \cup Booking \cup {Null}]
  BY HookFacts, PaymentsFacts
<1> USE DEF Goto, tables, paystackVars, Rightful, Updated, Crediting, WalletOf
<1>1. CASE Deliver(h)
  BY <1>0, <1>1 DEF Deliver
<1>2. CASE BeginCredit(h)
  BY <1>0, <1>2 DEF BeginCredit
<1>3. CASE FindWallet(h)
  BY <1>0, <1>3 DEF FindWallet
<1>4. CASE CreditFails(h) \/ CommitCredit(h) \/ RollbackCredit(h)
  BY <1>0, <1>4
  DEF CreditFails, StatementFails, CommitCredit, RollbackCredit, EndTransaction
<1>5. CASE ~ CreditFails(h) /\ UpdateWallet(h)
  BY <1>0, <1>5 DEF UpdateWallet, Locked
<1>6. CASE ~ CreditFails(h) /\ UpdateAccount(h)
  BY <1>0, <1>6 DEF UpdateAccount
<1>7. CASE ReadMember(h)
  BY <1>0, <1>7 DEF ReadMember
<1>8. CASE ~ CreditFails(h) /\ (SaveMember(h) \/ Record(h))
  BY <1>0, <1>8 DEF SaveMember, Record
<1>9. CASE Notify(h)
  BY <1>0, <1>9 DEF Notify
<1> QED
  BY <1>1, <1>2, <1>3, <1>4, <1>5, <1>6, <1>7, <1>8, <1>9 DEF Credit

(* ... and of accounts.                                                     *)
LEMMA DeliveryLocksAccount ==
  ASSUME PaymentsInv, NEW h \in Hook, Deliver(h) \/ Credit(h), NEW r \in Row,
         accountLock[r] = h => HoldsAccount(h, r), accountLock'[r] # NoProc
  PROVE  IF accountLock'[r] = h THEN HoldsAccount(h, r)'
         ELSE accountLock'[r] = accountLock[r]
<1>0. /\ h \in Proc /\ h # NoProc
      /\ accountLock \in [Row -> Hook \cup {NoProc}]
      /\ pc \in [Proc -> Label \cup HookLabel] /\ hook \in [Hook -> HookRow]
  BY HookFacts, PaymentsFacts
<1> USE DEF Goto, tables, paystackVars, HoldsAccount, Checked, Updated,
            Crediting, EventOf
<1>1. CASE Deliver(h)
  BY <1>0, <1>1 DEF Deliver
<1>2. CASE BeginCredit(h)
  BY <1>0, <1>2 DEF BeginCredit
<1>3. CASE FindWallet(h)
  BY <1>0, <1>3 DEF FindWallet
<1>4. CASE CreditFails(h) \/ CommitCredit(h) \/ RollbackCredit(h)
  BY <1>0, <1>4 DEF CreditFails, CommitCredit, RollbackCredit, EndCredit
<1>5. CASE ~ CreditFails(h) /\ UpdateWallet(h)
  BY <1>0, <1>5 DEF UpdateWallet
<1>6. CASE ~ CreditFails(h) /\ UpdateAccount(h)
  BY <1>0, <1>6 DEF UpdateAccount
<1>7. CASE ReadMember(h)
  <2>1. /\ pc[h] = "readMember" /\ pc' = [pc EXCEPT ![h] = "saveMember"]
        /\ hook' = [hook EXCEPT ![h].member = contribution[hook[h].event.user]]
        /\ UNCHANGED accountLock
    BY <1>7 DEF ReadMember
  <2>2. hook'[h].event = hook[h].event
    BY <1>0, <2>1 DEF HookRow
  <2> QED
    BY <1>0, <2>1, <2>2
<1>8. CASE ~ CreditFails(h) /\ (SaveMember(h) \/ Record(h))
  BY <1>0, <1>8 DEF SaveMember, Record
<1>9. CASE Notify(h)
  BY <1>0, <1>9 DEF Notify
<1> QED
  BY <1>1, <1>2, <1>3, <1>4, <1>5, <1>6, <1>7, <1>8, <1>9 DEF Credit

(* What a session that a step leaves alone holds stays rightful.            *)
LEMMA OthersHold ==
  ASSUME NEW q, pc'[q] = pc[q], req'[q] = req[q],
         q \in Hook => hook'[q] = hook[q]
  PROVE  /\ \A w \in Wallet : Rightful(q, w) => Rightful(q, w)'
         /\ \A r : q \in Hook /\ HoldsAccount(q, r) => HoldsAccount(q, r)'
BY DEF Rightful, HoldsAccount, WalletOf, EventOf, Connected, InFlight

LEMMA LocksInitially == PaystackInit => LocksInv
<1> SUFFICES ASSUME PaystackInit PROVE LocksInv
  OBVIOUS
<1>1. /\ \A w \in Wallet : lock[w] = NoProc
      /\ \A r \in Row : accountLock[r] = NoProc
  BY DEF PaystackInit, Init
<1> QED
  BY <1>1, PaymentsInitially, Parties DEF LocksInv

LEMMA LocksNextStep == LocksInv /\ [PaystackNext]_allVars => LocksInv'
<1> SUFFICES ASSUME LocksInv, [PaystackNext]_allVars PROVE LocksInv'
  OBVIOUS
<1>1. PaymentsInv /\ PaymentsInv'
  BY PaymentsNextStep DEF LocksInv
<1>2. ASSUME NEW p \in Client, Submit(p) \/ Step(p), UNCHANGED paystackVars
      PROVE  LocksInv'
  <2>1. /\ p \in Proc /\ p \notin Hook /\ UNCHANGED accountLock
        /\ \A q \in Proc \ {p} : /\ pc'[q] = pc[q] /\ req'[q] = req[q]
                                 /\ q \in Hook => hook'[q] = hook[q]
    BY <1>1, <1>2, ClientFrame, ClientFacts DEF Frame, paystackVars
  <2>2. ASSUME NEW w \in Wallet, NEW q \in Proc, lock'[w] = q
        PROVE  Rightful(q, w)'
    <3>1. IF lock'[w] = p THEN Rightful(p, w)' ELSE lock'[w] = lock[w]
      BY <1>1, <1>2, <2>1, <2>2, RequestLocks, Parties DEF LocksInv
    <3>2. CASE q = p
      BY <2>2, <3>1, <3>2
    <3>3. CASE q # p
      <4>1. lock[w] = q /\ q \in Proc \ {p}
        BY <2>2, <3>1, <3>3
      <4>2. Rightful(q, w)
        BY <4>1 DEF LocksInv
      <4> QED
        BY <2>1, <4>1, <4>2, OthersHold
    <3> QED
      BY <3>2, <3>3
  <2>3. ASSUME NEW r \in Row, NEW g \in Hook, accountLock'[r] = g
        PROVE  HoldsAccount(g, r)'
    <3>1. g \in Proc \ {p} /\ HoldsAccount(g, r)
      BY <2>1, <2>3, Parties DEF LocksInv
    <3> QED
      BY <2>1, <3>1, OthersHold
  <2> QED
    BY <1>1, <2>2, <2>3 DEF LocksInv
<1>3. ASSUME NEW h \in Hook, Deliver(h) \/ Credit(h) PROVE LocksInv'
  <2>1. /\ h \in Proc
        /\ \A q \in Proc \ {h} : /\ pc'[q] = pc[q] /\ req'[q] = req[q]
                                 /\ q \in Hook => hook'[q] = hook[q]
    BY <1>1, <1>3, HookFacts, DeliveryApart
  <2>2. ASSUME NEW w \in Wallet, NEW q \in Proc, lock'[w] = q
        PROVE  Rightful(q, w)'
    <3>1. IF lock'[w] = h THEN Rightful(h, w)' ELSE lock'[w] = lock[w]
      BY <1>1, <1>3, <2>1, <2>2, DeliveryLocks, Parties DEF LocksInv
    <3>2. CASE q = h
      BY <2>2, <3>1, <3>2
    <3>3. CASE q # h
      <4>1. lock[w] = q /\ q \in Proc \ {h}
        BY <2>2, <3>1, <3>3
      <4>2. Rightful(q, w)
        BY <4>1 DEF LocksInv
      <4> QED
        BY <2>1, <4>1, <4>2, OthersHold
    <3> QED
      BY <3>2, <3>3
  <2>3. ASSUME NEW r \in Row, NEW g \in Hook, accountLock'[r] = g
        PROVE  HoldsAccount(g, r)'
    <3>1. IF accountLock'[r] = h THEN HoldsAccount(h, r)'
          ELSE accountLock'[r] = accountLock[r]
      BY <1>1, <1>3, <2>1, <2>3, DeliveryLocksAccount, Parties DEF LocksInv
    <3>2. CASE g = h
      BY <2>3, <3>1, <3>2
    <3>3. CASE g # h
      <4>1. accountLock[r] = g /\ g \in Proc \ {h}
        BY <2>3, <3>1, <3>3, Parties
      <4>2. HoldsAccount(g, r)
        BY <4>1 DEF LocksInv
      <4> QED
        BY <2>1, <4>1, <4>2, OthersHold
    <3> QED
      BY <3>2, <3>3
  <2> QED
    BY <1>1, <2>2, <2>3 DEF LocksInv
<1>4. CASE PaystackCrash
  <2>1. /\ \A w \in Wallet : lock'[w] = NoProc
        /\ \A r \in Row : accountLock'[r] = NoProc
    BY <1>4 DEF PaystackCrash, Crash
  <2> QED
    BY <1>1, <2>1, Parties DEF LocksInv
<1>5. CASE UNCHANGED allVars
  <2>1. UNCHANGED <<lock, pc, req, accountLock, hook>>
    BY <1>5 DEF allVars, vars, paystackVars
  <2> QED
    BY <1>1, <2>1
    DEF LocksInv, Rightful, HoldsAccount, WalletOf, EventOf, Connected, InFlight
<1> QED
  BY <1>2, <1>3, <1>4, <1>5 DEF PaystackNext, AllAnswered, allVars

(* With deliveries among the requests, a request still has locked what it   *)
(* has read, and a row is only ever locked by a session inside its          *)
(* transaction that works on it: no failed statement, commit or crash       *)
(* leaks a lock.                                                            *)
THEOREM LocksAreDisciplinedWithPayments == PaystackSpec => []LockDiscipline
<1>1. LocksInv => LockDiscipline
  <2> SUFFICES ASSUME LocksInv PROVE LockDiscipline
    OBVIOUS
  <2>1. PaymentsInv /\ \A w \in Wallet : lock[w] \in Proc \cup {NoProc}
    BY PaymentsFacts DEF LocksInv
  <2>2. ASSUME NEW p \in Proc
        PROVE  /\ HasSource(p) /\ mem[p].src # Null => lock[req[p].src] = p
               /\ HasDestination(p) /\ mem[p].dst # Null => lock[req[p].dst] = p
    <3>1. CASE p \in Client
      BY <2>1, <3>1, ClientFacts DEF ClientLocks
    <3>2. CASE p \in Hook
      BY <2>1, <3>2, HookFacts
      DEF HookOK, HookLabel, Begun, Crediting, HasSource, HasDestination
    <3> QED
      BY <3>1, <3>2, Parties
  <2>3. ASSUME NEW w \in Wallet, lock[w] # NoProc
        PROVE  /\ Connected(lock[w]) /\ pc[lock[w]] # "alert"
               /\ w \in {req[lock[w]].src, req[lock[w]].dst}
    BY <2>1, <2>3
    DEF LocksInv, Rightful, Updated, Crediting, WalletOf, Connected, InFlight,
        Ended
  <2> QED
    BY <2>2, <2>3 DEF LockDiscipline
<1> QED
  BY LocksInitially, LocksNextStep, <1>1, PTL DEF PaystackSpec

-----------------------------------------------------------------------------
(* The statements, with payments in them: the last entry of a wallet still  *)
(* shows what its row holds, also after a delivery that has written over    *)
(* the work of others, so that no statement shows the loss.                 *)

PaidStatements == LedgerInv /\ StatementMatchesBalance

(* One more entry, for the rows that were changed with it.                  *)
LEMMA EntryOnStatement ==
  ASSUME StatementMatchesBalance, ledger \in Seq(Entry), NEW e \in Entry,
         ledger' = Append(ledger, e), UNCHANGED opening,
         \A w \in Wallet : ~ Touches(e, w) => balance'[w] = balance[w],
         \A w \in Wallet : Touches(e, w) => balance'[w] = AfterEntry(e, w)
  PROVE  StatementMatchesBalance'
<1> DEFINE n == Len(ledger)
<1>1. /\ Len(ledger') = n + 1 /\ n \in Nat
      /\ \A i \in 1..n : ledger'[i] = ledger[i]
      /\ ledger'[n + 1] = e
  OBVIOUS
<1>2. ASSUME NEW w \in Wallet,
             \A i \in 1..Len(ledger') : ~ Touches(ledger'[i], w)
      PROVE  balance'[w] = opening'[w]
  <2>1. ~ Touches(e, w) /\ \A i \in 1..n : ~ Touches(ledger[i], w)
    BY <1>1, <1>2
  <2> QED
    BY <2>1 DEF StatementMatchesBalance
<1>3. ASSUME NEW w \in Wallet, NEW i \in 1..Len(ledger'), LastEntry(i, w)'
      PROVE  balance'[w] = AfterEntry(ledger'[i], w)
  <2>1. CASE i = n + 1
    BY <1>1, <1>3, <2>1 DEF LastEntry
  <2>2. CASE i \in 1..n
    <3>1. ~ Touches(e, w)
      BY <1>1, <1>3, <2>2 DEF LastEntry
    <3>2. LastEntry(i, w)
      BY <1>1, <1>3, <2>2 DEF LastEntry
    <3> QED
      BY <1>1, <2>2, <3>1, <3>2 DEF StatementMatchesBalance
  <2> QED
    BY <1>1, <2>1, <2>2
<1> QED
  BY <1>2, <1>3 DEF StatementMatchesBalance, LastEntry

(* The commit of a request writes what its entry says.                      *)
LEMMA RequestWritesEntry ==
  ASSUME DistinctEnds, PaymentsInv, NEW p \in Client, Commit(p), NEW w \in Wallet
  PROVE  /\ ~ Touches(LedgerRow(p), w) => balance'[w] = balance[w]
         /\ Touches(LedgerRow(p), w) => balance'[w] = AfterEntry(LedgerRow(p), w)
<1>1. pc[p] = "commit" /\ Computed(p) /\ InFlight(p)
  BY DEF Commit, Computed, InFlight, Ended
<1>2. /\ req[p] \in Requests /\ req[p].src # req[p].dst
      /\ Debits(req[p]) => mem[p].src \in Money
      /\ Credits(req[p]) => mem[p].dst \in Money
  BY <1>1, ClientFacts DEF ClientRequest, DistinctEnds
<1>3. /\ ~ Debits(req[p]) => req[p].src \notin Wallet
      /\ ~ Credits(req[p]) => req[p].dst \notin Wallet
  BY <1>2, RequestFacts, ConstantsAssumption
<1>4. dirty[p][w] = Draft(p, w)
  BY ClientFacts DEF ClientDrafts
<1>5. Draft(p, w) = IF Credits(req[p]) /\ w = req[p].dst THEN mem[p].dst
                    ELSE IF Debits(req[p]) /\ w = req[p].src THEN mem[p].src
                    ELSE Null
  BY <1>1 DEF Draft, SavedDestination, SavedSource, Inserting
<1>6. balance'[w] = IF dirty[p][w] = Null THEN balance[w] ELSE dirty[p][w]
  BY DEF Commit
<1>7. Null \notin Money
  BY ConstantsAssumption DEF Money
<1>8. CASE w = req[p].src
  BY <1>2, <1>3, <1>4, <1>5, <1>6, <1>7, <1>8
  DEF Touches, AfterEntry, LedgerRow
<1>9. CASE w = req[p].dst
  BY <1>2, <1>3, <1>4, <1>5, <1>6, <1>7, <1>9
  DEF Touches, AfterEntry, LedgerRow
<1>10. CASE w \notin {req[p].src, req[p].dst}
  BY <1>4, <1>5, <1>6, <1>10 DEF Touches, LedgerRow
<1> QED
  BY <1>8, <1>9, <1>10

(* So does the commit of a delivery.                                        *)
LEMMA CreditOnStatement ==
  ASSUME PaidStatements, NEW h \in Hook, CommitCredit(h)
  PROVE  StatementMatchesBalance'
<1> DEFINE x == WalletOf(h)
           e == [reference |-> Reference(h), src |-> NoWallet, dst |-> x,
                 amount |-> EventOf(h).amount, sourceBalanceAfter |-> Null,
                 destinationBalanceAfter |-> mem[h].dst]
<1>1. /\ pc[h] = "commitCredit" /\ ledger' = Append(ledger, e)
      /\ balance' = [balance EXCEPT ![x] = dirty[h][x]]
      /\ UNCHANGED opening
  BY DEF CommitCredit
<1>2. /\ PaymentsInv /\ ledger \in Seq(Entry) /\ StatementMatchesBalance
      /\ balance \in [Wallet -> Rows]
  BY PaymentsFacts DEF PaidStatements, LedgerInv
<1>3. /\ x \in Wallet /\ mem[h].dst \in Money /\ dirty[h][x] = mem[h].dst
      /\ EventOf(h) \in Event /\ EventOf(h).amount \in Money
  BY <1>1, <1>2, HookFacts DEF HookOK, Crediting, Updated
<1>4. e \in Entry
  BY <1>3 DEF Entry, Reference, Balances
<1>5. \A w \in Wallet : /\ Touches(e, w) <=> w = x
                        /\ AfterEntry(e, x) = mem[h].dst
  BY <1>3, ConstantsAssumption DEF Touches, AfterEntry
<1>6. \A w \in Wallet : /\ w # x => balance'[w] = balance[w]
                        /\ balance'[x] = mem[h].dst
  BY <1>1, <1>2, <1>3
<1> HIDE DEF e, x
<1> QED
  BY <1>1, <1>2, <1>4, <1>5, <1>6, EntryOnStatement

(* Only a commit changes rows or entries.                                   *)
LEMMA OthersLeaveStatements ==
  ASSUME [PaystackNext]_allVars, \A p \in Client : ~ Commit(p),
         \A h \in Hook : ~ CommitCredit(h)
  PROVE  UNCHANGED <<balance, ledger, opening>>
<1> USE DEF tables
<1>1. ASSUME NEW p \in Client, Submit(p) \/ Step(p)
      PROVE  UNCHANGED <<balance, ledger, opening>>
  BY <1>1
  DEF Step, Submit, Begin, LockSource, LockDestination, Reject, Compute,
      SaveSource, SaveDestination, DestinationOverflows, InsertTransaction,
      TypeRejected, InsertLedger, Alert, Rollback, DeadlockVictim,
      StatementFails
<1>2. ASSUME NEW h \in Hook, Deliver(h) \/ Credit(h)
      PROVE  UNCHANGED <<balance, ledger, opening>>
  BY <1>2
  DEF Deliver, Credit, BeginCredit, FindWallet, UpdateWallet, UpdateAccount,
      ReadMember, SaveMember, Record, Notify, RollbackCredit, CreditFails,
      StatementFails
<1>3. PaystackCrash \/ AllAnswered \/ UNCHANGED allVars =>
        UNCHANGED <<balance, ledger, opening>>
  BY DEF PaystackCrash, Crash, AllAnswered, allVars, vars
<1> QED
  BY <1>1, <1>2, <1>3 DEF PaystackNext

(* However requests and deliveries mix, the last entry of a wallet shows    *)
(* the balance of its row: what a delivery loses shows on no statement.     *)
THEOREM StatementsMatchWithPayments ==
  ASSUME DistinctEnds
  PROVE  PaystackSpec => []StatementMatchesBalance
<1>1. PaystackInit => PaidStatements
  BY LedgerInitially
  DEF PaystackInit, Init, PaidStatements, StatementMatchesBalance
<1>2. PaidStatements /\ [PaystackNext]_allVars => PaidStatements'
  <2> SUFFICES ASSUME PaidStatements, [PaystackNext]_allVars
               PROVE  PaidStatements'
    OBVIOUS
  <2>1. LedgerInv'
    BY LedgerNextStep DEF PaidStatements
  <2>2. CASE \E h \in Hook : CommitCredit(h)
    BY <2>1, <2>2, CreditOnStatement DEF PaidStatements
  <2>3. ASSUME NEW p \in Client, Commit(p) PROVE StatementMatchesBalance'
    <3>1. PaymentsInv /\ ledger \in Seq(Entry)
      BY DEF PaidStatements, LedgerInv
    <3>2. ledger' = Append(ledger, LedgerRow(p)) /\ UNCHANGED opening
      BY <2>3 DEF Commit
    <3>3. LedgerRow(p) \in Entry
      BY <2>3, <3>1, RequestEntry
    <3>4. \A w \in Wallet :
            /\ ~ Touches(LedgerRow(p), w) => balance'[w] = balance[w]
            /\ Touches(LedgerRow(p), w) =>
                 balance'[w] = AfterEntry(LedgerRow(p), w)
      BY <2>3, <3>1, RequestWritesEntry
    <3> QED
      BY <3>1, <3>2, <3>3, <3>4, EntryOnStatement DEF PaidStatements
  <2>4. CASE /\ \A p \in Client : ~ Commit(p)
             /\ \A h \in Hook : ~ CommitCredit(h)
    <3>1. UNCHANGED <<balance, ledger, opening>>
      BY <2>4, OthersLeaveStatements
    <3>2. StatementMatchesBalance'
      BY <3>1 DEF PaidStatements, StatementMatchesBalance, LastEntry
    <3> QED
      BY <2>1, <3>2 DEF PaidStatements
  <2> QED
    BY <2>1, <2>2, <2>3, <2>4 DEF PaidStatements
<1>3. PaidStatements => StatementMatchesBalance
  BY DEF PaidStatements
<1> QED
  BY <1>1, <1>2, <1>3, PTL DEF PaystackSpec

-----------------------------------------------------------------------------
(* What a wallet holds is what it held and what is booked on it, as long as *)
(* only requests move money: what the entries do not explain was lost by a  *)
(* delivery.                                                                *)

WholeAmounts == \A r \in Requests : Whole(r.amount)
Movements(w) == SumFunction([i \in 1..Len(ledger) |-> Effect(ledger[i], w)])
EntriesInv   == BooksInv /\ BalanceIsSumOfEntries

(* What the entries do to a wallet is an integer.                           *)
LEMMA MovementsAreIntegers ==
  ASSUME TypeOK, NEW w \in Wallet
  PROVE  /\ \A i \in 1..Len(ledger) : Effect(ledger[i], w) \in Int
         /\ Movements(w) \in Int /\ Opened(w) \in Int
<1> DEFINE f == [i \in 1..Len(ledger) |-> Effect(ledger[i], w)]
<1>1. \A i \in 1..Len(ledger) : Effect(ledger[i], w) \in Int
  <2> TAKE i \in 1..Len(ledger)
  <2>1. ledger[i].amount \in Int
    BY EntryFacts DEF Money
  <2> QED
    BY <2>1 DEF Effect
<1>2. IsFiniteSet(1..Len(ledger))
  BY FS_Interval DEF TypeOK
<1>3. (\A i \in 1..Len(ledger) : f[i] \in Int) /\ DOMAIN f = 1..Len(ledger)
  BY <1>1
<1>4. Opened(w) \in Int
  BY DEF TypeOK, Opened, Balances, Money
<1>5. Movements(w) = SumFunction(f)
  BY DEF Movements
<1> HIDE DEF f
<1>6. SumFunctionOnSet(f, 1..Len(ledger)) \in Int
  BY <1>2, <1>3, SumIsInt
<1> QED
  BY <1>1, <1>3, <1>4, <1>5, <1>6 DEF SumFunction

(* A column holds a whole number as it is.                                  *)
LEMMA WholeColumn ==
  ASSUME NEW x \in Int, Whole(x), NEW v \in Column(x)
  PROVE  v = x
BY DEF Column, Whole

(* A commit changes a wallet by what its ledger entry says.                 *)
LEMMA CommitHasEffect ==
  ASSUME DistinctEnds, WholeAmounts, BooksInv, NEW p \in Proc, Commit(p),
         NEW w \in Wallet, balance'[w] # Null
  PROVE  /\ balance[w] # Null /\ Effect(LedgerRow(p), w) \in Int
         /\ balance'[w] = balance[w] + Effect(LedgerRow(p), w)
<1> DEFINE a == req[p].amount
<1>1. /\ req[p] \in Requests /\ a \in Nat \ {0}
      /\ Debits(req[p]) =>
           /\ balance'[req[p].src] = mem[p].src
           /\ balance[req[p].src] \in Money
           /\ mem[p].src \in Column(balance[req[p].src] - a)
      /\ Credits(req[p]) =>
           /\ balance'[req[p].dst] = mem[p].dst
           /\ balance[req[p].dst] \in Money
           /\ mem[p].dst \in Column(balance[req[p].dst] + a)
      /\ \A v \in Wallet \ {req[p].src, req[p].dst} : balance'[v] = balance[v]
  BY CommitMoves DEF BooksInv
<1>2. /\ LedgerRow(p).src = req[p].src /\ LedgerRow(p).dst = req[p].dst
      /\ LedgerRow(p).amount = a + (a % 2)
  BY DEF LedgerRow, Stored
<1>3. /\ w = req[p].src => Debits(req[p])
      /\ w = req[p].dst => Credits(req[p])
      /\ req[p].src # req[p].dst
  BY <1>1, RequestFacts, ConstantsAssumption DEF DistinctEnds
<1>4. a \in Nat /\ a % 2 = 0
  BY <1>1 DEF WholeAmounts, Whole
<1>5. Null \notin Money
  BY ConstantsAssumption DEF Money
<1>6. balance[w] \in Balances
  BY DEF BooksInv, SafetyInv, TypeInv, TypeOK
<1>7. CASE w = req[p].src
  <2>1. Effect(LedgerRow(p), w) = -a
    BY <1>2, <1>3, <1>4, <1>7 DEF Effect
  <2>2. /\ balance[w] \in Nat /\ balance[w] % 2 = 0
        /\ balance'[w] \in Column(balance[w] - a)
    BY <1>1, <1>3, <1>7 DEF Money, Whole
  <2>3. balance[w] # Null
    BY <1>1, <1>3, <1>5, <1>7
  <2> HIDE DEF a
  <2>4. balance[w] - a \in Int /\ Whole(balance[w] - a)
    BY ONLY <1>4, <2>2 DEF Whole
  <2>5. balance'[w] = balance[w] - a
    BY <2>2, <2>4, WholeColumn
  <2>6. balance'[w] = balance[w] + (-a) /\ (-a) \in Int
    BY ONLY <1>4, <2>2, <2>5
  <2> QED
    BY <2>1, <2>3, <2>6
<1>8. CASE w = req[p].dst
  <2>1. Effect(LedgerRow(p), w) = a
    BY <1>2, <1>3, <1>4, <1>8 DEF Effect
  <2>2. /\ balance[w] \in Nat /\ balance[w] % 2 = 0
        /\ balance'[w] \in Column(balance[w] + a)
    BY <1>1, <1>3, <1>8 DEF Money, Whole
  <2>3. balance[w] # Null
    BY <1>1, <1>3, <1>5, <1>8
  <2> HIDE DEF a
  <2>4. balance[w] + a \in Int /\ Whole(balance[w] + a)
    BY ONLY <1>4, <2>2 DEF Whole
  <2>5. balance'[w] = balance[w] + a
    BY <2>2, <2>4, WholeColumn
  <2>6. balance'[w] = balance[w] + a /\ a \in Int
    BY ONLY <1>4, <2>2, <2>5
  <2> QED
    BY <2>1, <2>3, <2>6
<1>9. CASE w \notin {req[p].src, req[p].dst}
  <2>1. Effect(LedgerRow(p), w) = 0
    BY <1>2, <1>9 DEF Effect
  <2>2. balance'[w] = balance[w] /\ balance[w] \in Int
    BY <1>1, <1>6, <1>9 DEF Balances, Money
  <2> QED
    BY <2>1, <2>2, ConstantsAssumption
<1> QED
  BY <1>7, <1>8, <1>9

(* The entry of a commit adds its effect to the movements of each wallet.   *)
LEMMA CommitMovesOneMore ==
  ASSUME BooksInv, NEW p \in Proc, Commit(p), NEW w \in Wallet,
         Effect(LedgerRow(p), w) \in Int
  PROVE  Movements(w)' = Movements(w) + Effect(LedgerRow(p), w)
<1> DEFINE n == Len(ledger)
           f == [i \in 1..n |-> Effect(ledger[i], w)]
           e == [i \in 1..Len(ledger') |-> Effect(ledger'[i], w)]
           N == 1..n
           M == 1..Len(ledger')
           k == n + 1
<1>1. /\ Len(ledger') = n + 1 /\ n \in Nat
      /\ \A i \in 1..n : ledger'[i] = ledger[i]
      /\ ledger'[n + 1] = LedgerRow(p)
  BY CommitBooks DEF BooksInv
<1>2. \A i \in N : f[i] \in Int /\ e[i] = f[i]
  BY <1>1, MovementsAreIntegers DEF BooksInv, SafetyInv, TypeInv
<1>3. e[k] = Effect(LedgerRow(p), w)
  BY <1>1
<1>4. IsFiniteSet(N)
  BY <1>1, FS_Interval
<1>5. k \notin N /\ M = N \cup {k}
  BY <1>1
<1>6. DOMAIN f = N /\ DOMAIN e = M
  OBVIOUS
<1>7. Movements(w) = SumFunction(f)
  BY DEF Movements
<1>8. Movements(w)' = SumFunction(e)
  BY DEF Movements, Effect
<1> HIDE DEF e, f, N, M, k
<1>9. e[k] \in Int
  BY <1>3
<1>10. SumFunctionOnSet(e, M) = SumFunctionOnSet(f, N) + e[k]
  BY ONLY <1>2, <1>4, <1>5, <1>9, SumOneMore
<1> QED
  BY <1>3, <1>6, <1>7, <1>8, <1>10 DEF SumFunction

(* A commit keeps every wallet what its entries say.                        *)
LEMMA CommitKeepsEntries ==
  ASSUME DistinctEnds, WholeAmounts, EntriesInv, NEW p \in Proc, Commit(p)
  PROVE  BalanceIsSumOfEntries'
<1> SUFFICES ASSUME NEW w \in Wallet, balance'[w] # Null
             PROVE  balance'[w] = Opened(w)' + Movements(w)'
  BY DEF BalanceIsSumOfEntries, Movements
<1>1. /\ balance[w] # Null /\ Effect(LedgerRow(p), w) \in Int
      /\ balance'[w] = balance[w] + Effect(LedgerRow(p), w)
  BY CommitHasEffect DEF EntriesInv
<1>2. balance[w] = Opened(w) + Movements(w)
  BY <1>1 DEF EntriesInv, BalanceIsSumOfEntries, Movements
<1>3. Opened(w) \in Int /\ Movements(w) \in Int
  BY MovementsAreIntegers DEF EntriesInv, BooksInv, SafetyInv, TypeInv
<1>4. Movements(w)' = Movements(w) + Effect(LedgerRow(p), w)
  BY <1>1, CommitMovesOneMore DEF EntriesInv
<1>5. Opened(w)' = Opened(w)
  BY DEF Opened, Commit
<1> QED
  BY <1>1, <1>2, <1>3, <1>4, <1>5

(* `Your wallet has been credited ... New balance': without deliveries, and *)
(* with amounts in whole kobo, every wallet holds what it held at first     *)
(* plus the credits and minus the debits in the ledger; so the money that   *)
(* paystack_lost_credit loses is lost by creditWallet, not by requests.     *)
THEOREM RequestsKeepBalancesExplained ==
  ASSUME DistinctEnds, WholeAmounts
  PROVE  Spec => []BalanceIsSumOfEntries
<1>1. Init => EntriesInv
  <2> SUFFICES ASSUME Init PROVE EntriesInv
    OBVIOUS
  <2>1. BooksInv /\ ledger = <<>> /\ balance = opening
    BY BooksInit DEF Init
  <2>2. \A w \in Wallet : Movements(w) = 0
    BY <2>1, SumEmpty DEF Movements, SumFunction
  <2>3. \A w \in Wallet : balance[w] # Null =>
          Opened(w) = balance[w] /\ balance[w] \in Int
    BY <2>1 DEF Opened, BooksInv, SafetyInv, TypeInv, TypeOK, Balances, Money
  <2> QED
    BY <2>1, <2>2, <2>3 DEF EntriesInv, BalanceIsSumOfEntries, Movements
<1>2. EntriesInv /\ [Next]_vars => EntriesInv'
  <2> SUFFICES ASSUME EntriesInv, [Next]_vars PROVE EntriesInv'
    OBVIOUS
  <2>1. BooksInv'
    BY BooksNext DEF EntriesInv
  <2>2. CASE \E p \in Proc : Commit(p)
    BY <2>1, <2>2, CommitKeepsEntries DEF EntriesInv
  <2>3. CASE \A p \in Proc : ~ Commit(p)
    <3>1. UNCHANGED <<balance, ledger, opening>>
      BY <2>3, OtherBooks DEF EntriesInv, tables
    <3> QED
      BY <2>1, <3>1 DEF EntriesInv, BalanceIsSumOfEntries, Opened
  <2> QED
    BY <2>2, <2>3
<1>3. EntriesInv => BalanceIsSumOfEntries
  BY DEF EntriesInv
<1> QED
  BY <1>1, <1>2, <1>3, PTL DEF Spec

-----------------------------------------------------------------------------
(* The run of payments and accounts.                                        *)

(* A behaviour of the run is one of payments and one of opened accounts, so *)
(* that what is proved of each holds in the run.                            *)
LEMMA MixedIsBoth == PaymentsSpec => PaystackSpec /\ VaSpec
<1>1. PaymentsInit => PaystackInit /\ VaInit
  BY DEF PaymentsInit
<1>2. [PaymentsNext]_<<part, allVars, vaVars>> =>
        [PaystackNext]_allVars /\ [VaNext]_vaVars
  BY DEF PaymentsNext
<1> QED
  BY <1>1, <1>2, PTL DEF PaymentsSpec, PaystackSpec, VaSpec

(* What the run says of balances, rows and numbers.                         *)
THEOREM VirtualAccountTypes == PaymentsSpec => []MixedTypeOK
<1>1. PaystackTypeOK /\ VaTypeOK => MixedTypeOK
  BY DEF MixedTypeOK
<1> QED
  BY MixedIsBoth, PaymentTypes, AccountTypes, <1>1, PTL
=============================================================================
