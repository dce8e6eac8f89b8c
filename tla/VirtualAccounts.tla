--------------------------- MODULE VirtualAccounts ---------------------------
(***************************************************************************)
(* VirtualAccountService.provision and activate: who gets an account, at    *)
(* which gateway, and in which row of virtual_accounts.                     *)
(*                                                                          *)
(* The number is asked of Parallex if it is enabled, else of Paystack; if   *)
(* neither is, a row without a number holds the place.  A request looks for *)
(* a row first and saves its copy of it last, without a lock.  user_id is   *)
(* not unique, account_number is.                                           *)
(***************************************************************************)
EXTENDS Naturals, Sequences, FiniteSets

CONSTANTS
  Clerk,         \* requests, one after the other or at once (a bound)
  Holder,        \* verified users; others are refused
  AccountNo,     \* numbers the gateways may open
  Someone        \* the user of a request without one

NoNumber == "none"

ASSUME VirtualAccountsAssumption ==
  Someone \notin Holder /\ NoNumber \notin AccountNo

VARIABLES
  settings,      \* Paystack's: is there a secret key, is it enabled
  parallexOn,    \* PARALLEX_ENABLED
  vaTable,       \* the rows of virtual_accounts
  openedFor,     \* openedFor[n]: for whom, and where, number n was opened
  errand,        \* errand[k]: what request k asks and has found
  where,         \* where[k]: where it is
  told,          \* history: told[u]: the numbers u has got as its account
  selfAsked,     \* history: a member has asked for itself
  bare,          \* history: the users for whom a place was held
  inLine         \* history: no two requests were handled at the same time

vaHistory == <<told, selfAsked, bare, inLine>>
vaVars == <<settings, parallexOn, vaTable, openedFor, errand, where, vaHistory>>

VirtualAccount == [user : Holder \cup {Someone}, number : AccountNo \cup {NoNumber},
                   gateway : {"paystack", "parallex"}]
Issue(u, label) ==
  [user |-> u, gateway |-> IF label = "saveOpened" THEN "paystack" ELSE "parallex"]
NotIssued == Issue(Someone, "")
NoErrand == [for |-> Someone]

VaInit ==
  /\ settings = [secret |-> FALSE, enabled |-> FALSE]
  /\ parallexOn \in BOOLEAN
  /\ vaTable = <<>>
  /\ openedFor = [n \in AccountNo |-> NotIssued]
  /\ errand = [k \in Clerk |-> NoErrand]
  /\ where = [k \in Clerk |-> "free"]
  /\ told = [u \in Holder |-> {}]
  /\ selfAsked = FALSE /\ bare = {} /\ inLine = TRUE

MoveOn(k, e, label) ==
  /\ errand' = [errand EXCEPT ![k] = e]
  /\ where' = [where EXCEPT ![k] = label]
EndErrand(k) == MoveOn(k, NoErrand, "left")
Enter(k, e, label) ==
  /\ where[k] = "free"
  /\ MoveOn(k, e, label)
  /\ inLine' = (inLine /\ \A j \in Clerk : where[j] \in {"free", "left"})

-----------------------------------------------------------------------------
(* updateSettings saves up to three keys, each by a statement of its own.   *)
(* The bank that is preferred only goes into requests.                      *)
SetSetting ==
  /\ \E key \in {"secret", "enabled"}, value \in BOOLEAN :
       settings' = [settings EXCEPT ![key] = value]
  /\ UNCHANGED <<parallexOn, vaTable, openedFor, errand, where, vaHistory>>

-----------------------------------------------------------------------------
(* provision, of an administrator or at the end of a registration.          *)
Provision(k) ==
  /\ \E u \in Holder :
       Enter(k, [for |-> u, user |-> u, at |-> "provision"], "find")
  /\ UNCHANGED <<settings, parallexOn, vaTable, openedFor, told, selfAsked, bare>>

(* requestAccount gives the id of the user, which the JWT strategy does not *)
(* set: TypeORM leaves out conditions that are undefined and finds someone. *)
RequestAccount(k) ==
  /\ \E u \in Holder :
       Enter(k, [for |-> Someone, user |-> u, at |-> "provision"], "find")
  /\ selfAsked' = TRUE
  /\ UNCHANGED <<settings, parallexOn, vaTable, openedFor, told, bare>>

Activate(k) ==
  /\ \E u \in Holder :
       Enter(k, [for |-> u, user |-> u, at |-> "activate"], "find")
  /\ UNCHANGED <<settings, parallexOn, vaTable, openedFor, told, selfAsked, bare>>

(* Mutant: the condition on the user is forgotten.                          *)
RowsForAnyone(u) == DOMAIN vaTable

RowsFor(u) ==
  IF u = Someone THEN DOMAIN vaTable
  ELSE {i \in DOMAIN vaTable : vaTable[i].user = u}
OneOf(rows) == IF rows = {} THEN {0} ELSE rows

(* Mutant: whoever has an account gets another one.                         *)
FindExistingAgain(k) ==
  /\ where[k] = "find"
  /\ \E i \in OneOf(RowsFor(errand[k].for)) :
       MoveOn(k, [for |-> errand[k].for, user |-> errand[k].user, row |-> i],
              IF errand[k].at = "activate" THEN "customer" ELSE "choose")
  /\ UNCHANGED <<settings, parallexOn, vaTable, openedFor, vaHistory>>

(* Any row of the user, whichever comes first; with a number it is a        *)
(* conflict.                                                                *)
FindRow(k) ==
  /\ where[k] = "find"
  /\ \E i \in OneOf(RowsFor(errand[k].for)) :
       IF i # 0 /\ vaTable[i].number # NoNumber THEN EndErrand(k)
       ELSE MoveOn(k, [for |-> errand[k].for, user |-> errand[k].user, row |-> i],
                   IF errand[k].at = "activate" THEN "customer" ELSE "choose")
  /\ UNCHANGED <<settings, parallexOn, vaTable, openedFor, vaHistory>>

ChooseGateway(k) ==
  /\ where[k] = "choose"
  /\ IF parallexOn THEN MoveOn(k, errand[k], "generateNumber")
     ELSE IF settings.enabled THEN MoveOn(k, errand[k], "customer")
     ELSE IF errand[k].row = 0 THEN MoveOn(k, errand[k], "hold")
     ELSE EndErrand(k)
  /\ UNCHANGED <<settings, parallexOn, vaTable, openedFor, vaHistory>>

(* The place is held in a row without a number, of the default gateway.     *)
HoldPlace(k) ==
  /\ where[k] = "hold"
  /\ vaTable' = Append(vaTable, [user |-> errand[k].for, number |-> NoNumber,
                                 gateway |-> "paystack"])
  /\ bare' = bare \cup ({errand[k].for} \cap Holder)
  /\ EndErrand(k)
  /\ UNCHANGED <<settings, parallexOn, openedFor, told, selfAsked, inLine>>

-----------------------------------------------------------------------------
(* callPaystackAndSave: enabled?  Then the customer, found or made, and the *)
(* account, both with the secret key as it is at that moment.               *)
EnsurePaystackCustomer(k) ==
  /\ where[k] = "customer"
  /\ \/ settings.enabled /\ settings.secret /\ MoveOn(k, errand[k], "dedicated")
     \/ EndErrand(k)
  /\ UNCHANGED <<settings, parallexOn, vaTable, openedFor, vaHistory>>

(* Paystack opens a new number or finds one it has opened for the customer; *)
(* the answer may get lost.                                                 *)
OpenAccount(k, label) ==
  \/ \E n \in AccountNo :
       /\ \/ openedFor[n] = NotIssued
          \/ label = "saveOpened" /\ openedFor[n] = Issue(errand[k].user, label)
       /\ openedFor' = [openedFor EXCEPT ![n] = Issue(errand[k].user, label)]
       /\ \/ MoveOn(k, [for |-> errand[k].for, user |-> errand[k].user,
                        row |-> errand[k].row, number |-> n], label)
          \/ EndErrand(k)
  \/ EndErrand(k) /\ UNCHANGED openedFor
RequestDedicated(k) ==
  /\ where[k] = "dedicated"
  /\ IF settings.secret THEN OpenAccount(k, "saveOpened")
     ELSE EndErrand(k) /\ UNCHANGED openedFor
  /\ UNCHANGED <<settings, parallexOn, vaTable, vaHistory>>

Tell(u, n) ==
  told' = IF u = Someone THEN told ELSE [told EXCEPT ![u] = @ \cup {n}]
Free(n, i) == \A j \in DOMAIN vaTable \ {i} : vaTable[j].number # n

(* The row that was found at the beginning gets the number, whatever it has *)
(* become; a new one is for the user.                                       *)
SaveOpened(k) ==
  LET e == errand[k]
  IN /\ where[k] = "saveOpened"
     /\ \/ /\ Free(e.number, e.row)
           /\ vaTable' = IF e.row # 0 THEN [vaTable EXCEPT ![e.row].number = e.number]
                         ELSE Append(vaTable, [user |-> e.user, number |-> e.number,
                                               gateway |-> "paystack"])
           /\ Tell(e.for, e.number)
        \/ UNCHANGED <<vaTable, told>>             \* the save fails
     /\ EndErrand(k)
     /\ UNCHANGED <<settings, parallexOn, openedFor, selfAsked, bare, inLine>>

-----------------------------------------------------------------------------
(* createVirtualAccount of Parallex, which wants the id of a user and looks *)
(* for a row of its own.                                                    *)
GenerateAccount(k) ==
  /\ where[k] = "generateNumber"
  /\ IF errand[k].for # Someone THEN OpenAccount(k, "findParallex")
     ELSE EndErrand(k) /\ UNCHANGED openedFor
  /\ UNCHANGED <<settings, parallexOn, vaTable, vaHistory>>

FindParallexRow(k) ==
  /\ where[k] = "findParallex"
  /\ \E i \in OneOf({j \in RowsFor(errand[k].for) : vaTable[j].gateway = "parallex"}) :
       MoveOn(k, [errand[k] EXCEPT !.row = i], "saveParallex")
  /\ UNCHANGED <<settings, parallexOn, vaTable, openedFor, vaHistory>>

SaveParallexRow(k) ==
  LET e == errand[k]
  IN /\ where[k] = "saveParallex"
     /\ \/ /\ Free(e.number, e.row)
           /\ vaTable' = IF e.row # 0 THEN [vaTable EXCEPT ![e.row].number = e.number]
                         ELSE Append(vaTable, [user |-> e.for, number |-> e.number,
                                               gateway |-> "parallex"])
           /\ Tell(e.for, e.number)
        \/ UNCHANGED <<vaTable, told>>             \* the save fails
     /\ EndErrand(k)
     /\ UNCHANGED <<settings, parallexOn, openedFor, selfAsked, bare, inLine>>

-----------------------------------------------------------------------------
Restart ==
  /\ errand' = [k \in Clerk |-> NoErrand]
  /\ where' = [k \in Clerk |-> IF where[k] = "free" THEN "free" ELSE "left"]
  /\ parallexOn' \in BOOLEAN
  /\ UNCHANGED <<settings, vaTable, openedFor, vaHistory>>

VaNext ==
  \/ \E k \in Clerk :
       \/ Provision(k) \/ RequestAccount(k) \/ Activate(k)
       \/ FindRow(k) \/ ChooseGateway(k) \/ HoldPlace(k)
       \/ EnsurePaystackCustomer(k) \/ RequestDedicated(k) \/ SaveOpened(k)
       \/ GenerateAccount(k) \/ FindParallexRow(k) \/ SaveParallexRow(k)
  \/ SetSetting
  \/ Restart

VaSpec == VaInit /\ [][VaNext]_vaVars

-----------------------------------------------------------------------------
(* Properties.                                                              *)

(* Every variable has its type; a number stands in one row at most, also    *)
(* when Paystack gives two requests the same one.                           *)
VaTypeOK ==
  /\ vaTable \in Seq(VirtualAccount)
  /\ openedFor \in [AccountNo -> [user : Holder \cup {Someone},
                                 gateway : {"paystack", "parallex"}]]
  /\ settings \in [secret : BOOLEAN, enabled : BOOLEAN]
  /\ \A i, j \in DOMAIN vaTable :
       vaTable[i].number = vaTable[j].number => i = j \/ vaTable[i].number = NoNumber

(* However requests overlap, gateways change and answers get lost, as long  *)
(* as no member asks for itself: a row has a number that was opened for the *)
(* user it belongs to (provision, activate, and two rows of one user).      *)
NumbersAreOfTheirUser ==
  ~ selfAsked => \A i \in DOMAIN vaTable :
    vaTable[i].number # NoNumber => openedFor[vaTable[i].number].user = vaTable[i].user

(* As long as requests come one after the other, whatever gateways are      *)
(* enabled in between and wherever the server dies: a user for whom no      *)
(* place was held gets one number only, and keeps it (provision, activate). *)
AccountIsKept ==
  inLine /\ ~ selfAsked => \A u \in Holder \ bare :
    \A n \in told[u] :
      told[u] = {n} /\ \E i \in RowsFor(u) : vaTable[i].number = n
=============================================================================
