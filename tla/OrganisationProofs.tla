------------------------- MODULE OrganisationProofs -------------------------
(***************************************************************************)
(* Proofs about Organisations, for any number of requests, organisations    *)
(* and administrators, and about the uploads of their groups (GroupSync),   *)
(* for any number of uploads, members and items.                            *)
(***************************************************************************)
EXTENDS Organisations, GroupSync, SequenceTheorems, TLAPS

-----------------------------------------------------------------------------
(* Organisations: the invariant.                                            *)

Routes == {"seed", "apex", "partner"}
StaffRow == [login : Login \cup {NoLogin}, role : Roles, org : 0..MaxOrgs]
Creating == {"findUser", "insertAdmin", "saveRep", "askParallex", "saveAccount"}
AtParallex == {"askParallex", "saveAccount"}
Editing == {"saveOrg", "saveUser"}
Active == {"insert", "saveUpdate"} \cup Creating \cup Editing
Steps  == {"free", "left"} \cup Active

TablesOK ==
  /\ orgs \in Seq(OrgRow \cup {Gone}) /\ Len(orgs) <= MaxOrgs
  /\ staff \in Seq(StaffRow \cup {Gone})
  /\ hired \in Seq(StaffRow) /\ Len(hired) = Len(staff)
  /\ born \in Seq(Routes) /\ Len(born) = Len(orgs)
  /\ \A o \in holders : There(o)
  /\ \A c \in complete : c.org \in DOMAIN orgs
  /\ paper = [d \in Desk |-> paper[d]] /\ desk \in [Desk -> Steps]
  /\ inTurn \in BOOLEAN

(* Every foreign key has its row.                                           *)
KeysOK ==
  /\ \A o \in DOMAIN orgs : There(o) => Accepted(o, orgs[o])
  /\ \A u \in DOMAIN staff :
       Exists(u) /\ staff[u].org # Nil => There(staff[u].org)

(* A user is as it was inserted, but for the fields that were given.        *)
LikeHired(u, row, given) ==
  /\ "org" \in given \/ <<u, "org">> \in edited \/ row.org = hired[u].org
  /\ "role" \in given \/ <<u, "role">> \in edited \/ row.role = hired[u].role
HiredOK == \A u \in DOMAIN staff : Exists(u) => LikeHired(u, staff[u], {})
OwnReps ==
  \A o \in DOMAIN orgs :
    There(o) /\ orgs[o].rep # Nil /\ o \notin assigned =>
      hired[orgs[o].rep].org = o

(* What a partner creates has a parent.                                     *)
Below(route, type, parent) ==
  route = "partner" => type = "sub_org" /\ parent # Nil

(* What a request has written or loaded, by the step it is at.              *)
OfOrg(u, o) == u \in DOMAIN staff /\ hired[u].org = o
PaperOK(p, label) ==
  /\ label = "insert" =>
       /\ p.wanted.type \in Types \cup {"unset"}
       /\ p.wanted.parent \in 0..MaxOrgs /\ p.wanted.rep \in 0..MaxStaff
       /\ p.wanted.login \in Login \cup {NoLogin}
       /\ p.route \in Routes /\ Below(p.route, p.wanted.type, p.wanted.parent)
  /\ label \in Creating =>
       /\ p.id \in DOMAIN orgs /\ p.type \in Types /\ p.parent \in 0..MaxOrgs
       /\ Below(born[p.id], p.type, p.parent)
  /\ label \in {"findUser", "insertAdmin"} => p.login \in Login
  /\ label = "saveRep" =>
       /\ p.user \in 0..MaxStaff /\ p.user # Nil /\ OfOrg(p.user, p.id)
       /\ hired[p.user].role = Role(p.type)
  /\ label = "saveUpdate" =>
       /\ p.loaded.id \in DOMAIN orgs /\ p.loaded.row \in OrgRow
       /\ p.given \in Fields
       /\ p.loaded.row.rep # Nil /\ p.loaded.id \notin assigned =>
            OfOrg(p.loaded.row.rep, p.loaded.id)
  /\ label \in Editing =>
       /\ p.user \in DOMAIN staff /\ p.row \in StaffRow
       /\ LikeHired(p.user, p.row, DOMAIN p.given)

(* As long as requests come one after the other.                            *)
Keeps(o, u, type) ==
  /\ There(o) /\ orgs[o].rep = u
  /\ Exists(u) /\ staff[u].org = o
  /\ <<u, "role">> \in edited \/ staff[u].role = Role(type)
HasAdmin(o, u, type) == <<u, "org">> \in edited \/ Keeps(o, u, type)
Apart(u, login) ==
  \A v \in DOMAIN staff \ {u} :
    Exists(v) /\ <<v, "login">> \notin edited => ~ SameLogin(v, login)
TurnOK(p, label) ==
  /\ label = "insertAdmin" => \A u \in DOMAIN staff : ~ SameLogin(u, p.login)
  /\ label \in Creating => \A c \in complete : c.org # p.id
  /\ label \in AtParallex /\ "user" \in DOMAIN p =>
       HasAdmin(p.id, p.user, p.type)
  /\ label = "saveUpdate" =>
       /\ \A c \in complete : c.org = p.loaded.id /\ c.org \notin assigned =>
            <<c.user, "org">> \in edited \/ p.loaded.row.rep = c.user
       /\ ChildrenOf(p.loaded.id) \subseteq p.loaded.children
  /\ label \in Editing =>
       \/ "login" \in DOMAIN p.given \/ <<p.user, "login">> \in edited
       \/ p.row.login = NoLogin \/ Apart(p.user, p.row.login)
SubOrgsBelow ==
  \A o \in DOMAIN orgs :
    There(o) /\ o \notin patched => Below(born[o], orgs[o].type, orgs[o].parent)
AdminsKept ==
  \A c \in complete : c.org \notin assigned => HasAdmin(c.org, c.user, c.type)
LoginsApart ==
  \A u \in DOMAIN staff :
    \/ ~ Exists(u) \/ <<u, "login">> \in edited
    \/ staff[u].login = NoLogin \/ Apart(u, staff[u].login)
TurnInv ==
  /\ \A d, e \in Desk : desk[d] \in Active /\ desk[e] \in Active => d = e
  /\ \A d \in Desk : TurnOK(paper[d], desk[d])
  /\ SubOrgsBelow /\ AdminsKept /\ LoginsApart

OrgInv == /\ TablesOK /\ KeysOK /\ HiredOK /\ OwnReps
          /\ \A d \in Desk : PaperOK(paper[d], desk[d])
          /\ (inTurn => TurnInv)

(* What a sequence is after Append.                                         *)
LEMMA Appended ==
  ASSUME NEW S, NEW s \in Seq(S), NEW x \in S
  PROVE  /\ Append(s, x) \in Seq(S) /\ Len(Append(s, x)) = Len(s) + 1
         /\ Append(s, x)[Len(s) + 1] = x
         /\ \A i \in 1..Len(s) : Append(s, x)[i] = s[i]
         /\ DOMAIN s = 1..Len(s) /\ Len(s) \in Nat
         /\ DOMAIN Append(s, x) = 1..(Len(s) + 1)
BY AppendProperties

(* A row is there, and has its columns.                                     *)
LEMMA RowsAreThere ==
  /\ \A r \in OrgRow : r # Gone
  /\ \A r \in StaffRow : r # Gone
<1>1. ASSUME NEW r \in OrgRow PROVE r # Gone
  <2>1. DOMAIN r = {"type", "parent", "rep"}
    BY DEF OrgRow
  <2>2. DOMAIN Gone = {"gone"}
    BY DEF Gone
  <2> QED
    BY <2>1, <2>2
<1>2. ASSUME NEW r \in StaffRow PROVE r # Gone
  <2>1. DOMAIN r = {"login", "role", "org"}
    BY DEF StaffRow
  <2>2. DOMAIN Gone = {"gone"}
    BY DEF Gone
  <2> QED
    BY <2>1, <2>2
<1> QED
  BY <1>1, <1>2

LEMMA RoleFacts == \A type \in Types : Role(type) \in Roles
BY DEF Role, Roles, Types

LEMMA TableFacts ==
  ASSUME TablesOK
  PROVE  /\ DOMAIN orgs = 1..Len(orgs) /\ Len(orgs) \in Nat
         /\ DOMAIN staff = 1..Len(staff) /\ Len(staff) \in Nat
         /\ DOMAIN born = 1..Len(orgs)
         /\ \A o \in DOMAIN orgs : orgs[o] \in OrgRow \cup {Gone}
         /\ \A u \in DOMAIN staff : staff[u] \in StaffRow \cup {Gone}
         /\ DOMAIN orgs \subseteq OrgId /\ MaxOrgs \in Nat /\ MaxStaff \in Nat
         /\ \A o \in DOMAIN orgs : There(o) =>
              /\ orgs[o] \in OrgRow /\ orgs[o].type \in Types
              /\ orgs[o].parent \in 0..MaxOrgs /\ orgs[o].rep \in 0..MaxStaff
         /\ \A u \in DOMAIN staff : Exists(u) => staff[u] \in StaffRow
         /\ DOMAIN hired = 1..Len(staff)
         /\ \A u \in DOMAIN staff : hired[u] \in StaffRow
<1>1. /\ DOMAIN orgs = 1..Len(orgs) /\ Len(orgs) \in Nat
      /\ \A o \in DOMAIN orgs : orgs[o] \in OrgRow \cup {Gone}
  BY DEF TablesOK
<1>2. /\ DOMAIN staff = 1..Len(staff) /\ Len(staff) \in Nat
      /\ \A u \in DOMAIN staff : staff[u] \in StaffRow \cup {Gone}
  BY DEF TablesOK
<1>3. DOMAIN born = 1..Len(orgs)
  BY DEF TablesOK
<1>4. MaxOrgs \in Nat /\ MaxStaff \in Nat /\ DOMAIN orgs \subseteq OrgId
  BY <1>1, OrganisationsAssumption DEF TablesOK, OrgId
<1>5. ASSUME NEW o \in DOMAIN orgs, There(o)
      PROVE  /\ orgs[o] \in OrgRow /\ orgs[o].type \in Types
             /\ orgs[o].parent \in 0..MaxOrgs /\ orgs[o].rep \in 0..MaxStaff
  BY <1>1, <1>5 DEF There, OrgRow
<1>6. ASSUME NEW u \in DOMAIN staff, Exists(u)
      PROVE  staff[u] \in StaffRow
  BY <1>2, <1>6 DEF Exists
<1>7. /\ DOMAIN hired = 1..Len(staff)
      /\ \A u \in DOMAIN staff : hired[u] \in StaffRow
  BY <1>2 DEF TablesOK
<1> QED
  BY <1>1, <1>2, <1>3, <1>4, <1>5, <1>6, <1>7

-----------------------------------------------------------------------------
(* The initial states.                                                      *)
LEMMA OrgInitially == OrgInit => OrgInv
<1> SUFFICES ASSUME OrgInit PROVE OrgInv
  OBVIOUS
<1> USE OrganisationsAssumption, RowsAreThere DEF OrgInit
<1>1. /\ Len(orgs) = 2 /\ DOMAIN orgs = 1..2 /\ Len(born) = 2
      /\ DOMAIN staff = 1..2
  OBVIOUS
<1>2. /\ orgs[1].type = "apex" /\ orgs[1].parent = 0 /\ orgs[1].rep = 0
      /\ orgs[2].type = "partner" /\ orgs[2].parent = 1 /\ orgs[2].rep = 0
      /\ born[1] = "seed" /\ born[2] = "seed"
      /\ orgs[1] \in OrgRow /\ orgs[2] \in OrgRow
  BY DEF OrgRow, Types, Nil
<1>3. /\ staff[1].org = 1 /\ staff[1].login = NoLogin
      /\ staff[2].org = 2 /\ staff[2].login = NoLogin
      /\ staff[1] \in StaffRow /\ staff[2] \in StaffRow
  <2>1. 1 \in 0..MaxOrgs /\ 2 \in 0..MaxOrgs
    OBVIOUS
  <2> QED
    BY <2>1, RoleFacts DEF Seeded, StaffRow, Types
<1>4. TablesOK
  <2>1. orgs \in Seq(OrgRow \cup {Gone}) /\ staff \in Seq(StaffRow \cup {Gone})
    BY <1>1, <1>2, <1>3
  <2>2. born \in Seq(Routes)
    BY DEF Routes
  <2>3. hired \in Seq(StaffRow) /\ Len(hired) = Len(staff)
    BY <1>3
  <2> QED
    BY <1>1, <2>1, <2>2, <2>3 DEF TablesOK, Steps
<1>5. There(1) /\ There(2) /\ Exists(1) /\ Exists(2)
  BY <1>1, <1>2, <1>3 DEF There, Exists
<1>6. KeysOK /\ HiredOK /\ OwnReps
  BY <1>1, <1>2, <1>3, <1>5
  DEF KeysOK, Accepted, HiredOK, LikeHired, OwnReps, Nil
<1>7. \A d \in Desk : PaperOK(paper[d], desk[d]) /\ TurnOK(paper[d], desk[d])
  BY DEF PaperOK, TurnOK, Creating, AtParallex, Editing
<1>8. SubOrgsBelow /\ AdminsKept /\ LoginsApart
  BY <1>1, <1>2, <1>3 DEF SubOrgsBelow, AdminsKept, LoginsApart, Below
<1>9. TurnInv
  BY <1>7, <1>8 DEF TurnInv, Active, Creating, Editing
<1> QED
  BY <1>4, <1>6, <1>7, <1>9 DEF OrgInv

-----------------------------------------------------------------------------
(* A step of one request.                                                   *)

(* Nothing is renumbered, and what is known of the history of organisations *)
(* and administrators stays known.                                          *)
Steady ==
  /\ DOMAIN orgs \subseteq DOMAIN orgs' /\ DOMAIN staff \subseteq DOMAIN staff'
  /\ \A o \in DOMAIN orgs : born'[o] = born[o]
  /\ \A u \in DOMAIN staff : hired'[u] = hired[u]
  /\ assigned \subseteq assigned' /\ edited \subseteq edited'

(* Then what a request has written or loaded keeps its meaning.             *)
LEMMA PaperStays ==
  ASSUME NEW p, NEW label, Steady, PaperOK(p, label)
  PROVE  PaperOK(p, label)'
<1>1. ASSUME NEW u, NEW o, OfOrg(u, o) PROVE OfOrg(u, o)'
  BY <1>1 DEF OfOrg, Steady
<1>2. ASSUME label = "saveRep"
      PROVE  OfOrg(p.user, p.id)' /\ hired'[p.user].role = Role(p.type)
  BY <1>1, <1>2 DEF PaperOK, OfOrg, Steady
<1>3. ASSUME label = "saveUpdate"
      PROVE  /\ p.loaded.id \in DOMAIN orgs'
             /\ p.loaded.row.rep # Nil /\ p.loaded.id \notin assigned' =>
                  OfOrg(p.loaded.row.rep, p.loaded.id)'
  BY <1>1, <1>3 DEF PaperOK, Steady
<1>4. ASSUME label \in Creating
      PROVE  p.id \in DOMAIN orgs' /\ Below(born'[p.id], p.type, p.parent)
  BY <1>4 DEF PaperOK, Steady
<1>5. ASSUME label \in Editing
      PROVE  /\ p.user \in DOMAIN staff'
             /\ LikeHired(p.user, p.row, DOMAIN p.given)'
  BY <1>5 DEF PaperOK, Steady, LikeHired
<1> QED
  BY <1>2, <1>3, <1>4, <1>5 DEF PaperOK

(* It is enough to look at the tables and at this request.                  *)
OnDesk(d, p, label) ==
  /\ paper' = [paper EXCEPT ![d] = p]
  /\ desk' = [desk EXCEPT ![d] = label]

LEMMA OneDesk ==
  ASSUME OrgInv, NEW d \in Desk, NEW p, NEW label, OnDesk(d, p, label),
         TablesOK', KeysOK', HiredOK', OwnReps', Steady,
         PaperOK(p, label)',
         inTurn' => /\ inTurn /\ \A e \in Desk \ {d} : desk[e] \notin Active
                    /\ TurnOK(p, label)'
                    /\ SubOrgsBelow' /\ AdminsKept' /\ LoginsApart'
  PROVE  OrgInv'
<1>1. /\ paper'[d] = p /\ desk'[d] = label
      /\ \A e \in Desk \ {d} : paper'[e] = paper[e] /\ desk'[e] = desk[e]
  BY DEF OnDesk, OrgInv, TablesOK
<1>2. ASSUME NEW e \in Desk PROVE PaperOK(paper[e], desk[e])'
  <2>1. CASE e = d
    BY <1>1, <2>1 DEF PaperOK
  <2>2. CASE e # d
    <3>1. PICK q, l : q = paper[e] /\ l = desk[e]
      OBVIOUS
    <3>2. PaperOK(q, l)'
      BY <3>1, PaperStays DEF OrgInv
    <3> QED
      BY <1>1, <2>2, <3>1, <3>2 DEF PaperOK
  <2> QED
    BY <2>1, <2>2
<1>3. ASSUME inTurn' PROVE TurnInv'
  <2>1. \A e \in Desk \ {d} : desk'[e] \notin Active
    BY <1>1, <1>3
  <2>2. \A e, f \in Desk : desk'[e] \in Active /\ desk'[f] \in Active => e = f
    BY <2>1
  <2>3. ASSUME NEW e \in Desk PROVE TurnOK(paper[e], desk[e])'
    <3>1. CASE e = d
      BY <1>1, <1>3, <3>1 DEF TurnOK
    <3>2. CASE e # d
      BY <2>1, <3>2 DEF TurnOK, Active, Creating, AtParallex, Editing
    <3> QED
      BY <3>1, <3>2
  <2> QED
    BY <1>3, <2>2, <2>3 DEF TurnInv
<1> QED
  BY <1>2, <1>3 DEF OrgInv

LEMMA OnlyOneDesk ==
  ASSUME OrgInv, NEW d \in Desk, desk[d] \in Active, inTurn
  PROVE  \A e \in Desk \ {d} : desk[e] \notin Active
BY DEF OrgInv, TurnInv

(* A step that leaves the tables alone.                                     *)
LEMMA QuietDesk ==
  ASSUME OrgInv, NEW d \in Desk, NEW p, NEW label \in Steps,
         OnDesk(d, p, label), UNCHANGED <<orgs, staff, holders, history>>,
         PaperOK(p, label), inTurn' \in BOOLEAN,
         inTurn' => /\ inTurn /\ \A e \in Desk \ {d} : desk[e] \notin Active
                    /\ TurnOK(p, label)
  PROVE  OrgInv'
<1> USE DEF history
<1>1. Steady
  BY DEF Steady
<1>2. TablesOK'
  BY DEF OnDesk, OrgInv, TablesOK, There
<1>3. KeysOK' /\ HiredOK' /\ OwnReps'
  BY DEF OrgInv, KeysOK, HiredOK, LikeHired, OwnReps, Accepted, There, Exists
<1>4. PaperOK(p, label)'
  BY <1>1, PaperStays
<1>5. ASSUME inTurn, TurnOK(p, label)
      PROVE  TurnOK(p, label)' /\ SubOrgsBelow' /\ AdminsKept' /\ LoginsApart'
  <2>1. SubOrgsBelow /\ AdminsKept /\ LoginsApart
    BY <1>5 DEF OrgInv, TurnInv
  <2>2. SubOrgsBelow' /\ AdminsKept' /\ LoginsApart'
    BY <2>1 DEF SubOrgsBelow, AdminsKept, HasAdmin, Keeps, LoginsApart, Apart,
       SameLogin, There, Exists
  <2>3. TurnOK(p, label)'
    BY <1>5 DEF TurnOK, SameLogin, HasAdmin, Keeps, Apart, There, Exists,
       ChildrenOf
  <2> QED
    BY <2>2, <2>3
<1> QED
  BY <1>1, <1>2, <1>3, <1>4, <1>5, OneDesk

(* A request is answered.                                                   *)
LEMMA LeftOK ==
  /\ PaperOK(Gone, "left") /\ TurnOK(Gone, "left") /\ "left" \in Steps
  /\ PaperOK(Gone, "left")' /\ TurnOK(Gone, "left")'
BY DEF PaperOK, TurnOK, Creating, AtParallex, Editing, Steps

LEMMA QuietDepart ==
  ASSUME OrgInv, NEW d \in Desk, desk[d] \in Active, Depart(d),
         UNCHANGED <<orgs, staff, holders, history>>
  PROVE  OrgInv'
<1>1. OnDesk(d, Gone, "left") /\ inTurn' = inTurn /\ inTurn \in BOOLEAN
  BY DEF Depart, Proceed, OnDesk, OrgInv, TablesOK
<1> QED
  BY <1>1, LeftOK, OnlyOneDesk, QuietDesk

(* A request arrives.                                                       *)
LEMMA Arriving ==
  ASSUME OrgInv, NEW d \in Desk, NEW p, NEW label \in Steps, Arrive(d, p, label)
  PROVE  /\ OnDesk(d, p, label) /\ inTurn' \in BOOLEAN
         /\ inTurn' => /\ inTurn
                       /\ \A e \in Desk \ {d} : desk[e] \notin Active
BY DEF Arrive, OnDesk, OrgInv, TablesOK, Active, Creating, Editing

LEMMA CreateStep ==
  ASSUME OrgInv, NEW d \in Desk, NEW wanted, NEW route \in Routes,
         wanted.type \in Types \cup {"unset"}, wanted.parent \in 0..MaxOrgs,
         wanted.rep \in 0..MaxStaff, wanted.login \in Login \cup {NoLogin},
         Create(d, wanted, route), Below(route, wanted.type, wanted.parent)
  PROVE  OrgInv'
<1>1. PICK p : p = [wanted |-> wanted, route |-> route]
  OBVIOUS
<1>2. PaperOK(p, "insert") /\ TurnOK(p, "insert") /\ "insert" \in Steps
  BY <1>1 DEF PaperOK, TurnOK, Creating, AtParallex, Editing, Steps, Active
<1>3. Arrive(d, p, "insert")
  BY <1>1 DEF Create
<1> QED
  BY <1>2, <1>3, Arriving, QuietDesk DEF Create

LEMMA CreateOrganisationStep ==
  ASSUME OrgInv, NEW d \in Desk, CreateOrganisation(d)
  PROVE  OrgInv'
<1>1. PICK wanted \in Wanted : Create(d, wanted, "apex")
  BY DEF CreateOrganisation
<1>2. /\ wanted.type \in Types \cup {"unset"} /\ wanted.parent \in 0..MaxOrgs
      /\ wanted.rep \in 0..MaxStaff /\ wanted.login \in Login \cup {NoLogin}
      /\ "apex" \in Routes /\ Below("apex", wanted.type, wanted.parent)
  BY OrganisationsAssumption DEF Below, Routes
<1> QED
  BY <1>1, <1>2, CreateStep

LEMMA CreateSubOrganisationStep ==
  ASSUME OrgInv, NEW d \in Desk, CreateSubOrganisation(d)
  PROVE  OrgInv'
<1>1. PICK given \in Wanted, parent \in Tokens :
        /\ given.type = "sub_org"
        /\ Create(d, [given EXCEPT !.parent = parent], "partner")
  BY DEF CreateSubOrganisation
<1>2. PICK wanted : wanted = [given EXCEPT !.parent = parent]
  OBVIOUS
<1>3. /\ wanted.type = "sub_org" /\ wanted.parent = parent
      /\ parent \in 0..MaxOrgs /\ wanted.rep \in 0..MaxStaff
      /\ wanted.login \in Login \cup {NoLogin} /\ "partner" \in Routes
  BY <1>1, <1>2, OrganisationsAssumption DEF Routes
<1>4. Create(d, wanted, "partner")
  BY <1>1, <1>2
<1>5. wanted.type \in Types \cup {"unset"} /\ parent # Nil
  BY <1>3, <1>4 DEF Create, Types
<1> QED
  BY <1>3, <1>4, <1>5, CreateStep DEF Below

LEMMA InsertOrgStep ==
  ASSUME OrgInv, NEW d \in Desk, InsertOrg(d)
  PROVE  OrgInv'
<1> USE DEF OrgInv
<1>1. desk[d] \in Active
  BY DEF InsertOrg, Active
<1>2. CASE Depart(d) /\ UNCHANGED <<orgs, born, assigned>>
  BY <1>1, <1>2, QuietDepart DEF InsertOrg, history
<1>3. PICK p, type, parent, rep, login, route, n :
        /\ p = paper[d].wanted /\ parent = p.parent /\ login = p.login
        /\ rep = p.rep /\ route = paper[d].route
        /\ type = IF p.type = "unset" THEN "sub_org" ELSE p.type
        /\ n = Len(orgs) + 1
  OBVIOUS
<1>4. PICK new : new = [type |-> type, parent |-> parent, rep |-> rep]
  OBVIOUS
<1>5. PICK next : next = [id |-> n, type |-> type, parent |-> parent,
                          login |-> login]
  OBVIOUS
<1>6. PICK label : label = IF login = NoLogin THEN "askParallex" ELSE "findUser"
  OBVIOUS
<1>7. CASE /\ Accepted(n, new)
           /\ Len(orgs) < MaxOrgs
           /\ orgs' = Append(orgs, new) /\ born' = Append(born, route)
           /\ assigned' = assigned \cup {i \in {n} : rep # Nil}
           /\ Proceed(d, next, label)
  <2>0. UNCHANGED <<staff, holders, patched, complete, hired, edited>>
    BY DEF InsertOrg
  <2>1. /\ type \in Types /\ parent \in 0..MaxOrgs /\ route \in Routes
        /\ rep \in 0..MaxStaff
        /\ login \in Login \cup {NoLogin} /\ Below(route, type, parent)
    BY <1>3 DEF InsertOrg, PaperOK, Types, Below
  <2>2. /\ new \in OrgRow /\ new.type = type /\ new.parent = parent
        /\ new.rep = rep
    BY <1>4, <2>1, TableFacts DEF OrgRow, Nil
  <2>3. /\ orgs' \in Seq(OrgRow \cup {Gone}) /\ DOMAIN orgs' = 1..n
        /\ orgs'[n] = new /\ Len(orgs') = n /\ n \in Nat /\ n <= MaxOrgs
        /\ DOMAIN orgs = 1..Len(orgs) /\ n = Len(orgs) + 1
        /\ Len(orgs) \in Nat /\ \A o \in DOMAIN orgs : orgs'[o] = orgs[o]
    <3>1. PICK S : S = OrgRow \cup {Gone}
      OBVIOUS
    <3>2. orgs \in Seq(S) /\ new \in S
      BY <2>2, <3>1 DEF TablesOK
    <3>3. PICK a : a = Append(orgs, new)
      OBVIOUS
    <3>4. /\ a \in Seq(S) /\ Len(a) = n /\ a[n] = new /\ DOMAIN a = 1..n
          /\ \A i \in 1..Len(orgs) : a[i] = orgs[i]
      BY <1>3, <3>2, <3>3, Appended
    <3>5. /\ Len(orgs) \in Nat /\ MaxOrgs \in Nat /\ DOMAIN orgs = 1..Len(orgs)
      BY TableFacts
    <3>6. n \in Nat /\ n <= MaxOrgs
      <4>1. Len(orgs) < MaxOrgs
        BY <1>7
      <4> QED
        BY <1>3, <3>5, <4>1
    <3>7. orgs' = a
      BY <1>7, <3>3
    <3> QED
      BY <1>3, <3>1, <3>4, <3>5, <3>6, <3>7
  <2>4. /\ born' \in Seq(Routes) /\ Len(born') = n /\ born'[n] = route
        /\ \A o \in DOMAIN orgs : born'[o] = born[o]
    BY <1>3, <1>7, <2>1, Appended, TableFacts DEF TablesOK
  <2>5. /\ \A o \in DOMAIN orgs : There(o)' <=> There(o)
        /\ There(n)' /\ n \notin DOMAIN orgs /\ n \in DOMAIN orgs'
        /\ DOMAIN orgs' = DOMAIN orgs \cup {n}
        /\ \A u : Exists(u)' <=> Exists(u)
    <3>1. /\ n \notin DOMAIN orgs /\ n \in DOMAIN orgs'
          /\ DOMAIN orgs' = DOMAIN orgs \cup {n}
      BY <2>3
    <3>2. /\ \A o \in DOMAIN orgs : There(o)' <=> There(o)
          /\ There(n)'
      BY <2>2, <2>3, <3>1, RowsAreThere DEF There
    <3>3. \A u : Exists(u)' <=> Exists(u)
      BY <2>0 DEF Exists
    <3> QED
      BY <3>1, <3>2, <3>3
  <2>6. Steady /\ \A o \in DOMAIN orgs : o \in assigned' <=> o \in assigned
    BY <1>7, <2>0, <2>4, <2>5 DEF Steady
  <2>7. OnDesk(d, next, label) /\ inTurn' = inTurn
    BY <1>7 DEF Proceed, OnDesk
  <2>8. label \in Steps /\ label \in Creating
    BY <1>6 DEF Steps, Active, Creating
  <2>9. TablesOK'
    <3>1. /\ \A o \in holders' : There(o)'
          /\ \A c \in complete' : c.org \in DOMAIN orgs'
      <4>1. \A o \in holders : There(o) /\ o \in DOMAIN orgs
        BY DEF TablesOK, There
      <4>2. \A c \in complete : c.org \in DOMAIN orgs
        BY DEF TablesOK
      <4> QED
        BY <2>0, <2>5, <4>1, <4>2
    <3> QED
      BY <2>0, <2>3, <2>4, <2>7, <2>8, <3>1 DEF TablesOK, OnDesk
  <2>10. KeysOK'
    <3>1. \A u \in DOMAIN staff : Exists(u) /\ staff[u].org # Nil =>
            staff[u].org \in DOMAIN orgs' /\ orgs'[staff[u].org] # Gone
      BY <2>3, <2>5 DEF KeysOK, There
    <3>2. Accepted(n, new)'
      <4>1. new.parent \notin {Nil, n} => There(new.parent)'
        BY <1>7, <2>5 DEF Accepted, There
      <4>2. new.rep # Nil => Exists(new.rep)' /\ \A i \in DOMAIN orgs' \ {n} :
                               There(i)' => orgs'[i].rep # new.rep
        BY <1>7, <2>3, <2>5 DEF Accepted
      <4> QED
        BY <4>1, <4>2 DEF Accepted, There, Exists
    <3>3. ASSUME NEW o \in DOMAIN orgs, There(o)
          PROVE  Accepted(o, orgs[o])'
      <4>1. Accepted(o, orgs[o])
        BY <3>3 DEF KeysOK
      <4>2. PICK q, t : q = orgs[o].parent /\ t = orgs[o].rep
        OBVIOUS
      <4>3. q \notin {Nil, o} => There(q)'
        BY <2>5, <4>1, <4>2 DEF Accepted, There
      <4>4. t # Nil => new.rep # t
        BY <1>7, <2>5, <3>3, <4>2 DEF Accepted
      <4>5. t # Nil => Exists(t)' /\ \A i \in DOMAIN orgs' \ {o} :
                                     There(i)' => orgs'[i].rep # t
        BY <2>3, <2>5, <4>1, <4>2, <4>4 DEF Accepted
      <4> QED
        BY <2>3, <4>2, <4>3, <4>5 DEF Accepted, There, Exists
    <3> QED
      BY <2>0, <2>2, <2>3, <2>5, <3>1, <3>2, <3>3 DEF KeysOK, There
  <2>11. HiredOK' /\ OwnReps'
    <3>1. HiredOK'
      BY <2>0, <2>5 DEF HiredOK, LikeHired
    <3>2. n \in assigned' \/ new.rep = Nil
      BY <1>7, <2>2
    <3> QED
      BY <2>0, <2>3, <2>5, <2>6, <3>1, <3>2 DEF OwnReps
  <2>12. /\ next.id = n /\ next.type = type /\ next.parent = parent
         /\ next.login = login /\ "user" \notin DOMAIN next
    BY <1>5
  <2>13. PaperOK(next, label)'
    BY <1>6, <2>1, <2>4, <2>5, <2>12 DEF PaperOK, Creating, Editing
  <2>14. ASSUME inTurn'
         PROVE  /\ inTurn /\ \A e \in Desk \ {d} : desk[e] \notin Active
                /\ TurnOK(next, label)'
                /\ SubOrgsBelow' /\ AdminsKept' /\ LoginsApart'
    <3>1. inTurn /\ SubOrgsBelow /\ AdminsKept /\ LoginsApart
      BY <2>7, <2>14 DEF TurnInv
    <3>2. TurnOK(next, label)'
      BY <1>6, <2>0, <2>5, <2>12 DEF TurnOK, TablesOK, Editing
    <3>3. SubOrgsBelow'
      BY <2>0, <2>1, <2>2, <2>3, <2>4, <2>5, <3>1 DEF SubOrgsBelow
    <3>4. AdminsKept'
      BY <2>0, <2>3, <2>5, <2>6, <3>1 DEF AdminsKept, HasAdmin, Keeps, TablesOK
    <3>5. LoginsApart'
      BY <2>0, <2>5, <3>1 DEF LoginsApart, Apart, SameLogin
    <3> QED
      BY <1>1, <3>1, <3>2, <3>3, <3>4, <3>5, OnlyOneDesk
  <2> QED
    BY <2>6, <2>7, <2>9, <2>10, <2>11, <2>13, <2>14, OneDesk
<1> QED
  BY <1>2, <1>3, <1>4, <1>5, <1>6, <1>7 DEF InsertOrg

LEMMA FindExistingStep ==
  ASSUME OrgInv, NEW d \in Desk, FindExisting(d)
  PROVE  OrgInv'
<1>1. /\ desk[d] = "findUser" /\ desk[d] \in Active
      /\ UNCHANGED <<orgs, staff, holders, history>>
  BY DEF FindExisting, Active, Creating
<1>2. CASE Depart(d)
  BY <1>1, <1>2, QuietDepart
<1>3. CASE /\ ~ \E u \in DOMAIN staff : SameLogin(u, paper[d].login)
           /\ Proceed(d, paper[d], "insertAdmin")
  <2>1. PICK p : p = paper[d]
    OBVIOUS
  <2>2. OnDesk(d, p, "insertAdmin") /\ inTurn' = inTurn /\ inTurn \in BOOLEAN
    BY <1>3, <2>1 DEF Proceed, OnDesk, OrgInv, TablesOK
  <2>3. PaperOK(p, "insertAdmin") /\ "insertAdmin" \in Steps
    BY <1>1, <2>1 DEF OrgInv, PaperOK, Creating, Editing, Active, Steps
  <2>4. inTurn => TurnOK(p, "insertAdmin")
    BY <1>1, <1>3, <2>1
    DEF OrgInv, TurnInv, TurnOK, Creating, AtParallex, Editing
  <2> QED
    BY <1>1, <2>2, <2>3, <2>4, OnlyOneDesk, QuietDesk
<1> QED
  BY <1>2, <1>3 DEF FindExisting

LEMMA InsertAdminStep ==
  ASSUME OrgInv, NEW d \in Desk, InsertAdmin(d)
  PROVE  OrgInv'
<1> USE DEF OrgInv, history
<1>1. desk[d] = "insertAdmin" /\ desk[d] \in Active
  BY DEF InsertAdmin, Active, Creating
<1>2. CASE Depart(d) /\ UNCHANGED <<staff, hired>>
  BY <1>1, <1>2, QuietDepart DEF InsertAdmin
<1>3. PICK p, login, n :
        p = paper[d] /\ login = p.login /\ n = Len(staff) + 1
  OBVIOUS
<1>4. PICK new : new = [login |-> login, role |-> Role(p.type), org |-> p.id]
  OBVIOUS
<1>5. PICK next : next = [id |-> p.id, type |-> p.type, parent |-> p.parent,
                          user |-> n]
  OBVIOUS
<1>6. CASE /\ There(p.id)
           /\ Len(staff) < MaxStaff
           /\ staff' = Append(staff, new) /\ hired' = Append(hired, new)
           /\ Proceed(d, next, "saveRep")
  <2>0. UNCHANGED <<orgs, holders, born, patched, assigned, complete, edited>>
    BY DEF InsertAdmin
  <2>1. /\ p.id \in DOMAIN orgs /\ p.type \in Types /\ p.parent \in 0..MaxOrgs
        /\ Below(born[p.id], p.type, p.parent) /\ login \in Login
    BY <1>1, <1>3 DEF PaperOK, Creating
  <2>2. /\ new \in StaffRow /\ new.login = login /\ new.role = Role(p.type)
        /\ new.org = p.id
    BY <1>4, <2>1, RoleFacts, TableFacts DEF StaffRow, OrgId
  <2>3. /\ staff' \in Seq(StaffRow \cup {Gone}) /\ DOMAIN staff' = 1..n
        /\ staff'[n] = new /\ n \in Nat /\ n <= MaxStaff /\ n # 0
        /\ DOMAIN staff = 1..Len(staff) /\ n = Len(staff) + 1
        /\ Len(staff) \in Nat /\ \A u \in DOMAIN staff : staff'[u] = staff[u]
    <3>1. PICK S : S = StaffRow \cup {Gone}
      OBVIOUS
    <3>2. staff \in Seq(S) /\ new \in S
      BY <2>2, <3>1 DEF TablesOK
    <3>3. PICK a : a = Append(staff, new)
      OBVIOUS
    <3>4. /\ a \in Seq(S) /\ a[n] = new /\ DOMAIN a = 1..n
          /\ \A i \in 1..Len(staff) : a[i] = staff[i]
      BY <1>3, <3>2, <3>3, Appended
    <3>5. /\ Len(staff) \in Nat /\ MaxStaff \in Nat
          /\ DOMAIN staff = 1..Len(staff)
      BY TableFacts
    <3>6. n \in Nat /\ n <= MaxStaff /\ n # 0
      BY <1>3, <1>6, <3>5
    <3> QED
      BY <1>3, <1>6, <3>1, <3>3, <3>4, <3>5, <3>6
  <2>4. /\ \A o : There(o)' <=> There(o)
        /\ \A u \in DOMAIN staff : Exists(u)' <=> Exists(u)
        /\ Exists(n)' /\ n \notin DOMAIN staff /\ n \in DOMAIN staff'
        /\ DOMAIN staff' = DOMAIN staff \cup {n}
    <3>1. /\ n \notin DOMAIN staff /\ n \in DOMAIN staff'
          /\ DOMAIN staff' = DOMAIN staff \cup {n}
      BY <2>3
    <3>2. /\ \A u \in DOMAIN staff : Exists(u)' <=> Exists(u)
          /\ Exists(n)'
      BY <2>2, <2>3, <3>1, RowsAreThere DEF Exists
    <3>3. \A o : There(o)' <=> There(o)
      BY <2>0 DEF There
    <3> QED
      BY <3>1, <3>2, <3>3
  <2>5. Steady /\ hired' \in Seq(StaffRow) /\ Len(hired') = Len(staff')
        /\ hired'[n] = new
    <3>1. PICK a : a = Append(hired, new)
      OBVIOUS
    <3>2. Len(hired) = Len(staff) /\ hired \in Seq(StaffRow)
      BY DEF TablesOK
    <3>3. /\ a \in Seq(StaffRow) /\ a[n] = new /\ Len(a) = n
          /\ \A i \in 1..Len(staff) : a[i] = hired[i]
      BY <1>3, <2>2, <3>1, <3>2, Appended
    <3>4. Len(staff') = n
      BY <2>3
    <3>5. hired' = a
      BY <1>6, <3>1
    <3> QED
      BY <2>0, <2>3, <2>4, <3>3, <3>4, <3>5 DEF Steady
  <2>6. OnDesk(d, next, "saveRep") /\ inTurn' = inTurn
    BY <1>6 DEF Proceed, OnDesk
  <2>7. TablesOK'
    BY <2>0, <2>3, <2>5, <2>6
    DEF TablesOK, OnDesk, There, Steps, Active, Creating
  <2>8. KeysOK'
    <3>1. ASSUME NEW o \in DOMAIN orgs, There(o)
          PROVE  Accepted(o, orgs[o])'
      <4>1. Accepted(o, orgs[o])
        BY <3>1 DEF KeysOK
      <4>2. orgs[o].rep # Nil =>
              Exists(orgs[o].rep) /\ orgs[o].rep \in DOMAIN staff
        BY <4>1 DEF Accepted, Exists
      <4>3. orgs[o].rep # Nil =>
              orgs[o].rep \in DOMAIN staff' /\ staff'[orgs[o].rep] # Gone
        BY <2>3, <2>4, <4>2 DEF Exists
      <4> QED
        BY <2>0, <4>1, <4>3 DEF Accepted, There, Exists
    <3>2. ASSUME NEW u \in DOMAIN staff', Exists(u)', staff'[u].org # Nil
          PROVE  There(staff[u].org)'
      BY <1>6, <2>0, <2>2, <2>3, <2>4, <3>2 DEF KeysOK, There
    <3> QED
      BY <2>0, <2>4, <3>1, <3>2 DEF KeysOK
  <2>9. HiredOK' /\ OwnReps'
    <3>1. \A o \in DOMAIN orgs : There(o) /\ orgs[o].rep # Nil =>
            orgs[o].rep \in DOMAIN staff
      BY DEF KeysOK, Accepted, Exists
    <3>2. ASSUME NEW u \in DOMAIN staff', Exists(u)'
          PROVE  LikeHired(u, staff[u], {})'
      <4>1. CASE u = n
        BY <2>3, <2>5, <4>1 DEF LikeHired
      <4>2. CASE u \in DOMAIN staff
        <5>1. staff'[u] = staff[u] /\ hired'[u] = hired[u] /\ Exists(u)
          BY <2>3, <2>4, <2>5, <3>2, <4>2 DEF Steady
        <5> QED
          BY <2>0, <4>2, <5>1 DEF HiredOK, LikeHired
      <4> QED
        BY <2>4, <4>1, <4>2
    <3> QED
      BY <2>0, <2>5, <3>1, <3>2 DEF OwnReps, HiredOK, Steady, There
  <2>10. /\ next.id = p.id /\ next.type = p.type /\ next.parent = p.parent
         /\ next.user = n
    BY <1>5
  <2>11. PaperOK(next, "saveRep")'
    <3>1. n \in 0..MaxStaff /\ n # Nil
      BY <2>3, TableFacts DEF Nil
    <3>2. OfOrg(n, p.id)' /\ hired'[n].role = Role(p.type)
      BY <2>2, <2>4, <2>5 DEF OfOrg
    <3> QED
      BY <2>0, <2>1, <2>10, <3>1, <3>2 DEF PaperOK, Creating, Editing
  <2>12. ASSUME inTurn'
         PROVE  /\ inTurn /\ \A e \in Desk \ {d} : desk[e] \notin Active
                /\ TurnOK(next, "saveRep")'
                /\ SubOrgsBelow' /\ AdminsKept' /\ LoginsApart'
    <3>1. /\ inTurn /\ SubOrgsBelow /\ AdminsKept /\ LoginsApart
          /\ TurnOK(p, "insertAdmin")
      BY <1>1, <1>3, <2>6, <2>12 DEF TurnInv
    <3>2. TurnOK(next, "saveRep")'
      BY <2>0, <2>10, <3>1 DEF TurnOK, Creating, AtParallex, Editing
    <3>3. SubOrgsBelow'
      BY <2>0, <2>4, <3>1 DEF SubOrgsBelow
    <3>4. AdminsKept'
      <4>1. ASSUME NEW c \in complete, c.org \notin assigned
            PROVE  HasAdmin(c.org, c.user, c.type)'
        <5>1. HasAdmin(c.org, c.user, c.type)
          BY <3>1, <4>1 DEF AdminsKept
        <5>2. <<c.user, "org">> \in edited \/ c.user \in DOMAIN staff
          BY <5>1 DEF HasAdmin, Keeps, Exists
        <5> QED
          BY <2>0, <2>3, <2>4, <5>1, <5>2 DEF HasAdmin, Keeps
      <4> QED
        BY <2>0, <4>1 DEF AdminsKept
    <3>5. LoginsApart'
      <4>1. \A u \in DOMAIN staff : Exists(u) /\ staff[u].login # NoLogin =>
              /\ staff[u].login.email # login.email
              /\ staff[u].login.phone # login.phone
        BY <1>3, <3>1 DEF TurnOK, SameLogin
      <4>2. \A v \in DOMAIN staff : \A l : SameLogin(v, l)' <=> SameLogin(v, l)
        BY <2>3, <2>4 DEF SameLogin
      <4>3. Apart(n, login)'
        BY <2>4, <4>1, <4>2 DEF Apart, SameLogin
      <4>4. ASSUME NEW v \in DOMAIN staff, Exists(v), <<v, "login">> \notin edited,
                   staff[v].login # NoLogin
            PROVE  Apart(v, staff[v].login)'
        <5>1. Apart(v, staff[v].login)
          BY <3>1, <4>4 DEF LoginsApart
        <5>2. ~ SameLogin(n, staff[v].login)'
          BY <2>2, <2>3, <4>1, <4>4 DEF SameLogin
        <5> QED
          BY <2>0, <2>3, <2>4, <4>2, <5>1, <5>2 DEF Apart
      <4> QED
        BY <2>0, <2>2, <2>3, <2>4, <4>3, <4>4 DEF LoginsApart
    <3> QED
      BY <1>1, <3>1, <3>2, <3>3, <3>4, <3>5, OnlyOneDesk
  <2> QED
    BY <2>5, <2>6, <2>7, <2>8, <2>9, <2>11, <2>12, OneDesk
<1> QED
  BY <1>2, <1>3, <1>4, <1>5, <1>6 DEF InsertAdmin

LEMMA SaveRepresentativeStep ==
  ASSUME OrgInv, NEW d \in Desk, SaveRepresentative(d)
  PROVE  OrgInv'
<1> USE DEF OrgInv, history
<1>1. desk[d] = "saveRep" /\ desk[d] \in Active
  BY DEF SaveRepresentative, Active, Creating
<1>2. CASE Depart(d) /\ UNCHANGED orgs
  BY <1>1, <1>2, QuietDepart DEF SaveRepresentative
<1>3. PICK p, o, parent :
        /\ p = paper[d] /\ o = p.id
        /\ parent = IF p.parent = Nil /\ There(p.id)
                    THEN orgs[p.id].parent ELSE p.parent
  OBVIOUS
<1>4. PICK new : new = [type |-> p.type, parent |-> parent, rep |-> p.user]
  OBVIOUS
<1>5. CASE /\ Exists(p.user) /\ Accepted(o, new)
           /\ orgs' = [orgs EXCEPT ![o] = new]
           /\ Proceed(d, p, "askParallex")
  <2>0. /\ UNCHANGED <<staff, holders, born, patched, assigned, complete>>
        /\ UNCHANGED <<hired, edited>>
    BY DEF SaveRepresentative
  <2>1. /\ o \in DOMAIN orgs /\ p.type \in Types /\ p.parent \in 0..MaxOrgs
        /\ Below(born[o], p.type, p.parent)
        /\ p.user \in 0..MaxStaff /\ p.user # Nil
        /\ hired[p.user].org = o /\ hired[p.user].role = Role(p.type)
        /\ p.user \in DOMAIN staff
    BY <1>1, <1>3, <1>5 DEF PaperOK, Creating, OfOrg
  <2>2. /\ <<p.user, "org">> \in edited \/ staff[p.user].org = o
        /\ <<p.user, "role">> \in edited \/ staff[p.user].role = Role(p.type)
    BY <1>5, <2>1 DEF HiredOK, LikeHired
  <2>3. /\ new.type = p.type /\ new.parent = parent /\ new.rep = p.user
        /\ parent \in 0..MaxOrgs /\ new \in OrgRow /\ new # Gone
        /\ Below(born[o], p.type, parent)
    BY <1>3, <1>4, <2>1, TableFacts, RowsAreThere DEF OrgRow, Below
  <2>4. /\ DOMAIN orgs' = DOMAIN orgs /\ orgs'[o] = new
        /\ \A i \in DOMAIN orgs \ {o} : orgs'[i] = orgs[i]
        /\ orgs' \in Seq(OrgRow \cup {Gone}) /\ Len(orgs') = Len(orgs)
    BY <1>5, <2>1, <2>3 DEF TablesOK
  <2>5. /\ \A i \in DOMAIN orgs \ {o} : There(i)' <=> There(i)
        /\ There(o)' /\ \A i : There(i) => There(i)'
        /\ \A u \in DOMAIN staff : Exists(u)' <=> Exists(u)
    BY <2>0, <2>1, <2>3, <2>4 DEF There, Exists
  <2>6. Steady
    BY <2>0, <2>4 DEF Steady
  <2>7. OnDesk(d, p, "askParallex") /\ inTurn' = inTurn
    BY <1>5 DEF Proceed, OnDesk
  <2>8. TablesOK'
    <3>1. \A i \in holders' : There(i)'
      BY <2>0, <2>5 DEF TablesOK, There
    <3> QED
      BY <2>0, <2>4, <2>7, <3>1 DEF TablesOK, OnDesk, Steps, Active, Creating
  <2>9. KeysOK'
    <3>1. ASSUME NEW i \in DOMAIN orgs \ {o}, There(i)
          PROVE  Accepted(i, orgs[i])'
      <4>1. Accepted(i, orgs[i])
        BY <3>1 DEF KeysOK
      <4>2. orgs[i].parent \notin {Nil, i} =>
              orgs[i].parent \in DOMAIN orgs' /\ orgs'[orgs[i].parent] # Gone
        BY <2>3, <2>4, <4>1 DEF Accepted, There
      <4>3. orgs[i].rep # Nil => \A j \in DOMAIN orgs \ {i} :
              There(j)' => orgs'[j].rep # orgs[i].rep
        BY <1>5, <2>3, <2>4, <2>5, <3>1, <4>1, <2>1 DEF Accepted
      <4>4. orgs[i].rep # Nil => Exists(orgs[i].rep)
        BY <4>1 DEF Accepted
      <4> QED
        BY <2>0, <2>4, <4>2, <4>3, <4>4 DEF Accepted, There, Exists
    <3>2. Accepted(o, orgs[o])'
      <4>1. new.parent \notin {Nil, o} =>
              new.parent \in DOMAIN orgs' /\ orgs'[new.parent] # Gone
        BY <1>5, <2>3, <2>4 DEF Accepted, There
      <4>2. \A j \in DOMAIN orgs \ {o} : There(j)' => orgs'[j].rep # new.rep
        BY <1>5, <2>1, <2>3, <2>4, <2>5 DEF Accepted
      <4> QED
        BY <1>5, <2>0, <2>3, <2>4, <4>1, <4>2 DEF Accepted, There, Exists
    <3>3. ASSUME NEW u \in DOMAIN staff, Exists(u), staff[u].org # Nil
          PROVE  There(staff[u].org)'
      BY <2>0, <2>3, <2>4, <3>3 DEF KeysOK, There
    <3> QED
      BY <2>0, <2>4, <2>5, <3>1, <3>2, <3>3 DEF KeysOK
  <2>10. HiredOK' /\ OwnReps'
    <3>1. HiredOK'
      BY <2>0, <2>5 DEF HiredOK, LikeHired
    <3> QED
      BY <2>0, <2>1, <2>3, <2>4, <2>5, <3>1 DEF OwnReps
  <2>11. PaperOK(p, "askParallex")'
    BY <1>3, <2>0, <2>1, <2>4 DEF PaperOK, Creating, Editing
  <2>12. ASSUME inTurn'
         PROVE  /\ inTurn /\ \A e \in Desk \ {d} : desk[e] \notin Active
                /\ TurnOK(p, "askParallex")'
                /\ SubOrgsBelow' /\ AdminsKept' /\ LoginsApart'
    <3>1. /\ inTurn /\ SubOrgsBelow /\ AdminsKept /\ LoginsApart
          /\ TurnOK(p, "saveRep")
      BY <1>1, <1>3, <2>7, <2>12 DEF TurnInv
    <3>2. \A c \in complete : c.org # o
      BY <1>3, <3>1 DEF TurnOK, Creating
    <3>3. TurnOK(p, "askParallex")'
      <4>1. HasAdmin(o, p.user, p.type)'
        BY <1>5, <2>0, <2>1, <2>2, <2>3, <2>4, <2>5 DEF HasAdmin, Keeps
      <4> QED
        BY <1>3, <2>0, <3>2, <4>1 DEF TurnOK, Creating, AtParallex, Editing
    <3>4. SubOrgsBelow'
      BY <2>0, <2>3, <2>4, <2>5, <3>1 DEF SubOrgsBelow
    <3>5. AdminsKept'
      <4>1. ASSUME NEW c \in complete, c.org \notin assigned
            PROVE  HasAdmin(c.org, c.user, c.type)'
        <5>1. /\ HasAdmin(c.org, c.user, c.type)
              /\ c.org \in DOMAIN orgs \ {o}
          BY <3>1, <3>2, <4>1 DEF AdminsKept, TablesOK
        <5>2. <<c.user, "org">> \in edited \/ c.user \in DOMAIN staff
          BY <5>1 DEF HasAdmin, Keeps, Exists
        <5> QED
          BY <2>0, <2>4, <2>5, <5>1, <5>2 DEF HasAdmin, Keeps
      <4> QED
        BY <2>0, <4>1 DEF AdminsKept
    <3>6. LoginsApart'
      BY <2>0, <2>5, <3>1 DEF LoginsApart, Apart, SameLogin
    <3> QED
      BY <1>1, <3>1, <3>3, <3>4, <3>5, <3>6, OnlyOneDesk
  <2> QED
    BY <2>6, <2>7, <2>8, <2>9, <2>10, <2>11, <2>12, OneDesk
<1> QED
  BY <1>2, <1>3, <1>4, <1>5 DEF SaveRepresentative

LEMMA AnswerStep ==
  ASSUME OrgInv, NEW d \in Desk, desk[d] \in AtParallex, Answer(d),
         UNCHANGED <<orgs, staff, born, patched, assigned, hired, edited>>,
         \A o \in holders' : There(o)
  PROVE  OrgInv'
<1> USE DEF OrgInv, history
<1>1. desk[d] \in Active
  BY DEF AtParallex, Active, Creating
<1>2. PICK p : p = paper[d]
  OBVIOUS
<1>3. PICK new : new = [org |-> p.id, user |-> p.user, type |-> p.type]
  OBVIOUS
<1>4. /\ new.org = p.id /\ new.user = p.user /\ new.type = p.type
      /\ p.id \in DOMAIN orgs
  BY <1>2, <1>3 DEF PaperOK, AtParallex, Creating
<1>5. /\ OnDesk(d, Gone, "left") /\ inTurn' = inTurn
      /\ complete' \in {complete, complete \cup {new}}
      /\ "user" \notin DOMAIN p => complete' = complete
  BY <1>2, <1>3 DEF Answer, Depart, Proceed, OnDesk
<1>6. Steady
  BY DEF Steady
<1>7. TablesOK'
  BY <1>4, <1>5 DEF TablesOK, OnDesk, There, Steps
<1>8. KeysOK' /\ HiredOK' /\ OwnReps'
  BY DEF KeysOK, HiredOK, LikeHired, OwnReps, Accepted, There, Exists
<1>9. ASSUME inTurn'
      PROVE  /\ inTurn /\ \A e \in Desk \ {d} : desk[e] \notin Active
             /\ SubOrgsBelow' /\ AdminsKept' /\ LoginsApart'
  <2>1. /\ inTurn /\ SubOrgsBelow /\ AdminsKept /\ LoginsApart
        /\ TurnOK(p, desk[d])
    BY <1>2, <1>5, <1>9 DEF TurnInv
  <2>2. SubOrgsBelow' /\ LoginsApart'
    BY <2>1 DEF SubOrgsBelow, LoginsApart, Apart, SameLogin, There, Exists
  <2>3. "user" \in DOMAIN p => HasAdmin(p.id, p.user, p.type)
    BY <2>1 DEF TurnOK
  <2>4. ASSUME NEW c \in complete', c.org \notin assigned
        PROVE  HasAdmin(c.org, c.user, c.type)
    BY <1>4, <1>5, <2>1, <2>3, <2>4 DEF AdminsKept
  <2>5. AdminsKept'
    BY <2>4 DEF AdminsKept, HasAdmin, Keeps, There, Exists
  <2> QED
    BY <1>1, <2>1, <2>2, <2>5, OnlyOneDesk
<1> QED
  BY <1>5, <1>6, <1>7, <1>8, <1>9, LeftOK, OneDesk

LEMMA AskParallexStep ==
  ASSUME OrgInv, NEW d \in Desk, AskParallex(d)
  PROVE  OrgInv'
<1>1. /\ desk[d] = "askParallex" /\ desk[d] \in Active
      /\ desk[d] \in AtParallex
      /\ UNCHANGED <<orgs, staff, holders, born, patched, assigned>>
      /\ UNCHANGED <<hired, edited>>
  BY DEF AskParallex, Active, Creating, AtParallex
<1>2. CASE Answer(d)
  BY <1>1, <1>2, AnswerStep DEF OrgInv, TablesOK
<1>3. CASE Proceed(d, paper[d], "saveAccount") /\ UNCHANGED complete
  <2>1. PICK p : p = paper[d]
    OBVIOUS
  <2>2. OnDesk(d, p, "saveAccount") /\ inTurn' = inTurn /\ inTurn \in BOOLEAN
    BY <1>3, <2>1 DEF Proceed, OnDesk, OrgInv, TablesOK
  <2>3. PaperOK(p, "saveAccount") /\ "saveAccount" \in Steps
    BY <1>1, <2>1 DEF OrgInv, PaperOK, Creating, Editing, Active, Steps
  <2>4. inTurn => TurnOK(p, "saveAccount")
    BY <1>1, <2>1 DEF OrgInv, TurnInv, TurnOK, Creating, AtParallex, Editing
  <2> QED
    BY <1>1, <1>3, <2>2, <2>3, <2>4, OnlyOneDesk, QuietDesk DEF history
<1> QED
  BY <1>2, <1>3 DEF AskParallex

LEMMA SaveOrgAccountStep ==
  ASSUME OrgInv, NEW d \in Desk, SaveOrgAccount(d)
  PROVE  OrgInv'
BY AnswerStep DEF SaveOrgAccount, AtParallex, OrgInv, TablesOK

-----------------------------------------------------------------------------
(* Updates.                                                                 *)

LEMMA UpdateStep ==
  ASSUME OrgInv, NEW d \in Desk, Update(d)
  PROVE  OrgInv'
<1>1. PICK o \in DOMAIN orgs, given \in Patch :
        /\ There(o)
        /\ Arrive(d, [loaded |-> Loaded(o), given |-> given], "saveUpdate")
  BY DEF Update
<1>2. PICK loaded : loaded = Loaded(o)
  OBVIOUS
<1>3. PICK p : p = [loaded |-> loaded, given |-> given]
  OBVIOUS
<1>4. /\ p.loaded = loaded /\ p.given = given
      /\ loaded.id = o /\ loaded.row = orgs[o]
      /\ loaded.children = ChildrenOf(o)
  BY <1>2, <1>3 DEF Loaded
<1>5. orgs[o] \in OrgRow /\ given \in Fields
  BY <1>1, TableFacts, OrganisationsAssumption DEF OrgInv
<1>6. orgs[o].rep # Nil /\ o \notin assigned => OfOrg(orgs[o].rep, o)
  BY <1>1 DEF OrgInv, KeysOK, Accepted, OwnReps, OfOrg, Exists
<1>7. PaperOK(p, "saveUpdate") /\ "saveUpdate" \in Steps
  BY <1>4, <1>5, <1>6 DEF PaperOK, Creating, Editing, Steps, Active
<1>8. inTurn => TurnOK(p, "saveUpdate")
  <2>1. inTurn => \A c \in complete : c.org = o /\ c.org \notin assigned =>
          <<c.user, "org">> \in edited \/ orgs[o].rep = c.user
    BY DEF OrgInv, TurnInv, AdminsKept, HasAdmin, Keeps
  <2> QED
    BY <1>4, <2>1 DEF TurnOK, Creating, AtParallex, Editing
<1>9. Arrive(d, p, "saveUpdate")
  BY <1>1, <1>2, <1>3
<1>10. UNCHANGED <<orgs, staff, holders, history>>
  BY DEF Update
<1> QED
  BY <1>7, <1>8, <1>9, <1>10, Arriving, QuietDesk

LEMMA AssignedRow ==
  ASSUME OrgInv, NEW old \in OrgRow, NEW given \in Fields
  PROVE  /\ Assigned(old, given) \in OrgRow
         /\ "rep" \notin DOMAIN given => Assigned(old, given).rep = old.rep
<1>1. old.type \in Types /\ old.parent \in 0..MaxOrgs /\ old.rep \in 0..MaxStaff
  BY DEF OrgRow
<1>2. MaxOrgs \in Nat /\ MaxStaff \in Nat
  BY OrganisationsAssumption
<1>3. /\ "type" \in DOMAIN given => given.type \in Types
      /\ "parent" \in DOMAIN given => given.parent \in 0..MaxOrgs
      /\ "rep" \in DOMAIN given => given.rep \in 0..MaxStaff
  <2>1. CASE given \in [type : Types]
    BY <2>1
  <2>2. CASE given \in [parent : OrgId]
    BY <1>2, <2>2 DEF OrgId
  <2>3. CASE given \in [rep : 1..MaxStaff]
    BY <1>2, <2>3
  <2>4. CASE given = [other |-> TRUE]
    BY <2>4
  <2> QED
    BY <2>1, <2>2, <2>3, <2>4 DEF Fields
<1> QED
  BY <1>1, <1>3 DEF Assigned, OrgRow

LEMMA SaveUpdateStep ==
  ASSUME OrgInv, NEW d \in Desk, SaveUpdate(d)
  PROVE  OrgInv'
<1> USE DEF OrgInv, history
<1>1. desk[d] = "saveUpdate" /\ desk[d] \in Active
  BY DEF SaveUpdate, Active
<1>2. CASE UNCHANGED <<orgs, patched, assigned>> /\ Depart(d)
  BY <1>1, <1>2, QuietDepart DEF SaveUpdate
<1>3. PICK p, o, old, kids, given, new :
        /\ p = paper[d] /\ o = p.loaded.id /\ old = p.loaded.row
        /\ kids = p.loaded.children /\ given = p.given
        /\ new = Assigned(old, given)
  OBVIOUS
<1> DEFINE ParentNow(i) == IF i \in kids THEN o
                           ELSE IF orgs[i].parent = o THEN Nil
                           ELSE orgs[i].parent
<1>4. CASE /\ Accepted(o, new)
           /\ orgs' = [i \in DOMAIN orgs |->
                         IF i = o THEN new
                         ELSE IF There(i)
                         THEN [orgs[i] EXCEPT !.parent = ParentNow(i)]
                         ELSE Gone]
           /\ patched' = patched \cup {o}
           /\ assigned' = assigned \cup {i \in {o} : "rep" \in DOMAIN given}
           /\ Depart(d)
  <2>0. UNCHANGED <<staff, holders, born, complete, hired, edited>>
    BY DEF SaveUpdate
  <2>1. /\ o \in DOMAIN orgs /\ old \in OrgRow /\ given \in Fields
        /\ old.rep # Nil /\ o \notin assigned => OfOrg(old.rep, o)
    BY <1>1, <1>3 DEF PaperOK
  <2>2. /\ new \in OrgRow /\ new # Gone
        /\ "rep" \notin DOMAIN given => new.rep = old.rep
    BY <1>3, <2>1, AssignedRow, RowsAreThere
  <2>3. /\ o \in assigned' \/ (new.rep = old.rep /\ o \notin assigned)
        /\ o \in patched'
        /\ \A i \in DOMAIN orgs \ {o} : (i \in assigned' <=> i \in assigned)
                                      /\ (i \in patched' <=> i \in patched)
        /\ assigned \subseteq assigned'
    BY <1>4, <2>2
  <2>4. DOMAIN orgs' = DOMAIN orgs /\ orgs'[o] = new
    BY <1>4, <2>1
  <2>5. ASSUME NEW i \in DOMAIN orgs \ {o}, There(i)
        PROVE  /\ orgs'[i] \in OrgRow /\ orgs'[i] # Gone
               /\ orgs'[i].type = orgs[i].type /\ orgs'[i].rep = orgs[i].rep
               /\ orgs'[i].parent = ParentNow(i)
    <3>1. PICK r, q, new2 : /\ r = orgs[i] /\ q = ParentNow(i)
                            /\ new2 = [r EXCEPT !.parent = q]
      OBVIOUS
    <3>2. orgs'[i] = new2
      BY <1>4, <2>5, <3>1
    <3>3. r \in OrgRow /\ r.parent \in 0..MaxOrgs
      BY <2>5, <3>1, TableFacts
    <3>4. o \in 0..MaxOrgs /\ Nil \in 0..MaxOrgs
      BY <2>1, TableFacts DEF OrgId, Nil
    <3>5. q \in 0..MaxOrgs
      BY <3>1, <3>3, <3>4
    <3>6. /\ new2 \in OrgRow /\ new2.type = r.type /\ new2.rep = r.rep
          /\ new2.parent = q
      BY <3>1, <3>3, <3>5 DEF OrgRow
    <3> QED
      BY <3>1, <3>2, <3>6, RowsAreThere
  <2>6. \A i \in DOMAIN orgs \ {o} : ~ There(i) => orgs'[i] = Gone
    BY <1>4
  <2>7. /\ \A i \in DOMAIN orgs \ {o} : There(i)' <=> There(i)
        /\ There(o)' /\ \A i : There(i) => There(i)'
        /\ \A u : Exists(u)' <=> Exists(u)
    <3>1. There(o)'
      BY <2>1, <2>2, <2>4 DEF There
    <3>2. \A i \in DOMAIN orgs \ {o} : There(i)' <=> There(i)
      BY <2>4, <2>5, <2>6 DEF There
    <3>3. \A i : There(i) => i \in DOMAIN orgs
      BY DEF There
    <3>4. \A u : Exists(u)' <=> Exists(u)
      BY <2>0 DEF Exists
    <3> QED
      BY <3>1, <3>2, <3>3, <3>4
  <2> HIDE DEF ParentNow
  <2>8. OnDesk(d, Gone, "left") /\ inTurn' = inTurn
    BY <1>4 DEF Depart, Proceed, OnDesk
  <2>9. Steady
    BY <2>0, <2>3, <2>4 DEF Steady
  <2>10. TablesOK'
    <3>1. \A i \in DOMAIN orgs : orgs'[i] \in OrgRow \cup {Gone}
      BY <2>2, <2>4, <2>5, <2>6
    <3>2. orgs' = [i \in 1..Len(orgs) |-> orgs'[i]]
      BY <1>4, <2>4, TableFacts
    <3>3. orgs' \in Seq(OrgRow \cup {Gone}) /\ Len(orgs') = Len(orgs)
      BY <3>1, <3>2, TableFacts
    <3>4. \A i \in holders' : There(i)'
      BY <2>0, <2>7 DEF TablesOK
    <3> QED
      BY <2>0, <2>4, <2>8, <3>3, <3>4 DEF TablesOK, OnDesk, Steps
  <2>11. \A i \in DOMAIN orgs \ {o} : There(i) =>
           \/ ParentNow(i) = o \/ ParentNow(i) = Nil
           \/ ParentNow(i) = orgs[i].parent
    BY DEF ParentNow
  <2>12. KeysOK'
    <3>1. ASSUME NEW i \in DOMAIN orgs \ {o}, There(i)
          PROVE  Accepted(i, orgs[i])'
      <4>1. Accepted(i, orgs[i])
        BY <3>1 DEF KeysOK
      <4>2. PICK q, r : q = orgs'[i].parent /\ r = orgs'[i].rep
        OBVIOUS
      <4>3. q \notin {Nil, i} => There(q)'
        <5>1. q = o \/ q = Nil \/ q = orgs[i].parent
          BY <2>5, <2>11, <3>1, <4>2
        <5>2. q = orgs[i].parent /\ q \notin {Nil, i} => There(q)
          BY <4>1 DEF Accepted
        <5> QED
          BY <2>7, <5>1, <5>2
      <4>4. r = orgs[i].rep
        BY <2>5, <3>1, <4>2
      <4>5. r # Nil => Exists(r)' /\ \A j \in DOMAIN orgs \ {i} :
                                     There(j)' => orgs'[j].rep # r
        <5>1. r # Nil => Exists(r) /\ \A j \in DOMAIN orgs \ {i} :
                                      There(j) => orgs[j].rep # r
          BY <4>1, <4>4 DEF Accepted
        <5>2. r # Nil => new.rep # r
          BY <1>4, <3>1, <4>4 DEF Accepted
        <5> QED
          BY <2>4, <2>5, <2>7, <5>1, <5>2
      <4> QED
        BY <2>4, <4>2, <4>3, <4>5 DEF Accepted, There, Exists
    <3>2. Accepted(o, orgs[o])'
      <4>1. new.parent \notin {Nil, o} => There(new.parent)
        BY <1>4 DEF Accepted
      <4>2. new.parent \notin {Nil, o} =>
              new.parent \in DOMAIN orgs' /\ orgs'[new.parent] # Gone
        BY <2>2, <2>4, <2>5, <4>1 DEF There
      <4>3. new.rep # Nil => Exists(new.rep) /\ \A j \in DOMAIN orgs \ {o} :
                               There(j)' => orgs'[j].rep # new.rep
        BY <1>4, <2>5, <2>7 DEF Accepted
      <4> QED
        BY <2>0, <2>4, <4>2, <4>3 DEF Accepted, There, Exists
    <3>3. ASSUME NEW u \in DOMAIN staff, Exists(u), staff[u].org # Nil
          PROVE  There(staff[u].org)'
      <4>1. There(staff[u].org)
        BY <3>3 DEF KeysOK
      <4> QED
        BY <2>0, <2>2, <2>4, <2>5, <4>1 DEF There
    <3> QED
      BY <2>0, <2>4, <2>7, <3>1, <3>2, <3>3 DEF KeysOK
  <2>13. HiredOK' /\ OwnReps'
    <3>1. ASSUME NEW i \in DOMAIN orgs \ {o}, There(i), orgs'[i].rep # Nil,
                 i \notin assigned'
          PROVE  hired[orgs'[i].rep].org = i
      BY <2>3, <2>5, <3>1 DEF OwnReps
    <3>2. ASSUME new.rep # Nil, o \notin assigned'
          PROVE  hired[new.rep].org = o
      BY <1>4, <2>1, <2>3, <3>2 DEF Accepted, OfOrg
    <3>3. HiredOK'
      BY <2>0, <2>7 DEF HiredOK, LikeHired
    <3> QED
      BY <2>0, <2>4, <2>7, <3>1, <3>2, <3>3 DEF OwnReps
  <2>14. ASSUME inTurn'
         PROVE  /\ inTurn /\ \A e \in Desk \ {d} : desk[e] \notin Active
                /\ SubOrgsBelow' /\ AdminsKept' /\ LoginsApart'
    <3>1. /\ inTurn /\ SubOrgsBelow /\ AdminsKept /\ LoginsApart
          /\ TurnOK(p, "saveUpdate")
      BY <1>1, <1>3, <2>8, <2>14 DEF TurnInv
    <3>2. /\ ChildrenOf(o) \subseteq kids
          /\ \A c \in complete : c.org = o /\ o \notin assigned =>
               <<c.user, "org">> \in edited \/ old.rep = c.user
      BY <1>3, <3>1 DEF TurnOK
    <3>3. SubOrgsBelow'
      <4>1. ASSUME NEW i \in DOMAIN orgs \ {o}, There(i), i \notin patched
            PROVE  Below(born[i], orgs'[i].type, orgs'[i].parent)
        <5>1. Below(born[i], orgs[i].type, orgs[i].parent)
          BY <3>1, <4>1 DEF SubOrgsBelow
        <5>2. o # Nil
          BY <2>1, TableFacts DEF OrgId, Nil
        <5>3. orgs[i].parent # Nil => ParentNow(i) # Nil
          BY <3>2, <4>1, <5>2 DEF ParentNow, ChildrenOf
        <5> QED
          BY <2>5, <4>1, <5>1, <5>3 DEF Below
      <4> QED
        BY <2>0, <2>3, <2>4, <2>7, <4>1 DEF SubOrgsBelow
    <3>4. AdminsKept'
      <4>1. ASSUME NEW c \in complete, c.org \notin assigned'
            PROVE  HasAdmin(c.org, c.user, c.type)'
        <5>1. c.org \notin assigned
          BY <2>3, <4>1
        <5>2. HasAdmin(c.org, c.user, c.type)
          BY <3>1, <5>1 DEF AdminsKept
        <5>3. CASE <<c.user, "org">> \in edited
          BY <2>0, <5>3 DEF HasAdmin
        <5>4. CASE <<c.user, "org">> \notin edited
          <6>1. /\ Keeps(c.org, c.user, c.type) /\ c.org \in DOMAIN orgs
                /\ c.user \in DOMAIN staff
            BY <5>2, <5>4 DEF HasAdmin, Keeps, There, Exists
          <6>2. orgs'[c.org].rep = c.user
            BY <2>3, <2>4, <2>5, <3>2, <4>1, <5>1, <5>4, <6>1 DEF Keeps
          <6> QED
            BY <2>0, <2>7, <6>1, <6>2 DEF HasAdmin, Keeps
        <5> QED
          BY <5>3, <5>4
      <4> QED
        BY <2>0, <4>1 DEF AdminsKept
    <3>5. LoginsApart'
      BY <2>0, <2>7, <3>1 DEF LoginsApart, Apart, SameLogin
    <3> QED
      BY <1>1, <3>1, <3>3, <3>4, <3>5, OnlyOneDesk
  <2> QED
    BY <2>8, <2>9, <2>10, <2>12, <2>13, <2>14, LeftOK, OneDesk
<1> QED
  BY <1>2, <1>3, <1>4 DEF SaveUpdate

-----------------------------------------------------------------------------
(* Changes of users.                                                        *)

LEMMA EditedRow ==
  ASSUME OrgInv, NEW old \in StaffRow, NEW given \in Edits
  PROVE  /\ Edited(old, given) \in StaffRow
         /\ "org" \notin DOMAIN given => Edited(old, given).org = old.org
         /\ "role" \notin DOMAIN given => Edited(old, given).role = old.role
         /\ "login" \notin DOMAIN given => Edited(old, given).login = old.login
<1>1. /\ DOMAIN old = {"login", "role", "org"}
      /\ old.login \in Login \cup {NoLogin} /\ old.role \in Roles
      /\ old.org \in 0..MaxOrgs
  BY DEF StaffRow
<1>2. PICK new : new = Edited(old, given)
  OBVIOUS
<1>3. /\ DOMAIN new = {"login", "role", "org"}
      /\ \A f \in {"login", "role", "org"} :
           new[f] = IF f \in DOMAIN given THEN given[f] ELSE old[f]
  BY <1>1, <1>2 DEF Edited
<1>4. /\ "org" \in DOMAIN given => given["org"] \in 0..MaxOrgs
      /\ "role" \in DOMAIN given => given["role"] \in Roles
      /\ "login" \in DOMAIN given => given["login"] \in Login
  <2>1. CASE given \in [org : 0..MaxOrgs]
    BY <2>1
  <2>2. CASE given \in [login : Login]
    BY <2>2
  <2>3. CASE given \in [role : Roles]
    BY <2>3
  <2> QED
    BY <2>1, <2>2, <2>3 DEF Edits
<1>5. /\ new["login"] \in Login \cup {NoLogin} /\ new["role"] \in Roles
      /\ new["org"] \in 0..MaxOrgs
  BY <1>1, <1>3, <1>4
<1>6. new = [login |-> new["login"], role |-> new["role"], org |-> new["org"]]
  BY <1>2, <1>3, <1>1 DEF Edited
<1>7. new \in StaffRow
  BY <1>5, <1>6 DEF StaffRow
<1>8. /\ "org" \notin DOMAIN given => new.org = old.org
      /\ "role" \notin DOMAIN given => new.role = old.role
      /\ "login" \notin DOMAIN given => new.login = old.login
  BY <1>3
<1> QED
  BY <1>2, <1>7, <1>8

LEMMA ChangeUserStep ==
  ASSUME OrgInv, NEW d \in Desk, NEW u \in DOMAIN staff, NEW given \in Edit,
         NEW label \in Editing, ChangeUser(d, u, given, label)
  PROVE  OrgInv'
<1>1. PICK new : new = Edited(staff[u], given)
  OBVIOUS
<1>2. PICK p : p = [user |-> u, row |-> new, given |-> given]
  OBVIOUS
<1>3. /\ p.user = u /\ p.row = new /\ p.given = given
  BY <1>2
<1>4. /\ Exists(u) /\ Arrive(d, p, label)
      /\ UNCHANGED <<orgs, staff, holders, history>>
  BY <1>1, <1>2 DEF ChangeUser
<1>5. staff[u] \in StaffRow /\ given \in Edits
  BY <1>4, TableFacts, OrganisationsAssumption DEF OrgInv
<1>6. /\ new \in StaffRow
      /\ "org" \notin DOMAIN given => new.org = staff[u].org
      /\ "role" \notin DOMAIN given => new.role = staff[u].role
      /\ "login" \notin DOMAIN given => new.login = staff[u].login
  BY <1>1, <1>5, EditedRow
<1>7. LikeHired(u, new, DOMAIN given)
  BY <1>4, <1>6 DEF OrgInv, HiredOK, LikeHired
<1>8. label \in Steps /\ label \notin Creating /\ label # "insert"
      /\ label # "saveUpdate" /\ label \notin AtParallex /\ label # "insertAdmin"
  BY DEF Editing, Steps, Active, Creating, AtParallex
<1>9. PaperOK(p, label)
  BY <1>3, <1>6, <1>7, <1>8 DEF PaperOK, Creating
<1>10. ASSUME inTurn PROVE TurnOK(p, label)
  <2>1. LoginsApart
    BY <1>10 DEF OrgInv, TurnInv
  <2>2. \/ "login" \in DOMAIN given \/ <<u, "login">> \in edited
        \/ new.login = NoLogin \/ Apart(u, new.login)
    BY <1>4, <1>6, <2>1 DEF LoginsApart
  <2> QED
    BY <1>3, <1>8, <2>2 DEF TurnOK
<1> QED
  BY <1>4, <1>8, <1>9, <1>10, Arriving, QuietDesk

LEMMA UpdateProfileStep ==
  ASSUME OrgInv, NEW d \in Desk, UpdateProfile(d)
  PROVE  OrgInv'
<1>1. PICK u \in DOMAIN staff, given \in Edit :
        \/ ChangeUser(d, u, given, "saveOrg") \/ ChangeUser(d, u, given, "saveUser")
  BY DEF UpdateProfile
<1> QED
  BY <1>1, ChangeUserStep DEF Editing

LEMMA UpdateUserStep ==
  ASSUME OrgInv, NEW d \in Desk, UpdateUser(d)
  PROVE  OrgInv'
<1>1. PICK u \in DOMAIN staff, given \in Edit :
        ChangeUser(d, u, given, "saveUser")
  BY DEF UpdateUser
<1> QED
  BY <1>1, ChangeUserStep DEF Editing

LEMMA SaveUserStep ==
  ASSUME OrgInv, NEW d \in Desk, SaveUser(d)
  PROVE  OrgInv'
<1> USE DEF OrgInv, history
<1>1. desk[d] \in Editing /\ desk[d] \in Active
  BY DEF SaveUser, Active, Editing
<1>2. CASE Depart(d) /\ UNCHANGED <<staff, edited>>
  BY <1>1, <1>2, QuietDepart DEF SaveUser
<1>3. PICK p, u, new, given :
        p = paper[d] /\ u = p.user /\ new = p.row /\ given = DOMAIN p.given
  OBVIOUS
<1>4. CASE /\ new.org # Nil => There(new.org)
           /\ staff' = [staff EXCEPT ![u] = new]
           /\ edited' = edited \cup {<<u, f>> : f \in given}
           /\ Proceed(d, p, "saveUser") \/ Depart(d)
  <2>0. UNCHANGED <<orgs, holders, born, patched, assigned, complete, hired>>
    BY DEF SaveUser
  <2>1. u \in DOMAIN staff /\ new \in StaffRow /\ LikeHired(u, new, given)
    BY <1>1, <1>3 DEF PaperOK
  <2>2. /\ DOMAIN staff' = DOMAIN staff /\ staff'[u] = new
        /\ \A v \in DOMAIN staff \ {u} : staff'[v] = staff[v]
        /\ staff' \in Seq(StaffRow \cup {Gone}) /\ Len(staff') = Len(staff)
    BY <1>4, <2>1 DEF TablesOK
  <2>3. /\ \A o : There(o)' <=> There(o)
        /\ \A v \in DOMAIN staff \ {u} : Exists(v)' <=> Exists(v)
        /\ Exists(u)' /\ \A v : Exists(v) => Exists(v)'
        /\ \A v : Exists(v)' => v \in DOMAIN staff
    BY <2>0, <2>1, <2>2, RowsAreThere DEF There, Exists
  <2>4. Steady
    BY <1>4, <2>0, <2>2 DEF Steady
  <2>5. PICK q, label : /\ OnDesk(d, q, label) /\ inTurn' = inTurn
                        /\ \/ q = p /\ label = "saveUser"
                           \/ q = Gone /\ label = "left"
    BY <1>4 DEF Proceed, Depart, OnDesk
  <2>6. TablesOK'
    <3>1. label \in Steps
      BY <2>5 DEF Steps, Active, Editing
    <3> QED
      BY <2>0, <2>2, <2>3, <2>5, <3>1 DEF TablesOK, OnDesk
  <2>7. KeysOK'
    <3>1. ASSUME NEW o \in DOMAIN orgs, There(o)
          PROVE  Accepted(o, orgs[o])'
      BY <2>0, <2>3, <3>1 DEF KeysOK, Accepted
    <3>2. ASSUME NEW v \in DOMAIN staff, Exists(v)', staff'[v].org # Nil
          PROVE  There(staff'[v].org)
      BY <1>4, <2>2, <2>3, <3>2 DEF KeysOK
    <3> QED
      BY <2>0, <2>2, <2>3, <3>1, <3>2 DEF KeysOK
  <2>8. HiredOK' /\ OwnReps'
    <3>1. LikeHired(u, new, {})'
      BY <1>4, <2>0, <2>1 DEF LikeHired
    <3>2. ASSUME NEW v \in DOMAIN staff \ {u}, Exists(v)'
          PROVE  LikeHired(v, staff[v], {})'
      BY <1>4, <2>0, <2>2, <2>3, <3>2 DEF HiredOK, LikeHired
    <3>3. LikeHired(u, staff[u], {})'
      BY <2>2, <3>1 DEF LikeHired
    <3>4. HiredOK'
      BY <2>2, <3>2, <3>3 DEF HiredOK
    <3> QED
      BY <2>0, <2>3, <3>4 DEF OwnReps
  <2>9. PaperOK(q, label)'
    <3>1. PaperOK(p, "saveUser")
      BY <1>1, <1>3, <2>1 DEF PaperOK, Editing, Creating
    <3> QED
      BY <2>4, <2>5, <3>1, PaperStays, LeftOK
  <2>10. ASSUME inTurn'
         PROVE  /\ inTurn /\ \A e \in Desk \ {d} : desk[e] \notin Active
                /\ TurnOK(q, label)'
                /\ SubOrgsBelow' /\ AdminsKept' /\ LoginsApart'
    <3>1. /\ inTurn /\ SubOrgsBelow /\ AdminsKept /\ LoginsApart
          /\ TurnOK(p, desk[d])
      BY <1>3, <2>5, <2>10 DEF TurnInv
    <3>2. \/ "login" \in given \/ <<u, "login">> \in edited
          \/ new.login = NoLogin \/ Apart(u, new.login)
      BY <1>1, <1>3, <3>1 DEF TurnOK
    <3>3. \A v \in DOMAIN staff \ {u} : \A l : SameLogin(v, l)' <=> SameLogin(v, l)
      BY <2>2, <2>3 DEF SameLogin
    <3>4. \/ <<u, "login">> \in edited' \/ new.login = NoLogin
          \/ Apart(u, new.login)'
      BY <1>4, <2>2, <2>3, <3>2, <3>3 DEF Apart
    <3>5. TurnOK(q, label)'
      <4>1. CASE q = p /\ label = "saveUser"
        BY <1>3, <3>4, <4>1 DEF TurnOK, Creating, AtParallex
      <4>2. CASE q = Gone /\ label = "left"
        BY <4>2, LeftOK
      <4> QED
        BY <2>5, <4>1, <4>2
    <3>6. SubOrgsBelow'
      BY <2>0, <2>3, <3>1 DEF SubOrgsBelow
    <3>7. AdminsKept'
      <4>1. ASSUME NEW c \in complete, c.org \notin assigned,
                   <<c.user, "org">> \notin edited'
            PROVE  Keeps(c.org, c.user, c.type)'
        <5>1. Keeps(c.org, c.user, c.type)
          BY <1>4, <3>1, <4>1 DEF AdminsKept, HasAdmin
        <5>2. CASE c.user # u
          BY <1>4, <2>0, <2>2, <2>3, <5>1, <5>2 DEF Keeps, Exists
        <5>3. CASE c.user = u
          <6>1. "org" \notin given /\ <<u, "org">> \notin edited
            BY <1>4, <4>1, <5>3
          <6>2. LikeHired(u, staff[u], {}) /\ Exists(u)
            BY <2>1, <5>1, <5>3 DEF HiredOK, Keeps
          <6>3. new.org = staff[u].org
            BY <2>1, <6>1, <6>2 DEF LikeHired
          <6>4. <<u, "role">> \in edited' \/ new.role = staff[u].role
            BY <1>4, <2>1, <6>2 DEF LikeHired
          <6> QED
            BY <1>4, <2>0, <2>2, <2>3, <5>1, <5>3, <6>3, <6>4 DEF Keeps
        <5> QED
          BY <5>2, <5>3
      <4> QED
        BY <2>0, <4>1 DEF AdminsKept, HasAdmin
    <3>8. LoginsApart'
      <4>1. ASSUME NEW v \in DOMAIN staff \ {u}, Exists(v),
                   <<v, "login">> \notin edited', staff[v].login # NoLogin
            PROVE  Apart(v, staff[v].login)'
        <5>1. Apart(v, staff[v].login)
          BY <1>4, <3>1, <4>1 DEF LoginsApart
        <5>2. <<u, "login">> \in edited' \/ ~ SameLogin(u, staff[v].login)'
          BY <2>2, <3>4, <4>1, <2>3 DEF Apart, SameLogin
        <5> QED
          BY <1>4, <2>2, <2>3, <3>3, <5>1, <5>2 DEF Apart
      <4> QED
        BY <2>2, <2>3, <3>4, <4>1 DEF LoginsApart
    <3> QED
      BY <1>1, <3>1, <3>5, <3>6, <3>7, <3>8, OnlyOneDesk
  <2> QED
    BY <2>4, <2>5, <2>6, <2>7, <2>8, <2>9, <2>10, OneDesk
<1> QED
  BY <1>2, <1>3, <1>4 DEF SaveUser

-----------------------------------------------------------------------------
(* Removals, and a server that dies.                                        *)

(* No request moves, and an organisation or an administrator is gone.       *)
LEMMA RemoveStep ==
  ASSUME OrgInv, NEW o \in DOMAIN orgs, Remove(o)
  PROVE  OrgInv'
<1> USE DEF OrgInv, history
<1>1. /\ There(o) /\ ChildrenOf(o) \subseteq {o}
      /\ \A u \in DOMAIN staff : Exists(u) => staff[u].org # o
      /\ orgs' = [orgs EXCEPT ![o] = Gone] /\ holders' = holders \ {o}
      /\ UNCHANGED <<staff, paper, desk, born, patched, assigned, complete,
                     hired, edited, inTurn>>
  BY DEF Remove
<1>2. /\ DOMAIN orgs' = DOMAIN orgs /\ orgs'[o] = Gone
      /\ \A i \in DOMAIN orgs \ {o} : orgs'[i] = orgs[i]
      /\ orgs' \in Seq(OrgRow \cup {Gone}) /\ Len(orgs') = Len(orgs)
  BY <1>1 DEF TablesOK
<1>3. /\ \A i \in DOMAIN orgs \ {o} : There(i)' <=> There(i)
      /\ ~ There(o)' /\ \A i : There(i) => i = o \/ There(i)'
      /\ \A i : There(i)' => There(i) /\ i \in DOMAIN orgs \ {o}
      /\ \A u : Exists(u)' <=> Exists(u)
  BY <1>1, <1>2 DEF There, Exists
<1>4. TablesOK'
  <2>1. \A i \in holders' : There(i)'
    BY <1>1, <1>3 DEF TablesOK
  <2> QED
    BY <1>1, <1>2, <2>1 DEF TablesOK
<1>5. KeysOK'
  <2>1. ASSUME NEW i \in DOMAIN orgs \ {o}, There(i)
        PROVE  Accepted(i, orgs[i])'
    <3>1. Accepted(i, orgs[i])
      BY <2>1 DEF KeysOK
    <3>2. orgs[i].parent \notin {Nil, i} =>
            orgs[i].parent \in DOMAIN orgs' /\ orgs'[orgs[i].parent] # Gone
      BY <1>1, <1>2, <2>1, <3>1 DEF Accepted, There, ChildrenOf
    <3>3. orgs[i].rep # Nil => Exists(orgs[i].rep) /\
            \A j \in DOMAIN orgs \ {i} : There(j)' => orgs'[j].rep # orgs[i].rep
      BY <1>2, <1>3, <3>1 DEF Accepted
    <3> QED
      BY <1>1, <1>2, <3>2, <3>3 DEF Accepted, There, Exists
  <2>2. ASSUME NEW u \in DOMAIN staff, Exists(u), staff[u].org # Nil
        PROVE  There(staff[u].org)'
    BY <1>1, <1>2, <2>2 DEF KeysOK, There
  <2> QED
    BY <1>1, <1>2, <1>3, <2>1, <2>2 DEF KeysOK
<1>6. HiredOK' /\ OwnReps'
  BY <1>1, <1>2, <1>3 DEF OwnReps, HiredOK, LikeHired
<1>7. Steady
  BY <1>1, <1>2 DEF Steady
<1>8. ASSUME NEW d \in Desk PROVE PaperOK(paper[d], desk[d])'
  <2>1. PICK p, label : p = paper[d] /\ label = desk[d]
    OBVIOUS
  <2>2. PaperOK(p, label)'
    BY <1>7, <2>1, PaperStays
  <2> QED
    BY <1>1, <2>1, <2>2 DEF PaperOK
<1>9. ASSUME inTurn' PROVE TurnInv'
  <2>1. inTurn /\ TurnInv
    BY <1>1, <1>9
  <2>2. ASSUME NEW q, NEW u, NEW type, HasAdmin(q, u, type)
        PROVE  HasAdmin(q, u, type)'
    <3>1. CASE Keeps(q, u, type)
      <4>1. q \in DOMAIN orgs /\ u \in DOMAIN staff /\ q # o
        BY <1>1, <3>1 DEF Keeps, There, Exists
      <4> QED
        BY <1>1, <1>2, <1>3, <3>1, <4>1 DEF HasAdmin, Keeps
    <3> QED
      BY <1>1, <2>2, <3>1 DEF HasAdmin
  <2>3. ASSUME NEW d \in Desk PROVE TurnOK(paper[d], desk[d])'
    <3>1. PICK p, label : p = paper[d] /\ label = desk[d]
      OBVIOUS
    <3>2. TurnOK(p, label)
      BY <2>1, <3>1 DEF TurnInv
    <3>3. \A i : ChildrenOf(i)' \subseteq ChildrenOf(i)
      BY <1>2, <1>3 DEF ChildrenOf
    <3>4. \A u : Exists(u)' => Exists(u) /\ staff'[u] = staff[u]
      BY <1>1 DEF Exists
    <3>5. label \in AtParallex /\ "user" \in DOMAIN p =>
            HasAdmin(p.id, p.user, p.type)'
      BY <2>2, <3>2 DEF TurnOK
    <3>6. TurnOK(p, label)'
      BY <1>1, <3>2, <3>3, <3>4, <3>5 DEF TurnOK, Apart, SameLogin
    <3> QED
      BY <1>1, <3>1, <3>6 DEF TurnOK
  <2>4. SubOrgsBelow'
    BY <1>1, <1>2, <1>3, <2>1 DEF TurnInv, SubOrgsBelow
  <2>5. AdminsKept'
    <3>1. ASSUME NEW c \in complete, c.org \notin assigned
          PROVE  HasAdmin(c.org, c.user, c.type)'
      BY <2>1, <2>2, <3>1 DEF TurnInv, AdminsKept
    <3> QED
      BY <1>1, <3>1 DEF AdminsKept
  <2>6. LoginsApart'
    BY <1>1, <1>3, <2>1 DEF TurnInv, LoginsApart, Apart, SameLogin
  <2> QED
    BY <1>1, <2>1, <2>3, <2>4, <2>5, <2>6 DEF TurnInv
<1> QED
  BY <1>4, <1>5, <1>6, <1>8, <1>9

LEMMA RemoveUserStep ==
  ASSUME OrgInv, NEW v \in DOMAIN staff, RemoveUser(v)
  PROVE  OrgInv'
<1> USE DEF OrgInv, history
<1>1. /\ Exists(v) /\ staff' = [staff EXCEPT ![v] = Gone]
      /\ \A o \in DOMAIN orgs : There(o) => orgs[o].rep # v
      /\ UNCHANGED <<orgs, holders, paper, desk, born, patched, assigned,
                     complete, hired, edited, inTurn>>
  BY DEF RemoveUser
<1>2. /\ DOMAIN staff' = DOMAIN staff /\ staff'[v] = Gone
      /\ \A u \in DOMAIN staff \ {v} : staff'[u] = staff[u]
      /\ staff' \in Seq(StaffRow \cup {Gone})
  BY <1>1 DEF TablesOK
<1>3. /\ \A u : Exists(u)' => Exists(u) /\ u # v /\ staff'[u] = staff[u]
      /\ \A u : Exists(u) /\ u # v => Exists(u)' /\ staff'[u] = staff[u]
      /\ \A o : There(o)' <=> There(o)
  BY <1>1, <1>2 DEF There, Exists
<1>4. TablesOK'
  BY <1>1, <1>2, <1>3 DEF TablesOK
<1>5. KeysOK'
  <2>1. ASSUME NEW i \in DOMAIN orgs, There(i)
        PROVE  Accepted(i, orgs[i])'
    <3>1. Accepted(i, orgs[i]) /\ orgs[i].rep # v
      BY <1>1, <2>1 DEF KeysOK
    <3>2. orgs[i].rep # Nil =>
            orgs[i].rep \in DOMAIN staff' /\ staff'[orgs[i].rep] # Gone
      BY <1>2, <3>1 DEF Accepted, Exists
    <3> QED
      BY <1>1, <3>1, <3>2 DEF Accepted, There, Exists
  <2>2. ASSUME NEW u \in DOMAIN staff, Exists(u)', staff'[u].org # Nil
        PROVE  There(staff[u].org)'
    BY <1>1, <1>2, <1>3, <2>2 DEF KeysOK, There
  <2> QED
    BY <1>1, <1>2, <1>3, <2>1, <2>2 DEF KeysOK
<1>6. HiredOK' /\ OwnReps'
  BY <1>1, <1>2, <1>3 DEF OwnReps, HiredOK, LikeHired
<1>7. Steady
  BY <1>1, <1>2 DEF Steady
<1>8. ASSUME NEW d \in Desk PROVE PaperOK(paper[d], desk[d])'
  <2>1. PICK p, label : p = paper[d] /\ label = desk[d]
    OBVIOUS
  <2>2. PaperOK(p, label)'
    BY <1>7, <2>1, PaperStays
  <2> QED
    BY <1>1, <2>1, <2>2 DEF PaperOK
<1>9. ASSUME inTurn' PROVE TurnInv'
  <2>1. inTurn /\ TurnInv
    BY <1>1, <1>9
  <2>2. ASSUME NEW q, NEW u, NEW type, HasAdmin(q, u, type)
        PROVE  HasAdmin(q, u, type)'
    <3>1. CASE Keeps(q, u, type)
      <4>1. q \in DOMAIN orgs /\ u # v
        BY <1>1, <3>1 DEF Keeps, There
      <4> QED
        BY <1>1, <1>3, <3>1, <4>1 DEF HasAdmin, Keeps
    <3> QED
      BY <1>1, <2>2, <3>1 DEF HasAdmin
  <2>3. ASSUME NEW d \in Desk PROVE TurnOK(paper[d], desk[d])'
    <3>1. PICK p, label : p = paper[d] /\ label = desk[d]
      OBVIOUS
    <3>2. TurnOK(p, label)
      BY <2>1, <3>1 DEF TurnInv
    <3>3. \A i : ChildrenOf(i)' \subseteq ChildrenOf(i)
      BY <1>1, <1>3 DEF ChildrenOf
    <3>4. \A u, l : SameLogin(u, l)' => SameLogin(u, l)
      BY <1>3 DEF SameLogin
    <3>5. label \in AtParallex /\ "user" \in DOMAIN p =>
            HasAdmin(p.id, p.user, p.type)'
      BY <2>2, <3>2 DEF TurnOK
    <3>6. TurnOK(p, label)'
      BY <1>1, <1>2, <1>3, <3>2, <3>3, <3>4, <3>5 DEF TurnOK, Apart
    <3> QED
      BY <1>1, <3>1, <3>6 DEF TurnOK
  <2>4. SubOrgsBelow'
    BY <1>1, <1>3, <2>1 DEF TurnInv, SubOrgsBelow
  <2>5. AdminsKept'
    <3>1. ASSUME NEW c \in complete, c.org \notin assigned
          PROVE  HasAdmin(c.org, c.user, c.type)'
      BY <2>1, <2>2, <3>1 DEF TurnInv, AdminsKept
    <3> QED
      BY <1>1, <3>1 DEF AdminsKept
  <2>6. LoginsApart'
    <3>1. \A u, l : SameLogin(u, l)' => SameLogin(u, l)
      BY <1>3 DEF SameLogin
    <3>2. \A u, l : Apart(u, l) => Apart(u, l)'
      BY <1>1, <1>2, <1>3, <3>1 DEF Apart
    <3> QED
      BY <1>1, <1>2, <1>3, <2>1, <3>2 DEF TurnInv, LoginsApart
  <2> QED
    BY <1>1, <2>1, <2>3, <2>4, <2>5, <2>6 DEF TurnInv
<1> QED
  BY <1>4, <1>5, <1>6, <1>8, <1>9

(* Steps that leave the tables as they are.                                 *)
LEMMA SameTables ==
  ASSUME OrgInv, UNCHANGED <<orgs, staff, holders, history, inTurn>>
  PROVE  /\ KeysOK' /\ HiredOK' /\ OwnReps'
         /\ inTurn' => SubOrgsBelow' /\ AdminsKept' /\ LoginsApart'
<1> USE DEF OrgInv, history
<1>1. KeysOK' /\ HiredOK' /\ OwnReps'
  BY DEF KeysOK, HiredOK, LikeHired, OwnReps, Accepted, There, Exists
<1>2. ASSUME inTurn' PROVE SubOrgsBelow' /\ AdminsKept' /\ LoginsApart'
  <2>1. SubOrgsBelow /\ AdminsKept /\ LoginsApart
    BY <1>2 DEF TurnInv
  <2>2. SubOrgsBelow' /\ AdminsKept'
    BY <2>1 DEF SubOrgsBelow, AdminsKept, HasAdmin, Keeps, There, Exists
  <2>3. LoginsApart'
    BY <2>1 DEF LoginsApart, Apart, SameLogin, Exists
  <2> QED
    BY <2>2, <2>3
<1> QED
  BY <1>1, <1>2

LEMMA OrgCrashStep ==
  ASSUME OrgInv, OrgCrash
  PROVE  OrgInv'
<1>1. /\ UNCHANGED <<orgs, staff, holders, history, inTurn>>
      /\ paper' = [d \in Desk |-> paper'[d]] /\ desk' \in [Desk -> Steps]
      /\ \A d \in Desk : desk'[d] \in {"free", "left"}
  BY DEF OrgCrash, Steps
<1>2. TablesOK'
  BY <1>1 DEF OrgInv, TablesOK, There, history
<1>3. \A d \in Desk : PaperOK(paper[d], desk[d])' /\ TurnOK(paper[d], desk[d])'
  BY <1>1 DEF PaperOK, TurnOK, Creating, AtParallex, Editing
<1>4. \A d \in Desk : desk'[d] \notin Active
  BY <1>1 DEF Active, Creating, Editing
<1> QED
  BY <1>1, <1>2, <1>3, <1>4, SameTables DEF OrgInv, TurnInv

LEMMA OrgStutter ==
  ASSUME OrgInv, UNCHANGED orgVars
  PROVE  OrgInv'
<1>1. /\ UNCHANGED <<orgs, staff, holders, history, inTurn>>
      /\ UNCHANGED <<paper, desk>>
  BY DEF orgVars
<1>2. TablesOK'
  BY <1>1 DEF OrgInv, TablesOK, There, history
<1>3. Steady
  BY <1>1 DEF Steady, history
<1>4. ASSUME NEW d \in Desk PROVE PaperOK(paper[d], desk[d])'
  <2>1. PICK p, label : p = paper[d] /\ label = desk[d]
    OBVIOUS
  <2>2. PaperOK(p, label)'
    BY <1>3, <2>1, PaperStays DEF OrgInv
  <2> QED
    BY <1>1, <2>1, <2>2 DEF PaperOK
<1>5. ASSUME NEW d \in Desk, TurnOK(paper[d], desk[d])
      PROVE  TurnOK(paper[d], desk[d])'
  BY <1>1, <1>5 DEF TurnOK, HasAdmin, Keeps, Apart, SameLogin, ChildrenOf,
     There, Exists, history
<1> QED
  BY <1>1, <1>2, <1>4, <1>5, SameTables DEF OrgInv, TurnInv

LEMMA OrgStep == OrgInv /\ [OrgNext]_orgVars => OrgInv'
<1> SUFFICES ASSUME OrgInv, [OrgNext]_orgVars PROVE OrgInv'
  OBVIOUS
<1>1. CASE UNCHANGED orgVars
  BY <1>1, OrgStutter
<1>2. ASSUME NEW d \in Desk,
             \/ CreateOrganisation(d) \/ CreateSubOrganisation(d)
             \/ InsertOrg(d) \/ FindExisting(d) \/ InsertAdmin(d)
             \/ SaveRepresentative(d) \/ AskParallex(d) \/ SaveOrgAccount(d)
             \/ Update(d) \/ SaveUpdate(d)
             \/ UpdateProfile(d) \/ UpdateUser(d) \/ SaveUser(d)
      PROVE  OrgInv'
  BY <1>2, CreateOrganisationStep, CreateSubOrganisationStep, InsertOrgStep,
     FindExistingStep, InsertAdminStep, SaveRepresentativeStep,
     AskParallexStep, SaveOrgAccountStep, UpdateStep, SaveUpdateStep,
     UpdateProfileStep, UpdateUserStep, SaveUserStep
<1>3. ASSUME NEW o \in DOMAIN orgs, Remove(o) PROVE OrgInv'
  BY <1>3, RemoveStep
<1>4. ASSUME NEW u \in DOMAIN staff, RemoveUser(u) PROVE OrgInv'
  BY <1>4, RemoveUserStep
<1>5. CASE OrgCrash
  BY <1>5, OrgCrashStep
<1>6. CASE AllServed
  BY <1>6, OrgStutter DEF AllServed
<1> QED
  BY <1>1, <1>2, <1>3, <1>4, <1>5, <1>6 DEF OrgNext

LEMMA OrgInvariant == OrgSpec => []OrgInv
BY OrgInitially, OrgStep, PTL DEF OrgSpec

-----------------------------------------------------------------------------
(* Every foreign key has its row, however requests overlap.                 *)
THEOREM KeysHaveRows == OrgSpec => []OrgTypeOK
<1>1. OrgInv => OrgTypeOK
  <2>1. \A r \in StaffRow : r.role \in Roles
    BY DEF StaffRow
  <2> QED
    BY <2>1, TableFacts DEF OrgInv, TablesOK, KeysOK, OrgTypeOK
<1> QED
  BY OrgInvariant, <1>1, PTL

(* Whoever represents an organisation is one of its own administrators,     *)
(* unless a request has named a representative, or it has moved itself.     *)
THEOREM OwnRepresentatives == OrgSpec => []RepresentativesAreTheirOwn
<1>1. OrgInv => RepresentativesAreTheirOwn
  BY DEF OrgInv, OwnReps, KeysOK, Accepted, HiredOK, LikeHired, Exists,
     RepresentativesAreTheirOwn
<1> QED
  BY OrgInvariant, <1>1, PTL

(* Creations in turn never give two administrators one email or phone.      *)
THEOREM LoginsStayDistinct == OrgSpec => []LoginsDistinctInTurn
<1>1. OrgInv => LoginsDistinctInTurn
  BY DEF OrgInv, TurnInv, LoginsApart, Apart, LoginsDistinctInTurn, SameLogin
<1> QED
  BY OrgInvariant, <1>1, PTL

(* An organisation whose creation succeeded keeps its administrator, until  *)
(* the administrator itself moves to another one.                           *)
THEOREM AdminsStay == OrgSpec => []CompleteHaveAdmin
<1>1. OrgInv => CompleteHaveAdmin
  BY DEF OrgInv, TurnInv, AdminsKept, HasAdmin, Keeps, CompleteHaveAdmin
<1> QED
  BY OrgInvariant, <1>1, PTL

LEMMA Joined ==
  ASSUME NEW a, NEW b, NEW c
  PROVE  <<a, b>> \o <<c>> = <<a, b, c>>
<1>1. PICK S, s, t : S = {a, b, c} /\ s = <<a, b>> /\ t = <<c>>
  OBVIOUS
<1>2. /\ s \in Seq(S) /\ t \in Seq(S) /\ Len(s) = 2 /\ Len(t) = 1
      /\ s[1] = a /\ s[2] = b /\ t[1] = c
  BY <1>1
<1>3. PICK u : u = s \o t
  OBVIOUS
<1>4. /\ u \in Seq(S) /\ Len(u) = Len(s) + Len(t)
      /\ \A i \in 1..(Len(s) + Len(t)) :
           u[i] = IF i <= Len(s) THEN s[i] ELSE t[i - Len(s)]
  BY <1>2, <1>3, ConcatProperties
<1>5. Len(u) = 3 /\ u[1] = a /\ u[2] = b /\ u[3] = c
  BY <1>2, <1>4
<1>6. PICK v : v = <<a, b, c>>
  OBVIOUS
<1>7. v \in Seq(S) /\ Len(v) = 3 /\ v[1] = a /\ v[2] = b /\ v[3] = c
  BY <1>1, <1>6
<1>8. \A i \in 1..Len(u) : u[i] = v[i]
  BY <1>5, <1>7
<1>9. u = v
  BY <1>4, <1>5, <1>7, <1>8, SeqEqual
<1> QED
  BY <1>1, <1>3, <1>6, <1>9

(* A sub-organisation of a partner stays below it, and so do its loans.     *)
THEOREM SubOrgsStay == OrgSpec => []SubOrgsStayUnderPartner
<1>1. ASSUME OrgInv PROVE SubOrgsStayUnderPartner
  <2> SUFFICES ASSUME inTurn, NEW o \in DOMAIN orgs, There(o),
                      born[o] = "partner", o \notin patched
               PROVE  /\ \E p \in DOMAIN orgs :
                           There(p) /\ o \in PublicSubOrgs(p)
                      /\ ApprovalChain(o) =
                           <<"sub_org_admin", "partner_admin", "super_admin">>
    BY DEF SubOrgsStayUnderPartner
  <2>1. orgs[o].type = "sub_org" /\ orgs[o].parent # Nil
    BY <1>1 DEF OrgInv, TurnInv, SubOrgsBelow, Below
  <2>2. There(orgs[o].parent)
    BY <1>1, <2>1 DEF OrgInv, KeysOK, Accepted
  <2>3. orgs[o].parent \in DOMAIN orgs /\ o \in PublicSubOrgs(orgs[o].parent)
    BY <2>1, <2>2 DEF There, PublicSubOrgs, ChildrenOf
  <2>4. ApprovalChain(o) =
          <<"sub_org_admin", "partner_admin">> \o <<"super_admin">>
    BY <2>1 DEF ApprovalChain
  <2>5. <<"sub_org_admin", "partner_admin">> \o <<"super_admin">>
          = <<"sub_org_admin", "partner_admin", "super_admin">>
    BY Joined
  <2> QED
    BY <2>2, <2>3, <2>4, <2>5
<1> QED
  BY OrgInvariant, <1>1, PTL

-----------------------------------------------------------------------------
(* Groups: the invariant.                                                   *)

Value  == Nat \cup Upload \cup {Unwritten}
Places == {"idle", "read", "compare", "update", "book", "next", "end"}
AtItem == {"compare", "update", "book", "next"}
HasRead == {"compare", "update"}
SavingsOf(m) == <<"savings", m>>

(* Every variable has its type.                                             *)
GroupTypeOK ==
  /\ savings \in [Saver -> Nat] /\ booked \in [Saver -> Nat]
  /\ phone = [m \in Saver |-> phone[m]]
  /\ todo \in [Upload -> Seq(SyncRow)]
  /\ place \in [Upload -> Places]
  /\ readRow = [u \in Upload |-> readRow[u]]
  /\ draft = [u \in Upload |-> draft[u]]
  /\ \A u \in Upload : draft[u] = [row \in SyncRow |-> draft[u][row]]
  /\ \A u \in Upload, m \in Saver :
       draft[u][SavingsOf(m)] \in Nat \cup {Unwritten}
  /\ entries \in [Upload -> [Saver -> Nat]]
  /\ lapped \in BOOLEAN

(* An upload at an item has one, and one that does not run has written      *)
(* nothing.                                                                 *)
ItemOK(u) ==
  /\ place[u] \in AtItem => todo[u] # <<>>
  /\ place[u] = "book" => \E m \in Saver : Current(u) = SavingsOf(m)
  /\ ~ Running(u) => draft[u] = Clean /\ entries[u] = NoEntry
  /\ place[u] \in HasRead =>
       \A m \in Saver : Current(u) = SavingsOf(m) => readRow[u] \in Nat

(* What upload u knows to be booked, and the contribution it has saved and  *)
(* not yet booked.                                                          *)
Known(u, m) == booked[m] + entries[u][m]
Ahead(u, m) == IF place[u] = "book" /\ Current(u) = SavingsOf(m) THEN 1 ELSE 0

(* SavingsWithinBooks is not inductive alone: nor may an upload have read   *)
(* or written more than it knows to be booked.                              *)
Within(u, m) ==
  /\ draft[u][SavingsOf(m)] # Unwritten =>
       draft[u][SavingsOf(m)] <= Known(u, m) + Ahead(u, m)
  /\ place[u] \in HasRead /\ Current(u) = SavingsOf(m) =>
       readRow[u] <= Known(u, m)

(* Nor is SyncsInTurnAgree: the one upload that runs sees, and has read,    *)
(* just what it knows to be booked.                                         *)
Exact(u, m) ==
  /\ Running(u) => Visible(u, SavingsOf(m)) = Known(u, m) + Ahead(u, m)
  /\ place[u] \in HasRead /\ Current(u) = SavingsOf(m) =>
       readRow[u] = Known(u, m)
UploadsInv ==
  /\ \A u, v \in Upload : Running(u) /\ Running(v) => u = v
  /\ savings = booked
  /\ \A u \in Upload, m \in Saver : Exact(u, m)

GroupInv == /\ GroupTypeOK /\ SavingsWithinBooks
            /\ \A u \in Upload : ItemOK(u)
            /\ \A u \in Upload, m \in Saver : Within(u, m)
            /\ (~ lapped => UploadsInv)

(* A row of a member's savings is one row, and not one of a number.         *)
LEMMA SavingsRows ==
  /\ \A m \in Saver : SavingsOf(m) \in SyncRow /\ SavingsOf(m)[1] = "savings"
  /\ \A m, n \in Saver : SavingsOf(m) = SavingsOf(n) => m = n
  /\ \A row \in SyncRow : row[1] = "savings" =>
       row[2] \in Saver /\ row = SavingsOf(row[2])
BY DEF SavingsOf, SyncRow

(* What is visible of a member's savings.                                   *)
LEMMA VisibleSavings ==
  ASSUME NEW u, NEW m \in Saver
  PROVE  Visible(u, SavingsOf(m)) =
           IF draft[u][SavingsOf(m)] = Unwritten THEN savings[m]
           ELSE draft[u][SavingsOf(m)]
BY DEF Visible, Committed, SavingsOf

(* The item an upload is at is a row.                                       *)
LEMMA CurrentRow ==
  ASSUME GroupInv, NEW u \in Upload, place[u] \in AtItem
  PROVE  Current(u) \in SyncRow
<1>1. todo[u] \in Seq(SyncRow) /\ todo[u] # <<>>
  BY DEF GroupInv, GroupTypeOK, ItemOK
<1> QED
  BY <1>1, HeadTailProperties DEF Current

-----------------------------------------------------------------------------
(* The initial states.                                                      *)
LEMMA GroupInitially == GroupInit => GroupInv
<1> SUFFICES ASSUME GroupInit PROVE GroupInv
  OBVIOUS
<1> USE SavingsRows DEF GroupInit, NoEntry
<1>1. <<>> \in Seq(SyncRow)
  BY EmptySeq
<1>2. GroupTypeOK
  BY <1>1 DEF GroupTypeOK, Clean, Places
<1>3. ASSUME NEW u \in Upload, NEW m \in Saver
      PROVE  ItemOK(u) /\ Within(u, m) /\ Exact(u, m)
  BY <1>3 DEF ItemOK, Within, Exact, AtItem, HasRead, Running, Clean
<1>4. \A u \in Upload : ItemOK(u)
  BY DEF ItemOK, AtItem, HasRead, Running
<1>5. SavingsWithinBooks /\ UploadsInv
  BY <1>3 DEF SavingsWithinBooks, UploadsInv, Running
<1> QED
  BY <1>2, <1>3, <1>4, <1>5 DEF GroupInv

-----------------------------------------------------------------------------
(* A step of one upload that ends no transaction with success: it is enough *)
(* to look at that upload.                                                  *)
LEMMA OneUpload ==
  ASSUME GroupInv, NEW u \in Upload, UNCHANGED committed, GroupTypeOK',
         \A v \in Upload \ {u} :
           /\ todo'[v] = todo[v] /\ place'[v] = place[v]
           /\ readRow'[v] = readRow[v]
           /\ draft'[v] = draft[v] /\ entries'[v] = entries[v],
         ~ lapped' => /\ ~ lapped
                      /\ \A v \in Upload \ {u} : ~ Running(v),
         ItemOK(u)', \A m \in Saver : Within(u, m)',
         ~ lapped' => \A m \in Saver : Exact(u, m)'
  PROVE  GroupInv'
<1> USE DEF GroupInv, committed
<1>1. ASSUME NEW v \in Upload \ {u}
      PROVE  /\ ItemOK(v)' <=> ItemOK(v)
             /\ \A m \in Saver : Within(v, m)' <=> Within(v, m)
             /\ \A m \in Saver : Exact(v, m)' <=> Exact(v, m)
             /\ Running(v)' <=> Running(v)
  BY <1>1 DEF ItemOK, Within, Exact, Current, Running, Known, Ahead, Visible,
              Committed
<1>2. SavingsWithinBooks'
  BY DEF SavingsWithinBooks
<1>3. ASSUME ~ lapped' PROVE UploadsInv'
  <2>1. \A v, w \in Upload : Running(v)' /\ Running(w)' => v = w
    BY <1>1, <1>3
  <2>2. savings' = booked'
    BY <1>3 DEF UploadsInv
  <2>3. \A v \in Upload, m \in Saver : Exact(v, m)'
    BY <1>1, <1>3 DEF UploadsInv
  <2> QED
    BY <2>1, <2>2, <2>3 DEF UploadsInv
<1> QED
  BY <1>1, <1>2, <1>3

(* A running upload is the only one, as long as uploads come in turn.       *)
LEMMA RunsAlone ==
  ASSUME GroupInv, NEW u \in Upload, Running(u), ~ lapped
  PROVE  \A v \in Upload \ {u} : ~ Running(v)
BY DEF GroupInv, UploadsInv

(* The list of an upload: contributions, then at most one number.           *)
LEMMA ListOfRows ==
  ASSUME NEW n \in Nat, NEW payers \in [1..n -> Saver],
         NEW callers \in {<<>>} \cup {<<<<"phone", m>>>> : m \in Saver}
  PROVE  [i \in 1..n |-> <<"savings", payers[i]>>] \o callers \in Seq(SyncRow)
<1>1. [i \in 1..n |-> <<"savings", payers[i]>>] \in Seq(SyncRow)
  BY IsASeq DEF SyncRow
<1>2. callers \in Seq(SyncRow)
  <2>1. CASE callers = <<>>
    BY <2>1, EmptySeq
  <2>2. CASE callers # <<>>
    <3>1. PICK m \in Saver : callers = <<<<"phone", m>>>>
      BY <2>2
    <3>2. <<"phone", m>> \in SyncRow
      BY DEF SyncRow
    <3> QED
      BY <3>1, <3>2
  <2> QED
    BY <2>1, <2>2
<1> QED
  BY <1>1, <1>2, ConcatProperties

LEMMA BeginStep ==
  ASSUME GroupInv, NEW u \in Upload, Begin(u)
  PROVE  GroupInv'
<1> USE DEF Put
<1>0. PICK n \in 0..MaxItems : \E payers \in [1..n -> Saver] :
        \E callers \in {<<>>} \cup {<<<<"phone", m>>>> : m \in Saver} :
          todo' = [todo EXCEPT ![u] =
                     [i \in 1..n |-> <<"savings", payers[i]>>] \o callers]
  BY Zenon DEF Begin
<1>1. PICK payers \in [1..n -> Saver] :
        \E callers \in {<<>>} \cup {<<<<"phone", m>>>> : m \in Saver} :
          todo' = [todo EXCEPT ![u] =
                     [i \in 1..n |-> <<"savings", payers[i]>>] \o callers]
  BY <1>0, Zenon
<1>a. PICK callers \in {<<>>} \cup {<<<<"phone", m>>>> : m \in Saver} :
        todo' = [todo EXCEPT ![u] =
                   [i \in 1..n |-> <<"savings", payers[i]>>] \o callers]
  BY <1>1, Zenon
<1>2. [i \in 1..n |-> <<"savings", payers[i]>>] \o callers \in Seq(SyncRow)
  BY ListOfRows
<1> DEFINE list == [i \in 1..n |-> <<"savings", payers[i]>>] \o callers
<1> HIDE DEF list
<1>3. todo' = [todo EXCEPT ![u] = list] /\ list \in Seq(SyncRow)
  BY <1>a, <1>2 DEF list
<1>4. GroupTypeOK'
  <2>1. todo' \in [Upload -> Seq(SyncRow)]
    BY <1>3 DEF GroupInv, GroupTypeOK
  <2>2. place' \in [Upload -> Places] /\ lapped' \in BOOLEAN
    BY DEF GroupInv, GroupTypeOK, Begin, Places
  <2> QED
    BY <2>1, <2>2 DEF GroupInv, GroupTypeOK, Begin, committed
<1>5. place'[u] = "read" /\ ~ Running(u)
  BY DEF GroupInv, GroupTypeOK, Begin, Running
<1>6. draft[u] = Clean /\ entries[u] = NoEntry
  BY <1>5 DEF GroupInv, ItemOK
<1>7. /\ \A v \in Upload \ {u} : todo'[v] = todo[v] /\ place'[v] = place[v]
      /\ UNCHANGED <<committed, readRow, draft, entries>>
  BY <1>3 DEF GroupInv, GroupTypeOK, Begin
<1>8. ~ lapped' => ~ lapped /\ \A v \in Upload : ~ Running(v)
  BY DEF Begin
<1>9. ItemOK(u)'
  BY <1>5 DEF ItemOK, AtItem, HasRead, Running
<1>10. ASSUME NEW m \in Saver
       PROVE  /\ Within(u, m)'
              /\ ~ lapped' => Exact(u, m)'
  <2>1. draft'[u][SavingsOf(m)] = Unwritten /\ entries'[u][m] = 0
    BY <1>6, <1>7, SavingsRows DEF Clean, NoEntry
  <2>2. booked[m] \in Nat
    BY DEF GroupInv, GroupTypeOK
  <2>3. ~ lapped' => savings'[m] = booked'[m]
    BY <1>7, <1>8 DEF GroupInv, UploadsInv, committed
  <2>4. Visible(u, SavingsOf(m))' = savings'[m]
    BY <2>1 DEF Visible, Committed, SavingsOf
  <2> QED
    BY <1>5, <1>7, <2>1, <2>2, <2>3, <2>4
    DEF Within, Exact, HasRead, Known, Ahead, committed
<1> QED
  BY <1>4, <1>7, <1>8, <1>9, <1>10, OneUpload

LEMMA ReadRowStep ==
  ASSUME GroupInv, NEW u \in Upload, ReadRow(u)
  PROVE  GroupInv'
<1> USE DEF Put
<1>1. /\ place[u] = "read" /\ place'[u] = "compare" /\ Running(u)
      /\ todo[u] # <<>> /\ readRow'[u] = Visible(u, Current(u))
  BY DEF GroupInv, GroupTypeOK, ReadRow, Running
<1>2. GroupTypeOK'
  BY DEF GroupInv, GroupTypeOK, ReadRow, committed, Places
<1>3. /\ \A v \in Upload \ {u} :
           place'[v] = place[v] /\ readRow'[v] = readRow[v]
      /\ UNCHANGED <<committed, todo, draft, entries, lapped>>
  BY DEF GroupInv, GroupTypeOK, ReadRow
<1>4. ASSUME NEW m \in Saver
      PROVE  /\ Current(u) = SavingsOf(m) =>
                  readRow'[u] \in Nat /\ readRow'[u] <= Known(u, m)
             /\ Within(u, m)'
             /\ ~ lapped => Exact(u, m)'
  <2>1. Within(u, m) /\ (~ lapped => Exact(u, m)) /\ Ahead(u, m) = 0
    BY <1>1 DEF GroupInv, UploadsInv, Ahead
  <2>2. /\ Visible(u, SavingsOf(m)) =
             IF draft[u][SavingsOf(m)] = Unwritten THEN savings[m]
             ELSE draft[u][SavingsOf(m)]
        /\ Visible(u, SavingsOf(m))' = Visible(u, SavingsOf(m))
    BY <1>3, VisibleSavings DEF Visible, Committed, committed
  <2>3. /\ draft[u][SavingsOf(m)] \in Nat \cup {Unwritten}
        /\ savings[m] \in Nat /\ savings[m] <= booked[m]
        /\ booked[m] \in Nat /\ entries[u][m] \in Nat
    BY DEF GroupInv, GroupTypeOK, SavingsWithinBooks
  <2>4. /\ Visible(u, SavingsOf(m)) \in Nat
        /\ Visible(u, SavingsOf(m)) <= Known(u, m)
    BY <2>1, <2>2, <2>3 DEF Within, Known
  <2>5. /\ Known(u, m)' = Known(u, m) /\ Ahead(u, m)' = 0
        /\ Current(u)' = Current(u)
    BY <1>1, <1>3 DEF Known, Ahead, Current, committed
  <2>6. Current(u) = SavingsOf(m) => readRow'[u] = Visible(u, SavingsOf(m))
    BY <1>1
  <2>7. Within(u, m)'
    BY <1>1, <1>3, <2>1, <2>4, <2>5, <2>6 DEF Within
  <2>8. ~ lapped => Exact(u, m)'
    BY <1>1, <1>3, <2>1, <2>2, <2>3, <2>5, <2>6 DEF Exact, Known
  <2> QED
    BY <2>4, <2>6, <2>7, <2>8
<1>5. ItemOK(u)'
  BY <1>1, <1>3, <1>4 DEF ItemOK, AtItem, HasRead, Running, Current
<1> QED
  BY <1>1, <1>2, <1>3, <1>4, <1>5, OneUpload, RunsAlone

LEMMA CompareRowStep ==
  ASSUME GroupInv, NEW u \in Upload, CompareRow(u)
  PROVE  GroupInv'
<1> USE DEF Put
<1>1. /\ place[u] = "compare" /\ Running(u) /\ todo[u] # <<>>
      /\ Current(u) \in SyncRow
  BY CurrentRow DEF GroupInv, ItemOK, CompareRow, AtItem, Running
<1>2. place'[u] = IF NewValue(u) = Visible(u, Current(u)) THEN AfterSave(u)
                  ELSE "update"
  BY DEF GroupInv, GroupTypeOK, CompareRow
<1>3. /\ place'[u] \in {"book", "next", "update"}
      /\ place'[u] = "book" => \E m \in Saver : Current(u) = SavingsOf(m)
  BY <1>1, <1>2, SavingsRows DEF AfterSave
<1>4. GroupTypeOK'
  BY <1>3 DEF GroupInv, GroupTypeOK, CompareRow, committed, Places
<1>5. /\ \A v \in Upload \ {u} : place'[v] = place[v]
      /\ UNCHANGED <<committed, todo, readRow, draft, entries, lapped>>
  BY DEF GroupInv, GroupTypeOK, CompareRow
<1>6. ItemOK(u)'
  BY <1>1, <1>3, <1>5 DEF GroupInv, ItemOK, AtItem, HasRead, Running, Current
<1>7. ASSUME NEW m \in Saver
      PROVE  /\ Within(u, m)'
             /\ ~ lapped => Exact(u, m)'
  <2>1. /\ Within(u, m) /\ (~ lapped => Exact(u, m)) /\ Ahead(u, m) = 0
        /\ Current(u) = SavingsOf(m) => readRow[u] \in Nat
    BY <1>1 DEF GroupInv, UploadsInv, Ahead, ItemOK, HasRead
  <2>2. /\ booked[m] \in Nat /\ entries[u][m] \in Nat
        /\ draft[u][SavingsOf(m)] \in Nat \cup {Unwritten}
    BY DEF GroupInv, GroupTypeOK
  <2>3. /\ Known(u, m)' = Known(u, m) /\ Ahead(u, m)' \in {0, 1}
        /\ Current(u)' = Current(u)
        /\ Visible(u, SavingsOf(m))' = Visible(u, SavingsOf(m))
    BY <1>5 DEF Known, Ahead, Current, Visible, Committed, committed
  <2>4. Within(u, m)'
    BY <1>1, <1>3, <1>5, <2>1, <2>2, <2>3 DEF Within, HasRead, Known
  <2>5. ASSUME ~ lapped PROVE Exact(u, m)'
    <3>1. CASE place'[u] = "book" /\ Current(u) = SavingsOf(m)
      <4>1. NewValue(u) = Visible(u, SavingsOf(m))
        BY <1>2, <3>1
      <4>2. NewValue(u) = readRow[u] + 1
        BY <3>1 DEF NewValue, SavingsOf
      <4> QED
        BY <1>1, <2>1, <2>2, <2>5, <3>1, <4>1, <4>2 DEF Exact, HasRead, Known
    <3>2. CASE ~ (place'[u] = "book" /\ Current(u) = SavingsOf(m))
      <4>1. Ahead(u, m)' = 0
        BY <2>3, <3>2 DEF Ahead
      <4> QED
        BY <1>1, <1>3, <1>5, <2>1, <2>3, <2>5, <4>1 DEF Exact, HasRead
    <3> QED
      BY <3>1, <3>2
  <2> QED
    BY <2>4, <2>5
<1> QED
  BY <1>1, <1>4, <1>5, <1>6, <1>7, OneUpload, RunsAlone

LEMMA UpdateRowStep ==
  ASSUME GroupInv, NEW u \in Upload, UpdateRow(u)
  PROVE  GroupInv'
<1> USE DEF Put
<1>1. /\ place[u] = "update" /\ Running(u) /\ todo[u] # <<>>
      /\ Current(u) \in SyncRow
  BY CurrentRow DEF GroupInv, ItemOK, UpdateRow, AtItem, Running
<1>2. /\ place'[u] = AfterSave(u) /\ place'[u] \in {"book", "next"}
      /\ place'[u] = "book" => \E m \in Saver : Current(u) = SavingsOf(m)
  BY <1>1, SavingsRows DEF GroupInv, GroupTypeOK, UpdateRow, AfterSave
<1>3. /\ draft'[u] = [row \in SyncRow |-> IF row = Current(u) THEN NewValue(u)
                                          ELSE draft[u][row]]
      /\ draft' = [v \in Upload |-> draft'[v]]
      /\ \A v \in Upload \ {u} : draft'[v] = draft[v]
  BY <1>1 DEF GroupInv, GroupTypeOK, UpdateRow
<1>4. \A m \in Saver : Current(u) = SavingsOf(m) =>
        NewValue(u) = readRow[u] + 1 /\ readRow[u] \in Nat
  BY <1>1 DEF GroupInv, ItemOK, HasRead, NewValue, SavingsOf
<1>5. GroupTypeOK'
  <2>1. \A v \in Upload : draft'[v] = [row \in SyncRow |-> draft'[v][row]]
    BY <1>3 DEF GroupInv, GroupTypeOK
  <2>2. ASSUME NEW v \in Upload, NEW m \in Saver
        PROVE  draft'[v][SavingsOf(m)] \in Nat \cup {Unwritten}
    <3>1. /\ draft[v][SavingsOf(m)] \in Nat \cup {Unwritten}
          /\ SavingsOf(m) \in SyncRow
      BY SavingsRows DEF GroupInv, GroupTypeOK
    <3>2. Current(u) = SavingsOf(m) => NewValue(u) \in Nat
      BY <1>4
    <3> QED
      BY <1>3, <3>1, <3>2
  <2>3. place' \in [Upload -> Places]
    BY <1>2 DEF GroupInv, GroupTypeOK, UpdateRow, Places
  <2> QED
    BY <1>3, <2>1, <2>2, <2>3 DEF GroupInv, GroupTypeOK, UpdateRow, committed
<1>6. /\ \A v \in Upload \ {u} : place'[v] = place[v]
      /\ UNCHANGED <<committed, todo, readRow, entries, lapped>>
  BY DEF GroupInv, GroupTypeOK, UpdateRow
<1>7. ItemOK(u)'
  BY <1>1, <1>2, <1>6 DEF GroupInv, ItemOK, AtItem, HasRead, Running, Current
<1>8. ASSUME NEW m \in Saver
      PROVE  /\ Within(u, m)'
             /\ ~ lapped => Exact(u, m)'
  <2>1. Within(u, m) /\ (~ lapped => Exact(u, m)) /\ Ahead(u, m) = 0
    BY <1>1 DEF GroupInv, UploadsInv, Ahead
  <2>2. /\ booked[m] \in Nat /\ entries[u][m] \in Nat
        /\ draft[u][SavingsOf(m)] \in Nat \cup {Unwritten}
    BY DEF GroupInv, GroupTypeOK
  <2> Known(u, m) \in Nat
    BY <2>2 DEF Known
  <2>3. Known(u, m)' = Known(u, m) /\ Current(u)' = Current(u)
    BY <1>6 DEF Known, Current, committed
  <2>4. CASE Current(u) = SavingsOf(m)
    <3>1. draft'[u][SavingsOf(m)] = readRow[u] + 1 /\ readRow[u] \in Nat
      BY <1>3, <1>4, <2>4, SavingsRows
    <3>2. place'[u] = "book" /\ Ahead(u, m)' = 1
      BY <1>2, <2>3, <2>4, SavingsRows DEF AfterSave, Ahead
    <3>3. readRow[u] + 1 # Unwritten
      BY <3>1, GroupSyncAssumption
    <3>4. Visible(u, SavingsOf(m))' = readRow[u] + 1
      BY <3>1, <3>3 DEF Visible
    <3> QED
      BY <1>1, <2>1, <2>2, <2>3, <2>4, <3>1, <3>2, <3>4
      DEF Within, Exact, HasRead
  <2>5. CASE Current(u) # SavingsOf(m)
    <3>1. draft'[u][SavingsOf(m)] = draft[u][SavingsOf(m)]
      BY <1>3, <2>5, SavingsRows
    <3>2. Ahead(u, m)' = 0
      BY <2>3, <2>5 DEF Ahead
    <3>3. Visible(u, SavingsOf(m))' = Visible(u, SavingsOf(m))
      BY <1>6, <3>1 DEF Visible, Committed, committed
    <3> QED
      BY <1>1, <2>1, <2>2, <2>3, <2>5, <3>1, <3>2, <3>3 DEF Within, Exact
  <2> QED
    BY <2>4, <2>5
<1> QED
  BY <1>1, <1>3, <1>5, <1>6, <1>7, <1>8, OneUpload, RunsAlone

LEMMA BookEntryStep ==
  ASSUME GroupInv, NEW u \in Upload, BookEntry(u)
  PROVE  GroupInv'
<1> USE DEF Put
<1>1. /\ place[u] = "book" /\ place'[u] = "next" /\ Running(u)
      /\ todo[u] # <<>>
  BY DEF GroupInv, GroupTypeOK, ItemOK, BookEntry, AtItem, Running
<1>2. PICK n \in Saver : Current(u) = SavingsOf(n)
  BY <1>1 DEF GroupInv, ItemOK
<1>3. /\ entries'[u] = [m \in Saver |-> IF m = n THEN entries[u][m] + 1
                                        ELSE entries[u][m]]
      /\ entries' \in [Upload -> [Saver -> Nat]]
      /\ \A v \in Upload \ {u} : entries'[v] = entries[v]
  <2>1. Current(u)[2] = n
    BY <1>2 DEF SavingsOf
  <2>2. entries' = [entries EXCEPT ![u][n] = entries[u][n] + 1]
    BY <2>1 DEF BookEntry
  <2>3. entries \in [Upload -> [Saver -> Nat]]
    BY DEF GroupInv, GroupTypeOK
  <2>4. entries[u] \in [Saver -> Nat]
    BY <2>3
  <2>5. /\ entries' = [v \in Upload |-> entries'[v]]
        /\ entries'[u] = [entries[u] EXCEPT ![n] = entries[u][n] + 1]
        /\ \A v \in Upload \ {u} : entries'[v] = entries[v]
    BY <2>2, <2>3
  <2>6. entries'[u] \in [Saver -> Nat]
    BY <2>4, <2>5
  <2>7. entries' \in [Upload -> [Saver -> Nat]]
    BY <2>3, <2>5, <2>6
  <2>8. entries'[u] = [m \in Saver |-> IF m = n THEN entries[u][m] + 1
                                       ELSE entries[u][m]]
    BY <2>4, <2>5
  <2> QED
    BY <2>5, <2>7, <2>8
<1>4. GroupTypeOK'
  BY <1>3 DEF GroupInv, GroupTypeOK, BookEntry, committed, Places
<1>5. /\ \A v \in Upload \ {u} : place'[v] = place[v]
      /\ UNCHANGED <<committed, todo, readRow, draft, lapped>>
  BY DEF GroupInv, GroupTypeOK, BookEntry
<1>6. ItemOK(u)'
  BY <1>1, <1>5 DEF ItemOK, AtItem, HasRead, Running
<1>7. ASSUME NEW m \in Saver
      PROVE  /\ Within(u, m)'
             /\ ~ lapped => Exact(u, m)'
  <2>1. Within(u, m) /\ (~ lapped => Exact(u, m))
    BY DEF GroupInv, UploadsInv
  <2>2. booked[m] \in Nat /\ entries[u][m] \in Nat
    BY DEF GroupInv, GroupTypeOK
  <2>3. Known(u, m)' + Ahead(u, m)' = Known(u, m) + Ahead(u, m)
    BY <1>1, <1>2, <1>3, <1>5, <2>2, SavingsRows DEF Known, Ahead, committed
  <2>4. Visible(u, SavingsOf(m))' = Visible(u, SavingsOf(m))
    BY <1>5 DEF Visible, Committed, committed
  <2> QED
    BY <1>1, <1>5, <2>1, <2>3, <2>4 DEF Within, Exact, HasRead
<1> QED
  BY <1>1, <1>3, <1>4, <1>5, <1>6, <1>7, OneUpload, RunsAlone

LEMMA NextItemStep ==
  ASSUME GroupInv, NEW u \in Upload, NextItem(u)
  PROVE  GroupInv'
<1> USE DEF Put
<1>1. /\ place[u] = "next" /\ place'[u] = "read" /\ Running(u)
      /\ todo[u] # <<>> /\ todo[u] \in Seq(SyncRow)
  BY DEF GroupInv, GroupTypeOK, ItemOK, NextItem, AtItem, Running
<1>2. Tail(todo[u]) \in Seq(SyncRow)
  BY <1>1, HeadTailProperties
<1>3. GroupTypeOK'
  <2>1. todo' \in [Upload -> Seq(SyncRow)]
    BY <1>2 DEF GroupInv, GroupTypeOK, NextItem
  <2> QED
    BY <2>1 DEF GroupInv, GroupTypeOK, NextItem, committed, Places
<1>4. /\ \A v \in Upload \ {u} : place'[v] = place[v] /\ todo'[v] = todo[v]
      /\ UNCHANGED <<committed, readRow, draft, entries, lapped>>
  BY DEF GroupInv, GroupTypeOK, NextItem
<1>5. ItemOK(u)'
  BY <1>1 DEF ItemOK, AtItem, HasRead, Running
<1>6. ASSUME NEW m \in Saver
      PROVE  /\ Within(u, m)'
             /\ ~ lapped => Exact(u, m)'
  <2>1. Within(u, m) /\ (~ lapped => Exact(u, m))
    BY DEF GroupInv, UploadsInv
  <2>2. Known(u, m)' = Known(u, m) /\ Ahead(u, m)' = 0 /\ Ahead(u, m) = 0
    BY <1>1, <1>4 DEF Known, Ahead, committed
  <2>3. Visible(u, SavingsOf(m))' = Visible(u, SavingsOf(m))
    BY <1>4 DEF Visible, Committed, committed
  <2> QED
    BY <1>1, <1>4, <2>1, <2>2, <2>3 DEF Within, Exact, HasRead
<1> QED
  BY <1>1, <1>3, <1>4, <1>5, <1>6, OneUpload, RunsAlone

(* What the end of a transaction leaves of it.                              *)
LEMMA Forgotten ==
  ASSUME GroupInv, NEW u \in Upload, Running(u), Forget(u),
         savings' \in [Saver -> Nat], booked' \in [Saver -> Nat],
         phone' = [m \in Saver |-> phone'[m]]
  PROVE  /\ GroupTypeOK'
         /\ ItemOK(u)' /\ ~ Running(u)' /\ UNCHANGED lapped
         /\ \A m \in Saver : Within(u, m)' /\ Exact(u, m)'
         /\ \A v \in Upload \ {u} :
              /\ todo'[v] = todo[v] /\ place'[v] = place[v]
              /\ readRow'[v] = readRow[v]
              /\ draft'[v] = draft[v] /\ entries'[v] = entries[v]
<1> USE DEF Put
<1>1. /\ draft'[u] = Clean /\ entries'[u] = NoEntry /\ place'[u] = "end"
      /\ \A v \in Upload \ {u} :
           /\ todo'[v] = todo[v] /\ place'[v] = place[v]
           /\ readRow'[v] = readRow[v]
           /\ draft'[v] = draft[v] /\ entries'[v] = entries[v]
  BY DEF GroupInv, GroupTypeOK, Forget
<1>2. \A m \in Saver : draft'[u][SavingsOf(m)] = Unwritten
  BY <1>1, SavingsRows DEF Clean
<1>3. GroupTypeOK'
  <2>1. todo' \in [Upload -> Seq(SyncRow)]
    BY EmptySeq DEF GroupInv, GroupTypeOK, Forget
  <2>2. place' \in [Upload -> Places] /\ entries' \in [Upload -> [Saver -> Nat]]
    BY DEF GroupInv, GroupTypeOK, Forget, Places, NoEntry
  <2>3. /\ readRow' = [v \in Upload |-> readRow'[v]]
        /\ draft' = [v \in Upload |-> draft'[v]] /\ lapped' \in BOOLEAN
    BY DEF GroupInv, GroupTypeOK, Forget
  <2>4. \A v \in Upload : draft'[v] = [row \in SyncRow |-> draft'[v][row]]
    BY <1>1 DEF GroupInv, GroupTypeOK, Clean
  <2>5. \A v \in Upload, m \in Saver :
          draft'[v][SavingsOf(m)] \in Nat \cup {Unwritten}
    BY <1>1, <1>2 DEF GroupInv, GroupTypeOK
  <2> QED
    BY <2>1, <2>2, <2>3, <2>4, <2>5 DEF GroupTypeOK
<1>4. ItemOK(u)' /\ ~ Running(u)' /\ UNCHANGED lapped
  BY <1>1 DEF ItemOK, AtItem, HasRead, Running, Forget
<1>5. \A m \in Saver : Within(u, m)' /\ Exact(u, m)'
  BY <1>1, <1>2 DEF Within, Exact, HasRead, Running
<1> QED
  BY <1>1, <1>3, <1>4, <1>5

LEMMA RollBackStep ==
  ASSUME GroupInv, NEW u \in Upload, RollBack(u)
  PROVE  GroupInv'
<1>1. Running(u) /\ Forget(u) /\ UNCHANGED committed
  BY DEF RollBack
<1>2. /\ savings' \in [Saver -> Nat] /\ booked' \in [Saver -> Nat]
      /\ phone' = [m \in Saver |-> phone'[m]]
  BY <1>1 DEF GroupInv, GroupTypeOK, committed
<1> QED
  BY <1>1, <1>2, Forgotten, OneUpload, RunsAlone

LEMMA CommitUploadStep ==
  ASSUME GroupInv, NEW u \in Upload, CommitUpload(u)
  PROVE  GroupInv'
<1>1. place[u] = "read" /\ Running(u) /\ Forget(u)
  BY DEF CommitUpload, Running
<1>2. ASSUME NEW m \in Saver
      PROVE  /\ savings'[m] \in Nat /\ booked'[m] \in Nat
             /\ booked'[m] = booked[m] + entries[u][m]
             /\ booked[m] \in Nat /\ entries[u][m] \in Nat
             /\ savings'[m] <= booked'[m]
             /\ ~ lapped => savings'[m] = booked'[m]
  <2>1. /\ savings'[m] = Visible(u, SavingsOf(m))
        /\ booked'[m] = booked[m] + entries[u][m]
    BY DEF CommitUpload, SavingsOf
  <2>2. Within(u, m) /\ (~ lapped => Exact(u, m)) /\ Ahead(u, m) = 0
    BY <1>1 DEF GroupInv, UploadsInv, Ahead
  <2>3. /\ draft[u][SavingsOf(m)] \in Nat \cup {Unwritten}
        /\ savings[m] \in Nat /\ savings[m] <= booked[m]
        /\ booked[m] \in Nat /\ entries[u][m] \in Nat
    BY DEF GroupInv, GroupTypeOK, SavingsWithinBooks
  <2>4. /\ Visible(u, SavingsOf(m)) \in Nat
        /\ Visible(u, SavingsOf(m)) <= Known(u, m)
    BY <2>2, <2>3, VisibleSavings DEF Within, Known
  <2>5. ~ lapped => Visible(u, SavingsOf(m)) = Known(u, m)
    BY <1>1, <2>2, <2>3 DEF Exact, Known
  <2> QED
    BY <2>1, <2>3, <2>4, <2>5 DEF Known
<1>3. /\ savings' \in [Saver -> Nat] /\ booked' \in [Saver -> Nat]
      /\ phone' = [m \in Saver |-> phone'[m]]
  BY <1>2 DEF CommitUpload
<1>4. SavingsWithinBooks'
  BY <1>2 DEF SavingsWithinBooks
<1>5. ASSUME NEW v \in Upload \ {u}
      PROVE  /\ ItemOK(v)' <=> ItemOK(v)
             /\ Running(v)' <=> Running(v)
             /\ \A m \in Saver : Within(v, m)'
  <2>1. /\ todo'[v] = todo[v] /\ place'[v] = place[v]
        /\ readRow'[v] = readRow[v]
        /\ draft'[v] = draft[v] /\ entries'[v] = entries[v]
    BY <1>1, <1>3, Forgotten
  <2>2. ItemOK(v)' <=> ItemOK(v)
    BY <2>1 DEF ItemOK, Current, Running
  <2>3. Running(v)' <=> Running(v)
    BY <2>1 DEF Running
  <2>4. ASSUME NEW m \in Saver PROVE Within(v, m)'
    <3>1. Within(v, m)
      BY DEF GroupInv
    <3>2. Known(v, m)' = Known(v, m) + entries[u][m] /\ Known(v, m) \in Nat
      BY <1>2, <2>1 DEF GroupInv, GroupTypeOK, Known
    <3>3. /\ Ahead(v, m)' = Ahead(v, m) /\ Ahead(v, m) \in {0, 1}
          /\ Current(v)' = Current(v)
      BY <2>1 DEF Ahead, Current
    <3>4. /\ draft[v][SavingsOf(m)] \in Nat \cup {Unwritten}
          /\ place[v] \in HasRead /\ Current(v) = SavingsOf(m) =>
               readRow[v] \in Nat
      BY DEF GroupInv, GroupTypeOK, ItemOK
    <3> QED
      BY <1>2, <2>1, <3>1, <3>2, <3>3, <3>4 DEF Within
  <2> QED
    BY <2>2, <2>3, <2>4
<1>6. ASSUME ~ lapped' PROVE UploadsInv'
  <2>1. ~ lapped /\ ~ Running(u)'
    BY <1>1, <1>3, <1>6, Forgotten
  <2>2. \A v \in Upload : ~ Running(v)'
    BY <1>1, <1>5, <2>1, RunsAlone
  <2>3. savings' = booked'
    BY <1>2, <1>3, <2>1
  <2>4. \A v \in Upload, m \in Saver : Exact(v, m)'
    BY <2>2 DEF Exact, HasRead, Running
  <2> QED
    BY <2>2, <2>3, <2>4 DEF UploadsInv
<1> QED
  BY <1>1, <1>3, <1>4, <1>5, <1>6, Forgotten DEF GroupInv

-----------------------------------------------------------------------------
LEMMA GroupStep == GroupInv /\ [GroupNext]_groupVars => GroupInv'
<1> SUFFICES ASSUME GroupInv, [GroupNext]_groupVars PROVE GroupInv'
  OBVIOUS
<1>1. CASE UNCHANGED groupVars
  BY <1>1
  DEF GroupInv, GroupTypeOK, ItemOK, SavingsWithinBooks, Within, Exact,
      UploadsInv,
      groupVars, committed, Current, Running, Known, Ahead, Visible, Committed
<1>2. CASE \E u \in Upload :
             \/ Begin(u) \/ ReadRow(u) \/ CompareRow(u) \/ UpdateRow(u)
             \/ BookEntry(u) \/ NextItem(u) \/ CommitUpload(u) \/ RollBack(u)
  BY <1>2, BeginStep, ReadRowStep, CompareRowStep, UpdateRowStep, BookEntryStep,
     NextItemStep, CommitUploadStep, RollBackStep
<1> QED
  BY <1>1, <1>2 DEF GroupNext, AllUploaded

LEMMA GroupInvariant == GroupSpec => []GroupInv
BY GroupInitially, GroupStep, PTL DEF GroupSpec

(* Every variable of syncData has its type.                                 *)
THEOREM GroupTypes == GroupSpec => []GroupTypeOK
<1>1. GroupInv => GroupTypeOK
  BY DEF GroupInv
<1> QED
  BY GroupInvariant, <1>1, PTL

(* No order of the steps of uploads, deadlock or rollback lets a member     *)
(* have saved more than is booked (syncData).                               *)
THEOREM SavingsAreBooked == GroupSpec => []SavingsWithinBooks
<1>1. GroupInv => SavingsWithinBooks
  BY DEF GroupInv
<1> QED
  BY GroupInvariant, <1>1, PTL

(* Uploads that come one after the other lose nothing (syncData).           *)
THEOREM UploadsInTurnAgree == GroupSpec => []SyncsInTurnAgree
<1>1. GroupInv => SyncsInTurnAgree
  BY DEF GroupInv, UploadsInv, SyncsInTurnAgree
<1> QED
  BY GroupInvariant, <1>1, PTL
=============================================================================
