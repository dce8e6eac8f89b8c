---------------------------- MODULE Organisations ----------------------------
(***************************************************************************)
(* OrganisationService: the hierarchy of organisations, and the             *)
(* administrators that are created along with them.                         *)
(*                                                                          *)
(* A creation is a series of statements without a transaction: the row, the *)
(* search for a user with the same login, the administrator, the row again  *)
(* (as the creation remembers it), a virtual account.  An update loads the  *)
(* row with its parent and its children and saves all it has loaded, which  *)
(* TypeORM compares with the database: what others have changed in between  *)
(* is changed back.  A user changes the organisation it belongs to in its   *)
(* own profile, and a super admin changes users (AuthService, UserService), *)
(* by a load and a save of the same kind.                                   *)
(***************************************************************************)
EXTENDS Naturals, Sequences

CONSTANTS
  Desk,          \* requests, one after the other or at once (a bound)
  Login,         \* what administrators log in with: [email, phone]
  Wanted,        \* bound: what creations ask for; "unset" for no type, Nil for
                 \* no parent or no representative, NoLogin for no administrator
  Tokens,        \* bound: the organisations partner admins' tokens name
  Patch,         \* bound: the fields PATCH /organisations/:id gives
  Edit,          \* bound: the fields PATCH /auth/profile and /users/:id give
  MaxOrgs,       \* bound: organisations that are ever inserted, with the seed's
  MaxStaff       \* bound: administrators that are ever inserted

Types == {"apex", "partner", "sub_org"}
OrgId == 1..MaxOrgs
NoLogin == [none |-> TRUE]
(* What an update may give; all other fields are only stored.               *)
Fields == [type : Types] \cup [parent : OrgId] \cup [rep : 1..MaxStaff]
            \cup {[other |-> TRUE]}
Roles == {"partner_admin", "sub_org_admin", "super_admin"}
Edits == [org : 0..MaxOrgs] \cup [login : Login] \cup [role : Roles]

ASSUME OrganisationsAssumption ==
  /\ MaxOrgs \in Nat /\ MaxOrgs >= 2 /\ MaxStaff \in Nat
  /\ Wanted \subseteq [type : Types \cup {"unset"}, parent : 0..MaxOrgs,
                         rep : 0..MaxStaff, login : Login \cup {NoLogin}]
  /\ Tokens \subseteq 0..MaxOrgs
  /\ Patch \subseteq Fields /\ Edit \subseteq Edits

VARIABLES
  orgs,          \* the rows of organizations, by id; Gone if there is none
  staff,         \* the rows of users, by id; Gone if removed
  holders,       \* the organisations that have a virtual account
  paper,         \* paper[d]: what request d is about and has loaded
  desk,          \* desk[d]: where it is
  born,          \* history: born[o]: the route and values o was created with
  patched,       \* history: the organisations that were updated
  assigned,      \* history: those whose representative a request has named
  complete,      \* history: creations answered with success, and their admin
  hired,         \* history: hired[u]: the row that was inserted for u
  edited,        \* history: <<u, f>>: field f of user u was given a value
  inTurn         \* history: no two requests were handled at the same time

history == <<born, patched, assigned, complete, hired, edited>>
orgVars == <<orgs, staff, holders, paper, desk, history, inTurn>>

Gone == [gone |-> TRUE]
Nil == 0        \* a foreign key that is null
OrgRow == [type : Types, parent : 0..MaxOrgs, rep : 0..MaxStaff]
There(o) == o \in DOMAIN orgs /\ orgs[o] # Gone
Exists(u) == u \in DOMAIN staff /\ staff[u] # Gone
ChildrenOf(o) == {i \in DOMAIN orgs : There(i) /\ orgs[i].parent = o}

Role(type) ==
  CASE type = "partner" -> "partner_admin"
    [] type = "sub_org" -> "sub_org_admin"
    [] OTHER            -> "super_admin"

(* seed.ts: the apex, a partner and their administrators.                   *)
Callers == {1, 2}        \* bound: they are neither removed nor changed
Seeded(org, type) == [login |-> NoLogin, role |-> Role(type), org |-> org]
OrgInit ==
  /\ orgs = << [type |-> "apex", parent |-> Nil, rep |-> Nil],
               [type |-> "partner", parent |-> 1, rep |-> Nil] >>
  /\ staff = << Seeded(1, "apex"), Seeded(2, "partner") >>
  /\ holders = {}
  /\ paper = [d \in Desk |-> Gone]
  /\ desk = [d \in Desk |-> "free"]
  /\ born = << "seed", "seed" >> /\ hired = staff
  /\ patched = {} /\ assigned = {} /\ complete = {} /\ edited = {}
  /\ inTurn = TRUE

Arrive(d, p, label) ==
  /\ desk[d] = "free"
  /\ paper' = [paper EXCEPT ![d] = p]
  /\ desk' = [desk EXCEPT ![d] = label]
  /\ inTurn' = (inTurn /\ \A e \in Desk : desk[e] \in {"free", "left"})
Proceed(d, p, label) ==
  /\ paper' = [paper EXCEPT ![d] = p]
  /\ desk' = [desk EXCEPT ![d] = label]
  /\ UNCHANGED inTurn
Depart(d) == Proceed(d, Gone, "left")

-----------------------------------------------------------------------------
(* create.  parentOrgCode is not a field the validation lets through: a     *)
(* parent is given by its id, and nothing is asked of its type.  Refused    *)
(* are a parent that does not exist and a sub-organisation without parent,  *)
(* but not a request that leaves out the type.                              *)
Create(d, wanted, route) ==
  /\ IF wanted.parent # Nil THEN There(wanted.parent) ELSE wanted.type # "sub_org"
  /\ Arrive(d, [wanted |-> wanted, route |-> route], "insert")
  /\ UNCHANGED <<orgs, staff, holders, history>>

(* POST /organisations of a super admin.                                    *)
CreateOrganisation(d) ==
  \E wanted \in Wanted : Create(d, wanted, "apex")

(* POST /organisations/sub-org: below the organisation in the token of the  *)
(* caller, a partner admin.  That is any one whose code it has put into its *)
(* profile before it logged in, also one it has left, or none.  (Bound: the *)
(* type given, which is overwritten, is sub_org.)                           *)
CreateSubOrganisation(d) ==
  \E wanted \in Wanted, parent \in Tokens :
    wanted.type = "sub_org" /\ Create(d, [wanted EXCEPT !.parent = parent], "partner")

(* What the database refuses: a parent or representative that is not there, *)
(* or who already represents another organisation.                          *)
Accepted(o, row) ==
  /\ row.parent \notin {Nil, o} => There(row.parent)
  /\ row.rep # Nil => /\ Exists(row.rep)
                      /\ \A i \in DOMAIN orgs \ {o} :
                           There(i) => orgs[i].rep # row.rep

(* The column's default is sub_org.  Parent and representative must be      *)
(* there, and the random code must not be one that is taken.                *)
InsertOrg(d) ==
  LET p == paper[d].wanted
      id == Len(orgs) + 1
      type == IF p.type = "unset" THEN "sub_org" ELSE p.type
      row == [type |-> type, parent |-> p.parent, rep |-> p.rep]
  IN /\ desk[d] = "insert"
     /\ Len(orgs) < MaxOrgs
     /\ \/ /\ Accepted(id, row)
           /\ orgs' = Append(orgs, row)
           /\ born' = Append(born, paper[d].route)
           /\ assigned' = assigned \cup {o \in {id} : p.rep # Nil}
           /\ Proceed(d, [id |-> id, type |-> type, parent |-> p.parent,
                          login |-> p.login],
                      IF p.login = NoLogin THEN "askParallex" ELSE "findUser")
        \/ Depart(d) /\ UNCHANGED <<orgs, born, assigned>>
     /\ UNCHANGED <<staff, holders, patched, complete, hired, edited>>

(* Mutant: email and phone must both be those of the user that is found.    *)
SameLoginBoth(u, login) ==
  /\ Exists(u) /\ staff[u].login # NoLogin
  /\ staff[u].login = login

SameLogin(u, login) ==
  /\ Exists(u) /\ staff[u].login # NoLogin
  /\ \/ staff[u].login.email = login.email
     \/ staff[u].login.phone = login.phone

(* Mutant: the user that is found becomes the representative.               *)
FindExistingReused(d) ==
  LET same == {u \in DOMAIN staff : SameLogin(u, paper[d].login)}
  IN /\ desk[d] = "findUser"
     /\ IF same = {} THEN Proceed(d, paper[d], "insertAdmin")
        ELSE \E u \in same :
               Proceed(d, [id |-> paper[d].id, type |-> paper[d].type,
                           parent |-> paper[d].parent, user |-> u], "saveRep")
     /\ UNCHANGED <<orgs, staff, holders, history>>

(* `A user with this email or phone already exists': the organisation,      *)
(* which is there by now, stays without administrator.                      *)
FindExisting(d) ==
  /\ desk[d] = "findUser"
  /\ IF \E u \in DOMAIN staff : SameLogin(u, paper[d].login) THEN Depart(d)
     ELSE Proceed(d, paper[d], "insertAdmin")
  /\ UNCHANGED <<orgs, staff, holders, history>>

(* Its organisation may be gone by now.                                     *)
InsertAdmin(d) ==
  LET p == paper[d]
      row == [login |-> p.login, role |-> Role(p.type), org |-> p.id]
  IN /\ desk[d] = "insertAdmin"
     /\ Len(staff) < MaxStaff
     /\ IF There(p.id)
        THEN /\ staff' = Append(staff, row) /\ hired' = Append(hired, row)
             /\ Proceed(d, [id |-> p.id, type |-> p.type, parent |-> p.parent,
                            user |-> Len(staff) + 1], "saveRep")
        ELSE Depart(d) /\ UNCHANGED <<staff, hired>>
     /\ UNCHANGED <<orgs, holders, born, patched, assigned, complete, edited>>

(* Mutant: the second save is forgotten.                                    *)
SaveRepresentativeNot(d) ==
  /\ desk[d] = "saveRep"
  /\ Proceed(d, paper[d], "askParallex")
  /\ UNCHANGED <<orgs, staff, holders, history>>

(* The row as the creation has it in memory, inserted again if it is gone;  *)
(* a parent it never had is not written.                                    *)
SaveRepresentative(d) ==
  LET p == paper[d]
      parent == IF p.parent = Nil /\ There(p.id) THEN orgs[p.id].parent ELSE p.parent
      row == [type |-> p.type, parent |-> parent, rep |-> p.user]
  IN /\ desk[d] = "saveRep"
     /\ IF Exists(p.user) /\ Accepted(p.id, row)
        THEN /\ orgs' = [orgs EXCEPT ![p.id] = row]
             /\ Proceed(d, p, "askParallex")
        ELSE Depart(d) /\ UNCHANGED orgs
     /\ UNCHANGED <<staff, holders, history>>

(* createOrganisationVirtualAccount; its errors are logged, and the request *)
(* is answered with success.                                                *)
Answer(d) ==
  /\ Depart(d)
  /\ complete' = IF "user" \in DOMAIN paper[d]
                 THEN complete \cup {[org |-> paper[d].id, user |-> paper[d].user,
                                      type |-> paper[d].type]}
                 ELSE complete
AskParallex(d) ==
  /\ desk[d] = "askParallex"
  /\ \/ There(paper[d].id) /\ Proceed(d, paper[d], "saveAccount") /\ UNCHANGED complete
     \/ Answer(d)
  /\ UNCHANGED <<orgs, staff, holders, born, patched, assigned, hired, edited>>
SaveOrgAccount(d) ==
  /\ desk[d] = "saveAccount"
  /\ holders' = holders \cup {o \in {paper[d].id} : There(o)}
  /\ Answer(d)
  /\ UNCHANGED <<orgs, staff, born, patched, assigned, hired, edited>>

-----------------------------------------------------------------------------
(* update.                                                                  *)

(* findOne: with parent and children.  Mutant: without the children.        *)
LoadedWithout(o) == [id |-> o, row |-> orgs[o], children |-> {}]
Loaded(o) == [id |-> o, row |-> orgs[o], children |-> ChildrenOf(o)]

Update(d) ==
  /\ \E o \in DOMAIN orgs, given \in Patch :
       /\ There(o)
       /\ Arrive(d, [loaded |-> Loaded(o), given |-> given], "saveUpdate")
  /\ UNCHANGED <<orgs, staff, holders, history>>

(* TypeORM leaves out the column parent_id where the relation is loaded:    *)
(* an organisation that has a parent keeps it, whatever parentId is given.  *)
Assigned(row, given) ==
  [ type |-> IF "type" \in DOMAIN given THEN given.type ELSE row.type,
    parent |-> IF "parent" \in DOMAIN given /\ row.parent = Nil
               THEN given.parent ELSE row.parent,
    rep |-> IF "rep" \in DOMAIN given THEN given.rep ELSE row.rep ]

(* save: the row as loaded and assigned, and the children as loaded: others *)
(* lose their parent.  A row that was deleted meanwhile is inserted again.  *)
SaveUpdate(d) ==
  LET loaded == paper[d].loaded
      row == Assigned(loaded.row, paper[d].given)
      ParentNow(i) == IF i \in loaded.children THEN loaded.id
                      ELSE IF orgs[i].parent = loaded.id THEN Nil
                      ELSE orgs[i].parent
  IN /\ desk[d] = "saveUpdate"
     /\ IF Accepted(loaded.id, row)
        THEN /\ orgs' = [i \in DOMAIN orgs |->
                           IF i = loaded.id THEN row
                           ELSE IF There(i) THEN [orgs[i] EXCEPT !.parent = ParentNow(i)]
                           ELSE Gone]
             /\ patched' = patched \cup {loaded.id}
             /\ assigned' = assigned \cup
                  {o \in {loaded.id} : "rep" \in DOMAIN paper[d].given}
        ELSE UNCHANGED <<orgs, patched, assigned>>
     /\ Depart(d)
     /\ UNCHANGED <<staff, holders, born, complete, hired, edited>>

-----------------------------------------------------------------------------
(* updateProfile, of whoever is logged in, and the update of a user by a    *)
(* super admin.  The user as loaded is saved with what is given, all its    *)
(* columns; one that was removed meanwhile is inserted again.               *)

Edited(row, given) ==
  [f \in DOMAIN row |-> IF f \in DOMAIN given THEN given[f] ELSE row[f]]
ChangeUser(d, u, given, label) ==
  /\ Exists(u) /\ u \notin Callers
  /\ Arrive(d, [user |-> u, row |-> Edited(staff[u], given), given |-> given], label)
  /\ UNCHANGED <<orgs, staff, holders, history>>

(* The code given is that of an organisation, or of a group or branch that  *)
(* has one or has none; no code stands for the apex.  The row is saved with *)
(* the organisation, and then once more.  A phone is changed, not an email. *)
UpdateProfile(d) ==
  \E u \in DOMAIN staff, given \in Edit :
    \/ /\ "org" \in DOMAIN given
       /\ given.org # Nil => There(given.org)
       /\ ChangeUser(d, u, given, "saveOrg")
    \/ /\ "login" \in DOMAIN given /\ Exists(u) /\ staff[u].login # NoLogin
       /\ given.login.email = staff[u].login.email
       /\ ChangeUser(d, u, given, "saveUser")

(* The fields that the validation lets through do not name an organisation. *)
UpdateUser(d) ==
  \E u \in DOMAIN staff, given \in Edit :
    "org" \notin DOMAIN given /\ ChangeUser(d, u, given, "saveUser")

SaveUser(d) ==
  LET p == paper[d]
  IN /\ desk[d] \in {"saveOrg", "saveUser"}
     /\ IF p.row.org # Nil => There(p.row.org)
        THEN /\ staff' = [staff EXCEPT ![p.user] = p.row]
             /\ edited' = edited \cup {<<p.user, f>> : f \in DOMAIN p.given}
             /\ IF desk[d] = "saveOrg" THEN Proceed(d, p, "saveUser") ELSE Depart(d)
        ELSE Depart(d) /\ UNCHANGED <<staff, edited>>
     /\ UNCHANGED <<orgs, holders, born, patched, assigned, complete, hired>>

-----------------------------------------------------------------------------
(* remove, of an organisation and of a user: one statement, which the       *)
(* foreign keys refuse; a virtual account goes with its organisation.       *)
Remove(o) ==
  /\ There(o) /\ ChildrenOf(o) \subseteq {o}
  /\ \A u \in DOMAIN staff : Exists(u) => staff[u].org # o
  /\ orgs' = [orgs EXCEPT ![o] = Gone]
  /\ holders' = holders \ {o}
  /\ UNCHANGED <<staff, paper, desk, history, inTurn>>

(* Mutant: a representative can be removed too.                             *)
RemoveUserAnyway(u) ==
  /\ Exists(u) /\ u \notin Callers
  /\ staff' = [staff EXCEPT ![u] = Gone]
  /\ UNCHANGED <<orgs, holders, paper, desk, history, inTurn>>

RemoveUser(u) ==
  /\ Exists(u) /\ u \notin Callers
  /\ \A o \in DOMAIN orgs : There(o) => orgs[o].rep # u
  /\ staff' = [staff EXCEPT ![u] = Gone]
  /\ UNCHANGED <<orgs, holders, paper, desk, history, inTurn>>

OrgCrash ==
  /\ \E d \in Desk : desk[d] \notin {"free", "left"}
  /\ paper' = [d \in Desk |-> Gone]
  /\ desk' = [d \in Desk |-> IF desk[d] = "free" THEN "free" ELSE "left"]
  /\ UNCHANGED <<orgs, staff, holders, history, inTurn>>

AllServed == (\A d \in Desk : desk[d] = "left") /\ UNCHANGED orgVars

OrgNext ==
  \/ \E d \in Desk :
       \/ CreateOrganisation(d) \/ CreateSubOrganisation(d) \/ InsertOrg(d)
       \/ FindExisting(d) \/ InsertAdmin(d) \/ SaveRepresentative(d)
       \/ AskParallex(d) \/ SaveOrgAccount(d)
       \/ Update(d) \/ SaveUpdate(d)
       \/ UpdateProfile(d) \/ UpdateUser(d) \/ SaveUser(d)
  \/ \E o \in DOMAIN orgs : Remove(o)
  \/ \E u \in DOMAIN staff : RemoveUser(u)
  \/ OrgCrash
  \/ AllServed

OrgSpec == OrgInit /\ [][OrgNext]_orgVars

-----------------------------------------------------------------------------
(* What others make of the hierarchy.                                       *)

(* The sub-organisations of p that registration offers.                     *)
PublicSubOrgs(p) == {o \in ChildrenOf(p) : orgs[o].type = "sub_org"}

(* resolveApprovalChain, for one who registered with the code of o and      *)
(* belongs to no group.                                                     *)
ApprovalChain(o) ==
  (CASE orgs[o].type = "sub_org" /\ orgs[o].parent # Nil ->
            <<"sub_org_admin", "partner_admin">>
     [] orgs[o].type = "sub_org" /\ orgs[o].parent = Nil -> <<"sub_org_admin">>
     [] orgs[o].type = "partner" -> <<"partner_admin">>
     [] OTHER -> <<>>) \o <<"super_admin">>

-----------------------------------------------------------------------------
(* Properties.                                                              *)

(* Every variable has its type, and every foreign key has its row, also     *)
(* when stale copies of rows are written back and deleted ones come back.   *)
OrgTypeOK ==
  /\ \A o \in DOMAIN orgs : There(o) =>
       orgs[o] \in OrgRow /\ Accepted(o, orgs[o])
  /\ \A u \in DOMAIN staff : Exists(u) =>
       staff[u].role \in Roles /\ (staff[u].org # Nil => There(staff[u].org))
  /\ \A o \in holders : There(o)
  /\ Len(born) = Len(orgs)

(* As long as requests come one after the other, also if the server dies in *)
(* between: a sub-organisation a partner has created, and nobody has        *)
(* updated, is offered to those who register below that partner, and their  *)
(* loans go to the partner as well (create, update of other organisations,  *)
(* getPublicSubOrgs and resolveApprovalChain).                              *)
SubOrgsStayUnderPartner ==
  inTurn => \A o \in DOMAIN orgs :
    There(o) /\ born[o] = "partner" /\ o \notin patched =>
      /\ \E p \in DOMAIN orgs : There(p) /\ o \in PublicSubOrgs(p)
      /\ ApprovalChain(o) = <<"sub_org_admin", "partner_admin", "super_admin">>

(* As long as requests come one after the other, no two administrators      *)
(* share an email or a phone, unless one of them has got a new one later,   *)
(* though neither column is unique and what an administrator was created    *)
(* for may be gone (create's search for users).                             *)
LoginsDistinctInTurn ==
  inTurn => \A u, v \in DOMAIN staff :
    /\ Exists(u) /\ Exists(v) /\ u # v
    /\ staff[u].login # NoLogin /\ staff[v].login # NoLogin
    /\ <<u, "login">> \notin edited /\ <<v, "login">> \notin edited
    => /\ staff[u].login.email # staff[v].login.email
       /\ staff[u].login.phone # staff[v].login.phone

(* An organisation whose creation was answered with success keeps the       *)
(* administrator made for it as its representative, as long as requests     *)
(* come one after the other, none names another representative, and the     *)
(* administrator does not move to another organisation in its profile:      *)
(* until then neither of them can be removed, and the role stays that of    *)
(* the type it was created as unless a super admin changes it (create,      *)
(* remove, updateProfile).                                                  *)
CompleteHaveAdmin ==
  inTurn => \A c \in complete :
    c.org \notin assigned /\ <<c.user, "org">> \notin edited =>
      /\ There(c.org) /\ orgs[c.org].rep = c.user
      /\ Exists(c.user) /\ staff[c.user].org = c.org
      /\ <<c.user, "role">> \in edited \/ staff[c.user].role = Role(c.type)

(* However requests overlap: whoever represents an organisation was made    *)
(* for it, unless a request has named a representative, and belongs to it,  *)
(* unless it has moved in its profile (create, update and updateProfile     *)
(* write the columns back from memory).                                     *)
RepresentativesAreTheirOwn ==
  \A o \in DOMAIN orgs :
    There(o) /\ orgs[o].rep # Nil /\ o \notin assigned =>
      /\ hired[orgs[o].rep].org = o
      /\ <<orgs[o].rep, "org">> \in edited \/ staff[orgs[o].rep].org = o
=============================================================================
