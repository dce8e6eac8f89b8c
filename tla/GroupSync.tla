------------------------------ MODULE GroupSync ------------------------------
(***************************************************************************)
(* GroupService.syncData: a group's treasurer uploads the contributions and *)
(* the telephone numbers taken down while offline.                          *)
(*                                                                          *)
(* An upload is one transaction (READ COMMITTED).  For each contribution it *)
(* reads the member without a lock, saves the member with a higher balance  *)
(* and books a transaction under a fresh reference; then it saves the       *)
(* numbers.  TypeORM's save reads the row again and updates it only where   *)
(* it differs; an update waits for the lock another transaction holds.      *)
(* Contributions are of amount 1.                                           *)
(***************************************************************************)
EXTENDS Naturals, Sequences

CONSTANTS
  Upload,      \* calls of syncData
  Saver,       \* members of the group
  MaxItems,    \* bound: contributions in one upload
  Unwritten    \* the transaction has not written the row

ASSUME GroupSyncAssumption ==
  MaxItems \in Nat /\ Unwritten \notin Upload /\ Unwritten \notin Nat

VARIABLES
  savings,   \* savings[m]: contribution_balance of member m
  phone,     \* phone[m]: the upload that m's number is from
  booked,    \* booked[m]: completed contributions of m in table transactions
  todo,      \* todo[u]: the items that upload u has yet to process
  place,     \* place[u]: where u is
  readRow,   \* readRow[u]: what u has read
  draft,     \* draft[u]: the rows that u has updated and not yet committed
  entries,   \* entries[u]: the transactions that u has inserted likewise
  lapped     \* history variable: two uploads have run at the same time

groupVars == <<savings, phone, booked, todo, place, readRow, draft, entries, lapped>>
committed == <<savings, phone, booked>>

(* Rows of members and of users: a save of the one does not lock the other. *)
SyncRow == {"savings", "phone"} \X Saver

Clean   == [row \in SyncRow |-> Unwritten]
NoEntry == [m \in Saver |-> 0]

GroupInit ==
  /\ savings = [m \in Saver |-> 0]
  /\ phone = [m \in Saver |-> Unwritten]
  /\ booked = NoEntry
  /\ todo = [u \in Upload |-> <<>>]
  /\ place = [u \in Upload |-> "idle"]
  /\ readRow = [u \in Upload |-> Unwritten]
  /\ draft = [u \in Upload |-> Clean]
  /\ entries = [u \in Upload |-> NoEntry]
  /\ lapped = FALSE

Running(u) == place[u] \notin {"idle", "end"}
Put(u, where) == place' = [place EXCEPT ![u] = where]

Committed(row) == IF row[1] = "savings" THEN savings[row[2]] ELSE phone[row[2]]

(* Mutant: the member is read outside of the transaction.                   *)
VisibleOutside(u, row) == Committed(row)

Visible(u, row) ==
  IF draft[u][row] = Unwritten THEN Committed(row) ELSE draft[u][row]

Current(u) == Head(todo[u])
NewValue(u) == IF Current(u)[1] = "savings" THEN readRow[u] + 1 ELSE u

(* The contributions come first, then the numbers.                          *)
Begin(u) ==
  /\ place[u] = "idle"
  /\ \E n \in 0..MaxItems : \E payers \in [1..n -> Saver] :
       \E callers \in {<<>>} \cup {<<<<"phone", m>>>> : m \in Saver} :
         todo' = [todo EXCEPT ![u] =
                    [i \in 1..n |-> <<"savings", payers[i]>>] \o callers]
  /\ lapped' = (lapped \/ \E v \in Upload : Running(v))
  /\ Put(u, "read")
  /\ UNCHANGED <<committed, readRow, draft, entries>>

ReadRow(u) ==
  /\ place[u] = "read" /\ todo[u] # <<>>
  /\ readRow' = [readRow EXCEPT ![u] = Visible(u, Current(u))]
  /\ Put(u, "compare")
  /\ UNCHANGED <<committed, todo, draft, entries, lapped>>

(* Where a saved row leads: to the entry of a contribution, or on.          *)
AfterSave(u) == IF Current(u)[1] = "savings" THEN "book" ELSE "next"

CompareRow(u) ==
  /\ place[u] = "compare"
  /\ Put(u, IF NewValue(u) = Visible(u, Current(u)) THEN AfterSave(u)
            ELSE "update")
  /\ UNCHANGED <<committed, todo, readRow, draft, entries, lapped>>

Locked(u, row) == \E v \in Upload \ {u} : draft[v][row] # Unwritten

UpdateRow(u) ==
  /\ place[u] = "update"
  /\ ~ Locked(u, Current(u))
  /\ draft' = [draft EXCEPT ![u][Current(u)] = NewValue(u)]
  /\ Put(u, AfterSave(u))
  /\ UNCHANGED <<committed, todo, readRow, entries, lapped>>

(* Mutant: one entry per member and upload.                                 *)
BookEntryOnce(u) ==
  /\ place[u] = "book"
  /\ entries' = [entries EXCEPT ![u][Current(u)[2]] = 1]
  /\ Put(u, "next")
  /\ UNCHANGED <<committed, todo, readRow, draft, lapped>>

BookEntry(u) ==
  /\ place[u] = "book"
  /\ entries' = [entries EXCEPT ![u][Current(u)[2]] = @ + 1]
  /\ Put(u, "next")
  /\ UNCHANGED <<committed, todo, readRow, draft, lapped>>

NextItem(u) ==
  /\ place[u] = "next"
  /\ todo' = [todo EXCEPT ![u] = Tail(@)]
  /\ Put(u, "read")
  /\ UNCHANGED <<committed, readRow, draft, entries, lapped>>

(* The transaction ends: its rows and entries are public, or gone.          *)
Forget(u) ==
  /\ draft' = [draft EXCEPT ![u] = Clean]
  /\ entries' = [entries EXCEPT ![u] = NoEntry]
  /\ todo' = [todo EXCEPT ![u] = <<>>]
  /\ readRow' = [readRow EXCEPT ![u] = Unwritten]
  /\ Put(u, "end")
  /\ UNCHANGED lapped

CommitUpload(u) ==
  /\ place[u] = "read" /\ todo[u] = <<>>
  /\ savings' = [m \in Saver |-> Visible(u, <<"savings", m>>)]
  /\ phone' = [m \in Saver |-> Visible(u, <<"phone", m>>)]
  /\ booked' = [m \in Saver |-> booked[m] + entries[u][m]]
  /\ Forget(u)

(* A statement fails: a reference or an organisation the database refuses,  *)
(* the victim of a deadlock, a lost connection, the end of the server.      *)
RollBack(u) ==
  /\ Running(u)
  /\ Forget(u)
  /\ UNCHANGED committed

AllUploaded == (\A u \in Upload : place[u] = "end") /\ UNCHANGED groupVars

GroupNext ==
  \/ \E u \in Upload :
       \/ Begin(u) \/ ReadRow(u) \/ CompareRow(u) \/ UpdateRow(u)
       \/ BookEntry(u) \/ NextItem(u) \/ CommitUpload(u) \/ RollBack(u)
  \/ AllUploaded

GroupSpec == GroupInit /\ [][GroupNext]_groupVars

-----------------------------------------------------------------------------
(* Properties.                                                              *)

(* Uploads that overlap may lose savings to each other, as they read the    *)
(* member without a lock, but no order of their steps, deadlock or rollback *)
(* lets a member have saved more than is booked (syncData).                 *)
SavingsWithinBooks == \A m \in Saver : savings[m] <= booked[m]

(* Uploads that run one after the other lose nothing, not even when one of  *)
(* them brings several contributions of one member.                         *)
SyncsInTurnAgree == ~ lapped => savings = booked
=============================================================================
