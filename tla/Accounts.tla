------------------------------ MODULE Accounts ------------------------------
(***************************************************************************)
(* AuthService after registration: log in, refresh, log out, forget, reset  *)
(* and change the password, edit the profile, log in with Google.           *)
(*                                                                          *)
(* There is one row of table users.  A call loads it, works on its copy     *)
(* (hashing takes its time) and then either updates some columns of the row *)
(* or saves the copy: TypeORM's save writes every column in which the copy  *)
(* differs from the row, those that have changed since it was loaded too.   *)
(* No call takes a lock.  A slot of Call is used for one request after the  *)
(* other; two requests overlap when they are in two slots.                  *)
(***************************************************************************)
EXTENDS Naturals

CONSTANTS
  Call,            \* slots for requests that are handled at the same time
  Password,
  RandomPassword,  \* the password, known to nobody, of a Google account
  CaptchaAfter,    \* so many failures ask for a captcha (3 in the code)
  LockAfter,       \* so many failures lock the account (5 in the code)
  MaxIssued        \* bound: refresh tokens and reset links that are ever made

ASSUME AccountsAssumption ==
  /\ RandomPassword \notin Password
  /\ LockAfter \in Nat \ {0} /\ CaptchaAfter \in 1..LockAfter
  /\ MaxIssued \in Nat

VARIABLES
  row,             \* the user's row; token 0 stands for null
  call,            \* call[c]: the request in slot c
  at,              \* at[c]: the step it is at
  loaded,          \* loaded[c]: the row as it has loaded it
  signed,          \* the refresh tokens that have been signed are 1..signed
  resets,          \* the reset links that have been made are 1..resets
  failures,        \* history: wrong passwords tried, up to LockAfter
  history          \* history: the password set last, the reset links used,
                   \*   is the user logged out; Overlapped once two requests
                   \*   have been handled at the same time

accountsVars ==
  <<row, call, at, loaded, signed, resets, failures, history>>

(* The columns of the row these calls read or write.                        *)
Rows == [exists : BOOLEAN, password : Password \cup {RandomPassword},
         refresh : 0..MaxIssued, attempts : 0..LockAfter, locked : BOOLEAN,
         captcha : BOOLEAN, reset : 0..MaxIssued]

NewRow(password) ==
  [exists |-> TRUE, password |-> password, refresh |-> 0, attempts |-> 0,
   locked |-> FALSE, captcha |-> FALSE, reset |-> 0]
NoRow == [NewRow(RandomPassword) EXCEPT !.exists = FALSE]

NoCall == [kind |-> "none"]

Overlapped == [chosen |-> RandomPassword, used |-> {}, loggedOut |-> FALSE,
               overlap |-> TRUE]
Remember(new) ==
  history' = IF history.overlap THEN Overlapped ELSE new

AccountsInit ==
  /\ row \in {NewRow(p) : p \in Password} \cup {NoRow}
  /\ call = [c \in Call |-> NoCall]
  /\ at = [c \in Call |-> "idle"]
  /\ loaded = [c \in Call |-> NoRow]
  /\ signed = 0 /\ resets = 0 /\ failures = 0
  /\ history = [overlap |-> FALSE, chosen |-> row.password, used |-> {},
                loggedOut |-> TRUE]

-----------------------------------------------------------------------------
(* Requests.                                                                *)

Asked ==
  [kind : {"login"}, password : Password]
    \cup [kind : {"refresh"}, token : 1..signed]
    \cup [kind : {"reset"}, token : 1..resets, new : Password]
    \cup [kind : {"change"}, password : Password, new : Password]
    \cup [kind : {"profile"}, organisation : BOOLEAN]
    \cup [kind : {"logout", "forgot", "google"}]

Begin(c) ==
  /\ at[c] = "idle"
  /\ \E r \in Asked :
       /\ call' = [call EXCEPT ![c] = r]
       /\ at' = [at EXCEPT ![c] = r.kind]
  /\ history' = IF \E d \in Call : at[d] # "idle" THEN Overlapped ELSE history
  /\ UNCHANGED <<row, loaded, signed, resets, failures>>

Move(c, label) == at' = [at EXCEPT ![c] = label] /\ UNCHANGED call

(* The request is answered, with success or an error; its copy is dropped.    *)
Answer(c) ==
  /\ at' = [at EXCEPT ![c] = "idle"]
  /\ call' = [call EXCEPT ![c] = NoCall]
  /\ loaded' = [loaded EXCEPT ![c] = NoRow]

Keep(c, seen) == loaded' = [loaded EXCEPT ![c] = seen]

(* The request goes on with login, which looks at neither any more.         *)
ToLogin(c) ==
  /\ at' = [at EXCEPT ![c] = "sign"]
  /\ call' = [call EXCEPT ![c] = NoCall]
  /\ loaded' = [loaded EXCEPT ![c] = NoRow]

-----------------------------------------------------------------------------
(* validateUser.                                                            *)

(* findUserForLogin: when its query fails (in an old database for want of a *)
(* column) a second query reads the password, but neither count nor lock.   *)
(* Of what is read only the columns that are looked at later are kept.      *)
LoginRow  == [row EXCEPT !.refresh = 0, !.reset = 0]
LegacyRow == [LoginRow EXCEPT !.attempts = 0, !.locked = FALSE, !.captcha = FALSE]
FindUserForLogin == {LoginRow, LegacyRow}

(* Mutant: the lock is not looked at.                                       *)
ValidateUserUnlocked(c) ==
  /\ at[c] = "login"
  /\ \/ ~ row.exists /\ Answer(c)
     \/ row.exists /\ \E seen \in FindUserForLogin :
          Keep(c, seen) /\ Move(c, "compare")
  /\ UNCHANGED <<row, signed, resets, failures, history>>

ValidateUser(c) ==
  /\ at[c] = "login"
  /\ \/ ~ row.exists /\ Answer(c)
     \/ row.exists /\ \E seen \in FindUserForLogin :
          IF seen.locked THEN Answer(c) ELSE Keep(c, seen) /\ Move(c, "compare")
  /\ UNCHANGED <<row, signed, resets, failures, history>>

Capped(n) == IF n < LockAfter THEN n ELSE LockAfter

(* The password is compared with the one that was loaded.                   *)
Compare(c) ==
  /\ at[c] = "compare"
  /\ IF call[c].password = loaded[c].password
     THEN /\ IF loaded[c].attempts > 0 \/ loaded[c].captcha
             THEN Move(c, "resetCount") /\ UNCHANGED loaded ELSE ToLogin(c)
          /\ UNCHANGED failures
     ELSE /\ failures' = Capped(failures + 1)
          /\ Move(c, "countFailure") /\ UNCHANGED loaded
  /\ UNCHANGED <<row, signed, resets, history>>

(* safeUserUpdate: the update, or nothing: a query that fails is ignored.   *)
SafeUserUpdate(new) == row' = new \/ UNCHANGED row

ResetCount(c) ==
  /\ at[c] = "resetCount"
  /\ SafeUserUpdate([row EXCEPT !.attempts = 0, !.locked = FALSE,
                                !.captcha = FALSE])
  /\ ToLogin(c)
  /\ UNCHANGED <<signed, resets, failures, history>>

(* Mutant: the account is locked by the failure before.                     *)
CountFailureEarly(c) ==
  LET attempts == Capped(loaded[c].attempts + 1)
  IN /\ at[c] = "countFailure"
     /\ SafeUserUpdate([row EXCEPT !.attempts = attempts,
                          !.locked = (attempts >= LockAfter - 1),
                          !.captcha = @ \/ attempts >= CaptchaAfter])
     /\ Answer(c)
     /\ UNCHANGED <<signed, resets, failures, history>>

(* Count, lock and captcha follow from the copy: a failure that another one *)
(* has overtaken is lost, and with it the lock the other one has set.       *)
CountFailure(c) ==
  LET attempts == Capped(loaded[c].attempts + 1)
  IN /\ at[c] = "countFailure"
     /\ SafeUserUpdate(
          [row EXCEPT !.attempts = attempts,
                      !.locked = (attempts >= LockAfter),
                      !.captcha = loaded[c].captcha \/ attempts >= CaptchaAfter])
     /\ Answer(c)
     /\ UNCHANGED <<signed, resets, failures, history>>

(* Ten minutes: the locks that have been set are over, in every copy too.     *)
LockExpires ==
  /\ row.locked
  /\ row' = [row EXCEPT !.locked = FALSE]
  /\ loaded' = [c \in Call |-> [loaded[c] EXCEPT !.locked = FALSE]]
  /\ UNCHANGED <<call, at, signed, resets, failures, history>>

-----------------------------------------------------------------------------
(* login: alert, audit entry (their errors are caught) and tokens.          *)

(* A refresh token is the user and the second it was signed in: one that is *)
(* signed in the same second as the one before is the same.                 *)
Sign(c) ==
  /\ at[c] = "sign"
  /\ \E t \in {signed, signed + 1} \cap 1..(MaxIssued - resets) :
       /\ signed' = t
       /\ call' = [call EXCEPT ![c] = [kind |-> "store", token |-> t]]
  /\ at' = [at EXCEPT ![c] = "store"]
  /\ UNCHANGED <<row, loaded, resets, failures, history>>

(* generateRefreshToken stores the hash, or fails to, and the client gets   *)
(* the token.                                                               *)
GenerateRefreshToken(c) ==
  /\ at[c] = "store"
  /\ SafeUserUpdate([row EXCEPT !.refresh = call[c].token])
  /\ Remember([history EXCEPT !.loggedOut = FALSE])
  /\ Answer(c)
  /\ UNCHANGED <<signed, resets, failures>>

(* refreshToken: the token is still valid and the one stored; then login.   *)
RefreshToken(c) ==
  /\ at[c] = "refresh"
  /\ \/ row.exists /\ row.refresh = call[c].token /\ ToLogin(c)
     \/ Answer(c)                        \* no such token, or it has expired
  /\ UNCHANGED <<row, signed, resets, failures, history>>

(* Mutant: the hash stays.                                                  *)
LogoutKeepsHash(c) ==
  /\ at[c] = "logout"
  /\ Remember([history EXCEPT !.loggedOut = TRUE])
  /\ Answer(c)
  /\ UNCHANGED <<row, signed, resets, failures>>

Logout(c) ==
  /\ at[c] = "logout"
  /\ row' = [row EXCEPT !.refresh = 0]
  /\ Remember([history EXCEPT !.loggedOut = TRUE])
  /\ Answer(c)
  /\ UNCHANGED <<signed, resets, failures>>

(* googleLogin: an account that does not exist is created, with a password  *)
(* nobody knows, and its audit entry may fail; one that exists is linked (a *)
(* column nothing here reads).  That two first logins at once would make    *)
(* two rows is left out: the model has one.                                 *)
GoogleLogin(c) ==
  /\ at[c] = "google"
  /\ \/ row.exists /\ ToLogin(c) /\ UNCHANGED <<row, history>>
     \/ /\ ~ row.exists
        /\ row' = NewRow(RandomPassword)
        /\ Remember([history EXCEPT !.chosen = RandomPassword])
        /\ ToLogin(c) \/ Answer(c)
  /\ UNCHANGED <<signed, resets, failures>>

-----------------------------------------------------------------------------
(* Passwords and profile.                                                   *)

(* A new link replaces the one before; then it is mailed.                   *)
ForgotPassword(c) ==
  /\ at[c] = "forgot"
  /\ \/ ~ row.exists /\ UNCHANGED <<row, resets>>
     \/ /\ row.exists /\ signed + resets < MaxIssued
        /\ resets' = resets + 1
        /\ row' = [row EXCEPT !.reset = resets + 1]
  /\ Answer(c)
  /\ UNCHANGED <<signed, failures, history>>

(* resetPassword looks the link up, hashes, and updates the row it found.   *)
FindResetToken(c) ==
  /\ at[c] = "reset"
  /\ \/ row.exists /\ row.reset = call[c].token /\ Move(c, "writePassword")
        /\ UNCHANGED loaded
     \/ Answer(c)                        \* no such link, or it has expired
  /\ UNCHANGED <<row, signed, resets, failures, history>>

ResetPassword(c) ==
  /\ at[c] = "writePassword"
  /\ row' = [row EXCEPT !.password = call[c].new, !.reset = 0]
  /\ Remember([history EXCEPT !.chosen = call[c].new,
                              !.used = @ \cup {call[c].token}])
  /\ Answer(c)
  /\ UNCHANGED <<signed, resets, failures>>

(* changePassword and updateProfile load the row to save it later.          *)
ChangePassword(c) ==
  /\ at[c] = "change"
  /\ IF row.exists /\ call[c].password = row.password
     THEN /\ Keep(c, [row EXCEPT !.password = call[c].new])
          /\ Move(c, "save")
     ELSE Answer(c)
  /\ UNCHANGED <<row, signed, resets, failures, history>>

UpdateProfile(c) ==
  /\ at[c] = "profile"
  /\ IF row.exists
     THEN /\ Keep(c, row)
          /\ Move(c, IF call[c].organisation THEN "saveOrganisation" ELSE "save")
     ELSE Answer(c)
  /\ UNCHANGED <<row, signed, resets, failures, history>>

(* An organisation code that names nothing fails here; otherwise the user   *)
(* is saved with the organisation it resolves to, and once more below.  The *)
(* rows of the member and the next of kin are saved besides (not modelled). *)
SaveOrganisation(c) ==
  /\ at[c] = "saveOrganisation"
  /\ \/ row' = loaded[c] /\ Move(c, "save") /\ UNCHANGED loaded
     \/ Answer(c) /\ UNCHANGED row
  /\ UNCHANGED <<signed, resets, failures, history>>

SaveUser(c) ==
  /\ at[c] = "save"
  /\ row' = loaded[c]
  /\ Remember(IF call[c].kind = "change"
              THEN [history EXCEPT !.chosen = call[c].new] ELSE history)
  /\ Answer(c)
  /\ UNCHANGED <<signed, resets, failures>>

-----------------------------------------------------------------------------
(* The server dies: what was written stays, nobody is answered.             *)
AccountsCrash ==
  /\ \E c \in Call : at[c] # "idle"
  /\ at' = [c \in Call |-> "idle"]
  /\ call' = [c \in Call |-> NoCall]
  /\ loaded' = [c \in Call |-> NoRow]
  /\ UNCHANGED <<row, signed, resets, failures, history>>

AccountsNext ==
  \/ \E c \in Call :
       \/ Begin(c) \/ ValidateUser(c) \/ Compare(c) \/ ResetCount(c)
       \/ CountFailure(c) \/ Sign(c) \/ GenerateRefreshToken(c)
       \/ RefreshToken(c) \/ Logout(c) \/ GoogleLogin(c) \/ ForgotPassword(c)
       \/ FindResetToken(c) \/ ResetPassword(c) \/ ChangePassword(c)
       \/ UpdateProfile(c) \/ SaveOrganisation(c) \/ SaveUser(c)
  \/ LockExpires
  \/ AccountsCrash

AccountsSpec == AccountsInit /\ [][AccountsNext]_accountsVars

-----------------------------------------------------------------------------
(* Properties.                                                              *)

(* Every variable has its type, and no token is stored that was not signed. *)
AccountsTypeOK ==
  /\ row \in Rows /\ loaded \in [Call -> Rows]
  /\ signed \in 0..MaxIssued /\ resets \in 0..(MaxIssued - signed)
  /\ row.refresh <= signed /\ row.reset <= resets
  /\ failures \in 0..LockAfter

(* Nobody is locked out, or asked for a captcha, after fewer wrong          *)
(* passwords than it takes, however requests overlap: a stale count that is *)
(* written back is never above the number of failures (validateUser and the *)
(* whole-row saves of changePassword and updateProfile).                    *)
LockNeedsFailures ==
  /\ row.locked => failures >= LockAfter
  /\ row.captcha => failures >= CaptchaAfter
  /\ row.attempts <= failures

(* Before it is over a lock is lifted only by a request that has loaded the *)
(* row without it, never by one that has seen it (validateUser refuses      *)
(* before it compares; the saves write the lock back).                      *)
SeenLockHolds ==
  [][ row.locked /\ ~ row'.locked =>
        LockExpires \/ \E c \in Call : at[c] # at'[c] /\ ~ loaded[c].locked
    ]_accountsVars

(* As long as requests do not overlap, whatever their order and wherever    *)
(* the server dies: the password is the one set last, a link that was used  *)
(* is void, and who logged out has no refresh token (no call leaves for the *)
(* next one what should be gone).                                           *)
SequentialCallsAgree ==
  ~ history.overlap =>
    /\ row.password = history.chosen
    /\ row.reset \notin history.used
    /\ history.loggedOut => row.refresh = 0
=============================================================================
