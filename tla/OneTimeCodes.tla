---------------------------- MODULE OneTimeCodes ----------------------------
(***************************************************************************)
(* OtpService: one-time codes of one user for one purpose.                  *)
(*                                                                          *)
(* A new code invalidates the pending ones.  verifyOtp loads the newest     *)
(* pending code, compares, and saves its copy of the row, without a lock:   *)
(* save writes status and attempts back as they were loaded.                *)
(***************************************************************************)
EXTENDS Naturals, Sequences, FiniteSets

CONSTANTS
  Caller,        \* requests to /auth/otp, one after the other or at once
  Digits,        \* the values a code can have; two codes may have the same
  MaxAttempts,   \* wrong codes that are allowed (3 in the code)
  MaxCodes       \* bound: codes that are ever made

ASSUME OneTimeCodesAssumption ==
  MaxAttempts \in Nat \ {0} /\ MaxCodes \in Nat

VARIABLES
  codes,         \* the rows of otp_codes, oldest first
  expired,       \* the codes up to this one are older than five minutes
  asked,         \* asked[r]: the digits request r brings, or what it does
  stage,         \* stage[r]: where it is
  otp,           \* otp[r]: the row verifyOtp has loaded, and its number
  guesses,       \* history: guesses[i]: wrong digits compared with code i,
                 \*   up to one more than is allowed
  opened,        \* history: opened[i]: how often code i was accepted, up to 2
  apart          \* history: no two requests were handled at the same time

codesVars == <<codes, expired, asked, stage, otp, guesses, opened, apart>>

OtpCode == [code : Digits, attempts : 0..MaxAttempts,
            status : {"pending", "verified", "invalidated"}]
NoOtp == [id |-> 0]

CodesInit ==
  /\ codes = <<>> /\ expired = 0
  /\ asked = [r \in Caller |-> "nothing"]
  /\ stage = [r \in Caller |-> "idle"]
  /\ otp = [r \in Caller |-> NoOtp]
  /\ guesses = [i \in 1..MaxCodes |-> 0]
  /\ opened = [i \in 1..MaxCodes |-> 0]
  /\ apart = TRUE

At(r, label) == stage' = [stage EXCEPT ![r] = label]

(* requestOtp and verifyOtp of the controller.                              *)
Ask(r) ==
  /\ stage[r] = "idle"
  /\ \E what \in {"generate"} \cup Digits :
       /\ asked' = [asked EXCEPT ![r] = what]
       /\ At(r, IF what = "generate" THEN "invalidate" ELSE "find")
  /\ apart' = (apart /\ \A q \in Caller : stage[q] = "idle")
  /\ UNCHANGED <<codes, expired, otp, guesses, opened>>

Done(r) ==
  /\ At(r, "idle")
  /\ asked' = [asked EXCEPT ![r] = "nothing"]
  /\ otp' = [otp EXCEPT ![r] = NoOtp]

-----------------------------------------------------------------------------
(* generateOtp.                                                             *)

Invalidate(r) ==
  /\ stage[r] = "invalidate"
  /\ codes' = [i \in DOMAIN codes |->
                 IF codes[i].status = "pending"
                 THEN [codes[i] EXCEPT !.status = "invalidated"] ELSE codes[i]]
  /\ At(r, "insert")
  /\ UNCHANGED <<expired, asked, otp, guesses, opened, apart>>

(* The new code, good for five minutes, is saved and then sent by SMS; its  *)
(* errors are caught.                                                       *)
Insert(r) ==
  /\ stage[r] = "insert"
  /\ Len(codes) < MaxCodes
  /\ \E d \in Digits :
       codes' = Append(codes, [code |-> d, attempts |-> 0, status |-> "pending"])
  /\ Done(r)
  /\ UNCHANGED <<expired, guesses, opened, apart>>

(* Five minutes pass for the oldest code that has not expired.              *)
Expire ==
  /\ expired < Len(codes)
  /\ expired' = expired + 1
  /\ UNCHANGED <<codes, asked, stage, otp, guesses, opened, apart>>

-----------------------------------------------------------------------------
(* verifyOtp.                                                               *)

Usable == {i \in DOMAIN codes : i > expired /\ codes[i].status = "pending"}

FindCode(r) ==
  /\ stage[r] = "find"
  /\ IF Usable = {} THEN Done(r)
     ELSE LET newest == CHOOSE i \in Usable : \A j \in Usable : j <= i
          IN /\ otp' = [otp EXCEPT ![r] = [id |-> newest, row |-> codes[newest]]]
             /\ At(r, "save")
             /\ UNCHANGED asked
  /\ UNCHANGED <<codes, expired, guesses, opened, apart>>

Exhausted(r) == otp[r].row.attempts >= MaxAttempts
Right(r) == otp[r].row.code = asked[r]

(* Mutant: a right code stays pending.                                      *)
VerdictNotKept(r) ==
  IF Exhausted(r) THEN [otp[r].row EXCEPT !.status = "invalidated"]
  ELSE IF Right(r) THEN otp[r].row
  ELSE [otp[r].row EXCEPT !.attempts = @ + 1]

Verdict(r) ==
  IF Exhausted(r) THEN [otp[r].row EXCEPT !.status = "invalidated"]
  ELSE IF Right(r) THEN [otp[r].row EXCEPT !.status = "verified"]
  ELSE [otp[r].row EXCEPT !.attempts = @ + 1]

Least(m, n) == IF m < n THEN m ELSE n
SaveVerdict(r) ==
  LET i == otp[r].id
  IN /\ stage[r] = "save"
     /\ codes' = [codes EXCEPT ![i] = Verdict(r)]
     /\ guesses' = IF Exhausted(r) \/ Right(r) THEN guesses
                   ELSE [guesses EXCEPT ![i] = Least(@ + 1, MaxAttempts + 1)]
     /\ opened' = IF Exhausted(r) \/ ~ Right(r) THEN opened
                  ELSE [opened EXCEPT ![i] = Least(@ + 1, 2)]
     /\ Done(r)
     /\ UNCHANGED <<expired, apart>>

(* The server dies.                                                         *)
CodesCrash ==
  /\ \E r \in Caller : stage[r] # "idle"
  /\ stage' = [r \in Caller |-> "idle"]
  /\ asked' = [r \in Caller |-> "nothing"]
  /\ otp' = [r \in Caller |-> NoOtp]
  /\ UNCHANGED <<codes, expired, guesses, opened, apart>>

CodesNext ==
  \/ \E r \in Caller :
       Ask(r) \/ Invalidate(r) \/ Insert(r) \/ FindCode(r) \/ SaveVerdict(r)
  \/ Expire
  \/ CodesCrash

CodesSpec == CodesInit /\ [][CodesNext]_codesVars

-----------------------------------------------------------------------------
(* Properties.                                                              *)

(* Every variable has its type: no code counts more attempts than allowed,  *)
(* also when stale copies of its row are written back.                      *)
CodesTypeOK ==
  /\ codes \in Seq(OtpCode) /\ Len(codes) <= MaxCodes
  /\ expired \in 0..Len(codes)
  /\ stage \in [Caller -> {"idle", "invalidate", "insert", "find", "save"}]
  /\ \A r \in Caller : otp[r] # NoOtp => otp[r].row \in OtpCode

(* As long as requests come one after the other, whatever they ask and      *)
(* wherever the server dies: a code opens once, is open to no more wrong    *)
(* guesses than allowed, and a new one has replaced it (verifyOtp and       *)
(* generateOtp over any number of requests).                                *)
CodesOpenOnce ==
  apart => /\ \A i \in 1..MaxCodes : opened[i] <= 1 /\ guesses[i] <= MaxAttempts
           /\ Cardinality({i \in DOMAIN codes : codes[i].status = "pending"}) <= 1
           /\ \A i \in DOMAIN codes :
                opened[i] = 1 <=> codes[i].status = "verified"
=============================================================================
