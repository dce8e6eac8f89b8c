-------------------------- MODULE NotificationProofs --------------------------
(***************************************************************************)
(* Proofs about the services of notification: OneTimeCodes, for any number  *)
(* of requests, codes, digits and attempts, and Messaging, for any number   *)
(* of messages, overlapping runs, retries and restarts.                     *)
(***************************************************************************)
EXTENDS MCLoans, LoansProofs, Messaging, SequenceTheorems, WellFoundedInduction

-----------------------------------------------------------------------------
(* The invariant.                                                           *)

Stages == {"idle", "invalidate", "insert", "find", "save"}

(* Who is about to save has loaded a row that is still there, as its copy   *)
(* was when it was loaded.                                                  *)
LoadedInv ==
  /\ otp \in [Caller -> {NoOtp} \cup [id : Nat, row : OtpCode]]
  /\ \A r \in Caller : stage[r] = "save" =>
       otp[r] # NoOtp /\ otp[r].id \in 1..Len(codes)
CountInv == /\ guesses \in [1..MaxCodes -> Nat]
            /\ opened \in [1..MaxCodes -> Nat]

(* As long as requests come one after the other, nobody else is on the way, *)
(* a copy is the row it was loaded from, and a row knows what was made of   *)
(* it: how often it was guessed wrong and whether it was accepted.          *)
Open(i) == codes[i].status = "pending"
AloneInv == \A r, q \in Caller : stage[r] # "idle" /\ stage[q] # "idle" => r = q
CopyInv ==
  \A r \in Caller : stage[r] = "save" =>
    codes[otp[r].id] = otp[r].row /\ otp[r].row.status = "pending"
NewestInv ==
  /\ \A i, j \in 1..Len(codes) : Open(i) /\ Open(j) => i = j
  /\ \A r \in Caller : stage[r] = "insert" =>
       \A i \in 1..Len(codes) : ~ Open(i)
KnownInv ==
  \A i \in 1..MaxCodes :
    /\ i > Len(codes) => guesses[i] = 0 /\ opened[i] = 0
    /\ i <= Len(codes) =>
         /\ guesses[i] <= codes[i].attempts
         /\ opened[i] = IF codes[i].status = "verified" THEN 1 ELSE 0
InTurnInv == AloneInv /\ CopyInv /\ NewestInv /\ KnownInv

CodesInv == /\ CodesTypeOK /\ LoadedInv /\ CountInv
            /\ apart \in BOOLEAN /\ (apart => InTurnInv)

-----------------------------------------------------------------------------
(* The table of codes.                                                      *)

(* What is known of the rows as a sequence.                                 *)
LEMMA CodesFacts ==
  ASSUME CodesTypeOK
  PROVE  /\ codes \in Seq(OtpCode) /\ Len(codes) \in Nat
         /\ DOMAIN codes = 1..Len(codes) /\ Len(codes) <= MaxCodes
         /\ \A i \in 1..Len(codes) : codes[i] \in OtpCode
BY LenProperties DEF CodesTypeOK

(* There is a newest usable code, if there is one at all.                   *)
LEMMA NewestCode ==
  ASSUME CodesTypeOK, Usable # {}
  PROVE  \E i \in Usable : \A j \in Usable : j <= i
<1> DEFINE ages == {n \in 0..Len(codes) : Len(codes) - n \in Usable}
<1>1. Usable \subseteq 1..Len(codes) /\ Len(codes) \in Nat
  BY CodesFacts DEF Usable
<1>2. PICK u \in Usable : TRUE
  OBVIOUS
<1>3. Len(codes) - u \in ages
  BY <1>1
<1>4. PICK n \in ages : \A m \in ages : n <= m
  <2>1. ages \subseteq Nat /\ ages # {}
    BY <1>1, <1>3
  <2> HIDE DEF ages
  <2>2. PICK R : IsWellFoundedOn(R, Nat) /\ \A m, n \in Nat : m < n => <<m, n>> \in R
    BY NatLessThanWellFounded DEF OpToRel
  <2>3. PICK n \in ages : \A m \in ages : <<m, n>> \notin R
    BY <2>1, <2>2, WFMin
  <2>4. \A m \in ages : m \in Nat /\ n \in Nat /\ ~ (m < n)
    BY <2>1, <2>2, <2>3
  <2>5. \A m \in ages : n <= m
    BY <2>4
  <2> QED
    BY <2>5
<1>5. \A j \in Usable : Len(codes) - j \in ages
  BY <1>1
<1>6. \A j \in Usable : j <= Len(codes) - n
  BY <1>1, <1>4, <1>5
<1> QED
  BY <1>4, <1>6

(* A row that is written back.                                              *)
LEMMA RowWritten ==
  ASSUME CodesTypeOK, NEW i \in 1..Len(codes), NEW row \in OtpCode,
         codes' = [codes EXCEPT ![i] = row]
  PROVE  /\ codes' \in Seq(OtpCode) /\ Len(codes') = Len(codes)
         /\ codes'[i] = row
         /\ \A j \in 1..Len(codes) : j # i => codes'[j] = codes[j]
BY ExceptSeq DEF CodesTypeOK

(* A row that is inserted.                                                  *)
LEMMA RowInserted ==
  ASSUME CodesTypeOK, NEW row \in OtpCode, codes' = Append(codes, row)
  PROVE  /\ codes' \in Seq(OtpCode) /\ Len(codes') = Len(codes) + 1
         /\ codes'[Len(codes) + 1] = row
         /\ \A j \in 1..Len(codes) : codes'[j] = codes[j]
BY AppendProperties, CodesFacts DEF CodesTypeOK

(* The initial states.                                                      *)
LEMMA CodesInitially == CodesInit => CodesInv
<1> SUFFICES ASSUME CodesInit PROVE CodesInv
  OBVIOUS
<1> USE OneTimeCodesAssumption DEF CodesInit
<1>1. codes \in Seq(OtpCode) /\ Len(codes) = 0
  BY EmptySeq
<1>2. CodesTypeOK /\ LoadedInv /\ CountInv
  BY <1>1 DEF CodesTypeOK, LoadedInv, CountInv
<1>3. InTurnInv
  BY <1>1 DEF InTurnInv, AloneInv, CopyInv, NewestInv, KnownInv
<1> QED
  BY <1>2, <1>3 DEF CodesInv

-----------------------------------------------------------------------------
(* The actions.                                                             *)

LEMMA AskStep ==
  ASSUME CodesInv, NEW r \in Caller, Ask(r)
  PROVE  CodesInv'
<1> USE DEF CodesInv, Ask, At
<1>1. CodesTypeOK' /\ LoadedInv' /\ CountInv'
  BY DEF CodesTypeOK, LoadedInv, CountInv
<1>2. apart' \in BOOLEAN
  OBVIOUS
<1>3. ASSUME apart' PROVE InTurnInv'
  <2>1. InTurnInv /\ \A q \in Caller : stage[q] = "idle"
    BY <1>3
  <2>2. AloneInv'
    BY <2>1 DEF CodesTypeOK, AloneInv
  <2>3. CopyInv' /\ NewestInv'
    BY <2>1 DEF CodesTypeOK, InTurnInv, CopyInv, NewestInv, Open
  <2>4. KnownInv'
    BY <2>1 DEF InTurnInv, KnownInv
  <2> QED
    BY <2>2, <2>3, <2>4 DEF InTurnInv
<1> QED
  BY <1>1, <1>2, <1>3

LEMMA InvalidateStep ==
  ASSUME CodesInv, NEW r \in Caller, Invalidate(r)
  PROVE  CodesInv'
<1> USE DEF CodesInv
<1> DEFINE after(i) == IF codes[i].status = "pending"
                       THEN [codes[i] EXCEPT !.status = "invalidated"]
                       ELSE codes[i]
<1>1. /\ stage[r] = "invalidate" /\ stage' = [stage EXCEPT ![r] = "insert"]
      /\ codes' = [i \in 1..Len(codes) |-> after(i)]
      /\ UNCHANGED <<expired, asked, otp, guesses, opened, apart>>
  BY CodesFacts DEF Invalidate, At
<1>2. ASSUME NEW i \in 1..Len(codes)
      PROVE  /\ after(i) \in OtpCode /\ after(i).status # "pending"
             /\ after(i).attempts = codes[i].attempts
             /\ after(i).status = "verified" <=> codes[i].status = "verified"
  BY CodesFacts DEF OtpCode
<1> HIDE DEF after
<1>3. codes' \in Seq(OtpCode) /\ Len(codes') = Len(codes)
  <2>1. codes' \in Seq(OtpCode)
    BY <1>1, <1>2, CodesFacts, IsASeq
  <2> QED
    BY <1>1, <2>1, CodesFacts, LenProperties
<1>4. \A i \in 1..Len(codes) : codes'[i] = after(i)
  BY <1>1
<1>5. CodesTypeOK' /\ LoadedInv' /\ CountInv'
  BY <1>1, <1>3 DEF CodesTypeOK, LoadedInv, CountInv
<1>6. ASSUME apart PROVE InTurnInv'
  <2>1. AloneInv'
    BY <1>1, <1>6 DEF CodesTypeOK, InTurnInv, AloneInv
  <2>2. CopyInv'
    BY <1>1, <1>6 DEF CodesTypeOK, InTurnInv, AloneInv, CopyInv
  <2>3. NewestInv'
    BY <1>2, <1>3, <1>4 DEF NewestInv, Open
  <2>4. KnownInv'
    BY <1>1, <1>2, <1>3, <1>4, <1>6 DEF InTurnInv, KnownInv
  <2> QED
    BY <2>1, <2>2, <2>3, <2>4 DEF InTurnInv
<1> QED
  BY <1>1, <1>5, <1>6

LEMMA InsertStep ==
  ASSUME CodesInv, NEW r \in Caller, Insert(r)
  PROVE  CodesInv'
<1> USE OneTimeCodesAssumption DEF CodesInv
<1>1. PICK d \in Digits :
        codes' = Append(codes, [code |-> d, attempts |-> 0, status |-> "pending"])
  BY DEF Insert
<1> DEFINE row == [code |-> d, attempts |-> 0, status |-> "pending"]
           n == Len(codes) + 1
<1>2. /\ stage[r] = "insert" /\ stage' = [stage EXCEPT ![r] = "idle"]
      /\ n <= MaxCodes /\ Len(codes) \in Nat
      /\ otp' = [otp EXCEPT ![r] = NoOtp]
      /\ UNCHANGED <<expired, guesses, opened, apart>>
  BY CodesFacts DEF Insert, Done, At
<1>3. /\ row \in OtpCode
      /\ row.attempts = 0 /\ row.status = "pending"
  BY DEF OtpCode
<1> HIDE DEF row
<1>4. /\ codes' \in Seq(OtpCode) /\ Len(codes') = n /\ codes'[n] = row
      /\ \A j \in 1..Len(codes) : codes'[j] = codes[j]
  BY <1>1, <1>3, RowInserted DEF row
<1>5. CodesTypeOK' /\ LoadedInv' /\ CountInv'
  BY <1>2, <1>4 DEF CodesTypeOK, LoadedInv, CountInv
<1>6. ASSUME apart PROVE InTurnInv'
  <2>1. \A q \in Caller : stage'[q] = "idle"
    BY <1>2, <1>6 DEF CodesTypeOK, InTurnInv, AloneInv
  <2>2. AloneInv' /\ CopyInv'
    BY <2>1 DEF AloneInv, CopyInv
  <2>3. \A i \in 1..Len(codes) : ~ Open(i)
    BY <1>2, <1>6 DEF InTurnInv, NewestInv
  <2>4. \A i \in 1..Len(codes') : i = n \/ i \in 1..Len(codes)
    BY <1>2, <1>4
  <2>5. NewestInv'
    BY <1>4, <2>1, <2>3, <2>4 DEF NewestInv, Open
  <2>6. KnownInv'
    BY <1>2, <1>3, <1>4, <1>6 DEF InTurnInv, KnownInv
  <2> QED
    BY <2>2, <2>5, <2>6 DEF InTurnInv
<1> QED
  BY <1>2, <1>5, <1>6

LEMMA ExpireStep == CodesInv /\ Expire => CodesInv'
<1> SUFFICES ASSUME CodesInv, Expire PROVE CodesInv'
  OBVIOUS
<1>1. CodesTypeOK'
  BY CodesFacts DEF CodesInv, CodesTypeOK, Expire
<1> QED
  BY <1>1
  DEF CodesInv, Expire, LoadedInv, CountInv, InTurnInv, AloneInv, CopyInv,
      NewestInv, KnownInv, Open

LEMMA FindCodeStep ==
  ASSUME CodesInv, NEW r \in Caller, FindCode(r)
  PROVE  CodesInv'
<1> USE DEF CodesInv
<1>1. /\ stage[r] = "find"
      /\ UNCHANGED <<codes, expired, guesses, opened, apart>>
  BY DEF FindCode
<1>2. CASE Done(r)
  <2>1. CodesTypeOK' /\ LoadedInv' /\ CountInv'
    BY <1>1, <1>2 DEF Done, At, CodesTypeOK, LoadedInv, CountInv
  <2> QED
    BY <1>1, <1>2, <2>1
    DEF Done, At, CodesTypeOK, InTurnInv, AloneInv, CopyInv, NewestInv, KnownInv,
        Open
<1>3. ASSUME NEW i \in Usable, otp' = [otp EXCEPT ![r] = [id |-> i, row |-> codes[i]]],
             stage' = [stage EXCEPT ![r] = "save"]
      PROVE  CodesInv'
  <2>1. i \in 1..Len(codes) /\ codes[i] \in OtpCode /\ Open(i)
    BY CodesFacts DEF Usable, Open
  <2> DEFINE loaded == [id |-> i, row |-> codes[i]]
  <2>2. loaded.id = i /\ loaded.row = codes[i] /\ loaded # NoOtp
    BY DEF NoOtp
  <2> HIDE DEF loaded
  <2>3. otp' = [otp EXCEPT ![r] = loaded]
    BY <1>3 DEF loaded
  <2>4. CodesTypeOK' /\ LoadedInv' /\ CountInv'
    <3>1. \A q \in Caller : q # r => otp'[q] = otp[q] /\ stage'[q] = stage[q]
      BY <1>3, <2>3
    <3> QED
      BY <1>1, <1>3, <2>1, <2>2, <2>3, <3>1 DEF CodesTypeOK, LoadedInv, CountInv
  <2>5. ASSUME apart PROVE InTurnInv'
    <3>1. \A q \in Caller : stage'[q] # "idle" => q = r
      BY <1>1, <1>3, <2>5 DEF CodesTypeOK, InTurnInv, AloneInv
    <3>2. AloneInv'
      BY <3>1 DEF AloneInv
    <3>3. CopyInv'
      BY <1>1, <2>1, <2>2, <2>3, <3>1 DEF LoadedInv, CopyInv, Open
    <3>4. NewestInv'
      BY <1>1, <1>3, <2>5 DEF CodesTypeOK, InTurnInv, NewestInv, Open
    <3>5. KnownInv'
      BY <1>1, <2>5 DEF InTurnInv, KnownInv
    <3> QED
      BY <3>2, <3>3, <3>4, <3>5 DEF InTurnInv
  <2> QED
    BY <1>1, <2>4, <2>5
<1>4. CASE ~ Done(r)
  <2> DEFINE newest == CHOOSE i \in Usable : \A j \in Usable : j <= i
  <2>1. newest \in Usable
    BY <1>4, NewestCode DEF FindCode
  <2> QED
    BY <1>3, <1>4, <2>1 DEF FindCode, At
<1> QED
  BY <1>2, <1>4

(* The copy is written back, with one attempt more or another status.       *)
LEMMA SaveVerdictStep ==
  ASSUME CodesInv, NEW r \in Caller, SaveVerdict(r)
  PROVE  CodesInv'
<1> USE OneTimeCodesAssumption DEF CodesInv
<1>0. PICK i \in 1..Len(codes), row \in OtpCode : i = otp[r].id /\ row = otp[r].row
  BY DEF SaveVerdict, LoadedInv, NoOtp
<1>1. /\ stage[r] = "save" /\ stage' = [stage EXCEPT ![r] = "idle"]
      /\ otp' = [otp EXCEPT ![r] = NoOtp]
      /\ codes' = [codes EXCEPT ![i] = Verdict(r)]
      /\ guesses' = IF Exhausted(r) \/ Right(r) THEN guesses
                    ELSE [guesses EXCEPT ![i] = Least(@ + 1, MaxAttempts + 1)]
      /\ opened' = IF Exhausted(r) \/ ~ Right(r) THEN opened
                   ELSE [opened EXCEPT ![i] = Least(@ + 1, 2)]
      /\ UNCHANGED <<expired, apart>>
  BY <1>0 DEF SaveVerdict, Done, At
<1>2. /\ Verdict(r) \in OtpCode
      /\ Verdict(r).status \in {"pending", "verified", "invalidated"}
      /\ Verdict(r).attempts = IF Exhausted(r) \/ Right(r) THEN row.attempts
                               ELSE row.attempts + 1
      /\ Verdict(r).status = IF Exhausted(r) THEN "invalidated"
                             ELSE IF Right(r) THEN "verified" ELSE row.status
      /\ row.attempts \in Nat
  BY <1>0 DEF Verdict, Exhausted, Right, OtpCode
<1>3. i \in 1..MaxCodes /\ Len(codes) \in Nat /\ Len(codes) <= MaxCodes
  BY CodesFacts
<1>4. /\ codes' \in Seq(OtpCode) /\ Len(codes') = Len(codes)
      /\ codes'[i] = Verdict(r)
      /\ \A j \in 1..Len(codes) : j # i => codes'[j] = codes[j]
  BY <1>1, <1>2, RowWritten
<1>5. CodesTypeOK' /\ LoadedInv'
  BY <1>1, <1>4 DEF CodesTypeOK, LoadedInv
<1>6. CountInv'
  <2>1. /\ guesses[i] \in Nat /\ opened[i] \in Nat
        /\ Least(guesses[i] + 1, MaxAttempts + 1) \in Nat
        /\ Least(opened[i] + 1, 2) \in Nat
    BY <1>3 DEF CountInv, Least
  <2>2. guesses' \in [1..MaxCodes -> Nat]
    BY <1>1, <2>1 DEF CountInv
  <2>3. opened' \in [1..MaxCodes -> Nat]
    BY <1>1, <2>1 DEF CountInv
  <2> QED
    BY <2>2, <2>3 DEF CountInv
<1>7. ASSUME apart PROVE InTurnInv'
  <2>1. \A q \in Caller : stage'[q] = "idle"
    BY <1>1, <1>7 DEF CodesTypeOK, InTurnInv, AloneInv
  <2>2. AloneInv' /\ CopyInv'
    BY <2>1 DEF AloneInv, CopyInv
  <2>3. codes[i] = row /\ Open(i) /\ row.status = "pending"
    BY <1>0, <1>1, <1>7 DEF InTurnInv, CopyInv, Open
  <2>4. NewestInv'
    BY <1>4, <1>7, <2>1, <2>3 DEF InTurnInv, NewestInv, Open
  <2>5. ASSUME NEW j \in 1..MaxCodes
        PROVE  /\ j > Len(codes') => guesses'[j] = 0 /\ opened'[j] = 0
               /\ j <= Len(codes') =>
                    /\ guesses'[j] <= codes'[j].attempts
                    /\ opened'[j] = IF codes'[j].status = "verified" THEN 1 ELSE 0
    <3>1. CASE j # i
      <4>1. guesses'[j] = guesses[j] /\ opened'[j] = opened[j]
        BY <1>1, <1>3, <3>1 DEF CountInv
      <4> QED
        BY <1>3, <1>4, <1>7, <3>1, <4>1 DEF InTurnInv, KnownInv
    <3>2. CASE j = i
      <4>1. guesses[i] <= row.attempts /\ opened[i] = 0
        BY <1>3, <1>7, <2>3 DEF InTurnInv, KnownInv
      <4>2. /\ guesses'[i] = IF Exhausted(r) \/ Right(r) THEN guesses[i]
                             ELSE Least(guesses[i] + 1, MaxAttempts + 1)
            /\ opened'[i] = IF Exhausted(r) \/ ~ Right(r) THEN opened[i]
                            ELSE Least(opened[i] + 1, 2)
            /\ guesses[i] \in Nat
        BY <1>1, <1>3 DEF CountInv
      <4>3. guesses'[i] <= Verdict(r).attempts
        BY <1>2, <4>1, <4>2 DEF Least
      <4>4. opened'[i] = IF Verdict(r).status = "verified" THEN 1 ELSE 0
        BY <1>2, <2>3, <4>1, <4>2 DEF Least
      <4> QED
        BY <1>3, <1>4, <3>2, <4>3, <4>4
    <3> QED
      BY <3>1, <3>2
  <2>6. KnownInv'
    BY <2>5 DEF KnownInv
  <2> QED
    BY <2>2, <2>4, <2>6 DEF InTurnInv
<1> QED
  BY <1>1, <1>5, <1>6, <1>7

LEMMA CodesCrashStep == CodesInv /\ CodesCrash => CodesInv'
<1> SUFFICES ASSUME CodesInv, CodesCrash PROVE CodesInv'
  OBVIOUS
<1> USE DEF CodesInv, CodesCrash
<1>1. CodesTypeOK' /\ LoadedInv' /\ CountInv'
  BY DEF CodesTypeOK, LoadedInv, CountInv
<1>2. apart => InTurnInv'
  BY DEF InTurnInv, AloneInv, CopyInv, NewestInv, KnownInv, Open
<1> QED
  BY <1>1, <1>2

LEMMA CodesInvNext == CodesInv /\ [CodesNext]_codesVars => CodesInv'
<1> SUFFICES ASSUME CodesInv, [CodesNext]_codesVars PROVE CodesInv'
  OBVIOUS
<1>1. CASE UNCHANGED codesVars
  BY <1>1
  DEF codesVars, CodesInv, CodesTypeOK, LoadedInv, CountInv, InTurnInv, AloneInv,
      CopyInv, NewestInv, KnownInv, Open
<1>2. CASE CodesNext
  BY <1>2, AskStep, InvalidateStep, InsertStep, FindCodeStep, SaveVerdictStep,
     ExpireStep, CodesCrashStep
  DEF CodesNext
<1> QED
  BY <1>1, <1>2

LEMMA CodesInvariant == CodesSpec => []CodesInv
BY CodesInitially, CodesInvNext, PTL DEF CodesSpec

-----------------------------------------------------------------------------
(* What follows.                                                            *)

(* No row ever counts more attempts than are allowed, whatever stale copies *)
(* are written back (verifyOtp).                                            *)
THEOREM CodeTypes == CodesSpec => []CodesTypeOK
<1>1. CodesInv => CodesTypeOK
  BY DEF CodesInv
<1> QED
  BY CodesInvariant, <1>1, PTL

(* As long as requests come one after the other, a code opens once, takes   *)
(* no more wrong guesses than allowed, and no two codes are pending.        *)
THEOREM CodesAreOpenedOnce == CodesSpec => []CodesOpenOnce
<1>1. CodesInv => CodesOpenOnce
  <2> SUFFICES ASSUME CodesInv, apart
               PROVE  /\ \A i \in 1..MaxCodes :
                           opened[i] <= 1 /\ guesses[i] <= MaxAttempts
                      /\ Cardinality({i \in DOMAIN codes :
                                        codes[i].status = "pending"}) <= 1
                      /\ \A i \in DOMAIN codes :
                           opened[i] = 1 <=> codes[i].status = "verified"
    BY DEF CodesOpenOnce
  <2> USE OneTimeCodesAssumption DEF CodesInv, InTurnInv
  <2>1. ASSUME NEW i \in 1..MaxCodes
        PROVE  opened[i] <= 1 /\ guesses[i] <= MaxAttempts
    <3>1. i <= Len(codes) => codes[i].attempts \in 0..MaxAttempts
      BY CodesFacts DEF OtpCode
    <3>2. guesses[i] \in Nat /\ opened[i] \in Nat /\ Len(codes) \in Nat
      BY CodesFacts DEF CountInv
    <3> QED
      BY <3>1, <3>2 DEF KnownInv
  <2>2. Cardinality({i \in DOMAIN codes : codes[i].status = "pending"}) <= 1
    <3> DEFINE pending == {i \in DOMAIN codes : codes[i].status = "pending"}
    <3>1. pending = {} \/ \E i : pending = {i}
      BY CodesFacts DEF NewestInv, Open
    <3> HIDE DEF pending
    <3>2. Cardinality(pending) = 0 \/ Cardinality(pending) = 1
      BY <3>1, FS_EmptySet, FS_Singleton
    <3>3. Cardinality(pending) <= 1
      BY <3>2
    <3> QED
      BY <3>3 DEF pending
  <2>3. \A i \in DOMAIN codes : opened[i] = 1 <=> codes[i].status = "verified"
    BY CodesFacts DEF KnownInv
  <2> QED
    BY <2>1, <2>2, <2>3
<1> QED
  BY CodesInvariant, <1>1, PTL

-----------------------------------------------------------------------------
(* Messages: the rows and who works on copies of them.                      *)

MailRow == [status : {"none", "pending", "sent", "failed"}, attempts : Nat]
RunState == [todo : SUBSET Message, step : {"idle", "next", "send", "save"},
             mail : Message \cup {"none"}, attempts : Nat,
             verdict : {"sent", "failed"}]
MessagesInv ==
  /\ mail \in [Message -> MailRow]
  /\ sms \in [Message -> {"none", "pending", "sent", "failed"}]
  /\ at \in [Message -> {"new", "email", "sms", "provider", "sms sent",
                         "sms failed", "done", "gone"}]
  /\ run \in [Run -> RunState]
  /\ desk \in Message \cup {NoRetry}
  /\ tried \in [Message -> Nat]

(* What a call or a run is about to write is true as well: the copy of a    *)
(* run may be old, but what it counts and says has happened by then.        *)
CallTrue(e) == at[e] = "sms sent" => SmsTaken(e)
RunTrue(r) ==
  /\ run[r].step \in {"send", "save"} => run[r].mail \in Message
  /\ run[r].step = "send" => run[r].attempts <= OneMore(tried[run[r].mail])
  /\ run[r].step = "save" =>
       /\ run[r].attempts <= tried[run[r].mail]
       /\ run[r].verdict = "sent" => <<run[r].mail, "email">> \in taken
TruthInv == /\ MessagesInv /\ RowsTellTruth
            /\ \A e \in Message : CallTrue(e)
            /\ \A r \in Run : RunTrue(r)

LEMMA MessageFacts ==
  ASSUME MessagesInv
  PROVE  /\ \A e \in Message : mail[e] \in MailRow /\ mail[e].attempts \in Nat
         /\ \A e \in Message : tried[e] \in Nat /\ tried[e] <= tried[e]
         /\ \A r \in Run : /\ run[r] \in RunState /\ run[r].attempts \in Nat
                           /\ run[r].todo \subseteq Message
<1> USE DEF MessagesInv
<1>1. \A e \in Message : mail[e] \in MailRow
  OBVIOUS
<1>2. \A e \in Message : tried[e] \in Nat
  OBVIOUS
<1>3. \A r \in Run : run[r] \in RunState
  OBVIOUS
<1> HIDE DEF MessagesInv
<1> QED
  BY <1>1, <1>2, <1>3 DEF MailRow, RunState

(* The counters of attempts stop at their bound and never fall.             *)
LEMMA OneMoreIsMore ==
  ASSUME NEW m \in Nat, NEW n \in Nat, m <= n
  PROVE  /\ OneMore(n) \in Nat /\ n <= OneMore(n)
         /\ OneMore(m) <= OneMore(n)
BY MessagingAssumption DEF OneMore

(* What is true of a row or a run stays true while mail is tried and        *)
(* messages leave the house.                                                *)
LEMMA TruthStays ==
  ASSUME TruthInv, tried' \in [Message -> Nat],
         \A e \in Message : tried[e] <= tried'[e],
         taken \subseteq taken'
  PROVE  /\ \A e \in Message : /\ mail[e].status = "sent" => <<e, "email">> \in taken'
                               /\ sms[e] = "sent" => SmsTaken(e)'
                               /\ mail[e].attempts <= tried'[e]
                               /\ at[e] = "sms sent" => SmsTaken(e)'
         /\ \A r \in Run :
              /\ run[r].step = "send" =>
                   run[r].attempts <= OneMore(tried'[run[r].mail])
              /\ run[r].step = "save" =>
                   /\ run[r].attempts <= tried'[run[r].mail]
                   /\ run[r].verdict = "sent" => <<run[r].mail, "email">> \in taken'
<1>1. ASSUME NEW e \in Message
      PROVE  /\ mail[e].status = "sent" => <<e, "email">> \in taken'
             /\ sms[e] = "sent" => SmsTaken(e)'
             /\ mail[e].attempts <= tried'[e]
             /\ at[e] = "sms sent" => SmsTaken(e)'
  <2>1. /\ mail[e].status = "sent" => <<e, "email">> \in taken
        /\ sms[e] = "sent" => SmsTaken(e)
        /\ mail[e].attempts <= tried[e]
    BY DEF TruthInv, RowsTellTruth
  <2>2. at[e] = "sms sent" => SmsTaken(e)
    BY DEF TruthInv, CallTrue
  <2>3. /\ mail[e].attempts \in Nat /\ tried[e] \in Nat
        /\ tried'[e] \in Nat /\ tried[e] <= tried'[e]
    BY MessageFacts DEF TruthInv
  <2>4. mail[e].attempts <= tried'[e]
    BY <2>1, <2>3
  <2>5. SmsTaken(e) => SmsTaken(e)'
    BY DEF SmsTaken
  <2> QED
    BY <2>1, <2>2, <2>4, <2>5
<1>2. ASSUME NEW r \in Run, run[r].step \in {"send", "save"}
      PROVE  /\ run[r].step = "send" =>
                  run[r].attempts <= OneMore(tried'[run[r].mail])
             /\ run[r].step = "save" =>
                  /\ run[r].attempts <= tried'[run[r].mail]
                  /\ run[r].verdict = "sent" => <<run[r].mail, "email">> \in taken'
  <2>1. PICK e \in Message : e = run[r].mail
    BY <1>2 DEF TruthInv, RunTrue
  <2>2. PICK m \in Nat, n \in Nat : m = tried[e] /\ n = tried'[e] /\ m <= n
    BY MessageFacts DEF TruthInv
  <2>3. OneMore(m) \in Nat /\ OneMore(n) \in Nat /\ OneMore(m) <= OneMore(n)
    BY <2>2, OneMoreIsMore
  <2>4. /\ run[r].step = "send" => run[r].attempts <= OneMore(m)
        /\ run[r].step = "save" =>
             /\ run[r].attempts <= m
             /\ run[r].verdict = "sent" => <<e, "email">> \in taken
    BY <2>1, <2>2 DEF TruthInv, RunTrue
  <2>5. run[r].attempts \in Nat
    BY MessageFacts DEF TruthInv
  <2> QED
    BY <2>1, <2>2, <2>3, <2>4, <2>5
<1> QED
  BY <1>1, <1>2

LEMMA TruthInitially == MessagingInit => TruthInv
BY DEF MessagingInit, TruthInv, MessagesInv, RowsTellTruth, SmsTaken, CallTrue, RunTrue,
       MailRow, RunState, NoMail, Resting

(* A call: nothing but its own place, its own row and what it sent.         *)
LEMMA CallStep ==
  ASSUME TruthInv, NEW e \in Message,
         \/ Trigger(e) \/ QueueEmail(e) \/ LogSms(e) \/ AskProvider(e)
         \/ SimulateSms(e) \/ SaveSms(e)
  PROVE  TruthInv'
<1>1. /\ UNCHANGED <<run, desk, tried>>
      /\ taken \subseteq taken'
  BY DEF Trigger, QueueEmail, LogSms, AskProvider, SimulateSms, SaveSms
<1>2. /\ at' = at \/ \E place \in {"email", "sms", "provider", "sms sent",
                                   "sms failed", "done"} : Stand(e, place)
      /\ mail' = mail \/ mail' = [mail EXCEPT ![e] = [status |-> "pending",
                                                    attempts |-> 0]]
      /\ sms' = sms \/ \E v \in {"pending", "sent", "failed"} :
                           sms' = [sms EXCEPT ![e] = v]
  BY DEF Trigger, QueueEmail, LogSms, AskProvider, SimulateSms, SaveSms,
         messageRows
<1>3. MessagesInv'
  <2>1. at' \in [Message -> {"new", "email", "sms", "provider", "sms sent",
                            "sms failed", "done", "gone"}]
    BY <1>2 DEF TruthInv, MessagesInv, Stand
  <2>2. mail' \in [Message -> MailRow]
    <3>1. [status |-> "pending", attempts |-> 0] \in MailRow
      BY DEF MailRow
    <3> QED
      BY <1>2, <3>1 DEF TruthInv, MessagesInv
  <2>3. sms' \in [Message -> {"none", "pending", "sent", "failed"}]
    BY <1>2 DEF TruthInv, MessagesInv
  <2> QED
    BY <1>1, <2>1, <2>2, <2>3 DEF TruthInv, MessagesInv
<1>4. /\ \A d \in Message : tried[d] <= tried'[d]
      /\ tried' \in [Message -> Nat]
  <2>1. tried' = tried /\ tried \in [Message -> Nat]
    BY <1>1 DEF TruthInv, MessagesInv
  <2> QED
    BY <2>1, MessageFacts DEF TruthInv
<1>5. ASSUME NEW d \in Message
      PROVE  \/ mail'[d] = mail[d]
             \/ mail'[d].status = "pending" /\ mail'[d].attempts = 0
  <2>1. CASE mail' = mail
    BY <2>1
  <2>2. CASE mail' = [mail EXCEPT ![e] = [status |-> "pending", attempts |-> 0]]
    <3>1. mail \in [Message -> MailRow]
      BY DEF TruthInv, MessagesInv
    <3> QED
      BY <2>2, <3>1
  <2> QED
    BY <1>2, <2>1, <2>2
<1>6. ASSUME NEW d \in Message
      PROVE  sms'[d] = "sent" => sms[d] = "sent" \/ at[d] = "sms sent"
  BY DEF TruthInv, MessagesInv, Trigger, QueueEmail, LogSms, AskProvider,
         SimulateSms, SaveSms, messageRows
<1>7. ASSUME NEW d \in Message
      PROVE  at'[d] = "sms sent" => at[d] = "sms sent" \/ SmsTaken(d)'
  BY DEF TruthInv, MessagesInv, Trigger, QueueEmail, LogSms, AskProvider,
         SimulateSms, SaveSms, Stand, SmsTaken
<1>8. RowsTellTruth' /\ \A d \in Message : CallTrue(d)'
  <2>1. ASSUME NEW d \in Message
        PROVE  /\ mail'[d].status = "sent" => <<d, "email">> \in taken'
               /\ sms'[d] = "sent" => SmsTaken(d)'
               /\ mail'[d].attempts <= tried'[d]
    <3>1. /\ mail[d].status = "sent" => <<d, "email">> \in taken'
          /\ sms[d] = "sent" => SmsTaken(d)'
          /\ mail[d].attempts <= tried'[d]
          /\ at[d] = "sms sent" => SmsTaken(d)'
      BY <1>1, <1>4, TruthStays
    <3>2. tried'[d] \in Nat
      BY <1>4
    <3>3. mail'[d].status = "sent" => <<d, "email">> \in taken'
      BY <1>5, <3>1
    <3>4. mail'[d].attempts <= tried'[d]
      <4>1. mail'[d].attempts = mail[d].attempts \/ mail'[d].attempts = 0
        BY <1>5
      <4>2. PICK m \in Nat, t \in Nat : m = mail[d].attempts /\ t = tried'[d] /\ m <= t
        BY <3>1, <3>2, MessageFacts DEF TruthInv
      <4>3. mail'[d].attempts = m \/ mail'[d].attempts = 0
        BY <4>1, <4>2
      <4> QED
        BY <4>2, <4>3
    <3> QED
      BY <1>6, <3>1, <3>3, <3>4
  <2>2. ASSUME NEW d \in Message PROVE CallTrue(d)'
    BY <1>1, <1>4, <1>7, TruthStays DEF CallTrue, SmsTaken
  <2> QED
    BY <2>1, <2>2 DEF RowsTellTruth, SmsTaken
<1>9. \A r \in Run : RunTrue(r)'
  BY <1>1, <1>4, TruthStays DEF RunTrue, TruthInv
<1> QED
  BY <1>3, <1>8, <1>9 DEF TruthInv

(* A run takes rows, loads one of them, and saves what became of it.        *)
LEMMA ProcessQueueStep ==
  ASSUME TruthInv, NEW r \in Run, ProcessQueue(r)
  PROVE  TruthInv'
<1>1. PICK rows \in SUBSET Pending :
        run' = [run EXCEPT ![r].todo = rows, ![r].step = "next"]
  BY DEF ProcessQueue
<1>2. /\ UNCHANGED <<at, mail, sms, desk, tried, taken>>
      /\ rows \in SUBSET Message
  BY <1>1 DEF ProcessQueue, messageRows, Pending
<1>3. run[r] \in RunState /\ run \in [Run -> RunState]
  BY MessageFacts DEF TruthInv, MessagesInv
<1>4. PICK new \in RunState : new.step = "next" /\ run' = [run EXCEPT ![r] = new]
  <2>1. [run[r] EXCEPT !.todo = rows, !.step = "next"] \in RunState
    BY <1>2, <1>3 DEF RunState
  <2> QED
    BY <1>1, <1>3, <2>1 DEF RunState
<1>5. MessagesInv'
  BY <1>2, <1>3, <1>4 DEF TruthInv, MessagesInv
<1>6. \A q \in Run : run'[q] = run[q] \/ run'[q].step = "next"
  BY <1>3, <1>4
<1> QED
  BY <1>2, <1>5, <1>6 DEF TruthInv, RowsTellTruth, SmsTaken, CallTrue, RunTrue, OneMore

LEMMA LoadMailStep ==
  ASSUME TruthInv, NEW r \in Run, LoadMail(r)
  PROVE  TruthInv'
<1>1. PICK e \in run[r].todo :
        run' = [run EXCEPT ![r].todo = @ \ {e}, ![r].mail = e, ![r].step = "send",
                           ![r].attempts = OneMore(mail[e].attempts)]
  BY DEF LoadMail
<1>2. /\ UNCHANGED <<at, mail, sms, desk, tried, taken>>
      /\ e \in Message
  BY <1>1 DEF LoadMail, messageRows, TruthInv, MessagesInv, RunState
<1>3. PICK n \in Nat : n = OneMore(mail[e].attempts) /\ n <= OneMore(tried[e])
  <2>1. PICK m \in Nat, t \in Nat : m = mail[e].attempts /\ t = tried[e] /\ m <= t
    BY <1>2, MessageFacts DEF TruthInv, RowsTellTruth, SmsTaken
  <2>2. OneMore(m) \in Nat /\ OneMore(m) <= OneMore(t)
    BY <2>1, OneMoreIsMore
  <2> QED
    BY <2>1, <2>2
<1>4. /\ run'[r].mail = e /\ run'[r].step = "send" /\ run'[r].attempts = n
      /\ run'[r] \in RunState
      /\ \A q \in Run \ {r} : run'[q] = run[q]
  <2>1. run[r] \in RunState /\ run \in [Run -> RunState]
    BY MessageFacts DEF TruthInv, MessagesInv
  <2>2. run' = [run EXCEPT ![r].todo = @ \ {e}, ![r].mail = e, ![r].step = "send",
                           ![r].attempts = n]
    BY <1>1, <1>3
  <2> QED
    BY <1>2, <2>1, <2>2 DEF RunState
<1>5. MessagesInv'
  BY <1>1, <1>2, <1>4 DEF TruthInv, MessagesInv
<1>6. RunTrue(r)'
  BY <1>2, <1>3, <1>4 DEF RunTrue, OneMore
<1>7. \A q \in Run \ {r} : RunTrue(q)'
  BY <1>2, <1>4 DEF TruthInv, RunTrue, OneMore
<1> QED
  BY <1>2, <1>5, <1>6, <1>7 DEF TruthInv, RowsTellTruth, SmsTaken, CallTrue

LEMMA SendMailStep ==
  ASSUME TruthInv, NEW r \in Run, SendMail(r)
  PROVE  TruthInv'
<1>1. PICK e \in Message : e = run[r].mail
  BY DEF SendMail, TruthInv, RunTrue
<1>2. PICK n \in Nat : n = OneMore(tried[e]) /\ tried[e] <= n /\ run[r].attempts <= n
  <2>1. PICK t \in Nat : t = tried[e]
    BY MessageFacts DEF TruthInv
  <2>2. OneMore(t) \in Nat /\ t <= OneMore(t)
    BY <2>1, OneMoreIsMore
  <2>3. run[r].attempts <= OneMore(t)
    BY <1>1, <2>1 DEF SendMail, TruthInv, RunTrue
  <2> QED
    BY <2>1, <2>2, <2>3
<1>3. PICK verdict \in {"sent", "failed"} :
        /\ run' = [run EXCEPT ![r].step = "save", ![r].verdict = verdict]
        /\ verdict = "sent" => <<e, "email">> \in taken'
        /\ taken \subseteq taken'
  BY <1>1 DEF SendMail
<1>4. /\ UNCHANGED <<at, mail, sms, desk>>
      /\ tried' = [tried EXCEPT ![e] = n]
  BY <1>1, <1>2 DEF SendMail, messageRows
<1>5. /\ tried' \in [Message -> Nat] /\ tried'[e] = n
      /\ \A d \in Message : tried[d] <= tried'[d]
  <2>1. tried \in [Message -> Nat]
    BY DEF TruthInv, MessagesInv
  <2>2. ASSUME NEW d \in Message PROVE tried[d] <= tried'[d]
    BY <1>2, <1>4, <2>1
  <2> QED
    BY <1>4, <2>1, <2>2
<1>6. /\ run'[r].mail = e /\ run'[r].step = "save" /\ run'[r].verdict = verdict
      /\ run'[r].attempts = run[r].attempts
      /\ run' \in [Run -> RunState]
      /\ \A q \in Run \ {r} : run'[q] = run[q]
  <2>1. run \in [Run -> RunState] /\ run[r].mail = e
    BY <1>1 DEF TruthInv, MessagesInv
  <2>2. /\ run' = [q \in Run |-> run'[q]]
        /\ run'[r] = [run[r] EXCEPT !.step = "save", !.verdict = verdict]
        /\ \A q \in Run \ {r} : run'[q] = run[q]
    BY <1>3, <2>1
  <2>3. /\ run'[r] \in RunState
        /\ run'[r].mail = e /\ run'[r].step = "save" /\ run'[r].verdict = verdict
        /\ run'[r].attempts = run[r].attempts
    <3>1. PICK before \in RunState : before = run[r]
      BY <2>1
    <3>2. PICK after : after = [before EXCEPT !.step = "save", !.verdict = verdict]
      OBVIOUS
    <3>3. verdict \in {"sent", "failed"}
      BY <1>3
    <3>4. /\ after \in RunState
          /\ after.mail = before.mail /\ after.attempts = before.attempts
          /\ after.step = "save" /\ after.verdict = verdict
      BY ONLY <3>2, <3>3 DEF RunState
    <3> QED
      BY <2>1, <2>2, <3>1, <3>2, <3>4
  <2>4. run' \in [Run -> RunState]
    BY ONLY <2>1, <2>2, <2>3
  <2> QED
    BY <2>2, <2>3, <2>4
<1>7. MessagesInv'
  BY <1>4, <1>5, <1>6 DEF TruthInv, MessagesInv
<1>8. RowsTellTruth' /\ \A d \in Message : CallTrue(d)'
  BY <1>3, <1>4, <1>5, TruthStays DEF RowsTellTruth, SmsTaken, CallTrue
<1>9. RunTrue(r)'
  BY <1>2, <1>3, <1>5, <1>6 DEF RunTrue
<1>10. \A q \in Run \ {r} : RunTrue(q)'
  BY <1>3, <1>5, <1>6, TruthStays DEF TruthInv, RunTrue
<1> QED
  BY <1>7, <1>8, <1>9, <1>10 DEF TruthInv

LEMMA SaveMailStep ==
  ASSUME TruthInv, NEW r \in Run, SaveMail(r)
  PROVE  TruthInv'
<1>1. PICK e \in Message : e = run[r].mail
  BY DEF SaveMail, TruthInv, RunTrue
<1>2. /\ UNCHANGED <<at, sms, desk, tried, taken>>
      /\ mail' = [mail EXCEPT ![e] = Outcome(r)]
      /\ run[r].step = "save" /\ run[r] \in RunState
  BY <1>1 DEF SaveMail, TruthInv, MessagesInv
<1>3. /\ Outcome(r) \in MailRow
      /\ Outcome(r).attempts <= tried[e]
      /\ Outcome(r).status = "sent" => <<e, "email">> \in taken
  BY <1>1, <1>2 DEF Outcome, TruthInv, RunTrue, RunState, MailRow
<1> HIDE DEF Outcome
<1>4. /\ mail' \in [Message -> MailRow] /\ mail'[e] = Outcome(r)
      /\ \A d \in Message \ {e} : mail'[d] = mail[d]
  BY <1>2, <1>3 DEF TruthInv, MessagesInv
<1>5. PICK new \in RunState : /\ run' = [run EXCEPT ![r] = new]
                              /\ new.step \in {"idle", "next"}
  <2>1. run[r].todo \in SUBSET Message
    BY <1>2 DEF RunState
  <2> QED
    <3>1. Resting \in RunState /\ Resting.step = "idle"
      BY DEF Resting, RunState
    <3> DEFINE going == [Resting EXCEPT !.todo = run[r].todo, !.step = "next"]
    <3>2. going \in RunState /\ going.step = "next"
      BY <2>1 DEF Resting, RunState
    <3>3. \/ run' = [run EXCEPT ![r] = Resting]
          \/ run' = [run EXCEPT ![r] = going]
      BY DEF SaveMail
    <3> HIDE DEF going
    <3> QED
      BY <3>1, <3>2, <3>3
<1>6. /\ run' \in [Run -> RunState] /\ run'[r].step \in {"idle", "next"}
      /\ \A q \in Run \ {r} : run'[q] = run[q]
  BY <1>5 DEF TruthInv, MessagesInv
<1>7. MessagesInv'
  BY <1>2, <1>4, <1>6 DEF TruthInv, MessagesInv
<1>8. RowsTellTruth'
  BY <1>2, <1>3, <1>4 DEF TruthInv, RowsTellTruth, SmsTaken
<1>9. \A q \in Run : RunTrue(q)'
  BY <1>2, <1>6 DEF TruthInv, RunTrue, OneMore
<1> QED
  BY <1>2, <1>7, <1>8, <1>9 DEF TruthInv, CallTrue, SmsTaken

(* A retry starts a row again, whatever has become of it meanwhile; after a *)
(* restart the rows are all there is.                                       *)
LEMMA RetryStep ==
  ASSUME TruthInv, SaveRetry \/ \E e \in Message : LoadRetry(e)
  PROVE  TruthInv'
<1>1. CASE SaveRetry
  <2>1. PICK e \in Message : desk = e
    BY <1>1 DEF SaveRetry, TruthInv, MessagesInv
  <2>2. /\ mail' = [mail EXCEPT ![e] = [status |-> "pending", attempts |-> 0]]
        /\ desk' = NoRetry
        /\ UNCHANGED <<at, sms, run, tried, taken>>
    BY <1>1, <2>1 DEF SaveRetry
  <2>3. [status |-> "pending", attempts |-> 0] \in MailRow
    BY DEF MailRow
  <2>4. MessagesInv'
    BY <2>2, <2>3 DEF TruthInv, MessagesInv
  <2>5. \A d \in Message :
          \/ mail'[d] = mail[d]
          \/ mail'[d].status = "pending" /\ mail'[d].attempts = 0
    BY <2>2 DEF TruthInv, MessagesInv
  <2>6. RowsTellTruth'
    <3>1. ASSUME NEW d \in Message
          PROVE  /\ mail'[d].status = "sent" => <<d, "email">> \in taken
                 /\ mail'[d].attempts <= tried[d]
      <4>1. tried[d] \in Nat /\ mail[d].attempts <= tried[d]
        BY MessageFacts DEF TruthInv, RowsTellTruth, SmsTaken
      <4>2. mail[d].status = "sent" => <<d, "email">> \in taken
        BY DEF TruthInv, RowsTellTruth, SmsTaken
      <4>3. mail'[d].status = "sent" => mail[d].status = "sent"
        BY <2>5
      <4>4. mail'[d].attempts = mail[d].attempts \/ mail'[d].attempts = 0
        BY <2>5
      <4> QED
        BY <4>1, <4>2, <4>3, <4>4
    <3> QED
      BY <2>2, <3>1 DEF TruthInv, RowsTellTruth, SmsTaken
  <2> QED
    BY <2>2, <2>4, <2>6 DEF TruthInv, CallTrue, SmsTaken, RunTrue, OneMore
<1>2. CASE \E e \in Message : LoadRetry(e)
  <2>1. desk' \in Message /\ UNCHANGED <<at, mail, sms, run, tried, taken>>
    BY <1>2 DEF LoadRetry, messageRows
  <2> QED
    BY <2>1 DEF TruthInv, MessagesInv, RowsTellTruth, SmsTaken, CallTrue, RunTrue, OneMore
<1> QED
  BY <1>1, <1>2

LEMMA MessagingCrashStep == TruthInv /\ MessagingCrash => TruthInv'
<1> SUFFICES ASSUME TruthInv, MessagingCrash PROVE TruthInv'
  OBVIOUS
<1>1. /\ UNCHANGED <<mail, sms, tried, taken>>
      /\ desk' = NoRetry
      /\ at' = [e \in Message |-> IF at[e] = "new" THEN "new" ELSE "gone"]
      /\ run' = [r \in Run |-> Resting]
  BY DEF MessagingCrash, messageRows
<1> QED
  BY <1>1 DEF TruthInv, MessagesInv, RunState, Resting, RowsTellTruth, SmsTaken, CallTrue, RunTrue

LEMMA TruthNext == TruthInv /\ [MessagingNext]_messagingVars => TruthInv'
<1> SUFFICES ASSUME TruthInv, [MessagingNext]_messagingVars PROVE TruthInv'
  OBVIOUS
<1>1. CASE UNCHANGED messagingVars
  BY <1>1
  DEF messagingVars, TruthInv, MessagesInv, RowsTellTruth, SmsTaken,
      CallTrue, RunTrue, OneMore
<1>2. CASE MessagingNext
  BY <1>1, <1>2, CallStep, ProcessQueueStep, LoadMailStep, SendMailStep, SaveMailStep,
     RetryStep, MessagingCrashStep
  DEF MessagingNext, RunStep, AllHandled
<1> QED
  BY <1>1, <1>2

(* What the table of mails says has happened: no overlap of runs, no retry  *)
(* and no restart makes a row claim a mail that the mail server did not     *)
(* take, or more attempts than were made (sendEmail, retryEmail).  A text   *)
(* message that is called sent was answered without an HTTP error, or was   *)
(* simulated (sendSms).                                                     *)
THEOREM RowsAreTrue == MessagingSpec => []RowsTellTruth
<1>1. TruthInv => RowsTellTruth
  BY DEF TruthInv
<1> QED
  BY TruthInitially, TruthNext, <1>1, PTL DEF MessagingSpec

-----------------------------------------------------------------------------
(* The run of approvals and codes.                                          *)

(* A behaviour of the run is one of the workflow with the loan desk and one *)
(* of the codes, so that what is proved of each holds in the run.           *)
LEMMA MixedIsBoth == MixedSpec => LoansSpec /\ CodesSpec
<1>1. MixedInit => Init /\ CodesInit
  BY DEF MixedInit
<1>2. [MixedNext]_<<part, approvalVars, codesVars>> =>
        [LoansNext]_approvalVars /\ [CodesNext]_codesVars
  BY DEF MixedNext
<1> QED
  BY <1>1, <1>2, PTL DEF MixedSpec, LoansSpec, CodesSpec

(* What the run says of levels, attempts and everything else that has a     *)
(* type: no level above the last one, no more attempts than allowed.        *)
THEOREM WorkflowAndCodesTypes == MixedSpec => []MixedTypeOK
<1>1. ApprovalTypeOK /\ CodesTypeOK => MixedTypeOK
  BY DEF MixedTypeOK
<1> QED
  BY MixedIsBoth, ApprovalTypes, CodeTypes, <1>1, PTL
=============================================================================
