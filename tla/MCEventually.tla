--------------------------- MODULE MCEventually ---------------------------
(***************************************************************************)
(* What must happen in the end: payments are answered (PaystackCredit) and  *)
(* queued mail is tried (Messaging).  The queue shares no rows with the     *)
(* payments, so that a behaviour is one of the one or of the other.         *)
(***************************************************************************)
EXTENDS MCPaystackCredit, Messaging

CONSTANTS c1, c2, b1, b2

VARIABLE part      \* the component that this behaviour is of

EventuallyInit ==
  /\ part \in {"payments", "messages"}
  /\ PaystackInit /\ MessagingInit
  /\ part = "payments" => batch = 1 /\ \A u \in User : contribution[u] = 0
  /\ part = "messages" =>
       /\ owner = [w \in Wallet |-> NoUser]
       /\ contribution = [u \in User |-> Null]
EventuallyNext ==
  \/ part = "payments" /\ PaystackNext /\ UNCHANGED <<part, messagingVars>>
  \/ part = "messages" /\ MessagingNext /\ UNCHANGED <<part, allVars>>
EventuallySpec ==
  /\ EventuallyInit
  /\ [][EventuallyNext]_<<part, allVars, messagingVars>>
  /\ PaystackFairness /\ MessagingFairness
=============================================================================
