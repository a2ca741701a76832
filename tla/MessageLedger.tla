--------------------------- MODULE MessageLedger ---------------------------
(***************************************************************************)
(* What the persistence of one run promises, message by message and        *)
(* without sequence numbers, retries or queues.  A message is handed over, *)
(* becomes durable at once or waits in memory for a later attempt, and is  *)
(* lost only when the memory that held it goes away, or when what is       *)
(* durable is withdrawn on purpose.                                        *)
(***************************************************************************)
EXTENDS Naturals

CONSTANT MaxMessages    \* how many messages the conversation produces

Message == 1 .. MaxMessages

Fate == {"new", "offered", "queued", "stored", "lost"}

VARIABLES
    fate,               \* fate[m]: where message m is
    holder              \* which memory holds what is not yet durable

vars == <<fate, holder>>

TypeOK == fate \in [Message -> Fate]

Init == fate = [m \in Message |-> "new"]

(* The conversation hands the next message over; they come in order.       *)
Offer(m) ==
    /\ fate[m] = "new"
    /\ \A k \in Message : k < m => fate[k] # "new"
    /\ \A k \in Message : fate[k] # "offered"
    /\ fate' = [fate EXCEPT ![m] = "offered"]
    /\ UNCHANGED holder

(* A message in hand, or one that waited, becomes durable.                 *)
Store(m) ==
    /\ fate[m] \in {"offered", "queued"}
    /\ fate' = [fate EXCEPT ![m] = "stored"]
    /\ UNCHANGED holder

(* The store refuses; the message waits in memory.                         *)
Enqueue(m) ==
    /\ fate[m] = "offered"
    /\ fate' = [fate EXCEPT ![m] = "queued"]
    /\ UNCHANGED holder

(* The memory is replaced or goes away, with everything it still held.     *)
Forget ==
    /\ holder' # holder
    /\ fate' = [m \in Message |->
                  IF fate[m] \in {"offered", "queued"} THEN "lost" ELSE fate[m]]

(* A durable message is withdrawn while nothing is being handed over.      *)
Withdraw(m) ==
    /\ fate[m] = "stored"
    /\ \A k \in Message : fate[k] # "offered"
    /\ fate' = [fate EXCEPT ![m] = "lost"]
    /\ UNCHANGED holder

Next ==
    \/ \E m \in Message : Offer(m) \/ Store(m) \/ Enqueue(m) \/ Withdraw(m)
    \/ Forget

Spec == Init /\ [][Next]_vars
=============================================================================
