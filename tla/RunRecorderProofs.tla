------------------------- MODULE RunRecorderProofs -------------------------
(***************************************************************************)
(* Theorems about RunRecorder, for every number of messages, retries,      *)
(* failures and resumptions.                                               *)
(*                                                                         *)
(* LogInv holds whoever calls the recorder; SerialInv adds what holds when *)
(* the caller of finish_with waits for the engine (FinishWaits), and gives *)
(* the append-only log and the absence of duplicates.                      *)
(***************************************************************************)
EXTENDS RunRecorder, TLAPS, SequenceTheorems, WellFoundedInduction, NaturalsInduction

-----------------------------------------------------------------------------
(* The counter is never behind the log, nor behind an INSERT in flight.    *)
SeqBounded == \A r \in rows : r.seq <= lastSeq
SlotBounded == \A c \in Caller : pc[c] = "insert" => slot[c] <= lastSeq

(* Before begin there is nothing of the run anywhere.                      *)
NotBegun == status = "absent" => rows = {} /\ handle = "none" /\ Idle

(* A call that persists has a message to persist; only the finisher's call *)
(* has no message of its own.                                              *)
CallHasJob ==
    /\ own["finisher"] = NoMessage
    /\ pc["writer"] # "idle" => own["writer"] # NoMessage
    /\ pc["writer"] # "close"
    /\ \A c \in Caller : pc[c] \in {"persist", "activate", "insert"} => job[c] # NoMessage

LogInv == TypeOK /\ SeqBounded /\ SlotBounded /\ NotBegun /\ CallHasJob

Label == {"idle", "flush", "persist", "activate", "insert", "pop", "close"}

(* A nonempty log has a highest sequence number: resume can continue.      *)
LEMMA MaxMessageSeqIsMax ==
    ASSUME TypeOK, SeqBounded
    PROVE  /\ MaxMessageSeq \in Nat
           /\ \A r \in rows : r.seq <= MaxMessageSeq
           /\ rows # {} => MaxMessageSeq \in Seqs
<1> DEFINE Bound == {n \in Nat : \A s \in Seqs : s <= n}
<1>1. Seqs \subseteq Nat
  BY DEF TypeOK, Seqs, Row
<1>2. CASE rows = {}
  BY <1>2 DEF MaxMessageSeq
<1>3. CASE rows # {}
  <2>1. lastSeq \in Bound
    BY DEF TypeOK, SeqBounded, Seqs
  <2>2. PICK n \in Bound : \A m \in Bound : ~ (<<m, n>> \in OpToRel(<, Nat))
    <3>1. Bound \subseteq Nat /\ Bound # {}
      BY <2>1
    <3>2. QED
      BY <3>1, NatLessThanWellFounded, WFMin
  <2>3. n \in Seqs
    <3>1. SUFFICES ASSUME n \notin Seqs PROVE FALSE
      OBVIOUS
    <3>2. PICK s \in Seqs : TRUE
      BY <1>3 DEF Seqs
    <3>3. s \in Nat /\ s < n
      BY <1>1, <3>1, <3>2
    <3>4. n - 1 \in Bound
      BY <1>1, <3>1, <3>3
    <3>5. n \in Nat /\ n - 1 \in Nat /\ n - 1 < n
      BY <3>3
    <3>6. <<n - 1, n>> \in OpToRel(<, Nat)
      BY <3>5 DEF OpToRel
    <3>7. QED
      BY <2>2, <3>4, <3>6
  <2>4. \A t \in Seqs : t <= n
    OBVIOUS
  <2>5. \E s \in Seqs : \A t \in Seqs : t <= s
    BY <2>3, <2>4
  <2>6. /\ MaxMessageSeq \in Seqs
        /\ \A t \in Seqs : t <= MaxMessageSeq
    BY <1>3, <2>5 DEF MaxMessageSeq
  <2>7. QED
    BY <1>1, <2>6 DEF Seqs
<1>4. QED
  BY <1>2, <1>3
-----------------------------------------------------------------------------
(* LogInv is inductive; each action is one step.                           *)
LEMMA LogInvInit == Init => LogInv
<1> SUFFICES ASSUME Init PROVE LogInv
  OBVIOUS
<1> USE ConstantsAssumption DEF Init
<1>1. rows \in SUBSET Row /\ everQueued \in SUBSET Message
  OBVIOUS
<1>2. pending \in Seq(Message)
  BY EmptySeq
<1>3. own \in [Caller -> Message \cup {NoMessage}]
  BY DEF NoMessage
<1>4. job \in [Caller -> Message \cup {NoMessage}]
  BY DEF NoMessage
<1>5. attempt \in [Caller -> 0 .. Retries]
  OBVIOUS
<1>6. final \in Terminal
  BY DEF Terminal
<1>7. pc \in [Caller -> Label] /\ slot \in [Caller -> Nat]
  BY DEF Label
<1>8. produced \in 0 .. MaxMessages /\ failures \in 0 .. MaxFailures /\ resumes \in 0 .. MaxResumes
  OBVIOUS
<1>9. TypeOK
  BY <1>1, <1>2, <1>3, <1>4, <1>5, <1>6, <1>7, <1>8 DEF TypeOK, Label
<1>10. SeqBounded /\ SlotBounded /\ NotBegun /\ CallHasJob
  BY DEF SeqBounded, SlotBounded, NotBegun, CallHasJob, Idle, Caller
<1>11. QED
  BY <1>9, <1>10 DEF LogInv

LEMMA LogInvStep == LogInv /\ [Next]_vars => LogInv'
<1> SUFFICES ASSUME LogInv, [Next]_vars
             PROVE  LogInv'
  OBVIOUS
<1> USE ConstantsAssumption DEF LogInv, TypeOK, SeqBounded, SlotBounded, NotBegun,
        CallHasJob, Goto, Idle, Alone, db, memory, calls, bounds
<1>0. /\ \A r \in rows : r.seq \in Nat /\ r.msg \in Message
      /\ NoMessage \notin Message
  BY DEF Row, Message, NoMessage
<1>1. CASE Begin
  <2>1. pending' \in Seq(Message)
    BY <1>1, EmptySeq DEF Begin
  <2>2. rows' = {} /\ \A c \in Caller : pc'[c] = "idle"
    BY <1>1 DEF Begin
  <2>3. UNCHANGED <<calls, bounds>>
    BY <1>1 DEF Begin
  <2>4. QED
    BY <1>1, <2>1, <2>2, <2>3 DEF Begin
<1>2. CASE Resume
  <2>1. MaxMessageSeq \in Nat /\ \A r \in rows : r.seq <= MaxMessageSeq
    BY MaxMessageSeqIsMax
  <2>2. pending' \in Seq(Message)
    BY <1>2, EmptySeq DEF Resume
  <2>3. resumes' \in 0 .. MaxResumes /\ UNCHANGED <<pc, slot, own, job>>
    BY <1>2 DEF Resume
  <2>4. TypeOK'
    BY <1>2, <2>1, <2>2, <2>3 DEF Resume
  <2>5. SeqBounded' /\ SlotBounded' /\ NotBegun' /\ CallHasJob'
    BY <1>2, <2>1, <2>3 DEF Resume
  <2>6. QED
    BY <2>4, <2>5
<1>3. CASE StartupSweep
  BY <1>3 DEF StartupSweep, Terminal
<1>4. CASE WriteMessage
  <2>1. produced + 1 \in Message /\ produced' \in 0 .. MaxMessages
    BY <1>4 DEF WriteMessage, Message
  <2>2. own' \in [Caller -> Message \cup {NoMessage}] /\ own'["writer"] = produced + 1
    BY <1>4, <2>1 DEF WriteMessage, Caller
  <2>3. own'["finisher"] = NoMessage
    BY <1>4 DEF WriteMessage, Caller
  <2>4. /\ pc' \in [Caller -> Label] /\ pc'["writer"] = "flush"
        /\ \A d \in Caller \ {"writer"} : pc'[d] = pc[d]
    BY <1>4 DEF WriteMessage, Caller, Label
  <2>5. UNCHANGED <<db, memory, job, attempt, slot, final, failures, resumes, everQueued>>
    BY <1>4 DEF WriteMessage
  <2>6. handle # "none"
    BY <1>4 DEF WriteMessage
  <2>7. QED
    BY <1>0, <2>1, <2>2, <2>3, <2>4, <2>5, <2>6 DEF Label
<1>5. ASSUME NEW s \in Terminal, FinishWith(s) PROVE LogInv'
  BY <1>5 DEF FinishWith, Caller, Terminal
<1>6. ASSUME NEW c \in Caller, FlushFront(c) PROVE LogInv'
  <2>1. pending # <<>> => Head(pending) \in Message
    BY HeadTailProperties
  <2>2. job' \in [Caller -> Message \cup {NoMessage}] /\ attempt' \in [Caller -> 0 .. Retries]
    <3>1. PICK x \in Message \cup {NoMessage} : job' = [job EXCEPT ![c] = x]
      BY <1>6, <2>1 DEF FlushFront
    <3>2. attempt' = [attempt EXCEPT ![c] = 0]
      BY <1>6 DEF FlushFront
    <3>3. QED
      BY <3>1, <3>2
  <2>3. pc' \in [Caller -> Label] /\ pc'[c] # "insert" /\ \A d \in Caller \ {c} : pc'[d] = pc[d]
    BY <1>6 DEF FlushFront, AfterFlush, Label
  <2>4. UNCHANGED <<db, memory, own, slot, final, bounds>> /\ pc[c] = "flush"
    BY <1>6 DEF FlushFront
  <2>5. TypeOK' /\ SeqBounded' /\ SlotBounded' /\ NotBegun'
    BY <2>2, <2>3, <2>4 DEF Label
  <2>6. CallHasJob'
    BY <1>0, <1>6, <2>1 DEF FlushFront, AfterFlush, Caller
  <2>7. QED
    BY <2>5, <2>6
<1>7. ASSUME NEW c \in Caller, PersistOnce(c) PROVE LogInv'
  <2>1. CASE activated
    <3>0. slot' = [slot EXCEPT ![c] = lastSeq + 1] /\ lastSeq' = lastSeq + 1
      BY <1>7, <2>1 DEF PersistOnce
    <3>1. /\ slot' \in [Caller -> Nat] /\ slot'[c] = lastSeq'
          /\ \A d \in Caller \ {c} : slot'[d] = slot[d]
      BY <3>0
    <3>2. /\ pc' \in [Caller -> Label] /\ pc[c] = "persist" /\ pc'[c] = "insert"
          /\ \A d \in Caller \ {c} : pc'[d] = pc[d]
      BY <1>7, <2>1 DEF PersistOnce, Label
    <3>3. lastSeq' = lastSeq + 1 /\ activated' = TRUE
      BY <1>7, <2>1 DEF PersistOnce
    <3>4. UNCHANGED <<db, handle, pending, own, job, attempt, final, bounds>>
      BY <1>7 DEF PersistOnce
    <3>5. TypeOK'
      BY <3>1, <3>2, <3>3, <3>4 DEF Label
    <3>6. SeqBounded'
      BY <1>0, <3>3, <3>4
    <3>7. SlotBounded'
      <4>1. SUFFICES ASSUME NEW d \in Caller, pc'[d] = "insert" PROVE slot'[d] <= lastSeq'
        OBVIOUS
      <4>2. CASE d = c
        BY <3>1, <3>3, <4>2
      <4>3. CASE d # c
        BY <3>1, <3>2, <3>3, <4>1, <4>3
      <4>4. QED
        BY <4>2, <4>3
    <3>8. NotBegun'
      BY <3>2, <3>4
    <3>9. CallHasJob'
      BY <3>2, <3>4 DEF Caller
    <3>10. QED
      BY <3>5, <3>6, <3>7, <3>8, <3>9
  <2>2. CASE ~ activated
    <3>1. /\ pc' \in [Caller -> Label] /\ pc[c] = "persist" /\ pc'[c] = "activate"
          /\ \A d \in Caller \ {c} : pc'[d] = pc[d]
      BY <1>7, <2>2 DEF PersistOnce, Label
    <3>2. /\ UNCHANGED <<db, handle, pending, own, job, attempt, final, bounds, lastSeq, slot>>
          /\ activated' = TRUE
      BY <1>7, <2>2 DEF PersistOnce
    <3>3. TypeOK' /\ SeqBounded'
      BY <3>1, <3>2 DEF Label
    <3>4. SlotBounded' /\ NotBegun'
      BY <3>1, <3>2
    <3>5. CallHasJob'
      BY <3>1, <3>2 DEF Caller
    <3>6. QED
      BY <3>3, <3>4, <3>5
  <2>3. QED
    BY <2>1, <2>2
<1>8. ASSUME NEW c \in Caller, ActivateOk(c) PROVE LogInv'
  <2>1. /\ slot' \in [Caller -> Nat] /\ slot'[c] = lastSeq'
        /\ \A d \in Caller \ {c} : slot'[d] = slot[d]
    BY <1>8 DEF ActivateOk
  <2>2. /\ pc' \in [Caller -> Label] /\ pc[c] = "activate" /\ pc'[c] = "insert"
        /\ \A d \in Caller \ {c} : pc'[d] = pc[d]
    BY <1>8 DEF ActivateOk, Label
  <2>3. lastSeq' = lastSeq + 1 /\ status' = "running"
    BY <1>8 DEF ActivateOk
  <2>4. UNCHANGED <<rows, handle, activated, pending, own, job, attempt, final, bounds>>
    BY <1>8 DEF ActivateOk
  <2>5. TypeOK'
    BY <2>1, <2>2, <2>3, <2>4 DEF Label
  <2>6. SeqBounded'
    BY <1>0, <2>3, <2>4
  <2>7. SlotBounded'
    <3>1. SUFFICES ASSUME NEW d \in Caller, pc'[d] = "insert" PROVE slot'[d] <= lastSeq'
      OBVIOUS
    <3>2. CASE d = c
      BY <2>1, <2>3, <3>2
    <3>3. CASE d # c
      BY <2>1, <2>2, <2>3, <3>1, <3>3
    <3>4. QED
      BY <3>2, <3>3
  <2>8. NotBegun'
    BY <2>3
  <2>9. CallHasJob'
    BY <2>2, <2>4 DEF Caller
  <2>10. QED
    BY <2>5, <2>6, <2>7, <2>8, <2>9
<1>9. ASSUME NEW c \in Caller, InsertOk(c) PROVE LogInv'
  <2>1. job[c] \in Message /\ slot[c] \in Nat /\ slot[c] <= lastSeq /\ pc[c] = "insert"
    BY <1>9 DEF InsertOk
  <2>2. rows' = rows \cup {[seq |-> slot[c], msg |-> job[c]]}
    BY <1>9 DEF InsertOk
  <2>3. rows' \in SUBSET Row /\ SeqBounded'
    BY <1>9, <2>1, <2>2 DEF InsertOk, Row
  <2>4. /\ pc' \in [Caller -> Label] /\ pc'[c] \in {"idle", "pop"}
        /\ \A d \in Caller \ {c} : pc'[d] = pc[d]
    BY <1>9 DEF InsertOk, Label
  <2>5. /\ own' \in [Caller -> Message \cup {NoMessage}]
        /\ \A d \in Caller \ {c} : own'[d] = own[d]
        /\ own'[c] = own[c] \/ (own'[c] = NoMessage /\ pc'[c] = "idle")
    BY <1>9 DEF InsertOk
  <2>6. UNCHANGED <<status, memory, job, attempt, slot, final, produced, failures, resumes, everQueued>>
    BY <1>9 DEF InsertOk
  <2>7. TypeOK'
    BY <2>3, <2>4, <2>5, <2>6 DEF Label
  <2>8. SlotBounded' /\ NotBegun'
    BY <2>1, <2>4, <2>6
  <2>9. CallHasJob'
    <3>1. own'["finisher"] = NoMessage
      BY <2>5 DEF Caller
    <3>2. pc'["writer"] # "idle" => own'["writer"] # NoMessage
      BY <2>1, <2>4, <2>5 DEF Caller
    <3>3. pc'["writer"] # "close"
      BY <2>4 DEF Caller
    <3>4. QED
      BY <2>4, <2>6, <3>1, <3>2, <3>3
  <2>10. QED
    BY <2>3, <2>7, <2>8, <2>9
<1>10. ASSUME NEW c \in Caller, PopFront(c) PROVE LogInv'
  <2>1. pending' \in Seq(Message)
    BY <1>10, EmptySeq, HeadTailProperties DEF PopFront
  <2>2. QED
    BY <1>10, <2>1 DEF PopFront
<1>11. ASSUME NEW c \in Caller, RetryAttempt(c) PROVE LogInv'
  <2>1. failures' \in 0 .. MaxFailures
    BY <1>11 DEF RetryAttempt, StatementFails
  <2>2. /\ attempt' = [attempt EXCEPT ![c] = @ + 1] /\ attempt[c] < Retries
        /\ pc' = [pc EXCEPT ![c] = "persist"] /\ pc[c] \in {"activate", "insert"}
        /\ UNCHANGED <<db, memory, own, job, slot, final, produced, resumes, everQueued>>
    BY <1>11 DEF RetryAttempt, StatementFails
  <2>3. attempt' \in [Caller -> 0 .. Retries]
    BY <2>2
  <2>4. TypeOK' /\ SeqBounded'
    BY <2>1, <2>2, <2>3
  <2>5. SlotBounded' /\ NotBegun' /\ CallHasJob'
    BY <2>2
  <2>6. QED
    BY <2>4, <2>5
<1>12. ASSUME NEW c \in Caller, FlushGivesUp(c) PROVE LogInv'
  <2>1. c \in {"writer", "finisher"}
    BY DEF Caller
  <2>2. TypeOK' /\ SeqBounded' /\ SlotBounded' /\ NotBegun'
    BY <1>12 DEF FlushGivesUp, StatementFails, AfterFlush
  <2>3. CallHasJob'
    BY <1>12, <2>1 DEF FlushGivesUp, StatementFails, AfterFlush
  <2>4. QED
    BY <2>2, <2>3
<1>13. ASSUME NEW c \in Caller, EnqueueOwn(c) PROVE LogInv'
  <2>1. own[c] \in Message
    BY <1>13 DEF EnqueueOwn, StatementFails
  <2>2. pending' \in Seq(Message) /\ everQueued' \in SUBSET Message
    BY <1>13, <2>1, AppendProperties DEF EnqueueOwn
  <2>3. own' \in [Caller -> Message \cup {NoMessage}] /\ pc' \in [Caller -> Label]
    BY <1>13 DEF EnqueueOwn, Label
  <2>4. failures' \in 0 .. MaxFailures
    BY <1>13 DEF EnqueueOwn, StatementFails
  <2>5. TypeOK'
    BY <1>13, <2>2, <2>3, <2>4 DEF EnqueueOwn, Label
  <2>6. SeqBounded' /\ SlotBounded' /\ NotBegun' /\ CallHasJob'
    BY <1>13 DEF EnqueueOwn, StatementFails
  <2>7. QED
    BY <2>5, <2>6
<1>14. CASE FinishRun
  BY <1>14 DEF FinishRun, Caller, Terminal
<1>15. CASE Drop
  BY <1>15, EmptySeq DEF Drop
<1>16. CASE Crash
  BY <1>16, EmptySeq DEF Crash, NoMessage, Caller
<1>17. CASE DropTail
  <2>1. rows' \subseteq rows /\ UNCHANGED <<status, memory, calls, bounds>>
    BY <1>17 DEF DropTail, WithoutTail
  <2>2. TypeOK' /\ SeqBounded' /\ SlotBounded' /\ NotBegun' /\ CallHasJob'
    BY <2>1
  <2>3. QED
    BY <2>2
<1>18. CASE UNCHANGED vars
  BY <1>18 DEF vars
<1>19. QED
  BY <1>1, <1>2, <1>3, <1>4, <1>5, <1>6, <1>7, <1>8, <1>9, <1>10, <1>11, <1>12,
     <1>13, <1>14, <1>15, <1>16, <1>17, <1>18 DEF Next, Step

(* TypeCorrect: every variable of the recorder keeps its type; in          *)
(* particular a stored row always carries a message of the conversation    *)
(* and the retry count never passes the limit.                             *)
THEOREM TypeCorrect == Spec => []TypeOK
<1>1. LogInv => TypeOK
  BY DEF LogInv
<1>2. QED
  BY LogInvInit, LogInvStep, <1>1, PTL DEF Spec
-----------------------------------------------------------------------------
(* Where the caller of finish_with waits for the engine, the recorder has  *)
(* one user at a time: the engine while the session holds it, the finisher *)
(* once it was taken.                                                      *)
OneUser ==
    /\ handle = "open" => pc["finisher"] = "idle"
    /\ handle = "taken" => pc["writer"] = "idle"
    /\ handle \in {"none", "crashed"} => Idle

(* The number of an INSERT in flight is fresh.                             *)
SlotIsFresh ==
    \A c \in Caller : pc[c] = "insert" => \A r \in rows : r.seq < slot[c]

(* The unique index, as an invariant: no two rows have the same number.    *)
OnePerNumber == \A r1, r2 \in rows : r1.seq = r2.seq => r1 = r2

SerialInv == LogInv /\ OneUser /\ SlotIsFresh /\ OnePerNumber

LEMMA OthersIdle ==
    ASSUME TypeOK, OneUser, NEW c \in Caller, pc[c] # "idle"
    PROVE  \A d \in Caller \ {c} : pc[d] = "idle"
BY DEF TypeOK, OneUser, Idle, Caller

LEMMA OneUserStep ==
    ASSUME FinishWaits, LogInv, OneUser, [Next]_vars
    PROVE  OneUser'
<1> USE DEF LogInv, TypeOK, OneUser, NotBegun, Goto, Idle, Alone, memory, calls
<1>1. CASE Begin
  BY <1>1 DEF Begin, Caller
<1>2. CASE Resume
  BY <1>2 DEF Resume, Caller
<1>3. CASE StartupSweep \/ DropTail
  BY <1>3 DEF StartupSweep, DropTail
<1>4. CASE WriteMessage
  BY <1>4 DEF WriteMessage, Caller
<1>5. ASSUME NEW s \in Terminal, FinishWith(s) PROVE OneUser'
  BY <1>5 DEF FinishWith, Caller
<1>6. ASSUME NEW c \in Caller, Step(c) PROVE OneUser'
  <2>1. pc[c] # "idle" /\ UNCHANGED handle /\ \A d \in Caller \ {c} : pc'[d] = pc[d]
    BY <1>6 DEF Step, FlushFront, PersistOnce, ActivateOk, InsertOk, PopFront, StatementFails,
                RetryAttempt, FlushGivesUp, EnqueueOwn
  <2>2. QED
    BY <2>1 DEF Caller
<1>7. CASE FinishRun
  BY <1>7 DEF FinishRun, Caller
<1>8. CASE Drop
  BY <1>8 DEF Drop
<1>9. CASE Crash
  BY <1>9 DEF Crash, Caller
<1>10. CASE UNCHANGED vars
  BY <1>10 DEF vars
<1>11. QED
  BY <1>1, <1>2, <1>3, <1>4, <1>5, <1>6, <1>7, <1>8, <1>9, <1>10 DEF Next

LEMMA SlotIsFreshStep ==
    ASSUME LogInv, OneUser, SlotIsFresh, [Next]_vars
    PROVE  SlotIsFresh'
<1> USE DEF LogInv, TypeOK, SlotIsFresh, Goto, db, calls
<1>0. \A r \in rows : r.seq \in Nat /\ r.seq < lastSeq + 1
  BY DEF SeqBounded, Row
<1>1. CASE Begin \/ Resume \/ StartupSweep \/ Drop \/ UNCHANGED vars
  <2>1. UNCHANGED <<pc, slot>> /\ (rows' = rows)
    BY <1>1 DEF Begin, Resume, StartupSweep, Drop, vars
  <2>2. QED
    BY <2>1
<1>2. CASE WriteMessage
  BY <1>2 DEF WriteMessage, Caller
<1>3. ASSUME NEW s \in Terminal, FinishWith(s) PROVE SlotIsFresh'
  BY <1>3 DEF FinishWith, Caller
<1>4. ASSUME NEW c \in Caller, Step(c) PROVE SlotIsFresh'
  <2>1. pc[c] # "idle" /\ \A d \in Caller \ {c} : pc'[d] = pc[d]
    BY <1>4 DEF Step, FlushFront, PersistOnce, ActivateOk, InsertOk, PopFront, StatementFails,
                RetryAttempt, FlushGivesUp, EnqueueOwn
  <2>2. \A d \in Caller \ {c} : pc'[d] # "insert"
    BY <2>1, OthersIdle
  <2>3. pc'[c] = "insert" => UNCHANGED rows /\ slot'[c] = lastSeq + 1
    BY <1>4 DEF Step, FlushFront, PersistOnce, ActivateOk, InsertOk, PopFront, StatementFails,
                RetryAttempt, FlushGivesUp, EnqueueOwn, AfterFlush
  <2>4. QED
    BY <1>0, <2>2, <2>3
<1>5. CASE FinishRun
  BY <1>5 DEF FinishRun, Caller
<1>6. CASE Crash
  BY <1>6 DEF Crash
<1>7. CASE DropTail
  BY <1>7 DEF DropTail, Alone, Idle
<1>8. QED
  BY <1>1, <1>2, <1>3, <1>4, <1>5, <1>6, <1>7 DEF Next

(* Every number is taken once: the row an INSERT adds is above all others. *)
LEMMA OnePerNumberStep ==
    ASSUME LogInv, SlotIsFresh, OnePerNumber, [Next]_vars
    PROVE  OnePerNumber'
<1> USE DEF OnePerNumber, db
<1>1. ASSUME NEW c \in Caller, InsertOk(c) PROVE OnePerNumber'
  <2>1. /\ rows' = rows \cup {[seq |-> slot[c], msg |-> job[c]]}
        /\ \A r \in rows : r.seq # slot[c]
    BY <1>1 DEF InsertOk, Seqs
  <2>2. QED
    BY <2>1
<1>2. CASE DropTail
  BY <1>2 DEF DropTail, WithoutTail
<1>3. CASE UNCHANGED rows
  BY <1>3
<1>4. QED
  BY <1>1, <1>2, <1>3 DEF Next, Step, Begin, Resume, StartupSweep, WriteMessage, FinishWith,
     FlushFront, PersistOnce, ActivateOk, PopFront, RetryAttempt, FlushGivesUp, EnqueueOwn,
     FinishRun, Drop, Crash, vars

LEMMA SerialInvAlways == ASSUME FinishWaits PROVE Spec => []SerialInv
<1>1. Init => SerialInv
  BY LogInvInit DEF Init, SerialInv, OneUser, SlotIsFresh, OnePerNumber, Idle
<1>2. SerialInv /\ [Next]_vars => SerialInv'
  BY LogInvStep, OneUserStep, SlotIsFreshStep, OnePerNumberStep DEF SerialInv
<1>3. QED
  BY <1>1, <1>2, PTL DEF Spec

(* What the unique index on (run_id, seq) never has to refuse.             *)
NumbersFree == \A c \in Caller : pc[c] = "insert" => slot[c] \notin Seqs

(* NumbersAreFree: where the finisher waits for the engine and one recorder *)
(* writes at a time (Alone), the unique index never refuses: the number of *)
(* an INSERT in flight is above every row, through every burnt attempt,    *)
(* crash, resumption and deletion of the tail.                             *)
THEOREM NumbersAreFree == ASSUME FinishWaits PROVE Spec => []NumbersFree
<1>1. SerialInv => NumbersFree
  BY DEF SerialInv, LogInv, TypeOK, SlotIsFresh, NumbersFree, Seqs, Row
<1>2. QED
  BY SerialInvAlways, <1>1, PTL

(* The highest row is one row: deleting it leaves all that are below.      *)
LEMMA TailIsOneRow ==
    ASSUME SerialInv, DropTail
    PROVE  \E tail \in rows : /\ rows' = rows \ {tail}
                              /\ \A r \in rows' : r.seq < tail.seq
<1> USE DEF SerialInv, LogInv
<1>1. /\ MaxMessageSeq \in Nat
      /\ \A r \in rows : r.seq \in Nat /\ r.seq <= MaxMessageSeq
      /\ MaxMessageSeq \in Seqs
  BY MaxMessageSeqIsMax DEF DropTail, TypeOK, Row
<1>2. PICK tail \in rows : tail.seq = MaxMessageSeq
  BY <1>1 DEF Seqs
<1>3. rows' = {r \in rows : r.seq < MaxMessageSeq}
  BY DEF DropTail, WithoutTail
<1>4. \A r \in rows : r.seq < MaxMessageSeq <=> r # tail
  <2>1. \A r \in rows : r.seq = MaxMessageSeq => r = tail
    BY <1>2 DEF OnePerNumber
  <2>2. QED
    BY <1>1, <1>2, <2>1
<1>5. rows' = rows \ {tail}
  BY <1>3, <1>4
<1>6. \A r \in rows' : r.seq < tail.seq
  BY <1>2, <1>3
<1>7. QED
  BY <1>5, <1>6

(* LogAppendOnly: where the finisher waits for the engine and one recorder *)
(* writes at a time (Alone), the log of a run changes at its end only: it  *)
(* gains a row above all others, or, with no write in progress, loses the  *)
(* highest one, through every retry, crash and resumption.                 *)
THEOREM LogAppendOnly == ASSUME FinishWaits PROVE Spec => AppendOnly
<1>1. SerialInv /\ [Next]_vars => [GrowsAtEnd \/ LosesTail]_rows
  <2> SUFFICES ASSUME SerialInv, [Next]_vars, rows' # rows PROVE GrowsAtEnd \/ LosesTail
    OBVIOUS
  <2>1. (\E c \in Caller : InsertOk(c)) \/ DropTail
    BY DEF Next, Step, Begin, Resume, StartupSweep, WriteMessage, FinishWith, FlushFront,
           PersistOnce, ActivateOk, PopFront, RetryAttempt, FlushGivesUp, EnqueueOwn,
           FinishRun, Drop, Crash, vars, db
  <2>2. ASSUME NEW c \in Caller, InsertOk(c) PROVE GrowsAtEnd
    BY <2>2 DEF InsertOk, GrowsAtEnd, SerialInv, LogInv, TypeOK, SlotIsFresh
  <2>3. CASE DropTail
    BY <2>3, TailIsOneRow DEF LosesTail, DropTail, Alone
  <2>4. QED
    BY <2>1, <2>2, <2>3
<1>2. QED
  BY SerialInvAlways, <1>1, PTL DEF AppendOnly, Spec
-----------------------------------------------------------------------------
(* Where each message can be: the numbers of messages still to come are    *)
(* nowhere, the message in hand is neither stored nor queued, no message   *)
(* is queued twice, and a queued message is in the log only for the moment *)
(* between its INSERT and the pop, when it is the front.                   *)
Produced ==
    /\ \A r \in rows : r.msg <= produced
    /\ \A i \in DOMAIN pending : pending[i] <= produced
    /\ \A c \in Caller : own[c] <= produced

InHand ==
    /\ own["writer"] # NoMessage
        => own["writer"] \notin Stored /\ own["writer"] \notin Queued
    /\ \A c \in Caller : pc[c] \in {"persist", "activate", "insert"} =>
          job[c] = own[c] \/ (pending # <<>> /\ job[c] = Head(pending))

QueuedOnce ==
    /\ \A i, j \in DOMAIN pending : pending[i] = pending[j] => i = j
    /\ \A i \in DOMAIN pending : pending[i] \in Stored =>
          i = 1 /\ \E c \in Caller : pc[c] = "pop"

OnceInv == SerialInv /\ Produced /\ InHand /\ QueuedOnce /\ StoredOnce

LEMMA OnceInvStep ==
    ASSUME FinishWaits, OnceInv, [Next]_vars
    PROVE  (Produced /\ InHand /\ QueuedOnce /\ StoredOnce)'
<1> DEFINE Once == Produced /\ InHand /\ QueuedOnce /\ StoredOnce
<1> SUFFICES Once'
  OBVIOUS
<1> USE DEF OnceInv, SerialInv, LogInv, TypeOK, Produced, InHand, QueuedOnce, StoredOnce,
        Stored, Queued, NoMessage, Goto, Alone, db, memory, calls, bounds
<1>0. /\ \A r \in rows : r.seq \in Nat /\ r.msg \in Message
      /\ Message \subseteq Nat /\ 0 \notin Message
  BY DEF Row, Message
<1>1. CASE Begin \/ Resume \/ Drop
  <2>1. UNCHANGED <<rows, pc, own, job, produced>> /\ pending' = <<>>
    BY <1>1 DEF Begin, Resume, Drop
  <2>2. Idle
    BY <1>1 DEF Begin, Resume, Drop, NotBegun
  <2>3. QED
    BY <2>1, <2>2 DEF Idle, Caller
<1>2. CASE StartupSweep \/ UNCHANGED vars
  <2>1. UNCHANGED <<rows, pending, pc, own, job, produced>>
    BY <1>2 DEF StartupSweep, vars
  <2>2. QED
    BY <2>1
<1>3. CASE WriteMessage
  <2>1. UNCHANGED <<rows, pending, job>> /\ produced' = produced + 1 /\ produced \in Nat
    BY <1>3 DEF WriteMessage
  <2>2. /\ own'["writer"] = produced + 1 /\ pc'["writer"] = "flush"
        /\ \A d \in Caller \ {"writer"} : own'[d] = own[d] /\ pc'[d] = pc[d]
        /\ pc["writer"] = "idle"
    BY <1>3 DEF WriteMessage, Caller
  <2>3. \A i \in DOMAIN pending : pending[i] \in Message
    OBVIOUS
  <2>4. Produced'
    <3>1. ASSUME NEW r \in rows PROVE r.msg <= produced + 1
      <4>1. r.msg \in Nat /\ r.msg <= produced
        BY <1>0
      <4>2. QED
        BY <2>1, <4>1
    <3>2. ASSUME NEW i \in DOMAIN pending PROVE pending[i] <= produced + 1
      <4>1. pending[i] \in Nat /\ pending[i] <= produced
        BY <1>0, <2>3
      <4>2. QED
        BY <2>1, <4>1
    <3>3. own["finisher"] <= produced + 1
      BY <2>1 DEF CallHasJob, Caller
    <3>4. QED
      BY <2>1, <2>2, <3>1, <3>2, <3>3 DEF Caller
  <2>5. InHand'
    BY <1>0, <2>1, <2>2, <2>3 DEF Caller
  <2>6. QueuedOnce'
    BY ONLY <2>1, <2>2, QueuedOnce DEF QueuedOnce, Stored
  <2>7. StoredOnce'
    BY <2>1
  <2>8. QED
    BY <2>4, <2>5, <2>6, <2>7
<1>4. ASSUME NEW s \in Terminal, FinishWith(s) PROVE Once'
  <2>1. UNCHANGED <<rows, pending, own, job, produced>>
    BY <1>4 DEF FinishWith
  <2>2. /\ pc'["finisher"] = "flush" /\ pc["finisher"] = "idle"
        /\ \A d \in Caller \ {"finisher"} : pc'[d] = pc[d]
    BY <1>4 DEF FinishWith, Caller
  <2>3. InHand'
    BY ONLY <2>1, <2>2, InHand DEF InHand, Stored, Queued
  <2>4. QueuedOnce'
    BY ONLY <2>1, <2>2, QueuedOnce DEF QueuedOnce, Stored
  <2>5. Produced' /\ StoredOnce'
    BY <2>1
  <2>6. QED
    BY <2>3, <2>4, <2>5
<1>5. ASSUME NEW c \in Caller, FlushFront(c) PROVE Once'
  <2>1. UNCHANGED <<rows, pending, own, produced>>
    BY <1>5 DEF FlushFront
  <2>2. /\ pc[c] = "flush" /\ pc'[c] # "pop"
        /\ \A d \in Caller \ {c} : pc'[d] = pc[d] /\ job'[d] = job[d]
        /\ job'[c] = own[c] \/ (pending # <<>> /\ job'[c] = Head(pending))
    BY <1>5 DEF FlushFront, AfterFlush
  <2>3. InHand'
    BY ONLY <2>1, <2>2, InHand DEF InHand, Stored, Queued
  <2>4. QueuedOnce'
    BY ONLY <2>1, <2>2, QueuedOnce DEF QueuedOnce, Stored
  <2>5. Produced' /\ StoredOnce'
    BY <2>1
  <2>6. QED
    BY <2>3, <2>4, <2>5
<1>6. ASSUME NEW c \in Caller,
             PersistOnce(c) \/ ActivateOk(c) \/ RetryAttempt(c) \/ FlushGivesUp(c)
      PROVE  Once'
  <2>1. UNCHANGED <<rows, pending, own, produced>>
    BY <1>6 DEF PersistOnce, ActivateOk, RetryAttempt, FlushGivesUp
  <2>2. /\ pc[c] \in {"persist", "activate", "insert"} /\ pc'[c] # "pop"
        /\ \A d \in Caller \ {c} : pc'[d] = pc[d] /\ job'[d] = job[d]
        /\ job'[c] \in {job[c], own[c]}
    BY <1>6 DEF PersistOnce, ActivateOk, RetryAttempt, FlushGivesUp, StatementFails, AfterFlush
  <2>3. InHand'
    BY ONLY <2>1, <2>2, InHand DEF InHand, Stored, Queued
  <2>4. QueuedOnce'
    BY ONLY <2>1, <2>2, QueuedOnce DEF QueuedOnce, Stored
  <2>5. Produced' /\ StoredOnce'
    BY <2>1
  <2>6. QED
    BY <2>3, <2>4, <2>5
<1>7. ASSUME NEW c \in Caller, InsertOk(c) PROVE Once'
  <2>1. /\ rows' = rows \cup {[seq |-> slot[c], msg |-> job[c]]}
        /\ UNCHANGED <<pending, job, produced>>
    BY <1>7 DEF InsertOk
  <2>2. Stored' = Stored \cup {job[c]} /\ Queued' = Queued
    <3>1. Queued' = Queued
      BY <2>1
    <3>2. [seq |-> slot[c], msg |-> job[c]].msg = job[c]
      OBVIOUS
    <3>3. ASSUME NEW m PROVE m \in Stored' <=> m \in Stored \/ m = job[c]
      <4>1. m \in Stored' <=> \E r \in rows' : m = r.msg
        BY Zenon
      <4>2. m \in Stored <=> \E r \in rows : m = r.msg
        BY Zenon
      <4>3. QED
        BY <2>1, <3>2, <4>1, <4>2, Zenon
    <3>4. QED
      BY <3>1, <3>3
  <2>3. pc[c] = "insert" /\ \A d \in Caller \ {c} : pc[d] = "idle"
    BY <1>7, OthersIdle DEF InsertOk
  <2>4. \A i \in DOMAIN pending : pending[i] \notin Stored
    BY <2>3
  <2>5. job[c] # 0 /\ own["finisher"] = 0
    BY <1>7 DEF CallHasJob, InsertOk
  <2>6. CASE job[c] = own[c]
    <3>1. c = "writer"
      BY <2>5, <2>6 DEF Caller
    <3>2. job[c] \notin Stored /\ job[c] \notin Queued
      BY <2>5, <2>6, <3>1
    <3>3. /\ own' = [own EXCEPT ![c] = 0] /\ pc' = [pc EXCEPT ![c] = "idle"]
      BY <1>7, <2>6 DEF InsertOk
    <3>4. Produced'
      BY <1>0, <2>1, <2>6, <3>3 DEF Caller
    <3>5. InHand'
      BY <2>1, <2>3, <3>1, <3>3 DEF Caller
    <3>6. QueuedOnce'
      BY <2>1, <2>2, <2>4, <3>2
    <3>7. StoredOnce'
      BY <2>1, <3>2
    <3>8. QED
      BY <3>4, <3>5, <3>6, <3>7
  <2>7. CASE job[c] # own[c]
    <3>1. pending # <<>> /\ job[c] = Head(pending)
      BY <2>3, <2>7
    <3>2. 1 \in DOMAIN pending /\ job[c] = pending[1]
      BY <3>1
    <3>3. UNCHANGED own /\ pc' = [pc EXCEPT ![c] = "pop"]
      BY <1>7, <2>7 DEF InsertOk
    <3>4. job[c] \notin Stored /\ job[c] <= produced
      BY <2>4, <3>2
    <3>5. own["writer"] # 0 => own["writer"] # job[c]
      BY <3>2
    <3>6. Produced'
      BY <2>1, <3>3, <3>4
    <3>7. InHand'
      BY <2>1, <2>2, <2>3, <3>3, <3>5
    <3>8. QueuedOnce'
      BY <2>1, <2>2, <2>4, <3>2, <3>3
    <3>9. StoredOnce'
      BY <2>1, <3>4
    <3>10. QED
      BY <3>6, <3>7, <3>8, <3>9
  <2>8. QED
    BY <2>6, <2>7
<1>8. ASSUME NEW c \in Caller, PopFront(c) PROVE Once'
  <2>1. UNCHANGED <<rows, own, job, produced>> /\ pc' = [pc EXCEPT ![c] = "flush"]
    BY <1>8 DEF PopFront
  <2>2. \A d \in Caller \ {c} : pc[d] = "idle"
    BY <1>8, OthersIdle DEF PopFront
  <2>3. CASE pending = <<>>
    BY <1>8, <2>1, <2>2, <2>3 DEF PopFront
  <2>4. CASE pending # <<>>
    <3>1. pending' = Tail(pending)
      BY <1>8, <2>4 DEF PopFront
    <3>2. \A i \in DOMAIN pending' : i + 1 \in DOMAIN pending /\ pending'[i] = pending[i + 1]
                                     /\ i \in Nat \ {0}
      BY <2>4, <3>1
    <3>3. \A i \in DOMAIN pending' : pending'[i] \notin Stored
      <4>1. SUFFICES ASSUME NEW i \in DOMAIN pending' PROVE pending'[i] \notin Stored
        OBVIOUS
      <4>2. i + 1 \in DOMAIN pending /\ i + 1 # 1 /\ pending'[i] = pending[i + 1]
        BY ONLY <3>2, <4>1
      <4>3. pending[i + 1] \in Stored => i + 1 = 1
        BY ONLY QueuedOnce, <4>2 DEF QueuedOnce
      <4>4. QED
        BY ONLY <4>2, <4>3
    <3>4. QueuedOnce'
      BY <2>1, <3>2, <3>3
    <3>5. Produced' /\ StoredOnce'
      BY <2>1, <3>2
    <3>6. InHand'
      BY <2>1, <2>2, <3>2
    <3>7. QED
      BY <3>4, <3>5, <3>6
  <2>5. QED
    BY <2>3, <2>4
<1>9. ASSUME NEW c \in Caller, EnqueueOwn(c) PROVE Once'
  <2>1. /\ UNCHANGED <<rows, job, produced>> /\ pending' = Append(pending, own[c])
        /\ own' = [own EXCEPT ![c] = 0] /\ pc' = [pc EXCEPT ![c] = "idle"]
        /\ pc[c] \in {"activate", "insert"} /\ job[c] = own[c]
    BY <1>9 DEF EnqueueOwn, StatementFails
  <2>2. \A d \in Caller \ {c} : pc[d] = "idle"
    BY <2>1, OthersIdle
  <2>3. c = "writer" /\ own[c] # 0 /\ own[c] \in Message
    BY <2>1 DEF CallHasJob, Caller
  <2>4. /\ \A i \in DOMAIN pending : pending'[i] = pending[i] /\ pending[i] # own[c]
                                     /\ pending[i] \notin Stored
        /\ DOMAIN pending' = DOMAIN pending \cup {Len(pending) + 1}
        /\ pending'[Len(pending) + 1] = own[c]
    <3>1. Append(pending, own[c]) \in Seq(Message)
      BY <2>3, AppendProperties
    <3>2. /\ Len(pending') = Len(pending) + 1
          /\ \A i \in 1 .. Len(pending) : pending'[i] = pending[i]
          /\ pending'[Len(pending) + 1] = own[c]
      BY <2>1, <2>3, AppendProperties
    <3>3. /\ DOMAIN pending' = 1 .. Len(pending) + 1 /\ DOMAIN pending = 1 .. Len(pending)
          /\ Len(pending) \in Nat
      BY <2>1, <2>3, <3>1, <3>2
    <3>4. \A i \in DOMAIN pending : pending[i] # own[c]
      BY <2>3
    <3>5. \A i \in DOMAIN pending : pending[i] \notin Stored
      BY <2>1, <2>2
    <3>6. QED
      BY <3>2, <3>3, <3>4, <3>5
  <2>5. QueuedOnce'
    <3>1. own[c] \notin Stored
      BY <2>3
    <3>2. \A i \in DOMAIN pending' : pending'[i] \notin Stored'
      BY ONLY <2>1, <2>4, <3>1 DEF Stored
    <3>3. \A i, j \in DOMAIN pending' : pending'[i] = pending'[j] => i = j
      BY ONLY <2>4, QueuedOnce DEF QueuedOnce
    <3>4. QED
      BY ONLY <3>2, <3>3 DEF QueuedOnce
  <2>6. Produced' /\ StoredOnce'
    BY <1>0, <2>1, <2>4
  <2>7. InHand'
    BY <2>1, <2>2, <2>3
  <2>8. QED
    BY <2>5, <2>6, <2>7
<1>10. CASE FinishRun
  <2>1. /\ UNCHANGED <<rows, pending, own, job, produced>>
        /\ pc["finisher"] = "close" /\ pc' = [pc EXCEPT !["finisher"] = "idle"]
    BY <1>10 DEF FinishRun
  <2>2. QED
    BY <2>1
<1>11. CASE Crash
  <2>1. UNCHANGED <<rows, job, produced>> /\ pending' = <<>> /\ produced \in Nat
        /\ pc' = [c \in Caller |-> "idle"] /\ own' = [c \in Caller |-> 0]
    BY <1>11 DEF Crash
  <2>2. QED
    BY <2>1 DEF Caller
<1>12. CASE DropTail
  <2>1. rows' \subseteq rows /\ UNCHANGED <<pending, pc, own, job, produced>>
    BY <1>12 DEF DropTail, WithoutTail
  <2>2. Stored' \subseteq Stored /\ Queued' = Queued
    BY <2>1
  <2>3. Produced' /\ StoredOnce'
    BY <2>1
  <2>4. InHand' /\ QueuedOnce'
    BY <2>1, <2>2
  <2>5. QED
    BY <2>3, <2>4
<1>13. QED
  BY <1>1, <1>2, <1>3, <1>4, <1>5, <1>6, <1>7, <1>8, <1>9, <1>10, <1>11, <1>12 DEF Next, Step

LEMMA OnceInvAlways == ASSUME FinishWaits PROVE Spec => []OnceInv
<1>1. Init => OnceInv
  <2> SUFFICES ASSUME Init PROVE OnceInv
    OBVIOUS
  <2>1. SerialInv
    BY LogInvInit DEF Init, SerialInv, OneUser, SlotIsFresh, OnePerNumber, Idle
  <2>2. Produced /\ InHand /\ QueuedOnce /\ StoredOnce
    BY DEF Init, Produced, InHand, QueuedOnce, StoredOnce, NoMessage, Caller
  <2>3. QED
    BY <2>1, <2>2 DEF OnceInv
<1>2. OnceInv /\ [Next]_vars => OnceInv'
  BY OnceInvStep, LogInvStep, OneUserStep, SlotIsFreshStep, OnePerNumberStep
     DEF OnceInv, SerialInv
<1>3. QED
  BY <1>1, <1>2, PTL DEF Spec

(* LogHasNoDuplicates: where the finisher waits for the engine, no message *)
(* is ever stored twice, whatever was retried, flushed from the queue, cut *)
(* short by a crash or resumed.                                            *)
THEOREM LogHasNoDuplicates == ASSUME FinishWaits PROVE Spec => []StoredOnce
<1>1. OnceInv => StoredOnce
  BY DEF OnceInv
<1>2. QED
  BY OnceInvAlways, <1>1, PTL
-----------------------------------------------------------------------------
(* The order of the log.  The message in hand is the youngest and was      *)
(* never refused; the queue is ascending, and no refused message that      *)
(* reached the log is younger than one that still waits.                   *)
OwnIsLatest ==
    own["writer"] # NoMessage
        => own["writer"] = produced /\ own["writer"] \notin everQueued

QueueInOrder ==
    /\ \A m \in everQueued : m <= produced
    /\ \A i \in DOMAIN pending : pending[i] \in everQueued
    /\ \A i, j \in DOMAIN pending : i < j => pending[i] < pending[j]
    /\ \A r \in rows : \A i \in DOMAIN pending :
          r.msg \in everQueued => r.msg <= pending[i]

OrderInv == OwnIsLatest /\ QueueInOrder /\ OnlyQueuedOvertaken

LEMMA OrderInvStep ==
    ASSUME FinishWaits, OnceInv, OrderInv, [Next]_vars
    PROVE  OrderInv'
<1> USE DEF OnceInv, SerialInv, LogInv, TypeOK, OrderInv, OwnIsLatest, QueueInOrder,
        OnlyQueuedOvertaken, NoMessage, Goto, Alone, db, memory, calls, bounds
<1>0. /\ \A r \in rows : r.seq \in Nat /\ r.msg \in Message
      /\ \A i \in DOMAIN pending : pending[i] \in Message /\ pending[i] \in Nat
      /\ Message \subseteq Nat /\ 0 \notin Message
  <2>1. \A i \in DOMAIN pending : pending[i] \in Message
    BY ONLY pending \in Seq(Message)
  <2>2. Message \subseteq Nat /\ 0 \notin Message
    BY DEF Message
  <2>3. QED
    BY <2>1, <2>2 DEF Row
<1>1. CASE Begin \/ Resume \/ Drop
  <2>1. UNCHANGED <<rows, own, produced, everQueued>> /\ pending' = <<>>
    BY <1>1 DEF Begin, Resume, Drop
  <2>2. QED
    BY <2>1
<1>2. ASSUME UNCHANGED <<rows, pending, own, produced, everQueued>> PROVE OrderInv'
  BY <1>2
<1>3. CASE WriteMessage
  <2>1. /\ UNCHANGED <<rows, pending, everQueued>>
        /\ produced' = produced + 1 /\ own'["writer"] = produced + 1
    BY <1>3 DEF WriteMessage, Caller
  <2>2. \A m \in everQueued : m \in Nat /\ m <= produced /\ m # produced + 1 /\ m <= produced + 1
    BY <1>0
  <2>3. QED
    BY <2>1, <2>2
<1>4. ASSUME NEW c \in Caller, InsertOk(c) PROVE OrderInv'
  <2>1. /\ rows' = rows \cup {[seq |-> slot[c], msg |-> job[c]]}
        /\ UNCHANGED <<pending, produced, everQueued>>
        /\ pc[c] = "insert"
    BY <1>4 DEF InsertOk
  <2>2. own'["writer"] \in {own["writer"], NoMessage}
    BY <1>4 DEF InsertOk, Caller
  <2>3. OwnIsLatest'
    BY <2>1, <2>2
  <2>4. /\ slot[c] \in Nat /\ job[c] \in Message
        /\ \A r \in rows : r.seq < slot[c]
    BY <2>1 DEF SlotIsFresh, CallHasJob
  <2>5. /\ \A r \in rows : r.msg \in everQueued => r.msg <= job[c] 
        /\ \A r \in rows : r.msg > job[c] => job[c] \in everQueued
        /\ job[c] \in everQueued => \A i \in DOMAIN pending : job[c] <= pending[i]
    <3>1. CASE job[c] = own[c]
      <4>1. c = "writer"
        BY <2>4, <3>1, <1>0 DEF CallHasJob, Caller
      <4>2. job[c] = produced /\ job[c] \notin everQueued
        BY <4>1, <3>1, <2>4, <1>0
      <4>3. \A r \in rows : r.msg \in Nat /\ r.msg <= produced /\ produced \in Nat
        <5>1. \A r \in rows : r.msg <= produced
          BY DEF Produced
        <5>2. produced \in Nat
          BY ONLY produced \in 0 .. MaxMessages
        <5>3. QED
          BY ONLY <1>0, <5>1, <5>2
      <4>4. QED
        BY <4>2, <4>3
    <3>2. CASE job[c] # own[c]
      <4>1. pending # <<>> /\ job[c] = Head(pending)
        BY <2>1, <3>2 DEF InHand
      <4>2. 1 \in DOMAIN pending /\ job[c] = pending[1] /\ DOMAIN pending = 1 .. Len(pending)
        BY <4>1
      <4>3. \A i \in DOMAIN pending : pending[1] <= pending[i]
        <5>1. SUFFICES ASSUME NEW i \in DOMAIN pending PROVE pending[1] <= pending[i]
          OBVIOUS
        <5>2. i \in Nat /\ i >= 1
          BY <4>2
        <5>3. CASE i = 1
          <6>1. pending[i] \in Nat
            BY ONLY <1>0, <5>1
          <6>2. QED
            BY ONLY <5>3, <6>1
        <5>4. CASE i # 1
          <6>1. 1 < i
            BY <5>2, <5>4
          <6>2. pending[1] < pending[i]
            BY <4>2, <6>1
          <6>3. QED
            BY ONLY <1>0, <4>2, <5>1, <6>2
        <5>5. QED
          BY <5>3, <5>4
      <4>4. QED
        BY <4>2, <4>3
    <3>3. QED
      BY <3>1, <3>2
  <2>6. QueueInOrder'
    BY <2>1, <2>5
  <2>7. OnlyQueuedOvertaken'
    <3>1. SUFFICES ASSUME NEW r1 \in rows', NEW r2 \in rows',
                          r1.seq < r2.seq, r1.msg > r2.msg
                   PROVE  r2.msg \in everQueued /\ r1.msg \notin everQueued
      BY <2>1
    <3>2. CASE r1 \in rows /\ r2 \in rows
      BY <3>1, <3>2
    <3>3. CASE r1 \in rows /\ r2 = [seq |-> slot[c], msg |-> job[c]]
      <4>1. r1.msg \in Nat /\ job[c] \in Nat /\ r1.msg > job[c]
        BY <1>0, <2>4, <3>1, <3>3
      <4>2. QED
        BY <2>5, <3>3, <4>1
    <3>4. CASE r1 = [seq |-> slot[c], msg |-> job[c]]
      BY <1>0, <2>1, <2>4, <3>1, <3>4
    <3>5. QED
      BY <2>1, <3>2, <3>3, <3>4
  <2>8. QED
    BY <2>3, <2>6, <2>7
<1>5. ASSUME NEW c \in Caller, PopFront(c) PROVE OrderInv'
  <2>1. UNCHANGED <<rows, own, produced, everQueued>>
    BY <1>5 DEF PopFront
  <2>2. CASE pending = <<>>
    <3>1. UNCHANGED pending
      BY <1>5, <2>2 DEF PopFront
    <3>2. QED
      BY <1>2, <2>1, <3>1
  <2>3. CASE pending # <<>>
    <3>1. pending' = Tail(pending)
      BY <1>5, <2>3 DEF PopFront
    <3>2. \A i \in DOMAIN pending' : /\ i + 1 \in DOMAIN pending
                                     /\ pending'[i] = pending[i + 1]
                                     /\ i \in Nat
      BY <2>3, <3>1
    <3>3. QED
      BY <2>1, <3>2
  <2>4. QED
    BY <2>2, <2>3
<1>6. ASSUME NEW c \in Caller, EnqueueOwn(c) PROVE OrderInv'
  <2>1. /\ UNCHANGED <<rows, produced>> /\ pending' = Append(pending, own[c])
        /\ own' = [own EXCEPT ![c] = 0] /\ everQueued' = everQueued \cup {own[c]}
        /\ pc[c] \in {"activate", "insert"} /\ job[c] = own[c]
    BY <1>6 DEF EnqueueOwn, StatementFails
  <2>2. c = "writer" /\ own[c] \in Message
    BY <2>1 DEF CallHasJob, Caller
  <2>3. own[c] = produced /\ own[c] \notin Stored /\ own[c] \notin Queued
    BY <2>1, <2>2, <1>0 DEF InHand
  <2>4. \A r \in rows : r.msg # own[c] /\ r.msg <= own[c]
    BY <2>3 DEF Stored, Produced
  <2>5. /\ Len(pending) \in Nat /\ DOMAIN pending = 1 .. Len(pending)
        /\ DOMAIN pending' = 1 .. Len(pending) + 1
        /\ \A i \in DOMAIN pending : pending'[i] = pending[i] /\ pending[i] < own[c]
        /\ pending'[Len(pending) + 1] = own[c]
    <3>1. /\ Append(pending, own[c]) \in Seq(Message)
          /\ Len(pending') = Len(pending) + 1
          /\ \A i \in 1 .. Len(pending) : pending'[i] = pending[i]
          /\ pending'[Len(pending) + 1] = own[c]
      BY <2>1, <2>2, AppendProperties
    <3>2. /\ DOMAIN pending' = 1 .. Len(pending) + 1 /\ DOMAIN pending = 1 .. Len(pending)
          /\ Len(pending) \in Nat
      BY <2>1, <2>2, <3>1
    <3>3. ASSUME NEW i \in DOMAIN pending PROVE pending[i] < own[c]
      <4>1. pending[i] \in Nat /\ pending[i] <= produced /\ pending[i] # own[c]
        BY <1>0, <2>3 DEF Produced, Queued
      <4>2. QED
        BY <2>3, <4>1
    <3>4. QED
      BY <3>1, <3>2, <3>3
  <2>6. OwnIsLatest'
    BY <2>1, <2>2
  <2>7. QueueInOrder'
    <3>1. \A m \in everQueued' : m <= produced'
      BY <2>1, <2>3
    <3>2. \A i \in DOMAIN pending' : pending'[i] \in everQueued'
      BY <2>1, <2>5
    <3>3. \A i, j \in DOMAIN pending' : i < j => pending'[i] < pending'[j]
      <4>1. SUFFICES ASSUME NEW i \in DOMAIN pending', NEW j \in DOMAIN pending', i < j
                     PROVE  pending'[i] < pending'[j]
        OBVIOUS
      <4>2. i \in DOMAIN pending
        BY ONLY <2>5, <4>1
      <4>3. CASE j \in DOMAIN pending
        BY <2>5, <4>1, <4>2, <4>3
      <4>4. CASE j \notin DOMAIN pending
        <5>1. j = Len(pending) + 1
          BY ONLY <2>5, <4>1, <4>4
        <5>2. QED
          BY ONLY <2>5, <4>2, <5>1
      <4>5. QED
        BY <4>3, <4>4
    <3>4. \A r \in rows' : \A i \in DOMAIN pending' :
             r.msg \in everQueued' => r.msg <= pending'[i]
      BY <2>1, <2>4, <2>5
    <3>5. QED
      BY <3>1, <3>2, <3>3, <3>4
  <2>8. OnlyQueuedOvertaken'
    BY <2>1, <2>4
  <2>9. QED
    BY <2>6, <2>7, <2>8
<1>7. CASE Crash
  <2>1. UNCHANGED <<rows, produced, everQueued>> /\ pending' = <<>> /\ own'["writer"] = 0
    BY <1>7 DEF Crash, Caller
  <2>2. QED
    BY <2>1
<1>8. CASE \/ StartupSweep \/ FinishRun \/ UNCHANGED vars \/ \E s \in Terminal : FinishWith(s)
           \/ \E c \in Caller : \/ FlushFront(c) \/ PersistOnce(c) \/ ActivateOk(c)
                                \/ RetryAttempt(c) \/ FlushGivesUp(c)
  BY <1>2, <1>8 DEF StartupSweep, FinishRun, FinishWith, FlushFront, PersistOnce, ActivateOk,
                    RetryAttempt, FlushGivesUp, vars
<1>9. CASE DropTail
  <2>1. rows' \subseteq rows /\ UNCHANGED <<pending, own, produced, everQueued>>
    BY <1>9 DEF DropTail, WithoutTail
  <2>2. QED
    BY <2>1
<1>10. QED
  BY <1>1, <1>3, <1>4, <1>5, <1>6, <1>7, <1>8, <1>9 DEF Next, Step

(* LogOrder: where the finisher waits for the engine, a message stands     *)
(* behind a younger one in the log only if the store had refused it and    *)
(* never the younger one, through every retry, crash and resumption.       *)
THEOREM LogOrder == ASSUME FinishWaits PROVE Spec => []OnlyQueuedOvertaken
<1>1. Init => OrderInv
  BY DEF Init, OrderInv, OwnIsLatest, QueueInOrder, OnlyQueuedOvertaken, NoMessage, Caller
<1>2. OnceInv /\ OrderInv /\ [Next]_vars => OrderInv'
  BY OrderInvStep
<1>3. OrderInv => OnlyQueuedOvertaken
  BY DEF OrderInv
<1>4. QED
  BY OnceInvAlways, <1>1, <1>2, <1>3, PTL DEF Spec
-----------------------------------------------------------------------------
(* The recorder implements the ledger.  The message in hand belongs to a   *)
(* running call, and what is about to be popped is the front and is        *)
(* stored already: the pop itself changes nothing a reader could see.      *)
ClearBetween == pc["writer"] = "idle" => own["writer"] = NoMessage

PopsStored == \A c \in Caller : pc[c] = "pop" => pending # <<>> /\ Head(pending) \in Stored

LedgerInv == OnceInv /\ ClearBetween /\ PopsStored

LEMMA LedgerInvStep ==
    ASSUME FinishWaits, LedgerInv, [Next]_vars
    PROVE  (ClearBetween /\ PopsStored)'
<1> USE DEF LedgerInv, OnceInv, SerialInv, LogInv, TypeOK, ClearBetween, PopsStored, Stored,
        NoMessage, Goto, Alone, db, memory, calls, bounds
<1>1. CASE Begin \/ Resume \/ Drop
  <2>1. UNCHANGED <<rows, pc, own>> /\ Idle
    BY <1>1 DEF Begin, Resume, Drop, NotBegun
  <2>2. QED
    BY <2>1 DEF Idle
<1>2. CASE StartupSweep \/ UNCHANGED vars
  BY <1>2 DEF StartupSweep, vars
<1>3. CASE WriteMessage
  BY <1>3 DEF WriteMessage, Caller
<1>4. ASSUME NEW s \in Terminal, FinishWith(s) PROVE (ClearBetween /\ PopsStored)'
  BY <1>4 DEF FinishWith, Caller
<1>5. ASSUME NEW c \in Caller,
             FlushFront(c) \/ PersistOnce(c) \/ ActivateOk(c) \/ RetryAttempt(c) \/ FlushGivesUp(c)
      PROVE  (ClearBetween /\ PopsStored)'
  <2>1. UNCHANGED <<rows, pending, own>>
    BY <1>5 DEF FlushFront, PersistOnce, ActivateOk, RetryAttempt, FlushGivesUp
  <2>2. /\ pc[c] # "idle" /\ \A d \in Caller \ {c} : pc'[d] = pc[d]
        /\ pc'[c] \in {"flush", "persist", "activate", "insert", "close"}
    BY <1>5 DEF FlushFront, PersistOnce, ActivateOk, RetryAttempt, FlushGivesUp, StatementFails,
                AfterFlush
  <2>3. QED
    BY <2>1, <2>2 DEF Caller
<1>6. ASSUME NEW c \in Caller, InsertOk(c) PROVE (ClearBetween /\ PopsStored)'
  <2>1. /\ pc[c] = "insert" /\ \A d \in Caller \ {c} : pc[d] = "idle"
        /\ rows' = rows \cup {[seq |-> slot[c], msg |-> job[c]]} /\ UNCHANGED pending
    BY <1>6, OthersIdle DEF InsertOk
  <2>2. CASE job[c] = own[c]
    BY <1>6, <2>1, <2>2 DEF InsertOk, Caller
  <2>3. CASE job[c] # own[c]
    <3>1. pending # <<>> /\ job[c] = Head(pending)
      BY <2>1, <2>3 DEF InHand
    <3>2. UNCHANGED own /\ pc' = [pc EXCEPT ![c] = "pop"]
      BY <1>6, <2>3 DEF InsertOk
    <3>3. job[c] \in Stored'
      <4>1. [seq |-> slot[c], msg |-> job[c]] \in rows'
        BY <2>1
      <4>2. [seq |-> slot[c], msg |-> job[c]].msg = job[c]
        OBVIOUS
      <4>3. \E r \in rows' : job[c] = r.msg
        BY ONLY <4>1, <4>2, Zenon
      <4>4. QED
        BY ONLY <4>3, Zenon DEF Stored
    <3>4. QED
      BY <2>1, <3>1, <3>2, <3>3
  <2>4. QED
    BY <2>2, <2>3
<1>7. ASSUME NEW c \in Caller, PopFront(c) PROVE (ClearBetween /\ PopsStored)'
  <2>1. pc[c] # "idle" /\ pc' = [pc EXCEPT ![c] = "flush"] /\ UNCHANGED own
    BY <1>7 DEF PopFront
  <2>2. \A d \in Caller \ {c} : pc[d] = "idle"
    BY <2>1, OthersIdle
  <2>3. QED
    BY <2>1, <2>2
<1>8. ASSUME NEW c \in Caller, EnqueueOwn(c) PROVE (ClearBetween /\ PopsStored)'
  <2>1. /\ pc[c] # "idle" /\ pc' = [pc EXCEPT ![c] = "idle"]
        /\ own' = [own EXCEPT ![c] = 0]
    BY <1>8 DEF EnqueueOwn, StatementFails
  <2>2. \A d \in Caller \ {c} : pc[d] = "idle"
    BY <2>1, OthersIdle
  <2>3. QED
    BY <2>1, <2>2
<1>9. CASE FinishRun
  <2>1. /\ pc["finisher"] = "close" /\ pc' = [pc EXCEPT !["finisher"] = "idle"]
        /\ UNCHANGED <<rows, pending, own>>
    BY <1>9 DEF FinishRun
  <2>2. QED
    BY <2>1 DEF Caller
<1>10. CASE Crash
  BY <1>10 DEF Crash, Caller
<1>11. CASE DropTail
  <2>1. UNCHANGED <<pc, own>> /\ Idle
    BY <1>11 DEF DropTail
  <2>2. QED
    BY <2>1 DEF Idle
<1>12. QED
  BY <1>1, <1>2, <1>3, <1>4, <1>5, <1>6, <1>7, <1>8, <1>9, <1>10, <1>11 DEF Next, Step

LEMMA LedgerInvAlways == ASSUME FinishWaits PROVE Spec => []LedgerInv
<1>1. Init => ClearBetween /\ PopsStored
  BY DEF Init, ClearBetween, PopsStored, Caller
<1>2. LedgerInv /\ [Next]_vars => (ClearBetween /\ PopsStored)'
  BY LedgerInvStep
<1>3. QED
  BY OnceInvAlways, <1>1, <1>2, PTL DEF LedgerInv, Spec

(* The fate of a message, one fact of the recorder for each word of the    *)
(* ledger; a message none of them is true of is lost.                      *)
FatesAre ==
    \A m \in Message :
        /\ FateOf(m) = "new" <=> m > produced
        /\ FateOf(m) = "stored" <=> m \in Stored
        /\ FateOf(m) = "queued" <=> m \in Queued \ Stored
        /\ FateOf(m) = "offered" <=> m = own["writer"]
        /\ FateOf(m) \in {"new", "stored", "queued", "offered", "lost"}

LEMMA Fates == OnceInv => FatesAre
<1> SUFFICES ASSUME OnceInv, NEW m \in Message
             PROVE  /\ FateOf(m) = "new" <=> m > produced
                    /\ FateOf(m) = "stored" <=> m \in Stored
                    /\ FateOf(m) = "queued" <=> m \in Queued \ Stored
                    /\ FateOf(m) = "offered" <=> m = own["writer"]
                    /\ FateOf(m) \in {"new", "stored", "queued", "offered", "lost"}
  BY DEF FatesAre
<1>1. produced \in Nat /\ m \in Nat /\ m # NoMessage
  BY DEF OnceInv, SerialInv, LogInv, TypeOK, Message, NoMessage
<1>2. m \in Stored => m <= produced
  BY DEF OnceInv, Produced, Stored
<1>3. m \in Queued => m <= produced
  BY DEF OnceInv, Produced, Queued
<1>4. m = own["writer"] => m <= produced /\ m \notin Stored /\ m \notin Queued
  BY <1>1 DEF OnceInv, Produced, InHand, Caller
<1>5. CASE m > produced
  <2>1. m \notin Stored /\ m \notin Queued /\ m # own["writer"]
    BY <1>1, <1>2, <1>3, <1>4, <1>5
  <2>2. FateOf(m) = "new"
    BY <1>5, <2>1 DEF FateOf
  <2>3. QED
    BY <1>5, <2>1, <2>2
<1>6. CASE ~ (m > produced)
  <2>1. FateOf(m) = IF m \in Stored THEN "stored"
                    ELSE IF m \in Queued THEN "queued"
                    ELSE IF m = own["writer"] THEN "offered" ELSE "lost"
    BY <1>4, <1>6 DEF FateOf
  <2>2. QED
    BY <1>4, <1>6, <2>1
<1>7. QED
  BY <1>5, <1>6

(* What the ledger sees of a step: which message became durable, which     *)
(* joined the queue, which was handed over.                                *)
SeenBefore == <<produced, Stored, Queued \ Stored, own["writer"]>>

LEMMA SameFates ==
    ASSUME SeenBefore' = SeenBefore
    PROVE  [m \in Message |-> FateOf(m)]' = [m \in Message |-> FateOf(m)]
<1>1. ASSUME NEW m \in Message PROVE FateOf(m)' = FateOf(m)
  <2>1. /\ produced' = produced /\ Stored' = Stored
        /\ (Queued \ Stored)' = Queued \ Stored /\ own'["writer"] = own["writer"]
    BY DEF SeenBefore
  <2>2. m \in Queued' \ Stored' <=> m \in Queued \ Stored
    BY <2>1
  <2>3. QED
    BY <2>1, <2>2 DEF FateOf
<1>2. QED
  BY <1>1

(* RecorderStep: every step of the recorder is a step of the ledger or     *)
(* leaves the ledger alone.                                                *)
LEMMA RecorderStep ==
    ASSUME FinishWaits, LedgerInv, FatesAre, FatesAre', [Next]_vars
    PROVE  [Ledger!Next]_(Ledger!vars)
<1> DEFINE fate == [m \in Message |-> FateOf(m)]
           holder == <<resumes, handle \in {"none", "crashed"}>>
<1> SUFFICES Ledger!Next \/ (fate' = fate /\ holder' = holder)
  BY DEF Ledger!vars
<1> USE DEF Goto, NoMessage
<1>0. /\ \A m \in Message : m \in Nat /\ m # 0
      /\ produced \in Nat /\ Ledger!Message = Message
  BY DEF LedgerInv, OnceInv, SerialInv, LogInv, TypeOK, Message, Ledger!Message
<1>1. ASSUME UNCHANGED <<rows, handle, pending, own, produced, resumes>>
      PROVE  fate' = fate /\ holder' = holder
  <2>1. UNCHANGED <<Stored, Queued>>
    BY <1>1 DEF Stored, Queued
  <2>2. SeenBefore' = SeenBefore
    BY <1>1, <2>1 DEF SeenBefore
  <2>3. QED
    BY <1>1, <2>2, SameFates
<1>2. ASSUME UNCHANGED <<rows, produced>>, pending' = <<>>, own'["writer"] = 0,
             holder' # holder
      PROVE  Ledger!Next
  <2>1. Stored' = Stored /\ Queued' = {}
    BY <1>2 DEF Stored, Queued
  <2>2. ASSUME NEW m \in Message
        PROVE  FateOf(m)' = IF FateOf(m) \in {"offered", "queued"} THEN "lost" ELSE FateOf(m)
    <3>1. /\ FateOf(m)' = "new" <=> FateOf(m) = "new"
          /\ FateOf(m)' = "stored" <=> FateOf(m) = "stored"
          /\ FateOf(m)' # "queued" /\ FateOf(m)' # "offered"
      BY <1>0, <1>2, <2>1 DEF FatesAre
    <3>2. /\ FateOf(m) \in {"new", "stored", "queued", "offered", "lost"}
          /\ FateOf(m)' \in {"new", "stored", "queued", "offered", "lost"}
      BY DEF FatesAre
    <3>3. QED
      BY <3>1, <3>2
  <2>3. fate' = [m \in Message |-> IF fate[m] \in {"offered", "queued"} THEN "lost" ELSE fate[m]]
    BY <2>2
  <2>4. Ledger!Forget
    BY <1>0, <1>2, <2>3 DEF Ledger!Forget
  <2>5. QED
    BY <2>4 DEF Ledger!Next
<1>3. CASE Begin \/ Resume \/ Drop
  <2>1. UNCHANGED <<rows, own, produced>> /\ pending' = <<>> /\ Idle
    BY <1>3 DEF Begin, Resume, Drop, LedgerInv, OnceInv, SerialInv, LogInv, NotBegun, Alone, db,
               calls, bounds
  <2>2. own["writer"] = 0
    BY <2>1 DEF LedgerInv, ClearBetween, Idle, Caller
  <2>3. holder' # holder
    <3>1. CASE Begin
      BY <3>1 DEF Begin, LedgerInv, OnceInv, SerialInv, LogInv, NotBegun
    <3>2. CASE Resume
      <4>1. resumes \in Nat /\ resumes' = resumes + 1
        BY <3>2 DEF Resume, LedgerInv, OnceInv, SerialInv, LogInv, TypeOK
      <4>2. QED
        BY <4>1
    <3>3. CASE Drop
      BY <3>3 DEF Drop
    <3>4. QED
      BY <1>3, <3>1, <3>2, <3>3
  <2>4. QED
    BY <1>2, <2>1, <2>2, <2>3
<1>4. CASE Crash
  <2>1. UNCHANGED <<rows, produced>> /\ pending' = <<>> /\ own'["writer"] = 0
    BY <1>4 DEF Crash, Caller, db, bounds
  <2>2. holder' # holder
    BY <1>4 DEF Crash
  <2>3. QED
    BY <1>2, <2>1, <2>2
<1>5. CASE WriteMessage
  <2> DEFINE new == produced + 1
  <2>1. /\ UNCHANGED <<rows, pending, handle, resumes>> /\ produced' = new /\ new \in Message
        /\ own["writer"] = 0 /\ own'["writer"] = new
    <3>1. UNCHANGED <<rows, pending, handle, resumes>> /\ produced' = new
      BY <1>5 DEF WriteMessage, db, memory
    <3>2. new \in Message
      BY <1>0, <1>5, ConstantsAssumption DEF WriteMessage, Message
    <3>3. own["writer"] = 0
      BY <1>5 DEF WriteMessage, LedgerInv, ClearBetween
    <3>4. own'["writer"] = new
      BY <1>5 DEF WriteMessage, LedgerInv, OnceInv, SerialInv, LogInv, TypeOK, Caller
    <3>5. QED
      BY <3>1, <3>2, <3>3, <3>4
  <2>2. UNCHANGED <<Stored, Queued>>
    BY <2>1 DEF Stored, Queued
  <2>3. ASSUME NEW m \in Message
        PROVE  FateOf(m)' = IF m = new THEN "offered" ELSE FateOf(m)
    <3>1. m > produced' <=> m > produced /\ m # new
      BY <1>0, <2>1
    <3>2. /\ FateOf(m) = "new" <=> m > produced
          /\ FateOf(m)' = "new" <=> m > produced'
          /\ FateOf(m)' = "stored" <=> FateOf(m) = "stored"
          /\ FateOf(m)' = "queued" <=> FateOf(m) = "queued"
          /\ FateOf(m)' = "offered" <=> m = new
          /\ FateOf(m) # "offered"
      BY <1>0, <2>1, <2>2 DEF FatesAre
    <3>3. /\ FateOf(m) \in {"new", "stored", "queued", "offered", "lost"}
          /\ FateOf(m)' \in {"new", "stored", "queued", "offered", "lost"}
      BY DEF FatesAre
    <3>4. QED
      BY <3>1, <3>2, <3>3
  <2>4. fate' = [fate EXCEPT ![new] = "offered"]
    BY <2>1, <2>3
  <2>5. /\ fate[new] = "new"
        /\ \A k \in Message : k < new => fate[k] # "new"
        /\ \A k \in Message : fate[k] # "offered"
    BY <1>0, <2>1 DEF FatesAre
  <2>6. Ledger!Offer(new) /\ holder' = holder
    BY <1>0, <2>1, <2>4, <2>5 DEF Ledger!Offer
  <2>7. QED
    BY <1>0, <2>1, <2>6 DEF Ledger!Next
<1>6. ASSUME NEW c \in Caller, InsertOk(c) PROVE Ledger!Next
  <2>1. /\ rows' = rows \cup {[seq |-> slot[c], msg |-> job[c]]} /\ pc[c] = "insert"
        /\ UNCHANGED <<pending, handle, produced, resumes>>
    BY <1>6 DEF InsertOk, memory
  <2>2. job[c] \in Message /\ \A d \in Caller \ {c} : pc[d] = "idle"
    BY <2>1, OthersIdle DEF LedgerInv, OnceInv, SerialInv, LogInv, TypeOK, CallHasJob
  <2>3. Stored' = Stored \cup {job[c]} /\ Queued' = Queued
    <3>1. ASSUME NEW m PROVE m \in Stored' <=> m \in Stored \/ m = job[c]
      <4>1. m \in Stored' <=> \E r \in rows' : m = r.msg
        BY Zenon DEF Stored
      <4>2. m \in Stored <=> \E r \in rows : m = r.msg
        BY Zenon DEF Stored
      <4>3. [seq |-> slot[c], msg |-> job[c]].msg = job[c]
        OBVIOUS
      <4>4. QED
        BY <2>1, <4>1, <4>2, <4>3, Zenon
    <3>2. QED
      BY <2>1, <3>1 DEF Queued
  <2>4. /\ FateOf(job[c]) \in {"offered", "queued"}
        /\ own'["writer"] = IF own["writer"] = job[c] THEN 0 ELSE own["writer"]
    <3>1. CASE job[c] = own[c]
      <4>1. c = "writer"
        BY <1>0, <2>2, <3>1 DEF LedgerInv, OnceInv, SerialInv, LogInv, CallHasJob, Caller
      <4>2. own' = [own EXCEPT ![c] = 0] /\ own \in [Caller -> Message \cup {0}]
        BY <1>6, <3>1 DEF InsertOk, LedgerInv, OnceInv, SerialInv, LogInv, TypeOK
      <4>3. QED
        BY <2>2, <3>1, <4>1, <4>2 DEF FatesAre
    <3>2. CASE job[c] # own[c]
      <4>1. pending # <<>> /\ job[c] = Head(pending)
        BY <2>1, <3>2 DEF LedgerInv, OnceInv, InHand
      <4>2. 1 \in DOMAIN pending /\ job[c] = pending[1]
        BY <4>1 DEF LedgerInv, OnceInv, SerialInv, LogInv, TypeOK
      <4>3. job[c] \in Queued /\ job[c] \notin Stored
        BY <2>1, <2>2, <4>2 DEF LedgerInv, OnceInv, QueuedOnce, Queued
      <4>4. own["writer"] # job[c]
        BY <1>0, <2>2, <4>3 DEF LedgerInv, OnceInv, InHand
      <4>5. UNCHANGED own
        BY <1>6, <3>2 DEF InsertOk
      <4>6. QED
        BY <2>2, <4>3, <4>4, <4>5 DEF FatesAre
    <3>3. QED
      BY <3>1, <3>2
  <2>5. ASSUME NEW m \in Message
        PROVE  FateOf(m)' = IF m = job[c] THEN "stored" ELSE FateOf(m)
    <3>1. /\ FateOf(m)' = "new" <=> FateOf(m) = "new"
          /\ FateOf(m)' = "stored" <=> m = job[c] \/ FateOf(m) = "stored"
          /\ m # job[c] => (FateOf(m)' = "queued" <=> FateOf(m) = "queued")
          /\ m # job[c] => (FateOf(m)' = "offered" <=> FateOf(m) = "offered")
      BY <1>0, <2>1, <2>3, <2>4 DEF FatesAre
    <3>2. /\ FateOf(m) \in {"new", "stored", "queued", "offered", "lost"}
          /\ FateOf(m)' \in {"new", "stored", "queued", "offered", "lost"}
      BY DEF FatesAre
    <3>3. QED
      BY <3>1, <3>2
  <2>6. fate' = [fate EXCEPT ![job[c]] = "stored"]
    BY <2>2, <2>5
  <2>7. Ledger!Store(job[c])
    BY <2>1, <2>2, <2>4, <2>6 DEF Ledger!Store
  <2>8. QED
    BY <1>0, <2>2, <2>7 DEF Ledger!Next
<1>7. ASSUME NEW c \in Caller, EnqueueOwn(c) PROVE Ledger!Next
  <2> DEFINE m0 == own[c]
  <2>1. /\ UNCHANGED <<rows, handle, produced, resumes>> /\ pending' = Append(pending, m0)
        /\ own' = [own EXCEPT ![c] = 0] /\ pc[c] \in {"activate", "insert"} /\ job[c] = m0
    BY <1>7 DEF EnqueueOwn, StatementFails, db
  <2>2. c = "writer" /\ m0 \in Message
    BY <2>1 DEF LedgerInv, OnceInv, SerialInv, LogInv, TypeOK, CallHasJob, Caller
  <2>3. Stored' = Stored /\ Queued' = Queued \cup {m0} /\ own'["writer"] = 0
    <3>1. pending \in Seq(Message) /\ own \in [Caller -> Message \cup {0}]
      BY DEF LedgerInv, OnceInv, SerialInv, LogInv, TypeOK
    <3>2. /\ Append(pending, m0) \in Seq(Message)
          /\ Len(pending') = Len(pending) + 1
          /\ \A i \in 1 .. Len(pending) : pending'[i] = pending[i]
          /\ pending'[Len(pending) + 1] = m0
      BY <2>1, <2>2, <3>1, AppendProperties
    <3>3. /\ DOMAIN pending' = 1 .. Len(pending) + 1 /\ DOMAIN pending = 1 .. Len(pending)
          /\ Len(pending) \in Nat
      BY <2>1, <2>2, <3>1, <3>2
    <3>4. DOMAIN pending' = DOMAIN pending \cup {Len(pending) + 1}
      BY ONLY <3>3
    <3>5. Queued' = Queued \cup {m0}
      BY <3>2, <3>3, <3>4 DEF Queued
    <3>6. QED
      BY <2>1, <2>2, <3>1, <3>5 DEF Stored
  <2>4. m0 \notin Stored
    BY <1>0, <2>2 DEF LedgerInv, OnceInv, InHand
  <2>5. ASSUME NEW m \in Message
        PROVE  FateOf(m)' = IF m = m0 THEN "queued" ELSE FateOf(m)
    <3>1. /\ FateOf(m)' = "new" <=> FateOf(m) = "new"
          /\ FateOf(m)' = "stored" <=> FateOf(m) = "stored"
          /\ FateOf(m)' = "queued" <=> m = m0 \/ FateOf(m) = "queued"
          /\ FateOf(m)' # "offered"
          /\ m # m0 => FateOf(m) # "offered"
      BY <1>0, <2>1, <2>2, <2>3, <2>4 DEF FatesAre
    <3>2. /\ FateOf(m) \in {"new", "stored", "queued", "offered", "lost"}
          /\ FateOf(m)' \in {"new", "stored", "queued", "offered", "lost"}
      BY DEF FatesAre
    <3>3. QED
      BY <3>1, <3>2
  <2>6. fate' = [fate EXCEPT ![m0] = "queued"] /\ fate[m0] = "offered"
    BY <2>2, <2>5 DEF FatesAre
  <2>7. Ledger!Enqueue(m0)
    BY <2>1, <2>2, <2>6 DEF Ledger!Enqueue
  <2>8. QED
    BY <1>0, <2>2, <2>7 DEF Ledger!Next
<1>8. ASSUME NEW c \in Caller, PopFront(c) PROVE fate' = fate /\ holder' = holder
  <2>1. UNCHANGED <<rows, handle, own, produced, resumes>> /\ pc[c] = "pop"
    BY <1>8 DEF PopFront, db, bounds
  <2>2. pending # <<>> /\ Head(pending) \in Stored /\ pending \in Seq(Message)
    BY <2>1 DEF LedgerInv, PopsStored, OnceInv, SerialInv, LogInv, TypeOK
  <2>3. pending' = Tail(pending)
    BY <1>8, <2>2 DEF PopFront
  <2>4. Stored' = Stored
    BY <2>1 DEF Stored
  <2>5. (Queued \ Stored)' = Queued \ Stored
    <3>1. \A i \in DOMAIN pending' : i + 1 \in DOMAIN pending /\ pending'[i] = pending[i + 1]
      BY <2>2, <2>3
    <3>2. \A i \in DOMAIN pending \ {1} : i - 1 \in DOMAIN pending' /\ pending[i] = pending'[i - 1]
      BY <2>2, <2>3
    <3>3. pending[1] \in Stored
      BY <2>2
    <3>4. ASSUME NEW m PROVE m \in Queued' /\ m \notin Stored <=> m \in Queued /\ m \notin Stored
      BY <3>1, <3>2, <3>3 DEF Queued
    <3>5. QED
      BY <2>4, <3>4
  <2>6. SeenBefore' = SeenBefore
    BY <2>1, <2>4, <2>5 DEF SeenBefore
  <2>7. QED
    BY <2>1, <2>6, SameFates
<1>9. CASE \/ StartupSweep \/ FinishRun \/ UNCHANGED vars
           \/ \E c \in Caller : \/ FlushFront(c) \/ PersistOnce(c) \/ ActivateOk(c)
                                \/ RetryAttempt(c) \/ FlushGivesUp(c)
  BY <1>1, <1>9 DEF StartupSweep, FinishRun, FlushFront, PersistOnce, ActivateOk,
                    RetryAttempt, FlushGivesUp, StatementFails, vars, db, memory, calls, bounds
<1>10. ASSUME NEW s \in Terminal, FinishWith(s) PROVE fate' = fate /\ holder' = holder
  <2>1. UNCHANGED <<rows, pending, own, produced, resumes>>
    BY <1>10 DEF FinishWith, db, bounds
  <2>2. UNCHANGED <<Stored, Queued>> /\ handle = "open" /\ handle' = "taken"
    BY <1>10, <2>1 DEF FinishWith, Stored, Queued
  <2>3. SeenBefore' = SeenBefore
    BY <2>1, <2>2 DEF SeenBefore
  <2>4. QED
    BY <2>1, <2>2, <2>3, SameFates
<1>11. CASE DropTail
  <2>1. /\ UNCHANGED <<handle, pending, own, produced, resumes>>
        /\ \A c \in Caller : pc[c] = "idle"
    BY <1>11 DEF DropTail, Alone, Idle, memory, calls, bounds
  <2>2. PICK tail \in rows : rows' = rows \ {tail}
    BY <1>11, TailIsOneRow DEF LedgerInv, OnceInv
  <2> DEFINE m0 == tail.msg
  <2>3. m0 \in Message /\ m0 \in Stored
    BY <2>2 DEF LedgerInv, OnceInv, SerialInv, LogInv, TypeOK, Row, Stored
  <2>4. ASSUME NEW m PROVE m \in Stored' <=> m \in Stored /\ m # m0
    <3>1. \A r \in rows : r.msg = m0 => r = tail
      BY <2>2 DEF LedgerInv, OnceInv, StoredOnce
    <3>2. m \in Stored <=> \E r \in rows : m = r.msg
      BY Zenon DEF Stored
    <3>3. m \in Stored' <=> \E r \in rows \ {tail} : m = r.msg
      BY <2>2, Zenon DEF Stored
    <3>4. QED
      BY ONLY <2>2, <3>1, <3>2, <3>3
  <2>5. Queued' = Queued /\ own["writer"] = 0 /\ \A m \in Queued : m \notin Stored
    <3>1. Queued' = Queued
      BY <2>1 DEF Queued
    <3>2. own["writer"] = 0
      BY <2>1 DEF LedgerInv, ClearBetween, Caller
    <3>3. \A m \in Queued : m \notin Stored
      BY <2>1 DEF LedgerInv, OnceInv, QueuedOnce, Queued
    <3>4. QED
      BY <3>1, <3>2, <3>3
  <2>6. ASSUME NEW m \in Message
        PROVE  FateOf(m)' = IF m = m0 THEN "lost" ELSE FateOf(m)
    <3>1. /\ FateOf(m)' = "new" <=> FateOf(m) = "new"
          /\ FateOf(m)' = "stored" <=> FateOf(m) = "stored" /\ m # m0
          /\ FateOf(m)' = "queued" <=> FateOf(m) = "queued"
          /\ FateOf(m)' # "offered" /\ FateOf(m) # "offered"
          /\ m = m0 => FateOf(m) = "stored"
      BY <1>0, <2>1, <2>3, <2>4, <2>5 DEF FatesAre
    <3>2. /\ FateOf(m) \in {"new", "stored", "queued", "offered", "lost"}
          /\ FateOf(m)' \in {"new", "stored", "queued", "offered", "lost"}
      BY DEF FatesAre
    <3>3. QED
      BY <3>1, <3>2
  <2>7. /\ fate' = [fate EXCEPT ![m0] = "lost"] /\ fate[m0] = "stored"
        /\ \A k \in Message : fate[k] # "offered"
    BY <1>0, <2>3, <2>5, <2>6 DEF FatesAre
  <2>8. Ledger!Withdraw(m0)
    BY <1>0, <2>1, <2>3, <2>7 DEF Ledger!Withdraw
  <2>9. QED
    BY <1>0, <2>3, <2>8 DEF Ledger!Next
<1>12. QED
  BY <1>3, <1>4, <1>5, <1>6, <1>7, <1>8, <1>9, <1>10, <1>11 DEF Next, Step

(* KeepsLedger: where the finisher waits for the engine, the recorder with *)
(* its retries, its queue and its sequence numbers implements the ledger:  *)
(* a message handed over is durable, waiting, or lost with the memory that *)
(* held it, and nothing else can become of it.                             *)
THEOREM KeepsLedger == ASSUME FinishWaits PROVE Spec => ImplementsLedger
<1>1. Init => Ledger!Init
  <2> SUFFICES ASSUME Init PROVE Ledger!Init
    OBVIOUS
  <2>1. ASSUME NEW m \in Message PROVE FateOf(m) = "new"
    <3>1. m > produced /\ m \notin Stored /\ m \notin Queued /\ m # own["writer"]
      BY DEF Init, Stored, Queued, Message, NoMessage, Caller
    <3>2. QED
      BY <3>1 DEF FateOf
  <2>2. QED
    BY <2>1 DEF Ledger!Init, Ledger!Message, Message
<1>2. LedgerInv /\ FatesAre /\ FatesAre' /\ [Next]_vars => [Ledger!Next]_(Ledger!vars)
  BY RecorderStep
<1>3. LedgerInv => OnceInv
  BY DEF LedgerInv
<1>4. QED
  BY LedgerInvAlways, Fates, <1>1, <1>2, <1>3, PTL DEF ImplementsLedger, Ledger!Spec, Spec
=============================================================================
