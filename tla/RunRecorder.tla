---------------------------- MODULE RunRecorder ----------------------------
(***************************************************************************)
(* openslate-store-sqlite/src/recorder.rs: the per-run persistence adapter *)
(* with its bounded retry, its in-memory queue of messages the store       *)
(* refused, the sequence counter, resumption after a crash and the         *)
(* terminal status of the run row.                                         *)
(*                                                                         *)
(* Two callers share one recorder: the engine, which writes the messages   *)
(* of a turn one at a time (MessageSink), and whoever ends the run         *)
(* (finish_with).  Everything between two await points of a caller is one  *)
(* step.  A message is its position in the conversation, so that the order *)
(* of production is the order of the numbers; its text is abstracted.      *)
(*                                                                         *)
(* Assumed: one recorder at a time writes to the run (Alone).              *)
(***************************************************************************)
EXTENDS Integers, Sequences, FiniteSets

CONSTANTS
    MaxMessages,      \* bound: messages the conversation produces
    Retries,          \* attempts after the first one (3 in the code)
    MaxFailures,      \* bound: statements the store refuses in a behaviour
    MaxResumes,       \* bound: times the run is adopted again
    FinishWaits       \* does the caller of finish_with wait for the engine?
                      \* (TRUE: /new, and server shutdown once the turn has
                      \* launched; FALSE: mobile shutdown)

ASSUME ConstantsAssumption ==
    /\ MaxMessages \in Nat
    /\ Retries \in Nat
    /\ MaxFailures \in Nat
    /\ MaxResumes \in Nat
    /\ FinishWaits \in BOOLEAN

Message == 1 .. MaxMessages
NoMessage == 0
Caller == {"writer", "finisher"}
Terminal == {"interrupted", "completed"}

VARIABLES
    \* the database
    rows,         \* the messages table of this run: {[seq, msg]}
    status,       \* runs.status; "absent" before begin
    \* the recorder in memory
    handle,       \* "none", "open" (held by the session), "taken" (being
                  \* ended), "crashed" (the process died holding it)
    lastSeq,      \* AtomicI64 last_seq
    activated,    \* AtomicBool activated
    pending,      \* the queue of refused messages
    \* the callers
    pc,           \* where each caller is
    own,          \* the message the writer's call is about
    job,          \* the message the current persist attempt is about
    attempt,      \* retries used by the current persist_with_retry
    slot,         \* the sequence number of the INSERT in flight
    final,        \* the status the finisher will record
    \* bounds and history
    produced,     \* messages produced so far
    failures,     \* statements refused so far
    resumes,      \* adoptions so far
    everQueued    \* messages that were in pending at some time

db == <<rows, status>>
memory == <<handle, lastSeq, activated, pending>>
calls == <<pc, own, job, attempt, slot, final>>
bounds == <<produced, failures, resumes, everQueued>>
vars == <<db, memory, calls, bounds>>

Row == [seq : Nat, msg : Message]
Seqs == {r.seq : r \in rows}
Stored == {r.msg : r \in rows}
Queued == {pending[i] : i \in DOMAIN pending}

(* SELECT COALESCE(MAX(seq), 0): resume continues from the highest seq.    *)
MaxMessageSeq ==
    IF rows = {} THEN 0 ELSE CHOOSE s \in Seqs : \A t \in Seqs : t <= s

TypeOK ==
    /\ rows \in SUBSET Row
    /\ status \in {"absent", "running"} \cup Terminal
    /\ handle \in {"none", "open", "taken", "crashed"}
    /\ lastSeq \in Nat
    /\ activated \in BOOLEAN
    /\ pending \in Seq(Message)
    /\ pc \in [Caller -> {"idle", "flush", "persist", "activate", "insert", "pop", "close"}]
    /\ own \in [Caller -> Message \cup {NoMessage}]
    /\ job \in [Caller -> Message \cup {NoMessage}]
    /\ attempt \in [Caller -> 0 .. Retries]
    /\ slot \in [Caller -> Nat]
    /\ final \in Terminal
    /\ produced \in 0 .. MaxMessages
    /\ failures \in 0 .. MaxFailures
    /\ resumes \in 0 .. MaxResumes
    /\ everQueued \in SUBSET Message

Init ==
    /\ rows = {}
    /\ status = "absent"
    /\ handle = "none"
    /\ lastSeq = 0
    /\ activated = FALSE
    /\ pending = <<>>
    /\ pc = [c \in Caller |-> "idle"]
    /\ own = [c \in Caller |-> NoMessage]
    /\ job = [c \in Caller |-> NoMessage]
    /\ attempt = [c \in Caller |-> 0]
    /\ slot = [c \in Caller |-> 0]
    /\ final = "interrupted"
    /\ produced = 0
    /\ failures = 0
    /\ resumes = 0
    /\ everQueued = {}

Goto(c, l) == pc' = [pc EXCEPT ![c] = l]

Idle == \A c \in Caller : pc[c] = "idle"

(* An assumption of Resume and DropTail: nobody writes, nor will again,    *)
(* through a recorder the run had before.  It is so after a death of the   *)
(* process.  open_session does not ensure it: a finish_with that           *)
(* NewSession has spawned may still run, and an engine that starts between *)
(* its guard and its installation keeps the old recorder.                  *)
Alone == Idle /\ handle # "taken"

(* The rows but for the highest: DELETE ... WHERE seq >= max_message_seq.  *)
WithoutTail == {r \in rows : r.seq < MaxMessageSeq}

-----------------------------------------------------------------------------
(* RunRecorder::begin: the run row and its node in one transaction.        *)
Begin ==
    /\ status = "absent"
    /\ status' = "running"
    /\ handle' = "open"
    /\ lastSeq' = 0
    /\ activated' = TRUE
    /\ pending' = <<>>
    /\ UNCHANGED <<rows, calls, bounds>>

(* A slip: continuing from the number of rows, as if none had been skipped. *)
ResumeAtRowCount ==
    /\ status # "absent"
    /\ Alone
    /\ resumes < MaxResumes
    /\ resumes' = resumes + 1
    /\ handle' = "open"
    /\ lastSeq' = Cardinality(rows)
    /\ activated' = FALSE
    /\ pending' = <<>>
    /\ UNCHANGED <<db, calls, produced, failures, everQueued>>

(* RunRecorder::resume: a new recorder for an existing run.  It leaves the *)
(* status alone and starts with an empty queue.  The session may still     *)
(* hold the previous recorder (the same session opened again): that one,   *)
(* and what it had queued, is dropped.  Assumed: Alone.                    *)
Resume ==
    /\ status # "absent"
    /\ Alone
    /\ resumes < MaxResumes
    /\ resumes' = resumes + 1
    /\ handle' = "open"
    /\ lastSeq' = MaxMessageSeq
    /\ activated' = FALSE
    /\ pending' = <<>>
    /\ UNCHANGED <<db, calls, produced, failures, everQueued>>

(* Start-up (after its resume) and open_session (before it, and even when  *)
(* the resume then fails) delete the highest row of a run whose history    *)
(* ends in unanswered calls.  What a message asks for is abstracted, so    *)
(* any highest row may go.  Assumed: Alone.                                *)
DropTail ==
    /\ rows # {}
    /\ Alone
    /\ rows' = WithoutTail
    /\ UNCHANGED <<status, memory, calls, bounds>>

(* mark_running_runs_interrupted: the sweep of the next start-up.          *)
StartupSweep ==
    /\ handle \in {"none", "crashed"}
    /\ status = "running"
    /\ status' = "interrupted"
    /\ UNCHANGED <<rows, memory, calls, bounds>>

-----------------------------------------------------------------------------
(* write_message_with_meta: the engine hands over the next message.        *)
WriteMessage ==
    /\ handle = "open" \/ (handle = "taken" /\ ~FinishWaits)
    /\ pc["writer"] = "idle"
    /\ produced < MaxMessages
    /\ produced' = produced + 1
    /\ own' = [own EXCEPT !["writer"] = produced + 1]
    /\ Goto("writer", "flush")
    /\ UNCHANGED <<db, memory, job, attempt, slot, final, failures, resumes, everQueued>>

(* finish_with: the run ends with the given status.                        *)
FinishWith(s) ==
    /\ handle = "open"
    /\ pc["finisher"] = "idle"
    /\ FinishWaits => pc["writer"] = "idle"
    /\ handle' = "taken"
    /\ final' = s
    /\ Goto("finisher", "flush")
    /\ UNCHANGED <<db, lastSeq, activated, pending, own, job, attempt, slot, bounds>>

(* Where a call goes when its flush is over.                               *)
AfterFlush(c) == IF c = "writer" THEN "persist" ELSE "close"

(* flush_pending, top of the loop: take the front, or be done.             *)
FlushFront(c) ==
    /\ pc[c] = "flush"
    /\ attempt' = [attempt EXCEPT ![c] = 0]
    /\ \/ /\ pending # <<>>
          /\ job' = [job EXCEPT ![c] = Head(pending)]
          /\ Goto(c, "persist")
       \/ /\ pending = <<>>
          /\ job' = [job EXCEPT ![c] = own[c]]
          /\ Goto(c, AfterFlush(c))
    /\ UNCHANGED <<db, memory, own, slot, final, bounds>>

(* persist_once, up to its first await: the one-shot activation of a       *)
(* resumed run, or the allocation of a sequence number.                    *)
PersistOnce(c) ==
    /\ pc[c] = "persist"
    /\ activated' = TRUE
    /\ IF activated
       THEN /\ lastSeq' = lastSeq + 1
            /\ slot' = [slot EXCEPT ![c] = lastSeq + 1]
            /\ Goto(c, "insert")
       ELSE /\ Goto(c, "activate")
            /\ UNCHANGED <<lastSeq, slot>>
    /\ UNCHANGED <<db, handle, pending, own, job, attempt, final, bounds>>

(* activate_run succeeded; the same attempt goes on to its INSERT.         *)
ActivateOk(c) ==
    /\ pc[c] = "activate"
    /\ status' = "running"
    /\ lastSeq' = lastSeq + 1
    /\ slot' = [slot EXCEPT ![c] = lastSeq + 1]
    /\ Goto(c, "insert")
    /\ UNCHANGED <<rows, handle, activated, pending, own, job, attempt, final, bounds>>

(* INSERT INTO messages succeeded: the index on (run_id, seq) is unique.   *)
InsertOk(c) ==
    /\ pc[c] = "insert"
    /\ slot[c] \notin Seqs
    /\ rows' = rows \cup {[seq |-> slot[c], msg |-> job[c]]}
    /\ Goto(c, IF job[c] = own[c] THEN "idle" ELSE "pop")
    /\ own' = IF job[c] = own[c] THEN [own EXCEPT ![c] = NoMessage] ELSE own
    /\ UNCHANGED <<status, memory, job, attempt, slot, final, produced, failures, resumes, everQueued>>

(* Two slips: the front stays after it was written; the flush stops after  *)
(* one message.                                                            *)
PopNothing(c) ==
    /\ pc[c] = "pop"
    /\ Goto(c, "flush")
    /\ UNCHANGED <<db, memory, own, job, attempt, slot, final, bounds>>

PopFrontAndStop(c) ==
    /\ pc[c] = "pop"
    /\ pending' = IF pending = <<>> THEN <<>> ELSE Tail(pending)
    /\ job' = [job EXCEPT ![c] = own[c]]
    /\ Goto(c, AfterFlush(c))
    /\ UNCHANGED <<db, handle, lastSeq, activated, own, attempt, slot, final, bounds>>

(* flush_pending after a success: pop whatever is at the front now.        *)
PopFront(c) ==
    /\ pc[c] = "pop"
    /\ pending' = IF pending = <<>> THEN <<>> ELSE Tail(pending)
    /\ Goto(c, "flush")
    /\ UNCHANGED <<db, handle, lastSeq, activated, own, job, attempt, slot, final, bounds>>

(* The store refuses the statement, or the unique index the number.        *)
StatementFails(c) ==
    \/ /\ pc[c] \in {"activate", "insert"}
       /\ failures < MaxFailures
       /\ failures' = failures + 1
    \/ /\ pc[c] = "insert"
       /\ slot[c] \in Seqs
       /\ UNCHANGED failures

(* A slip: retrying without a limit.                                       *)
RetryForever(c) ==
    /\ StatementFails(c)
    /\ attempt' = [attempt EXCEPT ![c] = @ + 1]
    /\ Goto(c, "persist")
    /\ UNCHANGED <<db, memory, own, job, slot, final, produced, resumes, everQueued>>

(* persist_with_retry: another attempt after the back-off.                 *)
RetryAttempt(c) ==
    /\ StatementFails(c)
    /\ attempt[c] < Retries
    /\ attempt' = [attempt EXCEPT ![c] = @ + 1]
    /\ Goto(c, "persist")
    /\ UNCHANGED <<db, memory, own, job, slot, final, produced, resumes, everQueued>>

(* A slip: the refused front leaves the queue.                             *)
FlushDropsFront(c) ==
    /\ StatementFails(c)
    /\ attempt[c] = Retries
    /\ job[c] # own[c]
    /\ pending' = Tail(pending)
    /\ attempt' = [attempt EXCEPT ![c] = 0]
    /\ job' = [job EXCEPT ![c] = own[c]]
    /\ Goto(c, AfterFlush(c))
    /\ UNCHANGED <<db, handle, lastSeq, activated, own, slot, final, produced, resumes, everQueued>>

(* A queued message was refused again: the flush stops, the queue stays,   *)
(* and the call goes on with its own message.                              *)
FlushGivesUp(c) ==
    /\ StatementFails(c)
    /\ attempt[c] = Retries
    /\ job[c] # own[c]
    /\ attempt' = [attempt EXCEPT ![c] = 0]
    /\ job' = [job EXCEPT ![c] = own[c]]
    /\ Goto(c, AfterFlush(c))
    /\ UNCHANGED <<db, memory, own, slot, final, produced, resumes, everQueued>>

(* A slip: the refused message is queued at the wrong end.                 *)
EnqueueOwnInFront(c) ==
    /\ StatementFails(c)
    /\ attempt[c] = Retries
    /\ job[c] = own[c]
    /\ pending' = <<own[c]>> \o pending
    /\ everQueued' = everQueued \cup {own[c]}
    /\ own' = [own EXCEPT ![c] = NoMessage]
    /\ Goto(c, "idle")
    /\ UNCHANGED <<db, handle, lastSeq, activated, job, attempt, slot, final, produced, resumes>>

(* The call's own message was refused: it joins the queue.                 *)
EnqueueOwn(c) ==
    /\ StatementFails(c)
    /\ attempt[c] = Retries
    /\ job[c] = own[c]
    /\ pending' = Append(pending, own[c])
    /\ everQueued' = everQueued \cup {own[c]}
    /\ own' = [own EXCEPT ![c] = NoMessage]
    /\ Goto(c, "idle")
    /\ UNCHANGED <<db, handle, lastSeq, activated, job, attempt, slot, final, produced, resumes>>

(* finish_run, one transaction that succeeds or fails; the recorder is     *)
(* dropped once nobody uses it.                                            *)
FinishRun ==
    /\ pc["finisher"] = "close"
    /\ \/ status' = final /\ UNCHANGED failures
       \/ failures < MaxFailures /\ failures' = failures + 1 /\ UNCHANGED status
    /\ Goto("finisher", "idle")
    /\ UNCHANGED <<rows, memory, own, job, attempt, slot, final, produced, resumes, everQueued>>

(* The last reference to an ended recorder goes away, and with it what is  *)
(* still queued.                                                           *)
Drop ==
    /\ handle = "taken"
    /\ Idle
    /\ handle' = "none"
    /\ pending' = <<>>
    /\ UNCHANGED <<db, lastSeq, activated, calls, bounds>>

(* The process dies: memory and calls are gone, the database is not.       *)
Crash ==
    /\ handle \in {"open", "taken"}
    /\ handle' = "crashed"
    /\ pending' = <<>>
    /\ pc' = [c \in Caller |-> "idle"]
    /\ own' = [c \in Caller |-> NoMessage]
    /\ UNCHANGED <<db, lastSeq, activated, job, attempt, slot, final, bounds>>

-----------------------------------------------------------------------------
Step(c) ==
    \/ FlushFront(c) \/ PersistOnce(c) \/ ActivateOk(c) \/ InsertOk(c) \/ PopFront(c)
    \/ RetryAttempt(c) \/ FlushGivesUp(c) \/ EnqueueOwn(c)

Next ==
    \/ Begin \/ Resume \/ DropTail \/ StartupSweep
    \/ WriteMessage \/ (\E s \in Terminal : FinishWith(s))
    \/ \E c \in Caller : Step(c)
    \/ FinishRun \/ Drop \/ Crash

(* Timers and tasks of the runtime make progress; nothing makes the store  *)
(* recover, the user write or the process survive.                         *)
Fairness ==
    /\ \A c \in Caller : WF_vars(Step(c))
    /\ WF_vars(FinishRun)

Spec == Init /\ [][Next]_vars /\ Fairness

-----------------------------------------------------------------------------
(* StoredOnce: no message is in the log twice, whatever was retried,       *)
(* flushed from the queue or cut short by a crash.                         *)
StoredOnce == \A r1, r2 \in rows : r1.msg = r2.msg => r1 = r2

(* OnlyQueuedOvertaken: a message may stand in the log behind a younger    *)
(* one only if the store had refused it and the younger one was never      *)
(* refused; messages that went through the queue keep their order.         *)
OnlyQueuedOvertaken ==
    \A r1, r2 \in rows :
        r1.seq < r2.seq /\ r1.msg > r2.msg
            => r2.msg \in everQueued /\ r1.msg \notin everQueued

(* AppendOnly: through retries, crashes and resumptions the log changes at *)
(* its end only: a row comes above all others, or, before or after a       *)
(* resumption and with no write in progress, the highest one alone goes.   *)
(* Assumed: Alone.  With two recorders there are two counters, the unique  *)
(* index refuses some rows, and others come below the end.                 *)
GrowsAtEnd ==
    /\ rows \subseteq rows'
    /\ \A new \in rows' \ rows : \A old \in rows : old.seq < new.seq
LosesTail ==
    /\ Idle
    /\ \E tail \in rows :
          /\ rows' = rows \ {tail}
          /\ \A r \in rows' : r.seq < tail.seq
AppendOnly == [][GrowsAtEnd \/ LosesTail]_rows

(* HealthyFinishDrains: when the store stops refusing, ending a run        *)
(* records its final status with nothing left in the queue, unless the     *)
(* process dies first.                                                     *)
HealthyFinishDrains ==
    (failures = MaxFailures /\ pc["finisher"] = "flush")
        ~> (handle = "crashed" \/ (handle = "taken" /\ pending = <<>> /\ status = final))

(* Every message handed over is durable, waiting, lost together with the   *)
(* recorder that held it, or was the tail that a resumption took away: the *)
(* recorder implements the ledger.                                         *)
FateOf(m) ==
    CASE m > produced -> "new"
      [] m \in Stored -> "stored"
      [] m \in Queued \ Stored -> "queued"
      [] m = own["writer"] -> "offered"
      [] OTHER -> "lost"

Ledger == INSTANCE MessageLedger
            WITH fate <- [m \in Message |-> FateOf(m)],
                 holder <- <<resumes, handle \in {"none", "crashed"}>>
ImplementsLedger == Ledger!Spec

-----------------------------------------------------------------------------
(* A statement of the source that the code does not keep.                  *)

(* QueuedIsKept: a refused message is queued and therefore written later;  *)
(* as long as the recorder lives it leaves the queue for the log only.     *)
LeavesForLog ==
    handle' \in {"open", "taken"} /\ resumes' = resumes
        => Queued \ Stored \subseteq Queued' \cup Stored'
QueuedIsKept == [][LeavesForLog]_vars
=============================================================================
