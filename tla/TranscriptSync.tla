--------------------------- MODULE TranscriptSync ---------------------------
(***************************************************************************)
(* The transcript on the screen and the rows that store it.  The session   *)
(* appends entries to the transcript in memory; a loop writes what lies    *)
(* behind its cursor as rows, one INSERT at a time and under a lock of its *)
(* own; a new session, the opening of an old one and the shutdown flush    *)
(* what is left.  A restart or an opening reads the rows back and mends    *)
(* their tail from the messages of the run.                                *)
(*                                                                         *)
(* Sources: SyncState, sync_loop, rebuild_transcript, heal_truncated_tail  *)
(* (openslate-mobile/src/transcripts.rs), open_session, shutdown and       *)
(* assemble_state (runtime.rs), NewSession (openslate-session/src/         *)
(* session.rs), the entries of a turn (state.rs, engine.rs).               *)
(***************************************************************************)
EXTENDS Integers, Sequences, FiniteSets, SequencesExt

CONSTANTS
    MaxRuns,      \* bound: runs
    MaxTracked,   \* MAX_TRACKED_RUNS
    MaxTurns,     \* bound: turns
    Archive,      \* the messages of run 1, which an earlier life has left
    Calls,        \* the calls a model makes, each with or without a text
    MaxEvents,    \* bound: turns, handlers and faults together
    Reopening     \* may open_session be given the current run?

ASSUME SyncAssumption ==
    /\ {MaxRuns, MaxTracked, MaxTurns} \subseteq Nat \ {0}
    /\ MaxEvents \in Nat
    /\ Reopening \in BOOLEAN
    /\ Calls \subseteq [tool : {"call", "quest"}, text : BOOLEAN]

Run == 1 .. MaxRuns
NoRun == 0
Id == 0 .. Len(Archive) + 3 * MaxTurns
Tool == {"call", "quest"}  \* a tool, or a question to the user

Entry == [kind : {"user", "text", "call", "meta", "mark"}, id : Id, out : BOOLEAN]
Shown(kind, id, out) == [kind |-> kind, id |-> id, out |-> out]
Meta == Shown("meta", 0, TRUE)    \* HEAL_META, DANGLING_TAIL_META
Mark == Shown("mark", 0, TRUE)    \* INCOMPLETE_TURN_META
Message == [role : {"user", "agent", "tool"}, id : Id, call : Tool \cup {"none"}, text : BOOLEAN]

\* The first run's messages, written before this process started: an id
\* stands for one message and the answers to its call.
ASSUME ArchiveAssumption ==
    /\ Archive \in Seq({m \in Message : m.id <= Len(Archive)})
    /\ \A i, j \in DOMAIN Archive :
         i # j /\ Archive[i].role # "tool" /\ Archive[j].role # "tool" => Archive[i].id # Archive[j].id

VARIABLES
    transcript, run, running,   \* the core
    rows, messages, runs,       \* the store: transcript_entries by seq and messages, per
                                \* run; the number of runs
    cursors,                    \* SyncState: run -> rows written
    writer,                     \* who holds the lock of the cursors, and its pass
    turn,                       \* the engine's turn
    switch,                     \* the handler that changes the session, or ends it
    ids, turns, events,   \* bounds
    broken  \* history: the store refused open_session a part of its flush, or the
            \* rows; or a row was written behind a Mark that memory lacks

core == <<transcript, run, running>>
store == <<rows, messages, runs>>
sync == <<cursors, writer>>
counters == <<ids, turns, events, broken>>
vars == <<core, store, sync, turn, switch, counters>>

NoWriter == [by |-> "none"]
NoTurn == [at |-> "none", run |-> NoRun, first |-> 0, id |-> 0, call |-> "none", text |-> FALSE]
NoSwitch == [op |-> "none", at |-> "none", target |-> NoRun, popped |-> FALSE, late |-> FALSE,
             loaded |-> <<>>, built |-> <<>>]

---------------------------------------------------------------------------
(* Reading a transcript back.                                              *)

Put(f, k, v) == [x \in DOMAIN f \cup {k} |-> IF x = k THEN v ELSE f[x]]
InsertOrIgnore(table, seq, e) == IF seq \in DOMAIN table THEN table ELSE Put(table, seq, e)
Listed(table) ==
    LET seqs == DOMAIN table
        Nth(i) == CHOOSE k \in seqs : Cardinality({x \in seqs : x < k}) = i - 1
    IN [i \in 1 .. Cardinality(seqs) |-> table[Nth(i)]]

Answered(ms) == {m.id : m \in {x \in Range(ms) : x.role = "tool"}}
EndsOpen(ms) == ms # <<>> /\ Last(ms).role = "agent" /\ Last(ms).call # "none"

\* The projection puts the calls of a message before its text.
Projected(m, ms) ==
    CASE m.role = "user" -> <<Shown("user", m.id, TRUE)>>
      [] m.role = "agent" ->
            (IF m.call = "none" THEN <<>> ELSE <<Shown("call", m.id, m.id \in Answered(ms))>>)
            \o (IF m.text THEN <<Shown("text", m.id, TRUE)>> ELSE <<>>)
      [] m.role = "tool" -> <<>>
Project(ms) == FlattenSeq([i \in 1 .. Len(ms) |-> Projected(ms[i], ms)])

Durable(e) == e.kind \in {"user", "text", "call"}
Durables(out) == Listed([i \in {k \in DOMAIN out : Durable(out[k])} |-> out[i]])
Pairs(e, p) == e.kind = p.kind /\ (e.kind = "call" => e.id = p.id)
HealedOverlapping(out, ms) ==  \* mutant: the tail starts one entry early
    LET shown == Durables(out)
        projected == Project(ms)
    IN IF shown # <<>> /\ Len(shown) < Len(projected)
       THEN out \o <<Meta>> \o SubSeq(projected, Len(shown), Len(projected)) ELSE out

Healed(out, ms) ==
    LET shown == Durables(out)
        projected == Project(ms)
    IN IF /\ Len(shown) < Len(projected)
          /\ \A k \in 1 .. Len(shown) : Pairs(shown[k], projected[k])
       THEN out \o <<Meta>> \o SubSeq(projected, Len(shown) + 1, Len(projected))
       ELSE out
Rebuilt(table, ms, readable) ==
    Healed(IF readable /\ DOMAIN table # {} THEN Listed(table) ELSE Project(ms), ms)
WithDropMark(out, popped) == IF popped /\ out # <<>> THEN Append(out, Meta) ELSE out

\* The store refuses a statement, or the process dies.
Fault == events < MaxEvents /\ events' = events + 1

Init ==
    /\ transcript = <<>> /\ run = NoRun /\ running = FALSE
    /\ messages = [r \in Run |-> IF r = 1 THEN Archive ELSE <<>>]
    /\ rows = [r \in Run |-> [i \in 0 .. Len(Project(messages[r])) - 1 |-> Project(messages[r])[i + 1]]]
    /\ runs = IF Archive = <<>> THEN 0 ELSE 1
    /\ cursors = <<>> /\ writer = NoWriter
    /\ turn = NoTurn /\ switch = NoSwitch
    /\ ids = Len(Archive) /\ turns = 0 /\ events = 0
    /\ broken = FALSE

---------------------------------------------------------------------------
(* The turn: what it appends to the transcript and to the messages.        *)

Say(e) == transcript' = transcript \o e
Log(r, m) == messages' = [messages EXCEPT ![r] = Append(@, m)]
FreshId == ids' = ids + 1
Text(id) == <<Shown("text", id, TRUE)>>

\* A prompt inside open_session tears the session itself: see Session.
Submit ==
    /\ switch.op # "open" /\ ~running /\ turn = NoTurn /\ turns < MaxTurns /\ events < MaxEvents
    /\ run = NoRun => runs < MaxRuns
    /\ Say(<<Shown("user", ids + 1, TRUE)>>) /\ running' = TRUE
    /\ turn' = [NoTurn EXCEPT !.at = IF run = NoRun THEN "open" ELSE "user",
                               !.run = run, !.first = ids + 1, !.id = ids + 1]
    /\ FreshId /\ turns' = turns + 1 /\ events' = events + 1
    /\ UNCHANGED <<run, store, sync, switch, broken>>

OpenRun ==
    /\ turn.at = "open"
    /\ runs' = runs + 1 /\ run' = runs'
    /\ turn' = [turn EXCEPT !.at = "user", !.run = runs']
    /\ UNCHANGED <<transcript, running, rows, messages, sync, switch, counters>>

\* A call that was left open is answered first (superseded).
Result(id) == [role |-> "tool", id |-> id, call |-> "none", text |-> FALSE]
WriteUser ==
    /\ turn.at = "user"
    /\ LET ms == messages[turn.run]
           user == [role |-> "user", id |-> turn.id, call |-> "none", text |-> TRUE]
       IN messages' = [messages EXCEPT ![turn.run] =
            ms \o (IF EndsOpen(ms) THEN <<Result(Last(ms).id), user>> ELSE <<user>>)]
    /\ turn' = [turn EXCEPT !.at = "model"]
    /\ UNCHANGED <<core, rows, runs, sync, switch, counters>>

\* The model calls one tool, with or without text; a second answer is text.
ModelCalls(tool, text) ==
    /\ turn.at = "model" /\ turn.call = "none"
    /\ Log(turn.run, [role |-> "agent", id |-> ids + 1, call |-> tool, text |-> text])
    /\ turn' = [turn EXCEPT !.at = "called", !.id = ids + 1, !.call = tool, !.text = text]
    /\ FreshId
    /\ UNCHANGED <<core, rows, runs, sync, switch, turns, events, broken>>

ToolStart ==
    /\ turn.at = "called"
    /\ Say((IF turn.text THEN Text(turn.id) ELSE <<>>)
           \o <<Shown("call", turn.id, FALSE)>>)
    /\ turn' = [turn EXCEPT !.at = "tool"]
    /\ UNCHANGED <<run, running, store, sync, switch, counters>>

ToolEnd ==
    /\ turn.at = "tool"
    /\ Log(turn.run, Result(turn.id))
    /\ turn' = [turn EXCEPT !.at = "model"]
    /\ UNCHANGED <<core, rows, runs, sync, switch, counters>>

ModelAnswers ==
    /\ turn.at = "model"
    /\ Log(turn.run, [role |-> "agent", id |-> ids + 1, call |-> "none", text |-> TRUE])
    /\ turn' = [turn EXCEPT !.at = "fold", !.id = ids + 1, !.text = TRUE]
    /\ FreshId
    /\ UNCHANGED <<core, rows, runs, sync, switch, turns, events, broken>>

\* Cancelled while the model speaks (a partial text is shown and not
\* logged), or while a question waits (its call stays open).
TurnCancelled ==
    \/ /\ turn.at = "model"
       /\ \E partial \in BOOLEAN : turn' = [turn EXCEPT !.at = "fold", !.id = ids + 1, !.text = partial]
       /\ FreshId
       /\ UNCHANGED <<core, store, sync, switch, turns, events, broken>>
    \/ /\ turn.at = "tool" /\ turn.call = "quest"
       /\ turn' = [turn EXCEPT !.at = "fold", !.text = FALSE]
       /\ UNCHANGED <<core, store, sync, switch, counters>>

\* The outputs reach the entries when the turn ends.
Folded(t, ms) ==
    [i \in DOMAIN t |-> IF t[i].kind = "call" /\ t[i].id \in Answered(ms)
                        THEN [t[i] EXCEPT !.out = TRUE] ELSE t[i]]
FoldToolOutcomes ==
    /\ turn.at = "fold"
    /\ LET flushed == transcript \o (IF turn.text THEN Text(turn.id) ELSE <<>>)
       IN transcript' = Folded(flushed, messages[turn.run])
    /\ turn' = [turn EXCEPT !.at = "end"]
    /\ UNCHANGED <<run, running, store, sync, switch, counters>>

TurnFails ==
    /\ turn.at = "model"
    /\ \E partial \in BOOLEAN : Say(IF partial THEN Text(ids + 1) ELSE <<>>)
    /\ turn' = [turn EXCEPT !.at = "end"]
    /\ FreshId
    /\ UNCHANGED <<run, running, store, sync, switch, turns, events, broken>>

FinalizeTurn ==
    /\ turn.at = "end"
    /\ running' = FALSE /\ turn' = NoTurn
    /\ UNCHANGED <<transcript, run, store, sync, switch, counters>>

---------------------------------------------------------------------------
(* A pass over the transcript, under the lock of the cursors.              *)

UntilAll(entries, busy, force, cursor) == Len(entries)  \* mutant: nothing is put off

\* The pass of the loop stops at the first call of a turn in flight.
Until(entries, busy, force, cursor) ==
    LET stops == {i \in cursor + 1 .. Len(entries) : ~force /\ busy /\ entries[i].kind = "call"}
    IN IF stops = {} THEN Len(entries) ELSE Min(stops) - 1

\* stage: "boot" reads the number of rows, "write" inserts, "mark" adds the Mark.
Pass(by) ==
    LET tracked == run \in DOMAIN cursors
        from == IF tracked THEN cursors[run] ELSE 0
    IN [by |-> by, run |-> run, entries |-> transcript, busy |-> running,
        stage |-> IF tracked THEN "write" ELSE "boot", from |-> from, seq |-> from,
        until |-> IF tracked THEN Until(transcript, running, by = "flush", from) ELSE 0,
        unfolded |-> FALSE]

Release(c) ==
    /\ writer' = NoWriter /\ cursors' = c
    /\ switch' = IF writer.by = "flush" THEN [switch EXCEPT !.at = "flushed"] ELSE switch

\* A pass that would find nothing to do is left out.  Once shutdown has
\* begun, only a pass that was already waiting for the lock is made.
LoopPass ==
    /\ writer = NoWriter /\ run # NoRun
    /\ switch.op = "stop" => switch.late
    /\ run \in DOMAIN cursors => Until(transcript, running, FALSE, cursors[run]) > cursors[run]
    /\ writer' = Pass("loop") /\ switch' = [switch EXCEPT !.late = FALSE]
    /\ UNCHANGED <<core, store, cursors, turn, counters>>

FlushPass ==
    /\ writer = NoWriter /\ switch.at = "flush"
    /\ IF run = NoRun
       THEN writer' = writer /\ switch' = [switch EXCEPT !.at = "flushed"]
       ELSE writer' = Pass("flush") /\ switch' = [switch EXCEPT !.at = "flushing"]
    /\ UNCHANGED <<core, store, cursors, turn, counters>>

TrackedAll(c, r, n) == {Put(c, r, n)}  \* mutant: no eviction

\* A refused read counts as no rows; a full table loses some other run.
Tracked(c, r, n) ==
    IF Cardinality(DOMAIN c) < MaxTracked THEN {Put(c, r, n)}
    ELSE {Put([x \in DOMAIN c \ {old} |-> c[x]], r, n) : old \in DOMAIN c}
Bootstrap ==
    /\ writer.by # "none" /\ writer.stage = "boot"
    /\ \E refused \in BOOLEAN :
         LET n == IF refused THEN 0 ELSE Cardinality(DOMAIN rows[writer.run])
         IN /\ IF refused THEN Fault ELSE UNCHANGED events
            /\ cursors' \in Tracked(cursors, writer.run, n)
            /\ writer' = [writer EXCEPT !.stage = "write", !.from = n, !.seq = n,
                 !.until = Until(writer.entries, writer.busy, writer.by = "flush", n)]
    /\ UNCHANGED <<core, store, turn, switch, ids, turns, broken>>

LacksMark(table, seq, entries) ==
    \E j \in DOMAIN table : /\ j <= seq /\ table[j] = Mark
                            /\ j < Len(entries) => entries[j + 1] # Mark
InsertEntry ==
    /\ writer.by # "none" /\ writer.stage = "write" /\ writer.seq < writer.until
    /\ LET e == writer.entries[writer.seq + 1]
       IN \/ /\ rows' = [rows EXCEPT ![writer.run] = InsertOrIgnore(@, writer.seq, e)]
             /\ writer' = [writer EXCEPT !.seq = @ + 1, !.unfolded = @ \/ (e.kind = "call" /\ ~e.out)]
             /\ broken' = (broken \/ LacksMark(rows[writer.run], writer.seq, writer.entries))
             /\ UNCHANGED events
          \/ /\ Fault /\ writer' = [writer EXCEPT !.until = writer.seq]
             /\ broken' = (broken \/ switch = [switch EXCEPT !.op = "open", !.at = "flushing"])
             /\ UNCHANGED rows
    /\ UNCHANGED <<core, messages, runs, cursors, turn, switch, ids, turns>>

EndPassHoldingOn ==  \* mutant: a pass without a write keeps the lock
    /\ writer.by # "none" /\ writer.stage = "write" /\ writer.seq >= writer.until
    /\ writer.seq > writer.from /\ Release(Put(cursors, writer.run, writer.seq))
    /\ UNCHANGED <<core, store, turn, counters>>

EndPass ==
    /\ writer.by # "none" /\ writer.stage = "write" /\ writer.seq >= writer.until
    /\ LET c == IF writer.seq > writer.from THEN Put(cursors, writer.run, writer.seq) ELSE cursors
       IN IF writer.by = "flush" /\ writer.unfolded
          THEN cursors' = c /\ writer' = [writer EXCEPT !.stage = "mark"] /\ switch' = switch
          ELSE Release(c)
    /\ UNCHANGED <<core, store, turn, counters>>

InsertMark ==
    /\ writer.by # "none" /\ writer.stage = "mark"
    /\ \/ /\ rows' = [rows EXCEPT ![writer.run] = InsertOrIgnore(@, writer.seq, Mark)]
          /\ Release(Put(cursors, writer.run, writer.seq + 1)) /\ UNCHANGED events
       \/ Fault /\ Release(cursors) /\ rows' = rows
    /\ UNCHANGED <<core, messages, runs, turn, ids, turns, broken>>

---------------------------------------------------------------------------
(* The handlers that let the transcript go.                                *)

Begin(op, target, late) ==
    /\ switch = NoSwitch /\ events < MaxEvents
    /\ switch' = [NoSwitch EXCEPT !.op = op, !.at = "flush", !.target = target,
                                  !.late = late]
    /\ events' = events + 1
    /\ UNCHANGED <<core, store, sync, turn, ids, turns, broken>>
NewSession == ~running /\ Begin("new", NoRun, FALSE)
OpenSession(r) ==
    /\ ~running /\ r \in 1 .. runs /\ (r = run => Reopening)
    /\ Begin("open", r, FALSE)
Shutdown == \E late \in BOOLEAN : Begin("stop", NoRun, late)

\* The second guard: a turn may have begun during the flush.
ResetSession ==
    /\ switch.op = "new" /\ switch.at = "flushed"
    /\ IF running THEN UNCHANGED <<transcript, run>> ELSE transcript' = <<>> /\ run' = NoRun
    /\ switch' = NoSwitch
    /\ UNCHANGED <<running, store, sync, turn, counters>>

OpenFails ==
    /\ switch.op = "open" /\ switch.at = "flushed"
    /\ Fault /\ switch' = NoSwitch
    /\ UNCHANGED <<core, store, sync, turn, ids, turns, broken>>

LoadRun ==
    /\ switch.op = "open" /\ switch.at = "flushed"
    /\ LET r == switch.target
           ms == IF EndsOpen(messages[r]) THEN Front(messages[r]) ELSE messages[r]
       IN IF EndsOpen(messages[r])
          THEN /\ messages' = [messages EXCEPT ![r] = ms] /\ UNCHANGED runs
               /\ rows' = [rows EXCEPT ![r] = <<>>]
               /\ switch' = [switch EXCEPT !.at = "popped", !.popped = TRUE, !.loaded = ms]
          ELSE UNCHANGED store /\ switch' = [switch EXCEPT !.at = "loaded", !.loaded = ms]
    /\ UNCHANGED <<core, sync, turn, counters>>

InvalidateNothing ==  \* mutant: the cursor outlives its rows
    /\ switch.at = "popped" /\ switch' = [switch EXCEPT !.at = "loaded"]
    /\ UNCHANGED <<core, store, sync, turn, counters>>

Invalidate ==
    /\ switch.at = "popped" /\ writer = NoWriter
    /\ cursors' = [r \in DOMAIN cursors \ {switch.target} |-> cursors[r]]
    /\ switch' = [switch EXCEPT !.at = "loaded"]
    /\ UNCHANGED <<core, store, writer, turn, counters>>

ReleaseOld ==
    /\ switch.at = "loaded"
    /\ run' = IF run = switch.target THEN run ELSE NoRun
    /\ switch' = [switch EXCEPT !.at = "released"]
    /\ UNCHANGED <<transcript, running, store, sync, turn, counters>>

RebuildTranscript ==
    /\ switch.at = "released"
    /\ \E readable \in BOOLEAN :
         /\ IF readable THEN UNCHANGED events ELSE Fault
         /\ broken' = (broken \/ ~readable)
         /\ switch' = [switch EXCEPT !.at = "built", !.built =
              WithDropMark(Rebuilt(rows[switch.target], switch.loaded, readable), switch.popped)]
    /\ UNCHANGED <<core, store, sync, turn, ids, turns>>

Install ==
    /\ switch.at = "built"
    /\ transcript' = switch.built /\ run' = switch.target /\ running' = FALSE
    /\ switch' = NoSwitch
    /\ UNCHANGED <<store, sync, turn, counters>>

\* The process dies, or ends after its flush, and is started again: the
\* last run is restored, without an open call that nothing can answer.
Restart(pop) ==
    /\ \/ switch.op = "stop" /\ switch.at = "flushed" /\ UNCHANGED events
       \/ Fault
    /\ IF runs = 0 \/ messages[runs] = <<>>
       THEN ~pop /\ transcript' = <<>> /\ run' = NoRun /\ UNCHANGED <<rows, messages>>
       ELSE LET stored == messages[runs]
                drop == EndsOpen(stored) /\ (pop \/ Last(stored).call # "quest")
                ms == IF drop THEN Front(stored) ELSE stored
                left == IF drop THEN <<>> ELSE rows[runs]
            IN /\ pop => EndsOpen(stored) /\ Last(stored).call = "quest"
               /\ messages' = [messages EXCEPT ![runs] = ms]
               /\ rows' = [rows EXCEPT ![runs] = left]
               /\ transcript' = WithDropMark(Rebuilt(left, ms, TRUE), drop) /\ run' = runs
    /\ UNCHANGED runs
    /\ running' = FALSE /\ cursors' = <<>> /\ writer' = NoWriter
    /\ turn' = NoTurn /\ switch' = NoSwitch
    /\ UNCHANGED <<ids, turns, broken>>

TurnStep ==
    \/ OpenRun \/ WriteUser \/ ToolStart \/ ToolEnd \/ ModelAnswers
    \/ TurnCancelled \/ FoldToolOutcomes \/ TurnFails \/ FinalizeTurn
    \/ \E c \in Calls : ModelCalls(c.tool, c.text)
PassStep == Bootstrap \/ InsertEntry \/ EndPass \/ InsertMark
SwitchStep ==
    \/ ResetSession \/ OpenFails \/ LoadRun \/ Invalidate
    \/ ReleaseOld \/ RebuildTranscript \/ Install

Next ==
    \/ Submit \/ TurnStep
    \/ LoopPass \/ FlushPass \/ PassStep
    \/ NewSession \/ Shutdown \/ SwitchStep
    \/ \E r \in Run : OpenSession(r)
    \/ \E pop \in BOOLEAN : Restart(pop)

Fairness ==
    /\ WF_vars(LoopPass) /\ WF_vars(FlushPass) /\ WF_vars(PassStep)
Spec == Init /\ [][Next]_vars /\ Fairness

---------------------------------------------------------------------------
(* Properties.                                                             *)

TypeOK ==
    /\ transcript \in Seq(Entry) /\ run \in Run \cup {NoRun} /\ running \in BOOLEAN
    /\ \A r \in Run : /\ DOMAIN rows[r] \subseteq Nat /\ Range(rows[r]) \subseteq Entry
                      /\ messages[r] \in Seq(Message)
    /\ DOMAIN cursors \subseteq Run /\ Cardinality(DOMAIN cursors) <= MaxTracked
    /\ Range(cursors) \subseteq Nat

SameEntry(a, b) == a.kind = b.kind /\ a.id = b.id

\* The rows of the current run are the first entries of the transcript, as
\* many as the cursor says, up to a Mark that the transcript lacks: the loop
\* is the only writer and finds its place by counting, while open_session
\* deletes rows and replaces the transcript without its lock.
RowsFollowMemory ==
    LET synced == IF run \in DOMAIN cursors /\ writer = NoWriter THEN cursors[run] ELSE 0
    IN run # NoRun /\ switch.op # "open" /\ ~broken =>
        \A i \in DOMAIN rows[run] \cup 0 .. synced - 1 :
            \/ LacksMark(rows[run], i, transcript)
            \/ i \in DOMAIN rows[run] /\ i < Len(transcript) /\ SameEntry(rows[run][i], transcript[i + 1])

\* Only a flush stores the call of a turn that is still under way: its row
\* is never written again, and would lack the output for ever.
OnlyFlushSnapshots ==
    [][\A r \in Run : \A i \in DOMAIN rows'[r] \ DOMAIN rows[r] :
        writer.by = "loop" /\ rows'[r][i].kind = "call" /\ turn # NoTurn
            => rows'[r][i].id < turn.first]_vars

\* No message is shown twice, whatever was lost in a crash and mended from
\* the messages of the run (heal_truncated_tail: rather missing than wrong).
ShownOnce ==
    ~broken => \A i, j \in 1 .. Len(transcript) :
        i # j /\ Durable(transcript[i]) => ~SameEntry(transcript[i], transcript[j])

\* The loop catches up with every quiet transcript, although each refused
\* statement ends its pass.
Backlog == run # NoRun /\ (run \in DOMAIN cursors => cursors[run] < Len(transcript))
BacklogDrains == []<>(running \/ ~Backlog \/ switch.op = "stop")

=============================================================================
