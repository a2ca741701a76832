---------------------------- MODULE Conversation ----------------------------
(***************************************************************************)
(* One conversation of the mobile runtime over several turns, questions    *)
(* that are answered late, crashes and restarts: what the session keeps in *)
(* memory (history), what the store keeps (the log of messages and the     *)
(* rows of pending questions), and how each operation carries one over to  *)
(* the other.  A turn is a run of AgentLoop.                               *)
(*                                                                         *)
(* Sources: handle_submit (openslate-session/src/session.rs), engine_turn  *)
(* and finalize_turn (engine.rs), ask_user questions and their late        *)
(* answers (openslate-mobile/src/askuser.rs), the restoration at start-up  *)
(* (assemble_state in openslate-mobile/src/runtime.rs).                    *)
(***************************************************************************)
EXTENDS AgentLoop

CONSTANTS
    MaxTurns,      \* bound: submits and late answers that start a turn
    MaxRestarts,   \* bound: restarts
    CompactFrom    \* bound: shorter histories do not outgrow the limits of
                   \* auto-compact

ASSUME ConversationAssumption ==
    MaxTurns \in Nat /\ MaxRestarts \in Nat /\ CompactFrom \in Nat

VARIABLES
    mode,       \* "idle"; "writing" and "ready" (a submit before its turn);
                \* "resuming" (a late answer before its turn); "turn";
                \* "down"; "boot" (start-up under way)
    history,    \* inner.history
    toWrite,    \* messages a submit or a late answer has yet to make durable
    openRows,   \* call ids of the questions whose row is pending
    closing,    \* on_cancel_all has spawned the task that closes the rows
    resumed,    \* was this turn started by a late answer?
    retried,    \* has this turn used its network retry?
    turns, restarts,
    cut,        \* history: has memory lost messages to compaction or truncation?
    soiled,     \* history: was a log loaded with results out of place?
    displaced   \* history: has the last start-up put an expired result
                \* elsewhere in memory than in the log?

sessionVars == <<mode, history, toWrite, openRows, closing, resumed, retried, turns, restarts, cut, soiled, displaced>>
vars == <<loopVars, sessionVars>>

(* The engine between turns.                                               *)
Quiet == pc = "idle" /\ messages = <<>> /\ Fresh
Quieten == pc' = "idle" /\ messages' = <<>> /\ Freshen

AnsweredIn(ms) == {ms[i].answers : i \in DOMAIN ms} \ {NoCall}
DanglingIds(ms) == {call.id : call \in ToSet(DanglingCalls(ms))}

TypeOK ==
    /\ LoopTypeOK
    /\ mode \in {"idle", "writing", "ready", "resuming", "turn", "down", "boot"}
    /\ history \in Seq(Message)
    /\ toWrite \in Seq(Message)
    /\ openRows \subseteq 1 .. nextId - 1
    /\ {closing, resumed, retried, cut, soiled, displaced} \subseteq BOOLEAN
    /\ turns \in 0 .. MaxTurns
    /\ restarts \in 0 .. MaxRestarts

Init ==
    /\ Quiet
    /\ log = <<>> /\ nextId = 1 /\ collected = {}
    /\ mode = "idle" /\ history = <<>> /\ toWrite = <<>>
    /\ openRows = {} /\ closing = FALSE
    /\ resumed = FALSE /\ retried = FALSE /\ cut = FALSE /\ soiled = FALSE /\ displaced = FALSE
    /\ turns = 0 /\ restarts = 0

-----------------------------------------------------------------------------
(* A slip: the open calls are left to the provider.                        *)
SubmitUnrepaired ==
    /\ mode = "idle"
    /\ turns < MaxTurns
    /\ turns' = turns + 1
    /\ history' = Append(history, UserMessage)
    /\ toWrite' = <<UserMessage>>
    /\ mode' = "writing"
    /\ UNCHANGED <<loopVars, openRows, closing, resumed, retried, restarts, cut, soiled, displaced>>

(* A slip: the results of the repair stay in memory.                       *)
SubmitWritingOnlyUser ==
    /\ mode = "idle"
    /\ turns < MaxTurns
    /\ turns' = turns + 1
    /\ history' = Append(Repaired(history), UserMessage)
    /\ toWrite' = <<UserMessage>>
    /\ mode' = "writing"
    /\ UNCHANGED <<loopVars, openRows, closing, resumed, retried, restarts, cut, soiled, displaced>>

(* handle_submit under the lock: close what is open, add the user message. *)
Submit ==
    /\ mode = "idle"
    /\ turns < MaxTurns
    /\ turns' = turns + 1
    /\ history' = Append(Repaired(history), UserMessage)
    /\ toWrite' = Append(RepairMessages(history), UserMessage)
    /\ mode' = "writing"
    /\ UNCHANGED <<loopVars, openRows, closing, resumed, retried, restarts, cut, soiled, displaced>>

(* Its messages go to the recorder one by one.                             *)
WriteNext ==
    /\ mode = "writing"
    /\ toWrite # <<>>
    /\ log' = Append(log, Head(toWrite))
    /\ toWrite' = Tail(toWrite)
    /\ mode' = IF Len(toWrite) = 1 THEN "ready" ELSE "writing"
    /\ UNCHANGED <<messages, pc, steps, empties, response, batchVars, cancelled, outcome, unchangedHistory,
                   history, openRows, closing, resumed, retried, turns, restarts, cut, soiled, displaced>>

(* run_auto_compact; the log keeps the full messages.                      *)
Compact ==
    /\ mode = "ready"
    /\ Len(history) >= CompactFrom /\ ~cut
    /\ history' \in Compactions(history)
    /\ cut' = TRUE
    /\ UNCHANGED <<loopVars, mode, toWrite, openRows, closing, resumed, retried, turns, restarts, soiled, displaced>>

StartTurn(ms) == messages' = ms /\ pc' = "check" /\ Freshen /\ mode' = "turn" /\ retried' = FALSE

Launch ==
    /\ mode = "ready"
    /\ StartTurn(history)
    /\ resumed' = FALSE
    /\ UNCHANGED <<log, nextId, collected, history, toWrite, openRows, closing, turns, restarts, cut, soiled, displaced>>

(* The provider cannot be built: the user message is taken back, in memory *)
(* only.                                                                   *)
ProviderUnavailable ==
    /\ mode = "ready"
    /\ mode' = "idle"
    /\ history' = IF Last(history) = UserMessage THEN Front(history) ELSE history
    /\ UNCHANGED <<loopVars, toWrite, openRows, closing, resumed, retried, turns, restarts, cut, soiled, displaced>>

-----------------------------------------------------------------------------
(* A step of the run.  A question whose answer has come in closes its row; *)
(* a cancel spawns the task that closes all of them.                       *)
TurnStep ==
    /\ mode = "turn"
    /\ LoopNext
    /\ openRows' = openRows \ collected'
    /\ closing' = (closing \/ cancelled' # cancelled)
    /\ UNCHANGED <<mode, history, toWrite, resumed, retried, turns, restarts, cut, soiled, displaced>>

(* ask_user running as call n of the batch stores its row.                 *)
AskQuestion(n) ==
    /\ mode = "turn"
    /\ \/ pc = "inflight" /\ n \in DOMAIN batch \ slots
       \/ pc = "serial" /\ n = next
    /\ batch[n].kind = "ask"
    /\ openRows' = openRows \cup {batch[n].id}
    /\ UNCHANGED <<loopVars, mode, history, toWrite, closing, resumed, retried, turns, restarts, cut, soiled, displaced>>

(* The task on_cancel_all spawned closes every row pending by now.         *)
CloseRows ==
    /\ closing
    /\ openRows' = {}
    /\ closing' = FALSE
    /\ UNCHANGED <<loopVars, mode, history, toWrite, resumed, retried, turns, restarts, cut, soiled, displaced>>

EndTurn == mode' = "idle" /\ Quieten /\ UNCHANGED <<log, nextId, collected>>

(* finalize_turn after a turn that went well, or was interrupted: its      *)
(* conversation becomes the history.                                       *)
TurnOk ==
    /\ mode = "turn"
    /\ pc = "returned"
    /\ outcome \in {"completed", "interrupted"}
    /\ history' = messages
    /\ cut' = (cut \/ truncated)
    /\ EndTurn
    /\ UNCHANGED <<toWrite, openRows, closing, resumed, retried, turns, restarts, soiled, displaced>>

(* A turn that fails, or panics in the provider: memory keeps the history  *)
(* of before, the log keeps what the turn has written.                     *)
TurnError ==
    /\ mode = "turn"
    /\ \/ pc = "returned" /\ outcome \in {"network", "error"}
       \/ pc = "stream"
    /\ EndTurn
    /\ UNCHANGED <<history, toWrite, openRows, closing, resumed, retried, turns, restarts, cut, soiled, displaced>>

(* Once per turn, not for a resumed one, and not after a cancel, a lost    *)
(* connection runs the turn again from the same history.                   *)
NetworkRetry ==
    /\ mode = "turn"
    /\ pc = "returned" /\ outcome = "network"
    /\ ~retried /\ ~resumed /\ ~cancelled
    /\ messages' = history /\ pc' = "check" /\ Freshen
    /\ retried' = TRUE
    /\ UNCHANGED <<log, nextId, collected, mode, history, toWrite, openRows, closing, resumed, turns, restarts, cut, soiled, displaced>>

-----------------------------------------------------------------------------
(* The call that history leaves open under this id.                        *)
OpenCall(id) == CHOOSE call \in ToSet(DanglingCalls(history)) : call.id = id

(* A slip: the row of the answered question stays pending.                 *)
LateAnswerKeepingRow(id) ==
    /\ mode = "idle"
    /\ turns < MaxTurns
    /\ turns' = turns + 1
    /\ id \in openRows \cap DanglingIds(history)
    /\ toWrite' = <<ToolMessage(OpenCall(id), "output")>>
    /\ messages' = WithLateResult(history, OpenCall(id), "output")
    /\ mode' = "resuming"
    /\ UNCHANGED <<log, pc, steps, empties, response, batchVars, cancelled, outcome, unchangedHistory,
                   openRows, history, closing, resumed, retried, restarts, cut, soiled, displaced>>

(* late_reply_async: the row goes from pending to answered, and the result *)
(* joins a copy of the history.                                            *)
LateAnswer(id) ==
    /\ mode = "idle"
    /\ turns < MaxTurns
    /\ turns' = turns + 1
    /\ id \in openRows \cap DanglingIds(history)
    /\ openRows' = openRows \ {id}
    /\ toWrite' = <<ToolMessage(OpenCall(id), "output")>>
    /\ messages' = WithLateResult(history, OpenCall(id), "output")
    /\ mode' = "resuming"
    /\ UNCHANGED <<log, pc, steps, empties, response, batchVars, cancelled, outcome, unchangedHistory,
                   history, closing, resumed, retried, restarts, cut, soiled, displaced>>

(* The provider cannot be built: the row is pending again.                 *)
LateAnswerUndone ==
    /\ mode = "resuming"
    /\ openRows' = openRows \cup {Head(toWrite).answers}
    /\ toWrite' = <<>>
    /\ mode' = "idle"
    /\ messages' = <<>>
    /\ UNCHANGED <<log, pc, steps, empties, response, batchVars, cancelled, outcome, unchangedHistory,
                   history, closing, resumed, retried, turns, restarts, cut, soiled, displaced>>

(* resume_from_tool_result: the result goes to the log, the loop starts.   *)
ResumeTurn ==
    /\ mode = "resuming"
    /\ log' = log \o toWrite
    /\ toWrite' = <<>>
    /\ StartTurn(messages)
    /\ resumed' = TRUE
    /\ UNCHANGED <<nextId, collected, history, openRows, closing, turns, restarts, cut, soiled, displaced>>

(* A late answer to a call that is not open any more closes the row.       *)
AnswerRefused(id) ==
    /\ mode = "idle"
    /\ id \in openRows \ DanglingIds(history)
    /\ openRows' = openRows \ {id}
    /\ UNCHANGED <<loopVars, mode, history, toWrite, closing, resumed, retried, turns, restarts, cut, soiled, displaced>>

-----------------------------------------------------------------------------
(* The process dies: the log and the rows survive.                         *)
Crash ==
    /\ mode # "down"
    /\ restarts < MaxRestarts
    /\ mode' = "down"
    /\ Quieten
    /\ history' = <<>> /\ toWrite' = <<>> /\ closing' = FALSE
    /\ UNCHANGED <<log, nextId, collected, openRows, resumed, retried, turns, restarts, cut, soiled, displaced>>

(* load_messages_keep_dangling                                             *)
Load ==
    /\ mode = "down"
    /\ restarts' = restarts + 1
    /\ history' = log
    /\ mode' = "boot"
    /\ cut' = FALSE
    /\ displaced' = FALSE
    /\ soiled' = (\E k \in DOMAIN log : log[k].role = "tool" /\ ~Grounded(log, k))
    /\ UNCHANGED <<loopVars, toWrite, openRows, closing, resumed, retried, turns>>

(* startup_question_maintenance, a row past its time: an open call gets an *)
(* expired result.                                                         *)
ExpireRow(id) ==
    /\ mode = "boot"
    /\ id \in openRows
    /\ openRows' = openRows \ {id}
    /\ IF id \in DanglingIds(history)
       THEN /\ history' = WithLateResult(history, OpenCall(id), "expired")
            /\ log' = Append(log, ToolMessage(OpenCall(id), "expired"))
            /\ displaced' = (history' # log')
       ELSE UNCHANGED <<history, log, displaced>>
    /\ UNCHANGED <<messages, pc, steps, empties, response, batchVars, cancelled, outcome, unchangedHistory,
                   mode, toWrite, closing, resumed, retried, turns, restarts, cut, soiled>>

(* Two slips: the tail is dropped although a question in it is pending; it *)
(* is dropped in memory only.                                              *)
BootedDroppingQuestions ==
    /\ mode = "boot"
    /\ mode' = "idle"
    /\ openRows' = openRows \ (AnsweredIn(history) \ DanglingIds(history))
    /\ IF EndsInCalls(history)
       THEN history' = Front(history) /\ log' = Front(log)
       ELSE UNCHANGED <<history, log>>
    /\ UNCHANGED <<messages, pc, steps, empties, response, batchVars, cancelled, outcome, unchangedHistory,
                   toWrite, closing, resumed, retried, turns, restarts, cut, soiled, displaced>>

BootedDroppingInMemory ==
    /\ mode = "boot"
    /\ mode' = "idle"
    /\ openRows' = openRows \ (AnsweredIn(history) \ DanglingIds(history))
    /\ history' = IF EndsInCalls(history) /\ openRows' \cap DanglingIds(history) = {}
                  THEN Front(history) ELSE history
    /\ UNCHANGED <<loopVars, toWrite, closing, resumed, retried, turns, restarts, cut, soiled, displaced>>

(* The rest of the restoration: rows of answered calls are closed; a last  *)
(* message with open calls is dropped, in memory and as the last row of    *)
(* the log, unless a question of the history can still be answered.        *)
Booted ==
    /\ mode = "boot"
    /\ mode' = "idle"
    /\ openRows' = openRows \ (AnsweredIn(history) \ DanglingIds(history))
    /\ IF EndsInCalls(history) /\ openRows' \cap DanglingIds(history) = {}
       THEN history' = Front(history) /\ log' = Front(log)
       ELSE UNCHANGED <<history, log>>
    /\ UNCHANGED <<messages, pc, steps, empties, response, batchVars, cancelled, outcome, unchangedHistory,
                   toWrite, closing, resumed, retried, turns, restarts, cut, soiled, displaced>>

-----------------------------------------------------------------------------
Next ==
    \/ Submit \/ WriteNext \/ Compact \/ Launch \/ ProviderUnavailable
    \/ TurnStep \/ CloseRows \/ TurnOk \/ TurnError \/ NetworkRetry
    \/ \E n \in DOMAIN batch : AskQuestion(n)
    \/ \E id \in openRows : LateAnswer(id) \/ AnswerRefused(id) \/ ExpireRow(id)
    \/ LateAnswerUndone \/ ResumeTurn
    \/ Crash \/ Load \/ Booted

Spec == Init /\ [][Next]_vars

-----------------------------------------------------------------------------
(* Requests that went out over a conversation nothing was cut from.        *)
Sends == pc = "stream" /\ ~truncated /\ ~cut

(* SubmittedValid: whatever was cancelled, failed, retried, crashed or     *)
(* left unanswered before, the requests of a submitted turn are valid,     *)
(* unless the log was loaded with results out of their place.              *)
SubmittedValid == Sends /\ ~resumed /\ ~soiled => ProviderValid(messages)

(* OutputOnce: no call has two outputs in the log, however often its       *)
(* question is answered, interrupted and answered again.                   *)
OutputOnce ==
    \A i, k \in DOMAIN log :
        log[i].result = "output" /\ log[k].result = "output" /\ log[i].answers = log[k].answers
            => i = k

(* HistoryIsDurable: what the assistant remembers between turns it would   *)
(* remember after a crash: every call and every result in memory is in the *)
(* log, unless a displaced result made the start-up delete another row     *)
(* than it should.                                                         *)
HistoryIsDurable ==
    mode \in {"idle", "ready", "turn"} /\ ~displaced => \A i \in DOMAIN history :
        history[i].role # "system" => history[i] \in ToSet(log)

(* QuestionsSurvive: a question that is pending when the process comes up  *)
(* again can still be answered: the call it belongs to is open in the log  *)
(* and, after the start-up, open in memory.                                *)
QuestionsSurvive ==
    [][mode = "boot" /\ mode' = "idle" =>
        openRows' \cap DanglingIds(log) \subseteq DanglingIds(history')]_<<mode, history, openRows>>

(* RestoredAlike: the start-up drops from the log exactly what it drops    *)
(* from memory, unless it has put an expired result behind later messages  *)
(* of the log: then it deletes that result.                                *)
RestoredAlike ==
    [][mode = "boot" /\ mode' = "idle" /\ ~displaced =>
        \/ history' = history /\ log' = log
        \/ history' = Front(history) /\ log' = Front(log) /\ Last(history) = Last(log)]_<<mode, history, log>>

-----------------------------------------------------------------------------
(* A statement of the source that the code does not keep.                  *)

(* SubmittedAlwaysValid: the repair at the start of a submit makes every   *)
(* conversation acceptable to the provider.                                *)
SubmittedAlwaysValid == Sends /\ ~resumed => ProviderValid(messages)
=============================================================================
