----------------------------- MODULE AgentLoop -----------------------------
(***************************************************************************)
(* One agent run: execute_run of openslate-core/src/runtime.rs, on the     *)
(* streaming path of the root agent.  The loop asks the provider, appends  *)
(* the assistant message, runs the tools of the step one after the other   *)
(* or all at once, and looks at the cancellation token at its checkpoints. *)
(* Every message appended goes through the sink first; the sink is the     *)
(* log, here one that does not fail (RunRecorder is about one that does).  *)
(***************************************************************************)
EXTENDS Transcript, FiniteSets

CONSTANTS
    Batches,            \* the batches of calls a model may ask for, as kinds
    ParallelToolCalls,  \* config.parallel_tool_calls
    MaxSteps,           \* config.max_steps, not 0 (0 is "no limit")
    MaxEmptyTurns,      \* config.max_empty_turns
    MayTruncate         \* can the context outgrow max_context_bytes?

ASSUME LoopAssumption ==
    /\ Batches \subseteq Seq(CallKinds) \ {<<>>}
    /\ ParallelToolCalls \in BOOLEAN
    /\ MaxSteps \in Nat \ {0}
    /\ MaxEmptyTurns \in Nat \ {0}
    /\ MayTruncate \in BOOLEAN

VARIABLES
    messages,    \* the conversation of this run
    log,         \* what the sink made durable
    pc,          \* where the loop is
    steps,       \* total_steps
    empties,     \* consecutive_empty_turns
    response,    \* what the stream has assembled so far
    batch,       \* the calls of the current step
    next,        \* the call the loop is at
    slots,       \* the calls of a parallel batch that have an output
    batchCancelled,
    cancelled,   \* the token
    outcome,     \* how the run ended
    nextId,      \* history: the next fresh call id
    collected,   \* history: ids of the calls whose output the loop took in
    truncated,   \* history: did this run drop part of its context?
    cancelStep   \* history: steps when the token was cancelled

loopVars == <<messages, log, pc, steps, empties, response, batch, next, slots, batchCancelled,
              cancelled, outcome, nextId, collected, truncated, cancelStep>>

Working == {"check", "stream", "serial", "batch", "inflight", "drain", "cancelling"}
Outcomes == {"completed", "interrupted", "network", "error"}

(* "says": there is content, or the finish reason is stop; "silent":       *)
(* neither; "none": the stream ended without Done.                         *)
NoResponse == [text |-> "none", kinds |-> <<>>]
Responses == [text : {"says", "silent"}, kinds : {<<>>}]
                \cup [text : {"calls"}, kinds : Batches]

LoopTypeOK ==
    /\ messages \in Seq(Message) /\ log \in Seq(Message)
    /\ pc \in Working \cup {"idle", "returned"}
    /\ steps \in 0 .. MaxSteps
    /\ empties \in 0 .. MaxEmptyTurns
    /\ response \in Responses \cup {NoResponse}
    /\ batch \in Seq(Call)
    /\ next \in 1 .. Len(batch) + 1
    /\ slots \subseteq DOMAIN batch
    /\ batchCancelled \in BOOLEAN /\ cancelled \in BOOLEAN /\ truncated \in BOOLEAN
    /\ outcome \in Outcomes \cup {"none"}
    /\ nextId \in Nat \ {0}
    /\ collected \subseteq 1 .. nextId - 1
    /\ cancelStep \in 0 .. MaxSteps

(* What the loop starts from, apart from the conversation and the log.     *)
Fresh ==
    /\ steps = 0 /\ empties = 0 /\ response = NoResponse
    /\ batch = <<>> /\ next = 1 /\ slots = {} /\ batchCancelled = FALSE
    /\ cancelled = FALSE /\ outcome = "none" /\ truncated = FALSE /\ cancelStep = 0

Freshen ==
    /\ steps' = 0 /\ empties' = 0 /\ response' = NoResponse
    /\ batch' = <<>> /\ next' = 1 /\ slots' = {} /\ batchCancelled' = FALSE
    /\ cancelled' = FALSE /\ outcome' = "none" /\ truncated' = FALSE /\ cancelStep' = 0

LoopInit ==
    /\ messages = <<UserMessage>> /\ log = <<UserMessage>>
    /\ nextId = 1 /\ collected = {}
    /\ pc = "check"
    /\ Fresh

(* Sink first, then the conversation.                                      *)
Append1(m) == log' = Append(log, m) /\ messages' = Append(messages, m)

Return(o) == pc' = "returned" /\ outcome' = o

unchangedHistory == <<nextId, collected, truncated, cancelStep>>
batchVars == <<batch, next, slots, batchCancelled>>

-----------------------------------------------------------------------------
(* The user's cancel, at any time the run is under way.                    *)
CancelToken ==
    /\ pc \in Working
    /\ ~cancelled
    /\ cancelled' = TRUE
    /\ cancelStep' = steps
    /\ UNCHANGED <<messages, log, pc, steps, empties, response, batchVars, outcome, nextId, collected, truncated>>

(* Top of the loop: cancelled, out of steps, or out of LLM time.           *)
StopAtTop ==
    /\ pc = "check"
    /\ \/ (cancelled \/ steps >= MaxSteps) /\ Return("interrupted")
       \/ ~cancelled /\ steps < MaxSteps /\ Return("error")
    /\ UNCHANGED <<messages, log, steps, empties, response, batchVars, cancelled, unchangedHistory>>

(* Two slips: a request past the step limit; one after a cancel.           *)
RequestPastLimit ==
    /\ pc = "check"
    /\ ~cancelled
    /\ pc' = "stream"
    /\ response' = NoResponse
    /\ UNCHANGED <<messages, truncated, log, steps, empties, batchVars, cancelled, outcome, nextId, collected, cancelStep>>

RequestDespiteCancel ==
    /\ pc = "check"
    /\ steps < MaxSteps
    /\ pc' = "stream"
    /\ response' = NoResponse
    /\ UNCHANGED <<messages, truncated, log, steps, empties, batchVars, cancelled, outcome, nextId, collected, cancelStep>>

(* The request goes out, over a conversation cut to size.                  *)
Request ==
    /\ pc = "check"
    /\ ~cancelled
    /\ steps < MaxSteps
    /\ pc' = "stream"
    /\ response' = NoResponse
    /\ \/ UNCHANGED <<messages, truncated>>
       \/ MayTruncate /\ messages' \in Truncations(messages) /\ truncated' = TRUE
    /\ UNCHANGED <<log, steps, empties, batchVars, cancelled, outcome, nextId, collected, cancelStep>>

(* The Done event.  The select of the receive loop is not biased: a ready  *)
(* event can win against a cancelled token.                                *)
StreamDone ==
    /\ pc = "stream"
    /\ response = NoResponse
    /\ response' \in Responses
    /\ UNCHANGED <<messages, log, pc, steps, empties, batchVars, cancelled, outcome, unchangedHistory>>

StreamCancelled ==
    /\ pc = "stream"
    /\ cancelled
    /\ Return("interrupted")
    /\ UNCHANGED <<messages, log, steps, empties, response, batchVars, cancelled, unchangedHistory>>

(* A provider error, connection lost or other, or the LLM time is used up. *)
StreamFails ==
    /\ pc = "stream"
    /\ \E o \in {"network", "error"} : Return(o)
    /\ UNCHANGED <<messages, log, steps, empties, response, batchVars, cancelled, unchangedHistory>>

Calls(kinds) == [n \in DOMAIN kinds |-> [id |-> nextId + n - 1, kind |-> kinds[n]]]

(* A batch with call_agent or run_code in it is run one by one.            *)
RunsSerially(kinds) == ~ParallelToolCalls \/ "serial" \in ToSet(kinds)

(* The stream closed; a stream without Done counts as an empty response.   *)
StreamEnd ==
    /\ pc = "stream"
    /\ steps' = steps + 1
    /\ \/ /\ response.kinds # <<>>
          /\ LET calls == Calls(response.kinds)
             IN  /\ Append1(AssistantCalls(calls))
                 /\ batch' = calls
                 /\ nextId' = nextId + Len(calls)
          /\ empties' = 0
          /\ next' = 1 /\ slots' = {} /\ batchCancelled' = FALSE
          /\ pc' = IF RunsSerially(response.kinds) THEN "serial" ELSE "batch"
          /\ UNCHANGED outcome
       \/ /\ response.kinds = <<>>
          /\ Append1(AssistantSays)
          /\ \/ response.text = "says" /\ Return("completed") /\ UNCHANGED empties
             \/ /\ response.text \in {"silent", "none"}
                /\ empties' = empties + 1
                /\ IF empties + 1 >= MaxEmptyTurns
                   THEN Return("error")
                   ELSE pc' = "check" /\ UNCHANGED outcome
          /\ UNCHANGED <<batchVars, nextId>>
    /\ UNCHANGED <<response, cancelled, collected, truncated, cancelStep>>

-----------------------------------------------------------------------------
(* One call at a time.  Validation follows the checkpoint without a pause; *)
(* while the tool runs the token wins over a finished tool (biased).       *)
SerialCancelled ==
    /\ pc = "serial"
    /\ cancelled
    /\ pc' = "cancelling"
    /\ UNCHANGED <<messages, log, steps, empties, response, batchVars, cancelled, outcome, unchangedHistory>>

SerialMalformed ==
    /\ pc = "serial"
    /\ ~cancelled
    /\ batch[next].kind = "malformed"
    /\ Return("error")
    /\ UNCHANGED <<messages, log, steps, empties, response, batchVars, cancelled, unchangedHistory>>

SerialOutput ==
    /\ pc = "serial"
    /\ ~cancelled
    /\ batch[next].kind # "malformed"
    /\ Append1(ToolMessage(batch[next], "output"))
    /\ collected' = collected \cup {batch[next].id}
    /\ next' = next + 1
    /\ pc' = IF next = Len(batch) THEN "check" ELSE "serial"
    /\ UNCHANGED <<steps, empties, response, batch, slots, batchCancelled, cancelled, outcome, nextId, truncated, cancelStep>>

(* A slip: the call that was being run is forgotten.                       *)
CancelAfterCurrent ==
    /\ pc = "cancelling"
    /\ \/ next >= Len(batch) /\ Return("interrupted") /\ UNCHANGED <<messages, log, next>>
       \/ /\ next < Len(batch)
          /\ next' = next + 1
          /\ IF batch[next + 1].kind = "ask"
             THEN UNCHANGED <<messages, log>>
             ELSE Append1(ToolMessage(batch[next + 1], "cancelled"))
          /\ UNCHANGED <<pc, outcome>>
    /\ UNCHANGED <<steps, empties, response, batch, slots, batchCancelled, cancelled, unchangedHistory>>

(* append_cancelled_tool_results, call by call; questions stay open.       *)
CancelRest ==
    /\ pc = "cancelling"
    /\ \/ /\ next > Len(batch)
          /\ Return("interrupted")
          /\ UNCHANGED <<messages, log, next>>
       \/ /\ next <= Len(batch)
          /\ next' = next + 1
          /\ IF batch[next].kind = "ask"
             THEN UNCHANGED <<messages, log>>
             ELSE Append1(ToolMessage(batch[next], "cancelled"))
          /\ UNCHANGED <<pc, outcome>>
    /\ UNCHANGED <<steps, empties, response, batch, slots, batchCancelled, cancelled, unchangedHistory>>

-----------------------------------------------------------------------------
(* All calls at once: validate the whole batch, look at the token, start.  *)
BatchStart ==
    /\ pc = "batch"
    /\ \/ /\ \E n \in DOMAIN batch : batch[n].kind = "malformed"
          /\ Return("error")
       \/ /\ \A n \in DOMAIN batch : batch[n].kind # "malformed"
          /\ pc' = IF cancelled THEN "cancelling" ELSE "inflight"
          /\ UNCHANGED outcome
    /\ UNCHANGED <<messages, log, steps, empties, response, batchVars, cancelled, unchangedHistory>>

(* Outputs come in any order; a ready output wins over the token.          *)
ToolDone(n) ==
    /\ pc = "inflight"
    /\ n \in DOMAIN batch \ slots
    /\ slots' = slots \cup {n}
    /\ collected' = collected \cup {batch[n].id}
    /\ UNCHANGED <<messages, log, pc, steps, empties, response, batch, next, batchCancelled, cancelled, outcome, nextId, truncated, cancelStep>>

(* Two slips: the batch is joined at its first output; only when complete. *)
BatchJoinedEarly ==
    /\ pc = "inflight"
    /\ \/ slots # {} /\ UNCHANGED batchCancelled
       \/ slots = {} /\ cancelled /\ batchCancelled' = TRUE
    /\ pc' = "drain"
    /\ UNCHANGED <<messages, log, steps, empties, response, batch, next, slots, cancelled, outcome, unchangedHistory>>

BatchJoinedComplete ==
    /\ pc = "inflight"
    /\ slots = DOMAIN batch
    /\ pc' = "drain"
    /\ UNCHANGED <<messages, log, steps, empties, response, batchVars, cancelled, outcome, unchangedHistory>>

(* The join ends when every output is in, or at the cancel; what has come  *)
(* in by then is kept.                                                     *)
BatchJoined ==
    /\ pc = "inflight"
    /\ \/ slots = DOMAIN batch /\ UNCHANGED batchCancelled
       \/ slots # DOMAIN batch /\ cancelled /\ batchCancelled' = TRUE
    /\ pc' = "drain"
    /\ UNCHANGED <<messages, log, steps, empties, response, batch, next, slots, cancelled, outcome, unchangedHistory>>

(* A slip: a cancelled batch loses its outputs.                            *)
DrainLosingOutputs ==
    /\ pc = "drain"
    /\ \/ /\ next > Len(batch)
          /\ IF batchCancelled THEN Return("interrupted") ELSE pc' = "check" /\ UNCHANGED outcome
          /\ UNCHANGED <<messages, log, next>>
       \/ /\ next <= Len(batch)
          /\ next' = next + 1
          /\ CASE ~batchCancelled -> Append1(ToolMessage(batch[next], "output"))
               [] batchCancelled /\ batch[next].kind = "ask" -> UNCHANGED <<messages, log>>
               [] OTHER -> Append1(ToolMessage(batch[next], "cancelled"))
          /\ UNCHANGED <<pc, outcome>>
    /\ UNCHANGED <<steps, empties, response, batch, slots, batchCancelled, cancelled, unchangedHistory>>

(* The ordered drain: an output, a cancelled result, or an open question.  *)
Drain ==
    /\ pc = "drain"
    /\ \/ /\ next > Len(batch)
          /\ IF batchCancelled THEN Return("interrupted") ELSE pc' = "check" /\ UNCHANGED outcome
          /\ UNCHANGED <<messages, log, next>>
       \/ /\ next <= Len(batch)
          /\ next' = next + 1
          /\ CASE next \in slots -> Append1(ToolMessage(batch[next], "output"))
               [] next \notin slots /\ batch[next].kind = "ask" -> UNCHANGED <<messages, log>>
               [] OTHER -> Append1(ToolMessage(batch[next], "cancelled"))
          /\ UNCHANGED <<pc, outcome>>
    /\ UNCHANGED <<steps, empties, response, batch, slots, batchCancelled, cancelled, unchangedHistory>>

-----------------------------------------------------------------------------
LoopStep ==
    \/ StopAtTop \/ Request \/ StreamCancelled
    \/ SerialCancelled \/ SerialMalformed \/ CancelRest
    \/ BatchStart \/ BatchJoined \/ Drain

(* What comes from outside: the user, the provider and the tools.          *)
LoopInput ==
    \/ CancelToken \/ StreamDone \/ StreamEnd \/ StreamFails \/ SerialOutput
    \/ \E n \in DOMAIN batch : ToolDone(n)

LoopNext == LoopStep \/ LoopInput

(* When the loop gets to move is said in LoopThread.                       *)
LoopSpec == LoopInit /\ [][LoopNext]_loopVars

-----------------------------------------------------------------------------
(* RequestsValid: a run that has not cut its context only sends            *)
(* conversations in which every call is answered, in place and once;       *)
(* questions, cancellations and parallel batches do not break the pairing. *)
RequestsValid == pc = "stream" /\ ~truncated => ProviderValid(messages)

(* OnlyQuestionsDangle: a run that ends without an error leaves nothing    *)
(* unanswered but ask_user calls of its last step; the late answer is      *)
(* still to come, and everything else got a result.                        *)
OnlyQuestionsDangle ==
    pc = "returned" /\ outcome \in {"completed", "interrupted"} =>
        \A call \in ToSet(DanglingCalls(messages)) :
            call.kind = "ask" /\ call \in ToSet(batch)

(* OutputsKept: an output the loop has taken in is in the log when the run *)
(* ends, even if the batch was cancelled around it.                        *)
OutputsKept ==
    pc = "returned" => \A id \in collected :
        \E i \in DOMAIN log : log[i].answers = id /\ log[i].result = "output"

(* AtMostOneMoreStep: after a cancel the run adds at most the step whose   *)
(* response had already been assembled.                                    *)
AtMostOneMoreStep == cancelled => steps <= cancelStep + 1
=============================================================================
