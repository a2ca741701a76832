----------------------------- MODULE Transcript -----------------------------
(***************************************************************************)
(* The conversation as the provider sees it: the shape of messages and the *)
(* operations that keep tool calls and tool results paired                 *)
(* (openslate-core: types.rs, ask_user.rs, runtime.rs and                  *)
(* context_manager/compact.rs).  Texts are abstracted; a message is its    *)
(* role, the calls it declares and the call it answers.                    *)
(***************************************************************************)
EXTENDS Naturals, Sequences, SequencesExt

(* A tool call: a fresh id, and the kind of tool the loop distinguishes.   *)
(* "ask" is ask_user, "serial" call_agent or run_code, "malformed" a call  *)
(* whose arguments are not an object.                                      *)
CallKinds == {"plain", "ask", "serial", "malformed"}
Call == [id : Nat \ {0}, kind : CallKinds]
NoCall == 0

(* Where a tool result comes from: the tool, a cancellation, a repair, or  *)
(* an expired question.                                                    *)
Results == {"output", "cancelled", "superseded", "interrupted", "expired"}

Message ==
    [role : {"user", "assistant", "tool", "system"},
     calls : Seq(Call),
     answers : Nat,
     result : Results \cup {"none"}]

Says(role) == [role |-> role, calls |-> <<>>, answers |-> NoCall, result |-> "none"]
UserMessage == Says("user")
Notice == Says("system")
AssistantSays == Says("assistant")
AssistantCalls(calls) == [Says("assistant") EXCEPT !.calls = calls]
ToolMessage(call, result) ==
    [role |-> "tool", calls |-> <<>>, answers |-> call.id, result |-> result]

-----------------------------------------------------------------------------
(* result_run_end: the last of the tool results that directly follow i.    *)
ResultRunEnd(ms, i) ==
    CHOOSE j \in i .. Len(ms) :
        /\ \A k \in i + 1 .. j : ms[k].role = "tool"
        /\ j = Len(ms) \/ ms[j + 1].role # "tool"

(* resolved_ids: the calls those results answer.                           *)
ResolvedIds(ms, i) == {ms[k].answers : k \in i + 1 .. ResultRunEnd(ms, i)}

(* The calls of message i that have no result, in the order declared.      *)
Missing(ms, i) ==
    FlattenSeq([n \in DOMAIN ms[i].calls |->
        IF ms[i].calls[n].id \in ResolvedIds(ms, i) THEN <<>> ELSE <<ms[i].calls[n]>>])

(* dangling_tool_calls                                                     *)
DanglingCalls(ms) == FlattenSeq([i \in DOMAIN ms |-> Missing(ms, i)])

(* repair_dangling_tool_calls with DanglingClosure::Superseded: the        *)
(* synthetic result of each dangling call ...                              *)
Synthetic(call) ==
    ToolMessage(call, IF call.kind = "ask" THEN "superseded" ELSE "interrupted")
RepairMessages(ms) ==
    LET calls == DanglingCalls(ms) IN [n \in DOMAIN calls |-> Synthetic(calls[n])]

(* ... and the history with each result at the end of its run.             *)
Repaired(ms) ==
    LET ClosingAt(j) == {i \in 1 .. j : ms[i].calls # <<>> /\ ResultRunEnd(ms, i) = j}
        Closed(j) ==
            IF ClosingAt(j) = {} THEN <<>>
            ELSE LET calls == Missing(ms, CHOOSE i \in ClosingAt(j) : TRUE)
                 IN  [n \in DOMAIN calls |-> Synthetic(calls[n])]
    IN  FlattenSeq([j \in DOMAIN ms |-> <<ms[j]>> \o Closed(j)])

(* append_late_tool_result for a call known to be dangling: the result at  *)
(* the end of the run of the first message that declares the call.         *)
WithLateResult(ms, call, result) ==
    LET declares == {i \in DOMAIN ms : call \in ToSet(ms[i].calls)}
        first == CHOOSE i \in declares : \A k \in declares : i <= k
        end == ResultRunEnd(ms, first)
    IN  SubSeq(ms, 1, end) \o <<ToolMessage(call, result)>> \o SubSeq(ms, end + 1, Len(ms))

(* The classic drop of load_messages: a last assistant message with calls. *)
EndsInCalls(ms) == ms # <<>> /\ Last(ms).role = "assistant" /\ Last(ms).calls # <<>>

-----------------------------------------------------------------------------
(* truncate_context_if_needed when the context is over the limit: the      *)
(* first message, a notice, and the last two or only the last one.         *)
Truncations(ms) ==
    IF Len(ms) <= 2 THEN {}
    ELSE {<<Head(ms), Notice>> \o SubSeq(ms, Len(ms) - 1, Len(ms)),
          <<Head(ms), Notice, Last(ms)>>}

(* compact: a summary, and what fits of the last two messages.             *)
Compactions(ms) ==
    IF Len(ms) <= 2 THEN {}
    ELSE {<<Notice>> \o SubSeq(ms, k, Len(ms)) : k \in Len(ms) - 1 .. Len(ms) + 1}

-----------------------------------------------------------------------------
(* What a provider accepts: every call is answered right behind the        *)
(* message that declares it, and every tool result answers such a call,    *)
(* once.                                                                   *)
Answered(ms, i) ==
    \A n \in DOMAIN ms[i].calls : ms[i].calls[n].id \in ResolvedIds(ms, i)
Grounded(ms, k) ==
    \E i \in 1 .. k - 1 :
        /\ k <= ResultRunEnd(ms, i)
        /\ \E n \in DOMAIN ms[i].calls : ms[i].calls[n].id = ms[k].answers
        /\ \A l \in i + 1 .. k - 1 : ms[l].answers # ms[k].answers
ProviderValid(ms) ==
    \A i \in DOMAIN ms :
        /\ Answered(ms, i)
        /\ ms[i].role = "tool" => Grounded(ms, i)
=============================================================================
