----------------------------- MODULE Delegation -----------------------------
(***************************************************************************)
(* One run of an agent and of the agents it delegates to, under the        *)
(* approvals of its session and the shutdown of the server.  Every layer   *)
(* is an execute_run; call_agent starts one inside the tool call of        *)
(* another; all of them are one future on one thread, share the runner's   *)
(* caller stack, budgets and denial counts, and stand still while decide   *)
(* waits for an answer.                                                    *)
(*                                                                         *)
(* Sources: AgentRunner (openslate-core, runner.rs), the batches of        *)
(* execute_run and check_limits (runtime.rs), SessionApprovalBridge        *)
(* (openslate-session, approval.rs) and graceful_shutdown_work             *)
(* (openslate-server, lib.rs).                                             *)
(***************************************************************************)
EXTENDS Naturals, Sequences

CONSTANTS
  Agents, Main,      \* the configured agents and their root
  Children,          \* the agents each may delegate to
  Names,             \* tool names, "call_agent" and "run_code" among them
  Guarded,           \* names that need an approval
  Batches,           \* what a response may call; <<>> is a final answer
  MaxSteps,          \* max_steps, 0 for no limit
  MaxDepth,          \* max_depth
  MaxToolCalls,      \* max_tool_calls, 0 for no limit
  MaxChildCalls,     \* max_child_agent_calls
  MaxBridge,         \* ptc.max_tool_calls_per_run
  DenialLimit        \* APPROVAL_DENIAL_LIMIT

Call == [name : Names, to : Agents]

ASSUME DelegationAssumption ==
  /\ Main \in Agents /\ Children \in [Agents -> SUBSET (Agents \ {Main})]
  /\ {"call_agent", "run_code"} \subseteq Names /\ Guarded \subseteq Names
  /\ Batches \subseteq Seq(Call)
  /\ {MaxSteps, MaxToolCalls, MaxChildCalls, MaxBridge} \subseteq Nat
  /\ {MaxDepth, DenialLimit} \subseteq Nat \ {0}

VARIABLES
  tree,        \* execution_tree: per node its agent, parent, depth and status
  layer,       \* per node: where its execute_run stands
  frames,      \* caller_stack
  toolCalls, childCalls,   \* the budgets of the run
  denials,     \* denial_counts
  tripped,     \* watchdog_tool
  cancelled,   \* the token every layer shares
  suspended,   \* the future returned to its executor and awaits a wake
  outcome,     \* what run_root returned
  ask,         \* the approval decide waits for, or its answer
  allowed,     \* the session's approve_all scopes
  online,      \* is a client connected?
  stop,        \* how far the server's shutdown is
  started      \* history: tools the model's calls started

budgets == << toolCalls, childCalls, denials, tripped, started >>
session == << ask, allowed, online, stop >>
vars == << tree, layer, frames, budgets, cancelled, suspended, outcome, session >>

Node == 1 .. 1 + MaxChildCalls
Root == 1
Answers == {"approve", "approve_all", "deny"}

NoNode == [agent |-> Main, parent |-> 0, depth |-> 0, status |-> "none"]
NoLayer == [at |-> "none", calls |-> <<>>, next |-> 1, flight |-> {}, steps |-> 0,
            serial |-> FALSE, caller |-> 0]

Init ==
  /\ tree = [n \in Node |-> IF n = Root THEN [NoNode EXCEPT !.status = "running"] ELSE NoNode]
  /\ layer = [n \in Node |-> IF n = Root THEN [NoLayer EXCEPT !.at = "start"] ELSE NoLayer]
  /\ frames = <<>>
  /\ toolCalls = 0 /\ childCalls = 0 /\ started = 0
  /\ denials = [t \in Names |-> 0] /\ tripped = FALSE
  /\ cancelled = FALSE /\ suspended = FALSE /\ outcome = "running"
  /\ ask = "none" /\ allowed = {} /\ online \in BOOLEAN /\ stop = "up"

-----------------------------------------------------------------------------
(* Polls.  A layer that awaits may return to the executor; the wake that   *)
(* follows polls from the outside in, so the watchdog's branch in run_root *)
(* and the token's branch of the root's tool select come first.            *)

Outer == cancelled /\ layer[Root].at \in {"running", "waits"}
At(n, places) == layer[n].at \in places /\ (suspended => ~tripped /\ ~Outer)

\* The root also awaits the sink after every message.
Suspend(n) ==
  /\ ~suspended
  /\ \/ layer[n].at \in {"stream", "running", "flight"}
     \/ n = Root /\ layer[n].at \in {"top", "serial", "admit"}
  /\ suspended' = TRUE
  /\ UNCHANGED << tree, layer, frames, budgets, cancelled, outcome, session >>

\* What is left of the run's layers and frames when its future is gone.
Gone == [n \in Node |-> NoLayer]

Settle(n, status) == tree' = [tree EXCEPT ![n].status = status]

-----------------------------------------------------------------------------
(* Returns of a layer.                                                     *)

\* A call of a serial batch is answered: on to the next, or to the next
\* request.
Answered(l) ==
  [l EXCEPT !.next = @ + 1, !.at = IF l.next = Len(l.calls) THEN "top" ELSE "serial"]

RootOutcomeUnchecked(how) == how  \* mutant: no look at the watchdog after the select

\* run_root: a tripped watchdog wins over any result.
RootOutcome(how) == IF tripped THEN "aborted" ELSE how

StatusOf(how) == IF how \in {"completed", "interrupted"} THEN "completed" ELSE "failed"

\* The caller stack: its top, the rest, and who is on it.
Top == frames[Len(frames)]
Popped == SubSeq(frames, 1, Len(frames) - 1)
OnStack == {frames[i] : i \in DOMAIN frames}

\* run_root and run_agent; the guard pops the frame on every way out, and
\* the caller's call_agent has its output.
Returns(n, how) ==
  /\ suspended' = FALSE
  /\ frames' = Popped
  /\ IF n = Root
     THEN /\ outcome' = RootOutcome(how)
          /\ Settle(n, StatusOf(RootOutcome(how)))
          /\ layer' = Gone
     ELSE /\ Settle(n, StatusOf(how))
          /\ layer' = [layer EXCEPT ![n] = NoLayer,
                                    ![layer[n].caller] = Answered(@)]
          /\ UNCHANGED outcome
  /\ UNCHANGED << budgets, cancelled, session >>

Becomes(n, l) ==
  /\ layer' = [layer EXCEPT ![n] = l]
  /\ suspended' = FALSE

\* run_root refuses to start once the token is cancelled.
RunRoot ==
  /\ layer[Root].at = "start"
  /\ IF cancelled
     THEN /\ outcome' = "failed" /\ layer' = Gone /\ UNCHANGED frames
     ELSE /\ frames' = << Root >>
          /\ layer' = [layer EXCEPT ![Root].at = "top"]
          /\ UNCHANGED outcome
  /\ UNCHANGED << tree, budgets, cancelled, suspended, session >>

-----------------------------------------------------------------------------
(* execute_run, up to the calls of a response.                             *)

StopAtTop(n) ==
  /\ At(n, {"top"})
  /\ cancelled \/ (MaxSteps > 0 /\ layer[n].steps >= MaxSteps)
  /\ Returns(n, "interrupted")

Request(n) ==
  /\ At(n, {"top"})
  /\ ~cancelled
  /\ MaxSteps > 0 => layer[n].steps < MaxSteps
  /\ Becomes(n, [layer[n] EXCEPT !.at = "stream"])
  /\ UNCHANGED << tree, frames, budgets, cancelled, outcome, session >>

StreamCancelled(n) ==
  /\ At(n, {"stream"})
  /\ cancelled
  /\ Returns(n, "interrupted")

\* The provider fails, the time is up, or the arguments are malformed.
StreamFails(n) ==
  /\ At(n, {"stream"})
  /\ Returns(n, "failed")

SeriallyByLength(calls) == Len(calls) = 1  \* mutant: the names do not matter

\* The names decide: delegation and code run one call after the other.
Serially(calls) == \E i \in DOMAIN calls : calls[i].name \in {"call_agent", "run_code"}

\* The response; a parallel batch has its checkpoint before anything runs.
StreamAnswers(n, calls) ==
  /\ At(n, {"stream"})
  /\ IF calls = <<>> THEN Returns(n, "completed")
     ELSE IF ~Serially(calls) /\ cancelled THEN Returns(n, "interrupted")
     ELSE /\ Becomes(n, [layer[n] EXCEPT
               !.at = IF Serially(calls) THEN "serial" ELSE "admit",
               !.calls = calls, !.next = 1, !.flight = {}, !.steps = @ + 1,
               !.serial = Serially(calls)])
          /\ UNCHANGED << tree, frames, budgets, cancelled, outcome, session >>

SerialCancelled(n) ==
  /\ At(n, {"serial"})
  /\ cancelled
  /\ Returns(n, "interrupted")

-----------------------------------------------------------------------------
(* AgentRunner::execute: the approval, then the budgets, then the tool.    *)

\* The call at hand.
Now(l) == l.calls[l.next]

\* The first poll of a call of a parallel batch is over; behind the last
\* one, the batch awaits those in flight.
Polled(l, flying) ==
  LET flight == l.flight \cup (IF flying THEN {l.next} ELSE {})
  IN  [l EXCEPT !.next = @ + 1, !.flight = flight,
        !.at = IF l.next < Len(l.calls) THEN "admit" ELSE IF flight = {} THEN "top" ELSE "flight"]

\* The call has its output at once: a refusal.
Refused(n) == Becomes(n, IF layer[n].serial THEN Answered(layer[n]) ELSE Polled(layer[n], FALSE))

\* denied_output: one more denial in a row; the limit trips the watchdog.
Deny(n) ==
  LET t == Now(layer[n]).name
  IN  /\ denials' = [denials EXCEPT ![t] = @ + 1]
      /\ tripped' = (tripped \/ denials[t] + 1 >= DenialLimit)
      /\ Refused(n)
      /\ UNCHANGED << tree, frames, toolCalls, childCalls, started >>

Overspent == MaxToolCalls > 0 /\ toolCalls > MaxToolCalls  \* mutant: one too many

Spent == MaxToolCalls > 0 /\ toolCalls >= MaxToolCalls

\* A tool runs, unless the budget of the run is spent.
StartTool(n) ==
  /\ IF Spent
     THEN Refused(n) /\ UNCHANGED << toolCalls, started >>
     ELSE /\ toolCalls' = toolCalls + 1 /\ started' = started + 1
          /\ Becomes(n, IF layer[n].serial THEN [layer[n] EXCEPT !.at = "running"]
                                           ELSE Polled(layer[n], TRUE))
  /\ UNCHANGED << tree, frames, childCalls >>

\* mutant: the slot is looked at as if it were taken already
WithinLimitsButOne(depth) ==
  depth < MaxDepth /\ toolCalls < MaxToolCalls /\ childCalls <= MaxChildCalls

\* check_limits at a delegation; a max_tool_calls of 0, elsewhere no limit,
\* lets none through.
WithinLimits(depth) ==
  depth < MaxDepth /\ toolCalls < MaxToolCalls /\ childCalls < MaxChildCalls

\* handle_call_agent: the caller is whoever is on top of the stack; its
\* child, within check_limits, becomes a node, a frame and a layer.
Delegate(n) ==
  LET caller == Top
      agent == Now(layer[n]).to
      child == childCalls + 2
  IN IF /\ agent \in Children[tree[caller].agent]
        /\ WithinLimits(tree[caller].depth + 1)
     THEN /\ childCalls' = childCalls + 1
          /\ tree' = [tree EXCEPT ![child] =
               [agent |-> agent, parent |-> caller,
                depth |-> tree[caller].depth + 1, status |-> "running"]]
          /\ frames' = Append(frames, child)
          /\ layer' = [layer EXCEPT
               ![child] = [NoLayer EXCEPT !.at = "top", !.caller = n],
               ![n] = IF @.serial THEN [@ EXCEPT !.at = "waits"] ELSE Polled(@, TRUE)]
          /\ suspended' = FALSE
     ELSE Refused(n) /\ UNCHANGED << tree, frames, childCalls >>

Approve(n) ==
  /\ denials' = [denials EXCEPT ![Now(layer[n]).name] = 0]
  /\ IF Now(layer[n]).name = "call_agent"
     THEN Delegate(n) /\ UNCHANGED << toolCalls, started >>
     ELSE StartTool(n)
  /\ UNCHANGED tripped

\* check and decide: no rule asks, a scope of the session approves, nobody
\* online denies, and otherwise the thread waits.  A serial batch looks at
\* the token before each call; a parallel one only before the first.
Serve(n) ==
  /\ At(n, {"serial", "admit"})
  /\ layer[n].at = "serial" => ~cancelled
  /\ LET t == Now(layer[n]).name
     IN \/ /\ t \notin Guarded \/ t \in allowed
           /\ Approve(n)
           /\ UNCHANGED ask
        \/ /\ t \in Guarded \ allowed /\ ~online
           /\ Deny(n)
           /\ UNCHANGED ask
        \/ /\ t \in Guarded \ allowed /\ online
           /\ ask' = "asked"
           /\ Becomes(n, [layer[n] EXCEPT !.at = "asking"])
           /\ UNCHANGED << tree, frames, budgets >>
  /\ UNCHANGED << cancelled, outcome, allowed, online, stop >>

TakeAnswer(n) ==
  /\ layer[n].at = "asking"
  /\ ask \in Answers
  /\ ask' = "none"
  /\ allowed' = IF ask = "approve_all" THEN allowed \cup {Now(layer[n]).name} ELSE allowed
  /\ IF ask = "deny" THEN Deny(n) ELSE Approve(n)
  /\ UNCHANGED << cancelled, outcome, online, stop >>

-----------------------------------------------------------------------------
(* The tools.                                                              *)

\* A tool of a serial batch is done; the calls that a script made over its
\* bridge are counted now.
ToolEnds(n) ==
  /\ At(n, {"running"})
  /\ \E b \in IF Now(layer[n]).name = "run_code" THEN 0 .. MaxBridge ELSE {0} :
       toolCalls' = toolCalls + b
  /\ Becomes(n, Answered(layer[n]))
  /\ UNCHANGED << tree, frames, childCalls, denials, tripped, started, cancelled, outcome, session >>

\* One of those in flight is done, the last one ends the batch.
FlightEnds(n, i) ==
  /\ At(n, {"flight"})
  /\ i \in layer[n].flight
  /\ LET rest == layer[n].flight \ {i}
     IN  Becomes(n, [layer[n] EXCEPT !.flight = rest, !.at = IF rest = {} THEN "top" ELSE @])
  /\ UNCHANGED << tree, frames, budgets, cancelled, outcome, session >>

CancelFlightAtEnd(n) == FALSE  \* mutant: the batch is joined, whatever the token says

\* The token drops the futures in flight.
CancelFlight(n) ==
  /\ At(n, {"flight"})
  /\ cancelled
  /\ Returns(n, "interrupted")

\* On a wake, the token's branch of the root's tool select: its call is
\* dropped with every layer below, whose nodes stay as they are.
RootCancelled ==
  /\ suspended /\ ~tripped /\ Outer
  /\ outcome' = "interrupted"
  /\ Settle(Root, "completed")
  /\ layer' = Gone /\ frames' = <<>> /\ suspended' = FALSE
  /\ UNCHANGED << budgets, cancelled, session >>

\* On a wake, the watchdog's branch of run_root.
Abort ==
  /\ suspended /\ tripped
  /\ outcome' = "aborted"
  /\ Settle(Root, "failed")
  /\ layer' = Gone /\ frames' = <<>> /\ suspended' = FALSE
  /\ UNCHANGED << budgets, cancelled, session >>

-----------------------------------------------------------------------------
(* The clients and the server.                                             *)

Cancel ==
  /\ ~cancelled /\ outcome = "running"
  /\ cancelled' = TRUE
  /\ UNCHANGED << tree, layer, frames, budgets, suspended, outcome, session >>

Respond(choice) ==
  /\ ask = "asked" /\ online
  /\ ask' = choice
  /\ UNCHANGED << tree, layer, frames, budgets, cancelled, suspended, outcome,
                  allowed, online, stop >>

ConnectOrLeave ==
  /\ online' = ~online
  /\ UNCHANGED << tree, layer, frames, budgets, cancelled, suspended, outcome,
                  ask, allowed, stop >>

\* graceful_shutdown_work: deny what is asked now, then cancel, then await
\* the engine.
DenyAll ==
  /\ stop = "up"
  /\ stop' = "denied"
  /\ ask' = IF ask = "asked" THEN "deny" ELSE ask
  /\ UNCHANGED << tree, layer, frames, budgets, cancelled, suspended, outcome,
                  allowed, online >>

ShutdownCancels ==
  /\ stop = "denied"
  /\ stop' = "waiting"
  /\ cancelled' = (cancelled \/ outcome = "running")
  /\ UNCHANGED << tree, layer, frames, budgets, suspended, outcome, ask, allowed, online >>

EngineSettled ==
  /\ stop = "waiting"
  /\ outcome # "running"
  /\ stop' = "down"
  /\ UNCHANGED << tree, layer, frames, budgets, cancelled, suspended, outcome,
                  ask, allowed, online >>

-----------------------------------------------------------------------------
\* Steps of the engine's thread that wait for nobody.
EngineStep ==
  \/ RunRoot \/ RootCancelled \/ Abort
  \/ \E n \in Node :
       \/ Suspend(n) \/ StopAtTop(n) \/ Request(n) \/ StreamCancelled(n)
       \/ SerialCancelled(n) \/ Serve(n) \/ TakeAnswer(n) \/ CancelFlight(n)

\* The provider and the tools.
Environment ==
  \E n \in Node :
    \/ StreamFails(n) \/ ToolEnds(n)
    \/ \E calls \in Batches : StreamAnswers(n, calls)
    \/ \E i \in layer[n].flight : FlightEnds(n, i)

ShutdownStep == ShutdownCancels \/ EngineSettled

Next ==
  \/ EngineStep \/ Environment \/ ShutdownStep
  \/ Cancel \/ ConnectOrLeave \/ DenyAll
  \/ \E choice \in Answers : Respond(choice)

\* The thread and the shutdown task are scheduled; the provider, the tools
\* and the clients promise nothing.
Spec == Init /\ [][Next]_vars /\ WF_vars(EngineStep) /\ WF_vars(ShutdownStep)

-----------------------------------------------------------------------------
(* Properties.                                                             *)

TypeOK ==
  /\ tree \in [Node -> [agent : Agents, parent : {0} \cup Node, depth : 0 .. MaxDepth - 1,
                        status : {"none", "running", "completed", "failed"}]]
  /\ \A n \in Node :
       /\ layer[n].at \in {"none", "start", "top", "stream", "serial", "admit",
                          "asking", "running", "flight", "waits"}
       /\ layer[n].at \notin {"none", "start", "top", "stream"} =>
            layer[n].next \in 1 .. Len(layer[n].calls) + 1
       /\ layer[n].flight \subseteq DOMAIN layer[n].calls
  /\ frames \in Seq(Node)
  /\ {toolCalls, started} \subseteq Nat /\ childCalls \in 0 .. MaxChildCalls
  /\ denials \in [Names -> Nat]
  /\ {tripped, cancelled, suspended, online} \subseteq BOOLEAN
  /\ outcome \in {"running", "completed", "interrupted", "failed", "aborted"}
  /\ ask \in {"none", "asked"} \cup Answers
  /\ allowed \subseteq Guarded
  /\ stop \in {"up", "denied", "waiting", "down"}

\* While a run is on, its caller stack is the path of the layers that run,
\* from the root down, and each hangs below the layer whose call_agent it
\* answers: whatever batches, failures and cancels there were, no call is
\* taken for another agent's (runner.rs: the caller is the top of the
\* stack; FrameGuard; runtime.rs: delegation is serial).
CallersMatch ==
  outcome = "running" /\ frames # <<>> =>
    /\ OnStack = {n \in Node : tree[n].status = "running"}
    /\ \A i \in DOMAIN frames :
         tree[frames[i]].parent = IF i = 1 THEN 0 ELSE frames[i - 1]
    /\ \A n \in OnStack : layer[n].caller = tree[n].parent

\* The tool calls of all layers together stay within max_tool_calls, in a
\* parallel batch too; only the calls a script makes over its bridge can
\* take the count past it, and only those of one script (runtime.rs allows
\* for more: an overshoot by all but one of a parallel batch).
BudgetHolds ==
  MaxToolCalls > 0 => /\ started <= MaxToolCalls
                      /\ toolCalls <= MaxToolCalls + MaxBridge

\* Once a tool was denied too often in a row the run ends as aborted,
\* however far it gets before the watchdog is looked at and whether or not
\* it is cancelled meanwhile (runner.rs run_root).
WatchdogAborts == tripped => outcome \in {"running", "aborted"}

\* A cancelled run ends, at whatever layer and call it is, without the
\* help of provider or tools, provided that every approval is answered
\* sooner or later.
EndsWhenAnswered ==
  []<>(ask # "asked") => (cancelled ~> outcome # "running")

\* What the server says of its shutdown: with the approvals denied and the
\* turn cancelled the engine unwinds, so the shutdown ends.
ShutdownEnds == stop = "denied" ~> stop = "down"
=============================================================================
