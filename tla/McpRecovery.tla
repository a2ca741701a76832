---------------------------- MODULE McpRecovery ----------------------------
(***************************************************************************)
(* Calls of remote tools that survive the death of the tool host.  A call  *)
(* that loses its connection asks the host application, once for everybody *)
(* who failed meanwhile, to bring the tool host back and to reload the     *)
(* tools, and is then sent once more (openslate-mobile, mcp_recovery.rs).  *)
(* The request is a host call: an entry of HostCallRouter with a time      *)
(* limit, which the caller may abandon (hostcall.rs).  The application     *)
(* answers it in handleMcpRecoverHost (RuntimeBridge.kt), whose reload is  *)
(* reload_mcp of McpTools, shared with the user's own reloads.             *)
(***************************************************************************)
EXTENDS McpTools

CONSTANTS
  Calls,         \* tool calls; a call that ended is not reused
  NoCall

\* There is a tool to call.
ASSUME CallsAssumption == NoCall \notin Calls /\ IsFiniteSet(Calls) /\ Names # {}

VARIABLES
  calls,         \* per call: where it stands and its locals
  latch,         \* RecoveryCtx.latch: the call that holds it
  generation,    \* rounds that succeeded
  cooling,       \* last_finished is less than the cooldown ago
  nextId,        \* HostCallRouter.next_id
  pending,       \* HostCallRouter.pending: requests that await an answer
  answer,        \* per request: what its oneshot carries
  handlers,      \* per request: the coroutine of the application
  ladder,        \* mcpRecoverMutex: the request whose ladder runs, or 0
  round,         \* mcpRecoverRound
  down,          \* the runtime has been shut down
  \* History, for the properties.
  ended,         \* a round ended less than the cooldown ago
  overtaken      \* calls that failed before a round that then succeeded

recoveryVars == << calls, latch, generation, cooling, nextId, pending, answer,
                   handlers, ladder, round, down, ended, overtaken >>
vars == << toolVars, recoveryVars >>

\* A call asks at most once, so there are no more requests than calls.
Ids == 1 .. Cardinality(Calls)

Idle == [pc |-> "idle", name |-> CHOOSE n \in Names : TRUE, conn |-> 0,
         entry |-> 0, id |-> 0, sends |-> 0]

NoHandler == [pc |-> "none", entry |-> 0, ok |-> FALSE]

Init ==
  /\ ToolInit
  /\ calls = [c \in Calls |-> Idle]
  /\ latch = NoCall
  /\ generation = 0
  /\ cooling = FALSE
  /\ nextId = 1
  /\ pending = {}
  /\ answer = [i \in Ids |-> "none"]
  /\ handlers = [i \in Ids |-> NoHandler]
  /\ ladder = 0
  /\ round = 0
  /\ down = FALSE
  /\ ended = FALSE
  /\ overtaken = {}

Goto(c, where) == calls' = [calls EXCEPT ![c].pc = where]

\* A call that ends leaves nothing behind but the number of its sends.
Ended(call) == [Idle EXCEPT !.pc = "done", !.sends = call.sends]
Ends(c) == calls' = [calls EXCEPT ![c] = Ended(@)]

\* ToolRegistry.execute: the tool is looked up once and kept by the call;
\* an unknown name and a tool of the phone answer at once.
Sent(c, n, where) ==
  calls' = [calls EXCEPT ![c] =
    IF registry[n].kind = "mcp"
    THEN [@ EXCEPT !.pc = where, !.name = n, !.conn = registry[n].conn,
               !.sends = calls[c].sends + 1]
    ELSE Ended(@)]

-----------------------------------------------------------------------------
(* RecoveringMcpTool::execute.                                             *)

Send(c, n) ==
  /\ calls[c].pc = "idle"
  /\ ~down
  /\ Sent(c, n, "sent")
  /\ UNCHANGED << toolVars, latch, generation, cooling, nextId, pending, answer,
                  handlers, ladder, round, down, ended, overtaken >>

\* The server answers, or the call's own time limit passes: neither is a
\* lost connection, and the outcome goes to the agent as it is.
Answered(c) ==
  /\ calls[c].pc \in {"sent", "resent"}
  /\ Ends(c)
  /\ UNCHANGED << toolVars, latch, generation, cooling, nextId, pending, answer,
                  handlers, ladder, round, down, ended, overtaken >>

\* The connection is gone.  The first time, run_recovery reads the
\* generation and queues for the latch.
LosesConnection(c) ==
  /\ calls[c].pc = "sent"
  /\ calls[c].conn \notin healthy
  /\ calls' = [calls EXCEPT ![c].pc = "waiting", ![c].entry = generation]
  /\ UNCHANGED << toolVars, latch, generation, cooling, nextId, pending, answer,
                  handlers, ladder, round, down, ended, overtaken >>

LosesRetryAgain(c) ==  \* mutant: no mark, so the retry queues again
  /\ calls[c].pc = "resent" /\ calls[c].conn \notin healthy
  /\ calls' = [calls EXCEPT ![c].pc = "waiting", ![c].entry = generation]
  /\ UNCHANGED << toolVars, latch, generation, cooling, nextId, pending, answer,
                  handlers, ladder, round, down, ended, overtaken >>

\* The second time the task-local mark of the retry stops it.
LosesRetry(c) ==
  /\ calls[c].pc = "resent"
  /\ calls[c].conn \notin healthy
  /\ Ends(c)
  /\ UNCHANGED << toolVars, latch, generation, cooling, nextId, pending, answer,
                  handlers, ladder, round, down, ended, overtaken >>

\* retry_via_registry: whatever tool has the name now.
Retry(c) ==
  /\ calls[c].pc = "retry"
  /\ Sent(c, calls[c].name, "resent")
  /\ UNCHANGED << toolVars, latch, generation, cooling, nextId, pending, answer,
                  handlers, ladder, round, down, ended, overtaken >>

-----------------------------------------------------------------------------
(* RecoveryCtx::run_recovery, behind its latch.                            *)

HasLatch(c) == calls[c].pc = "waiting" /\ latch = NoCall

SharesLater(c) == FALSE  \* mutant: the generation read behind the latch

SharesRound(c) == generation > calls[c].entry

\* (a) A round succeeded while the call queued; (b) a round ended a moment
\* ago: no request, but one retry.
Skip(c) ==
  /\ HasLatch(c)
  /\ SharesRound(c) \/ cooling
  /\ Goto(c, "retry")
  /\ UNCHANGED << toolVars, latch, generation, cooling, nextId, pending, answer,
                  handlers, ladder, round, down, ended, overtaken >>

\* (c) allocate_id and call_with_id: the entry, then the envelope.
Request(c) ==
  /\ HasLatch(c)
  /\ ~SharesRound(c) /\ ~cooling
  /\ latch' = c
  /\ calls' = [calls EXCEPT ![c].pc = "requested", ![c].id = nextId]
  /\ nextId' = nextId + 1
  /\ pending' = pending \cup {nextId}
  /\ handlers' = [handlers EXCEPT ![nextId] =
                    [NoHandler EXCEPT !.pc = "arrived"]]
  /\ UNCHANGED << toolVars, generation, cooling, answer, ladder, round, down,
                  ended, overtaken >>

\* The round is over: its time is noted, and a success counted, before the
\* latch is free.
EndRound(c, ok) ==
  /\ cooling' = TRUE
  /\ ended' = TRUE
  /\ latch' = NoCall
  /\ IF ok THEN Goto(c, "retry") ELSE Ends(c)
  /\ generation' = IF ok THEN generation + 1 ELSE generation
  /\ overtaken' = IF ok THEN overtaken \cup {d \in Calls : calls[d].pc = "waiting"}
                        ELSE overtaken

ReceiveAnswer(c) ==
  /\ calls[c].pc = "requested"
  /\ answer[calls[c].id] # "none"
  /\ EndRound(c, answer[calls[c].id] = "ok")
  /\ UNCHANGED << toolVars, nextId, pending, answer, handlers, ladder, round, down >>

\* The time limit of the host call: its entry goes.
GivesUp(c) ==
  /\ calls[c].pc = "requested"
  /\ answer[calls[c].id] = "none"
  /\ pending' = pending \ {calls[c].id}
  /\ EndRound(c, FALSE)
  /\ UNCHANGED << toolVars, nextId, answer, handlers, ladder, round, down >>

CooldownEnds ==
  /\ cooling \/ ended
  /\ cooling' = FALSE
  /\ ended' = FALSE
  /\ UNCHANGED << toolVars, calls, latch, generation, nextId, pending, answer,
                  handlers, ladder, round, down, overtaken >>

LatchKept == latch  \* mutant: a latch that only its holder releases

LatchDropped == NoCall

\* The turn is cancelled: the futures of its calls are dropped where they
\* stand, and the latch with the one that held it.  The entry of a request
\* stays, and the application works on.
CancelTurn ==
  /\ \E c \in Calls : calls[c].pc \notin {"idle", "done"}
  /\ calls' = [c \in Calls |-> IF calls[c].pc = "idle" THEN calls[c] ELSE Ended(calls[c])]
  /\ latch' = LatchDropped
  /\ UNCHANGED << toolVars, generation, cooling, nextId, pending, answer,
                  handlers, ladder, round, down, ended, overtaken >>

\* shutdown: fail_all answers every request of the router.
Shutdown ==
  /\ ~down
  /\ down' = TRUE
  /\ pending' = {}
  /\ answer' = [i \in Ids |-> IF i \in pending THEN "failed" ELSE answer[i]]
  /\ UNCHANGED << toolVars, calls, latch, generation, cooling, nextId,
                  handlers, ladder, round, ended, overtaken >>

-----------------------------------------------------------------------------
(* handleMcpRecoverHost and runMcpRecoveryLadder: a coroutine per request, *)
(* one ladder at a time.                                                   *)

Handler(i, record) == handlers' = [handlers EXCEPT ![i] = record]

Over(i, ok) ==
  /\ Handler(i, [handlers[i] EXCEPT !.pc = "answering", !.ok = ok])
  /\ round' = round + 1
  /\ ladder' = 0

\* The round at entry is read under the mutex, so behind a running ladder.
ReadRound(i) ==
  /\ handlers[i].pc = "arrived"
  /\ ladder = 0
  /\ Handler(i, [handlers[i] EXCEPT !.pc = "queued", !.entry = round])
  /\ UNCHANGED << toolVars, calls, latch, generation, cooling, nextId, pending,
                  answer, ladder, round, down, ended, overtaken >>

\* A round passed between the two locks: only a look at the tool host.
ShareLadder(i) ==
  /\ handlers[i].pc = "queued"
  /\ ladder = 0
  /\ round > handlers[i].entry
  /\ Over(i, hostAlive)
  /\ UNCHANGED << toolVars, calls, latch, generation, cooling, nextId, pending,
                  answer, down, ended, overtaken >>

ClimbLadder(i) ==
  /\ handlers[i].pc = "queued"
  /\ ladder = 0
  /\ round <= handlers[i].entry
  /\ ladder' = i
  /\ Handler(i, [handlers[i] EXCEPT !.pc = "probe"])
  /\ UNCHANGED << toolVars, calls, latch, generation, cooling, nextId, pending,
                  answer, round, down, ended, overtaken >>

\* The tool host answers the probe.
FindsHostAlive(i) ==
  /\ handlers[i].pc = "probe"
  /\ hostAlive
  /\ Handler(i, [handlers[i] EXCEPT !.pc = "reload"])
  /\ UNCHANGED << toolVars, calls, latch, generation, cooling, nextId, pending,
                  answer, ladder, round, down, ended, overtaken >>

\* It does not: restartHost brings it back, or some rung breaks.
RestartHost(i) ==
  /\ handlers[i].pc = "probe"
  /\ HostStarts
  /\ Handler(i, [handlers[i] EXCEPT !.pc = "reload"])
  /\ UNCHANGED << calls, latch, generation, cooling, nextId, pending,
                  answer, ladder, round, down, ended, overtaken >>

LadderBreaks(i) ==
  /\ handlers[i].pc = "probe"
  /\ ~hostAlive
  /\ Over(i, FALSE)
  /\ UNCHANGED << toolVars, calls, latch, generation, cooling, nextId, pending,
                  answer, down, ended, overtaken >>

\* reload_mcp under reloadMcpMutex; a runtime shut down refuses it.
LadderReloads(i) ==
  /\ handlers[i].pc = "reload"
  /\ \/ ~down /\ \E names \in Offers : Connect("ladder", names)
     \/ FailedConnect("ladder")
  /\ Handler(i, [handlers[i] EXCEPT !.pc = "reloading"])
  /\ UNCHANGED << calls, latch, generation, cooling, nextId, pending,
                  answer, ladder, round, down, ended, overtaken >>

LadderEnds(i) ==
  /\ handlers[i].pc = "reloading"
  /\ Return
  /\ Over(i, reload.phase = "done")
  /\ UNCHANGED << calls, latch, generation, cooling, nextId, pending,
                  answer, down, ended, overtaken >>

AnyEntry(i) == pending  \* mutant: found by the name of the tool

Entry(i) == pending \cap {i}

\* HostCallRouter::resolve: an entry that is gone is no error, and an entry
\* whose caller is gone takes the answer with it.
Resolve(i) ==
  /\ handlers[i].pc = "answering"
  /\ Handler(i, [handlers[i] EXCEPT !.pc = "over"])
  /\ pending' = pending \ Entry(i)
  /\ answer' = [j \in Ids |-> IF j \notin Entry(i) THEN answer[j]
                              ELSE IF handlers[i].ok THEN "ok" ELSE "failed"]
  /\ UNCHANGED << toolVars, calls, latch, generation, cooling, nextId,
                  ladder, round, down, ended, overtaken >>

-----------------------------------------------------------------------------
CallStep(c) ==
  \/ Answered(c) \/ LosesConnection(c) \/ LosesRetry(c) \/ Retry(c)
  \/ Skip(c) \/ Request(c) \/ ReceiveAnswer(c) \/ GivesUp(c)

HandlerStep(i) ==
  \/ ReadRound(i) \/ ShareLadder(i) \/ ClimbLadder(i) \/ FindsHostAlive(i)
  \/ RestartHost(i) \/ LadderBreaks(i) \/ LadderReloads(i) \/ LadderEnds(i)
  \/ Resolve(i)

\* Reloads from the settings, changes of the shells, the tool host.
ToolStep ==
  /\ \/ ReloadStep \/ SwitchStep \/ HostDies \/ HostStarts
     \/ ~down /\ \E names \in Offers : Connect("user", names)
     \/ reload.by = "user" /\ Return
  /\ UNCHANGED recoveryVars

Next ==
  \/ \E c \in Calls : CallStep(c) \/ \E n \in Names : Send(c, n)
  \/ \E i \in Ids : HandlerStep(i)
  \/ CooldownEnds \/ CancelTurn \/ Shutdown
  \/ ToolStep

\* Only the runtime's own scheduling and its timers are fair: the
\* application, the tool host and the user promise nothing.
Spec == Init /\ [][Next]_vars /\ \A c \in Calls : WF_vars(CallStep(c))

-----------------------------------------------------------------------------
(* Properties.                                                             *)

TypeOK ==
  /\ ToolTypeOK
  /\ \A c \in Calls :
       /\ calls[c].pc \in {"idle", "sent", "waiting", "requested", "retry", "resent", "done"}
       /\ calls[c].name \in Names /\ calls[c].conn \in Conns
       /\ calls[c].entry \in 0 .. generation
       /\ calls[c].id \in {0} \cup Ids
       /\ calls[c].sends \in 0 .. 2
  /\ latch \in Calls \cup {NoCall}
  /\ generation \in Nat /\ round \in Nat
  /\ cooling \in BOOLEAN /\ ended \in BOOLEAN /\ down \in BOOLEAN
  /\ nextId \in 1 .. Cardinality(Calls) + 1
  /\ pending \subseteq Ids
  /\ answer \in [Ids -> {"none", "ok", "failed"}]
  /\ ladder \in {0} \cup Ids
  /\ overtaken \subseteq Calls

\* A call asks for a recovery only if no round ended within the cooldown
\* and none has succeeded since the call failed: calls that fail together
\* share one round, and a recovery that does not help is not repeated at
\* once (mcp_recovery.rs: latch, generation and cooldown).
RequestsJustified ==
  [][\A c \in Calls : calls[c].pc # "requested" /\ calls'[c].pc = "requested"
       => ~ended /\ c \notin overtaken]_vars

\* What a call takes for the outcome of its request is what the
\* application answered to that very request, or the shutdown's refusal: a
\* late answer to a request that was given up or cancelled goes nowhere
\* (hostcall.rs: harmless for an id that is gone).
AnswersOwnRequest ==
  \A c \in Calls : calls[c].pc = "requested" /\ answer[calls[c].id] # "none" =>
    \/ handlers[calls[c].id].pc = "over"
       /\ handlers[calls[c].id].ok = (answer[calls[c].id] = "ok")
    \/ down /\ answer[calls[c].id] = "failed"

\* Every call that was sent ends, even if the application never answers:
\* the latch cannot stay with a call that was cancelled or gave up.
EveryCallEnds == \A c \in Calls : calls[c].pc # "idle" ~> calls[c].pc = "done"
=============================================================================
