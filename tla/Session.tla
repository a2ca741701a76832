------------------------------ MODULE Session ------------------------------
(***************************************************************************)
(* The session core and the handlers that share it: several clients submit *)
(* prompts, start new sessions, cancel, answer approvals and, on mobile,   *)
(* open an old session, each in a task of its own.  A step is what a       *)
(* handler does under one hold of the core lock, or one await; the busy    *)
(* guard (running) is what keeps the handlers apart.                       *)
(*                                                                         *)
(* Sources: dispatch, handle_submit and open_session_run                   *)
(* (openslate-session/src/session.rs), spawn_engine_turn, engine_turn and  *)
(* finalize_turn (engine.rs), SessionApprovalBridge (approval.rs) and      *)
(* MobileRuntime::open_session (openslate-mobile/src/runtime.rs).          *)
(***************************************************************************)
EXTENDS Naturals, Sequences, FiniteSets, SequencesExt

CONSTANTS
    Clients,      \* the connections
    MaxPrompts,   \* bound: prompts accepted
    MaxSessions,  \* bound: sessions, the first included
    MaxAsks,      \* bound: tool calls that need an approval
    Switching,    \* does the frontend have open_session? (mobile)
    Racing        \* may a handler run beside an open_session?

ASSUME SessionAssumption ==
    /\ IsFiniteSet(Clients)
    /\ {MaxPrompts, MaxSessions, MaxAsks} \subseteq Nat \ {0}
    /\ {Switching, Racing} \subseteq BOOLEAN

Prompt == 1 .. MaxPrompts
Run == 1 .. MaxPrompts
NoRun == 0
Message == [turn : Prompt, from : {"user", "agent"}]
User(p) == [turn |-> p, from |-> "user"]
Agent(p) == [turn |-> p, from |-> "agent"]

VARIABLES
    \* the core
    running, history, session, run, manager, cancel,
    \* the approval bridge
    scopes,     \* sessions whose approve_all is in force
    approval,   \* "none", "asked", or the answer decide has yet to take
    online,     \* connected clients
    \* the store
    logs,       \* the messages of each run
    closed,     \* runs whose row is closed
    \* the engine's turn: on, its sink's run, session, copy, prompt
    engine,
    \* the handlers
    pc, prompt, held, loaded, closing,
    \* bounds and history
    prompts, runs, asks,
    born,       \* history: the session each prompt was accepted in
    unstored    \* history: sessions with a turn no run was opened for

core == <<running, history, session, run, manager, cancel>>
bridge == <<scopes, approval, online>>
store == <<logs, closed, runs>>
handlers == <<pc, prompt, held, loaded, closing>>
counters == <<prompts, asks, born, unstored>>
vars == <<core, bridge, store, engine, handlers, counters>>

Submitting == {"begin", "adopt", "write", "launch"}
Opening == {"load", "release", "rescope", "install", "reinstall"}

NoTurn == [on |-> FALSE, run |-> NoRun, session |-> 0, copy |-> <<>>, prompt |-> 0]

TypeOK ==
    /\ running \in BOOLEAN
    /\ history \in Seq(Message)
    /\ session \in Nat \ {0}
    /\ run \in Run \cup {NoRun}
    /\ manager \in {"home", "engine"}
    /\ cancel \in {"none", "live", "cancelled"}
    /\ scopes \subseteq 1 .. session
    /\ approval \in {"none", "asked", "approve", "approve_all", "deny"}
    /\ online \subseteq Clients
    /\ logs \in [Run -> Seq(Message)]
    /\ closed \subseteq Run
    /\ engine \in [on : BOOLEAN, run : Run \cup {NoRun}, session : 0 .. session,
                   copy : Seq(Message), prompt : 0 .. MaxPrompts]
    /\ pc \in [Clients -> {"idle", "flush", "unscope"} \cup Submitting \cup Opening]
    /\ prompt \in [Clients -> 0 .. MaxPrompts]
    /\ held \in [Clients -> Run \cup {NoRun}]
    /\ loaded \in [Clients -> Seq(Message)]
    /\ closing \in [Clients -> Run \cup {NoRun}]
    /\ prompts \in 0 .. MaxPrompts
    /\ runs \in 0 .. MaxPrompts
    /\ asks \in 0 .. MaxAsks
    /\ born \in [Prompt -> 0 .. session]
    /\ unstored \subseteq 1 .. session

Init ==
    /\ running = FALSE /\ history = <<>> /\ session = 1 /\ run = NoRun
    /\ manager = "home" /\ cancel = "none"
    /\ scopes = {} /\ approval = "none" /\ online = Clients
    /\ logs = [r \in Run |-> <<>>] /\ closed = {} /\ runs = 0
    /\ engine = NoTurn
    /\ pc = [c \in Clients |-> "idle"]
    /\ prompt = [c \in Clients |-> 0]
    /\ held = [c \in Clients |-> NoRun]
    /\ loaded = [c \in Clients |-> <<>>]
    /\ closing = [c \in Clients |-> NoRun]
    /\ prompts = 0 /\ asks = 0
    /\ born = [p \in Prompt |-> 0]
    /\ unstored = {}

Goto(c, l) == pc' = [pc EXCEPT ![c] = l]
Write(r, m) == logs' = IF r = NoRun THEN logs ELSE [logs EXCEPT ![r] = Append(@, m)]

(* A client's task takes its next message.                                 *)
Free(c) ==
    /\ c \in online /\ pc[c] = "idle"
    /\ Racing \/ \A d \in Clients : pc[d] \notin Opening

-----------------------------------------------------------------------------
(* A slip: the busy mark is left to the start of the turn.                 *)
SubmitUnmarked(c) ==
    /\ Free(c)
    /\ ~running
    /\ prompts < MaxPrompts
    /\ prompts' = prompts + 1
    /\ prompt' = [prompt EXCEPT ![c] = prompts + 1]
    /\ born' = [born EXCEPT ![prompts + 1] = session]
    /\ history' = Append(history, User(prompts + 1))
    /\ Goto(c, "begin")
    /\ UNCHANGED <<running, session, run, manager, cancel, bridge, store, engine, held, loaded, closing, asks, unstored>>

(* handle_submit: the busy guard, the user message and the busy mark under *)
(* one lock.                                                               *)
Submit(c) ==
    /\ Free(c)
    /\ ~running
    /\ prompts < MaxPrompts
    /\ prompts' = prompts + 1
    /\ prompt' = [prompt EXCEPT ![c] = prompts + 1]
    /\ born' = [born EXCEPT ![prompts + 1] = session]
    /\ history' = Append(history, User(prompts + 1))
    /\ running' = TRUE
    /\ Goto(c, "begin")
    /\ UNCHANGED <<session, run, manager, cancel, bridge, store, engine, held, loaded, closing, asks, unstored>>

(* open_session_run: the run of the session, or a new one, or none when    *)
(* the store refuses it.                                                   *)
OpenSessionRun(c) ==
    /\ pc[c] = "begin"
    /\ \/ /\ run # NoRun
          /\ held' = [held EXCEPT ![c] = run]
          /\ Goto(c, "write")
          /\ UNCHANGED <<runs, unstored>>
       \/ /\ run = NoRun
          /\ runs' = runs + 1
          /\ held' = [held EXCEPT ![c] = runs + 1]
          /\ Goto(c, "adopt")
          /\ UNCHANGED unstored
       \/ /\ run = NoRun
          /\ held' = [held EXCEPT ![c] = NoRun]
          /\ unstored' = unstored \cup {born[prompt[c]]}
          /\ Goto(c, "write")
          /\ UNCHANGED runs
    /\ UNCHANGED <<core, bridge, logs, closed, engine, prompt, loaded, closing, prompts, asks, born>>

(* A slip: the new run is not kept.                                        *)
AdoptNothing(c) ==
    /\ pc[c] = "adopt"
    /\ Goto(c, "write")
    /\ UNCHANGED <<core, bridge, store, engine, prompt, held, loaded, closing, counters>>

(* The new run becomes the run of the session.                             *)
AdoptRun(c) ==
    /\ pc[c] = "adopt"
    /\ run' = held[c]
    /\ Goto(c, "write")
    /\ UNCHANGED <<running, history, session, manager, cancel, bridge, store, engine,
                   prompt, held, loaded, closing, counters>>

(* A slip: what is written is not the message that was pushed.             *)
WriteUserCleared(c) ==
    /\ pc[c] = "write"
    /\ Write(held[c], User(0))
    /\ Goto(c, "launch")
    /\ UNCHANGED <<core, bridge, closed, runs, engine, prompt, held, loaded, closing, counters>>

(* The user message goes to the recorder.                                  *)
WriteUser(c) ==
    /\ pc[c] = "write"
    /\ Write(held[c], User(prompt[c]))
    /\ Goto(c, "launch")
    /\ UNCHANGED <<core, bridge, closed, runs, engine, prompt, held, loaded, closing, counters>>

(* A slip: the busy mark stays when the provider cannot be built.          *)
ProviderUnavailableStaysBusy(c) ==
    /\ pc[c] = "launch"
    /\ history' = IF history # <<>> /\ Last(history).from = "user" THEN Front(history) ELSE history
    /\ Goto(c, "idle")
    /\ UNCHANGED <<running, session, run, manager, cancel, bridge, store, engine, prompt, held, loaded, closing, counters>>

(* The provider cannot be built: the user message is taken back.           *)
ProviderUnavailable(c) ==
    /\ pc[c] = "launch"
    /\ history' = IF history # <<>> /\ Last(history).from = "user" THEN Front(history) ELSE history
    /\ running' = FALSE
    /\ Goto(c, "idle")
    /\ UNCHANGED <<session, run, manager, cancel, bridge, store, engine, prompt, held, loaded, closing, counters>>

(* A token, the manager and a copy of the history go to the engine; with   *)
(* the manager away there is no turn.                                      *)
Launch(c) ==
    /\ pc[c] = "launch"
    /\ cancel' = "live"
    /\ IF manager = "home"
       THEN /\ manager' = "engine"
            /\ engine' = [on |-> TRUE, run |-> held[c], session |-> session,
                          copy |-> history, prompt |-> prompt[c]]
            /\ UNCHANGED running
       ELSE /\ running' = FALSE
            /\ UNCHANGED <<manager, engine>>
    /\ Goto(c, "idle")
    /\ UNCHANGED <<history, session, run, bridge, store, prompt, held, loaded, closing, counters>>

-----------------------------------------------------------------------------
(* The engine's reply goes to its recorder and its copy of the history.    *)
EngineReply ==
    /\ engine.on /\ approval = "none"
    /\ Agent(engine.prompt) \notin ToSet(engine.copy)
    /\ engine' = [engine EXCEPT !.copy = Append(@, Agent(engine.prompt))]
    /\ Write(engine.run, Agent(engine.prompt))
    /\ UNCHANGED <<core, bridge, closed, runs, handlers, counters>>

(* finalize_turn, with the conversation of the turn or, after an error,    *)
(* without it.                                                             *)
EngineEnds ==
    /\ engine.on /\ approval = "none"
    /\ \/ history' = engine.copy
       \/ UNCHANGED history
    /\ running' = FALSE
    /\ cancel' = "none"
    /\ manager' = "home"
    /\ engine' = NoTurn
    /\ UNCHANGED <<session, run, bridge, store, handlers, counters>>

(* ClientMsg::Cancel; a submit that has not launched yet has no token.     *)
Cancel(c) ==
    /\ Free(c)
    /\ cancel = "live"
    /\ cancel' = "cancelled"
    /\ UNCHANGED <<running, history, session, run, manager, bridge, store, engine, handlers, counters>>

(* decide: a scope of the session answers, nobody online denies, else the  *)
(* engine's thread waits for an answer.                                    *)
Decide ==
    /\ engine.on /\ approval = "none"
    /\ asks < MaxAsks
    /\ asks' = asks + 1
    /\ approval' = IF scopes # {} \/ online = {} THEN "none" ELSE "asked"
    /\ UNCHANGED <<core, scopes, online, store, engine, handlers, prompts, born, unstored>>

(* ClientMsg::ApprovalAnswer: the first answer wins.                       *)
Respond(c, choice) ==
    /\ Free(c)
    /\ approval = "asked"
    /\ approval' = choice
    /\ UNCHANGED <<core, scopes, online, store, engine, handlers, counters>>

(* decide takes the answer; approve_all opens a scope.                     *)
TakeAnswer ==
    /\ approval \in {"approve", "approve_all", "deny"}
    /\ scopes' = IF approval = "approve_all" THEN scopes \cup {engine.session} ELSE scopes
    /\ approval' = "none"
    /\ UNCHANGED <<core, online, store, engine, handlers, counters>>

Connect(c) == online' = online \cup {c} /\ UNCHANGED <<core, scopes, approval, store, engine, handlers, counters>>
Disconnect(c) == online' = online \ {c} /\ UNCHANGED <<core, scopes, approval, store, engine, handlers, counters>>

-----------------------------------------------------------------------------
(* ClientMsg::NewSession: the first guard, then the flush of the           *)
(* transcript ...                                                          *)
NewSession(c) ==
    /\ Free(c)
    /\ ~running
    /\ session < MaxSessions
    /\ Goto(c, "flush")
    /\ UNCHANGED <<core, bridge, store, engine, prompt, held, loaded, closing, counters>>

(* A slip: no second guard after the flush.                                *)
ResetUnguarded(c) ==
    /\ pc[c] = "flush"
    /\ session < MaxSessions
    /\ history' = <<>>
    /\ session' = session + 1
    /\ run' = NoRun
    /\ closing' = [closing EXCEPT ![c] = run]
    /\ Goto(c, "unscope")
    /\ UNCHANGED <<running, manager, cancel, bridge, store, engine, prompt, held, loaded, counters>>

(* A slip: the run stays the run of the session.                           *)
ResetKeepingRun(c) ==
    /\ pc[c] = "flush"
    /\ \/ running /\ Goto(c, "idle") /\ UNCHANGED <<core, closing>>
       \/ /\ ~running
          /\ session < MaxSessions
          /\ history' = <<>>
          /\ session' = session + 1
          /\ closing' = [closing EXCEPT ![c] = run]
          /\ Goto(c, "unscope")
          /\ UNCHANGED <<run, running, manager, cancel>>
    /\ UNCHANGED <<bridge, store, engine, prompt, held, loaded, counters>>

(* ... the second guard and the reset under one lock ...                   *)
ResetSession(c) ==
    /\ pc[c] = "flush"
    /\ \/ running /\ Goto(c, "idle") /\ UNCHANGED <<core, closing>>
       \/ /\ ~running
          /\ session < MaxSessions
          /\ history' = <<>>
          /\ session' = session + 1
          /\ run' = NoRun
          /\ closing' = [closing EXCEPT ![c] = run]
          /\ Goto(c, "unscope")
          /\ UNCHANGED <<running, manager, cancel>>
    /\ UNCHANGED <<bridge, store, engine, prompt, held, loaded, counters>>

(* ... and, out of the lock, the scopes and the row of the old run.        *)
ClearScopes(c) ==
    /\ pc[c] = "unscope"
    /\ scopes' = {}
    /\ closed' = closed \cup ({closing[c]} \ {NoRun})
    /\ closing' = [closing EXCEPT ![c] = NoRun]
    /\ Goto(c, "idle")
    /\ UNCHANGED <<core, approval, online, logs, runs, engine, prompt, held, loaded, counters>>

-----------------------------------------------------------------------------
(* open_session: the only guard, then the flush ...                        *)
OpenSession(c, r) ==
    /\ Switching
    /\ Free(c)
    /\ Racing \/ \A d \in Clients : pc[d] = "idle"
    /\ ~running
    /\ session < MaxSessions
    /\ r \in 1 .. runs
    /\ held' = [held EXCEPT ![c] = r]
    /\ Goto(c, "load")
    /\ UNCHANGED <<core, bridge, store, engine, prompt, loaded, closing, counters>>

LoadRun(c) ==
    /\ pc[c] = "load"
    /\ loaded' = [loaded EXCEPT ![c] = logs[held[c]]]
    /\ Goto(c, "release")
    /\ UNCHANGED <<core, bridge, store, engine, prompt, held, closing, counters>>

(* ... the old run is given up, if it is another one ...                   *)
ReleaseOld(c) ==
    /\ pc[c] = "release"
    /\ IF run = held[c]
       THEN UNCHANGED <<run, closing>> /\ Goto(c, "reinstall")
       ELSE run' = NoRun /\ closing' = [closing EXCEPT ![c] = run] /\ Goto(c, "rescope")
    /\ UNCHANGED <<running, history, session, manager, cancel, bridge, store, engine, prompt, held, loaded, counters>>

(* A slip: the scopes stay.                                                *)
RescopeNothing(c) ==
    /\ pc[c] = "rescope"
    /\ closed' = closed \cup ({closing[c]} \ {NoRun})
    /\ Goto(c, "install")
    /\ UNCHANGED <<core, bridge, logs, runs, engine, prompt, held, loaded, closing, counters>>

(* ... its row and the scopes are closed ...                               *)
Rescope(c) ==
    /\ pc[c] = "rescope"
    /\ scopes' = {}
    /\ closed' = closed \cup ({closing[c]} \ {NoRun})
    /\ Goto(c, "install")
    /\ UNCHANGED <<core, approval, online, logs, runs, engine, prompt, held, loaded, closing, counters>>

(* ... and the loaded conversation takes the place of the current one,     *)
(* whatever has happened since the guard.                                  *)
Install(c) ==
    /\ pc[c] \in {"install", "reinstall"}
    /\ session' = IF pc[c] = "reinstall" THEN session ELSE session + 1
    /\ history' = loaded[c]
    /\ run' = held[c]
    /\ closed' = closed \ {held[c]}
    /\ running' = FALSE
    /\ closing' = [closing EXCEPT ![c] = NoRun]
    /\ Goto(c, "idle")
    /\ UNCHANGED <<manager, cancel, bridge, logs, runs, engine, prompt, held, loaded, counters>>

-----------------------------------------------------------------------------
HandlerStep(c) ==
    \/ OpenSessionRun(c) \/ AdoptRun(c) \/ WriteUser(c) \/ ProviderUnavailable(c) \/ Launch(c)
    \/ ResetSession(c) \/ ClearScopes(c)
    \/ LoadRun(c) \/ ReleaseOld(c) \/ Rescope(c) \/ Install(c)

ClientSends(c) ==
    \/ Submit(c) \/ Cancel(c) \/ NewSession(c)
    \/ \E choice \in {"approve", "approve_all", "deny"} : Respond(c, choice)
    \/ \E r \in Run : OpenSession(c, r)
    \/ Connect(c) \/ Disconnect(c)

EngineStep == EngineReply \/ EngineEnds \/ TakeAnswer

Next == EngineStep \/ Decide \/ \E c \in Clients : HandlerStep(c) \/ ClientSends(c)

(* Tasks and the engine's thread are scheduled, and the provider answers   *)
(* or times out; nothing makes a client answer an approval.                *)
Fairness == WF_vars(EngineStep) /\ WF_vars(EngineEnds) /\ \A c \in Clients : WF_vars(HandlerStep(c))

Spec == Init /\ [][Next]_vars /\ Fairness

-----------------------------------------------------------------------------
(* IdleIsIdle: when the busy guard lets a handler pass there is no turn,   *)
(* no submit before its turn and no token left, and the manager is home.   *)
IdleIsIdle ==
    ~running =>
        /\ ~engine.on /\ manager = "home" /\ cancel = "none"
        /\ \A c \in Clients : pc[c] \notin Submitting

(* TurnOwnsSession: the session a turn was started for stays the current   *)
(* one, with the run the turn writes to and marked busy, until it ends.    *)
TurnOwnsSession ==
    engine.on => running /\ engine.session = session /\ engine.run \in {run, NoRun}

(* ClosedRunsAreQuiet: a run that was closed is not written to any more.   *)
ClosedRunsAreQuiet == [][\A r \in closed : logs'[r] = logs[r]]_logs

(* TurnsAreStored: what a turn knows is in the run it writes to, unless    *)
(* the store refused to open a run for an earlier turn of the session.     *)
TurnsAreStored ==
    engine.on /\ engine.session \notin unstored => ToSet(engine.copy) \subseteq ToSet(logs[engine.run])

(* ScopesOfThisSession: apart from the moment a reset takes, no approval   *)
(* scope of an earlier session is in force.                                *)
ScopesOfThisSession == (\A c \in Clients : pc[c] # "unscope") => scopes \subseteq {session}

(* BusyEnds: the busy mark does not stay for ever, unless an approval is   *)
(* never answered.                                                         *)
BusyEnds == <>[](approval = "asked") \/ [](running => <>~running)
=============================================================================
