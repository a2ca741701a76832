--------------------------- MODULE SessionProofs ---------------------------
(***************************************************************************)
(* The safety properties of the session core, for any number of clients,   *)
(* prompts and sessions, as long as nothing is handled beside an           *)
(* open_session (~Racing).                                                 *)
(*                                                                         *)
(* The first invariant, GuardInv, says that the busy mark excludes what it *)
(* is meant to exclude; three smaller ones stand on it, one for each of    *)
(* the approval scopes, the closed runs and the stored messages.           *)
(***************************************************************************)
EXTENDS Session, SequenceTheorems, TLAPS

\* One submit or one open_session at a time, the former with the busy mark
\* and before its turn, the latter with neither mark nor turn.
Exclusive ==
    /\ \A c, d \in Clients : pc[c] \in Opening /\ d # c => pc[d] = "idle"
    /\ \A c \in Clients : pc[c] \in Opening => ~running
    /\ \A c, d \in Clients : pc[c] \in Submitting /\ pc[d] \in Submitting => c = d
    /\ \A c \in Clients : pc[c] \in Submitting => running /\ ~engine.on

\* The turn has the manager, the token and the session; without it the
\* manager is home and nobody is asked for an approval.
Turn ==
    /\ engine.on => /\ running /\ manager = "engine" /\ engine.prompt \in Prompt
                    /\ engine.session = session /\ engine.run \in {run, NoRun}
    /\ ~engine.on => manager = "home" /\ cancel = "none" /\ approval = "none"

\* What the handlers hold between their steps.
Locals ==
    /\ runs <= prompts
    /\ \A c \in Clients :
        /\ pc[c] \in Submitting => prompt[c] \in Prompt /\ born[prompt[c]] = session
        /\ pc[c] = "begin" => runs < prompts
        /\ pc[c] = "adopt" => held[c] \in Run /\ run = NoRun
        /\ pc[c] \in {"write", "launch"} => held[c] \in {run, NoRun}
        /\ pc[c] \in Opening => held[c] \in Run

GuardInv == TypeOK /\ Exclusive /\ Turn /\ Locals

\* Scopes of the current session alone, but for a reset on its way; none
\* when an opened session is about to be installed.
ScopeInv ==
    /\ ScopesOfThisSession
    /\ \A c \in Clients : pc[c] = "install" => scopes = {}

\* Neither the current run, nor one about to become it, is closed or about
\* to be.
QuietInv ==
    /\ run \notin closed /\ NoRun \notin closed
    /\ closed \subseteq 1 .. runs /\ run <= runs
    /\ \A c \in Clients :
        /\ pc[c] \in Opening => held[c] <= runs
        /\ closing[c] # NoRun => closing[c] # run /\ closing[c] <= runs
        /\ closing[c] # NoRun => pc[c] \in {"unscope", "rescope", "install"}
        /\ pc[c] = "adopt" => held[c] \notin closed /\ held[c] <= runs
        /\ pc[c] = "adopt" => \A d \in Clients : closing[d] # held[c]

\* A message of the history is in the current run, or is the prompt of a
\* submit on its way there.
Stored(m) ==
    \/ run # NoRun /\ m \in ToSet(logs[run])
    \/ \E c \in Clients : pc[c] \in {"begin", "adopt", "write"} /\ m = User(prompt[c])

HistoryStored ==
    /\ session \notin unstored
    /\ \A c \in Clients : pc[c] \notin {"rescope", "install"}
    => \A m \in ToSet(history) : Stored(m)

\* What the turn and the handlers hold is in a run too, in a session whose
\* every turn has one.
StoredInv ==
    /\ HistoryStored
    /\ engine.on /\ session \notin unstored =>
        engine.run # NoRun /\ ToSet(engine.copy) \subseteq ToSet(logs[engine.run])
    /\ \A c \in Clients :
        /\ pc[c] \in {"write", "launch"} /\ held[c] = NoRun => session \in unstored
        /\ pc[c] \in {"release", "rescope", "install", "reinstall"} =>
            loaded[c] = logs[held[c]]

-----------------------------------------------------------------------------
(* Sequences of messages.                                                  *)

LEMMA MessageFacts == \A p \in Prompt : User(p) \in Message /\ Agent(p) \in Message
BY DEF User, Agent, Message

LEMMA AppendFacts ==
  ASSUME NEW s \in Seq(Message), NEW m \in Message
  PROVE  Append(s, m) \in Seq(Message) /\ ToSet(Append(s, m)) = ToSet(s) \cup {m}
<1>1. ASSUME NEW x PROVE x \in ToSet(Append(s, m)) <=> x \in ToSet(s) \/ x = m
  <2>1. \A i \in 1 .. Len(s) + 1 : Append(s, m)[i] = IF i = Len(s) + 1 THEN m ELSE s[i]
    OBVIOUS
  <2>2. DOMAIN Append(s, m) = 1 .. Len(s) + 1 /\ DOMAIN s = 1 .. Len(s) /\ Len(s) \in Nat
    OBVIOUS
  <2>3. x \in ToSet(Append(s, m)) <=> \E i \in 1 .. Len(s) + 1 : x = Append(s, m)[i]
    BY <2>2 DEF ToSet
  <2>4. x \in ToSet(s) <=> \E i \in 1 .. Len(s) : x = s[i]
    BY <2>2 DEF ToSet
  <2>5. Len(s) + 1 \in 1 .. Len(s) + 1 /\ 1 .. Len(s) \subseteq 1 .. Len(s) + 1
    BY <2>2
  <2>6. \A i \in 1 .. Len(s) : i # Len(s) + 1
    BY <2>2
  <2>7. \A i \in 1 .. Len(s) + 1 : i = Len(s) + 1 \/ i \in 1 .. Len(s)
    BY <2>2
  <2>. QED  BY <2>1, <2>3, <2>4, <2>5, <2>6, <2>7, Zenon
<1>. QED  BY <1>1

LEMMA FrontFacts ==
  ASSUME NEW s \in Seq(Message), s # <<>>
  PROVE  Front(s) \in Seq(Message) /\ ToSet(Front(s)) \subseteq ToSet(s)
BY DEF Front, ToSet

-----------------------------------------------------------------------------
(* How a handler may move, by what it is doing.                            *)

\* A submit goes on.
LEMMA SubmitMoves ==
  ASSUME TypeOK, Exclusive, NEW c \in Clients, pc[c] \in Submitting,
         NEW l \in Submitting, Goto(c, l), UNCHANGED <<running, engine>>
  PROVE  Exclusive'
BY DEF Exclusive, Goto, TypeOK, Submitting, Opening

\* It ends: with the mark set there is nobody else.
LEMMA SubmitEnds ==
  ASSUME TypeOK, Exclusive, NEW c \in Clients, pc[c] \in Submitting, Goto(c, "idle")
  PROVE  Exclusive'
BY DEF Exclusive, Goto, TypeOK, Submitting, Opening

\* An open_session goes on, or ends.
LEMMA OpeningMoves ==
  ASSUME TypeOK, Exclusive, NEW c \in Clients, pc[c] \in Opening,
         NEW l \in Opening \cup {"idle"}, Goto(c, l), running' = FALSE \/ UNCHANGED running
  PROVE  Exclusive'
<1>1. \A d \in Clients : pc'[d] = IF d = c THEN l ELSE "idle"
  BY DEF Exclusive, Goto, TypeOK
<1>2. ~running'
  BY DEF Exclusive, TypeOK
<1>. QED  BY <1>1, <1>2 DEF Exclusive, Submitting, Opening

\* A new session goes on, or ends.
LEMMA ResetMoves ==
  ASSUME TypeOK, Exclusive, NEW c \in Clients, pc[c] \in {"flush", "unscope"},
         NEW l \in {"idle", "flush", "unscope"}, Goto(c, l), UNCHANGED <<running, engine>>
  PROVE  Exclusive'
<1>1. \A d \in Clients : pc[d] \notin Opening
  BY DEF Exclusive, Opening
<1>2. \A d \in Clients : pc'[d] = IF d = c THEN l ELSE pc[d]
  BY DEF Goto, TypeOK
<1>. QED  BY <1>1, <1>2 DEF Exclusive, Submitting, Opening

-----------------------------------------------------------------------------
(* The busy mark.                                                          *)

LEMMA GuardInit == Init => GuardInv
<1>. SUFFICES ASSUME Init PROVE GuardInv
  OBVIOUS
<1>1. \A c \in Clients : pc[c] = "idle"
  BY DEF Init
<1>2. TypeOK
  <2>1. NoTurn \in [on : BOOLEAN, run : Run \cup {NoRun}, session : 0 .. 1,
                    copy : Seq(Message), prompt : 0 .. MaxPrompts]
    BY SessionAssumption DEF NoTurn
  <2>2. 0 \in 0 .. MaxPrompts /\ 0 \in 0 .. MaxAsks /\ 0 \in 0 .. 1 /\ 1 \in Nat \ {0}
    BY SessionAssumption
  <2>3. /\ logs \in [Run -> Seq(Message)] /\ prompt \in [Clients -> 0 .. MaxPrompts]
        /\ held \in [Clients -> Run \cup {NoRun}] /\ closing \in [Clients -> Run \cup {NoRun}]
        /\ loaded \in [Clients -> Seq(Message)] /\ born \in [Prompt -> 0 .. 1]
        /\ pc \in [Clients -> {"idle", "flush", "unscope"} \cup Submitting \cup Opening]
    BY <2>2 DEF Init
  <2>4. /\ running \in BOOLEAN /\ history \in Seq(Message) /\ session = 1
        /\ run = NoRun /\ closed = {} /\ scopes = {} /\ unstored = {}
        /\ engine = NoTurn /\ prompts = 0 /\ runs = 0 /\ asks = 0
        /\ manager = "home" /\ cancel = "none" /\ approval = "none" /\ online = Clients
    BY EmptySeq DEF Init
  <2>. QED  BY <2>1, <2>2, <2>3, <2>4 DEF TypeOK
<1>3. Exclusive /\ Locals
  BY <1>1 DEF Init, Exclusive, Locals, Opening, Submitting
<1>4. Turn
  BY DEF Init, Turn, NoTurn
<1>. QED  BY <1>2, <1>3, <1>4 DEF GuardInv

LEMMA SubmitGuards ==
  ASSUME GuardInv, ~Racing, NEW c \in Clients, Submit(c)
  PROVE  GuardInv'
<1>. USE SessionAssumption DEF GuardInv, NoRun, Run, Prompt, Goto, Write, core, bridge, store, handlers, counters
<1>1. TypeOK'
  <2>1. prompts \in Nat /\ prompts + 1 \in Prompt
    BY DEF Submit, TypeOK
  <2>2. history' \in Seq(Message)
    BY <2>1, MessageFacts, AppendFacts DEF Submit, TypeOK
  <2>3. born' \in [Prompt -> 0 .. session]
    BY <2>1 DEF Submit, TypeOK
  <2>4. prompt' \in [Clients -> 0 .. MaxPrompts] /\ prompts' \in 0 .. MaxPrompts
    BY <2>1 DEF Submit, TypeOK
  <2>5. pc' \in [Clients -> {"idle", "flush", "unscope"} \cup Submitting \cup Opening]
    BY DEF Submit, TypeOK, Submitting
  <2>. QED  BY <2>1, <2>2, <2>3, <2>4, <2>5 DEF Submit, Free, TypeOK
<1>2. Exclusive'
  <2>1. ~running /\ running' /\ ~engine.on /\ ~engine'.on
    BY DEF Submit, Turn
  <2>2. \A d \in Clients : pc[d] \notin Opening /\ pc[d] \notin Submitting
    BY <2>1 DEF Submit, Free, Exclusive
  <2>3. \A d \in Clients : pc'[d] = IF d = c THEN "begin" ELSE pc[d]
    BY DEF Submit, TypeOK
  <2>. QED  BY <2>1, <2>2, <2>3 DEF Exclusive, Submitting, Opening
<1>3. Turn'
  BY DEF Submit, Free, TypeOK, Exclusive, Turn, Locals, Submitting, Opening
<1>4. Locals'
  BY DEF Submit, Free, TypeOK, Exclusive, Turn, Locals, Submitting, Opening
<1>. QED  BY <1>1, <1>2, <1>3, <1>4

LEMMA OpenSessionRunGuards ==
  ASSUME GuardInv, ~Racing, NEW c \in Clients, OpenSessionRun(c)
  PROVE  GuardInv'
<1>. USE SessionAssumption DEF GuardInv, NoRun, Run, Prompt, Goto, Write, core, bridge, store, handlers, counters
<1>1. TypeOK'
  <2>1. pc[c] = "begin" /\ prompt[c] \in Prompt /\ born[prompt[c]] = session /\ runs + 1 \in Run
    BY DEF OpenSessionRun, Locals, TypeOK, Submitting
  <2>2. run \in Run \cup {NoRun} /\ runs \in 0 .. MaxPrompts /\ session \in Nat \ {0}
    BY DEF TypeOK
  <2>3. held' \in [Clients -> Run \cup {NoRun}]
    BY <2>1, <2>2 DEF OpenSessionRun, TypeOK
  <2>4. runs' \in 0 .. MaxPrompts
    BY <2>1, <2>2 DEF OpenSessionRun
  <2>5. session \in 1 .. session
    BY <2>2
  <2>6. unstored' \subseteq 1 .. session
    BY <2>1, <2>5 DEF OpenSessionRun, TypeOK
  <2>7. pc' \in [Clients -> {"idle", "flush", "unscope"} \cup Submitting \cup Opening]
    BY DEF OpenSessionRun, TypeOK, Submitting
  <2>. QED  BY <2>1, <2>2, <2>3, <2>4, <2>5, <2>6, <2>7 DEF OpenSessionRun, TypeOK
<1>2. Exclusive'
  <2>1. pc[c] \in Submitting
    BY DEF OpenSessionRun, Submitting
  <2>2. (Goto(c, "write") \/ Goto(c, "adopt")) /\ UNCHANGED <<running, engine>>
    BY DEF OpenSessionRun
  <2>. QED  BY <2>1, <2>2, SubmitMoves DEF Submitting
<1>3. Turn'
  BY DEF OpenSessionRun, TypeOK, Exclusive, Turn, Locals, Submitting, Opening
<1>4. Locals'
  <2>1. pc[c] = "begin" /\ runs < prompts /\ runs + 1 \in Run
    BY DEF OpenSessionRun, Locals, TypeOK
  <2>2. \A d \in Clients : d # c => pc[d] \notin Submitting /\ pc[d] \notin Opening
    BY <2>1 DEF Exclusive, Submitting, Opening
  <2>3. \A d \in Clients : d # c => pc'[d] = pc[d] /\ held'[d] = held[d]
    BY DEF OpenSessionRun, TypeOK
  <2>4. runs' <= prompts'
    BY <2>1 DEF OpenSessionRun, Locals, TypeOK
  <2>5. /\ prompt' = prompt /\ born' = born /\ session' = session /\ run' = run
        /\ prompt[c] \in Prompt /\ born[prompt[c]] = session
    BY <2>1 DEF OpenSessionRun, Locals, Submitting
  <2>6. \/ pc'[c] = "write" /\ held'[c] \in {run, NoRun}
        \/ pc'[c] = "adopt" /\ held'[c] = runs + 1 /\ run = NoRun
    BY DEF OpenSessionRun, TypeOK
  <2>. QED  BY <2>1, <2>2, <2>3, <2>4, <2>5, <2>6 DEF Locals, Submitting, Opening
<1>. QED  BY <1>1, <1>2, <1>3, <1>4

LEMMA AdoptRunGuards ==
  ASSUME GuardInv, ~Racing, NEW c \in Clients, AdoptRun(c)
  PROVE  GuardInv'
<1>. USE SessionAssumption DEF GuardInv, NoRun, Run, Prompt, Goto, Write, core, bridge, store, handlers, counters
<1>1. TypeOK'
  BY DEF AdoptRun, TypeOK, Exclusive, Turn, Locals, Submitting, Opening
<1>2. Exclusive'
  <2>1. pc[c] \in Submitting
    BY DEF AdoptRun, Submitting
  <2>. QED  BY <2>1, SubmitMoves DEF AdoptRun, Submitting
<1>3. Turn'
  BY DEF AdoptRun, TypeOK, Exclusive, Turn, Locals, Submitting, Opening
<1>4. Locals'
  BY DEF AdoptRun, TypeOK, Exclusive, Turn, Locals, Submitting, Opening
<1>. QED  BY <1>1, <1>2, <1>3, <1>4

LEMMA WriteUserGuards ==
  ASSUME GuardInv, ~Racing, NEW c \in Clients, WriteUser(c)
  PROVE  GuardInv'
<1>. USE SessionAssumption DEF GuardInv, NoRun, Run, Prompt, Goto, Write, core, bridge, store, handlers, counters
<1>1. TypeOK'
  <2>1. prompt[c] \in Prompt /\ held[c] \in Run \cup {NoRun}
    BY DEF WriteUser, Locals, TypeOK, Submitting
  <2>2. logs' \in [Run -> Seq(Message)]
    BY <2>1, MessageFacts, AppendFacts DEF WriteUser, TypeOK
  <2>3. pc' \in [Clients -> {"idle", "flush", "unscope"} \cup Submitting \cup Opening]
    BY DEF WriteUser, TypeOK, Submitting
  <2>. QED  BY <2>1, <2>2, <2>3 DEF WriteUser, TypeOK
<1>2. Exclusive'
  <2>1. pc[c] \in Submitting
    BY DEF WriteUser, Submitting
  <2>. QED  BY <2>1, SubmitMoves DEF WriteUser, Submitting
<1>3. Turn'
  BY DEF WriteUser, TypeOK, Exclusive, Turn, Locals, Submitting, Opening
<1>4. Locals'
  BY DEF WriteUser, TypeOK, Exclusive, Turn, Locals, Submitting, Opening
<1>. QED  BY <1>1, <1>2, <1>3, <1>4

LEMMA ProviderUnavailableGuards ==
  ASSUME GuardInv, ~Racing, NEW c \in Clients, ProviderUnavailable(c)
  PROVE  GuardInv'
<1>. USE SessionAssumption DEF GuardInv, NoRun, Run, Prompt, Goto, Write, core, bridge, store, handlers, counters
<1>1. TypeOK'
  <2>1. history' \in Seq(Message)
    BY FrontFacts DEF ProviderUnavailable, TypeOK
  <2>2. pc' \in [Clients -> {"idle", "flush", "unscope"} \cup Submitting \cup Opening]
    BY DEF ProviderUnavailable, TypeOK
  <2>. QED  BY <2>1, <2>2 DEF ProviderUnavailable, TypeOK
<1>2. Exclusive'
  <2>1. pc[c] \in Submitting
    BY DEF ProviderUnavailable, Submitting
  <2>. QED  BY <2>1, SubmitEnds DEF ProviderUnavailable, Submitting
<1>3. Turn'
  BY DEF ProviderUnavailable, TypeOK, Exclusive, Turn, Locals, Submitting, Opening
<1>4. Locals'
  BY DEF ProviderUnavailable, TypeOK, Exclusive, Turn, Locals, Submitting, Opening
<1>. QED  BY <1>1, <1>2, <1>3, <1>4

LEMMA LaunchGuards ==
  ASSUME GuardInv, ~Racing, NEW c \in Clients, Launch(c)
  PROVE  GuardInv'
<1>. USE SessionAssumption DEF GuardInv, NoRun, Run, Prompt, Goto, Write, core, bridge, store, handlers, counters
<1>1. TypeOK'
  <2>1. /\ prompt[c] \in Prompt /\ held[c] \in Run \cup {NoRun} /\ session \in Nat \ {0}
        /\ history \in Seq(Message)
    BY DEF Launch, Locals, TypeOK, Submitting
  <2>2. [on |-> TRUE, run |-> held[c], session |-> session, copy |-> history, prompt |-> prompt[c]]
          \in [on : BOOLEAN, run : Run \cup {NoRun}, session : 0 .. session,
              copy : Seq(Message), prompt : 0 .. MaxPrompts]
    BY <2>1
  <2>3. pc' \in [Clients -> {"idle", "flush", "unscope"} \cup Submitting \cup Opening]
    BY DEF Launch, TypeOK
  <2>. QED  BY <2>1, <2>2, <2>3 DEF Launch, TypeOK
<1>2. Exclusive'
  <2>1. pc[c] \in Submitting
    BY DEF Launch, Submitting
  <2>. QED  BY <2>1, SubmitEnds DEF Launch, Submitting
<1>3. Turn'
  <2>1. ~engine.on /\ manager = "home" /\ running
    BY DEF Launch, Exclusive, Turn, Submitting
  <2>2. prompt[c] \in Prompt /\ held[c] \in {run, NoRun}
    BY DEF Launch, Locals, Submitting
  <2>3. /\ engine' = [on |-> TRUE, run |-> held[c], session |-> session,
                      copy |-> history, prompt |-> prompt[c]]
        /\ manager' = "engine" /\ running' = running /\ session' = session /\ run' = run
    BY <2>1 DEF Launch
  <2>. QED  BY <2>1, <2>2, <2>3 DEF Turn
<1>4. Locals'
  BY DEF Launch, TypeOK, Exclusive, Turn, Locals, Submitting, Opening
<1>. QED  BY <1>1, <1>2, <1>3, <1>4

LEMMA CancelGuards ==
  ASSUME GuardInv, ~Racing, NEW c \in Clients, Cancel(c)
  PROVE  GuardInv'
<1>. USE SessionAssumption DEF GuardInv, NoRun, Run, Prompt, Goto, Write, core, bridge, store, handlers, counters
<1>1. TypeOK'
  BY DEF Cancel, Free, TypeOK, Exclusive, Turn, Locals, Submitting, Opening
<1>2. Exclusive'
  BY DEF Cancel, Free, TypeOK, Exclusive, Turn, Locals, Submitting, Opening
<1>3. Turn'
  BY DEF Cancel, Free, TypeOK, Exclusive, Turn, Locals, Submitting, Opening
<1>4. Locals'
  BY DEF Cancel, Free, TypeOK, Exclusive, Turn, Locals, Submitting, Opening
<1>. QED  BY <1>1, <1>2, <1>3, <1>4

LEMMA NewSessionGuards ==
  ASSUME GuardInv, ~Racing, NEW c \in Clients, NewSession(c)
  PROVE  GuardInv'
<1>. USE SessionAssumption DEF GuardInv, NoRun, Run, Prompt, Goto, Write, core, bridge, store, handlers, counters
<1>1. TypeOK'
  BY DEF NewSession, Free, TypeOK, Exclusive, Turn, Locals, Submitting, Opening
<1>2. Exclusive'
  BY DEF NewSession, Free, TypeOK, Exclusive, Turn, Locals, Submitting, Opening
<1>3. Turn'
  BY DEF NewSession, Free, TypeOK, Exclusive, Turn, Locals, Submitting, Opening
<1>4. Locals'
  BY DEF NewSession, Free, TypeOK, Exclusive, Turn, Locals, Submitting, Opening
<1>. QED  BY <1>1, <1>2, <1>3, <1>4

LEMMA ResetSessionGuards ==
  ASSUME GuardInv, ~Racing, NEW c \in Clients, ResetSession(c)
  PROVE  GuardInv'
<1>. USE SessionAssumption DEF GuardInv, NoRun, Run, Prompt, Goto, Write, core, bridge, store, handlers, counters
<1>1. TypeOK'
  <2>1. pc' \in [Clients -> {"idle", "flush", "unscope"} \cup Submitting \cup Opening]
    BY DEF ResetSession, TypeOK
  <2>2. session' \in Nat \ {0} /\ 0 .. session \subseteq 0 .. session' /\ 1 .. session \subseteq 1 .. session'
    <3>1. session \in Nat \ {0} /\ (session' = session \/ session' = session + 1)
      BY DEF ResetSession, TypeOK
    <3>. QED  BY <3>1
  <2>3. history' = history \/ history' = <<>>
    BY DEF ResetSession
  <2>4. history' \in Seq(Message)
    BY <2>3, EmptySeq DEF TypeOK
  <2>5. run' \in Run \cup {NoRun}
    BY DEF ResetSession, TypeOK
  <2>6. closing' \in [Clients -> Run \cup {NoRun}]
    BY DEF ResetSession, TypeOK
  <2>7. engine' \in [on : BOOLEAN, run : Run \cup {NoRun}, session : 0 .. session',
                      copy : Seq(Message), prompt : 0 .. MaxPrompts]
    BY <2>2 DEF ResetSession, TypeOK
  <2>8. born' \in [Prompt -> 0 .. session'] /\ unstored' \subseteq 1 .. session' /\ scopes' \subseteq 1 .. session'
    BY <2>2 DEF ResetSession, TypeOK
  <2>. QED  BY <2>1, <2>2, <2>3, <2>4, <2>5, <2>6, <2>7, <2>8 DEF ResetSession, TypeOK
<1>2. Exclusive'
  <2>1. Goto(c, "idle") \/ Goto(c, "unscope")
    BY DEF ResetSession
  <2>2. pc[c] = "flush" /\ UNCHANGED <<running, engine>>
    BY DEF ResetSession
  <2>. QED  BY <2>1, <2>2, ResetMoves
<1>3. Turn'
  BY DEF ResetSession, TypeOK, Exclusive, Turn, Locals, Submitting, Opening
<1>4. Locals'
  <2>1. CASE running
    <3>1. /\ UNCHANGED <<core, held, prompt, prompts, runs, born>>
          /\ \A d \in Clients : pc'[d] = pc[d] \/ pc'[d] = "idle"
      BY <2>1 DEF ResetSession, TypeOK
    <3>. QED  BY <3>1 DEF Locals, Submitting, Opening
  <2>2. CASE ~running
    <3>1. \A d \in Clients : pc[d] \notin Submitting /\ pc[d] \notin Opening
      BY <2>2 DEF Exclusive, ResetSession, Opening
    <3>2. \A d \in Clients : pc'[d] \notin Submitting /\ pc'[d] \notin Opening
      BY <3>1 DEF ResetSession, TypeOK, Submitting, Opening
    <3>. QED  BY <3>2 DEF Locals, ResetSession, Submitting
  <2>. QED  BY <2>1, <2>2
<1>. QED  BY <1>1, <1>2, <1>3, <1>4

LEMMA ClearScopesGuards ==
  ASSUME GuardInv, ~Racing, NEW c \in Clients, ClearScopes(c)
  PROVE  GuardInv'
<1>. USE SessionAssumption DEF GuardInv, NoRun, Run, Prompt, Goto, Write, core, bridge, store, handlers, counters
<1>1. TypeOK'
  <2>1. closed' \subseteq Run /\ closing' \in [Clients -> Run \cup {NoRun}] /\ scopes' = {}
    BY DEF ClearScopes, TypeOK
  <2>2. pc' \in [Clients -> {"idle", "flush", "unscope"} \cup Submitting \cup Opening]
    BY DEF ClearScopes, TypeOK
  <2>. QED  BY <2>1, <2>2 DEF ClearScopes, TypeOK
<1>2. Exclusive'
  <2>1. pc[c] = "unscope" /\ Goto(c, "idle") /\ UNCHANGED <<running, engine>>
    BY DEF ClearScopes
  <2>. QED  BY <2>1, ResetMoves
<1>3. Turn'
  BY DEF ClearScopes, TypeOK, Exclusive, Turn, Locals, Submitting, Opening
<1>4. Locals'
  BY DEF ClearScopes, TypeOK, Exclusive, Turn, Locals, Submitting, Opening
<1>. QED  BY <1>1, <1>2, <1>3, <1>4

LEMMA LoadRunGuards ==
  ASSUME GuardInv, ~Racing, NEW c \in Clients, LoadRun(c)
  PROVE  GuardInv'
<1>. USE SessionAssumption DEF GuardInv, NoRun, Run, Prompt, Goto, Write, core, bridge, store, handlers, counters
<1>1. TypeOK'
  <2>1. held[c] \in Run
    BY DEF LoadRun, Locals, Opening
  <2>2. loaded' \in [Clients -> Seq(Message)]
    BY <2>1 DEF LoadRun, TypeOK
  <2>3. pc' \in [Clients -> {"idle", "flush", "unscope"} \cup Submitting \cup Opening]
    BY DEF LoadRun, TypeOK, Opening
  <2>. QED  BY <2>1, <2>2, <2>3 DEF LoadRun, TypeOK
<1>2. Exclusive'
  <2>1. pc[c] \in Opening /\ (Goto(c, "release"))
    BY DEF LoadRun, Opening
  <2>. QED  BY <2>1, OpeningMoves DEF LoadRun, Opening
<1>3. Turn'
  BY DEF LoadRun, TypeOK, Exclusive, Turn, Locals, Submitting, Opening
<1>4. Locals'
  <2>1. \A d \in Clients : d # c => pc[d] = "idle"
    BY DEF LoadRun, Exclusive, Opening
  <2>2. \A d \in Clients : d # c => pc'[d] = "idle"
    BY <2>1 DEF LoadRun, TypeOK
  <2>3. pc'[c] = "release" /\ held'[c] \in Run
    BY DEF LoadRun, Locals, Opening, TypeOK
  <2>4. runs' <= prompts'
    BY DEF LoadRun, Locals
  <2>. QED  BY <2>2, <2>3, <2>4 DEF Locals, Submitting, Opening
<1>. QED  BY <1>1, <1>2, <1>3, <1>4

LEMMA ReleaseOldGuards ==
  ASSUME GuardInv, ~Racing, NEW c \in Clients, ReleaseOld(c)
  PROVE  GuardInv'
<1>. USE SessionAssumption DEF GuardInv, NoRun, Run, Prompt, Goto, Write, core, bridge, store, handlers, counters
<1>1. TypeOK'
  <2>1. run' \in Run \cup {NoRun} /\ closing' \in [Clients -> Run \cup {NoRun}]
    BY DEF ReleaseOld, TypeOK
  <2>2. Goto(c, "reinstall") \/ Goto(c, "rescope")
    BY DEF ReleaseOld
  <2>3. pc' \in [Clients -> {"idle", "flush", "unscope"} \cup Submitting \cup Opening]
    BY <2>2 DEF TypeOK, Opening
  <2>. QED  BY <2>1, <2>2, <2>3 DEF ReleaseOld, TypeOK
<1>2. Exclusive'
  <2>1. pc[c] \in Opening /\ (Goto(c, "reinstall") \/ Goto(c, "rescope"))
    BY DEF ReleaseOld, Opening
  <2>. QED  BY <2>1, OpeningMoves DEF ReleaseOld, Opening
<1>3. Turn'
  <2>1. ~running /\ ~engine.on
    BY DEF ReleaseOld, Exclusive, Opening, Turn
  <2>. QED  BY <2>1 DEF ReleaseOld, Turn
<1>4. Locals'
  <2>1. \A d \in Clients : d # c => pc[d] = "idle"
    BY DEF ReleaseOld, Exclusive, Opening
  <2>2. \A d \in Clients : d # c => pc'[d] = "idle"
    BY <2>1 DEF ReleaseOld, TypeOK
  <2>3. pc'[c] \in {"reinstall", "rescope"} /\ held'[c] \in Run
    BY DEF ReleaseOld, Locals, Opening, TypeOK
  <2>4. runs' <= prompts'
    BY DEF ReleaseOld, Locals
  <2>. QED  BY <2>2, <2>3, <2>4 DEF Locals, Submitting, Opening
<1>. QED  BY <1>1, <1>2, <1>3, <1>4

LEMMA RescopeGuards ==
  ASSUME GuardInv, ~Racing, NEW c \in Clients, Rescope(c)
  PROVE  GuardInv'
<1>. USE SessionAssumption DEF GuardInv, NoRun, Run, Prompt, Goto, Write, core, bridge, store, handlers, counters
<1>1. TypeOK'
  <2>1. closed' \subseteq Run /\ scopes' = {}
    BY DEF Rescope, TypeOK
  <2>2. pc' \in [Clients -> {"idle", "flush", "unscope"} \cup Submitting \cup Opening]
    BY DEF Rescope, TypeOK, Opening
  <2>. QED  BY <2>1, <2>2 DEF Rescope, TypeOK
<1>2. Exclusive'
  <2>1. pc[c] \in Opening /\ (Goto(c, "install"))
    BY DEF Rescope, Opening
  <2>. QED  BY <2>1, OpeningMoves DEF Rescope, Opening
<1>3. Turn'
  BY DEF Rescope, TypeOK, Exclusive, Turn, Locals, Submitting, Opening
<1>4. Locals'
  <2>1. \A d \in Clients : d # c => pc[d] = "idle"
    BY DEF Rescope, Exclusive, Opening
  <2>2. \A d \in Clients : d # c => pc'[d] = "idle"
    BY <2>1 DEF Rescope, TypeOK
  <2>3. pc'[c] = "install" /\ held'[c] \in Run
    BY DEF Rescope, Locals, Opening, TypeOK
  <2>4. runs' <= prompts'
    BY DEF Rescope, Locals
  <2>. QED  BY <2>2, <2>3, <2>4 DEF Locals, Submitting, Opening
<1>. QED  BY <1>1, <1>2, <1>3, <1>4

LEMMA InstallGuards ==
  ASSUME GuardInv, ~Racing, NEW c \in Clients, Install(c)
  PROVE  GuardInv'
<1>. USE SessionAssumption DEF GuardInv, NoRun, Run, Prompt, Goto, Write, core, bridge, store, handlers, counters
<1>1. TypeOK'
  <2>1. held[c] \in Run
    BY DEF Install, Locals, Opening
  <2>2. session' \in Nat \ {0} /\ 0 .. session \subseteq 0 .. session' /\ 1 .. session \subseteq 1 .. session'
    <3>1. session \in Nat \ {0} /\ (session' = session \/ session' = session + 1)
      BY DEF Install, TypeOK
    <3>. QED  BY <3>1
  <2>3. history' \in Seq(Message) /\ run' \in Run \cup {NoRun} /\ closed' \subseteq Run
        /\ closing' \in [Clients -> Run \cup {NoRun}]
    BY <2>1 DEF Install, TypeOK
  <2>4. engine' \in [on : BOOLEAN, run : Run \cup {NoRun}, session : 0 .. session',
                      copy : Seq(Message), prompt : 0 .. MaxPrompts]
    BY <2>2 DEF Install, TypeOK
  <2>5. born' \in [Prompt -> 0 .. session'] /\ unstored' \subseteq 1 .. session' /\ scopes' \subseteq 1 .. session'
    BY <2>2 DEF Install, TypeOK
  <2>6. pc' \in [Clients -> {"idle", "flush", "unscope"} \cup Submitting \cup Opening]
    BY DEF Install, TypeOK
  <2>. QED  BY <2>1, <2>2, <2>3, <2>4, <2>5, <2>6 DEF Install, TypeOK
<1>2. Exclusive'
  <2>1. pc[c] \in Opening /\ (Goto(c, "idle"))
    BY DEF Install, Opening
  <2>. QED  BY <2>1, OpeningMoves DEF Install, Opening
<1>3. Turn'
  <2>1. ~running /\ ~engine.on
    BY DEF Install, Exclusive, Opening, Turn
  <2>. QED  BY <2>1 DEF Install, Turn
<1>4. Locals'
  <2>1. \A d \in Clients : d # c => pc[d] = "idle"
    BY DEF Install, Exclusive, Opening
  <2>2. \A d \in Clients : d # c => pc'[d] = "idle"
    BY <2>1 DEF Install, TypeOK
  <2>3. pc'[c] = "idle"
    BY DEF Install, Locals, Opening, TypeOK
  <2>4. runs' <= prompts'
    BY DEF Install, Locals
  <2>. QED  BY <2>2, <2>3, <2>4 DEF Locals, Submitting, Opening
<1>. QED  BY <1>1, <1>2, <1>3, <1>4

LEMMA ConnectGuards ==
  ASSUME GuardInv, ~Racing, NEW c \in Clients, Connect(c)
  PROVE  GuardInv'
<1>. USE SessionAssumption DEF GuardInv, NoRun, Run, Prompt, Goto, Write, core, bridge, store, handlers, counters
<1>1. TypeOK'
  BY DEF Connect, TypeOK, Exclusive, Turn, Locals, Submitting, Opening
<1>2. Exclusive'
  BY DEF Connect, TypeOK, Exclusive, Turn, Locals, Submitting, Opening
<1>3. Turn'
  BY DEF Connect, TypeOK, Exclusive, Turn, Locals, Submitting, Opening
<1>4. Locals'
  BY DEF Connect, TypeOK, Exclusive, Turn, Locals, Submitting, Opening
<1>. QED  BY <1>1, <1>2, <1>3, <1>4

LEMMA DisconnectGuards ==
  ASSUME GuardInv, ~Racing, NEW c \in Clients, Disconnect(c)
  PROVE  GuardInv'
<1>. USE SessionAssumption DEF GuardInv, NoRun, Run, Prompt, Goto, Write, core, bridge, store, handlers, counters
<1>1. TypeOK'
  BY DEF Disconnect, TypeOK, Exclusive, Turn, Locals, Submitting, Opening
<1>2. Exclusive'
  BY DEF Disconnect, TypeOK, Exclusive, Turn, Locals, Submitting, Opening
<1>3. Turn'
  BY DEF Disconnect, TypeOK, Exclusive, Turn, Locals, Submitting, Opening
<1>4. Locals'
  BY DEF Disconnect, TypeOK, Exclusive, Turn, Locals, Submitting, Opening
<1>. QED  BY <1>1, <1>2, <1>3, <1>4

LEMMA RespondGuards ==
  ASSUME GuardInv, ~Racing, NEW c \in Clients, NEW choice \in {"approve", "approve_all", "deny"}, Respond(c, choice)
  PROVE  GuardInv'
<1>. USE SessionAssumption DEF GuardInv, NoRun, Run, Prompt, Goto, Write, core, bridge, store, handlers, counters
<1>1. TypeOK'
  BY DEF Respond, Free, TypeOK, Exclusive, Turn, Locals, Submitting, Opening
<1>2. Exclusive'
  BY DEF Respond, Free, TypeOK, Exclusive, Turn, Locals, Submitting, Opening
<1>3. Turn'
  BY DEF Respond, Free, TypeOK, Exclusive, Turn, Locals, Submitting, Opening
<1>4. Locals'
  BY DEF Respond, Free, TypeOK, Exclusive, Turn, Locals, Submitting, Opening
<1>. QED  BY <1>1, <1>2, <1>3, <1>4

LEMMA OpenSessionGuards ==
  ASSUME GuardInv, ~Racing, NEW c \in Clients, NEW r \in Run, OpenSession(c, r)
  PROVE  GuardInv'
<1>. USE SessionAssumption DEF GuardInv, NoRun, Run, Prompt, Goto, Write, core, bridge, store, handlers, counters
<1>1. TypeOK'
  BY DEF OpenSession, Free, TypeOK, Exclusive, Turn, Locals, Submitting, Opening
<1>2. Exclusive'
  <2>1. ~running' /\ \A d \in Clients : pc[d] = "idle"
    BY DEF OpenSession
  <2>2. \A d \in Clients : pc'[d] = IF d = c THEN "load" ELSE "idle"
    BY <2>1 DEF OpenSession, TypeOK
  <2>. QED  BY <2>1, <2>2 DEF Exclusive, Submitting, Opening
<1>3. Turn'
  BY DEF OpenSession, Free, TypeOK, Exclusive, Turn, Locals, Submitting, Opening
<1>4. Locals'
  BY DEF OpenSession, Free, TypeOK, Exclusive, Turn, Locals, Submitting, Opening
<1>. QED  BY <1>1, <1>2, <1>3, <1>4

LEMMA EngineReplyGuards ==
  ASSUME GuardInv, ~Racing, EngineReply
  PROVE  GuardInv'
<1>. USE SessionAssumption DEF GuardInv, NoRun, Run, Prompt, Goto, Write, core, bridge, store, handlers, counters
<1>1. TypeOK'
  <2>1. /\ Agent(engine.prompt) \in Message /\ engine.copy \in Seq(Message)
        /\ engine.run \in Run \cup {NoRun}
    BY MessageFacts DEF EngineReply, Turn, TypeOK
  <2>2. Append(engine.copy, Agent(engine.prompt)) \in Seq(Message)
    BY <2>1, AppendFacts
  <2>3. engine' \in [on : BOOLEAN, run : Run \cup {NoRun}, session : 0 .. session,
                     copy : Seq(Message), prompt : 0 .. MaxPrompts]
    BY <2>2 DEF EngineReply, TypeOK
  <2>4. logs' \in [Run -> Seq(Message)]
    BY <2>1, AppendFacts DEF EngineReply, TypeOK
  <2>. QED  BY <2>1, <2>2, <2>3, <2>4 DEF EngineReply, TypeOK
<1>2. Exclusive'
  BY DEF EngineReply, TypeOK, Exclusive, Turn, Locals, Submitting, Opening
<1>3. Turn'
  BY DEF EngineReply, TypeOK, Exclusive, Turn, Locals, Submitting, Opening
<1>4. Locals'
  BY DEF EngineReply, TypeOK, Exclusive, Turn, Locals, Submitting, Opening
<1>. QED  BY <1>1, <1>2, <1>3, <1>4

LEMMA EngineEndsGuards ==
  ASSUME GuardInv, ~Racing, EngineEnds
  PROVE  GuardInv'
<1>. USE SessionAssumption DEF GuardInv, NoRun, Run, Prompt, Goto, Write, core, bridge, store, handlers, counters
<1>1. TypeOK'
  <2>1. history' \in Seq(Message)
    BY DEF EngineEnds, TypeOK
  <2>2. engine' \in [on : BOOLEAN, run : Run \cup {NoRun}, session : 0 .. session,
                     copy : Seq(Message), prompt : 0 .. MaxPrompts]
    BY DEF EngineEnds, NoTurn, TypeOK
  <2>. QED  BY <2>1, <2>2 DEF EngineEnds, NoTurn, TypeOK
<1>2. Exclusive'
  BY DEF EngineEnds, NoTurn, TypeOK, Exclusive, Turn, Locals, Submitting, Opening
<1>3. Turn'
  BY DEF EngineEnds, NoTurn, TypeOK, Exclusive, Turn, Locals, Submitting, Opening
<1>4. Locals'
  BY DEF EngineEnds, NoTurn, TypeOK, Exclusive, Turn, Locals, Submitting, Opening
<1>. QED  BY <1>1, <1>2, <1>3, <1>4

LEMMA DecideGuards ==
  ASSUME GuardInv, ~Racing, Decide
  PROVE  GuardInv'
<1>. USE SessionAssumption DEF GuardInv, NoRun, Run, Prompt, Goto, Write, core, bridge, store, handlers, counters
<1>1. TypeOK'
  <2>1. asks' \in 0 .. MaxAsks
    BY DEF Decide, TypeOK
  <2>2. approval' \in {"none", "asked"}
    BY DEF Decide
  <2>. QED  BY <2>1, <2>2 DEF Decide, TypeOK
<1>2. Exclusive'
  BY DEF Decide, TypeOK, Exclusive, Turn, Locals, Submitting, Opening
<1>3. Turn'
  BY DEF Decide, TypeOK, Exclusive, Turn, Locals, Submitting, Opening
<1>4. Locals'
  BY DEF Decide, TypeOK, Exclusive, Turn, Locals, Submitting, Opening
<1>. QED  BY <1>1, <1>2, <1>3, <1>4

LEMMA TakeAnswerGuards ==
  ASSUME GuardInv, ~Racing, TakeAnswer
  PROVE  GuardInv'
<1>. USE SessionAssumption DEF GuardInv, NoRun, Run, Prompt, Goto, Write, core, bridge, store, handlers, counters
<1>1. TypeOK'
  <2>1. engine.on /\ engine.session = session
    BY DEF TakeAnswer, Turn
  <2>2. scopes' \subseteq 1 .. session
    BY <2>1 DEF TakeAnswer, TypeOK
  <2>. QED  BY <2>1, <2>2 DEF TakeAnswer, TypeOK
<1>2. Exclusive'
  BY DEF TakeAnswer, TypeOK, Exclusive, Turn, Locals, Submitting, Opening
<1>3. Turn'
  BY DEF TakeAnswer, TypeOK, Exclusive, Turn, Locals, Submitting, Opening
<1>4. Locals'
  BY DEF TakeAnswer, TypeOK, Exclusive, Turn, Locals, Submitting, Opening
<1>. QED  BY <1>1, <1>2, <1>3, <1>4

LEMMA GuardStep ==
  ASSUME GuardInv, ~Racing, [Next]_vars
  PROVE  GuardInv'
<1>1. CASE EngineStep \/ Decide
  BY <1>1, EngineReplyGuards, EngineEndsGuards, TakeAnswerGuards, DecideGuards DEF EngineStep
<1>2. ASSUME NEW c \in Clients, HandlerStep(c) PROVE GuardInv'
  BY <1>2, OpenSessionRunGuards, AdoptRunGuards, WriteUserGuards, ProviderUnavailableGuards,
     LaunchGuards, ResetSessionGuards, ClearScopesGuards, LoadRunGuards, ReleaseOldGuards,
     RescopeGuards, InstallGuards DEF HandlerStep
<1>3. ASSUME NEW c \in Clients, ClientSends(c) PROVE GuardInv'
  BY <1>3, SubmitGuards, CancelGuards, NewSessionGuards, RespondGuards, OpenSessionGuards,
     ConnectGuards, DisconnectGuards DEF ClientSends
<1>4. CASE UNCHANGED vars
  BY <1>4 DEF GuardInv, TypeOK, Exclusive, Turn, Locals, vars, core, bridge, store, handlers,
     counters
<1>. QED  BY <1>1, <1>2, <1>3, <1>4 DEF Next

-----------------------------------------------------------------------------
(* The approval scopes.                                                    *)

\* A step that changes neither scopes nor session, ends no reset and is not
\* about to install.
LEMMA ScopesStay ==
  ASSUME ScopeInv, UNCHANGED <<scopes, session>>,
         \A c \in Clients : /\ pc[c] = "unscope" => pc'[c] = "unscope"
                            /\ pc'[c] = "install" => pc[c] = "install"
  PROVE  ScopeInv'
BY DEF ScopeInv, ScopesOfThisSession

LEMMA ScopeStep ==
  ASSUME GuardInv, ScopeInv, ~Racing, [Next]_vars
  PROVE  ScopeInv'
<1>. USE DEF GuardInv, core, bridge, store, handlers, counters, Goto
<1>1. CASE TakeAnswer
  <2>1. engine.on /\ running /\ engine.session = session
    BY <1>1 DEF TakeAnswer, Turn
  <2>2. \A c \in Clients : pc[c] # "install"
    BY <2>1 DEF Exclusive, Opening
  <2>3. scopes' \subseteq scopes \cup {session} /\ pc' = pc /\ session' = session
    BY <1>1, <2>1 DEF TakeAnswer
  <2>. QED  BY <2>2, <2>3 DEF ScopeInv, ScopesOfThisSession
<1>2. ASSUME NEW c \in Clients, ResetSession(c) PROVE ScopeInv'
  <2>1. CASE running
    BY <1>2, <2>1, ScopesStay DEF ResetSession, TypeOK
  <2>2. CASE ~running
    <3>1. pc'[c] = "unscope" /\ \A d \in Clients : pc'[d] = "install" => pc[d] = "install"
      BY <1>2, <2>2 DEF ResetSession, TypeOK
    <3>. QED  BY <1>2, <3>1 DEF ResetSession, ScopeInv, ScopesOfThisSession
  <2>. QED  BY <2>1, <2>2
<1>3. ASSUME NEW c \in Clients, ClearScopes(c) \/ Rescope(c) PROVE ScopeInv'
  BY <1>3 DEF ClearScopes, Rescope, ScopeInv, ScopesOfThisSession
<1>4. ASSUME NEW c \in Clients, Install(c) PROVE ScopeInv'
  <2>1. /\ \A d \in Clients : d # c => pc[d] = "idle"
        /\ \A d \in Clients : pc'[d] = "idle"
    BY <1>4 DEF Install, Exclusive, Opening, TypeOK
  <2>2. pc[c] # "unscope"
    BY <1>4 DEF Install
  <2>3. CASE pc[c] = "install"
    BY <1>4, <2>1, <2>3 DEF Install, ScopeInv, ScopesOfThisSession
  <2>4. CASE pc[c] # "install"
    BY <1>4, <2>1, <2>2, <2>4 DEF Install, ScopeInv, ScopesOfThisSession
  <2>. QED  BY <2>3, <2>4
<1>5. ASSUME NEW c \in Clients,
             \/ OpenSessionRun(c) \/ AdoptRun(c) \/ WriteUser(c) \/ ProviderUnavailable(c)
             \/ Launch(c) \/ LoadRun(c) \/ ReleaseOld(c)
      PROVE  ScopeInv'
  <2>1. /\ UNCHANGED <<scopes, session>> /\ pc[c] # "unscope"
        /\ \E l \in {"write", "adopt", "launch", "idle", "release", "rescope", "reinstall"} : Goto(c, l)
    BY <1>5 DEF OpenSessionRun, AdoptRun, WriteUser, ProviderUnavailable, Launch, LoadRun, ReleaseOld
  <2>. QED  BY <2>1, ScopesStay DEF TypeOK
<1>6. ASSUME NEW c \in Clients,
             \/ Submit(c) \/ Cancel(c) \/ NewSession(c) \/ Connect(c) \/ Disconnect(c)
             \/ \E choice \in {"approve", "approve_all", "deny"} : Respond(c, choice)
             \/ \E r \in Run : OpenSession(c, r)
      PROVE  ScopeInv'
  <2>1. /\ UNCHANGED <<scopes, session>>
        /\ \/ pc' = pc
           \/ pc[c] = "idle" /\ \E l \in {"begin", "flush", "load"} : Goto(c, l)
    BY <1>6 DEF Submit, Cancel, NewSession, Connect, Disconnect, Respond, OpenSession, Free
  <2>. QED  BY <2>1, ScopesStay DEF TypeOK
<1>7. CASE EngineReply \/ EngineEnds \/ Decide \/ UNCHANGED vars
  BY <1>7, ScopesStay DEF EngineReply, EngineEnds, Decide, vars
<1>. QED  BY <1>1, <1>2, <1>3, <1>4, <1>5, <1>6, <1>7 DEF Next, EngineStep, HandlerStep, ClientSends

-----------------------------------------------------------------------------
(* The closed runs.                                                        *)

LEMMA QuietStays ==
  ASSUME QuietInv, UNCHANGED <<run, runs, closed, closing, held>>,
         \A c \in Clients : \/ pc'[c] = pc[c]
                            \/ /\ pc[c] \notin {"unscope", "rescope", "install"}
                               /\ pc'[c] # "adopt" /\ (pc'[c] \in Opening => pc[c] \in Opening)
  PROVE  QuietInv'
BY DEF QuietInv

LEMMA QuietStep ==
  ASSUME GuardInv, QuietInv, ~Racing, [Next]_vars
  PROVE  QuietInv'
<1>. USE DEF GuardInv, core, bridge, store, handlers, counters, Goto, NoRun
<1>1. ASSUME NEW c \in Clients, OpenSessionRun(c) PROVE QuietInv'
  <2>1. /\ \A d \in Clients : d # c => pc[d] \notin Submitting /\ pc[d] \notin Opening
        /\ pc[c] = "begin" /\ runs \in Nat
    BY <1>1 DEF OpenSessionRun, Exclusive, TypeOK, Submitting, Opening
  <2>2. /\ \A d \in Clients : d # c => pc'[d] = pc[d] /\ held'[d] = held[d]
        /\ UNCHANGED <<run, closed, closing>>
    BY <1>1 DEF OpenSessionRun, TypeOK
  <2>3. \/ runs' = runs /\ pc'[c] = "write"
        \/ runs' = runs + 1 /\ held'[c] = runs + 1 /\ pc'[c] = "adopt"
    BY <1>1 DEF OpenSessionRun, TypeOK
  <2>4. closing \in [Clients -> Nat] /\ run \in Nat /\ held \in [Clients -> Nat]
    BY DEF TypeOK, Run
  <2>5. closed \subseteq 1 .. runs' /\ run <= runs'
    BY <2>1, <2>3, <2>4 DEF QuietInv
  <2>6. \A d \in Clients : closing[d] <= runs /\ closing[d] # runs + 1
    BY <2>1, <2>4 DEF QuietInv
  <2>7. runs + 1 \notin closed
    BY <2>1 DEF QuietInv
  <2>. QED  BY <2>1, <2>2, <2>3, <2>4, <2>5, <2>6, <2>7 DEF QuietInv, Submitting, Opening
<1>2. ASSUME NEW c \in Clients, AdoptRun(c) PROVE QuietInv'
  <2>1. /\ \A d \in Clients : d # c => pc[d] \notin Submitting /\ pc[d] \notin Opening
        /\ pc[c] = "adopt" /\ held[c] \in Run
    BY <1>2 DEF AdoptRun, Exclusive, Locals, Submitting, Opening
  <2>2. \A d \in Clients : pc'[d] = IF d = c THEN "write" ELSE pc[d]
    BY <1>2 DEF AdoptRun, TypeOK
  <2>. QED  BY <1>2, <2>1, <2>2 DEF AdoptRun, QuietInv, Submitting, Opening
<1>3. ASSUME NEW c \in Clients, ResetSession(c) PROVE QuietInv'
  <2>1. CASE running
    <3>1. \A d \in Clients : pc'[d] = IF d = c THEN "idle" ELSE pc[d]
      BY <1>3, <2>1 DEF ResetSession, TypeOK
    <3>2. pc[c] = "flush" /\ UNCHANGED <<run, runs, closed, closing, held>>
      BY <1>3, <2>1 DEF ResetSession
    <3>. QED  BY <3>1, <3>2, QuietStays DEF Opening
  <2>2. CASE ~running
    <3>1. \A d \in Clients : pc[d] \notin Submitting /\ pc[d] \notin Opening
      BY <1>3, <2>2 DEF ResetSession, Exclusive, Opening
    <3>2. /\ \A d \in Clients : pc'[d] = IF d = c THEN "unscope" ELSE pc[d]
          /\ \A d \in Clients : closing'[d] = IF d = c THEN run ELSE closing[d]
          /\ run' = 0 /\ UNCHANGED <<runs, closed, held>> /\ pc[c] = "flush"
      BY <1>3, <2>2 DEF ResetSession, TypeOK
    <3>3. runs \in Nat
      BY DEF TypeOK
    <3>. QED  BY <3>1, <3>2, <3>3 DEF QuietInv, Submitting, Opening
  <2>. QED  BY <2>1, <2>2
<1>4. ASSUME NEW c \in Clients, ClearScopes(c) PROVE QuietInv'
  <2>1. \A d \in Clients : pc[d] \notin Opening
    BY <1>4 DEF ClearScopes, Exclusive, Opening
  <2>2. /\ \A d \in Clients : pc'[d] = IF d = c THEN "idle" ELSE pc[d]
        /\ \A d \in Clients : closing'[d] = IF d = c THEN 0 ELSE closing[d]
        /\ closed' = closed \cup ({closing[c]} \ {0})
        /\ UNCHANGED <<run, runs, held>> /\ pc[c] = "unscope"
    BY <1>4 DEF ClearScopes, TypeOK
  <2>3. closing \in [Clients -> Nat] /\ runs \in Nat
    BY DEF TypeOK, Run
  <2>4. closing[c] # 0 => closing[c] \in 1 .. runs /\ closing[c] # run
    <3>1. closing[c] # 0 => closing[c] # run /\ closing[c] <= runs
      BY DEF QuietInv
    <3>2. closing[c] \in Nat /\ runs \in Nat
      BY <2>3
    <3>. QED  BY <3>1, <3>2
  <2>5. closed \subseteq 1 .. runs /\ run \notin closed
    BY DEF QuietInv
  <2>6. closed' \subseteq 1 .. runs /\ run \notin closed' /\ 0 \notin closed'
    <3>1. closed' = closed \cup ({closing[c]} \ {0}) /\ run' = run
      BY <2>2
    <3>2. \A x \in {closing[c]} \ {0} : x \in 1 .. runs /\ x # run
      BY <2>4
    <3>3. closed' \subseteq 1 .. runs
      BY <3>1, <3>2, <2>5
    <3>4. run \notin closed' /\ 0 \notin closed'
      BY <3>1, <3>2, <2>5
    <3>. QED  BY <3>3, <3>4
  <2>. QED  BY <2>1, <2>2, <2>3, <2>6 DEF QuietInv, Opening
<1>5. ASSUME NEW c \in Clients, NEW r \in Run, OpenSession(c, r) PROVE QuietInv'
  <2>1. /\ \A d \in Clients : pc[d] = "idle" /\ pc'[d] = IF d = c THEN "load" ELSE "idle"
        /\ held'[c] = r /\ r <= runs
        /\ UNCHANGED <<run, runs, closed, closing>>
    BY <1>5 DEF OpenSession, TypeOK
  <2>. QED  BY <2>1 DEF QuietInv, Opening
<1>6. ASSUME NEW c \in Clients, ReleaseOld(c) PROVE QuietInv'
  <2>1. \A d \in Clients : d # c => pc[d] = "idle" /\ pc'[d] = "idle"
    BY <1>6 DEF ReleaseOld, Exclusive, Opening, TypeOK
  <2>2. pc[c] = "release" /\ UNCHANGED <<runs, closed, held>> /\ runs \in Nat
    BY <1>6 DEF ReleaseOld, TypeOK
  <2>3. CASE run = held[c]
    BY <1>6, <2>1, <2>2, <2>3 DEF ReleaseOld, QuietInv, Opening, TypeOK
  <2>4. CASE run # held[c]
    <3>1. /\ run' = 0 /\ pc'[c] = "rescope"
          /\ \A d \in Clients : closing'[d] = IF d = c THEN run ELSE closing[d]
      BY <1>6, <2>4 DEF ReleaseOld, TypeOK
    <3>. QED  BY <2>1, <2>2, <3>1 DEF QuietInv, Opening
  <2>. QED  BY <2>3, <2>4
<1>7. ASSUME NEW c \in Clients, Rescope(c) PROVE QuietInv'
  <2>1. \A d \in Clients : d # c => pc[d] = "idle" /\ pc'[d] = "idle"
    BY <1>7 DEF Rescope, Exclusive, Opening, TypeOK
  <2>2. /\ pc[c] = "rescope" /\ pc'[c] = "install"
        /\ closed' = closed \cup ({closing[c]} \ {0})
        /\ UNCHANGED <<run, runs, closing, held>>
    BY <1>7 DEF Rescope, TypeOK
  <2>3. closing \in [Clients -> Nat] /\ runs \in Nat
    BY DEF TypeOK, Run
  <2>4. closing[c] # 0 => closing[c] \in 1 .. runs /\ closing[c] # run
    <3>1. closing[c] # 0 => closing[c] # run /\ closing[c] <= runs
      BY DEF QuietInv
    <3>2. closing[c] \in Nat /\ runs \in Nat
      BY <2>3
    <3>. QED  BY <3>1, <3>2
  <2>5. closed \subseteq 1 .. runs /\ run \notin closed
    BY DEF QuietInv
  <2>6. closed' \subseteq 1 .. runs /\ run \notin closed' /\ 0 \notin closed'
    <3>1. closed' = closed \cup ({closing[c]} \ {0}) /\ run' = run
      BY <2>2
    <3>2. \A x \in {closing[c]} \ {0} : x \in 1 .. runs /\ x # run
      BY <2>4
    <3>3. closed' \subseteq 1 .. runs
      BY <3>1, <3>2, <2>5
    <3>4. run \notin closed' /\ 0 \notin closed'
      BY <3>1, <3>2, <2>5
    <3>. QED  BY <3>3, <3>4
  <2>. QED  BY <2>1, <2>2, <2>6 DEF QuietInv, Opening
<1>8. ASSUME NEW c \in Clients, Install(c) PROVE QuietInv'
  <2>1. \A d \in Clients : (d # c => pc[d] = "idle") /\ pc'[d] = "idle"
    BY <1>8 DEF Install, Exclusive, Opening, TypeOK
  <2>2. /\ \A d \in Clients : closing'[d] = 0
        /\ run' = held[c] /\ closed' = closed \ {held[c]} /\ runs' = runs
    BY <1>8, <2>1 DEF Install, QuietInv, TypeOK
  <2>3. held[c] <= runs
    BY <1>8 DEF Install, QuietInv, Opening
  <2>. QED  BY <2>1, <2>2, <2>3 DEF QuietInv, Opening
<1>9. ASSUME NEW c \in Clients,
             \/ WriteUser(c) \/ ProviderUnavailable(c) \/ Launch(c) \/ LoadRun(c)
             \/ Submit(c) \/ Cancel(c) \/ NewSession(c) \/ Connect(c) \/ Disconnect(c)
             \/ \E choice \in {"approve", "approve_all", "deny"} : Respond(c, choice)
      PROVE  QuietInv'
  <2>1. /\ UNCHANGED <<run, runs, closed, closing, held>>
        /\ \/ pc' = pc
           \/ pc[c] \in {"write", "launch", "idle"} /\ \E l \in {"launch", "idle", "begin", "flush"} : Goto(c, l)
           \/ pc[c] = "load" /\ Goto(c, "release")
    BY <1>9 DEF WriteUser, ProviderUnavailable, Launch, LoadRun, Submit, Cancel, NewSession,
       Connect, Disconnect, Respond, Free
  <2>. QED  BY <2>1, QuietStays DEF TypeOK, Opening
<1>10. CASE EngineReply \/ EngineEnds \/ TakeAnswer \/ Decide \/ UNCHANGED vars
  BY <1>10, QuietStays DEF EngineReply, EngineEnds, TakeAnswer, Decide, vars
<1>. QED  BY <1>1, <1>2, <1>3, <1>4, <1>5, <1>6, <1>7, <1>8, <1>9, <1>10
          DEF Next, EngineStep, HandlerStep, ClientSends

\* Only the current run is written to, and it is not closed.
LEMMA QuietWrites ==
  ASSUME GuardInv, QuietInv, [Next]_vars
  PROVE  [\A r \in closed : logs'[r] = logs[r]]_logs
<1>. USE DEF GuardInv, core, bridge, store, handlers, counters
<1>1. run \notin closed /\ NoRun \notin closed
  BY DEF QuietInv
<1>2. logs \in [Run -> Seq(Message)]
  BY DEF TypeOK
<1>3. ASSUME NEW q \in {run, NoRun}, NEW m, Write(q, m), NEW r \in closed
      PROVE  logs'[r] = logs[r]
  BY <1>1, <1>2, <1>3 DEF Write
<1>4. ASSUME NEW c \in Clients, WriteUser(c), NEW r \in closed
      PROVE  logs'[r] = logs[r]
  <2>1. held[c] \in {run, NoRun}
    BY <1>4 DEF WriteUser, Locals
  <2>2. Write(held[c], User(prompt[c]))
    BY <1>4 DEF WriteUser
  <2>. QED  BY <2>1, <2>2, <1>3
<1>5. ASSUME EngineReply, NEW r \in closed
      PROVE  logs'[r] = logs[r]
  <2>1. engine.run \in {run, NoRun}
    BY <1>5 DEF EngineReply, Turn
  <2>2. Write(engine.run, Agent(engine.prompt))
    BY <1>5 DEF EngineReply
  <2>. QED  BY <2>1, <2>2, <1>3
<1>6. CASE EngineEnds \/ TakeAnswer \/ Decide \/ UNCHANGED vars
  BY <1>6 DEF EngineEnds, TakeAnswer, Decide, vars
<1>7. ASSUME NEW c \in Clients, ClientSends(c)
      PROVE  UNCHANGED logs
  BY <1>7 DEF ClientSends, Submit, Cancel, NewSession, Respond, OpenSession, Connect, Disconnect
<1>8. ASSUME NEW c \in Clients, HandlerStep(c), ~WriteUser(c)
      PROVE  UNCHANGED logs
  BY <1>8 DEF HandlerStep, OpenSessionRun, AdoptRun, ProviderUnavailable, Launch, ResetSession,
     ClearScopes, LoadRun, ReleaseOld, Rescope, Install
<1>. QED  BY <1>4, <1>5, <1>6, <1>7, <1>8 DEF Next, EngineStep

-----------------------------------------------------------------------------
(* The stored messages.                                                    *)

LEMMA StoredStays ==
  ASSUME StoredInv, UNCHANGED <<history, session, run, logs, engine, prompt, held, loaded, unstored>>,
         \A c \in Clients :
            pc'[c] = pc[c] \/ {pc[c], pc'[c]} \subseteq {"idle", "flush", "unscope", "load"}
  PROVE  StoredInv'
<1>1. HistoryStored'
  BY DEF StoredInv, HistoryStored, Stored
<1>. QED  BY <1>1 DEF StoredInv

LEMMA StoredStep ==
  ASSUME GuardInv, StoredInv, ~Racing, [Next]_vars
  PROVE  StoredInv'
<1>. USE DEF GuardInv, NoRun, core, bridge, store, handlers, counters, Goto
<1>1. ASSUME NEW c \in Clients, Submit(c) PROVE StoredInv'
  <2>1. ToSet(history') = ToSet(history) \cup {User(prompts + 1)}
    <3>1. prompts + 1 \in Prompt
      <4>1. prompts \in 0 .. MaxPrompts /\ prompts < MaxPrompts /\ MaxPrompts \in Nat
        BY <1>1, SessionAssumption DEF Submit, TypeOK
      <4>. QED  BY <4>1 DEF Prompt
    <3>. QED  BY <1>1, <3>1, MessageFacts, AppendFacts DEF Submit, TypeOK
  <2>2. /\ \A d \in Clients : pc'[d] = IF d = c THEN "begin" ELSE pc[d]
        /\ \A d \in Clients : prompt'[d] = IF d = c THEN prompts + 1 ELSE prompt[d]
        /\ UNCHANGED <<session, run, logs, engine, held, loaded, unstored>>
        /\ pc[c] = "idle" /\ ~running
    BY <1>1 DEF Submit, Free, TypeOK
  <2>3. HistoryStored'
    BY <2>1, <2>2 DEF StoredInv, HistoryStored, Stored
  <2>. QED  BY <2>2, <2>3 DEF StoredInv
<1>2. ASSUME NEW c \in Clients, OpenSessionRun(c) PROVE StoredInv'
  <2>1. /\ pc[c] = "begin" /\ pc'[c] \in {"adopt", "write"}
        /\ \A d \in Clients : d # c => pc'[d] = pc[d] /\ held'[d] = held[d]
        /\ UNCHANGED <<history, session, run, logs, engine, prompt, loaded>>
        /\ unstored \subseteq unstored' /\ ~engine.on
    BY <1>2 DEF OpenSessionRun, TypeOK, Exclusive, Submitting
  <2>2. pc'[c] = "write" /\ held'[c] = NoRun => session \in unstored'
    <3>1. born[prompt[c]] = session
      BY <2>1 DEF Locals, Submitting
    <3>. QED  BY <1>2, <3>1 DEF OpenSessionRun, TypeOK
  <2>3. HistoryStored'
    BY <2>1 DEF StoredInv, HistoryStored, Stored
  <2>4. \A d \in Clients : d # c => pc[d] \notin {"write", "launch"}
    BY <2>1 DEF Exclusive, Submitting
  <2>. QED  BY <2>1, <2>2, <2>3, <2>4 DEF StoredInv
<1>3. ASSUME NEW c \in Clients, AdoptRun(c) PROVE StoredInv'
  <2>1. /\ pc[c] = "adopt" /\ held[c] \in Run /\ held[c] # NoRun /\ run = NoRun /\ run' = held[c]
        /\ \A d \in Clients : pc'[d] = IF d = c THEN "write" ELSE pc[d]
        /\ UNCHANGED <<history, session, logs, engine, prompt, held, loaded, unstored>>
        /\ ~engine.on
    BY <1>3 DEF AdoptRun, TypeOK, Exclusive, Submitting, Locals, Run
  <2>2. HistoryStored'
    BY <2>1 DEF StoredInv, HistoryStored, Stored
  <2>. QED  BY <2>1, <2>2 DEF StoredInv
<1>4. ASSUME NEW c \in Clients, WriteUser(c) PROVE StoredInv'
  <2>1. /\ pc[c] = "write" /\ held[c] \in {run, NoRun} /\ Write(held[c], User(prompt[c]))
        /\ \A d \in Clients : pc'[d] = IF d = c THEN "launch" ELSE pc[d]
        /\ UNCHANGED <<history, session, run, engine, prompt, held, loaded, unstored>>
        /\ prompt[c] \in Prompt /\ ~engine.on /\ running
    BY <1>4 DEF WriteUser, TypeOK, Exclusive, Submitting, Locals
  <2>2. \A d \in Clients : pc[d] \notin Opening
    BY <2>1 DEF Exclusive
  <2>3. \A d \in Clients : pc[d] \in {"begin", "adopt", "write"} => d = c
    BY <2>1 DEF Exclusive, Submitting
  <2>4. HistoryStored'
    <3>1. CASE held[c] = NoRun
      <4>1. session' \in unstored'
        BY <2>1, <3>1 DEF StoredInv
      <4>. QED  BY <4>1 DEF HistoryStored
    <3>2. CASE held[c] # NoRun
      <4>1. run # NoRun /\ run \in Run /\ logs' = [logs EXCEPT ![run] = Append(@, User(prompt[c]))]
        BY <2>1, <3>2 DEF Write, TypeOK
      <4>2. ToSet(logs'[run]) = ToSet(logs[run]) \cup {User(prompt[c])}
        BY <2>1, <4>1, MessageFacts, AppendFacts DEF TypeOK
      <4>3. \A m : Stored(m) => m \in ToSet(logs'[run])
        BY <2>3, <4>1, <4>2 DEF Stored
      <4>. QED  BY <2>1, <2>2, <4>1, <4>3 DEF StoredInv, HistoryStored, Stored, Opening
    <3>. QED  BY <3>1, <3>2
  <2>. QED  BY <2>1, <2>2, <2>4 DEF StoredInv, Opening
<1>5. ASSUME NEW c \in Clients, ProviderUnavailable(c) PROVE StoredInv'
  <2>1. ToSet(history') \subseteq ToSet(history)
    BY <1>5, FrontFacts DEF ProviderUnavailable, TypeOK
  <2>2. /\ pc[c] = "launch"
        /\ \A d \in Clients : pc'[d] = IF d = c THEN "idle" ELSE pc[d]
        /\ UNCHANGED <<session, run, logs, engine, prompt, held, loaded, unstored>>
    BY <1>5 DEF ProviderUnavailable, TypeOK
  <2>3. HistoryStored'
    BY <2>1, <2>2 DEF StoredInv, HistoryStored, Stored
  <2>. QED  BY <2>2, <2>3 DEF StoredInv
<1>6. ASSUME NEW c \in Clients, Launch(c) PROVE StoredInv'
  <2>1. /\ pc[c] = "launch" /\ held[c] \in {run, NoRun}
        /\ \A d \in Clients : pc'[d] = IF d = c THEN "idle" ELSE pc[d]
        /\ UNCHANGED <<history, session, run, logs, prompt, held, loaded, unstored>>
        /\ engine'.on => engine'.run = held[c] /\ engine'.copy = history
        /\ ~engine.on /\ running
    BY <1>6 DEF Launch, TypeOK, Exclusive, Turn, Submitting, Locals
  <2>2. \A d \in Clients : pc[d] \notin Opening /\ pc[d] \notin {"begin", "adopt", "write"}
    BY <2>1 DEF Exclusive, Submitting
  <2>3. HistoryStored'
    BY <2>1 DEF StoredInv, HistoryStored, Stored
  <2>4. session \notin unstored => held[c] # NoRun /\ ToSet(history) \subseteq ToSet(logs[held[c]])
    BY <2>1, <2>2 DEF StoredInv, HistoryStored, Stored, Opening
  <2>. QED  BY <2>1, <2>3, <2>4 DEF StoredInv
<1>7. ASSUME NEW c \in Clients, ResetSession(c) PROVE StoredInv'
  <2>1. CASE running
    <3>1. /\ \A d \in Clients : pc'[d] = IF d = c THEN "idle" ELSE pc[d]
          /\ pc[c] = "flush"
          /\ UNCHANGED <<history, session, run, logs, engine, prompt, held, loaded, unstored>>
      BY <1>7, <2>1 DEF ResetSession, TypeOK
    <3>. QED  BY <3>1, StoredStays
  <2>2. CASE ~running
    <3>1. /\ \A d \in Clients : pc'[d] = IF d = c THEN "unscope" ELSE pc[d]
          /\ pc[c] = "flush" /\ history' = <<>>
          /\ UNCHANGED <<logs, engine, prompt, held, loaded, unstored>>
      BY <1>7, <2>2 DEF ResetSession, TypeOK
    <3>2. ~engine.on /\ \A d \in Clients : pc[d] \notin Submitting
      BY <2>2 DEF Exclusive, Turn
    <3>3. HistoryStored'
      BY <3>1 DEF HistoryStored, ToSet
    <3>. QED  BY <3>1, <3>2, <3>3 DEF StoredInv, Submitting
  <2>. QED  BY <2>1, <2>2
<1>8. ASSUME NEW c \in Clients, NEW r \in Run, OpenSession(c, r) PROVE StoredInv'
  <2>1. /\ \A d \in Clients : pc[d] = "idle" /\ pc'[d] = IF d = c THEN "load" ELSE "idle"
        /\ UNCHANGED <<history, session, run, logs, engine, prompt, loaded, unstored>>
    BY <1>8 DEF OpenSession, TypeOK
  <2>2. HistoryStored'
    BY <2>1 DEF StoredInv, HistoryStored, Stored
  <2>. QED  BY <2>1, <2>2 DEF StoredInv
<1>9. ASSUME NEW c \in Clients, LoadRun(c) \/ ReleaseOld(c) \/ Rescope(c) PROVE StoredInv'
  <2>1. /\ pc[c] \in {"load", "release", "rescope"}
        /\ pc'[c] \in {"release", "rescope", "reinstall", "install"}
        /\ pc'[c] \in {"rescope", "install"} \/ run' = run
        /\ \A d \in Clients : d # c => pc'[d] = pc[d]
        /\ UNCHANGED <<history, session, logs, engine, prompt, held, unstored>>
        /\ loaded'[c] = logs[held[c]]
    BY <1>9 DEF LoadRun, ReleaseOld, Rescope, TypeOK, StoredInv
  <2>2. ~engine.on /\ \A d \in Clients : d # c => pc[d] = "idle"
    BY <2>1 DEF Exclusive, Turn, Opening
  <2>3. HistoryStored'
    <3>1. CASE pc'[c] \in {"rescope", "install"}
      BY <3>1 DEF HistoryStored
    <3>2. CASE run' = run /\ pc'[c] \notin {"rescope", "install"}
      <4>1. pc[c] \notin {"rescope", "install"}
        BY <1>9, <2>1, <3>2 DEF Rescope, LoadRun, ReleaseOld, TypeOK
      <4>. QED  BY <2>1, <2>2, <3>2, <4>1 DEF StoredInv, HistoryStored, Stored
    <3>. QED  BY <2>1, <3>1, <3>2
  <2>. QED  BY <2>1, <2>2, <2>3 DEF StoredInv
<1>10. ASSUME NEW c \in Clients, Install(c) PROVE StoredInv'
  <2>1. /\ pc[c] \in {"install", "reinstall"} /\ \A d \in Clients : d # c => pc[d] = "idle"
        /\ \A d \in Clients : pc'[d] = "idle"
        /\ held[c] \in Run /\ ~engine.on
    BY <1>10 DEF Install, TypeOK, Exclusive, Turn, Locals, Opening
  <2>2. history' = logs[held[c]] /\ run' = held[c] /\ UNCHANGED <<logs, engine>>
    BY <1>10, <2>1 DEF Install, StoredInv
  <2>3. HistoryStored'
    BY <2>1, <2>2 DEF HistoryStored, Stored, Run
  <2>. QED  BY <2>1, <2>2, <2>3 DEF StoredInv
<1>11. CASE EngineReply
  <2>1. /\ engine.on /\ running /\ engine.prompt \in Prompt /\ engine.session = session
        /\ engine.run \in Run \cup {NoRun} /\ engine.copy \in Seq(Message)
        /\ Write(engine.run, Agent(engine.prompt))
        /\ engine'.on /\ engine'.run = engine.run
        /\ engine'.copy = Append(engine.copy, Agent(engine.prompt))
        /\ UNCHANGED <<history, session, run, pc, prompt, held, loaded, unstored>>
    BY <1>11 DEF EngineReply, Turn, TypeOK
  <2>2. \A c \in Clients : pc[c] \notin Opening /\ pc[c] \notin Submitting
    BY <2>1 DEF Exclusive
  <2>3. CASE engine.run = NoRun
    <3>1. session \in unstored /\ logs' = logs
      BY <2>1, <2>3 DEF StoredInv, Write
    <3>. QED  BY <2>1, <2>2, <3>1 DEF StoredInv, HistoryStored, Submitting, Opening
  <2>4. CASE engine.run # NoRun
    <3>1. /\ engine.run \in Run
          /\ logs' = [logs EXCEPT ![engine.run] = Append(@, Agent(engine.prompt))]
      BY <2>1, <2>4 DEF Write
    <3>2. ToSet(logs'[engine.run]) = ToSet(logs[engine.run]) \cup {Agent(engine.prompt)}
      BY <2>1, <3>1, MessageFacts, AppendFacts DEF TypeOK
    <3>3. ToSet(engine'.copy) = ToSet(engine.copy) \cup {Agent(engine.prompt)}
      BY <2>1, MessageFacts, AppendFacts
    <3>4. \A r : r \in Run => ToSet(logs[r]) \subseteq ToSet(logs'[r])
      BY <3>1, <3>2 DEF TypeOK
    <3>5. HistoryStored'
      BY <2>1, <3>4 DEF StoredInv, HistoryStored, Stored, TypeOK
    <3>. QED  BY <2>1, <2>2, <2>4, <3>2, <3>3, <3>5 DEF StoredInv, Submitting, Opening
  <2>. QED  BY <2>3, <2>4
<1>12. CASE EngineEnds
  <2>1. /\ engine.on /\ running /\ engine.session = session /\ engine.run \in {run, NoRun}
        /\ history' = engine.copy \/ history' = history
        /\ ~engine'.on
        /\ UNCHANGED <<session, run, logs, pc, prompt, held, loaded, unstored>>
    BY <1>12 DEF EngineEnds, Turn, NoTurn
  <2>2. HistoryStored'
    BY <2>1 DEF StoredInv, HistoryStored, Stored
  <2>. QED  BY <2>1, <2>2 DEF StoredInv
<1>13. ASSUME NEW c \in Clients,
              \/ ClearScopes(c) \/ Cancel(c) \/ NewSession(c) \/ Connect(c) \/ Disconnect(c)
              \/ \E choice \in {"approve", "approve_all", "deny"} : Respond(c, choice)
       PROVE  StoredInv'
  <2>1. /\ UNCHANGED <<history, session, run, logs, engine, prompt, held, loaded, unstored>>
        /\ \/ pc' = pc
           \/ pc[c] = "unscope" /\ pc' = [pc EXCEPT ![c] = "idle"]
           \/ pc[c] = "idle" /\ pc' = [pc EXCEPT ![c] = "flush"]
    BY <1>13 DEF ClearScopes, Cancel, NewSession, Connect, Disconnect, Respond, Free
  <2>. QED  BY <2>1, StoredStays DEF TypeOK
<1>14. CASE TakeAnswer \/ Decide \/ UNCHANGED vars
  BY <1>14, StoredStays DEF TakeAnswer, Decide, vars
<1>. QED  BY <1>1, <1>2, <1>3, <1>4, <1>5, <1>6, <1>7, <1>8, <1>9, <1>10, <1>11, <1>12, <1>13, <1>14
          DEF Next, EngineStep, HandlerStep, ClientSends

-----------------------------------------------------------------------------
(* The theorems.                                                           *)

LEMMA GuardHolds == ASSUME ~Racing PROVE Spec => []GuardInv
<1>1. GuardInv /\ [Next]_vars => GuardInv'
  BY GuardStep
<1>. QED  BY <1>1, GuardInit, PTL DEF Spec

\* The session core keeps its types, whatever clients, store and provider
\* do.
THEOREM TypeCorrect == ASSUME ~Racing PROVE Spec => []TypeOK
<1>1. GuardInv => TypeOK
  BY DEF GuardInv
<1>. QED  BY <1>1, GuardHolds, PTL

\* Without the busy mark there is no turn, no submit before its turn and no
\* token, and the manager is home (session.rs handle_submit, engine.rs
\* finalize_turn).
THEOREM IdleWhenIdle == ASSUME ~Racing PROVE Spec => []IdleIsIdle
<1>1. GuardInv => IdleIsIdle
  BY DEF GuardInv, Exclusive, Turn, IdleIsIdle, TypeOK
<1>. QED  BY <1>1, GuardHolds, PTL

\* While a turn runs, its session and its run stay the current ones, and
\* the busy mark is set.
THEOREM TurnOwnership == ASSUME ~Racing PROVE Spec => []TurnOwnsSession
<1>1. GuardInv => TurnOwnsSession
  BY DEF GuardInv, Turn, TurnOwnsSession
<1>. QED  BY <1>1, GuardHolds, PTL

\* An approve_all of one session is in force in no other (session.rs
\* NewSession, runtime.rs open_session).
THEOREM ScopesMatch == ASSUME ~Racing PROVE Spec => []ScopesOfThisSession
<1>1. Init => ScopeInv
  BY DEF Init, ScopeInv, ScopesOfThisSession
<1>2. GuardInv /\ ScopeInv /\ [Next]_vars => ScopeInv'
  BY ScopeStep
<1>3. ScopeInv => ScopesOfThisSession
  BY DEF ScopeInv
<1>. QED  BY <1>1, <1>2, <1>3, GuardHolds, PTL DEF Spec

\* A run whose row was closed is not written to until it is reopened.
THEOREM ClosedStaysQuiet == ASSUME ~Racing PROVE Spec => ClosedRunsAreQuiet
<1>1. Init => QuietInv
  BY DEF Init, QuietInv, NoRun, Opening
<1>2. GuardInv /\ QuietInv /\ [Next]_vars => QuietInv'
  BY QuietStep
<1>3. GuardInv /\ QuietInv /\ [Next]_vars => [\A r \in closed : logs'[r] = logs[r]]_logs
  BY QuietWrites
<1>. QED  BY <1>1, <1>2, <1>3, GuardHolds, PTL DEF Spec, ClosedRunsAreQuiet

\* What a turn knows is in the run it writes to, unless the store refused a
\* run for an earlier turn of the session (session.rs open_session_run).
THEOREM StoredTurns == ASSUME ~Racing PROVE Spec => []TurnsAreStored
<1>1. Init => StoredInv
  BY DEF Init, StoredInv, HistoryStored, NoTurn, ToSet
<1>2. GuardInv /\ StoredInv /\ [Next]_vars => StoredInv'
  BY StoredStep
<1>3. GuardInv /\ StoredInv => TurnsAreStored
  BY DEF GuardInv, Turn, StoredInv, TurnsAreStored
<1>. QED  BY <1>1, <1>2, <1>3, GuardHolds, PTL DEF Spec
=============================================================================
