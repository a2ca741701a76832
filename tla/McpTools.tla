------------------------------ MODULE McpTools ------------------------------
(***************************************************************************)
(* The tool registry of the mobile runtime and the two operations that     *)
(* rewrite it while agents are calling tools: reload_mcp, which connects   *)
(* the tool servers anew and swaps their tools in, and set_exec_backends,  *)
(* which chooses the shells of the phone (openslate-mobile, runtime.rs     *)
(* and exec.rs; openslate-core, tool.rs).                                  *)
(*                                                                         *)
(* Every write of the registry takes its own lock and nothing holds the    *)
(* registry across a reload, so both operations are several steps here.    *)
(* Consecutive writes whose order no reader of one name can see (the loop  *)
(* that unregisters the old names, the roll-back) are one step.            *)
(***************************************************************************)
EXTENDS Naturals, FiniteSets

CONSTANTS
  Names,         \* the names of tools
  BashNames,     \* the names of shells among them (ALL_BASH_NAMES)
  Builtin,       \* names held by tools that neither operation owns
  Offers,        \* what the tool servers may offer: sets of names
  MaxReloads,    \* bound: reloads that connect
  MaxDeaths,     \* bound: deaths of the tool host
  MaxSwitches,   \* bound: changes of the shells
  Serial         \* TRUE: a change of the shells never overlaps a reload

ASSUME NamesAssumption ==
  /\ BashNames \subseteq Names
  /\ Builtin \subseteq Names \ BashNames
  /\ Offers \subseteq SUBSET Names

ASSUME ToolBoundsAssumption ==
  /\ MaxReloads \in Nat
  /\ MaxDeaths \in Nat
  /\ MaxSwitches \in Nat

VARIABLES
  registry,      \* ToolRegistry.tools: the owner of each name
  roster,        \* mcp_tool_names: names registered for the tool servers
  guard,         \* mcp_external: the connection the runtime holds
  healthy,       \* connections that still carry calls
  hostAlive,     \* the process behind the tool servers
  reload,        \* the reload under way: its phase and its locals
  shells,        \* exec_selection, as the names its shells register
  switch,        \* a set_exec_backends under way
  reloads, deaths, switches   \* counters, for the bounds

toolVars == << registry, roster, guard, healthy, hostAlive, reload,
               shells, switch, reloads, deaths, switches >>

Conns == 0 .. MaxReloads

\* The owner of a name: nobody, a shell of the phone, a tool the runtime
\* was built with, or a tool of one connection to the tool servers.
NoTool == [kind |-> "none", conn |-> 0]
Shell == [kind |-> "shell", conn |-> 0]
Fixed == [kind |-> "fixed", conn |-> 0]
Mcp(c) == [kind |-> "mcp", conn |-> c]
Owner == {NoTool, Shell, Fixed} \cup {Mcp(c) : c \in Conns}

NoReload == [phase |-> "idle", by |-> "nobody", names |-> {}, conn |-> 0,
             oldNames |-> {}, saved |-> [n \in Names |-> NoTool], yielded |-> {},
             registered |-> {}]

NoSwitch == [phase |-> "idle", owned |-> {}]

-----------------------------------------------------------------------------
(* What a write of the registry makes of it.                               *)

\* unregister, name by name.
Without(reg, names) == [n \in Names |-> IF n \in names THEN NoTool ELSE reg[n]]

\* register_boxed, name by name: whoever holds a name loses it.
With(reg, names, owner) == [n \in Names |-> IF n \in names THEN owner ELSE reg[n]]

\* mcp_owned_bash_names: the shells the tool servers have taken over.
OwnedShells(names) == names \cap BashNames

\* register_bash_tools: drop every shell that the tool servers do not own,
\* then register the chosen ones among these.
Reshelled(reg, chosen, owned) ==
  With(Without(reg, BashNames \ owned), chosen \ owned, Shell)

\* The wiring of a start without the tool servers, then its shells.
ToolInit ==
  /\ roster \in {{}} \cup Offers
  /\ roster \cap Builtin = {}
  /\ guard = 0
  /\ healthy = IF roster = {} THEN {} ELSE {0}
  /\ hostAlive = TRUE
  /\ shells \in SUBSET BashNames
  /\ registry = Reshelled([n \in Names |-> CASE n \in roster -> Mcp(0)
                                             [] n \in Builtin -> Fixed
                                             [] OTHER -> NoTool],
                          shells, OwnedShells(roster))
  /\ reload = NoReload
  /\ switch = NoSwitch
  /\ reloads = 0
  /\ deaths = 0
  /\ switches = 0

-----------------------------------------------------------------------------
(* reload_mcp.  `by` is who asked for it; RuntimeBridge lets one through   *)
(* at a time.  The tools connected wait in a registry of their own.        *)

CanReload == reload.phase = "idle" /\ (Serial => switch.phase = "idle")

\* connect_external_mcp: a server that cannot be reached is skipped, so a
\* dead host offers nothing.  With servers to reach, none reached and old
\* tools in place, the reload gives up before it touches anything, and so
\* does one that cannot read its configuration (FailedConnect).
Connect(by, names) ==
  /\ CanReload
  /\ reloads < MaxReloads
  /\ hostAlive \/ names = {}
  /\ reloads' = reloads + 1
  /\ healthy' = healthy \cup (IF names = {} THEN {} ELSE {reloads'})
  /\ reload' = [NoReload EXCEPT !.phase = "swap", !.by = by, !.names = names,
                                !.conn = reloads', !.oldNames = roster]
  /\ UNCHANGED << registry, roster, guard, hostAlive, shells, switch, deaths, switches >>

FailedConnect(by) ==
  /\ CanReload
  /\ reload' = [NoReload EXCEPT !.phase = "failed", !.by = by]
  /\ UNCHANGED << registry, roster, guard, healthy, hostAlive, shells, switch,
                  reloads, deaths, switches >>

LeavingOffered == reload.oldNames \cap reload.names  \* mutant: only what comes back

\* Save the old tools, then unregister their names.
Leaving == reload.oldNames
UnregisterOld ==
  /\ reload.phase = "swap"
  /\ reload' = [reload EXCEPT !.phase = "yield", !.saved = registry]
  /\ registry' = Without(registry, Leaving)
  /\ UNCHANGED << roster, guard, healthy, hostAlive, shells, switch,
                  reloads, deaths, switches >>

\* Shells make way for a tool server that takes their name over for the
\* first time; they are saved too.
Yielding == {n \in OwnedShells(reload.names) \ reload.oldNames : registry[n] # NoTool}
YieldShells ==
  /\ reload.phase = "yield"
  /\ LET names == Yielding
     IN  /\ reload' = [reload EXCEPT !.phase = "register", !.yielded = names,
                          !.saved = [n \in Names |-> IF n \in names THEN registry[n]
                                                                    ELSE reload.saved[n]]]
         /\ registry' = Without(registry, names)
  /\ UNCHANGED << roster, guard, healthy, hostAlive, shells, switch,
                  reloads, deaths, switches >>

\* try_register of one new tool, in its decorator.
RegisterTool(n) ==
  /\ reload.phase = "register"
  /\ n \in reload.names \ reload.registered
  /\ registry[n] = NoTool
  /\ registry' = With(registry, {n}, Mcp(reload.conn))
  /\ reload' = [reload EXCEPT !.registered = @ \cup {n}]
  /\ UNCHANGED << roster, guard, healthy, hostAlive, shells, switch,
                  reloads, deaths, switches >>

ReturningOld == {n \in reload.oldNames : reload.saved[n] # NoTool}  \* mutant: not the shells

Returning == {n \in reload.oldNames \cup reload.yielded : reload.saved[n] # NoTool}

\* try_register meets a name somebody holds: what was registered goes, the
\* old tools and the shells that made way come back, and the connections
\* just made are dropped with their guard.
RollBack(n) ==
  /\ reload.phase = "register"
  /\ n \in reload.names \ reload.registered
  /\ registry[n] # NoTool
  /\ LET bare == Without(registry, reload.registered)
     IN  registry' = [m \in Names |-> IF m \in Returning THEN reload.saved[m] ELSE bare[m]]
  /\ healthy' = healthy \ {reload.conn}
  /\ reload' = [NoReload EXCEPT !.phase = "failed", !.by = reload.by]
  /\ UNCHANGED << roster, guard, hostAlive, shells, switch, reloads, deaths, switches >>

\* Swap the guard (its drop closes the old connections, and every call on
\* them), then the roster.
SwapGuard ==
  /\ reload.phase = "register"
  /\ reload.registered = reload.names
  /\ healthy' = healthy \ {guard}
  /\ guard' = reload.conn
  /\ roster' = reload.names
  /\ reload' = [reload EXCEPT !.phase = "shells"]
  /\ UNCHANGED << registry, hostAlive, shells, switch, reloads, deaths, switches >>

\* register_bash_tools with the new roster ends the reload.
SettleShells ==
  /\ reload.phase = "shells"
  /\ registry' = Reshelled(registry, shells, OwnedShells(reload.names))
  /\ reload' = [NoReload EXCEPT !.phase = "done", !.by = reload.by]
  /\ UNCHANGED << roster, guard, healthy, hostAlive, shells, switch,
                  reloads, deaths, switches >>

\* The caller has the answer of the reload, and the lock is free.
Return ==
  /\ reload.phase \in {"done", "failed"}
  /\ reload' = NoReload
  /\ UNCHANGED << registry, roster, guard, healthy, hostAlive, shells, switch,
                  reloads, deaths, switches >>

-----------------------------------------------------------------------------
(* set_exec_backends: the choice, then the roster read for the shells the  *)
(* tool servers own, then register_bash_tools with both.                   *)

SwitchShells(chosen) ==
  /\ switch.phase = "idle"
  /\ Serial => reload.phase = "idle"
  /\ switches < MaxSwitches
  /\ switches' = switches + 1
  /\ shells' = chosen
  /\ switch' = [phase |-> "register", owned |-> OwnedShells(roster)]
  /\ UNCHANGED << registry, roster, guard, healthy, hostAlive, reload, reloads, deaths >>

RegisterShells ==
  /\ switch.phase = "register"
  /\ registry' = Reshelled(registry, shells, switch.owned)
  /\ switch' = NoSwitch
  /\ UNCHANGED << roster, guard, healthy, hostAlive, reload, shells,
                  reloads, deaths, switches >>

-----------------------------------------------------------------------------
(* The tool host, a process of another application: it is killed, and with *)
(* it every connection; somebody starts it again.                          *)

HostDies ==
  /\ hostAlive
  /\ deaths < MaxDeaths
  /\ deaths' = deaths + 1
  /\ hostAlive' = FALSE
  /\ healthy' = {}
  /\ UNCHANGED << registry, roster, guard, reload, shells, switch, reloads, switches >>

HostStarts ==
  /\ ~hostAlive
  /\ hostAlive' = TRUE
  /\ UNCHANGED << registry, roster, guard, healthy, reload, shells, switch,
                  reloads, deaths, switches >>

ReloadStep ==
  \/ UnregisterOld \/ YieldShells \/ SwapGuard \/ SettleShells
  \/ \E n \in Names : RegisterTool(n) \/ RollBack(n)

SwitchStep == RegisterShells \/ \E chosen \in SUBSET BashNames : SwitchShells(chosen)

\* On its own: every reload is the user's.
ToolNext ==
  \/ ReloadStep \/ SwitchStep \/ HostDies \/ HostStarts
  \/ \E names \in Offers : Connect("user", names)
  \/ FailedConnect("user") \/ Return

ToolSpec == ToolInit /\ [][ToolNext]_toolVars

-----------------------------------------------------------------------------
(* Properties.                                                             *)

ToolTypeOK ==
  /\ registry \in [Names -> Owner]
  /\ roster \subseteq Names
  /\ guard \in Conns
  /\ healthy \subseteq Conns
  /\ hostAlive \in BOOLEAN
  /\ reload.phase \in {"idle", "swap", "yield", "register", "shells", "done", "failed"}
  /\ reload.by \in {"nobody", "user", "ladder"}
  /\ reload.names \subseteq Names /\ reload.oldNames \subseteq Names
  /\ reload.conn \in Conns
  /\ reload.saved \in [Names -> Owner]
  /\ reload.yielded \subseteq BashNames /\ reload.registered \subseteq Names
  /\ shells \subseteq BashNames
  /\ switch.phase \in {"idle", "register"} /\ switch.owned \subseteq BashNames
  /\ reloads \in 0 .. MaxReloads /\ deaths \in 0 .. MaxDeaths
  /\ switches \in 0 .. MaxSwitches

\* At rest, whatever reloads succeeded, failed or were rolled back, every
\* name of the roster leads to the connection the runtime holds, every
\* chosen shell that no tool server owns is there, no other shell is, and
\* the built-in tools are untouched (runtime.rs reload_mcp, exec.rs
\* register_bash_tools).
RegistrySettled ==
  reload.phase \in {"idle", "done", "failed"} /\ switch.phase = "idle" =>
    \A n \in Names :
      registry[n] = CASE n \in roster -> Mcp(guard)
                      [] n \in Builtin -> Fixed
                      [] n \in shells \ roster -> Shell
                      [] OTHER -> NoTool

\* No step of a reload, and no roll-back, leaves a tool on a connection
\* that the runtime has dropped or is not about to take: an agent that
\* looks a tool up at any moment gets a connection that only the death of
\* the tool host can have closed (runtime.rs reload_mcp: the old guard is
\* kept until the new tools are in).
ToolsOnOpenConnections ==
  \A n \in Names : registry[n].kind = "mcp" =>
    \/ registry[n].conn = guard
    \/ reload.phase \in {"register", "shells"} /\ registry[n].conn = reload.conn
=============================================================================
