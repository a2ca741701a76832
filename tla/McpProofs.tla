----------------------------- MODULE McpProofs ------------------------------
(***************************************************************************)
(* Theorems about McpTools and, behind them, about McpRecovery, for all    *)
(* names, offers, calls and bounds.                                        *)
(*                                                                         *)
(* McpTools: between two changes the registry is what the live             *)
(* configuration says, and no tool is offered on a connection the runtime  *)
(* has dropped, as long as a change of the shells never overlaps a reload. *)
(* The inductive invariant says of every phase what the registry then is,  *)
(* as a function of the roster, the guard and the shells of before the     *)
(* reload.                                                                 *)
(*                                                                         *)
(* McpRecovery: its types, with the bound of one request per call that     *)
(* TypeOK carries, that a request is answered with its own answer, that a  *)
(* recovery is asked for only where one is due, and that the registry      *)
(* stays right when the ladder's reloads mix with the user's.              *)
(***************************************************************************)
EXTENDS McpRecovery, FiniteSetTheorems, TLAPS

\* The registry between two changes: what RegistrySettled asks for.
Wanted(n) == IF n \in roster THEN Mcp(guard)
             ELSE IF n \in Builtin THEN Fixed
             ELSE IF n \in shells THEN Shell ELSE NoTool

\* The registry but for the shells, which may be old ones.
Unshelled(n) == IF n \in roster THEN registry[n] = Mcp(guard)
                ELSE IF n \in Builtin THEN registry[n] = Fixed
                ELSE IF n \in BashNames THEN registry[n] \in {Shell, NoTool}
                ELSE registry[n] = NoTool

\* The registry while names are registered.
Half(n) == IF n \in reload.registered THEN Mcp(reload.conn)
           ELSE IF n \in roster \cup reload.yielded THEN NoTool ELSE Wanted(n)

\* Names, connections and the phases of the two operations, which exclude
\* each other.
ShapeOK ==
  /\ DOMAIN registry = Names
  /\ roster \subseteq Names /\ roster \cap Builtin = {}
  /\ shells \subseteq BashNames
  /\ reload.phase \in {"idle", "swap", "yield", "register", "shells", "done", "failed"}
  /\ reload = [phase |-> reload.phase, by |-> reload.by, names |-> reload.names,
               conn |-> reload.conn, oldNames |-> reload.oldNames, saved |-> reload.saved,
               yielded |-> reload.yielded, registered |-> reload.registered]
  /\ reload.names \subseteq Names
  /\ switch.phase \in {"idle", "register"}
  /\ switch.phase = "register" => reload.phase = "idle" /\ switch.owned = OwnedShells(roster)

\* What the registry is in every phase.
PhaseOK ==
  /\ reload.phase \in {"idle", "done", "failed"} /\ switch.phase = "idle" =>
       \A n \in Names : registry[n] = Wanted(n)
  /\ switch.phase = "register" => \A n \in Names : Unshelled(n)
  /\ reload.phase = "swap" =>
       /\ reload.oldNames = roster /\ reload.registered = {}
       /\ \A n \in Names : registry[n] = Wanted(n)
  /\ reload.phase = "yield" =>
       /\ reload.oldNames = roster /\ reload.registered = {}
       /\ \A n \in Names : reload.saved[n] = Wanted(n)
       /\ \A n \in Names : registry[n] = IF n \in roster THEN NoTool ELSE Wanted(n)
  /\ reload.phase = "register" =>
       /\ reload.oldNames = roster /\ reload.registered \subseteq reload.names
       /\ reload.yielded \subseteq reload.names \cap BashNames
       /\ \A n \in Names : reload.saved[n] = Wanted(n)
       /\ \A n \in Names : registry[n] = Half(n)
       /\ \A n \in reload.registered : n \in roster \cup reload.yielded \/ Wanted(n) = NoTool
  /\ reload.phase = "shells" =>
       /\ reload.names = roster /\ reload.conn = guard
       /\ \A n \in Names : Unshelled(n)

IInv == ShapeOK /\ PhaseOK

-----------------------------------------------------------------------------
(* Facts about the operators.                                              *)

\* The owners differ: no tool of a server is a shell, a fixed tool or none.
LEMMA OwnersDiffer ==
  /\ Fixed # NoTool /\ Shell # NoTool
  /\ \A c : Mcp(c) # NoTool /\ Mcp(c) # Shell /\ Mcp(c) # Fixed
  /\ \A c : Mcp(c).kind = "mcp" /\ Mcp(c).conn = c
  /\ NoTool.kind # "mcp" /\ Shell.kind # "mcp" /\ Fixed.kind # "mcp"
BY DEF NoTool, Shell, Fixed, Mcp

\* register_bash_tools, name by name.
LEMMA ReshelledIs ==
  ASSUME NEW reg, NEW chosen, NEW owned, NEW n \in Names
  PROVE  Reshelled(reg, chosen, owned)[n] =
           IF n \in chosen /\ n \notin owned THEN Shell
           ELSE IF n \in BashNames /\ n \notin owned THEN NoTool ELSE reg[n]
BY DEF Reshelled, With, Without

\* Choosing the shells anew over a registry that is right but for its
\* shells makes it right.
LEMMA ReshelledSettles ==
  ASSUME ShapeOK, \A n \in Names : Unshelled(n), NEW n \in Names
  PROVE  Reshelled(registry, shells, OwnedShells(roster))[n] = Wanted(n)
<1>. DEFINE reg == Reshelled(registry, shells, OwnedShells(roster))
<1>1. reg[n] = IF n \in shells /\ n \notin OwnedShells(roster) THEN Shell
               ELSE IF n \in BashNames /\ n \notin OwnedShells(roster) THEN NoTool
               ELSE registry[n]
  BY ReshelledIs
<1>. HIDE DEF reg
<1>2. shells \subseteq BashNames /\ Unshelled(n) /\ Builtin \cap BashNames = {}
  BY NamesAssumption DEF ShapeOK
<1>3. n \in roster => reg[n] = Wanted(n)
  BY <1>1, <1>2 DEF Wanted, Unshelled, OwnedShells
<1>4. n \notin roster /\ n \in BashNames => reg[n] = Wanted(n)
  BY <1>1, <1>2 DEF Wanted, OwnedShells
<1>5. n \notin roster /\ n \notin BashNames => reg[n] = Wanted(n)
  BY <1>1, <1>2 DEF Wanted, Unshelled, OwnedShells
<1>. QED  BY <1>3, <1>4, <1>5 DEF reg

-----------------------------------------------------------------------------
(* The start.                                                              *)

LEMMA InitOK == ToolInit => IInv
<1>. SUFFICES ASSUME ToolInit PROVE IInv
  OBVIOUS
<1>. DEFINE base == [n \in Names |-> CASE n \in roster -> Mcp(0)
                                      [] n \in Builtin -> Fixed
                                      [] OTHER -> NoTool]
<1>1. ShapeOK
  <2>1. DOMAIN registry = Names
    BY DEF ToolInit, Reshelled, With
  <2>2. roster \subseteq Names
    BY NamesAssumption DEF ToolInit
  <2>. QED  BY <2>1, <2>2 DEF ToolInit, ShapeOK, NoReload, NoSwitch
<1>2. ASSUME NEW n \in Names PROVE registry[n] = Wanted(n)
  <2>1. registry[n] = IF n \in shells /\ n \notin OwnedShells(roster) THEN Shell
                      ELSE IF n \in BashNames /\ n \notin OwnedShells(roster) THEN NoTool
                      ELSE base[n]
    BY ReshelledIs DEF ToolInit
  <2>2. base[n] = IF n \in roster THEN Mcp(0) ELSE IF n \in Builtin THEN Fixed ELSE NoTool
    BY <1>1 DEF ShapeOK
  <2>. HIDE DEF base
  <2>3. shells \subseteq BashNames /\ guard = 0 /\ Builtin \cap BashNames = {}
    BY NamesAssumption DEF ToolInit
  <2>. QED  BY <2>1, <2>2, <2>3 DEF Wanted, OwnedShells
<1>3. reload.phase = "idle" /\ switch.phase = "idle"
  BY DEF ToolInit, NoReload, NoSwitch
<1>. QED  BY <1>1, <1>2, <1>3 DEF IInv, PhaseOK

-----------------------------------------------------------------------------
(* The steps of a reload.                                                  *)

\* What a step that leaves these alone does not change.
LEMMA WantedStays ==
  ASSUME UNCHANGED << roster, guard, shells >>, NEW n
  PROVE  Wanted(n)' = Wanted(n)
BY DEF Wanted

LEMMA ConnectOK ==
  ASSUME IInv, Serial, NEW by, NEW names \in Offers, Connect(by, names)
  PROVE  IInv'
<1>. USE DEF IInv, Connect, CanReload, NoReload
<1>1. names \subseteq Names
  BY NamesAssumption
<1>2. ShapeOK'
  BY <1>1 DEF ShapeOK
<1>3. \A n \in Names : registry[n] = Wanted(n)
  BY DEF PhaseOK
<1>4. \A n : Wanted(n)' = Wanted(n)
  BY WantedStays
<1>5. PhaseOK'
  BY <1>3, <1>4 DEF PhaseOK
<1>. QED  BY <1>2, <1>5

LEMMA FailedConnectOK ==
  ASSUME IInv, Serial, NEW by, FailedConnect(by)
  PROVE  IInv'
<1>. USE DEF IInv, FailedConnect, CanReload, NoReload
<1>1. ShapeOK'
  BY DEF ShapeOK
<1>2. \A n \in Names : registry[n] = Wanted(n)
  BY DEF PhaseOK
<1>3. \A n : Wanted(n)' = Wanted(n)
  BY WantedStays
<1>. QED  BY <1>1, <1>2, <1>3 DEF PhaseOK

LEMMA UnregisterOldOK ==
  ASSUME IInv, UnregisterOld
  PROVE  IInv'
<1>. USE DEF IInv, UnregisterOld
<1>1. ShapeOK'
  BY DEF ShapeOK, Without
<1>2. \A n \in Names : registry[n] = Wanted(n)
  BY DEF PhaseOK
<1>3. reload.oldNames = roster /\ reload.registered = {} /\ switch.phase = "idle"
  BY DEF PhaseOK, ShapeOK
<1>4. \A n : Wanted(n)' = Wanted(n)
  BY WantedStays
<1>5. reload'.oldNames = roster /\ reload'.registered = {} /\ reload'.saved = registry
      /\ reload'.phase = "yield"
  BY <1>3 DEF ShapeOK
<1>6. \A n \in Names : registry'[n] = IF n \in roster THEN NoTool ELSE Wanted(n)
  BY <1>2, <1>3 DEF Without, Leaving
<1>. QED  BY <1>1, <1>2, <1>3, <1>4, <1>5, <1>6 DEF PhaseOK

LEMMA YieldShellsOK ==
  ASSUME IInv, YieldShells
  PROVE  IInv'
<1>. USE DEF IInv
<1>1. ShapeOK'
  BY DEF ShapeOK, Without, YieldShells
<1>2. /\ reload.oldNames = roster /\ reload.registered = {} /\ switch.phase = "idle"
      /\ \A n \in Names : reload.saved[n] = Wanted(n)
      /\ \A n \in Names : registry[n] = IF n \in roster THEN NoTool ELSE Wanted(n)
  BY DEF PhaseOK, ShapeOK, YieldShells
<1>3. \A n : Wanted(n)' = Wanted(n)
  BY WantedStays DEF YieldShells
<1>4. /\ reload'.phase = "register" /\ reload'.oldNames = roster /\ reload'.registered = {}
      /\ reload'.yielded = Yielding
      /\ reload'.saved = [n \in Names |-> IF n \in Yielding THEN registry[n]
                                                          ELSE reload.saved[n]]
      /\ reload'.names = reload.names
  BY <1>2 DEF ShapeOK, YieldShells
<1>5. Yielding \subseteq reload.names \cap BashNames /\ Yielding \cap roster = {}
  BY <1>2 DEF Yielding, OwnedShells
<1>6. \A n \in Names : reload'.saved[n] = Wanted(n)
  BY <1>2, <1>4, <1>5
<1>7. \A n \in Names : registry'[n] = IF n \in roster \cup Yielding THEN NoTool ELSE Wanted(n)
  BY <1>2, <1>5 DEF YieldShells, Without
<1>8. \A n \in Names : registry'[n] = Half(n)'
  BY <1>3, <1>4, <1>7 DEF Half, YieldShells
<1>9. roster' = roster /\ switch' = switch
  BY DEF YieldShells
<1>. QED  BY <1>1, <1>2, <1>3, <1>4, <1>5, <1>6, <1>8, <1>9 DEF PhaseOK

LEMMA RegisterToolOK ==
  ASSUME IInv, NEW n \in Names, RegisterTool(n)
  PROVE  IInv'
<1>. USE DEF IInv
<1>1. ShapeOK'
  BY DEF ShapeOK, With, RegisterTool
<1>2. /\ reload.oldNames = roster /\ reload.registered \subseteq reload.names
      /\ reload.yielded \subseteq reload.names \cap BashNames
      /\ \A m \in Names : reload.saved[m] = Wanted(m)
      /\ \A m \in Names : registry[m] = Half(m)
      /\ \A m \in reload.registered : m \in roster \cup reload.yielded \/ Wanted(m) = NoTool
      /\ switch.phase = "idle"
  BY DEF PhaseOK, ShapeOK, RegisterTool
<1>3. \A m : Wanted(m)' = Wanted(m)
  BY WantedStays DEF RegisterTool
<1>4. /\ reload' = [reload EXCEPT !.registered = reload.registered \cup {n}]
      /\ reload'.registered = reload.registered \cup {n}
      /\ reload'.phase = "register" /\ reload'.oldNames = reload.oldNames
      /\ reload'.names = reload.names /\ reload'.yielded = reload.yielded
      /\ reload'.saved = reload.saved /\ reload'.conn = reload.conn
  BY DEF ShapeOK, RegisterTool
<1>5. n \in reload.names /\ n \notin reload.registered /\ registry[n] = NoTool
      /\ roster' = roster /\ switch' = switch
  BY DEF RegisterTool
<1>6. n \in roster \cup reload.yielded \/ Wanted(n) = NoTool
  BY <1>2, <1>5 DEF Half
<1>7. \A m \in Names : registry'[m] = IF m = n THEN Mcp(reload.conn) ELSE registry[m]
  BY DEF RegisterTool, With
<1>8. ASSUME NEW m \in Names PROVE registry'[m] = Half(m)'
  BY <1>2, <1>3, <1>4, <1>5, <1>7 DEF Half
<1>. QED  BY <1>1, <1>2, <1>3, <1>4, <1>5, <1>6, <1>8 DEF PhaseOK

\* The roll-back gives every name back: one that was registered was the old
\* tools', a shell's that made way, or nobody's.
LEMMA RollBackOK ==
  ASSUME IInv, NEW n \in Names, RollBack(n)
  PROVE  IInv'
<1>. USE DEF IInv
<1>1. ShapeOK'
  BY DEF ShapeOK, RollBack, NoReload
<1>2. /\ reload.oldNames = roster
      /\ \A m \in Names : reload.saved[m] = Wanted(m)
      /\ \A m \in Names : registry[m] = Half(m)
      /\ \A m \in reload.registered : m \in roster \cup reload.yielded \/ Wanted(m) = NoTool
      /\ switch.phase = "idle"
  BY DEF PhaseOK, ShapeOK, RollBack
<1>3. \A m : Wanted(m)' = Wanted(m)
  BY WantedStays DEF RollBack
<1>4. \A m \in Names : registry'[m] = IF m \in Returning THEN reload.saved[m]
                                      ELSE IF m \in reload.registered THEN NoTool ELSE registry[m]
  BY DEF RollBack, Without
<1>5. ASSUME NEW m \in Names PROVE registry'[m] = Wanted(m)
  <2>1. m \in Returning <=> m \in roster \cup reload.yielded /\ Wanted(m) # NoTool
    BY <1>2 DEF Returning
  <2>2. CASE m \in Returning
    BY <1>2, <1>4, <2>2
  <2>3. CASE m \notin Returning /\ m \in reload.registered
    BY <1>2, <1>4, <2>1, <2>3
  <2>4. CASE m \notin Returning /\ m \notin reload.registered
    BY <1>2, <1>4, <2>1, <2>4 DEF Half
  <2>. QED  BY <2>2, <2>3, <2>4
<1>6. reload'.phase = "failed" /\ switch' = switch
  BY DEF RollBack, NoReload
<1>. QED  BY <1>1, <1>2, <1>3, <1>5, <1>6 DEF PhaseOK

\* The new roster: no built-in tool is in it, for its name would have met
\* one that is held.
LEMMA SwapGuardOK ==
  ASSUME IInv, SwapGuard
  PROVE  IInv'
<1>. USE DEF IInv
<1>1. /\ reload.registered = reload.names
      /\ reload.yielded \subseteq reload.names \cap BashNames
      /\ \A m \in Names : registry[m] = Half(m)
      /\ \A m \in reload.registered : m \in roster \cup reload.yielded \/ Wanted(m) = NoTool
      /\ switch.phase = "idle" /\ roster \cap Builtin = {} /\ shells \subseteq BashNames
      /\ reload.names \subseteq Names
  BY DEF PhaseOK, ShapeOK, SwapGuard
<1>2. /\ registry' = registry /\ shells' = shells /\ switch' = switch
      /\ roster' = reload.names /\ guard' = reload.conn
      /\ reload'.phase = "shells" /\ reload'.names = reload.names /\ reload'.conn = reload.conn
  BY DEF ShapeOK, SwapGuard
<1>3. Builtin \cap BashNames = {}
  BY NamesAssumption
<1>4. reload.names \cap Builtin = {}
  <2>. SUFFICES ASSUME NEW m \in reload.names, m \in Builtin PROVE FALSE
    OBVIOUS
  <2>1. m \notin roster \cup reload.yielded
    BY <1>1, <1>3
  <2>2. Wanted(m) = Fixed
    BY <2>1 DEF Wanted
  <2>. QED  BY <1>1, <2>1, <2>2, OwnersDiffer
<1>5. ShapeOK'
  BY <1>1, <1>2, <1>4 DEF ShapeOK, SwapGuard
<1>6. ASSUME NEW m \in Names PROVE Unshelled(m)'
  <2>1. registry'[m] = Half(m)
    BY <1>1, <1>2
  <2>2. CASE m \in reload.names
    BY <1>1, <1>2, <2>1, <2>2 DEF Half, Unshelled
  <2>3. CASE m \notin reload.names /\ m \in roster
    <3>1. registry'[m] = NoTool /\ m \notin Builtin
      BY <1>1, <2>1, <2>3 DEF Half
    <3>. QED  BY <1>2, <2>3, <3>1 DEF Unshelled
  <2>4. CASE m \notin reload.names /\ m \notin roster
    <3>1. registry'[m] = Wanted(m)
      BY <1>1, <2>1, <2>4 DEF Half
    <3>. QED  BY <1>1, <1>2, <2>4, <3>1 DEF Unshelled, Wanted
  <2>. QED  BY <2>2, <2>3, <2>4
<1>. QED  BY <1>1, <1>2, <1>5, <1>6 DEF PhaseOK

LEMMA SettleShellsOK ==
  ASSUME IInv, SettleShells
  PROVE  IInv'
<1>. USE DEF IInv
<1>1. reload.names = roster /\ \A n \in Names : Unshelled(n)
  BY DEF PhaseOK, SettleShells
<1>2. \A n \in Names : registry'[n] = Wanted(n)
  BY <1>1, ReshelledSettles DEF SettleShells
<1>3. \A n : Wanted(n)' = Wanted(n)
  BY WantedStays DEF SettleShells
<1>4. ShapeOK'
  BY DEF ShapeOK, SettleShells, NoReload, Reshelled, With
<1>5. reload'.phase = "done" /\ switch'.phase = "idle"
  BY DEF SettleShells, NoReload, ShapeOK
<1>. QED  BY <1>2, <1>3, <1>4, <1>5 DEF PhaseOK

LEMMA ReturnOK ==
  ASSUME IInv, Return
  PROVE  IInv'
<1>. USE DEF IInv
<1>1. reload'.phase = "idle" /\ switch' = switch /\ registry' = registry /\ switch.phase = "idle"
  BY DEF Return, NoReload, ShapeOK
<1>2. \A n \in Names : registry[n] = Wanted(n)
  BY <1>1 DEF PhaseOK, Return
<1>3. \A n : Wanted(n)' = Wanted(n)
  BY WantedStays DEF Return
<1>4. ShapeOK'
  BY DEF ShapeOK, Return, NoReload
<1>. QED  BY <1>1, <1>2, <1>3, <1>4 DEF PhaseOK

-----------------------------------------------------------------------------
(* A change of the shells, and the tool host.                              *)

LEMMA SwitchShellsOK ==
  ASSUME IInv, Serial, NEW chosen \in SUBSET BashNames, SwitchShells(chosen)
  PROVE  IInv'
<1>. USE DEF IInv
<1>1. /\ reload' = reload /\ reload.phase = "idle" /\ registry' = registry
      /\ roster' = roster /\ guard' = guard /\ switch'.phase = "register"
  BY DEF SwitchShells
<1>2. \A n \in Names : registry[n] = Wanted(n)
  BY DEF PhaseOK, SwitchShells
<1>3. \A n \in Names : Unshelled(n)'
  BY <1>1, <1>2 DEF ShapeOK, Wanted, Unshelled
<1>4. ShapeOK'
  BY DEF ShapeOK, SwitchShells
<1>. QED  BY <1>1, <1>3, <1>4 DEF PhaseOK

LEMMA RegisterShellsOK ==
  ASSUME IInv, RegisterShells
  PROVE  IInv'
<1>. USE DEF IInv
<1>1. /\ reload' = reload /\ reload.phase = "idle" /\ switch'.phase = "idle"
      /\ switch.owned = OwnedShells(roster) /\ \A n \in Names : Unshelled(n)
  BY DEF RegisterShells, ShapeOK, PhaseOK, NoSwitch
<1>2. \A n \in Names : registry'[n] = Wanted(n)
  BY <1>1, ReshelledSettles DEF RegisterShells
<1>3. \A n : Wanted(n)' = Wanted(n)
  BY WantedStays DEF RegisterShells
<1>4. ShapeOK'
  BY DEF ShapeOK, RegisterShells, NoSwitch, Reshelled, With
<1>. QED  BY <1>1, <1>2, <1>3, <1>4 DEF PhaseOK

\* What leaves the registry and all that decides it alone.
LEMMA BystanderOK ==
  ASSUME IInv, UNCHANGED << registry, roster, guard, reload, shells, switch >>
  PROVE  IInv'
BY DEF IInv, ShapeOK, PhaseOK, Wanted, Unshelled, Half

-----------------------------------------------------------------------------
(* The theorems.                                                           *)

LEMMA StepOK ==
  ASSUME IInv, Serial, [ToolNext]_toolVars
  PROVE  IInv'
<1>1. CASE ReloadStep
  BY <1>1, UnregisterOldOK, YieldShellsOK, SwapGuardOK, SettleShellsOK, RegisterToolOK,
     RollBackOK DEF ReloadStep
<1>2. CASE SwitchStep
  BY <1>2, SwitchShellsOK, RegisterShellsOK DEF SwitchStep
<1>3. CASE HostDies \/ HostStarts \/ UNCHANGED toolVars
  BY <1>3, BystanderOK DEF HostDies, HostStarts, toolVars
<1>4. CASE \E names \in Offers : Connect("user", names)
  BY <1>4, ConnectOK
<1>5. CASE FailedConnect("user") \/ Return
  BY <1>5, FailedConnectOK, ReturnOK
<1>. QED  BY <1>1, <1>2, <1>3, <1>4, <1>5 DEF ToolNext

\* What every phase of reload_mcp leaves in the registry.
THEOREM Invariance == ASSUME Serial PROVE ToolSpec => []IInv
<1>1. ToolInit => IInv
  BY InitOK
<1>2. IInv /\ [ToolNext]_toolVars => IInv'
  BY StepOK
<1>. QED  BY <1>1, <1>2, PTL DEF ToolSpec

\* What the invariant says of the registry at rest, and of the connections
\* behind it.
LEMMA SettledInv == IInv => RegistrySettled
<1>. SUFFICES ASSUME IInv, reload.phase \in {"idle", "done", "failed"},
                     switch.phase = "idle", NEW n \in Names
              PROVE  registry[n] = CASE n \in roster -> Mcp(guard)
                                     [] n \in Builtin -> Fixed
                                     [] n \in shells \ roster -> Shell
                                     [] OTHER -> NoTool
  BY DEF RegistrySettled
<1>1. registry[n] = Wanted(n)
  BY DEF IInv, PhaseOK
<1>2. roster \cap Builtin = {} /\ Builtin \cap shells = {}
  BY NamesAssumption DEF IInv, ShapeOK
<1>. QED  BY <1>1, <1>2 DEF Wanted

LEMMA ToolsOpenInv == IInv => ToolsOnOpenConnections
<1>. SUFFICES ASSUME IInv, NEW n \in Names, registry[n].kind = "mcp"
              PROVE  \/ registry[n].conn = guard
                     \/ reload.phase \in {"register", "shells"} /\ registry[n].conn = reload.conn
  BY DEF ToolsOnOpenConnections
<1>1. Wanted(n).kind = "mcp" => Wanted(n).conn = guard
  BY OwnersDiffer DEF Wanted
<1>2. Unshelled(n) => registry[n].conn = guard
  BY OwnersDiffer DEF Unshelled
<1>3. CASE reload.phase \in {"idle", "done", "failed"}
  BY <1>1, <1>2, <1>3 DEF IInv, ShapeOK, PhaseOK
<1>4. CASE reload.phase \in {"swap", "yield"}
  BY <1>1, <1>4, OwnersDiffer DEF IInv, PhaseOK
<1>5. CASE reload.phase = "register"
  BY <1>1, <1>5, OwnersDiffer DEF IInv, PhaseOK, Half
<1>6. CASE reload.phase = "shells"
  BY <1>2, <1>6 DEF IInv, PhaseOK
<1>. QED  BY <1>3, <1>4, <1>5, <1>6 DEF IInv, ShapeOK

\* Between two changes the registry is what roster, guard and shells say,
\* after any number of reloads that succeeded, failed or were rolled back
\* (runtime.rs reload_mcp, exec.rs register_bash_tools).
THEOREM Settled == ASSUME Serial PROVE ToolSpec => []RegistrySettled
BY SettledInv, Invariance, PTL

\* Whoever looks a tool up at any moment of a reload or a roll-back gets a
\* connection the runtime holds or is about to (runtime.rs reload_mcp).
THEOREM ToolsOpen == ASSUME Serial PROVE ToolSpec => []ToolsOnOpenConnections
BY ToolsOpenInv, Invariance, PTL

-----------------------------------------------------------------------------
(* Types, whatever overlaps.                                               *)

ReloadRecord ==
  [phase : {"idle", "swap", "yield", "register", "shells", "done", "failed"},
   by : {"nobody", "user", "ladder"}, names : SUBSET Names, conn : Conns,
   oldNames : SUBSET Names, saved : [Names -> Owner],
   yielded : SUBSET BashNames, registered : SUBSET Names]

ToolTypeInv ==
  /\ ToolTypeOK
  /\ reload \in ReloadRecord
  /\ switch \in [phase : {"idle", "register"}, owned : SUBSET BashNames]

\* What the writes of the registry make of it.
LEMMA WritesTyped ==
  ASSUME NEW reg \in [Names -> Owner], NEW names
  PROVE  /\ Without(reg, names) \in [Names -> Owner]
         /\ \A owner \in Owner : With(reg, names, owner) \in [Names -> Owner]
         /\ \A chosen, owned : Reshelled(reg, chosen, owned) \in [Names -> Owner]
<1>1. NoTool \in Owner /\ Shell \in Owner
  BY DEF Owner
<1>2. \A r \in [Names -> Owner] : \A m : Without(r, m) \in [Names -> Owner]
  BY <1>1 DEF Without
<1>3. \A r \in [Names -> Owner] : \A m : \A o \in Owner : With(r, m, o) \in [Names -> Owner]
  BY DEF With
<1>4. ASSUME NEW chosen, NEW owned PROVE Reshelled(reg, chosen, owned) \in [Names -> Owner]
  BY <1>1, <1>2, <1>3 DEF Reshelled
<1>. QED  BY <1>2, <1>3, <1>4

LEMMA RestingReload ==
  ASSUME NEW phase \in {"idle", "done", "failed"}, NEW by \in {"nobody", "user", "ladder"}
  PROVE  [NoReload EXCEPT !.phase = phase, !.by = by] \in ReloadRecord
<1>1. NoTool \in Owner /\ 0 \in Conns
  BY ToolBoundsAssumption DEF Owner, Conns
<1>. QED  BY <1>1 DEF NoReload, ReloadRecord

LEMMA ToolTypeInit == ToolInit => ToolTypeInv
<1>. SUFFICES ASSUME ToolInit PROVE ToolTypeInv
  OBVIOUS
<1>. USE NamesAssumption, ToolBoundsAssumption
<1>1. NoTool \in Owner /\ Fixed \in Owner /\ Mcp(0) \in Owner /\ 0 \in Conns
  BY DEF Owner, Conns
<1>2. [n \in Names |-> CASE n \in roster -> Mcp(0)
                         [] n \in Builtin -> Fixed
                         [] OTHER -> NoTool] \in [Names -> Owner]
  <2>. SUFFICES ASSUME NEW n \in Names
                PROVE  (CASE n \in roster -> Mcp(0) [] n \in Builtin -> Fixed
                          [] OTHER -> NoTool) \in Owner
    OBVIOUS
  <2>1. ~ (n \in roster /\ n \in Builtin)
    BY DEF ToolInit
  <2>. QED  BY <1>1, <2>1
<1>3. registry \in [Names -> Owner]
  BY <1>2, WritesTyped DEF ToolInit
<1>4. reload \in ReloadRecord /\ switch \in [phase : {"idle", "register"}, owned : SUBSET BashNames]
  BY <1>1 DEF ToolInit, NoReload, NoSwitch, ReloadRecord
<1>5. ToolTypeOK
  BY <1>1, <1>3, <1>4 DEF ToolInit, ToolTypeOK, ReloadRecord
<1>. QED  BY <1>4, <1>5 DEF ToolTypeInv

\* One step of a reload, of a change of the shells, or of the tool host.
LEMMA ReloadTyped ==
  ASSUME ToolTypeInv, ReloadStep
  PROVE  ToolTypeInv'
<1>. USE DEF ToolTypeInv, ToolTypeOK
<1>0. NoTool \in Owner /\ Mcp(reload.conn) \in Owner
  BY DEF Owner
<1>1. CASE UnregisterOld
  <2>1. reload' \in ReloadRecord
    BY <1>1 DEF UnregisterOld, ReloadRecord
  <2>2. registry' \in [Names -> Owner]
    BY <1>1, WritesTyped DEF UnregisterOld
  <2>. QED  BY <1>1, <2>1, <2>2 DEF UnregisterOld, ReloadRecord
<1>2. CASE YieldShells
  <2>1. Yielding \subseteq BashNames
    BY DEF Yielding, OwnedShells
  <2>2. [n \in Names |-> IF n \in Yielding THEN registry[n] ELSE reload.saved[n]]
          \in [Names -> Owner]
    OBVIOUS
  <2>3. reload' \in ReloadRecord
    BY <1>2, <2>1, <2>2 DEF YieldShells, ReloadRecord
  <2>4. registry' \in [Names -> Owner]
    BY <1>2, WritesTyped DEF YieldShells
  <2>. QED  BY <1>2, <2>3, <2>4 DEF YieldShells, ReloadRecord
<1>3. CASE SwapGuard
  <2>1. reload' \in ReloadRecord
    BY <1>3 DEF SwapGuard, ReloadRecord
  <2>. QED  BY <1>3, <2>1 DEF SwapGuard, ReloadRecord
<1>4. CASE SettleShells
  <2>1. reload' \in ReloadRecord
    BY <1>4, RestingReload DEF SettleShells
  <2>2. registry' \in [Names -> Owner]
    BY <1>4, WritesTyped DEF SettleShells
  <2>. QED  BY <1>4, <2>1, <2>2 DEF SettleShells, ReloadRecord
<1>5. ASSUME NEW n \in Names, RegisterTool(n) PROVE ToolTypeInv'
  <2>1. reload' \in ReloadRecord
    BY <1>5 DEF RegisterTool, ReloadRecord
  <2>2. registry' \in [Names -> Owner]
    BY <1>0, <1>5, WritesTyped DEF RegisterTool
  <2>. QED  BY <1>5, <2>1, <2>2 DEF RegisterTool, ReloadRecord
<1>6. ASSUME NEW n \in Names, RollBack(n) PROVE ToolTypeInv'
  <2>1. reload' \in ReloadRecord
    BY <1>6, RestingReload DEF RollBack
  <2>2. Without(registry, reload.registered) \in [Names -> Owner]
    BY WritesTyped
  <2>3. registry' \in [Names -> Owner]
    BY <1>6, <2>2 DEF RollBack
  <2>. QED  BY <1>6, <2>1, <2>3 DEF RollBack, ReloadRecord
<1>. QED  BY <1>1, <1>2, <1>3, <1>4, <1>5, <1>6 DEF ReloadStep

LEMMA OtherToolStepsTyped ==
  ASSUME ToolTypeInv,
         \/ SwitchStep \/ HostDies \/ HostStarts \/ Return \/ UNCHANGED toolVars
         \/ \E by \in {"user", "ladder"} :
              FailedConnect(by) \/ \E names \in Offers : Connect(by, names)
  PROVE  ToolTypeInv'
<1>. USE NamesAssumption, ToolBoundsAssumption DEF ToolTypeInv, ToolTypeOK
<1>1. ASSUME NEW by \in {"user", "ladder"}, NEW names \in Offers, Connect(by, names)
      PROVE  ToolTypeInv'
  <2>1. reloads' \in 0 .. MaxReloads /\ reloads' \in Conns /\ names \subseteq Names
    <3>1. reloads' = reloads + 1 /\ reloads < MaxReloads
      BY <1>1 DEF Connect
    <3>2. reloads' \in 0 .. MaxReloads
      BY ONLY <3>1, reloads \in 0 .. MaxReloads, ToolBoundsAssumption
    <3>. QED  BY <3>2 DEF Conns
  <2>2. reload' \in ReloadRecord
    <3>1. NoReload \in ReloadRecord
      BY DEF NoReload, ReloadRecord, Owner, Conns
    <3>2. reload' = [NoReload EXCEPT !.phase = "swap", !.by = by, !.names = names,
                                     !.conn = reloads', !.oldNames = roster]
      BY <1>1 DEF Connect
    <3>. QED  BY <2>1, <3>1, <3>2 DEF ReloadRecord
  <2>3. healthy' \subseteq Conns
    BY <1>1, <2>1 DEF Connect
  <2>. QED  BY <1>1, <2>1, <2>2, <2>3 DEF Connect, ReloadRecord
<1>2. ASSUME NEW by \in {"user", "ladder"}, FailedConnect(by) PROVE ToolTypeInv'
  <2>1. reload' \in ReloadRecord
    BY <1>2, RestingReload DEF FailedConnect
  <2>. QED  BY <1>2, <2>1 DEF FailedConnect, ReloadRecord
<1>3. CASE Return
  <2>1. NoReload \in ReloadRecord
    BY DEF NoReload, ReloadRecord, Owner, Conns
  <2>. QED  BY <1>3, <2>1 DEF Return, ReloadRecord
<1>4. CASE SwitchStep
  <2>1. ASSUME NEW chosen \in SUBSET BashNames, SwitchShells(chosen) PROVE ToolTypeInv'
    BY <2>1 DEF SwitchShells, OwnedShells
  <2>2. CASE RegisterShells
    <3>1. registry' \in [Names -> Owner]
      BY <2>2, WritesTyped DEF RegisterShells
    <3>. QED  BY <2>2, <3>1 DEF RegisterShells, NoSwitch
  <2>. QED  BY <1>4, <2>1, <2>2 DEF SwitchStep
<1>5. CASE HostDies \/ HostStarts
  <2>1. deaths' \in 0 .. MaxDeaths
    <3>1. deaths' = deaths \/ (deaths < MaxDeaths /\ deaths' = deaths + 1)
      BY <1>5 DEF HostDies, HostStarts
    <3>. QED  BY ONLY <3>1, deaths \in 0 .. MaxDeaths, ToolBoundsAssumption
  <2>. QED  BY <1>5, <2>1 DEF HostDies, HostStarts
<1>6. CASE UNCHANGED toolVars
  BY <1>6 DEF toolVars
<1>. QED  BY <1>1, <1>2, <1>3, <1>4, <1>5, <1>6

\* The registry keeps its types, even if a change of the shells overlaps a
\* reload: every name has an owner that exists, and no connection is ever
\* held that no reload made.
THEOREM ToolsTypeCorrect == ToolSpec => []ToolTypeOK
<1>1. ToolTypeInv /\ [ToolNext]_toolVars => ToolTypeInv'
  BY ReloadTyped, OtherToolStepsTyped DEF ToolNext
<1>2. ToolTypeInv => ToolTypeOK
  BY DEF ToolTypeInv
<1>. QED  BY ToolTypeInit, <1>1, <1>2, PTL DEF ToolSpec

-----------------------------------------------------------------------------
(* Recovery: the calls, the requests and the rounds that answer them.      *)
CallPc == {"idle", "sent", "waiting", "requested", "retry", "resent", "done"}

CallRecord == [pc : CallPc, name : Names, conn : Conns, entry : Nat,
               id : {0} \cup Ids, sends : 0 .. 2]

HandlerRecord ==
  [pc : {"none", "arrived", "queued", "probe", "reload", "reloading", "answering", "over"},
   entry : Nat, ok : BOOLEAN]

RecordsOK ==
  /\ ToolTypeInv
  /\ calls \in [Calls -> CallRecord]
  /\ handlers \in [Ids -> HandlerRecord]
  /\ answer \in [Ids -> {"none", "ok", "failed"}]
  /\ latch \in Calls \cup {NoCall}
  /\ generation \in Nat /\ round \in Nat /\ nextId \in Nat \ {0}
  /\ cooling \in BOOLEAN /\ ended \in BOOLEAN /\ down \in BOOLEAN
  /\ pending \subseteq Ids
  /\ ladder \in {0} \cup Ids
  /\ overtaken \subseteq Calls

\* A call is sent at most twice; it remembers a generation of the past, and
\* one that was overtaken while it waited sees so behind the latch.
CallOK(c) ==
  /\ calls[c].pc = "idle" => calls[c].sends = 0
  /\ calls[c].pc \in {"sent", "waiting", "requested", "retry"} => calls[c].sends = 1
  /\ calls[c].entry <= generation
  /\ calls[c].pc = "requested" => calls[c].id \in 1 .. nextId - 1
  /\ c \in overtaken => /\ calls[c].pc \notin {"idle", "sent"}
                        /\ calls[c].pc = "waiting" => calls[c].entry < generation

\* Calls that may still ask; every other one asked once or never will.
MayAsk == {c \in Calls : calls[c].pc \in {"idle", "sent", "waiting"}}

AsksOnce == nextId - 1 + Cardinality(MayAsk) <= Cardinality(Calls)

\* Nothing is known of an id that was not given out, and what is known of
\* one that was is the application's word or the shutdown's.
AnswersOK ==
  /\ \A i \in pending : i < nextId
  /\ \A i \in Ids : i >= nextId => answer[i] = "none"
  /\ \A i \in Ids : answer[i] # "none" =>
       \/ handlers[i].pc = "over" /\ handlers[i].ok = (answer[i] = "ok")
       \/ down /\ answer[i] = "failed"

RInv ==
  /\ RecordsOK
  /\ \A c \in Calls : CallOK(c)
  /\ AsksOnce
  /\ AnswersOK
  /\ ended => cooling

-----------------------------------------------------------------------------
(* Facts about the operators.                                              *)

LEMMA CallsCounted ==
  /\ Cardinality(Calls) \in Nat
  /\ \A S \in SUBSET Calls : IsFiniteSet(S) /\ Cardinality(S) \in Nat
BY CallsAssumption, FS_CardinalityType, FS_Subset

LEMMA IdleTyped == Idle \in CallRecord
<1>1. (CHOOSE n \in Names : TRUE) \in Names
  BY CallsAssumption
<1>. QED  BY <1>1, ToolBoundsAssumption DEF Idle, CallRecord, CallPc, Conns

LEMMA EndedTyped ==
  ASSUME NEW k \in CallRecord
  PROVE  /\ Ended(k) \in CallRecord
         /\ Ended(k).pc = "done" /\ Ended(k).entry = 0 /\ Ended(k).sends = k.sends
<1>1. Ended(k) = [Idle EXCEPT !.pc = "done", !.sends = k.sends]
  BY DEF Ended
<1>2. Idle.entry = 0
  BY DEF Idle
<1>. QED  BY <1>1, <1>2, IdleTyped DEF CallRecord, CallPc

\* While no call joins those that may ask, the requests that are to come
\* still fit.
LEMMA AsksOnceStays ==
  ASSUME AsksOnce, nextId \in Nat, nextId' = nextId, MayAsk' \subseteq MayAsk
  PROVE  AsksOnce'
<1>1. MayAsk \subseteq Calls
  BY DEF MayAsk
<1>2. /\ IsFiniteSet(MayAsk) /\ Cardinality(MayAsk) \in Nat
      /\ Cardinality(MayAsk') \in Nat /\ Cardinality(MayAsk') <= Cardinality(MayAsk)
  BY <1>1, CallsCounted, FS_Subset
<1>. QED  BY <1>2, CallsCounted DEF AsksOnce

\* A call that may ask finds an id.
LEMMA IdLeft ==
  ASSUME RInv, NEW c \in MayAsk
  PROVE  nextId \in Ids
<1>1. MayAsk \subseteq Calls
  BY DEF MayAsk
<1>2. IsFiniteSet(MayAsk) /\ Cardinality(MayAsk) \in Nat /\ Cardinality(MayAsk) # 0
  BY <1>1, CallsCounted, FS_EmptySet
<1>3. nextId \in Nat \ {0} /\ nextId - 1 + Cardinality(MayAsk) <= Cardinality(Calls)
  BY DEF RInv, RecordsOK, AsksOnce
<1>. QED  BY <1>2, <1>3, CallsCounted DEF Ids

-----------------------------------------------------------------------------
(* The start.                                                              *)

LEMMA RInit == Init => RInv
<1>. SUFFICES ASSUME Init PROVE RInv
  OBVIOUS
<1>1. RecordsOK
  <2>1. ToolTypeInv
    BY ToolTypeInit DEF Init
  <2>2. handlers \in [Ids -> HandlerRecord]
    BY DEF Init, NoHandler, HandlerRecord
  <2>3. calls \in [Calls -> CallRecord]
    BY IdleTyped DEF Init
  <2>4. /\ answer \in [Ids -> {"none", "ok", "failed"}] /\ latch = NoCall
        /\ generation = 0 /\ round = 0 /\ nextId = 1 /\ pending = {} /\ ladder = 0
        /\ overtaken = {}
    BY DEF Init
  <2>5. cooling \in BOOLEAN /\ ended \in BOOLEAN /\ down \in BOOLEAN
    BY Zenon DEF Init
  <2>. QED  BY <2>1, <2>2, <2>3, <2>4, <2>5 DEF RecordsOK
<1>2. \A c \in Calls : CallOK(c)
  BY DEF Init, Idle, CallOK
<1>3. AsksOnce
  <2>1. MayAsk = Calls
    BY DEF Init, Idle, MayAsk
  <2>. QED  BY <2>1, CallsCounted DEF Init, AsksOnce
<1>4. AnswersOK /\ (ended => cooling)
  BY DEF Init, AnswersOK
<1>. QED  BY <1>1, <1>2, <1>3, <1>4 DEF RInv

-----------------------------------------------------------------------------
(* The steps of a call.                                                    *)

\* A step that moves one call and touches no request.
LEMMA OneCallMoves ==
  ASSUME RInv, NEW c \in Calls, NEW k \in CallRecord,
         calls' = [calls EXCEPT ![c] = k],
         UNCHANGED << toolVars, latch, generation, cooling, nextId, pending, answer,
                      handlers, ladder, round, down, ended, overtaken >>,
         k.pc # "requested",
         k.pc \in {"idle", "sent", "waiting"} => c \in MayAsk,
         CallOK(c)'
  PROVE  RInv'
<1>. USE DEF RInv
<1>1. calls' \in [Calls -> CallRecord] /\ calls'[c] = k
      /\ \A d \in Calls \ {c} : calls'[d] = calls[d]
  BY DEF RecordsOK
<1>2. ToolTypeInv'
  BY OtherToolStepsTyped DEF RecordsOK
<1>3. RecordsOK'
  BY <1>1, <1>2 DEF RecordsOK
<1>4. \A d \in Calls : CallOK(d)'
  BY <1>1 DEF CallOK
<1>5. MayAsk' \subseteq MayAsk
  BY <1>1 DEF MayAsk
<1>6. AsksOnce'
  BY <1>5, AsksOnceStays DEF RecordsOK
<1>7. AnswersOK' /\ (ended => cooling)'
  BY DEF AnswersOK
<1>. QED  BY <1>3, <1>4, <1>6, <1>7

\* Where a send leads: to the tool's connection, or at once to the end.
LEMMA SentIs ==
  ASSUME RInv, NEW c \in Calls, NEW n \in Names, NEW where \in CallPc,
         calls[c].sends \in 0 .. 1, Sent(c, n, where)
  PROVE  \E k \in CallRecord :
           /\ calls' = [calls EXCEPT ![c] = k]
           /\ \/ k.pc = where /\ k.sends = calls[c].sends + 1 /\ k.entry = calls[c].entry
              \/ k.pc = "done" /\ k.entry = 0
<1>1. calls[c] \in CallRecord /\ registry[n].conn \in Conns
  <2>1. 0 \in Conns
    BY ToolBoundsAssumption DEF Conns
  <2>2. registry[n] \in Owner
    BY DEF RInv, RecordsOK, ToolTypeInv, ToolTypeOK
  <2>3. registry[n].conn \in Conns
    BY <2>1, <2>2 DEF Owner, NoTool, Shell, Fixed, Mcp
  <2>. QED  BY <2>3 DEF RInv, RecordsOK
<1>2. CASE registry[n].kind = "mcp"
  <2>. DEFINE k == [calls[c] EXCEPT !.pc = where, !.name = n, !.conn = registry[n].conn,
                                    !.sends = calls[c].sends + 1]
  <2>1. k \in CallRecord /\ k.pc = where /\ k.sends = calls[c].sends + 1
        /\ k.entry = calls[c].entry
    <3>1. calls[c].sends + 1 \in 0 .. 2
      OBVIOUS
    <3>. QED  BY <1>1, <3>1 DEF CallRecord
  <2>2. calls' = [calls EXCEPT ![c] = k]
    <3>1. calls' = [calls EXCEPT ![c] =
                      IF registry[n].kind = "mcp" THEN k ELSE Ended(calls[c])]
      BY DEF Sent
    <3>. HIDE DEF k
    <3>. QED  BY <1>2, <3>1, Zenon
  <2>. HIDE DEF k
  <2>. QED  BY <2>1, <2>2
<1>3. CASE registry[n].kind # "mcp"
  <2>1. calls' = [calls EXCEPT ![c] = Ended(calls[c])]
    BY <1>3 DEF Sent, RInv, RecordsOK
  <2>. QED  BY <1>1, <2>1, EndedTyped
<1>. QED  BY <1>2, <1>3

LEMMA EndsIs ==
  ASSUME RInv, NEW c \in Calls, Ends(c)
  PROVE  \E k \in CallRecord :
           calls' = [calls EXCEPT ![c] = k] /\ k.pc = "done" /\ k.entry = 0
<1>1. calls[c] \in CallRecord
  BY DEF RInv, RecordsOK
<1>2. calls' = [calls EXCEPT ![c] = Ended(calls[c])]
  BY DEF Ends, RInv, RecordsOK
<1>. QED  BY <1>1, <1>2, EndedTyped

LEMMA SendsOK ==
  ASSUME RInv, NEW c \in Calls,
         \/ \E n \in Names : Send(c, n)
         \/ Answered(c) \/ LosesConnection(c) \/ LosesRetry(c) \/ Retry(c) \/ Skip(c)
  PROVE  RInv'
<1>0. /\ calls \in [Calls -> CallRecord] /\ calls[c] \in CallRecord /\ CallOK(c)
      /\ generation \in Nat
  BY DEF RInv, RecordsOK
<1>1. ASSUME NEW n \in Names, Send(c, n) PROVE RInv'
  <2>1. calls[c].sends = 0 /\ c \in MayAsk /\ c \notin overtaken
    BY <1>0, <1>1 DEF Send, CallOK, MayAsk
  <2>2. PICK k \in CallRecord :
           /\ calls' = [calls EXCEPT ![c] = k]
           /\ \/ k.pc = "sent" /\ k.sends = 1 /\ k.entry = calls[c].entry
              \/ k.pc = "done" /\ k.entry = 0
    BY <1>1, <2>1, SentIs DEF Send, CallPc
  <2>3. CallOK(c)'
    BY <1>0, <1>1, <2>1, <2>2 DEF CallOK, Send
  <2>. QED  BY <1>1, <2>1, <2>2, <2>3, OneCallMoves DEF Send
<1>2. CASE Answered(c) \/ LosesRetry(c)
  <2>1. PICK k \in CallRecord :
           calls' = [calls EXCEPT ![c] = k] /\ k.pc = "done" /\ k.entry = 0
    BY <1>2, EndsIs DEF Answered, LosesRetry
  <2>2. CallOK(c)'
    BY <1>0, <1>2, <2>1 DEF CallOK, Answered, LosesRetry
  <2>. QED  BY <1>2, <2>1, <2>2, OneCallMoves DEF Answered, LosesRetry
<1>3. CASE LosesConnection(c)
  <2>. DEFINE k == [calls[c] EXCEPT !.pc = "waiting", !.entry = generation]
  <2>1. k \in CallRecord /\ k.pc = "waiting" /\ k.sends = calls[c].sends /\ k.entry = generation
    BY <1>0 DEF CallRecord, CallPc
  <2>2. calls' = [calls EXCEPT ![c] = k] /\ calls[c].pc = "sent"
    BY <1>0, <1>3 DEF LosesConnection
  <2>3. CallOK(c)' /\ c \in MayAsk
    BY <1>0, <1>3, <2>1, <2>2 DEF CallOK, LosesConnection, MayAsk
  <2>. HIDE DEF k
  <2>. QED  BY <1>3, <2>1, <2>2, <2>3, OneCallMoves DEF LosesConnection
<1>4. CASE Retry(c)
  <2>1. calls[c].sends = 1 /\ calls[c].name \in Names
    BY <1>0, <1>4 DEF Retry, CallOK, CallRecord
  <2>2. PICK k \in CallRecord :
           /\ calls' = [calls EXCEPT ![c] = k]
           /\ \/ k.pc = "resent" /\ k.sends = 2 /\ k.entry = calls[c].entry
              \/ k.pc = "done" /\ k.entry = 0
    BY <1>4, <2>1, SentIs DEF Retry, CallPc
  <2>3. CallOK(c)'
    BY <1>0, <1>4, <2>2 DEF CallOK, Retry
  <2>. QED  BY <1>4, <2>2, <2>3, OneCallMoves DEF Retry
<1>5. CASE Skip(c)
  <2>. DEFINE k == [calls[c] EXCEPT !.pc = "retry"]
  <2>1. /\ k \in CallRecord /\ k.pc = "retry" /\ k.sends = calls[c].sends
        /\ k.entry = calls[c].entry
    BY <1>0 DEF CallRecord, CallPc
  <2>2. calls' = [calls EXCEPT ![c] = k] /\ calls[c].pc = "waiting"
    BY <1>0, <1>5 DEF Skip, Goto, HasLatch
  <2>3. CallOK(c)'
    BY <1>0, <1>5, <2>1, <2>2 DEF CallOK, Skip
  <2>. HIDE DEF k
  <2>. QED  BY <1>5, <2>1, <2>2, <2>3, OneCallMoves DEF Skip
<1>. QED  BY <1>1, <1>2, <1>3, <1>4, <1>5

LEMMA RequestOK ==
  ASSUME RInv, NEW c \in Calls, Request(c)
  PROVE  RInv'
<1>. USE DEF RInv
<1>0. /\ calls \in [Calls -> CallRecord] /\ calls[c] \in CallRecord /\ CallOK(c)
      /\ nextId \in Nat \ {0} /\ calls[c].pc = "waiting" /\ c \in MayAsk
  BY DEF RecordsOK, Request, HasLatch, MayAsk
<1>1. nextId \in Ids
  BY <1>0, IdLeft
<1>. DEFINE k == [calls[c] EXCEPT !.pc = "requested", !.id = nextId]
<1>2. /\ k \in CallRecord /\ k.pc = "requested" /\ k.id = nextId
      /\ k.sends = calls[c].sends /\ k.entry = calls[c].entry
  BY <1>0, <1>1 DEF CallRecord, CallPc
<1>3. calls' = [calls EXCEPT ![c] = k]
  BY <1>0 DEF Request
<1>. HIDE DEF k
<1>4. /\ calls' \in [Calls -> CallRecord] /\ calls'[c] = k
      /\ \A d \in Calls \ {c} : calls'[d] = calls[d]
  BY <1>0, <1>2, <1>3
<1>5. /\ nextId' = nextId + 1 /\ pending' = pending \cup {nextId} /\ latch' = c
      /\ UNCHANGED << toolVars, generation, cooling, answer, ladder, round, down,
                      ended, overtaken >>
  BY DEF Request
<1>6. /\ handlers' \in [Ids -> HandlerRecord]
      /\ \A i \in Ids \ {nextId} : handlers'[i] = handlers[i]
  <2>1. [NoHandler EXCEPT !.pc = "arrived"] \in HandlerRecord
    BY DEF NoHandler, HandlerRecord
  <2>. QED  BY <1>1, <2>1 DEF Request, RecordsOK
<1>7. ToolTypeInv'
  BY <1>5, OtherToolStepsTyped DEF RecordsOK
<1>8. RecordsOK'
  BY <1>0, <1>1, <1>4, <1>5, <1>6, <1>7 DEF RecordsOK
<1>9. \A d \in Calls : CallOK(d)'
  <2>1. CallOK(c)'
    BY <1>0, <1>2, <1>4, <1>5 DEF CallOK
  <2>2. ASSUME NEW d \in Calls \ {c} PROVE CallOK(d)'
    <3>1. CallOK(d) /\ calls'[d] = calls[d]
      BY <1>4
    <3>. QED  BY <1>0, <1>5, <3>1 DEF CallOK
  <2>. QED  BY <2>1, <2>2
<1>10. AsksOnce'
  <2>1. MayAsk' = MayAsk \ {c}
    BY <1>2, <1>4 DEF MayAsk
  <2>2. MayAsk \subseteq Calls
    BY DEF MayAsk
  <2>3. /\ IsFiniteSet(MayAsk) /\ Cardinality(MayAsk) \in Nat
        /\ Cardinality(MayAsk') = Cardinality(MayAsk) - 1
    BY <1>0, <2>1, <2>2, CallsCounted, FS_RemoveElement
  <2>. QED  BY <1>0, <1>5, <2>3, CallsCounted DEF AsksOnce
<1>11. AnswersOK'
  <2>1. answer[nextId] = "none"
    BY <1>0, <1>1 DEF AnswersOK
  <2>2. \A i \in pending' : i < nextId'
    BY <1>0, <1>5 DEF AnswersOK, RecordsOK, Ids
  <2>3. \A i \in Ids : i >= nextId' => answer'[i] = "none"
    BY <1>0, <1>5, <2>1 DEF AnswersOK, Ids
  <2>4. \A i \in Ids : answer'[i] # "none" =>
          \/ handlers'[i].pc = "over" /\ handlers'[i].ok = (answer'[i] = "ok")
          \/ down' /\ answer'[i] = "failed"
    BY <1>5, <1>6, <2>1 DEF AnswersOK
  <2>. QED  BY <2>2, <2>3, <2>4 DEF AnswersOK
<1>12. (ended => cooling)'
  BY <1>5
<1>. QED  BY <1>8, <1>9, <1>10, <1>11, <1>12

-----------------------------------------------------------------------------
(* The end of a round, and what ends calls from outside.                   *)

\* What the end of a round leaves to check: the requests.
LEMMA EndRoundOK ==
  ASSUME RInv, NEW c \in Calls, NEW ok \in BOOLEAN, calls[c].pc = "requested",
         EndRound(c, ok), pending' \subseteq pending,
         UNCHANGED << toolVars, nextId, answer, handlers, ladder, round, down >>
  PROVE  RInv'
<1>. USE DEF RInv
<1>0. /\ calls \in [Calls -> CallRecord] /\ calls[c] \in CallRecord /\ CallOK(c)
      /\ generation \in Nat
  BY DEF RecordsOK
<1>1. PICK k \in CallRecord :
         /\ calls' = [calls EXCEPT ![c] = k]
         /\ k.pc \in {"retry", "done"}
         /\ k.pc = "retry" => k.sends = 1
         /\ k.entry <= generation
  <2>1. CASE ok
    <3>. DEFINE k == [calls[c] EXCEPT !.pc = "retry"]
    <3>1. /\ k \in CallRecord /\ k.pc = "retry" /\ k.sends = calls[c].sends
          /\ k.entry = calls[c].entry
      BY <1>0 DEF CallRecord, CallPc
    <3>2. calls' = [calls EXCEPT ![c] = k]
      BY <1>0, <2>1 DEF EndRound, Goto
    <3>. HIDE DEF k
    <3>. QED  BY <1>0, <3>1, <3>2 DEF CallOK
  <2>2. CASE ~ok
    BY <1>0, <2>2, EndsIs DEF EndRound
  <2>. QED  BY <2>1, <2>2
<1>2. /\ calls' \in [Calls -> CallRecord] /\ calls'[c] = k
      /\ \A d \in Calls \ {c} : calls'[d] = calls[d]
  BY <1>0, <1>1
<1>3. /\ generation' \in Nat /\ generation <= generation'
      /\ latch' = NoCall /\ cooling' = TRUE /\ ended' = TRUE
      /\ overtaken' \subseteq Calls
      /\ \A d \in overtaken' \ overtaken :
            d \in Calls /\ calls[d].pc = "waiting" /\ generation' = generation + 1
  BY <1>0 DEF EndRound, RecordsOK
<1>4. RecordsOK'
  <2>1. ToolTypeInv'
    BY OtherToolStepsTyped DEF RecordsOK
  <2>. QED  BY <1>2, <1>3, <2>1 DEF RecordsOK
<1>5. \A d \in Calls : CallOK(d)'
  <2>1. CallOK(c)'
    BY <1>0, <1>1, <1>2, <1>3 DEF CallOK, CallRecord
  <2>2. ASSUME NEW d \in Calls \ {c} PROVE CallOK(d)'
    <3>1. CallOK(d) /\ calls'[d] = calls[d] /\ calls[d].entry \in Nat
      BY <1>0, <1>2 DEF CallRecord
    <3>. QED  BY <1>0, <1>3, <3>1 DEF CallOK
  <2>. QED  BY <2>1, <2>2
<1>6. AsksOnce'
  <2>1. MayAsk' \subseteq MayAsk
    BY <1>1, <1>2 DEF MayAsk
  <2>. QED  BY <2>1, AsksOnceStays DEF RecordsOK
<1>7. AnswersOK'
  BY DEF AnswersOK
<1>. QED  BY <1>3, <1>4, <1>5, <1>6, <1>7

LEMMA CancelTurnOK ==
  ASSUME RInv, CancelTurn
  PROVE  RInv'
<1>. USE DEF RInv
<1>0. calls \in [Calls -> CallRecord] /\ \A c \in Calls : CallOK(c)
  BY DEF RecordsOK
<1>1. ASSUME NEW c \in Calls
      PROVE  /\ calls'[c] \in CallRecord
             /\ \/ calls'[c] = calls[c] /\ calls[c].pc = "idle"
                \/ calls'[c].pc = "done" /\ calls'[c].entry = 0 /\ calls[c].pc # "idle"
  BY <1>0, EndedTyped DEF CancelTurn
<1>2. /\ calls' \in [Calls -> CallRecord] /\ latch' = NoCall
      /\ UNCHANGED << toolVars, generation, cooling, nextId, pending, answer,
                      handlers, ladder, round, down, ended, overtaken >>
  BY <1>1 DEF CancelTurn, LatchDropped
<1>3. RecordsOK'
  <2>1. ToolTypeInv'
    BY <1>2, OtherToolStepsTyped DEF RecordsOK
  <2>. QED  BY <1>2, <2>1 DEF RecordsOK
<1>4. ASSUME NEW c \in Calls PROVE CallOK(c)'
  <2>1. generation \in Nat
    BY DEF RecordsOK
  <2>. QED  BY <1>0, <1>1, <1>2, <2>1 DEF CallOK
<1>5. AsksOnce'
  <2>1. MayAsk' \subseteq MayAsk
    BY <1>1 DEF MayAsk
  <2>. QED  BY <1>2, <2>1, AsksOnceStays DEF RecordsOK
<1>6. AnswersOK' /\ (ended => cooling)'
  BY <1>2 DEF AnswersOK
<1>. QED  BY <1>3, <1>4, <1>5, <1>6

\* The calls as the requests see them do not change.
LEMMA CallsStay ==
  ASSUME RInv, UNCHANGED << calls, generation, nextId, overtaken >>
  PROVE  (\A c \in Calls : CallOK(c))' /\ AsksOnce'
<1>1. \A c \in Calls : CallOK(c)'
  BY DEF RInv, CallOK
<1>2. MayAsk' = MayAsk
  BY DEF MayAsk
<1>. QED  BY <1>1, <1>2 DEF RInv, AsksOnce

LEMMA OutsideOK ==
  ASSUME RInv, CooldownEnds \/ Shutdown \/ ToolStep \/ UNCHANGED vars
  PROVE  RInv'
<1>. USE DEF RInv
<1>1. UNCHANGED << calls, generation, nextId, overtaken >>
  BY DEF CooldownEnds, Shutdown, ToolStep, recoveryVars, vars
<1>2. ToolTypeInv'
  <2>1. CASE CooldownEnds \/ Shutdown \/ UNCHANGED vars
    BY <2>1, OtherToolStepsTyped DEF CooldownEnds, Shutdown, vars, RecordsOK
  <2>2. CASE ToolStep
    BY <2>2, ReloadTyped, OtherToolStepsTyped DEF ToolStep, RecordsOK
  <2>. QED  BY <2>1, <2>2
<1>3. RecordsOK' /\ AnswersOK' /\ (ended => cooling)'
  <2>1. CASE CooldownEnds
    BY <1>2, <2>1 DEF CooldownEnds, RecordsOK, AnswersOK
  <2>2. CASE Shutdown
    <3>1. /\ down' = TRUE /\ pending' = {}
          /\ answer' = [i \in Ids |-> IF i \in pending THEN "failed" ELSE answer[i]]
          /\ UNCHANGED << toolVars, calls, latch, generation, cooling, nextId,
                          handlers, ladder, round, ended, overtaken >>
      BY <2>2 DEF Shutdown
    <3>2. RecordsOK'
      BY <1>2, <3>1 DEF RecordsOK
    <3>3. ASSUME NEW i \in Ids, i >= nextId PROVE answer'[i] = "none"
      <4>1. i \notin pending
        BY <3>3 DEF AnswersOK, RecordsOK, Ids
      <4>. QED  BY <3>1, <3>3, <4>1 DEF AnswersOK
    <3>4. ASSUME NEW i \in Ids, answer'[i] # "none"
          PROVE  \/ handlers'[i].pc = "over" /\ handlers'[i].ok = (answer'[i] = "ok")
                 \/ down' /\ answer'[i] = "failed"
      BY <3>1, <3>4 DEF AnswersOK
    <3>. QED  BY <3>1, <3>2, <3>3, <3>4 DEF AnswersOK
  <2>3. CASE ToolStep \/ UNCHANGED vars
    <3>1. UNCHANGED << calls, latch, generation, cooling, nextId, pending, answer,
                       handlers, ladder, round, down, ended, overtaken >>
      BY <2>3 DEF ToolStep, recoveryVars, vars
    <3>. QED  BY <1>2, <3>1 DEF RecordsOK, AnswersOK
  <2>. QED  BY <2>1, <2>2, <2>3
<1>. QED  BY <1>1, <1>3, CallsStay

-----------------------------------------------------------------------------
(* The steps of the application.                                           *)

\* A step of a handler that has not answered, and that answers nothing.
LEMMA HandlerMoves ==
  ASSUME RInv, ToolTypeInv', NEW i \in Ids, NEW h \in HandlerRecord,
         handlers' = [handlers EXCEPT ![i] = h], handlers[i].pc # "over",
         ladder' \in {0} \cup Ids, round' \in Nat,
         UNCHANGED << calls, latch, generation, cooling, nextId, pending,
                      answer, down, ended, overtaken >>
  PROVE  RInv'
<1>. USE DEF RInv
<1>1. handlers' \in [Ids -> HandlerRecord] /\ \A j \in Ids \ {i} : handlers'[j] = handlers[j]
  BY DEF RecordsOK
<1>2. RecordsOK'
  BY <1>1 DEF RecordsOK
<1>3. AnswersOK'
  BY <1>1 DEF AnswersOK
<1>. QED  BY <1>2, <1>3, CallsStay

\* A ladder that is over leaves an answer to give.
LEMMA OverIs ==
  ASSUME RInv, NEW i \in Ids, NEW ok \in BOOLEAN, Over(i, ok)
  PROVE  /\ \E h \in HandlerRecord : handlers' = [handlers EXCEPT ![i] = h]
         /\ ladder' = 0 /\ round' \in Nat
<1>1. handlers[i] \in HandlerRecord /\ round \in Nat
  BY DEF RInv, RecordsOK
<1>. DEFINE over == [handlers[i] EXCEPT !.pc = "answering", !.ok = ok]
<1>2. over \in HandlerRecord
  BY <1>1 DEF HandlerRecord
<1>3. handlers' = [handlers EXCEPT ![i] = over]
  BY Zenon DEF Over, Handler
<1>. HIDE DEF over
<1>4. ladder' = 0 /\ round' = round + 1
  BY DEF Over
<1>5. \E h \in HandlerRecord : handlers' = [handlers EXCEPT ![i] = h]
  BY ONLY <1>2, <1>3, Zenon
<1>6. round' \in Nat
  BY ONLY <1>1, <1>4
<1>. QED  BY ONLY <1>4, <1>5, <1>6

LEMMA HandlerStepOK ==
  ASSUME RInv, NEW i \in Ids, HandlerStep(i)
  PROVE  RInv'
<1>0. /\ handlers \in [Ids -> HandlerRecord] /\ handlers[i] \in HandlerRecord
      /\ round \in Nat /\ ladder \in {0} \cup Ids /\ ToolTypeInv
  BY DEF RInv, RecordsOK
<1>1. \A where \in {"probe", "reload", "reloading"} :
         [handlers[i] EXCEPT !.pc = where] \in HandlerRecord
  BY <1>0 DEF HandlerRecord
<1>2. \A ok \in BOOLEAN : Over(i, ok) =>
         /\ \E h \in HandlerRecord : handlers' = [handlers EXCEPT ![i] = h]
         /\ ladder' = 0 /\ round' \in Nat
  BY OverIs
<1>3. CASE ReadRound(i)
  <2>1. [handlers[i] EXCEPT !.pc = "queued", !.entry = round] \in HandlerRecord
    BY <1>0 DEF HandlerRecord
  <2>2. ToolTypeInv'
    BY <1>0, <1>3, OtherToolStepsTyped DEF ReadRound
  <2>. QED  BY <1>0, <1>3, <2>1, <2>2, HandlerMoves DEF ReadRound, Handler
<1>4. CASE ShareLadder(i) \/ LadderBreaks(i)
  <2>1. ToolTypeInv'
    BY <1>0, <1>4, OtherToolStepsTyped DEF ShareLadder, LadderBreaks
  <2>2. hostAlive \in BOOLEAN
    BY <1>0 DEF ToolTypeInv, ToolTypeOK
  <2>3. \E ok \in BOOLEAN : Over(i, ok)
    BY <1>4, <2>2, Zenon DEF ShareLadder, LadderBreaks
  <2>4. PICK h \in HandlerRecord : handlers' = [handlers EXCEPT ![i] = h]
    BY <1>2, <2>3
  <2>5. ladder' = 0 /\ round' \in Nat
    BY <1>2, <2>3
  <2>. QED  BY <1>0, <1>4, <2>1, <2>4, <2>5, HandlerMoves DEF ShareLadder, LadderBreaks
<1>5. CASE ClimbLadder(i) \/ FindsHostAlive(i)
  <2>1. ToolTypeInv'
    BY <1>0, <1>5, OtherToolStepsTyped DEF ClimbLadder, FindsHostAlive
  <2>. QED  BY <1>0, <1>1, <1>5, <2>1, HandlerMoves DEF ClimbLadder, FindsHostAlive, Handler
<1>6. CASE RestartHost(i) \/ LadderReloads(i)
  <2>1. ToolTypeInv'
    BY <1>0, <1>6, OtherToolStepsTyped DEF RestartHost, LadderReloads
  <2>. QED  BY <1>0, <1>1, <1>6, <2>1, HandlerMoves DEF RestartHost, LadderReloads, Handler
<1>7. CASE LadderEnds(i)
  <2>1. ToolTypeInv'
    BY <1>0, <1>7, OtherToolStepsTyped DEF LadderEnds
  <2>2. \E ok \in BOOLEAN : Over(i, ok)
    BY <1>7, Zenon DEF LadderEnds
  <2>3. PICK h \in HandlerRecord : handlers' = [handlers EXCEPT ![i] = h]
    BY <1>2, <2>2
  <2>4. ladder' = 0 /\ round' \in Nat
    BY <1>2, <2>2
  <2>. QED  BY <1>0, <1>7, <2>1, <2>3, <2>4, HandlerMoves DEF LadderEnds
<1>8. CASE Resolve(i)
  <2>. USE DEF RInv
  <2>. DEFINE word == IF handlers[i].ok THEN "ok" ELSE "failed"
  <2>1. /\ handlers' = [handlers EXCEPT ![i] = [handlers[i] EXCEPT !.pc = "over"]]
        /\ pending' = pending \ Entry(i) /\ Entry(i) = pending \cap {i}
        /\ answer' = [j \in Ids |-> IF j \notin Entry(i) THEN answer[j] ELSE word]
        /\ handlers[i].pc = "answering"
        /\ UNCHANGED << toolVars, calls, latch, generation, cooling, nextId,
                        ladder, round, down, ended, overtaken >>
    BY <1>8 DEF Resolve, Handler, Entry
  <2>2. /\ handlers' \in [Ids -> HandlerRecord] /\ handlers'[i].pc = "over"
        /\ handlers'[i].ok = handlers[i].ok
        /\ \A j \in Ids \ {i} : handlers'[j] = handlers[j]
    BY <1>0, <2>1 DEF HandlerRecord
  <2>3. word \in {"ok", "failed"} /\ handlers[i].ok = (word = "ok")
    BY <1>0 DEF HandlerRecord
  <2>. HIDE DEF word
  <2>4. ToolTypeInv'
    BY <1>0, <2>1, OtherToolStepsTyped
  <2>5. RecordsOK'
    BY <2>1, <2>2, <2>3, <2>4 DEF RecordsOK
  <2>6. \A j \in Ids : answer'[j] = IF j = i /\ i \in pending THEN word ELSE answer[j]
    BY <2>1
  <2>7. ASSUME NEW j \in Ids, answer'[j] # "none"
        PROVE  \/ handlers'[j].pc = "over" /\ handlers'[j].ok = (answer'[j] = "ok")
               \/ down' /\ answer'[j] = "failed"
    <3>1. CASE j = i /\ i \in pending
      BY <2>2, <2>3, <2>6, <3>1
    <3>2. CASE ~ (j = i /\ i \in pending)
      <4>1. answer'[j] = answer[j]
        BY <2>6, <3>2
      <4>. QED  BY <2>1, <2>2, <2>7, <4>1 DEF AnswersOK
    <3>. QED  BY <3>1, <3>2
  <2>8. \A j \in Ids : j >= nextId' => answer'[j] = "none"
    <3>1. SUFFICES ASSUME NEW j \in Ids, j >= nextId PROVE answer'[j] = "none"
      BY <2>1
    <3>2. j \notin pending
      BY <3>1 DEF AnswersOK, RecordsOK, Ids
    <3>. QED  BY <2>6, <3>1, <3>2 DEF AnswersOK
  <2>9. AnswersOK'
    BY <2>1, <2>7, <2>8 DEF AnswersOK
  <2>. QED  BY <2>1, <2>5, <2>9, CallsStay
<1>. QED  BY <1>3, <1>4, <1>5, <1>6, <1>7, <1>8 DEF HandlerStep

-----------------------------------------------------------------------------
(* The theorems.                                                           *)

LEMMA RStep == RInv /\ [Next]_vars => RInv'
<1>. SUFFICES ASSUME RInv, [Next]_vars PROVE RInv'
  OBVIOUS
<1>1. ASSUME NEW c \in Calls, CallStep(c) \/ \E n \in Names : Send(c, n) PROVE RInv'
  <2>1. CASE ReceiveAnswer(c)
    <3>1. (answer[calls[c].id] = "ok") \in BOOLEAN
      OBVIOUS
    <3>. QED  BY <2>1, <3>1, EndRoundOK DEF ReceiveAnswer
  <2>2. CASE GivesUp(c)
    BY <2>2, EndRoundOK DEF GivesUp
  <2>. QED  BY <1>1, <2>1, <2>2, SendsOK, RequestOK DEF CallStep
<1>. QED  BY <1>1, HandlerStepOK, CancelTurnOK, OutsideOK DEF Next

THEOREM RecoveryInvariance == Spec => []RInv
BY RInit, RStep, PTL DEF Spec

\* Whatever is lost, cancelled, given up or shut down: no call is sent more
\* than twice, and the calls ask the application at most once each, so that
\* the ids of the host calls are bounded by the calls (mcp_recovery.rs:
\* one recovery and one retry for a call).
THEOREM RecoveryTypeCorrect == Spec => []TypeOK
<1>1. RInv => TypeOK
  <2>. SUFFICES ASSUME RInv PROVE TypeOK
    OBVIOUS
  <2>1. nextId \in 1 .. Cardinality(Calls) + 1
    <3>1. Cardinality(MayAsk) \in Nat
      BY CallsCounted DEF MayAsk
    <3>. QED  BY <3>1, CallsCounted DEF RInv, RecordsOK, AsksOnce
  <2>2. ASSUME NEW c \in Calls
        PROVE  /\ calls[c] \in CallRecord /\ calls[c].entry \in 0 .. generation
    BY DEF RInv, RecordsOK, CallRecord, CallOK
  <2>3. ToolTypeOK
    BY DEF RInv, RecordsOK, ToolTypeInv
  <2>. QED  BY <2>1, <2>2, <2>3 DEF RInv, RecordsOK, TypeOK, CallRecord, CallPc
<1>. QED  BY <1>1, RecoveryInvariance, PTL

\* A request is answered with the application's answer to that request or
\* with the shutdown's refusal, however late answers, time-outs,
\* cancellations and further requests follow one another (hostcall.rs).
THEOREM OwnAnswers == Spec => []AnswersOwnRequest
<1>1. RInv => AnswersOwnRequest
  <2>. SUFFICES ASSUME RInv, NEW c \in Calls, calls[c].pc = "requested",
                       answer[calls[c].id] # "none"
                PROVE  \/ handlers[calls[c].id].pc = "over"
                          /\ handlers[calls[c].id].ok = (answer[calls[c].id] = "ok")
                       \/ down /\ answer[calls[c].id] = "failed"
    BY DEF AnswersOwnRequest
  <2>1. calls[c].id \in {0} \cup Ids /\ calls[c].id \in 1 .. nextId - 1
    BY DEF RInv, RecordsOK, CallRecord, CallOK
  <2>2. calls[c].id \in Ids
    BY <2>1 DEF RInv, RecordsOK
  <2>. QED  BY <2>2 DEF RInv, AnswersOK
<1>. QED  BY <1>1, RecoveryInvariance, PTL

\* A recovery is asked for only by a call that failed after the last round
\* that succeeded, and not within the cooldown of any round
\* (mcp_recovery.rs run_recovery).
THEOREM JustifiedRequests == Spec => RequestsJustified
<1>. DEFINE Justified == \A c \in Calls : calls[c].pc # "requested" /\ calls'[c].pc = "requested"
                            => ~ended /\ c \notin overtaken
<1>1. RInv /\ [Next]_vars => [Justified]_vars
  <2>. SUFFICES ASSUME RInv, Next, NEW c \in Calls,
                       calls[c].pc # "requested", calls'[c].pc = "requested"
                PROVE  ~ended /\ c \notin overtaken
    OBVIOUS
  <2>1. calls \in [Calls -> CallRecord] /\ CallOK(c) /\ generation \in Nat
    BY DEF RInv, RecordsOK
  <2>2. Request(c)
    <3>1. ASSUME NEW d \in Calls, CallStep(d) \/ \E n \in Names : Send(d, n)
          PROVE  Request(c)
      <4>1. d # c => calls'[c] = calls[c]
        BY <2>1, <3>1 DEF CallStep, Send, Answered, LosesConnection, LosesRetry, Retry, Skip,
                          Request, ReceiveAnswer, GivesUp, EndRound, Goto, Ends, Sent
      <4>2. d = c
        BY <4>1
      <4>3. Request(c) \/ calls'[c].pc # "requested"
        <5>1. CASE \/ \E n \in Names : Send(c, n)
                   \/ Retry(c)
          <6>1. PICK n \in Names, where \in {"sent", "resent"} : Sent(c, n, where)
            BY <2>1, <5>1 DEF Send, Retry, CallRecord
          <6>2. calls[c].sends \in 0 .. 1
            BY <2>1, <5>1 DEF Send, Retry, CallOK
          <6>. QED  BY <2>1, <6>1, <6>2, SentIs DEF CallPc
        <5>2. CASE Answered(c) \/ LosesRetry(c)
          BY <2>1, <5>2, EndsIs DEF Answered, LosesRetry
        <5>3. CASE LosesConnection(c) \/ Skip(c)
          BY <2>1, <5>3 DEF LosesConnection, Skip, Goto, CallRecord
        <5>4. CASE ReceiveAnswer(c) \/ GivesUp(c)
          BY <5>4 DEF ReceiveAnswer, GivesUp
        <5>. QED  BY <3>1, <4>2, <5>1, <5>2, <5>3, <5>4 DEF CallStep
      <4>. QED  BY <4>3
    <3>2. CASE CancelTurn
      BY <2>1, <3>2, EndedTyped DEF CancelTurn
    <3>3. CASE (\E i \in Ids : HandlerStep(i)) \/ CooldownEnds \/ Shutdown \/ ToolStep
      <4>1. calls' = calls
        BY <3>3 DEF HandlerStep, ReadRound, ShareLadder, ClimbLadder, FindsHostAlive, RestartHost,
                    LadderBreaks, LadderReloads, LadderEnds, Resolve, CooldownEnds, Shutdown,
                    ToolStep, recoveryVars
      <4>. QED  BY <4>1
    <3>. QED  BY <3>1, <3>2, <3>3 DEF Next
  <2>3. ~cooling /\ ~(generation > calls[c].entry) /\ calls[c].pc = "waiting"
    BY <2>2 DEF Request, HasLatch, SharesRound
  <2>. QED  BY <2>1, <2>3 DEF RInv, RecordsOK, CallOK, CallRecord
<1>2. Spec => [][Justified]_vars
  BY <1>1, RecoveryInvariance, PTL DEF Spec
<1>. QED  BY <1>2 DEF RequestsJustified

\* The registry is right at rest, and no tool is offered on a dropped
\* connection, also when reloads of the recovery ladder come between the
\* user's (RuntimeBridge.kt: one reloadMcpMutex for both).
THEOREM SettledUnderRecovery ==
  ASSUME Serial PROVE Spec => [](RegistrySettled /\ ToolsOnOpenConnections)
<1>1. Init => IInv
  BY InitOK DEF Init
<1>2. IInv /\ [Next]_vars => IInv'
  <2>. SUFFICES ASSUME IInv, [Next]_vars PROVE IInv'
    OBVIOUS
  <2>1. CASE UNCHANGED toolVars
    BY <2>1, BystanderOK DEF toolVars
  <2>2. CASE ToolStep
    BY <2>2, StepOK DEF ToolStep, ToolNext
  <2>3. ASSUME NEW i \in Ids, RestartHost(i) \/ LadderReloads(i) \/ LadderEnds(i) PROVE IInv'
    BY <2>3, BystanderOK, ConnectOK, FailedConnectOK, ReturnOK
       DEF RestartHost, LadderReloads, LadderEnds, HostStarts
  <2>. QED  BY <2>1, <2>2, <2>3
       DEF Next, vars, CallStep, Send, Answered, LosesConnection, LosesRetry, Retry, Skip, Request,
           ReceiveAnswer, GivesUp, HandlerStep, ReadRound, ShareLadder, ClimbLadder,
           FindsHostAlive, LadderBreaks, Resolve, CooldownEnds, CancelTurn, Shutdown
<1>. QED  BY <1>1, <1>2, SettledInv, ToolsOpenInv, PTL DEF Spec
=============================================================================
