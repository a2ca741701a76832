-------------------------- MODULE DelegationProofs --------------------------
(***************************************************************************)
(* Theorems about Delegation, for every tree of agents, every batch a      *)
(* model may answer with and all limits.                                   *)
(*                                                                         *)
(* IInv says where the layers of a run stand: they form a path, all but    *)
(* the last await the call_agent of the next, and only the last one acts.  *)
(* Most steps change one layer and nothing of that path (StepOnTop); the   *)
(* others lengthen it (StepDown), shorten it (StepUp) or drop it           *)
(* (StepAway).                                                             *)
(***************************************************************************)
EXTENDS Delegation, SequenceTheorems, TLAPS

-----------------------------------------------------------------------------
(* The parts of the inductive invariant.                                   *)

Place == {"none", "start", "top", "stream", "serial", "admit", "asking", "running",
          "flight", "waits"}
InBatch == {"serial", "admit", "asking", "running", "flight", "waits"}
AtCall == {"serial", "admit", "asking", "running", "waits"}
Outcomes == {"running", "completed", "interrupted", "failed", "aborted"}

Layers == [at : Place, calls : Seq(Call), next : Nat, flight : SUBSET Nat, steps : Nat,
           serial : BOOLEAN, caller : Nat]
Nodes == [agent : Agents, parent : {0} \cup Node, depth : 0 .. MaxDepth - 1,
          status : {"none", "running", "completed", "failed"}]

(* A layer in a batch stands at a call of it; the names decided how.       *)
LayerOK(l) ==
  /\ l \in Layers
  /\ l.flight \subseteq 1 .. Len(l.calls)
  /\ l.at \in AtCall => l.next \in 1 .. Len(l.calls)
  /\ l.at = "flight" => l.next = Len(l.calls) + 1
  /\ l.at \in InBatch => l.serial = Serially(l.calls)
  /\ l.at \in {"serial", "running", "waits"} => l.serial
  /\ l.at \in {"admit", "flight"} => ~l.serial
  /\ l.at = "asking" => Now(l).name \in Guarded

Acts(l) == l.at \notin {"none", "start", "waits"}

Shapes ==
  /\ tree \in [Node -> Nodes]
  /\ layer \in [Node -> Layers]
  /\ \A n \in Node : LayerOK(layer[n])
  /\ frames \in Seq(Node)
  /\ childCalls \in 0 .. MaxChildCalls
  /\ outcome \in Outcomes

(* Before run_root there is nothing but the root's node.                   *)
NotStarted ==
  layer[Root].at = "start" =>
    /\ frames = <<>> /\ outcome = "running" /\ childCalls = 0
    /\ \A n \in Node \ {Root} : layer[n].at = "none" /\ tree[n].status = "none"
    /\ tree[Root].status = "running"

(* The layers of a run that is on.                                         *)
OnPath ==
  /\ frames # <<>> /\ frames[1] = Root
  /\ Acts(layer[Top])
  /\ \A i \in 1 .. Len(frames) - 1 : layer[frames[i]].at = "waits"
  /\ \A i, j \in 1 .. Len(frames) : frames[i] = frames[j] => i = j
  /\ \A i \in 2 .. Len(frames) :
       layer[frames[i]].caller = frames[i - 1] /\ tree[frames[i]].parent = frames[i - 1]
  /\ \A i \in 1 .. Len(frames) :
       tree[frames[i]].status = "running" /\ frames[i] <= childCalls + 1
  /\ \A n \in Node :
       (\A i \in 1 .. Len(frames) : frames[i] # n) =>
         layer[n].at = "none" /\ tree[n].status # "running"

Path ==
  /\ layer[Root].caller = 0 /\ tree[Root].parent = 0
  /\ outcome = "running" /\ layer[Root].at # "start" => OnPath
  /\ outcome # "running" => \A n \in Node : layer[n].at = "none"
  /\ \A n \in Node \ {Root} : layer[n].at # "start"

Shape == Shapes /\ NotStarted /\ Path

Budget ==
  /\ toolCalls \in Nat /\ started \in Nat
  /\ MaxToolCalls > 0 =>
       /\ started <= toolCalls /\ started <= MaxToolCalls
       /\ toolCalls <= MaxToolCalls + MaxBridge
       /\ \A n \in Node : layer[n].at = "running" => toolCalls <= MaxToolCalls

Flags ==
  /\ denials \in [Names -> Nat]
  /\ tripped \in BOOLEAN /\ cancelled \in BOOLEAN /\ suspended \in BOOLEAN /\ online \in BOOLEAN
  /\ ask \in {"none", "asked"} \cup Answers
  /\ allowed \subseteq Guarded
  /\ stop \in {"up", "denied", "waiting", "down"}

Watched ==
  /\ layer[Root].at = "start" => ~tripped
  /\ WatchdogAborts

IInv == Shape /\ Budget /\ Flags /\ Watched

-----------------------------------------------------------------------------
(* Layers.                                                                 *)

(* NoLayer and Now have the types that the steps need.                     *)
LEMMA NoLayerOK == LayerOK(NoLayer)
  BY DEF LayerOK, NoLayer, Layers, Place, InBatch, AtCall

LEMMA NowType ==
  ASSUME NEW l, LayerOK(l), l.at \in AtCall
  PROVE  Now(l) \in Call /\ (Now(l).name = "call_agent" => l.serial)
  <1>1. l.calls \in Seq(Call) /\ l.next \in 1 .. Len(l.calls)
    BY DEF LayerOK, Layers
  <1>2. l.calls[l.next] \in Call /\ l.next \in DOMAIN l.calls
    BY <1>1, ElementOfSeq, LenProperties
  <1>3. Now(l).name = "call_agent" => Serially(l.calls)
    BY <1>2 DEF Now, Serially
  <1> QED BY <1>2, <1>3 DEF Now, LayerOK, AtCall, InBatch

(* A layer whose call is answered acts on, in the same place of the path.  *)
LEMMA AnsweredOK ==
  ASSUME NEW l, LayerOK(l), l.at \in AtCall, l.serial
  PROVE  /\ LayerOK(Answered(l)) /\ Acts(Answered(l))
         /\ Answered(l).caller = l.caller /\ Answered(l).at # "running"
  <1>1. /\ l \in Layers /\ l.next \in 1 .. Len(l.calls) /\ Len(l.calls) \in Nat
        /\ l.flight \subseteq 1 .. Len(l.calls) /\ l.serial = Serially(l.calls)
    BY LenProperties DEF LayerOK, Layers, InBatch, AtCall
  <1>2. /\ Answered(l) \in Layers /\ Answered(l).calls = l.calls /\ Answered(l).serial = l.serial
        /\ Answered(l).flight = l.flight /\ Answered(l).next = l.next + 1
        /\ Answered(l).caller = l.caller
        /\ Answered(l).at = IF l.next = Len(l.calls) THEN "top" ELSE "serial"
    <2>1. l.next \in Nat /\ l.next + 1 \in Nat
      BY <1>1
    <2> QED BY <1>1, <2>1 DEF Answered, Layers, Place
  <1> QED BY <1>1, <1>2 DEF LayerOK, InBatch, AtCall, Acts

LEMMA PolledOK ==
  ASSUME NEW l, NEW flying \in BOOLEAN, LayerOK(l), l.at \in AtCall, ~l.serial
  PROVE  /\ LayerOK(Polled(l, flying)) /\ Acts(Polled(l, flying))
         /\ Polled(l, flying).caller = l.caller /\ Polled(l, flying).at # "running"
  <1> DEFINE flight == l.flight \cup (IF flying THEN {l.next} ELSE {})
             p == Polled(l, flying)
  <1>1. /\ l \in Layers /\ l.next \in 1 .. Len(l.calls) /\ Len(l.calls) \in Nat
        /\ l.flight \subseteq 1 .. Len(l.calls) /\ l.serial = Serially(l.calls)
    BY LenProperties DEF LayerOK, Layers, InBatch, AtCall
  <1>2. flight \subseteq 1 .. Len(l.calls) /\ flight \in SUBSET Nat
    BY <1>1
  <1>3. /\ p \in Layers /\ p.calls = l.calls /\ p.serial = l.serial
        /\ p.flight = flight /\ p.next = l.next + 1 /\ p.caller = l.caller
        /\ p.at = IF l.next < Len(l.calls) THEN "admit"
                  ELSE IF flight = {} THEN "top" ELSE "flight"
    <2>1. l.next \in Nat /\ l.next + 1 \in Nat
      BY <1>1
    <2> HIDE DEF flight
    <2>2. p = [l EXCEPT !.next = @ + 1, !.flight = flight,
                !.at = IF l.next < Len(l.calls) THEN "admit"
                       ELSE IF flight = {} THEN "top" ELSE "flight"]
      BY DEF Polled, flight
    <2> QED BY <1>1, <1>2, <2>1, <2>2 DEF Layers, Place
  <1> QED BY <1>1, <1>2, <1>3 DEF LayerOK, InBatch, AtCall, Acts

-----------------------------------------------------------------------------
(* The four shapes of a step.                                              *)

(* The caller stack is a sequence of nodes.                                *)
LEMMA StackType ==
  ASSUME Shape
  PROVE  /\ frames \in Seq(Node) /\ Len(frames) \in Nat /\ Root \in Node
         /\ \A i \in 1 .. Len(frames) : frames[i] \in Node
  <1>1. frames \in Seq(Node)
    BY DEF Shape, Shapes
  <1>2. Len(frames) \in Nat
    BY <1>1, LenProperties
  <1>3. \A i \in 1 .. Len(frames) : frames[i] \in Node
    BY <1>1, ElementOfSeq
  <1>4. Root \in Node
    BY DelegationAssumption DEF Node, Root
  <1> QED BY <1>1, <1>2, <1>3, <1>4

(* Only the layer on top of the caller stack acts.                         *)
LEMMA Actor ==
  ASSUME Shape, NEW n \in Node, Acts(layer[n])
  PROVE  /\ outcome = "running" /\ OnPath /\ n = Top /\ layer[Root].at # "start"
         /\ Len(frames) \in Nat \ {0}
         /\ \A m \in Node \ {n} : layer[m].at \in {"none", "waits"}
  <1>1. outcome = "running"
    BY DEF Shape, Path, Acts
  <1>2. layer[Root].at # "start"
    BY DEF Shape, NotStarted, Acts
  <1>3. OnPath
    BY <1>1, <1>2 DEF Shape, Path
  <1>4. Len(frames) \in Nat \ {0} /\ frames \in [1 .. Len(frames) -> Node]
    BY <1>3, LenProperties, EmptySeq DEF OnPath, Shape, Shapes
  <1>5. PICK i \in 1 .. Len(frames) : frames[i] = n
    BY <1>3 DEF OnPath, Acts
  <1>6. i = Len(frames)
    <2>1. layer[frames[i]].at # "waits"
      BY <1>5 DEF Acts
    <2>2. i \notin 1 .. Len(frames) - 1
      BY <1>3, <2>1 DEF OnPath
    <2>3. Len(frames) \in Nat /\ i \in 1 .. Len(frames)
      BY <1>4
    <2> QED BY <2>2, <2>3
  <1>7. \A m \in Node \ {n} : layer[m].at \in {"none", "waits"}
    <2> SUFFICES ASSUME NEW m \in Node, m # n, layer[m].at # "none"
                 PROVE  layer[m].at = "waits"
      OBVIOUS
    <2>1. PICK j \in 1 .. Len(frames) : frames[j] = m
      BY <1>3 DEF OnPath
    <2>2. j \in 1 .. Len(frames) - 1
      BY <2>1, <1>4, <1>5, <1>6
    <2> QED BY <2>1, <2>2, <1>3 DEF OnPath
  <1> QED BY <1>1, <1>2, <1>3, <1>4, <1>5, <1>6, <1>7 DEF Top

(* The acting layer goes on to another place where it acts.                *)
LEMMA StepOnTop ==
  ASSUME Shape, NEW n \in Node, Acts(layer[n]), NEW l,
         LayerOK(l), Acts(l), l.caller = layer[n].caller,
         layer' = [layer EXCEPT ![n] = l],
         UNCHANGED << tree, frames, childCalls, outcome >>
  PROVE  Shape' /\ layer'[Root].at # "start"
  <1>1. /\ OnPath /\ n = Top /\ layer[Root].at # "start" /\ Len(frames) \in Nat \ {0}
        /\ outcome = "running"
    BY Actor
  <1>2. /\ layer \in [Node -> Layers] /\ Root \in Node /\ frames \in Seq(Node)
        /\ \A i \in 1 .. Len(frames) : frames[i] \in Node
    BY StackType DEF Shape, Shapes
  <1>3. layer'[n] = l /\ \A m \in Node \ {n} : layer'[m] = layer[m]
    BY <1>2
  <1>4. Shapes'
    BY <1>2, <1>3 DEF Shape, Shapes, LayerOK
  <1>5. layer'[Root].at # "start"
    BY <1>1, <1>2, <1>3 DEF Acts
  <1>6. OnPath'
    <2>1. (frames # <<>> /\ frames[1] = Root)' /\ Acts(layer[Top])'
      BY <1>1, <1>2, <1>3 DEF OnPath, Top
    <2>2. \A i \in 1 .. Len(frames) : layer'[frames[i]].caller = layer[frames[i]].caller
      BY <1>2, <1>3
    <2>3. \A i \in 1 .. Len(frames) - 1 : frames[i] # n
      BY <1>1 DEF OnPath, Top
    <2>4. \A m \in Node : (\A i \in 1 .. Len(frames) : frames[i] # m) => m # n
      BY <1>1 DEF Top
    <2>5. \A i \in 1 .. Len(frames) - 1 : layer'[frames[i]].at = "waits"
      BY <1>1, <1>2, <1>3, <2>3 DEF OnPath
    <2>6. \A m \in Node :
            (\A i \in 1 .. Len(frames) : frames[i] # m) =>
              layer'[m].at = "none" /\ tree[m].status # "running"
      <3> SUFFICES ASSUME NEW m \in Node, \A i \in 1 .. Len(frames) : frames[i] # m
                   PROVE  layer'[m].at = "none" /\ tree[m].status # "running"
        OBVIOUS
      <3>1. layer[m].at = "none" /\ tree[m].status # "running"
        BY <1>1 DEF OnPath
      <3>2. layer'[m] = layer[m]
        BY <1>3, <2>4
      <3> QED BY <3>1, <3>2
    <2>7. UNCHANGED << frames, tree, childCalls, Node >>
      BY DEF Node
    <2>8. /\ \A i, j \in 1 .. Len(frames) : frames[i] = frames[j] => i = j
          /\ \A i \in 2 .. Len(frames) :
               layer'[frames[i]].caller = frames[i - 1] /\ tree[frames[i]].parent = frames[i - 1]
          /\ \A i \in 1 .. Len(frames) :
               tree[frames[i]].status = "running" /\ frames[i] <= childCalls + 1
      BY <1>1, <2>2 DEF OnPath
    <2> QED BY <2>1, <2>5, <2>6, <2>7, <2>8 DEF OnPath
  <1>7. Path'
    BY <1>1, <1>2, <1>3, <1>6 DEF Shape, Path, Acts
  <1> QED BY <1>4, <1>5, <1>7 DEF Shape, NotStarted

(* The run is over and all its layers with it.                             *)
LEMMA StepAway ==
  ASSUME Shape, NEW f \in Seq(Node), NEW status \in {"running", "completed", "failed"},
         tree' = [tree EXCEPT ![Root].status = status],
         layer' = Gone, frames' = f, outcome' \in Outcomes \ {"running"},
         UNCHANGED childCalls
  PROVE  Shape' /\ layer'[Root].at # "start"
  <1>1. Root \in Node /\ tree \in [Node -> Nodes]
    BY DelegationAssumption DEF Shape, Shapes, Node, Root
  <1>2. tree' \in [Node -> Nodes] /\ tree'[Root].parent = tree[Root].parent
    BY <1>1 DEF Nodes
  <1>3. layer' \in [Node -> Layers] /\ \A n \in Node : layer'[n] = NoLayer
    BY NoLayerOK DEF Gone, LayerOK
  <1>4. NoLayer.at = "none" /\ NoLayer.caller = 0
    BY DEF NoLayer
  <1>5. Shapes'
    BY <1>2, <1>3, NoLayerOK DEF Shape, Shapes
  <1>6. Path'
    BY <1>1, <1>2, <1>3, <1>4 DEF Shape, Path
  <1> QED BY <1>1, <1>3, <1>4, <1>5, <1>6 DEF Shape, NotStarted

(* A delegated layer returns: its frame is popped and its caller acts.     *)
LEMMA StepUp ==
  ASSUME Shape, NEW n \in Node, n # Root, Acts(layer[n]),
         NEW status \in {"completed", "failed"},
         tree' = [tree EXCEPT ![n].status = status], frames' = Popped,
         layer' = [layer EXCEPT ![n] = NoLayer, ![layer[n].caller] = Answered(@)],
         UNCHANGED << childCalls, outcome >>
  PROVE  /\ Shape' /\ layer'[Root].at # "start"
         /\ \A m \in Node : layer'[m].at # "running"
  <1> DEFINE k == Len(frames)
             c == frames[k - 1]
  <1>1. /\ OnPath /\ n = frames[k] /\ layer[Root].at # "start" /\ k \in Nat \ {0}
        /\ outcome = "running" /\ \A m \in Node \ {n} : layer[m].at \in {"none", "waits"}
    BY Actor DEF Top
  <1>2. /\ layer \in [Node -> Layers] /\ Root \in Node /\ tree \in [Node -> Nodes]
        /\ \A i \in 1 .. k : frames[i] \in Node
        /\ \A m \in Node : LayerOK(layer[m])
    BY StackType DEF Shape, Shapes
  <1>3. k - 1 \in 1 .. k - 1 /\ k - 1 \in Nat \ {0}
    BY <1>1 DEF OnPath
  <1>4. /\ c \in Node /\ c # n /\ layer[c].at = "waits" /\ layer[n].caller = c
    BY <1>1, <1>2, <1>3 DEF OnPath, Acts
  <1>5. /\ LayerOK(Answered(layer[c])) /\ Acts(Answered(layer[c]))
        /\ Answered(layer[c]).caller = layer[c].caller /\ Answered(layer[c]).at # "running"
    BY <1>2, <1>4, AnsweredOK DEF LayerOK, AtCall
  <1>6. /\ layer'[n] = NoLayer /\ layer'[c] = Answered(layer[c])
        /\ \A m \in Node \ {n, c} : layer'[m] = layer[m]
        /\ layer' \in [Node -> Layers]
    BY <1>2, <1>4, <1>5, NoLayerOK DEF LayerOK
  <1>7. /\ tree' \in [Node -> Nodes] /\ tree'[n].status # "running"
        /\ \A m \in Node : tree'[m].parent = tree[m].parent
        /\ \A m \in Node \ {n} : tree'[m] = tree[m]
    BY <1>2 DEF Nodes
  <1>8. /\ frames' \in Seq(Node) /\ Len(frames') = k - 1
        /\ \A i \in 1 .. k - 1 : frames'[i] = frames[i]
    <2>1. \A i \in 1 .. k - 1 : frames[i] \in Node
      BY <1>1, <1>2
    <2>2. /\ Popped \in Seq(Node)
          /\ Len(Popped) = IF 1 <= k - 1 THEN k - 1 - 1 + 1 ELSE 0
          /\ \A i \in 1 .. k - 1 - 1 + 1 : Popped[i] = frames[1 + i - 1]
      <3>1. 1 \in Int /\ k - 1 \in Int
        BY <1>3
      <3> HIDE DEF k
      <3>2. /\ SubSeq(frames, 1, k - 1) \in Seq(Node)
            /\ Len(SubSeq(frames, 1, k - 1)) = IF 1 <= k - 1 THEN k - 1 - 1 + 1 ELSE 0
            /\ \A i \in 1 .. k - 1 - 1 + 1 : SubSeq(frames, 1, k - 1)[i] = frames[1 + i - 1]
        BY <3>1, <2>1, SubSeqProperties
      <3> QED BY <3>2 DEF Popped, k
    <2> HIDE DEF k
    <2>3. \A i \in 1 .. k - 1 : i \in 1 .. k - 1 - 1 + 1 /\ 1 + i - 1 = i
      BY <1>3
    <2>4. \A i \in 1 .. k - 1 : Popped[i] = frames[i]
      BY <2>2, <2>3
    <2> QED BY <1>3, <2>2, <2>4
  <1>9. Shapes'
    BY <1>5, <1>6, <1>7, <1>8, NoLayerOK DEF Shape, Shapes
  <1>10. layer'[Root].at # "start"
    BY <1>1, <1>2, <1>4, <1>5, <1>6 DEF NoLayer, Acts
  <1>11. \A m \in Node : layer'[m].at # "running"
    BY <1>1, <1>4, <1>5, <1>6 DEF NoLayer
  <1>12. OnPath'
    <2>1. \A i \in 1 .. k - 1 : frames[i] # n
      BY <1>1 DEF OnPath
    <2>2. \A i \in 1 .. k - 2 : frames[i] # c
      <3> SUFFICES ASSUME NEW i \in 1 .. k - 2 PROVE frames[i] # c
        OBVIOUS
      <3>1. i \in 1 .. k /\ k - 1 \in 1 .. k /\ i # k - 1
        BY <1>1, <1>3
      <3> QED BY <3>1, <1>1 DEF OnPath
    <2>3. (frames # <<>> /\ frames[1] = Root)'
      BY <1>1, <1>3, <1>8, EmptySeq DEF OnPath
    <2>4. Acts(layer[Top])'
      BY <1>3, <1>5, <1>6, <1>8 DEF Top
    <2>5. \A i \in 1 .. k - 2 : layer'[frames[i]].at = "waits"
      BY <1>1, <1>2, <1>6, <2>1, <2>2 DEF OnPath
    <2>6. \A i \in 1 .. k - 1 : layer'[frames[i]].caller = layer[frames[i]].caller
      BY <1>1, <1>2, <1>5, <1>6, <2>1
    <2>7. \A i \in 1 .. k - 1 : tree'[frames[i]] = tree[frames[i]]
      BY <1>1, <1>2, <1>7, <2>1
    <2>8. \A m \in Node :
            (\A i \in 1 .. k - 1 : frames[i] # m) =>
              layer'[m].at = "none" /\ tree'[m].status # "running"
      <3> SUFFICES ASSUME NEW m \in Node, \A i \in 1 .. k - 1 : frames[i] # m
                   PROVE  layer'[m].at = "none" /\ tree'[m].status # "running"
        OBVIOUS
      <3>1. m # c
        BY <1>3
      <3>2. CASE m = n
        BY <3>2, <1>6, <1>7 DEF NoLayer
      <3>3. CASE m # n
        <4>1. \A i \in 1 .. k : frames[i] # m
          BY <1>1, <3>3
        <4> QED BY <4>1, <3>1, <3>3, <1>1, <1>6, <1>7 DEF OnPath
      <3> QED BY <3>2, <3>3
    <2>9. \A i, j \in 1 .. k - 1 : frames[i] = frames[j] => i = j
      BY <1>1 DEF OnPath
    <2>10. \A i \in 2 .. k - 1 :
             /\ layer'[frames[i]].caller = frames[i - 1]
             /\ tree'[frames[i]].parent = frames[i - 1]
      <3> SUFFICES ASSUME NEW i \in 2 .. k - 1
                   PROVE  /\ layer'[frames[i]].caller = frames[i - 1]
                          /\ tree'[frames[i]].parent = frames[i - 1]
        OBVIOUS
      <3>1. i \in 1 .. k - 1 /\ i \in 2 .. k
        BY <1>1
      <3> HIDE DEF k
      <3>2. layer[frames[i]].caller = frames[i - 1] /\ tree[frames[i]].parent = frames[i - 1]
        BY <3>1, <1>1 DEF OnPath, k
      <3> QED BY <3>1, <3>2, <2>6, <2>7
    <2>11. \A i \in 1 .. k - 1 :
             tree'[frames[i]].status = "running" /\ frames[i] <= childCalls' + 1
      BY <1>1, <2>7 DEF OnPath
    <2>0. k \in Nat
      BY <1>1
    <2> HIDE DEF k
    <2>12. /\ \A i \in 1 .. k - 1 : frames'[i] = frames[i]
           /\ \A i \in 2 .. k - 1 : frames'[i - 1] = frames[i - 1]
           /\ \A i \in 1 .. k - 2 : frames'[i] = frames[i]
           /\ Len(frames') - 1 = k - 2
      BY <2>0, <1>3, <1>8
    <2>13. \A i \in 1 .. k - 2 : layer'[frames'[i]].at = "waits"
      BY <2>5, <2>12
    <2>14. \A i, j \in 1 .. k - 1 : frames'[i] = frames'[j] => i = j
      BY <2>9, <2>12
    <2>15. \A i \in 2 .. k - 1 :
             /\ layer'[frames'[i]].caller = frames'[i - 1]
             /\ tree'[frames'[i]].parent = frames'[i - 1]
      <3> SUFFICES ASSUME NEW i \in 2 .. k - 1
                   PROVE  /\ layer'[frames'[i]].caller = frames'[i - 1]
                          /\ tree'[frames'[i]].parent = frames'[i - 1]
        OBVIOUS
      <3>1. i \in 1 .. k - 1
        BY <1>1
      <3> QED BY <3>1, <2>10, <2>12
    <2>16. \A i \in 1 .. k - 1 :
             tree'[frames'[i]].status = "running" /\ frames'[i] <= childCalls' + 1
      BY <2>11, <2>12
    <2>17. \A m \in Node :
             (\A i \in 1 .. k - 1 : frames'[i] # m) =>
               layer'[m].at = "none" /\ tree'[m].status # "running"
      BY <2>8, <2>12
    <2>18. \A i \in 1 .. Len(frames') - 1 : layer'[frames'[i]].at = "waits"
      BY <2>12, <2>13
    <2>19. \A i, j \in 1 .. Len(frames') : frames'[i] = frames'[j] => i = j
      BY <1>8, <2>14
    <2>20. \A i \in 2 .. Len(frames') :
             layer'[frames'[i]].caller = frames'[i - 1] /\ tree'[frames'[i]].parent = frames'[i - 1]
      BY <1>8, <2>15
    <2>21. \A i \in 1 .. Len(frames') :
             tree'[frames'[i]].status = "running" /\ frames'[i] <= childCalls' + 1
      BY <1>8, <2>16
    <2>22. \A m \in Node' :
             (\A i \in 1 .. Len(frames') : frames'[i] # m) =>
               layer'[m].at = "none" /\ tree'[m].status # "running"
      BY <1>8, <2>17 DEF Node
    <2> QED BY <2>3, <2>4, <2>18, <2>19, <2>20, <2>21, <2>22 DEF OnPath
  <1>13. Path'
    BY <1>1, <1>2, <1>4, <1>5, <1>6, <1>7, <1>12 DEF Shape, Path, Acts, NoLayer
  <1> QED BY <1>9, <1>10, <1>11, <1>13 DEF Shape, NotStarted

(* A call_agent starts a layer below the one that acts.                    *)
LEMMA StepDown ==
  ASSUME Shape, NEW n \in Node, layer[n].at \in {"serial", "asking"}, layer[n].serial,
         NEW agent \in Agents,
         childCalls < MaxChildCalls, tree[n].depth + 1 < MaxDepth,
         NEW child, child = childCalls + 2, NEW depth, depth = tree[n].depth + 1,
         childCalls' = childCalls + 1, UNCHANGED outcome,
         frames' = Append(frames, child),
         tree' = [tree EXCEPT ![child] =
                   [agent |-> agent, parent |-> n, depth |-> depth, status |-> "running"]],
         layer' = [layer EXCEPT ![child] = [NoLayer EXCEPT !.at = "top", !.caller = n],
                                ![n] = [layer[n] EXCEPT !.at = "waits"]]
  PROVE  /\ Shape' /\ layer'[Root].at # "start"
         /\ \A m \in Node : layer'[m].at # "running"
  <1> DEFINE k == Len(frames)
             new == [NoLayer EXCEPT !.at = "top", !.caller = n]
             waiting == [layer[n] EXCEPT !.at = "waits"]
  <1>1. /\ OnPath /\ n = frames[k] /\ layer[Root].at # "start" /\ k \in Nat \ {0}
        /\ outcome = "running" /\ \A m \in Node \ {n} : layer[m].at \in {"none", "waits"}
    BY Actor DEF Top, Acts
  <1>2. /\ layer \in [Node -> Layers] /\ Root \in Node /\ tree \in [Node -> Nodes]
        /\ \A i \in 1 .. k : frames[i] \in Node
        /\ \A m \in Node : LayerOK(layer[m])
    BY StackType DEF Shape, Shapes
  <1>0. /\ MaxChildCalls \in Nat /\ childCalls \in Nat /\ n \in Nat
        /\ frames \in Seq(Node)
    BY DelegationAssumption DEF Shape, Shapes, Node
  <1>3. child \in Node /\ \A i \in 1 .. k : frames[i] # child /\ frames[i] \in Nat
    <2>1. child \in Node
      BY <1>0 DEF Node
    <2>2. \A i \in 1 .. k : frames[i] <= childCalls + 1
      BY <1>1 DEF OnPath
    <2>3. \A i \in 1 .. k : frames[i] \in Nat
      BY <1>2 DEF Node
    <2> HIDE DEF k
    <2> QED BY <1>0, <2>1, <2>2, <2>3
  <1>4. child # n /\ child # Root
    <2>1. frames[1] = Root /\ 1 \in 1 .. k /\ k \in 1 .. k
      BY <1>1 DEF OnPath
    <2> HIDE DEF k
    <2> QED BY <2>1, <1>1, <1>3
  <1>5. /\ LayerOK(new) /\ Acts(new) /\ new.caller = n /\ new.at = "top"
    <2>1. /\ new.at = "top" /\ new.caller = n /\ new.flight = NoLayer.flight
          /\ new.calls = NoLayer.calls
      BY DEF NoLayer
    <2>2. new \in Layers /\ NoLayer.flight = {}
      BY <1>0, NoLayerOK DEF LayerOK, Layers, Place, NoLayer
    <2> QED BY <2>1, <2>2 DEF LayerOK, InBatch, AtCall, Acts
  <1>6. /\ LayerOK(waiting) /\ waiting.caller = layer[n].caller /\ waiting.at = "waits"
    <2>1. /\ waiting \in Layers /\ waiting.at = "waits" /\ waiting.calls = layer[n].calls
          /\ waiting.next = layer[n].next /\ waiting.flight = layer[n].flight
          /\ waiting.serial = layer[n].serial /\ waiting.caller = layer[n].caller
      BY <1>2 DEF Layers, Place
    <2> QED BY <1>2, <2>1 DEF LayerOK, InBatch, AtCall
  <1>7. /\ layer'[n] = waiting /\ layer'[child] = new /\ layer' \in [Node -> Layers]
        /\ \A m \in Node \ {n, child} : layer'[m] = layer[m]
    BY <1>2, <1>3, <1>4, <1>5, <1>6 DEF LayerOK
  <1>8. /\ tree' \in [Node -> Nodes] /\ tree'[child].status = "running" /\ tree'[child].parent = n
        /\ \A m \in Node \ {child} : tree'[m] = tree[m]
    <2>1. tree[n].depth \in Nat /\ MaxDepth \in Nat
      BY <1>2, DelegationAssumption DEF Nodes
    <2>2. depth \in 0 .. MaxDepth - 1
      BY <2>1
    <2> QED BY <1>2, <1>3, <2>2 DEF Nodes
  <1>9. /\ frames' \in Seq(Node) /\ frames' # <<>> /\ Len(frames') = k + 1
        /\ frames'[k + 1] = child /\ \A i \in 1 .. k : frames'[i] = frames[i]
    BY <1>0, <1>3, AppendProperties
  <1>10. Shapes'
    <2>1. childCalls' \in 0 .. MaxChildCalls
      BY <1>0
    <2> HIDE DEF new, waiting
    <2>2. \A m \in Node : LayerOK(layer'[m])
      <3>1. \A m \in Node \ {n, child} : LayerOK(layer'[m])
        BY <1>2, <1>7
      <3>2. LayerOK(layer'[n]) /\ LayerOK(layer'[child])
        BY <1>5, <1>6, <1>7
      <3> QED BY <3>1, <3>2
    <2>3. outcome' \in Outcomes
      BY DEF Shape, Shapes
    <2> QED BY <1>7, <1>8, <1>9, <2>1, <2>2, <2>3 DEF Shapes, Node
  <1>11. layer'[Root].at # "start"
    BY <1>1, <1>2, <1>4, <1>6, <1>7
  <1>12. \A m \in Node : layer'[m].at # "running"
    BY <1>1, <1>5, <1>6, <1>7
  <1> HIDE DEF new, waiting
  <1>13. OnPath'
    <2>0. k \in Nat /\ k # 0
      BY <1>1
    <2>1. \A i \in 1 .. k : layer'[frames[i]].caller = layer[frames[i]].caller
      BY <1>2, <1>3, <1>6, <1>7
    <2>2. \A i \in 1 .. k : layer'[frames[i]].at = "waits"
      <3> SUFFICES ASSUME NEW i \in 1 .. k
                   PROVE  layer'[frames[i]].at = "waits"
        OBVIOUS
      <3>1. CASE frames[i] = n
        BY <3>1, <1>6, <1>7
      <3>2. CASE frames[i] # n
        <4>1. i \in 1 .. k - 1
          BY <3>2, <1>1, <2>0
        <4>2. layer[frames[i]].at = "waits"
          BY <4>1, <1>1 DEF OnPath
        <4> QED BY <4>2, <3>2, <1>2, <1>3, <1>7
      <3> QED BY <3>1, <3>2
    <2>3. \A i \in 1 .. k : tree'[frames[i]] = tree[frames[i]]
      BY <1>2, <1>3, <1>8
    <2>4. /\ \A i \in 2 .. k : layer[frames[i]].caller = frames[i - 1]
                               /\ tree[frames[i]].parent = frames[i - 1]
          /\ \A i \in 1 .. k : tree[frames[i]].status = "running" /\ frames[i] <= childCalls + 1
          /\ \A i, j \in 1 .. k : frames[i] = frames[j] => i = j
          /\ frames[1] = Root
      BY <1>1 DEF OnPath
    <2>5. \A m \in Node : (\A i \in 1 .. k : frames[i] # m) /\ m # child =>
            layer'[m].at = "none" /\ tree'[m].status # "running"
      BY <1>1, <1>7, <1>8 DEF OnPath
    <2> HIDE DEF k
    <2>6. frames'[1] = Root /\ Acts(layer[Top])'
      <3>1. 1 \in 1 .. k
        BY <2>0
      <3>2. frames'[1] = Root
        BY <3>1, <2>4, <1>9
      <3>3. Top' = child
        BY <1>9 DEF Top
      <3> QED BY <3>2, <3>3, <1>5, <1>7
    <2>7. \A i \in 1 .. Len(frames') - 1 : layer'[frames'[i]].at = "waits"
      <3>1. Len(frames') - 1 = k
        BY <2>0, <1>9
      <3>2. \A i \in 1 .. k : layer'[frames'[i]].at = "waits"
        <4> SUFFICES ASSUME NEW i \in 1 .. k PROVE layer'[frames'[i]].at = "waits"
          OBVIOUS
        <4>1. frames'[i] = frames[i]
          BY <1>9
        <4> QED BY <4>1, <2>2
      <3> QED BY <3>1, <3>2
    <2>8. \A i, j \in 1 .. Len(frames') : frames'[i] = frames'[j] => i = j
      BY <2>0, <2>4, <1>3, <1>9
    <2>9. \A i \in 2 .. Len(frames') :
            layer'[frames'[i]].caller = frames'[i - 1] /\ tree'[frames'[i]].parent = frames'[i - 1]
      <3> SUFFICES ASSUME NEW i \in 2 .. k + 1
                   PROVE  /\ layer'[frames'[i]].caller = frames'[i - 1]
                          /\ tree'[frames'[i]].parent = frames'[i - 1]
        BY <1>9
      <3>1. CASE i = k + 1
        <4>1. frames'[i - 1] = n /\ frames'[i] = child
          BY <3>1, <2>0, <1>1, <1>9 DEF k
        <4> QED BY <4>1, <1>5, <1>7, <1>8
      <3>2. CASE i \in 2 .. k
        <4>1. i \in 1 .. k /\ i - 1 \in 1 .. k
          BY <3>2, <2>0
        <4>2. frames'[i] = frames[i] /\ frames'[i - 1] = frames[i - 1]
          BY <4>1, <1>9
        <4>3. layer'[frames[i]].caller = frames[i - 1] /\ tree'[frames[i]] = tree[frames[i]]
          <5>1. layer'[frames[i]].caller = layer[frames[i]].caller
            BY <4>1, <2>1
          <5>2. layer[frames[i]].caller = frames[i - 1]
            BY <3>2, <2>4
          <5>3. tree'[frames[i]] = tree[frames[i]]
            BY <4>1, <2>3
          <5> QED BY <5>1, <5>2, <5>3
        <4>4. tree[frames[i]].parent = frames[i - 1]
          BY <3>2, <2>4
        <4> QED BY <4>2, <4>3, <4>4
      <3>3. i = k + 1 \/ i \in 2 .. k
        BY <2>0
      <3> QED BY <3>1, <3>2, <3>3
    <2>10. \A i \in 1 .. Len(frames') :
             tree'[frames'[i]].status = "running" /\ frames'[i] <= childCalls' + 1
      <3>1. \A i \in 1 .. k : tree'[frames'[i]].status = "running"
        <4> SUFFICES ASSUME NEW i \in 1 .. k
                     PROVE  tree'[frames'[i]].status = "running"
          OBVIOUS
        <4>1. frames'[i] = frames[i] /\ tree'[frames[i]] = tree[frames[i]]
          BY <2>3, <1>9
        <4>2. tree[frames[i]].status = "running"
          BY <2>4
        <4> QED BY <4>1, <4>2
      <3>2. \A i \in 1 .. k : frames[i] \in Nat /\ frames[i] <= childCalls + 1
        BY <1>3, <2>4
      <3>3. \A i \in 1 .. k : frames'[i] <= childCalls' + 1
        <4> SUFFICES ASSUME NEW i \in 1 .. k
                     PROVE  frames[i] <= childCalls' + 1
          BY <1>9
        <4>1. frames[i] \in Nat /\ frames[i] <= childCalls + 1
          BY <3>2
        <4> QED BY <4>1, <1>0
      <3>4. tree'[child].status = "running" /\ child <= childCalls' + 1
        BY <1>0, <1>8
      <3>5. \A i \in 1 .. Len(frames') : i \in 1 .. k \/ i = k + 1
        BY <2>0, <1>9
      <3> QED BY <3>1, <3>3, <3>4, <3>5, <1>9
    <2>11. \A m \in Node' :
             (\A i \in 1 .. Len(frames') : frames'[i] # m) =>
               layer'[m].at = "none" /\ tree'[m].status # "running"
      <3> SUFFICES ASSUME NEW m \in Node, \A i \in 1 .. k + 1 : frames'[i] # m
                   PROVE  layer'[m].at = "none" /\ tree'[m].status # "running"
        BY <1>9 DEF Node
      <3>1. m # child /\ \A i \in 1 .. k : frames[i] # m
        BY <2>0, <1>9
      <3> QED BY <3>1, <2>5
    <2> QED BY <1>9, <2>6, <2>7, <2>8, <2>9, <2>10, <2>11 DEF OnPath
  <1>14. Path'
    <2>1. layer'[Root].caller = 0 /\ tree'[Root].parent = 0
      BY <1>2, <1>4, <1>6, <1>7, <1>8 DEF Shape, Path
    <2>2. \A m \in Node \ {Root} : layer'[m].at # "start"
      BY <1>1, <1>5, <1>6, <1>7
    <2> QED BY <1>1, <1>13, <2>1, <2>2 DEF Path, Node
  <1> QED BY <1>10, <1>11, <1>12, <1>14 DEF Shape, NotStarted

-----------------------------------------------------------------------------
(* The operators the actions are built from.                               *)

LEMMA BudgetKept ==
  ASSUME Budget, UNCHANGED << toolCalls, started >>,
         \A m \in Node : layer'[m].at = "running" => layer[m].at = "running"
  PROVE  Budget'
  BY DEF Budget, Node

(* A layer returns, the root's with the run.                               *)
LEMMA ReturnsOK ==
  ASSUME IInv, NEW n \in Node, Acts(layer[n]),
         NEW how \in {"completed", "interrupted", "failed"}, Returns(n, how)
  PROVE  IInv'
  <1>1. /\ outcome = "running" /\ OnPath /\ n = Top /\ Len(frames) \in Nat \ {0}
        /\ StatusOf(how) \in {"completed", "failed"}
        /\ StatusOf(RootOutcome(how)) \in {"completed", "failed"}
        /\ UNCHANGED << childCalls, toolCalls, started >>
    BY Actor DEF IInv, StatusOf, Returns, budgets
  <1>2. Flags'
    BY DEF IInv, Flags, Returns, budgets, session
  <1>3. CASE n = Root
    <2>1. Popped \in Seq(Node)
      <3>1. \A i \in 1 .. Len(frames) : frames[i] \in Node
        BY ElementOfSeq DEF IInv, Shape, Shapes
      <3> QED BY <1>1, <3>1, SubSeqProperties DEF Popped
    <2>2. outcome' = RootOutcome(how) /\ RootOutcome(how) \in Outcomes \ {"running"}
      BY <1>3 DEF Returns, RootOutcome, Outcomes
    <2>3. Shape' /\ layer'[Root].at # "start"
      BY <1>1, <1>3, <2>1, <2>2, StepAway DEF IInv, Returns, Settle
    <2>4. \A m \in Node : layer'[m].at # "running"
      BY <1>3 DEF Returns, Gone, NoLayer
    <2>5. Budget'
      BY <1>1, <2>4, BudgetKept DEF IInv
    <2>6. Watched'
      BY <2>2, <2>3 DEF Watched, WatchdogAborts, RootOutcome, Returns, budgets
    <2> QED BY <1>2, <2>3, <2>5, <2>6 DEF IInv
  <1>4. CASE n # Root
    <2>1. /\ tree' = [tree EXCEPT ![n].status = StatusOf(how)] /\ frames' = Popped
          /\ layer' = [layer EXCEPT ![n] = NoLayer, ![layer[n].caller] = Answered(@)]
          /\ UNCHANGED << childCalls, outcome >>
      BY <1>4 DEF Returns, Settle, budgets
    <2>2. /\ Shape' /\ layer'[Root].at # "start"
          /\ \A m \in Node : layer'[m].at # "running"
      BY <1>1, <1>4, <2>1, StepUp DEF IInv
    <2>3. Budget'
      BY <1>1, <2>2, BudgetKept DEF IInv
    <2>4. Watched'
      BY <1>1, <2>1, <2>2 DEF Watched, WatchdogAborts
    <2> QED BY <1>2, <2>2, <2>3, <2>4 DEF IInv
  <1> QED BY <1>3, <1>4

(* The acting layer goes on; what else such a step leaves alone.           *)
LEMMA BecomesOK ==
  ASSUME IInv, NEW n \in Node, Acts(layer[n]), NEW l,
         LayerOK(l), Acts(l), l.caller = layer[n].caller, l.at # "running",
         Becomes(n, l),
         UNCHANGED << tree, frames, budgets, cancelled, outcome, session >>
  PROVE  IInv'
  <1>1. Shape' /\ layer'[Root].at # "start" /\ outcome = "running"
    BY StepOnTop, Actor DEF IInv, Becomes, budgets
  <1>2. \A m \in Node : layer'[m].at = "running" => layer[m].at = "running"
    BY DEF IInv, Shape, Shapes, Becomes
  <1>3. Budget'
    BY <1>2, BudgetKept DEF IInv, budgets
  <1>4. Flags'
    BY DEF IInv, Flags, Becomes, budgets, session
  <1>5. Watched'
    BY <1>1 DEF Watched, WatchdogAborts
  <1> QED BY <1>1, <1>3, <1>4, <1>5 DEF IInv

(* A refused call has its output and the layer goes on.                    *)
LEMMA RefusedOK ==
  ASSUME Shape, NEW n \in Node, layer[n].at \in {"serial", "admit", "asking"},
         Refused(n), UNCHANGED << tree, frames, childCalls, outcome >>
  PROVE  /\ Shape' /\ layer'[Root].at # "start" /\ suspended' = FALSE
         /\ \A m \in Node : layer'[m].at # "running"
  <1> DEFINE l == IF layer[n].serial THEN Answered(layer[n]) ELSE Polled(layer[n], FALSE)
  <1>1. LayerOK(layer[n]) /\ layer[n].at \in AtCall /\ Acts(layer[n])
    BY DEF Shape, Shapes, AtCall, Acts
  <1>2. LayerOK(l) /\ Acts(l) /\ l.caller = layer[n].caller /\ l.at # "running"
    <2>1. layer[n].serial \in BOOLEAN
      BY <1>1 DEF LayerOK, Layers
    <2>2. CASE layer[n].serial
      BY <1>1, <2>2, AnsweredOK
    <2>3. CASE ~layer[n].serial
      BY <1>1, <2>3, PolledOK
    <2> QED BY <2>1, <2>2, <2>3
  <1>3. layer' = [layer EXCEPT ![n] = l] /\ suspended' = FALSE
    BY DEF Refused, Becomes
  <1> HIDE DEF l
  <1>4. Shape' /\ layer'[Root].at # "start"
    BY <1>1, <1>2, <1>3, StepOnTop
  <1>5. \A m \in Node \ {n} : layer[m].at # "running"
    BY <1>1, Actor
  <1>6. \A m \in Node : layer'[m].at # "running"
    BY <1>2, <1>3, <1>5 DEF Shape, Shapes
  <1> QED BY <1>3, <1>4, <1>6

(* A denial counts, may trip the watchdog and refuses the call.            *)
LEMMA DenyOK ==
  ASSUME IInv, NEW n \in Node, layer[n].at \in {"serial", "admit", "asking"},
         Deny(n), UNCHANGED outcome
  PROVE  /\ Shape' /\ Budget' /\ Watched' /\ suspended' = FALSE
         /\ denials' \in [Names -> Nat] /\ tripped' \in BOOLEAN
  <1>1. LayerOK(layer[n]) /\ layer[n].at \in AtCall /\ Acts(layer[n])
    BY DEF IInv, Shape, Shapes, AtCall, Acts
  <1>2. /\ Shape' /\ layer'[Root].at # "start" /\ suspended' = FALSE /\ outcome = "running"
        /\ \A m \in Node : layer'[m].at # "running"
    BY <1>1, RefusedOK, Actor DEF IInv, Deny
  <1>3. Budget'
    BY <1>2, BudgetKept DEF IInv, Deny
  <1>4. Now(layer[n]).name \in Names
    BY <1>1, NowType DEF Call
  <1>5. denials' \in [Names -> Nat] /\ tripped' \in BOOLEAN
    BY <1>4 DEF IInv, Flags, Deny
  <1>6. Watched'
    BY <1>2 DEF Watched, WatchdogAborts
  <1> QED BY <1>2, <1>3, <1>5, <1>6

(* A tool that starts has a place in the budget.                           *)
LEMMA StartToolOK ==
  ASSUME IInv, NEW n \in Node, layer[n].at \in {"serial", "admit", "asking"},
         StartTool(n), UNCHANGED outcome
  PROVE  Shape' /\ Budget' /\ layer'[Root].at # "start" /\ suspended' = FALSE
  <1>1. /\ LayerOK(layer[n]) /\ layer[n].at \in AtCall /\ Acts(layer[n])
        /\ layer[n].serial \in BOOLEAN
    BY DEF IInv, Shape, Shapes, AtCall, Acts, LayerOK, Layers
  <1>2. CASE Spent
    <2>1. Refused(n) /\ UNCHANGED << tree, frames, childCalls, toolCalls, started, outcome >>
      BY <1>2 DEF StartTool
    <2>2. /\ Shape' /\ layer'[Root].at # "start" /\ suspended' = FALSE
          /\ \A m \in Node : layer'[m].at # "running"
      BY <2>1, RefusedOK DEF IInv
    <2> QED BY <2>1, <2>2, BudgetKept DEF IInv
  <1>3. CASE ~Spent
    <2> DEFINE l == IF layer[n].serial THEN [layer[n] EXCEPT !.at = "running"]
                                       ELSE Polled(layer[n], TRUE)
    <2>1. /\ layer' = [layer EXCEPT ![n] = l] /\ suspended' = FALSE
          /\ toolCalls' = toolCalls + 1 /\ started' = started + 1
          /\ UNCHANGED << tree, frames, childCalls, outcome >>
      BY <1>3 DEF StartTool, Becomes
    <2>2. LayerOK(l) /\ Acts(l) /\ l.caller = layer[n].caller
      <3>1. CASE layer[n].serial
        <4>1. /\ l \in Layers /\ l.at = "running" /\ l.calls = layer[n].calls
              /\ l.next = layer[n].next /\ l.flight = layer[n].flight
              /\ l.serial = layer[n].serial /\ l.caller = layer[n].caller
          BY <1>1, <3>1 DEF LayerOK, Layers, Place
        <4> QED BY <1>1, <3>1, <4>1 DEF LayerOK, InBatch, AtCall, Acts
      <3>2. CASE ~layer[n].serial
        BY <1>1, <3>2, PolledOK
      <3> QED BY <1>1, <3>1, <3>2
    <2> HIDE DEF l
    <2>3. Shape' /\ layer'[Root].at # "start"
      BY <1>1, <2>1, <2>2, StepOnTop DEF IInv
    <2>4. Budget'
      BY <1>3, <2>1, DelegationAssumption DEF IInv, Budget, Spent, Node
    <2> QED BY <2>1, <2>3, <2>4
  <1> QED BY <1>2, <1>3

(* An approved call delegates or starts its tool.                          *)
LEMMA ApproveOK ==
  ASSUME IInv, NEW n \in Node, layer[n].at \in {"serial", "admit", "asking"},
         Approve(n), UNCHANGED outcome
  PROVE  /\ Shape' /\ Budget' /\ Watched' /\ suspended' = FALSE
         /\ denials' \in [Names -> Nat] /\ tripped' \in BOOLEAN
  <1>1. LayerOK(layer[n]) /\ layer[n].at \in AtCall /\ Acts(layer[n])
    BY DEF IInv, Shape, Shapes, AtCall, Acts
  <1>2. /\ Now(layer[n]) \in Call
        /\ Now(layer[n]).name = "call_agent" => layer[n].serial
    BY <1>1, NowType
  <1>3. outcome = "running" /\ n = Top
    BY <1>1, Actor DEF IInv
  <1>4. denials' \in [Names -> Nat] /\ tripped' \in BOOLEAN
    BY <1>2 DEF IInv, Flags, Approve, Call
  <1>5. Shape' /\ Budget' /\ layer'[Root].at # "start" /\ suspended' = FALSE
    <2>1. CASE Now(layer[n]).name # "call_agent"
      BY <2>1, StartToolOK DEF Approve
    <2>2. CASE Now(layer[n]).name = "call_agent"
      <3> DEFINE agent == Now(layer[n]).to
                 granted == /\ agent \in Children[tree[n].agent]
                            /\ WithinLimits(tree[n].depth + 1)
      <3>1. Delegate(n) /\ UNCHANGED << toolCalls, started, outcome >>
        BY <2>2 DEF Approve
      <3>2. CASE granted
        <4>1. /\ agent \in Agents /\ layer[n].serial /\ layer[n].at \in {"serial", "asking"}
              /\ childCalls < MaxChildCalls /\ tree[n].depth + 1 < MaxDepth
          BY <1>1, <1>2, <2>2, <3>2 DEF WithinLimits, Call, LayerOK
        <4>2. /\ childCalls' = childCalls + 1 /\ suspended' = FALSE
              /\ frames' = Append(frames, childCalls + 2)
              /\ tree' = [tree EXCEPT ![childCalls + 2] =
                   [agent |-> agent, parent |-> n, depth |-> tree[n].depth + 1,
                    status |-> "running"]]
              /\ layer' = [layer EXCEPT
                   ![childCalls + 2] = [NoLayer EXCEPT !.at = "top", !.caller = n],
                   ![n] = IF @.serial THEN [@ EXCEPT !.at = "waits"] ELSE Polled(@, TRUE)]
          BY <1>3, <3>1, <3>2 DEF Delegate
        <4>3. layer' = [layer EXCEPT
                   ![childCalls + 2] = [NoLayer EXCEPT !.at = "top", !.caller = n],
                   ![n] = [layer[n] EXCEPT !.at = "waits"]]
          <5>1. n # childCalls + 2
            BY <1>1, Actor DEF IInv, OnPath, Top, Shape, Shapes
          <5> QED BY <4>1, <4>2, <5>1
        <4>4. /\ Shape' /\ layer'[Root].at # "start"
              /\ \A m \in Node : layer'[m].at # "running"
          BY <3>1, <4>1, <4>2, <4>3, StepDown DEF IInv
        <4> QED BY <3>1, <4>2, <4>4, BudgetKept DEF IInv
      <3>3. CASE ~granted
        <4>1. Refused(n) /\ UNCHANGED << tree, frames, childCalls, outcome >>
          BY <1>3, <3>1, <3>3 DEF Delegate
        <4>2. /\ Shape' /\ layer'[Root].at # "start" /\ suspended' = FALSE
              /\ \A m \in Node : layer'[m].at # "running"
          BY <4>1, RefusedOK DEF IInv
        <4> QED BY <3>1, <4>2, BudgetKept DEF IInv
      <3> QED BY <3>2, <3>3
    <2> QED BY <2>1, <2>2
  <1>6. Watched'
    BY <1>3, <1>5 DEF Watched, WatchdogAborts
  <1> QED BY <1>4, <1>5, <1>6

-----------------------------------------------------------------------------
(* The actions.                                                            *)

(* Steps of the clients and the server leave the engine's layers alone.    *)
LEMMA BystanderOK ==
  ASSUME IInv, UNCHANGED << tree, layer, frames, budgets, outcome >>, Flags'
  PROVE  IInv'
  <1>1. Shape'
    <2>1. UNCHANGED << tree, layer, frames, childCalls, outcome, Top, Node >>
      BY DEF budgets, Top, Node
    <2>2. OnPath' = OnPath
      BY <2>1 DEF OnPath
    <2> QED BY <2>1, <2>2 DEF IInv, Shape, Shapes, NotStarted, Path
  <1>2. Budget'
    BY DEF IInv, Budget, budgets, Node
  <1>3. Watched'
    BY DEF IInv, Watched, WatchdogAborts, budgets
  <1> QED BY <1>1, <1>2, <1>3 DEF IInv

LEMMA RunRootOK ==
  ASSUME IInv, RunRoot
  PROVE  IInv'
  <1>1. /\ Root \in Node /\ layer \in [Node -> Layers] /\ LayerOK(layer[Root])
        /\ layer[Root].at = "start" /\ tree \in [Node -> Nodes]
        /\ frames = <<>> /\ outcome = "running" /\ childCalls = 0 /\ ~tripped
        /\ tree[Root].status = "running" /\ tree[Root].parent = 0 /\ layer[Root].caller = 0
        /\ \A n \in Node \ {Root} : layer[n].at = "none" /\ tree[n].status = "none"
    BY DelegationAssumption
       DEF IInv, Shape, Shapes, NotStarted, Path, Watched, RunRoot, Node, Root
  <1>2. /\ UNCHANGED << tree, childCalls, toolCalls, started, tripped >> /\ Flags'
    BY DEF IInv, Flags, RunRoot, budgets, session
  <1>3. CASE cancelled
    <2>1. /\ outcome' = "failed" /\ layer' = Gone /\ frames' = frames
          /\ frames \in Seq(Node)
      BY <1>3 DEF IInv, Shape, Shapes, RunRoot
    <2>2. tree' = [tree EXCEPT ![Root].status = "running"]
      BY <1>1, <1>2 DEF Nodes
    <2>3. outcome' \in Outcomes \ {"running"}
      BY <2>1 DEF Outcomes
    <2>4. Shape' /\ layer'[Root].at # "start"
      BY <1>2, <2>1, <2>2, <2>3, StepAway DEF IInv
    <2>5. \A m \in Node : layer'[m].at # "running"
      BY <2>1 DEF Gone, NoLayer
    <2>6. Budget'
      BY <1>2, <2>5, BudgetKept DEF IInv
    <2>7. Watched'
      BY <1>1, <1>2, <2>4 DEF Watched, WatchdogAborts
    <2> QED BY <1>2, <2>4, <2>6, <2>7 DEF IInv
  <1>4. CASE ~cancelled
    <2> DEFINE l == [layer[Root] EXCEPT !.at = "top"]
    <2>1. frames' = << Root >> /\ layer' = [layer EXCEPT ![Root] = l] /\ outcome' = outcome
      BY <1>1, <1>4 DEF RunRoot
    <2>2. LayerOK(l) /\ l.at = "top" /\ l.caller = 0
      <3>1. /\ l \in Layers /\ l.at = "top" /\ l.calls = layer[Root].calls
            /\ l.flight = layer[Root].flight /\ l.caller = layer[Root].caller
        BY <1>1 DEF LayerOK, Layers, Place
      <3> QED BY <1>1, <3>1 DEF LayerOK, InBatch, AtCall
    <2> HIDE DEF l
    <2>3. /\ layer'[Root] = l /\ \A m \in Node \ {Root} : layer'[m] = layer[m]
      BY <1>1, <2>1
    <2>4. /\ frames' \in Seq(Node) /\ Len(frames') = 1 /\ frames'[1] = Root /\ frames' # <<>>
      BY <1>1, <2>1
    <2>5. Shapes'
      BY <1>1, <1>2, <2>1, <2>2, <2>3, <2>4 DEF IInv, Shape, Shapes, LayerOK, Node
    <2>6. OnPath'
      <3>1. Acts(layer[Top])'
        BY <2>2, <2>3, <2>4 DEF Acts, Top
      <3>2. \A m \in Node' : (\A i \in 1 .. Len(frames') : frames'[i] # m) =>
               layer'[m].at = "none" /\ tree'[m].status # "running"
        BY <1>1, <1>2, <2>3, <2>4 DEF Node
      <3> QED BY <1>1, <1>2, <2>4, <3>1, <3>2 DEF OnPath, Root
    <2>7. Path'
      BY <1>1, <1>2, <2>1, <2>2, <2>3, <2>6 DEF Path, Node
    <2>8. Shape' /\ layer'[Root].at # "start"
      BY <2>2, <2>3, <2>5, <2>7 DEF Shape, NotStarted
    <2>9. \A m \in Node : layer'[m].at # "running"
      BY <1>1, <2>2, <2>3
    <2>10. Budget'
      BY <1>2, <2>9, BudgetKept DEF IInv
    <2>11. Watched'
      BY <1>1, <2>1, <2>8 DEF Watched, WatchdogAborts
    <2> QED BY <1>2, <2>8, <2>10, <2>11 DEF IInv
  <1> QED BY <1>3, <1>4

(* The two branches of run_root and of the root's tool select.             *)
LEMMA DropOK ==
  ASSUME IInv, NEW how \in {"interrupted", "aborted"},
         how = "interrupted" => ~tripped,
         NEW status \in {"completed", "failed"},
         outcome' = how, Settle(Root, status),
         layer' = Gone, frames' = <<>>, suspended' = FALSE,
         UNCHANGED << budgets, cancelled, session >>
  PROVE  IInv'
  <1>1. <<>> \in Seq(Node) /\ outcome' \in Outcomes \ {"running"}
    BY DEF Outcomes
  <1>2. Shape' /\ layer'[Root].at # "start"
    BY <1>1, StepAway DEF IInv, Settle, budgets
  <1>3. \A m \in Node : layer'[m].at # "running"
    BY DEF Gone, NoLayer
  <1>4. Budget'
    BY <1>3, BudgetKept DEF IInv, budgets
  <1>5. Flags'
    BY DEF IInv, Flags, budgets, session
  <1>6. Watched'
    BY <1>2 DEF IInv, Flags, Watched, WatchdogAborts, budgets
  <1> QED BY <1>2, <1>4, <1>5, <1>6 DEF IInv

LEMMA ServeOK ==
  ASSUME IInv, NEW n \in Node, Serve(n)
  PROVE  IInv'
  <1> DEFINE t == Now(layer[n]).name
  <1>1. /\ LayerOK(layer[n]) /\ layer[n].at \in {"serial", "admit"} /\ layer[n].at \in AtCall
        /\ Acts(layer[n])
        /\ UNCHANGED << cancelled, outcome, allowed, online, stop >>
    BY DEF IInv, Shape, Shapes, AtCall, Acts, Serve, At
  <1>2. CASE Approve(n) /\ UNCHANGED ask
    <2>1. /\ Shape' /\ Budget' /\ Watched' /\ suspended' = FALSE
          /\ denials' \in [Names -> Nat] /\ tripped' \in BOOLEAN
      BY <1>1, <1>2, ApproveOK
    <2> QED BY <1>1, <1>2, <2>1 DEF IInv, Flags
  <1>3. CASE Deny(n) /\ UNCHANGED ask
    <2>1. /\ Shape' /\ Budget' /\ Watched' /\ suspended' = FALSE
          /\ denials' \in [Names -> Nat] /\ tripped' \in BOOLEAN
      BY <1>1, <1>3, DenyOK
    <2> QED BY <1>1, <1>3, <2>1 DEF IInv, Flags
  <1>4. CASE /\ t \in Guarded /\ ask' = "asked"
             /\ Becomes(n, [layer[n] EXCEPT !.at = "asking"])
             /\ UNCHANGED << tree, frames, budgets >>
    <2> DEFINE l == [layer[n] EXCEPT !.at = "asking"]
    <2>1. /\ l \in Layers /\ l.at = "asking" /\ l.calls = layer[n].calls
          /\ l.next = layer[n].next /\ l.flight = layer[n].flight
          /\ l.serial = layer[n].serial /\ l.caller = layer[n].caller
      BY <1>1 DEF LayerOK, Layers, Place
    <2>2. LayerOK(l) /\ Acts(l) /\ l.caller = layer[n].caller /\ l.at # "running"
      BY <1>1, <1>4, <2>1 DEF LayerOK, InBatch, AtCall, Acts, Now
    <2>3. /\ layer' = [layer EXCEPT ![n] = l] /\ suspended' = FALSE
          /\ UNCHANGED << tree, frames, childCalls, toolCalls, started, denials, tripped >>
      BY <1>4 DEF Becomes, budgets
    <2> HIDE DEF l
    <2>4. Shape' /\ layer'[Root].at # "start" /\ outcome = "running"
      BY <1>1, <2>2, <2>3, StepOnTop, Actor DEF IInv
    <2>5. \A m \in Node : layer'[m].at = "running" => layer[m].at = "running"
      BY <2>2, <2>3 DEF IInv, Shape, Shapes
    <2>6. Budget'
      BY <2>3, <2>5, BudgetKept DEF IInv
    <2>7. Watched'
      BY <1>1, <2>4 DEF Watched, WatchdogAborts
    <2>8. Flags'
      BY <1>1, <1>4, <2>3 DEF IInv, Flags
    <2> QED BY <2>4, <2>6, <2>7, <2>8 DEF IInv
  <1> QED BY <1>2, <1>3, <1>4 DEF Serve

LEMMA TakeAnswerOK ==
  ASSUME IInv, NEW n \in Node, TakeAnswer(n)
  PROVE  IInv'
  <1>1. /\ LayerOK(layer[n]) /\ layer[n].at = "asking"
        /\ ask' = "none" /\ UNCHANGED << cancelled, outcome, online, stop >>
    BY DEF IInv, Shape, Shapes, TakeAnswer
  <1>2. allowed' \subseteq Guarded
    BY <1>1 DEF IInv, Flags, TakeAnswer, LayerOK
  <1>3. /\ Shape' /\ Budget' /\ Watched' /\ suspended' = FALSE
        /\ denials' \in [Names -> Nat] /\ tripped' \in BOOLEAN
    BY <1>1, ApproveOK, DenyOK DEF TakeAnswer
  <1> QED BY <1>1, <1>2, <1>3 DEF IInv, Flags

(* The steps of a layer at its requests and its tools.                     *)
LEMMA LoopOK ==
  ASSUME IInv, NEW n \in Node,
         \/ StopAtTop(n) \/ Request(n) \/ StreamCancelled(n) \/ StreamFails(n)
         \/ SerialCancelled(n) \/ CancelFlight(n)
         \/ \E calls \in Batches : StreamAnswers(n, calls)
         \/ \E i \in layer[n].flight : FlightEnds(n, i)
  PROVE  IInv'
  <1>1. LayerOK(layer[n])
    BY DEF IInv, Shape, Shapes
  <1>2. CASE StopAtTop(n) \/ StreamCancelled(n) \/ StreamFails(n)
             \/ SerialCancelled(n) \/ CancelFlight(n)
    BY <1>2, ReturnsOK
       DEF StopAtTop, StreamCancelled, StreamFails, SerialCancelled, CancelFlight, At, Acts
  <1>3. CASE Request(n)
    <2> DEFINE l == [layer[n] EXCEPT !.at = "stream"]
    <2>1. /\ l \in Layers /\ l.at = "stream" /\ l.calls = layer[n].calls
          /\ l.flight = layer[n].flight /\ l.caller = layer[n].caller
      BY <1>1 DEF LayerOK, Layers, Place
    <2>2. LayerOK(l) /\ Acts(l)
      BY <1>1, <2>1 DEF LayerOK, InBatch, AtCall, Acts
    <2> HIDE DEF l
    <2> QED BY <1>3, <2>1, <2>2, BecomesOK DEF Request, At, Acts, l
  <1>4. CASE \E calls \in Batches : StreamAnswers(n, calls)
    <2>1. PICK calls \in Batches : StreamAnswers(n, calls)
      BY <1>4
    <2>2. calls \in Seq(Call) /\ layer[n].at = "stream" /\ Acts(layer[n])
      BY <2>1, DelegationAssumption DEF StreamAnswers, At, Acts
    <2>3. CASE calls = <<>> \/ (~Serially(calls) /\ cancelled)
      BY <2>1, <2>2, <2>3, ReturnsOK DEF StreamAnswers
    <2>4. CASE calls # <<>> /\ ~(~Serially(calls) /\ cancelled)
      <3> DEFINE l == [layer[n] EXCEPT
                        !.at = IF Serially(calls) THEN "serial" ELSE "admit",
                        !.calls = calls, !.next = 1, !.flight = {}, !.steps = @ + 1,
                        !.serial = Serially(calls)]
      <3>0. Serially(calls) \in BOOLEAN
        BY DEF Serially
      <3>1. /\ l \in Layers /\ l.calls = calls /\ l.next = 1 /\ l.flight = {}
            /\ l.at = IF Serially(calls) THEN "serial" ELSE "admit"
            /\ l.serial = Serially(calls) /\ l.caller = layer[n].caller
        <4>1. layer[n] \in Layers /\ layer[n].steps + 1 \in Nat
          BY <1>1 DEF LayerOK, Layers
        <4> QED BY <2>2, <3>0, <4>1 DEF Layers, Place
      <3>2. 1 \in 1 .. Len(calls)
        BY <2>2, <2>4, EmptySeq
      <3>3. LayerOK(l) /\ Acts(l) /\ l.at # "running"
        BY <3>0, <3>1, <3>2 DEF LayerOK, InBatch, AtCall, Acts
      <3>4. /\ Becomes(n, l)
            /\ UNCHANGED << tree, frames, budgets, cancelled, outcome, session >>
        BY <2>1, <2>4 DEF StreamAnswers
      <3> HIDE DEF l
      <3> QED BY <2>2, <3>1, <3>3, <3>4, BecomesOK
    <2> QED BY <2>3, <2>4
  <1>5. CASE \E i \in layer[n].flight : FlightEnds(n, i)
    <2>1. PICK i \in layer[n].flight : FlightEnds(n, i)
      BY <1>5
    <2> DEFINE rest == layer[n].flight \ {i}
               l == [layer[n] EXCEPT !.flight = rest, !.at = IF rest = {} THEN "top" ELSE @]
    <2>2. layer[n].at = "flight" /\ Acts(layer[n])
      BY <2>1 DEF FlightEnds, At, Acts
    <2>3. rest \in SUBSET Nat /\ rest \subseteq 1 .. Len(layer[n].calls)
      BY <1>1 DEF LayerOK, Layers
    <2>4. Becomes(n, l) /\ UNCHANGED << tree, frames, budgets, cancelled, outcome, session >>
      BY <2>1 DEF FlightEnds
    <2> HIDE DEF rest
    <2>5. /\ l \in Layers /\ l.calls = layer[n].calls /\ l.next = layer[n].next
          /\ l.flight = rest /\ l.at = (IF rest = {} THEN "top" ELSE "flight")
          /\ l.serial = layer[n].serial /\ l.caller = layer[n].caller
      BY <1>1, <2>2, <2>3 DEF LayerOK, Layers, Place
    <2>6. LayerOK(l) /\ Acts(l) /\ l.at # "running"
      BY <1>1, <2>2, <2>3, <2>5 DEF LayerOK, InBatch, AtCall, Acts
    <2> HIDE DEF l
    <2> QED BY <2>2, <2>4, <2>5, <2>6, BecomesOK
  <1> QED BY <1>2, <1>3, <1>4, <1>5

(* The one step that counts more calls than it starts: a script's bridge.  *)
LEMMA ToolEndsOK ==
  ASSUME IInv, NEW n \in Node, ToolEnds(n)
  PROVE  IInv'
  <1>1. /\ LayerOK(layer[n]) /\ layer[n].at = "running" /\ layer[n].at \in AtCall
        /\ layer[n].serial /\ Acts(layer[n])
    BY DEF IInv, Shape, Shapes, LayerOK, ToolEnds, At, AtCall, Acts
  <1> DEFINE l == Answered(layer[n])
  <1>2. LayerOK(l) /\ Acts(l) /\ l.caller = layer[n].caller /\ l.at # "running"
    BY <1>1, AnsweredOK
  <1>3. /\ layer' = [layer EXCEPT ![n] = l] /\ suspended' = FALSE
        /\ UNCHANGED << tree, frames, childCalls, denials, tripped, started, cancelled,
                        outcome, session >>
    BY DEF ToolEnds, Becomes
  <1> HIDE DEF l
  <1>4. Shape' /\ layer'[Root].at # "start" /\ outcome = "running"
    BY <1>1, <1>2, <1>3, StepOnTop, Actor DEF IInv
  <1>5. \A m \in Node : layer'[m].at # "running"
    <2>1. \A m \in Node \ {n} : layer[m].at # "running"
      BY <1>1, Actor DEF IInv
    <2> QED BY <1>2, <1>3, <2>1 DEF IInv, Shape, Shapes
  <1>6. PICK b \in 0 .. MaxBridge : toolCalls' = toolCalls + b
    <2>1. MaxBridge \in Nat
      BY DelegationAssumption
    <2> QED BY <2>1 DEF ToolEnds
  <1>7. Budget'
    <2>1. /\ toolCalls \in Nat /\ b \in Nat /\ b <= MaxBridge /\ MaxBridge \in Nat
          /\ MaxToolCalls \in Nat /\ started \in Nat
      BY DelegationAssumption DEF IInv, Budget
    <2>2. MaxToolCalls > 0 => toolCalls <= MaxToolCalls
      BY <1>1 DEF IInv, Budget
    <2> QED BY <1>3, <1>5, <1>6, <2>1, <2>2 DEF IInv, Budget, Node
  <1>8. Flags'
    BY <1>3 DEF IInv, Flags, session
  <1>9. Watched'
    BY <1>3, <1>4 DEF Watched, WatchdogAborts
  <1> QED BY <1>4, <1>7, <1>8, <1>9 DEF IInv

-----------------------------------------------------------------------------
(* The invariant.                                                          *)

LEMMA InitOK == Init => IInv
  <1> SUFFICES ASSUME Init PROVE IInv
    OBVIOUS
  <1>1. /\ Root \in Node /\ Main \in Agents /\ 0 \in 0 .. MaxDepth - 1
        /\ {MaxToolCalls, MaxBridge, MaxChildCalls} \subseteq Nat
    BY DelegationAssumption DEF Node, Root
  <1>2. /\ \A n \in Node : tree[n].status = IF n = Root THEN "running" ELSE "none"
        /\ \A n \in Node : tree[n].parent = 0
        /\ tree \in [Node -> Nodes]
    BY <1>1 DEF Init, NoNode, Nodes
  <1>3. /\ NoLayer \in Layers /\ NoLayer.at = "none" /\ NoLayer.flight = {} /\ NoLayer.caller = 0
    BY NoLayerOK DEF LayerOK, NoLayer
  <1>4. /\ \A n \in Node : layer[n].at = IF n = Root THEN "start" ELSE "none"
        /\ \A n \in Node : layer[n].caller = 0 /\ layer[n].flight = {}
        /\ layer \in [Node -> Layers]
    BY <1>1, <1>3 DEF Init, Layers, Place
  <1>5. \A n \in Node : LayerOK(layer[n])
    BY <1>4 DEF LayerOK, InBatch, AtCall
  <1>6. Shapes
    BY <1>1, <1>2, <1>4, <1>5 DEF Init, Shapes, Outcomes
  <1>7. NotStarted /\ Path
    BY <1>1, <1>2, <1>4 DEF Init, NotStarted, Path
  <1>8. Budget
    BY <1>1 DEF Init, Budget
  <1>9. Flags /\ Watched
    BY DEF Init, Flags, Watched, WatchdogAborts
  <1> QED BY <1>6, <1>7, <1>8, <1>9 DEF IInv, Shape

(* Every action keeps the layers on one path and the counts within bounds. *)
LEMMA StepOK == IInv /\ [Next]_vars => IInv'
  <1> SUFFICES ASSUME IInv, [Next]_vars PROVE IInv'
    OBVIOUS
  <1>1. CASE RunRoot
    BY <1>1, RunRootOK
  <1>2. CASE RootCancelled
    BY <1>2, DropOK DEF RootCancelled
  <1>3. CASE Abort
    BY <1>3, DropOK DEF Abort
  <1>4. ASSUME NEW n \in Node, Suspend(n) PROVE IInv'
    <2>1. Flags' /\ UNCHANGED << tree, layer, frames, budgets, outcome >>
      BY <1>4 DEF IInv, Flags, Suspend, budgets, session
    <2> QED BY <2>1, BystanderOK
  <1>5. ASSUME NEW n \in Node,
               \/ StopAtTop(n) \/ Request(n) \/ StreamCancelled(n) \/ StreamFails(n)
               \/ SerialCancelled(n) \/ CancelFlight(n)
               \/ \E calls \in Batches : StreamAnswers(n, calls)
               \/ \E i \in layer[n].flight : FlightEnds(n, i)
        PROVE  IInv'
    BY <1>5, LoopOK
  <1>6. ASSUME NEW n \in Node, Serve(n) PROVE IInv'
    BY <1>6, ServeOK
  <1>7. ASSUME NEW n \in Node, TakeAnswer(n) PROVE IInv'
    BY <1>7, TakeAnswerOK
  <1>8. ASSUME NEW n \in Node, ToolEnds(n) PROVE IInv'
    BY <1>8, ToolEndsOK
  <1>9. CASE Cancel \/ ShutdownCancels
    <2>1. Flags' /\ UNCHANGED << tree, layer, frames, budgets, outcome >>
      BY <1>9 DEF IInv, Flags, Cancel, ShutdownCancels, budgets, session
    <2> QED BY <2>1, BystanderOK
  <1>10. ASSUME NEW choice \in Answers, Respond(choice) PROVE IInv'
    <2>1. Flags' /\ UNCHANGED << tree, layer, frames, budgets, outcome >>
      BY <1>10 DEF IInv, Flags, Respond, budgets
    <2> QED BY <2>1, BystanderOK
  <1>11. CASE ConnectOrLeave \/ EngineSettled
    <2>1. Flags' /\ UNCHANGED << tree, layer, frames, budgets, outcome >>
      BY <1>11 DEF IInv, Flags, ConnectOrLeave, EngineSettled, budgets
    <2> QED BY <2>1, BystanderOK
  <1>12. CASE DenyAll
    <2>1. ask' \in {"none", "asked"} \cup Answers
      BY <1>12 DEF IInv, Flags, DenyAll, Answers
    <2>2. Flags' /\ UNCHANGED << tree, layer, frames, budgets, outcome >>
      BY <1>12, <2>1 DEF IInv, Flags, DenyAll, budgets
    <2> QED BY <2>2, BystanderOK
  <1>13. CASE UNCHANGED vars
    <2>1. Flags' /\ UNCHANGED << tree, layer, frames, budgets, outcome >>
      BY <1>13 DEF IInv, Flags, vars, budgets, session
    <2> QED BY <2>1, BystanderOK
  <1> QED BY <1>1, <1>2, <1>3, <1>4, <1>5, <1>6, <1>7, <1>8, <1>9, <1>10, <1>11, <1>12, <1>13
          DEF Next, EngineStep, Environment, ShutdownStep

(* The layers of a run form one path, of which only the last acts, in      *)
(* every reachable state.                                                  *)
THEOREM Invariance == Spec => []IInv
  BY InitOK, StepOK, PTL DEF Spec

-----------------------------------------------------------------------------
(* What follows from it.                                                   *)

(* Every variable keeps its type: among others no layer reads past the     *)
(* calls of its response and no child gets an identifier or a depth beyond *)
(* the limits (check_limits, execute_run).                                 *)
THEOREM TypeCorrect == Spec => []TypeOK
  <1>1. IInv => TypeOK
    <2> SUFFICES ASSUME IInv PROVE TypeOK
      OBVIOUS
    <2>1. tree \in [Node -> [agent : Agents, parent : {0} \cup Node, depth : 0 .. MaxDepth - 1,
                             status : {"none", "running", "completed", "failed"}]]
      BY DEF IInv, Shape, Shapes, Nodes
    <2>2. ASSUME NEW n \in Node
          PROVE  /\ layer[n].at \in {"none", "start", "top", "stream", "serial", "admit",
                                     "asking", "running", "flight", "waits"}
                 /\ layer[n].at \notin {"none", "start", "top", "stream"} =>
                      layer[n].next \in 1 .. Len(layer[n].calls) + 1
                 /\ layer[n].flight \subseteq DOMAIN layer[n].calls
      <3>1. LayerOK(layer[n]) /\ layer[n] \in Layers /\ layer[n].calls \in Seq(Call)
        BY DEF IInv, Shape, Shapes, Layers
      <3>2. Len(layer[n].calls) \in Nat /\ DOMAIN layer[n].calls = 1 .. Len(layer[n].calls)
        BY <3>1, LenProperties
      <3> QED BY <3>1, <3>2 DEF LayerOK, Layers, Place, AtCall
    <2>3. frames \in Seq(Node) /\ childCalls \in 0 .. MaxChildCalls
      BY DEF IInv, Shape, Shapes
    <2>4. outcome \in {"running", "completed", "interrupted", "failed", "aborted"}
      BY DEF IInv, Shape, Shapes, Outcomes
    <2>5. {toolCalls, started} \subseteq Nat
      BY DEF IInv, Budget
    <2>6. /\ denials \in [Names -> Nat]
          /\ {tripped, cancelled, suspended, online} \subseteq BOOLEAN
          /\ ask \in {"none", "asked"} \cup Answers
          /\ allowed \subseteq Guarded
          /\ stop \in {"up", "denied", "waiting", "down"}
      BY DEF IInv, Flags
    <2> QED BY <2>1, <2>2, <2>3, <2>4, <2>5, <2>6 DEF TypeOK
  <1> QED BY <1>1, Invariance, PTL

(* The caller stack is the path of the layers that run: no call_agent is   *)
(* ever taken for another agent's, whatever is cancelled, fails or returns *)
(* early (handle_call_agent reads the top of the stack; FrameGuard).       *)
THEOREM CallersMatched == Spec => []CallersMatch
  <1>1. IInv => CallersMatch
    <2> SUFFICES ASSUME IInv, outcome = "running", frames # <<>>
                 PROVE  /\ OnStack = {n \in Node : tree[n].status = "running"}
                        /\ \A i \in DOMAIN frames :
                             tree[frames[i]].parent = IF i = 1 THEN 0 ELSE frames[i - 1]
                        /\ \A n \in OnStack : layer[n].caller = tree[n].parent
      BY DEF CallersMatch
    <2>1. OnPath /\ layer[Root].caller = 0 /\ tree[Root].parent = 0
      BY DEF IInv, Shape, NotStarted, Path
    <2>2. /\ Len(frames) \in Nat /\ DOMAIN frames = 1 .. Len(frames)
          /\ \A i \in 1 .. Len(frames) : frames[i] \in Node
      BY LenProperties, ElementOfSeq DEF IInv, Shape, Shapes
    <2>3. OnStack = {n \in Node : tree[n].status = "running"}
      <3>1. \A i \in 1 .. Len(frames) : tree[frames[i]].status = "running"
        BY <2>1 DEF OnPath
      <3>2. ASSUME NEW n \in Node, tree[n].status = "running"
            PROVE  \E i \in 1 .. Len(frames) : frames[i] = n
        BY <3>2, <2>1 DEF OnPath
      <3> QED BY <2>2, <3>1, <3>2 DEF OnStack
    <2>4. ASSUME NEW i \in 1 .. Len(frames)
          PROVE  /\ tree[frames[i]].parent = IF i = 1 THEN 0 ELSE frames[i - 1]
                 /\ layer[frames[i]].caller = tree[frames[i]].parent
      <3>1. CASE i = 1
        BY <3>1, <2>1 DEF OnPath
      <3>2. CASE i # 1
        <4>1. i \in 2 .. Len(frames)
          BY <3>2, <2>2
        <4> QED BY <3>2, <4>1, <2>1 DEF OnPath
      <3> QED BY <3>1, <3>2
    <2> QED BY <2>2, <2>3, <2>4 DEF OnStack
  <1> QED BY <1>1, Invariance, PTL

(* The tool calls of all layers stay within max_tool_calls, but for those  *)
(* that one script makes over its bridge (AgentRunner::execute).           *)
THEOREM BudgetHeld == Spec => []BudgetHolds
  <1>1. IInv => BudgetHolds
    BY DEF IInv, Budget, BudgetHolds
  <1> QED BY <1>1, Invariance, PTL

(* A run with a tripped watchdog ends in no other way than as aborted,     *)
(* though a completion, a failure or a cancel may come first (run_root).   *)
THEOREM WatchdogAborted == Spec => []WatchdogAborts
  <1>1. IInv => WatchdogAborts
    BY DEF IInv, Watched
  <1> QED BY <1>1, Invariance, PTL

=============================================================================
