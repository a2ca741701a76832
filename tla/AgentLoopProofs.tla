--------------------------- MODULE AgentLoopProofs ---------------------------
(***************************************************************************)
(* Theorems about AgentLoop and the operators of Transcript, for every set *)
(* of batches, serial and parallel, and all limits: what is sent to the    *)
(* provider is paired, only questions stay open, outputs are kept, and a   *)
(* cancel lets at most one more step through.                              *)
(***************************************************************************)
EXTENDS AgentLoop, SequenceLemmas

-----------------------------------------------------------------------------
(* The messages of the model.                                              *)
LEMMA MessageTypes ==
  /\ UserMessage \in Message /\ Notice \in Message /\ AssistantSays \in Message
  /\ UserMessage.calls = <<>> /\ Notice.calls = <<>> /\ AssistantSays.calls = <<>>
  /\ UserMessage.role = "user" /\ Notice.role = "system" /\ AssistantSays.role = "assistant"
  /\ UserMessage.result = "none" /\ Notice.result = "none" /\ AssistantSays.result = "none"
BY DEF Message, UserMessage, Notice, AssistantSays, Says, Results, NoCall

LEMMA CallsMessage ==
  ASSUME NEW calls \in Seq(Call)
  PROVE  /\ AssistantCalls(calls) \in Message
         /\ AssistantCalls(calls).calls = calls
         /\ AssistantCalls(calls).role = "assistant"
         /\ AssistantCalls(calls).answers = NoCall
         /\ AssistantCalls(calls).result = "none"
BY DEF Message, AssistantCalls, Says, Results, NoCall

LEMMA ToolMessageType ==
  ASSUME NEW call \in Call, NEW result \in Results
  PROVE  /\ ToolMessage(call, result) \in Message
         /\ ToolMessage(call, result).calls = <<>>
         /\ ToolMessage(call, result).role = "tool"
         /\ ToolMessage(call, result).answers = call.id
         /\ ToolMessage(call, result).result = result
<1>1. call.id \in Nat
  BY DEF Call
<1> QED BY <1>1 DEF Message, ToolMessage

(* ResultRunEnd finds what its name says: the results behind i end there.  *)
RunEndsAt(ms, i, j) ==
  /\ j \in i .. Len(ms)
  /\ \A k \in i + 1 .. j : ms[k].role = "tool"
  /\ j = Len(ms) \/ ms[j + 1].role # "tool"

LEMMA RunEnd ==
  ASSUME NEW ms, Len(ms) \in Nat, NEW i \in 1 .. Len(ms)
  PROVE  RunEndsAt(ms, i, ResultRunEnd(ms, i))
<1> DEFINE Ends == {j \in i .. Len(ms) : j = Len(ms) \/ ms[j + 1].role # "tool"}
<1>1. PICK j \in Ends : \A m \in Ends : j <= m
  <2>1. Ends \subseteq Nat /\ Len(ms) \in Ends
    OBVIOUS
  <2> HIDE DEF Ends
  <2> QED BY <2>1, Least
<1>2. ASSUME NEW k \in i + 1 .. j PROVE ms[k].role = "tool"
  <2>1. k - 1 \in i .. Len(ms) /\ k - 1 < j /\ j \in Nat
    BY <1>1
  <2>2. k - 1 \notin Ends
    <3> HIDE DEF Ends
    <3> QED BY <2>1, <1>1
  <2> QED BY <2>1, <2>2
<1>3. RunEndsAt(ms, i, j)
  BY <1>1, <1>2 DEF RunEndsAt
<1> QED BY <1>3 DEF RunEndsAt, ResultRunEnd

LEMMA RunEndIs ==
  ASSUME NEW ms, Len(ms) \in Nat, NEW i \in 1 .. Len(ms), NEW j, RunEndsAt(ms, i, j)
  PROVE  ResultRunEnd(ms, i) = j
<1> DEFINE e == ResultRunEnd(ms, i)
<1>1. RunEndsAt(ms, i, e)
  BY RunEnd
<1> HIDE DEF e
<1>2. ASSUME j < e PROVE FALSE
  BY <1>1, <1>2 DEF RunEndsAt
<1>3. ASSUME e < j PROVE FALSE
  BY <1>1, <1>3 DEF RunEndsAt
<1> QED BY <1>1, <1>2, <1>3 DEF RunEndsAt, e

(* A message at the end lengthens only a run that reaches the end, and only *)
(* if it is a result itself.                                               *)
LEMMA RunEndAppend ==
  ASSUME NEW ms \in Seq(Message), NEW m \in Message, NEW i \in 1 .. Len(ms)
  PROVE  ResultRunEnd(Append(ms, m), i) =
           IF ResultRunEnd(ms, i) = Len(ms) /\ m.role = "tool" THEN Len(ms) + 1
                                                               ELSE ResultRunEnd(ms, i)
<1> DEFINE e == ResultRunEnd(ms, i)
           app == Append(ms, m)
<1>1. RunEndsAt(ms, i, e)
  BY RunEnd
<1>2. /\ Len(app) = Len(ms) + 1 /\ Len(ms) \in Nat /\ Len(app) \in Nat
      /\ \A k \in 1 .. Len(ms) : app[k] = ms[k]
      /\ app[Len(ms) + 1] = m
      /\ i \in 1 .. Len(app)
  OBVIOUS
<1> HIDE DEF e, app
<1>3. CASE e = Len(ms) /\ m.role = "tool"
  <2>1. RunEndsAt(app, i, Len(ms) + 1)
    <3>1. \A k \in i + 1 .. Len(ms) + 1 : k \in 1 .. Len(ms) \/ k = Len(ms) + 1
      OBVIOUS
    <3>2. ASSUME NEW k \in i + 1 .. Len(ms) + 1 PROVE app[k].role = "tool"
      BY <1>1, <1>2, <1>3, <3>1 DEF RunEndsAt
    <3> QED BY <1>2, <3>2 DEF RunEndsAt
  <2>2. ResultRunEnd(app, i) = Len(ms) + 1
    BY <2>1, <1>2, RunEndIs
  <2> QED BY <2>2, <1>3 DEF e, app
<1>4. CASE ~(e = Len(ms) /\ m.role = "tool")
  <2>1. RunEndsAt(app, i, e)
    <3>1. e \in i .. Len(ms) /\ e \in 1 .. Len(ms) /\ e \in i .. Len(app)
      BY <1>1, <1>2 DEF RunEndsAt
    <3>2. \A k \in i + 1 .. e : app[k].role = "tool"
      BY <1>1, <1>2, <3>1 DEF RunEndsAt
    <3>3. app[e + 1].role # "tool"
      <4>1. CASE e = Len(ms)
        BY <4>1, <1>2, <1>4
      <4>2. CASE e # Len(ms)
        BY <4>2, <3>1, <1>1, <1>2 DEF RunEndsAt
      <4> QED BY <4>1, <4>2
    <3> QED BY <3>1, <3>2, <3>3 DEF RunEndsAt
  <2>2. ResultRunEnd(app, i) = e
    BY <2>1, <1>2, RunEndIs
  <2> QED BY <2>2, <1>4 DEF e, app
<1> QED BY <1>3, <1>4

LEMMA RunEndLast ==
  ASSUME NEW ms, Len(ms) \in Nat \ {0}
  PROVE  ResultRunEnd(ms, Len(ms)) = Len(ms)
<1>1. RunEndsAt(ms, Len(ms), Len(ms))
  BY DEF RunEndsAt
<1> QED BY <1>1, RunEndIs

(* What is answered and what answers something stays so under an append.   *)
LEMMA AppendKeeps ==
  ASSUME NEW ms \in Seq(Message), NEW m \in Message, NEW i \in 1 .. Len(ms)
  PROVE  /\ ResolvedIds(ms, i) \subseteq ResolvedIds(Append(ms, m), i)
         /\ Answered(ms, i) => Answered(Append(ms, m), i)
         /\ Grounded(ms, i) => Grounded(Append(ms, m), i)
<1> DEFINE app == Append(ms, m)
<1>1. /\ Len(app) = Len(ms) + 1 /\ Len(ms) \in Nat
      /\ \A k \in 1 .. Len(ms) : app[k] = ms[k]
  OBVIOUS
<1>2. ASSUME NEW k \in 1 .. Len(ms)
      PROVE  ResultRunEnd(ms, k) <= ResultRunEnd(app, k) /\ ResultRunEnd(ms, k) \in k .. Len(ms)
             /\ ResultRunEnd(app, k) \in Nat
  <2>1. RunEndsAt(ms, k, ResultRunEnd(ms, k))
    BY RunEnd
  <2> QED BY <2>1, RunEndAppend DEF RunEndsAt
<1> HIDE DEF app
<1>3. ResolvedIds(ms, i) \subseteq ResolvedIds(app, i)
  <2>1. ASSUME NEW k \in i + 1 .. ResultRunEnd(ms, i)
        PROVE  k \in i + 1 .. ResultRunEnd(app, i) /\ app[k] = ms[k]
    <3>1. ASSUME NEW a \in i .. Len(ms), NEW b \in Nat, a <= b, k \in i + 1 .. a
          PROVE  k \in i + 1 .. b /\ k \in 1 .. Len(ms)
      BY <3>1, <1>1
    <3>2. k \in i + 1 .. ResultRunEnd(app, i) /\ k \in 1 .. Len(ms)
      BY <3>1, <1>2, Zenon
    <3> QED BY <3>2, <1>1
  <2> QED BY <2>1 DEF ResolvedIds
<1>4. Answered(ms, i) => Answered(app, i)
  BY <1>1, <1>3 DEF Answered
<1>5. ASSUME Grounded(ms, i) PROVE Grounded(app, i)
  <2>1. PICK b \in 1 .. i - 1 :
          /\ i <= ResultRunEnd(ms, b)
          /\ \E n \in DOMAIN ms[b].calls : ms[b].calls[n].id = ms[i].answers
          /\ \A l \in b + 1 .. i - 1 : ms[l].answers # ms[i].answers
    BY <1>5 DEF Grounded
  <2>0. b \in 1 .. Len(ms) /\ i \in Nat
    OBVIOUS
  <2>2. i <= ResultRunEnd(app, b)
    BY <2>0, <2>1, <1>2
  <2>3. app[b] = ms[b] /\ app[i] = ms[i] /\ \A l \in b + 1 .. i - 1 : app[l] = ms[l]
    BY <1>1
  <2> QED BY <2>1, <2>2, <2>3 DEF Grounded
<1> QED BY <1>3, <1>4, <1>5 DEF app

(* The open calls are those that have no result behind their message.      *)
OpenAt(ms, i) == {ms[i].calls[n] : n \in {k \in DOMAIN ms[i].calls :
                    ms[i].calls[k].id \notin ResolvedIds(ms, i)}}

LEMMA MissingMembers ==
  ASSUME NEW ms \in Seq(Message), NEW i \in DOMAIN ms
  PROVE  Missing(ms, i) \in Seq(Call) /\ ToSet(Missing(ms, i)) = OpenAt(ms, i)
<1> DEFINE calls == ms[i].calls
           part(n) == IF calls[n].id \in ResolvedIds(ms, i) THEN <<>> ELSE <<calls[n]>>
           parts == [n \in DOMAIN calls |-> part(n)]
<1>1. calls \in Seq(Call)
  <2>1. ms[i] \in Message
    OBVIOUS
  <2> QED BY <2>1 DEF Message
<1>2. \A n \in DOMAIN calls : part(n) \in Seq(Call)
  BY <1>1
<1>3. parts \in Seq(Seq(Call)) /\ DOMAIN parts = DOMAIN calls
  <2> HIDE DEF part, calls
  <2> QED BY <1>1, <1>2
<1>4. Missing(ms, i) = FlattenSeq(parts)
  BY DEF Missing
<1>5. \A n \in DOMAIN calls : ToSet(parts[n]) =
        IF calls[n].id \in ResolvedIds(ms, i) THEN {} ELSE {calls[n]}
  <2> HIDE DEF calls
  <2> QED BY DEF ToSet
<1> HIDE DEF parts
<1>6. /\ FlattenSeq(parts) \in Seq(Call)
      /\ ToSet(FlattenSeq(parts)) = UNION {ToSet(parts[n]) : n \in DOMAIN parts}
  BY <1>3, FlattenMembers
<1>7. (UNION {ToSet(parts[n]) : n \in DOMAIN parts}) = OpenAt(ms, i)
  <2>1. ASSUME NEW c PROVE c \in UNION {ToSet(parts[n]) : n \in DOMAIN parts} <=> c \in OpenAt(ms, i)
    <3> HIDE DEF calls
    <3>1. c \in UNION {ToSet(parts[n]) : n \in DOMAIN parts} <=> \E n \in DOMAIN calls : c \in ToSet(parts[n])
      BY <1>3
    <3>2. (\E n \in DOMAIN calls : c \in ToSet(parts[n])) <=>
            \E n \in DOMAIN calls : calls[n].id \notin ResolvedIds(ms, i) /\ c = calls[n]
      BY <1>5
    <3> QED BY <3>1, <3>2 DEF calls, OpenAt
  <2> QED BY <2>1
<1> QED BY <1>4, <1>6, <1>7

LEMMA DanglingMembers ==
  ASSUME NEW ms \in Seq(Message)
  PROVE  /\ DanglingCalls(ms) \in Seq(Call)
         /\ \A c : c \in ToSet(DanglingCalls(ms)) <=>
              \E i \in DOMAIN ms : \E n \in DOMAIN ms[i].calls :
                /\ c = ms[i].calls[n]
                /\ c.id \notin ResolvedIds(ms, i)
<1>1. ASSUME NEW i \in DOMAIN ms
      PROVE  Missing(ms, i) \in Seq(Call) /\ ToSet(Missing(ms, i)) = OpenAt(ms, i)
  BY MissingMembers
<1> DEFINE all == [i \in DOMAIN ms |-> Missing(ms, i)]
<1>2. all \in Seq(Seq(Call)) /\ DOMAIN all = DOMAIN ms
  BY <1>1
<1>3. DanglingCalls(ms) = FlattenSeq(all)
  BY DEF DanglingCalls
<1>4. \A i \in DOMAIN ms : ToSet(all[i]) = OpenAt(ms, i)
  BY <1>1
<1> HIDE DEF all
<1>5. /\ FlattenSeq(all) \in Seq(Call)
      /\ ToSet(FlattenSeq(all)) = UNION {ToSet(all[i]) : i \in DOMAIN all}
  BY <1>2, FlattenMembers
<1>6. ASSUME NEW c
      PROVE  c \in UNION {ToSet(all[i]) : i \in DOMAIN all} <=> \E i \in DOMAIN ms : c \in OpenAt(ms, i)
  BY <1>2, <1>4
<1>7. ASSUME NEW c, NEW i \in DOMAIN ms
      PROVE  c \in OpenAt(ms, i) <=> \E n \in DOMAIN ms[i].calls :
               c = ms[i].calls[n] /\ c.id \notin ResolvedIds(ms, i)
  BY DEF OpenAt
<1> QED BY <1>3, <1>5, <1>6, <1>7
-----------------------------------------------------------------------------
(* Types, and what the loop's counters and its batch keep to.              *)

StepOpen == pc \in {"serial", "batch", "inflight", "drain", "cancelling"}

BatchOK ==
  /\ \A n, m \in DOMAIN batch : batch[n].id = batch[m].id => n = m
  /\ \A n \in DOMAIN batch : batch[n].id < nextId
  /\ pc = "serial" => next <= Len(batch)
  /\ pc \in {"batch", "inflight"} => next = 1
  /\ pc = "batch" => slots = {}
  /\ pc = "drain" /\ ~batchCancelled => slots = DOMAIN batch

CountsOK ==
  /\ pc # "returned" => empties < MaxEmptyTurns
  /\ pc = "stream" => steps < MaxSteps
  /\ cancelled => /\ cancelStep <= steps
                  /\ steps <= cancelStep + 1
                  /\ pc = "stream" => steps = cancelStep

LoopTypeInv == LoopTypeOK /\ BatchOK /\ CountsOK

LEMMA TruncationsType ==
  ASSUME NEW ms \in Seq(Message), NEW ts \in Truncations(ms)
  PROVE  /\ ts \in Seq(Message)
         /\ Len(ms) > 2
         /\ \/ ts = <<ms[1], Notice, ms[Len(ms) - 1], ms[Len(ms)]>>
            \/ ts = <<ms[1], Notice, ms[Len(ms)]>>
<1>1. Len(ms) > 2 /\ Len(ms) \in Nat
  BY DEF Truncations
<1>2. SubSeq(ms, Len(ms) - 1, Len(ms)) = <<ms[Len(ms) - 1], ms[Len(ms)]>>
  <2> DEFINE L == Len(ms)
             s == SubSeq(ms, L - 1, L)
  <2>1. s = [i \in 1 .. L - (L - 1) + 1 |-> ms[i + (L - 1) - 1]]
    OBVIOUS
  <2>2. L - (L - 1) + 1 = 2
    BY <1>1
  <2>3. s = [i \in 1 .. 2 |-> ms[i + (L - 1) - 1]]
    BY <2>1, <2>2
  <2>4. s \in Seq({ms[L - 1], ms[L]}) /\ Len(s) = 2 /\ s[1] = ms[L - 1] /\ s[2] = ms[L]
    <3> HIDE DEF s
    <3> QED BY <2>3, <1>1
  <2> HIDE DEF s
  <2>5. s = <<s[1], s[2]>>
    BY <2>4
  <2> QED BY <2>4, <2>5 DEF s
<1>3. Head(ms) = ms[1] /\ Last(ms) = ms[Len(ms)]
  BY <1>1 DEF Last
<1>4. \/ ts = <<ms[1], Notice, ms[Len(ms) - 1], ms[Len(ms)]>>
      \/ ts = <<ms[1], Notice, ms[Len(ms)]>>
  <2>1. <<ms[1], Notice>> \o <<ms[Len(ms) - 1], ms[Len(ms)]>> =
          <<ms[1], Notice, ms[Len(ms) - 1], ms[Len(ms)]>>
    <3>1. ASSUME NEW a, NEW b, NEW c, NEW d PROVE <<a, b>> \o <<c, d>> = <<a, b, c, d>>
      <4> DEFINE s == <<a, b>> \o <<c, d>>
                 X == {a, b, c, d}
      <4>1. <<a, b>> \in Seq(X) /\ <<c, d>> \in Seq(X)
        OBVIOUS
      <4>2. s \in Seq(X) /\ Len(s) = 4
        BY <4>1
      <4>3. s[1] = a /\ s[2] = b /\ s[3] = c /\ s[4] = d
        BY <4>1
      <4> HIDE DEF s, X
      <4>4. s = <<s[1], s[2], s[3], s[4]>>
        BY <4>2
      <4> QED BY <4>3, <4>4 DEF s
    <3> QED BY <3>1
  <2> QED BY <1>1, <1>2, <1>3, <2>1 DEF Truncations
<1>5. {ms[1], ms[Len(ms) - 1], ms[Len(ms)], Notice} \subseteq Message
  BY <1>1, MessageTypes
<1>6. ts \in Seq(Message)
  <2>1. <<ms[1], Notice, ms[Len(ms) - 1], ms[Len(ms)]>> \in Seq(Message)
    BY <1>5
  <2>2. <<ms[1], Notice, ms[Len(ms)]>> \in Seq(Message)
    BY <1>5
  <2> QED BY <1>4, <2>1, <2>2
<1> QED BY <1>1, <1>4, <1>6

LEMMA CallsType ==
  ASSUME LoopTypeOK, NEW kinds \in Batches
  PROVE  /\ Calls(kinds) \in Seq(Call)
         /\ Len(Calls(kinds)) = Len(kinds) /\ Len(kinds) \in Nat \ {0}
         /\ \A n \in 1 .. Len(kinds) : Calls(kinds)[n].id = nextId + n - 1
<1>1. kinds \in Seq(CallKinds) /\ kinds # <<>>
  BY LoopAssumption
<1>2. \A n \in 1 .. Len(kinds) : [id |-> nextId + n - 1, kind |-> kinds[n]] \in Call
  BY <1>1 DEF LoopTypeOK, Call
<1> QED BY <1>1, <1>2 DEF Calls

LEMMA LoopInitTyped == LoopInit => LoopTypeInv
<1> SUFFICES ASSUME LoopInit PROVE LoopTypeInv
  OBVIOUS
<1> USE LoopAssumption, MessageTypes DEF LoopInit, Fresh
<1>1. LoopTypeOK
  <2>1. messages \in Seq(Message) /\ log \in Seq(Message) /\ batch \in Seq(Call)
    OBVIOUS
  <2>2. steps \in 0 .. MaxSteps /\ empties \in 0 .. MaxEmptyTurns /\ cancelStep \in 0 .. MaxSteps
    OBVIOUS
  <2>3. next \in 1 .. Len(batch) + 1 /\ slots \subseteq DOMAIN batch
    OBVIOUS
  <2>4. nextId \in Nat \ {0} /\ collected \subseteq 1 .. nextId - 1
    OBVIOUS
  <2> QED BY <2>1, <2>2, <2>3, <2>4 DEF LoopTypeOK, Working
<1>2. BatchOK
  BY DEF BatchOK
<1>3. CountsOK
  BY DEF CountsOK
<1> QED BY <1>1, <1>2, <1>3 DEF LoopTypeInv

LEMMA LoopTyped == LoopTypeInv /\ [LoopNext]_loopVars => LoopTypeInv'
<1> SUFFICES ASSUME LoopTypeInv, [LoopNext]_loopVars PROVE LoopTypeInv'
  OBVIOUS
<1>0. LoopTypeOK /\ BatchOK /\ CountsOK
  BY DEF LoopTypeInv
<1> USE LoopAssumption
<1>1. CASE CancelToken
  <2> USE <1>0, <1>1 DEF CancelToken, batchVars
  <2>1. LoopTypeOK'
    BY Zenon DEF LoopTypeOK
  <2>2. BatchOK'
    BY DEF BatchOK
  <2>3. CountsOK'
    BY DEF CountsOK, LoopTypeOK
  <2> QED BY <2>1, <2>2, <2>3 DEF LoopTypeInv
<1>2. CASE StopAtTop
  <2> USE <1>0, <1>2 DEF StopAtTop, Return, batchVars, unchangedHistory
  <2>1. LoopTypeOK'
    BY DEF LoopTypeOK, Outcomes
  <2>2. BatchOK'
    BY DEF BatchOK
  <2>3. CountsOK'
    BY DEF CountsOK, LoopTypeOK
  <2> QED BY <2>1, <2>2, <2>3 DEF LoopTypeInv
<1>3. CASE Request
  <2> USE <1>0, <1>3 DEF Request, batchVars, unchangedHistory
  <2>1. LoopTypeOK'
    <3>1. messages' \in Seq(Message)
      BY TruncationsType DEF LoopTypeOK
    <3>2. truncated' \in BOOLEAN
      BY DEF LoopTypeOK
    <3> QED BY <3>1, <3>2 DEF LoopTypeOK, Working
  <2>2. BatchOK'
    BY DEF BatchOK
  <2>3. CountsOK'
    BY DEF CountsOK, LoopTypeOK
  <2> QED BY <2>1, <2>2, <2>3 DEF LoopTypeInv
<1>4. CASE StreamDone
  <2> USE <1>0, <1>4 DEF StreamDone, batchVars, unchangedHistory
  <2>1. LoopTypeOK'
    BY DEF LoopTypeOK
  <2>2. BatchOK'
    BY DEF BatchOK
  <2>3. CountsOK'
    BY DEF CountsOK, LoopTypeOK
  <2> QED BY <2>1, <2>2, <2>3 DEF LoopTypeInv
<1>5. CASE StreamCancelled \/ StreamFails \/ SerialMalformed
  <2> USE <1>0, <1>5 DEF StreamCancelled, StreamFails, SerialMalformed, Return, batchVars, unchangedHistory
  <2>1. LoopTypeOK'
    BY DEF LoopTypeOK, Outcomes
  <2>2. BatchOK'
    BY DEF BatchOK
  <2>3. CountsOK'
    BY DEF CountsOK, LoopTypeOK
  <2> QED BY <2>1, <2>2, <2>3 DEF LoopTypeInv
<1>6. CASE StreamEnd
  <2> USE <1>0, <1>6 DEF StreamEnd, unchangedHistory
  <2>1. CASE response.kinds # <<>>
    <3> DEFINE calls == Calls(response.kinds)
    <3>1. response.kinds \in Batches
      BY <2>1 DEF LoopTypeOK, Responses, NoResponse
    <3>2. /\ calls \in Seq(Call)
          /\ Len(calls) \in Nat \ {0}
          /\ \A n \in 1 .. Len(calls) : calls[n].id = nextId + n - 1
      BY <3>1, CallsType
    <3>3. /\ log' = Append(log, AssistantCalls(calls)) /\ messages' = Append(messages, AssistantCalls(calls))
          /\ batch' = calls /\ nextId' = nextId + Len(calls)
          /\ empties' = 0 /\ next' = 1 /\ slots' = {} /\ batchCancelled' = FALSE
          /\ pc' \in {"serial", "batch"} /\ outcome' = outcome
      BY <2>1 DEF Append1
    <3> HIDE DEF calls
    <3>4. AssistantCalls(calls) \in Message
      BY <3>2, CallsMessage
    <3>5. LoopTypeOK'
      <4>1. log' \in Seq(Message) /\ messages' \in Seq(Message)
        BY <3>3, <3>4 DEF LoopTypeOK
      <4>2. steps' \in 0 .. MaxSteps /\ empties' \in 0 .. MaxEmptyTurns
        BY <3>3 DEF LoopTypeOK, CountsOK
      <4>3. next' \in 1 .. Len(batch') + 1 /\ slots' \subseteq DOMAIN batch'
        BY <3>2, <3>3
      <4>4. nextId' \in Nat \ {0} /\ collected' \subseteq 1 .. nextId' - 1
        BY <3>2, <3>3 DEF LoopTypeOK
      <4>5. batch' \in Seq(Call) /\ pc' \in Working /\ batchCancelled' \in BOOLEAN
        BY <3>2, <3>3 DEF Working
      <4>6. UNCHANGED <<response, cancelled, truncated, outcome, cancelStep>>
        BY <3>3
      <4> HIDE <1>6 DEF StreamEnd
      <4> QED BY <4>1, <4>2, <4>3, <4>4, <4>5, <4>6 DEF LoopTypeOK
    <3>6. BatchOK'
      <4>1. nextId \in Nat /\ DOMAIN calls = 1 .. Len(calls)
        BY <3>2 DEF LoopTypeOK
      <4>2. ASSUME NEW n \in 1 .. Len(calls), NEW m \in 1 .. Len(calls), calls[n].id = calls[m].id
            PROVE  n = m
        <5>1. calls[n].id = nextId + n - 1 /\ calls[m].id = nextId + m - 1
          BY <3>2
        <5>2. Len(calls) \in Nat /\ n \in Nat /\ m \in Nat
          BY <3>2
        <5>3. nextId + n - 1 = nextId + m - 1
          BY <4>2, <5>1
        <5> QED BY ONLY <4>1, <5>2, <5>3
      <4>3. ASSUME NEW n \in 1 .. Len(calls) PROVE calls[n].id < nextId + Len(calls)
        <5>1. calls[n].id = nextId + n - 1
          BY <3>2
        <5> QED BY ONLY <4>1, <3>2, <5>1
      <4> QED BY <3>2, <3>3, <4>1, <4>2, <4>3 DEF BatchOK
    <3>7. CountsOK'
      BY <3>3 DEF CountsOK, LoopTypeOK
    <3> QED BY <3>5, <3>6, <3>7 DEF LoopTypeInv
  <2>2. CASE response.kinds = <<>>
    <3>1. /\ log' = Append(log, AssistantSays) /\ messages' = Append(messages, AssistantSays)
          /\ UNCHANGED <<batch, next, slots, batchCancelled, nextId>>
          /\ empties' \in {empties, empties + 1}
          /\ pc' \in {"check", "returned"}
          /\ pc' = "check" => empties' < MaxEmptyTurns
          /\ outcome' \in Outcomes \cup {outcome}
      BY <2>2 DEF Append1, batchVars, Return, Outcomes, LoopTypeOK
    <3>2. LoopTypeOK'
      BY <3>1, MessageTypes DEF LoopTypeOK, Working, CountsOK
    <3>3. BatchOK'
      BY <3>1 DEF BatchOK
    <3>4. CountsOK'
      BY <3>1 DEF CountsOK, LoopTypeOK
    <3> QED BY <3>2, <3>3, <3>4 DEF LoopTypeInv
  <2> QED BY <2>1, <2>2
<1>7. CASE SerialCancelled
  <2> USE <1>0, <1>7 DEF SerialCancelled, batchVars, unchangedHistory
  <2>1. LoopTypeOK'
    BY DEF LoopTypeOK, Working
  <2>2. BatchOK'
    BY DEF BatchOK
  <2>3. CountsOK'
    BY DEF CountsOK, LoopTypeOK
  <2> QED BY <2>1, <2>2, <2>3 DEF LoopTypeInv
<1>8. CASE SerialOutput
  <2> USE <1>0, <1>8 DEF SerialOutput, Append1
  <2>1. next \in DOMAIN batch /\ batch[next] \in Call
    BY DEF LoopTypeOK, BatchOK
  <2>2. ToolMessage(batch[next], "output") \in Message
    BY <2>1, ToolMessageType DEF Results
  <2>3. batch[next].id \in 1 .. nextId - 1
    <3>1. batch[next].id < nextId
      BY ONLY <1>0, <2>1 DEF LoopTypeInv, BatchOK
    <3>2. batch[next].id \in Nat \ {0} /\ nextId \in Nat
      BY ONLY <1>0, <2>1 DEF LoopTypeInv, LoopTypeOK, Call
    <3> QED BY ONLY <3>1, <3>2
  <2>4. LoopTypeOK'
    <3>1. log' \in Seq(Message) /\ messages' \in Seq(Message)
      BY <2>2 DEF LoopTypeOK
    <3>2. next' \in 1 .. Len(batch') + 1
      BY <2>1 DEF LoopTypeOK
    <3>3. collected' \subseteq 1 .. nextId' - 1
      BY <2>3 DEF LoopTypeOK
    <3>4. pc' \in Working
      BY DEF Working
    <3> QED BY <3>1, <3>2, <3>3, <3>4 DEF LoopTypeOK
  <2>5. BatchOK'
    BY <2>1 DEF BatchOK, LoopTypeOK
  <2>6. CountsOK'
    BY DEF CountsOK, LoopTypeOK
  <2> QED BY <2>4, <2>5, <2>6 DEF LoopTypeInv
<1>9. CASE CancelRest
  <2> USE <1>0, <1>9 DEF CancelRest, Append1, Return, unchangedHistory
  <2>1. log' \in Seq(Message) /\ messages' \in Seq(Message) /\ next' \in 1 .. Len(batch) + 1
    <3>1. CASE next > Len(batch)
      BY <3>1 DEF LoopTypeOK
    <3>2. CASE next <= Len(batch)
      <4>1. batch[next] \in Call
        BY <3>2 DEF LoopTypeOK
      <4>2. ToolMessage(batch[next], "cancelled") \in Message
        BY <4>1, ToolMessageType DEF Results
      <4>3. /\ log' \in {log, Append(log, ToolMessage(batch[next], "cancelled"))}
            /\ messages' \in {messages, Append(messages, ToolMessage(batch[next], "cancelled"))}
            /\ next' = next + 1
        <5>1. ~(next > Len(batch))
          BY <3>2 DEF LoopTypeOK
        <5> QED BY <5>1
      <4>4. \A m \in Message : Append(log, m) \in Seq(Message) /\ Append(messages, m) \in Seq(Message)
        BY DEF LoopTypeOK
      <4>5. log \in Seq(Message) /\ messages \in Seq(Message)
        BY DEF LoopTypeOK
      <4>6. log' \in Seq(Message)
        BY ONLY <4>2, <4>3, <4>4, <4>5
      <4>7. messages' \in Seq(Message)
        BY ONLY <4>2, <4>3, <4>4, <4>5
      <4>8. next' \in 1 .. Len(batch) + 1
        BY ONLY <3>2, <4>3, <1>0 DEF LoopTypeOK
      <4> QED BY <4>6, <4>7, <4>8
    <3> QED BY <3>1, <3>2 DEF LoopTypeOK
  <2>2. pc' \in {"cancelling", "returned"} /\ outcome' \in Outcomes \cup {outcome}
    BY DEF Outcomes
  <2>3. LoopTypeOK'
    BY <2>1, <2>2 DEF LoopTypeOK, Working
  <2>4. BatchOK'
    BY <2>2 DEF BatchOK
  <2>5. CountsOK'
    BY <2>2 DEF CountsOK, LoopTypeOK
  <2> QED BY <2>3, <2>4, <2>5 DEF LoopTypeInv
<1>10. CASE BatchStart
  <2> USE <1>0, <1>10 DEF BatchStart, Return, batchVars, unchangedHistory
  <2>1. pc' \in {"cancelling", "inflight", "returned"} /\ outcome' \in Outcomes \cup {outcome}
    BY DEF Outcomes
  <2>2. LoopTypeOK'
    BY <2>1 DEF LoopTypeOK, Working
  <2>3. BatchOK'
    BY <2>1 DEF BatchOK
  <2>4. CountsOK'
    BY <2>1 DEF CountsOK, LoopTypeOK
  <2> QED BY <2>2, <2>3, <2>4 DEF LoopTypeInv
<1>11. ASSUME NEW n \in DOMAIN batch, ToolDone(n)
       PROVE  LoopTypeInv'
  <2> USE <1>0, <1>11 DEF ToolDone
  <2>1. batch[n].id \in 1 .. nextId - 1
    <3>1. batch[n] \in Call
      BY DEF LoopTypeOK
    <3> QED BY <3>1 DEF BatchOK, LoopTypeOK, Call
  <2>2. LoopTypeOK'
    BY <2>1 DEF LoopTypeOK
  <2>3. BatchOK'
    BY DEF BatchOK
  <2>4. CountsOK'
    BY DEF CountsOK, LoopTypeOK
  <2> QED BY <2>2, <2>3, <2>4 DEF LoopTypeInv
<1>12. CASE BatchJoined
  <2> USE <1>0, <1>12 DEF BatchJoined, unchangedHistory
  <2>1. LoopTypeOK'
    BY DEF LoopTypeOK, Working
  <2>2. BatchOK'
    BY DEF BatchOK
  <2>3. CountsOK'
    BY DEF CountsOK, LoopTypeOK
  <2> QED BY <2>1, <2>2, <2>3 DEF LoopTypeInv
<1>13. CASE Drain
  <2> USE <1>0, <1>13 DEF Drain, Append1, Return, unchangedHistory
  <2>1. log' \in Seq(Message) /\ messages' \in Seq(Message) /\ next' \in 1 .. Len(batch) + 1
    <3>1. CASE next > Len(batch)
      BY <3>1 DEF LoopTypeOK
    <3>2. CASE next <= Len(batch)
      <4>1. batch[next] \in Call
        BY <3>2 DEF LoopTypeOK
      <4>2. ToolMessage(batch[next], "cancelled") \in Message /\ ToolMessage(batch[next], "output") \in Message
        BY <4>1, ToolMessageType DEF Results
      <4>3. /\ log' \in {log, Append(log, ToolMessage(batch[next], "cancelled")), Append(log, ToolMessage(batch[next], "output"))}
            /\ messages' \in {messages, Append(messages, ToolMessage(batch[next], "cancelled")), Append(messages, ToolMessage(batch[next], "output"))}
            /\ next' = next + 1
        <5>1. ~(next > Len(batch))
          BY <3>2 DEF LoopTypeOK
        <5> QED BY <5>1
      <4>4. \A m \in Message : Append(log, m) \in Seq(Message) /\ Append(messages, m) \in Seq(Message)
        BY DEF LoopTypeOK
      <4>5. log \in Seq(Message) /\ messages \in Seq(Message)
        BY DEF LoopTypeOK
      <4>6. log' \in Seq(Message)
        BY ONLY <4>2, <4>3, <4>4, <4>5
      <4>7. messages' \in Seq(Message)
        BY ONLY <4>2, <4>3, <4>4, <4>5
      <4>8. next' \in 1 .. Len(batch) + 1
        BY ONLY <3>2, <4>3, <1>0 DEF LoopTypeOK
      <4> QED BY <4>6, <4>7, <4>8
    <3> QED BY <3>1, <3>2 DEF LoopTypeOK
  <2>2. pc' \in {"check", "drain", "returned"} /\ outcome' \in Outcomes \cup {outcome}
    BY DEF Outcomes
  <2>3. LoopTypeOK'
    BY <2>1, <2>2 DEF LoopTypeOK, Working
  <2>4. BatchOK'
    BY <2>2 DEF BatchOK
  <2>5. CountsOK'
    BY <2>2 DEF CountsOK, LoopTypeOK
  <2> QED BY <2>3, <2>4, <2>5 DEF LoopTypeInv
<1>14. CASE UNCHANGED loopVars
  BY <1>0, <1>14 DEF loopVars, LoopTypeInv, LoopTypeOK, BatchOK, CountsOK
<1> QED BY <1>1, <1>2, <1>3, <1>4, <1>5, <1>6, <1>7, <1>8, <1>9, <1>10, <1>11, <1>12, <1>13, <1>14
        DEF LoopNext, LoopStep, LoopInput

(* The loop keeps its types, its batch has calls of fresh and different    *)
(* ids, and the counters stay within the limits, for all batches and any   *)
(* limits (execute_run).                                                   *)
THEOREM LoopTypeCorrect == LoopSpec => []LoopTypeInv
BY LoopInitTyped, LoopTyped, PTL DEF LoopSpec

(* After a cancel the run adds at most the step whose response had already *)
(* been assembled, however many steps the limits still allow.              *)
THEOREM OneMoreStep == LoopSpec => []AtMostOneMoreStep
<1>1. LoopTypeInv => AtMostOneMoreStep
  BY DEF LoopTypeInv, CountsOK, AtMostOneMoreStep
<1> QED BY <1>1, LoopTypeCorrect, PTL
-----------------------------------------------------------------------------
(* Outputs: taken in, then logged.                                         *)

InLog(id) == \E i \in DOMAIN log : log[i].answers = id /\ log[i].result = "output"

OutputsOK ==
  \A id \in collected :
    \/ InLog(id)
    \/ /\ pc \in {"inflight", "drain"}
       /\ \E n \in slots : n >= next /\ id = batch[n].id

LEMMA LogGrows ==
  ASSUME LoopTypeInv, [LoopNext]_loopVars
  PROVE  /\ Len(log) <= Len(log')
         /\ \A i \in DOMAIN log : i \in DOMAIN log' /\ log'[i] = log[i]
<1>1. log \in Seq(Message)
  BY DEF LoopTypeInv, LoopTypeOK
<1>2. log' = log \/ \E m : log' = Append(log, m)
  <2>1. CASE LoopStep
    BY <2>1 DEF LoopStep, StopAtTop, Request, StreamCancelled, SerialCancelled, SerialMalformed,
                CancelRest, BatchStart, BatchJoined, Drain, Append1
  <2>2. CASE LoopInput
    BY <2>2 DEF LoopInput, CancelToken, StreamDone, StreamEnd, StreamFails, SerialOutput, ToolDone, Append1
  <2>3. CASE UNCHANGED loopVars
    BY <2>3 DEF loopVars
  <2> QED BY <2>1, <2>2, <2>3 DEF LoopNext
<1> QED BY <1>1, <1>2

LEMMA InLogStays ==
  ASSUME LoopTypeInv, [LoopNext]_loopVars, NEW id, InLog(id)
  PROVE  InLog(id)'
BY LogGrows, Zenon DEF InLog

LEMMA OutputsStay == LoopTypeInv /\ OutputsOK /\ [LoopNext]_loopVars => OutputsOK'
<1> SUFFICES ASSUME LoopTypeInv, OutputsOK, [LoopNext]_loopVars, NEW id \in collected',
                    ~InLog(id)'
             PROVE  /\ pc' \in {"inflight", "drain"}
                    /\ \E n \in slots' : n >= next' /\ id = batch'[n].id
  BY DEF OutputsOK, InLog
<1>0. LoopTypeOK /\ BatchOK
  BY DEF LoopTypeInv
<1>1. ~InLog(id)
  BY InLogStays
<1>2. CASE id \notin collected
  <2>1. CASE SerialOutput
    <3>1. id = batch[next].id
      BY <2>1, <1>2 DEF SerialOutput
    <3>2. next \in DOMAIN batch /\ batch[next] \in Call /\ log \in Seq(Message)
      BY <2>1, <1>0 DEF SerialOutput, BatchOK, LoopTypeOK
    <3>3. log' = Append(log, ToolMessage(batch[next], "output"))
      BY <2>1 DEF SerialOutput, Append1
    <3>4. /\ log'[Len(log) + 1] = ToolMessage(batch[next], "output")
          /\ Len(log) + 1 \in DOMAIN log'
      BY <3>2, <3>3
    <3>5. InLog(id)'
      BY <3>1, <3>2, <3>4, ToolMessageType DEF InLog, Results
    <3> QED BY <3>5
  <2>2. ASSUME NEW n \in DOMAIN batch, ToolDone(n)
        PROVE  /\ pc' \in {"inflight", "drain"}
               /\ \E k \in slots' : k >= next' /\ id = batch'[k].id
    <3>1. id = batch[n].id /\ n \in slots' /\ batch' = batch /\ next' = next /\ pc' = "inflight"
      BY <2>2, <1>2 DEF ToolDone
    <3>2. n >= next
      BY <2>2, <1>0 DEF ToolDone, BatchOK, LoopTypeOK
    <3> QED BY <3>1, <3>2
  <2>3. CASE \/ LoopStep \/ CancelToken \/ StreamDone \/ StreamEnd \/ StreamFails
             \/ UNCHANGED loopVars
    <3>1. collected' = collected
      BY <2>3 DEF LoopStep, StopAtTop, Request, StreamCancelled, SerialCancelled, SerialMalformed,
                  CancelRest, BatchStart, BatchJoined, Drain, CancelToken, StreamDone, StreamEnd,
                  StreamFails, unchangedHistory, loopVars
    <3> QED BY <3>1, <1>2
  <2> QED BY <2>1, <2>2, <2>3 DEF LoopNext, LoopInput
<1>3. CASE id \in collected
  <2>1. PICK n \in slots : n >= next /\ id = batch[n].id
    BY <1>3, <1>1 DEF OutputsOK
  <2>2. pc \in {"inflight", "drain"}
    BY <1>3, <1>1 DEF OutputsOK
  <2>3. CASE Drain
    <3>1. n \in 1 .. Len(batch) /\ next \in Nat /\ n \in Nat /\ Len(batch) \in Nat
      BY <1>0 DEF LoopTypeOK
    <3>2. next <= Len(batch)
      BY <3>1, <2>1
    <3>3. /\ next' = next + 1 /\ pc' = pc /\ slots' = slots /\ batch' = batch
          /\ next \in slots => log' = Append(log, ToolMessage(batch[next], "output"))
      BY <2>3, <3>1, <3>2 DEF Drain, Append1
    <3>4. CASE n = next
      <4>1. next \in DOMAIN batch /\ batch[next] \in Call /\ log \in Seq(Message)
        BY <3>1, <3>2, <1>0 DEF LoopTypeOK
      <4>2. log' = Append(log, ToolMessage(batch[next], "output"))
        BY <3>3, <3>4
      <4>3. /\ log'[Len(log) + 1] = ToolMessage(batch[next], "output")
            /\ Len(log) + 1 \in DOMAIN log'
        BY <4>1, <4>2
      <4>4. InLog(id)'
        BY <2>1, <3>4, <4>1, <4>3, ToolMessageType DEF InLog, Results
      <4> QED BY <4>4
    <3>5. CASE n # next
      <4>1. n >= next' /\ n \in slots' /\ id = batch'[n].id
        BY <3>1, <3>3, <3>5, <2>1
      <4> QED BY <4>1, <3>3, <2>3, <2>2
    <3> QED BY <3>4, <3>5
  <2>4. CASE BatchJoined
    BY <2>1, <2>4 DEF BatchJoined
  <2>5. ASSUME NEW k \in DOMAIN batch, ToolDone(k)
        PROVE  /\ pc' \in {"inflight", "drain"}
               /\ \E j \in slots' : j >= next' /\ id = batch'[j].id
    BY <2>1, <2>5 DEF ToolDone
  <2>6. CASE CancelToken \/ UNCHANGED loopVars
    BY <2>1, <2>2, <2>6 DEF CancelToken, batchVars, loopVars
  <2>7. ~(\/ StopAtTop \/ Request \/ StreamCancelled \/ SerialCancelled \/ SerialMalformed
          \/ CancelRest \/ BatchStart \/ StreamDone \/ StreamEnd \/ StreamFails \/ SerialOutput)
    BY <2>2 DEF StopAtTop, Request, StreamCancelled, SerialCancelled, SerialMalformed, CancelRest,
                BatchStart, StreamDone, StreamEnd, StreamFails, SerialOutput
  <2> QED BY <2>3, <2>4, <2>5, <2>6, <2>7 DEF LoopNext, LoopStep, LoopInput
<1> QED BY <1>2, <1>3

(* An output the loop took in is in the log when the run returns, however  *)
(* the batch was joined and whoever cancelled it meanwhile.                *)
THEOREM OutputsAreKept == LoopSpec => []OutputsKept
<1>1. LoopInit => OutputsOK
  BY DEF LoopInit, OutputsOK
<1>2. OutputsOK => OutputsKept
  BY DEF OutputsOK, OutputsKept, InLog
<1>3. LoopTypeInv /\ OutputsOK /\ [LoopNext]_loopVars => OutputsOK'
  BY OutputsStay
<1> QED BY <1>1, <1>2, <1>3, LoopTypeCorrect, PTL DEF LoopSpec
-----------------------------------------------------------------------------
(* Pairing.  While the calls cs of message b are worked off, those before  *)
(* nx are answered behind b or stay open; everything else is answered.     *)

RunUpto(ms, cs, b, nx) ==
  /\ b \in DOMAIN ms /\ ms[b].calls = cs
  /\ \A k \in b + 1 .. Len(ms) :
       /\ ms[k].role = "tool"
       /\ \E m \in 1 .. nx - 1 : ms[k].answers = cs[m].id

PairedUpto(ms, cs, b, nx, stay) ==
  /\ RunUpto(ms, cs, b, nx)
  /\ \A m \in 1 .. nx - 1 : m \in stay \/ \E k \in b + 1 .. Len(ms) : ms[k].answers = cs[m].id
  /\ \A i \in DOMAIN ms \ {b} : Answered(ms, i)

AllAnswered(ms) == \A i \in DOMAIN ms : Answered(ms, i)
AllGrounded(ms) == \A k \in DOMAIN ms : ms[k].role = "tool" => Grounded(ms, k)

OnlyAsksOpen(ms, cs) ==
  \A i \in DOMAIN ms : \A n \in DOMAIN ms[i].calls :
    \/ ms[i].calls[n].id \in ResolvedIds(ms, i)
    \/ /\ ms[i].calls[n].kind = "ask"
       /\ ms[i].calls[n] \in ToSet(cs)

LEMMA AppendFacts ==
  ASSUME NEW ms \in Seq(Message), NEW m \in Message
  PROVE  /\ Append(ms, m) \in Seq(Message)
         /\ Len(Append(ms, m)) = Len(ms) + 1 /\ Len(ms) \in Nat
         /\ DOMAIN ms = 1 .. Len(ms) /\ DOMAIN Append(ms, m) = 1 .. Len(ms) + 1
         /\ \A k \in 1 .. Len(ms) : Append(ms, m)[k] = ms[k]
         /\ Append(ms, m)[Len(ms) + 1] = m
OBVIOUS

(* A message without calls, and not a result, leaves nothing open.         *)
LEMMA SayingKeeps ==
  ASSUME NEW ms \in Seq(Message), NEW m \in Message, m.role # "tool"
  PROVE  /\ AllAnswered(ms) /\ m.calls = <<>> => AllAnswered(Append(ms, m))
         /\ AllGrounded(ms) => AllGrounded(Append(ms, m))
<1> DEFINE app == Append(ms, m)
<1>1. /\ DOMAIN ms = 1 .. Len(ms) /\ DOMAIN app = 1 .. Len(ms) + 1 /\ Len(ms) \in Nat
      /\ \A k \in 1 .. Len(ms) : app[k] = ms[k]
      /\ app[Len(ms) + 1] = m
  BY AppendFacts
<1>2. \A i \in 1 .. Len(ms) : /\ Answered(ms, i) => Answered(app, i)
                              /\ Grounded(ms, i) => Grounded(app, i)
  BY AppendKeeps
<1>3. m.calls = <<>> => Answered(app, Len(ms) + 1)
  BY <1>1 DEF Answered
<1>4. \A i \in 1 .. Len(ms) + 1 : i \in 1 .. Len(ms) \/ i = Len(ms) + 1
  BY <1>1
<1> HIDE DEF app
<1>5. AllAnswered(ms) /\ m.calls = <<>> => AllAnswered(app)
  BY <1>1, <1>2, <1>3, <1>4 DEF AllAnswered
<1>6. AllGrounded(ms) => AllGrounded(app)
  BY <1>1, <1>2, <1>4 DEF AllGrounded
<1> QED BY <1>5, <1>6 DEF app

LEMMA PairOpens ==
  ASSUME NEW ms \in Seq(Message), NEW cs \in Seq(Call), AllAnswered(ms)
  PROVE  PairedUpto(Append(ms, AssistantCalls(cs)), cs, Len(ms) + 1, 1, {})
<1> DEFINE m == AssistantCalls(cs)
           app == Append(ms, m)
<1>0. m \in Message /\ m.calls = cs
  BY CallsMessage
<1>1. /\ DOMAIN ms = 1 .. Len(ms) /\ DOMAIN app = 1 .. Len(ms) + 1 /\ Len(ms) \in Nat
      /\ Len(app) = Len(ms) + 1
      /\ \A k \in 1 .. Len(ms) : app[k] = ms[k]
      /\ app[Len(ms) + 1] = m
  BY <1>0, AppendFacts
<1>2. \A i \in 1 .. Len(ms) : Answered(app, i)
  BY <1>0, <1>1, AppendKeeps DEF AllAnswered
<1> HIDE DEF app, m
<1>3. PairedUpto(app, cs, Len(ms) + 1, 1, {})
  BY <1>0, <1>1, <1>2 DEF PairedUpto, RunUpto
<1> QED BY <1>3 DEF app, m

(* The results of a step: the call at nx is answered at the end, once.     *)
LEMMA RunAnswers ==
  ASSUME NEW ms \in Seq(Message), NEW cs \in Seq(Call), NEW b, NEW nx \in 1 .. Len(cs),
         RunUpto(ms, cs, b, nx), NEW r \in Results,
         \A n, m \in 1 .. Len(cs) : cs[n].id = cs[m].id => n = m
  PROVE  /\ RunUpto(Append(ms, ToolMessage(cs[nx], r)), cs, b, nx + 1)
         /\ AllGrounded(ms) => AllGrounded(Append(ms, ToolMessage(cs[nx], r)))
<1> DEFINE t == ToolMessage(cs[nx], r)
           app == Append(ms, t)
           L == Len(ms) + 1
<1>0. cs[nx] \in Call
  OBVIOUS
<1>1. t \in Message /\ t.calls = <<>> /\ t.role = "tool" /\ t.answers = cs[nx].id
  BY <1>0, ToolMessageType
<1>2. /\ DOMAIN ms = 1 .. Len(ms) /\ DOMAIN app = 1 .. L /\ Len(ms) \in Nat
      /\ Len(app) = L
      /\ \A k \in 1 .. Len(ms) : app[k] = ms[k]
      /\ app[L] = t
      /\ app \in Seq(Message)
  BY <1>1, AppendFacts
<1>3. \A i \in 1 .. Len(ms) : Grounded(ms, i) => Grounded(app, i)
  BY <1>1, AppendKeeps
<1> HIDE DEF app, t
<1>4. b \in 1 .. Len(ms) /\ ms[b].calls = cs
  BY <1>2 DEF RunUpto
<1>5. \A i \in 1 .. L : i \in 1 .. Len(ms) \/ i = L
  BY <1>2
<1>6. \A k \in b + 1 .. Len(ms) : /\ k \in b + 1 .. L
                                  /\ app[k] = ms[k] /\ ms[k].role = "tool"
                                  /\ \E m \in 1 .. nx - 1 : ms[k].answers = cs[m].id
  BY <1>2, <1>4 DEF RunUpto
<1>7. \A k \in b + 1 .. L : k \in b + 1 .. Len(ms) \/ k = L
  BY <1>2, <1>4
<1>9. \A m \in 1 .. nx - 1 : m \in 1 .. nx + 1 - 1
  OBVIOUS
<1>10. RunUpto(app, cs, b, nx + 1)
  <2>1. b \in DOMAIN app /\ app[b].calls = cs
    BY <1>2, <1>4
  <2>2. ASSUME NEW k \in b + 1 .. L
        PROVE  app[k].role = "tool" /\ \E m \in 1 .. nx + 1 - 1 : app[k].answers = cs[m].id
    <3>1. CASE k = L
      BY <3>1, <1>1, <1>2
    <3>2. CASE k \in b + 1 .. Len(ms)
      BY <3>2, <1>6, <1>9
    <3> QED BY <3>1, <3>2, <1>7
  <2> QED BY <2>1, <2>2, <1>2 DEF RunUpto
<1>11. ASSUME AllGrounded(ms) PROVE AllGrounded(app)
  <2>1. Grounded(app, L)
    <3>1. RunEndsAt(app, b, L)
      BY <1>1, <1>2, <1>4, <1>6, <1>7 DEF RunEndsAt
    <3>2. ResultRunEnd(app, b) = L
      BY <3>1, <1>2, <1>4, RunEndIs
    <3>3. \E n \in DOMAIN app[b].calls : app[b].calls[n].id = app[L].answers
      BY <1>1, <1>2, <1>4
    <3>4. ASSUME NEW l \in b + 1 .. L - 1 PROVE app[l].answers # app[L].answers
      <4>1. l \in b + 1 .. Len(ms)
        BY <1>2
      <4>2. PICK m \in 1 .. nx - 1 : ms[l].answers = cs[m].id
        BY <4>1, <1>6
      <4>3. m \in 1 .. Len(cs) /\ nx \in 1 .. Len(cs) /\ m # nx
        OBVIOUS
      <4> QED BY <4>1, <4>2, <4>3, <1>1, <1>2, <1>6
    <3>5. b \in 1 .. L - 1 /\ L <= L
      BY <1>2, <1>4
    <3> QED BY <3>2, <3>3, <3>4, <3>5 DEF Grounded
  <2> QED BY <2>1, <1>11, <1>2, <1>3, <1>5 DEF AllGrounded
<1> QED BY <1>10, <1>11 DEF app, t

LEMMA PairAnswers ==
  ASSUME NEW ms \in Seq(Message), NEW cs \in Seq(Call), NEW b, NEW nx \in 1 .. Len(cs), NEW stay,
         PairedUpto(ms, cs, b, nx, stay), NEW r \in Results,
         \A n, m \in 1 .. Len(cs) : cs[n].id = cs[m].id => n = m
  PROVE  /\ PairedUpto(Append(ms, ToolMessage(cs[nx], r)), cs, b, nx + 1, stay)
         /\ AllGrounded(ms) => AllGrounded(Append(ms, ToolMessage(cs[nx], r)))
<1> DEFINE t == ToolMessage(cs[nx], r)
           app == Append(ms, t)
           L == Len(ms) + 1
<1>0. cs[nx] \in Call
  OBVIOUS
<1>1. t \in Message /\ t.calls = <<>> /\ t.answers = cs[nx].id
  BY <1>0, ToolMessageType
<1>2. /\ DOMAIN ms = 1 .. Len(ms) /\ DOMAIN app = 1 .. L /\ Len(ms) \in Nat
      /\ Len(app) = L
      /\ \A k \in 1 .. Len(ms) : app[k] = ms[k]
      /\ app[L] = t
  BY <1>1, AppendFacts
<1>3. \A i \in 1 .. Len(ms) : Answered(ms, i) => Answered(app, i)
  BY <1>1, AppendKeeps
<1>4. RunUpto(ms, cs, b, nx)
  BY DEF PairedUpto
<1>5. RunUpto(app, cs, b, nx + 1) /\ (AllGrounded(ms) => AllGrounded(app))
  BY <1>4, RunAnswers
<1> HIDE DEF app, t
<1>6. b \in 1 .. Len(ms)
  BY <1>2, <1>4 DEF RunUpto
<1>7. \A i \in 1 .. L : i \in 1 .. Len(ms) \/ i = L
  BY <1>2
<1>8. \A m \in 1 .. nx + 1 - 1 : m \in 1 .. nx - 1 \/ m = nx
  OBVIOUS
<1>9. L \in b + 1 .. L /\ \A k \in b + 1 .. Len(ms) : k \in b + 1 .. L /\ k \in 1 .. Len(ms)
  BY <1>2, <1>6
<1>10. ASSUME NEW m \in 1 .. nx + 1 - 1, m \notin stay
       PROVE  \E k \in b + 1 .. L : app[k].answers = cs[m].id
  <2>1. CASE m = nx
    BY <2>1, <1>1, <1>2, <1>9
  <2>2. CASE m \in 1 .. nx - 1
    <3>1. PICK k \in b + 1 .. Len(ms) : ms[k].answers = cs[m].id
      BY <2>2, <1>10 DEF PairedUpto
    <3> QED BY <3>1, <1>2, <1>9
  <2> QED BY <2>1, <2>2, <1>8
<1>11. ASSUME NEW i \in 1 .. L, i # b PROVE Answered(app, i)
  <2>1. CASE i = L
    BY <2>1, <1>1, <1>2 DEF Answered
  <2>2. CASE i \in 1 .. Len(ms)
    BY <2>2, <1>11, <1>2, <1>3 DEF PairedUpto
  <2> QED BY <2>1, <2>2, <1>7
<1>12. PairedUpto(app, cs, b, nx + 1, stay)
  BY <1>2, <1>5, <1>10, <1>11 DEF PairedUpto
<1> QED BY <1>5, <1>12 DEF app, t

(* A question is passed over.                                              *)
LEMMA PairSkips ==
  ASSUME NEW ms \in Seq(Message), NEW cs \in Seq(Call), NEW b, NEW nx \in 1 .. Len(cs), NEW stay,
         PairedUpto(ms, cs, b, nx, stay)
  PROVE  PairedUpto(ms, cs, b, nx + 1, stay \cup {nx})
<1>1. \A m \in 1 .. nx + 1 - 1 : m \in 1 .. nx - 1 \/ m = nx
  OBVIOUS
<1>2. \A m \in 1 .. nx - 1 : m \in 1 .. nx + 1 - 1
  OBVIOUS
<1> QED BY <1>1, <1>2 DEF PairedUpto, RunUpto

(* At the end of a step, what the calls of b left open is in stay.         *)
LEMMA PairEnds ==
  ASSUME NEW ms \in Seq(Message), NEW cs \in Seq(Call), NEW b, NEW nx \in Nat, nx > Len(cs), NEW stay,
         PairedUpto(ms, cs, b, nx, stay)
  PROVE  /\ \A n \in DOMAIN cs : n \in stay \/ cs[n].id \in ResolvedIds(ms, b)
         /\ stay = {} => AllAnswered(ms)
         /\ (\A n \in DOMAIN cs : n \in stay => cs[n].kind = "ask") => OnlyAsksOpen(ms, cs)
<1>1. b \in 1 .. Len(ms) /\ Len(ms) \in Nat
  BY DEF PairedUpto, RunUpto
<1>2. RunEndsAt(ms, b, Len(ms))
  BY <1>1 DEF PairedUpto, RunUpto, RunEndsAt
<1>3. ResultRunEnd(ms, b) = Len(ms)
  BY <1>1, <1>2, RunEndIs
<1>4. ASSUME NEW n \in DOMAIN cs, n \notin stay PROVE cs[n].id \in ResolvedIds(ms, b)
  <2>1. n \in 1 .. nx - 1
    OBVIOUS
  <2>2. PICK k \in b + 1 .. Len(ms) : ms[k].answers = cs[n].id
    BY <1>4, <2>1 DEF PairedUpto, RunUpto
  <2> QED BY <2>2, <1>3 DEF ResolvedIds
<1>5. ASSUME stay = {} PROVE AllAnswered(ms)
  BY <1>4, <1>5 DEF AllAnswered, Answered, PairedUpto, RunUpto
<1>6. ASSUME \A n \in DOMAIN cs : n \in stay => cs[n].kind = "ask" PROVE OnlyAsksOpen(ms, cs)
  <2>1. ASSUME NEW i \in DOMAIN ms, NEW n \in DOMAIN ms[i].calls,
               ms[i].calls[n].id \notin ResolvedIds(ms, i)
        PROVE  ms[i].calls[n].kind = "ask" /\ ms[i].calls[n] \in ToSet(cs)
    <3>1. i = b
      BY <2>1 DEF PairedUpto, RunUpto, Answered
    <3>2. ms[i].calls = cs
      BY <3>1 DEF PairedUpto, RunUpto
    <3> QED BY <2>1, <3>1, <3>2, <1>4, <1>6 DEF ToSet
  <2> QED BY <2>1 DEF OnlyAsksOpen
<1> QED BY <1>4, <1>5, <1>6

(* Cutting the context leaves nothing open: an answered call needs its     *)
(* result right behind it, and the two last messages stay together.        *)
LEMMA TruncationAnswered ==
  ASSUME NEW ms \in Seq(Message), NEW ts \in Truncations(ms), AllAnswered(ms), ms[1].calls = <<>>
  PROVE  AllAnswered(ts) /\ ts # <<>> /\ ts[1].calls = <<>>
<1> DEFINE L == Len(ms)
           x == ms[L - 1]
           y == ms[L]
<1>1. /\ L \in Nat /\ L > 2 /\ ts \in Seq(Message)
      /\ ts = <<ms[1], Notice, x, y>> \/ ts = <<ms[1], Notice, y>>
  BY TruncationsType
<1>2. x \in Message /\ y \in Message /\ Notice.calls = <<>> /\ Notice.role = "system"
  BY <1>1, MessageTypes
<1>3. y.calls = <<>>
  <2>1. ResultRunEnd(ms, L) = L
    BY <1>1, RunEndLast
  <2>2. ResolvedIds(ms, L) = {}
    BY <2>1, <1>1 DEF ResolvedIds
  <2>3. DOMAIN y.calls = {}
    BY <2>2, <1>1 DEF AllAnswered, Answered
  <2>4. y.calls \in Seq(Call)
    BY <1>2 DEF Message
  <2> HIDE DEF y
  <2>5. ASSUME NEW s \in Seq(Call), DOMAIN s = {} PROVE s = <<>>
    <3>1. Len(s) \in Nat /\ (Len(s) # 0 => 1 \in DOMAIN s)
      OBVIOUS
    <3>2. Len(s) = 0
      BY <3>1, <2>5
    <3> QED BY <3>2
  <2> QED BY <2>3, <2>4, <2>5
<1>4. \A n \in DOMAIN x.calls : y.role = "tool" /\ x.calls[n].id = y.answers
  <2>1. RunEndsAt(ms, L - 1, ResultRunEnd(ms, L - 1))
    BY <1>1, RunEnd
  <2>2. ASSUME NEW n \in DOMAIN x.calls PROVE y.role = "tool" /\ x.calls[n].id = y.answers
    <3>1. x.calls[n].id \in ResolvedIds(ms, L - 1)
      BY <1>1 DEF AllAnswered, Answered
    <3>2. PICK k \in L - 1 + 1 .. ResultRunEnd(ms, L - 1) : x.calls[n].id = ms[k].answers
      BY <3>1 DEF ResolvedIds
    <3>3. k = L /\ ms[k].role = "tool"
      BY <2>1, <3>2, <1>1 DEF RunEndsAt
    <3> QED BY <3>2, <3>3
  <2> QED BY <2>2
<1> HIDE DEF x, y, L
<1>5. CASE ts = <<ms[1], Notice, y>>
  <2>1. Len(ts) = 3 /\ ts[1].calls = <<>> /\ ts[2].calls = <<>> /\ ts[3].calls = <<>>
    BY <1>5, <1>2, <1>3
  <2>2. \A i \in DOMAIN ts : ts[i].calls = <<>>
    BY <2>1, <1>1
  <2> QED BY <2>1, <2>2 DEF AllAnswered, Answered
<1>6. CASE ts = <<ms[1], Notice, x, y>>
  <2>1. /\ Len(ts) = 4 /\ ts[1].calls = <<>> /\ ts[2].calls = <<>> /\ ts[4].calls = <<>>
        /\ ts[3] = x /\ ts[4] = y
    BY <1>6, <1>2, <1>3
  <2>2. Answered(ts, 3)
    <3>1. SUFFICES ASSUME NEW n \in DOMAIN x.calls PROVE x.calls[n].id \in ResolvedIds(ts, 3)
      BY <2>1 DEF Answered
    <3>2. RunEndsAt(ts, 3, 4)
      BY <2>1, <1>4 DEF RunEndsAt
    <3>3. ResultRunEnd(ts, 3) = 4
      <4>1. Len(ts) \in Nat /\ 3 \in 1 .. Len(ts)
        BY <2>1
      <4> QED BY <4>1, <3>2, RunEndIs
    <3> QED BY <3>3, <2>1, <1>4 DEF ResolvedIds
  <2>3. \A i \in DOMAIN ts : i = 3 \/ ts[i].calls = <<>>
    BY <2>1, <1>1
  <2> QED BY <2>1, <2>2, <2>3 DEF AllAnswered, Answered
<1> QED BY <1>1, <1>5, <1>6
-----------------------------------------------------------------------------
(* The pairing of the conversation, as an invariant of the loop.           *)

Asks == {n \in DOMAIN batch : batch[n].kind = "ask"}

StepPaired(b, stay) ==
  /\ PairedUpto(messages, batch, b, next, stay)
  /\ pc \in {"serial", "batch", "inflight"} => stay = {}
  /\ pc = "drain" => stay \cap slots = {}

PairingInv ==
  /\ messages # <<>> /\ messages[1].calls = <<>>
  /\ StepOpen => \E b \in DOMAIN messages : \E stay \in SUBSET Asks : StepPaired(b, stay)
  /\ pc \in {"check", "stream"} => AllAnswered(messages)
  /\ pc = "returned" /\ outcome \in {"completed", "interrupted"} => OnlyAsksOpen(messages, batch)
  /\ ~truncated => AllGrounded(messages)

LEMMA AnsweredOpensNothing ==
  ASSUME NEW ms, NEW cs, AllAnswered(ms)
  PROVE  OnlyAsksOpen(ms, cs)
BY DEF AllAnswered, Answered, OnlyAsksOpen

LEMMA FirstStays ==
  ASSUME NEW ms \in Seq(Message), NEW m \in Message, ms # <<>>
  PROVE  Append(ms, m) # <<>> /\ Append(ms, m)[1] = ms[1]
<1>1. 1 \in 1 .. Len(ms)
  OBVIOUS
<1> QED BY <1>1, AppendFacts

LEMMA PairingInit == LoopInit => PairingInv
<1> SUFFICES ASSUME LoopInit PROVE PairingInv
  OBVIOUS
<1>1. messages = <<UserMessage>> /\ pc = "check" /\ ~truncated
  BY DEF LoopInit, Fresh
<1>2. Len(messages) = 1 /\ DOMAIN messages = {1} /\ messages[1] = UserMessage
  BY <1>1
<1>3. AllAnswered(messages) /\ AllGrounded(messages)
  BY <1>2, MessageTypes DEF AllAnswered, AllGrounded, Answered
<1> QED BY <1>1, <1>2, <1>3, MessageTypes DEF PairingInv, StepOpen

(* The result of the call the loop is at, or a question passed over.       *)
LEMMA StepAnswers ==
  ASSUME LoopTypeInv, PairingInv, StepOpen, next <= Len(batch), NEW r \in Results,
         Append1(ToolMessage(batch[next], r)), UNCHANGED <<batch, truncated>>, next' = next + 1,
         NEW b \in DOMAIN messages, NEW stay, StepPaired(b, stay)
  PROVE  /\ messages' # <<>> /\ messages'[1].calls = <<>>
         /\ b \in DOMAIN messages'
         /\ PairedUpto(messages', batch', b, next', stay)
         /\ ~truncated' => AllGrounded(messages')
<1> DEFINE t == ToolMessage(batch[next], r)
<1>1. /\ messages \in Seq(Message) /\ batch \in Seq(Call) /\ next \in 1 .. Len(batch)
      /\ \A n, m \in 1 .. Len(batch) : batch[n].id = batch[m].id => n = m
  <2>1. messages \in Seq(Message) /\ batch \in Seq(Call) /\ next \in 1 .. Len(batch)
    BY DEF LoopTypeInv, LoopTypeOK
  <2>2. DOMAIN batch = 1 .. Len(batch)
    BY <2>1
  <2>3. \A n, m \in DOMAIN batch : batch[n].id = batch[m].id => n = m
    BY DEF LoopTypeInv, BatchOK
  <2> QED BY <2>1, <2>2, <2>3
<1>2. batch[next] \in Call
  BY <1>1
<1>3. t \in Message
  BY <1>2, ToolMessageType
<1>4. messages' = Append(messages, t)
  BY DEF Append1
<1>5. PairedUpto(messages, batch, b, next, stay)
  BY DEF StepPaired
<1>6. /\ PairedUpto(Append(messages, t), batch, b, next + 1, stay)
      /\ AllGrounded(messages) => AllGrounded(Append(messages, t))
  BY <1>1, <1>5, PairAnswers
<1> HIDE DEF t
<1>7. messages # <<>> /\ messages[1].calls = <<>> /\ (~truncated => AllGrounded(messages))
  BY DEF PairingInv
<1>8. messages' # <<>> /\ messages'[1] = messages[1]
  BY <1>1, <1>3, <1>4, <1>7, FirstStays
<1>9. b \in DOMAIN messages'
  BY <1>1, <1>3, <1>4, AppendFacts
<1> QED BY <1>4, <1>6, <1>7, <1>8, <1>9

LEMMA PairingStays == LoopTypeInv /\ PairingInv /\ [LoopNext]_loopVars => PairingInv'
<1> SUFFICES ASSUME LoopTypeInv, PairingInv, [LoopNext]_loopVars PROVE PairingInv'
  OBVIOUS
<1>0. /\ messages \in Seq(Message) /\ batch \in Seq(Call)
      /\ next \in 1 .. Len(batch) + 1 /\ slots \subseteq DOMAIN batch
      /\ Len(batch) \in Nat
  BY DEF LoopTypeInv, LoopTypeOK
<1>first. messages # <<>> /\ messages[1].calls = <<>> /\ (~truncated => AllGrounded(messages))
  BY DEF PairingInv
<1>rest. pc \in {"check", "stream"} => AllAnswered(messages)
  BY DEF PairingInv
<1>step. StepOpen => \E b \in DOMAIN messages : \E stay \in SUBSET Asks : StepPaired(b, stay)
  BY DEF PairingInv
<1>1. CASE CancelToken \/ StreamDone \/ UNCHANGED loopVars
  <2>1. UNCHANGED <<messages, pc, batch, next, slots, outcome, truncated>>
    BY <1>1 DEF CancelToken, StreamDone, batchVars, unchangedHistory, loopVars
  <2> QED BY <2>1 DEF PairingInv, StepOpen, Asks, StepPaired
<1>2. CASE StopAtTop \/ StreamCancelled
  <2>1. /\ UNCHANGED <<messages, batch, truncated>> /\ pc' = "returned"
        /\ pc \in {"check", "stream"}
    BY <1>2 DEF StopAtTop, StreamCancelled, Return, batchVars, unchangedHistory
  <2>2. OnlyAsksOpen(messages, batch)
    BY <2>1, <1>rest, AnsweredOpensNothing
  <2> QED BY <2>1, <2>2, <1>first DEF PairingInv, StepOpen
<1>3. CASE StreamFails \/ SerialMalformed
  <2>1. /\ UNCHANGED <<messages, truncated>> /\ pc' = "returned" /\ outcome' \in {"network", "error"}
    BY <1>3 DEF StreamFails, SerialMalformed, Return, batchVars, unchangedHistory
  <2> QED BY <2>1, <1>first DEF PairingInv, StepOpen
<1>4. CASE Request
  <2>1. pc' = "stream" /\ AllAnswered(messages)
    BY <1>4, <1>rest DEF Request
  <2>2. CASE UNCHANGED <<messages, truncated>>
    BY <2>1, <2>2, <1>first DEF PairingInv, StepOpen
  <2>3. CASE messages' \in Truncations(messages) /\ truncated' = TRUE
    <3>1. AllAnswered(messages') /\ messages' # <<>> /\ messages'[1].calls = <<>>
      BY <2>1, <2>3, <1>0, <1>first, TruncationAnswered
    <3> QED BY <2>1, <2>3, <3>1 DEF PairingInv, StepOpen
  <2> QED BY <2>2, <2>3, <1>4 DEF Request
<1>5. CASE StreamEnd
  <2>0. AllAnswered(messages) /\ truncated' = truncated
    BY <1>5, <1>rest DEF StreamEnd
  <2>1. CASE response.kinds # <<>>
    <3> DEFINE calls == Calls(response.kinds)
               m == AssistantCalls(calls)
    <3>1. response.kinds \in Batches
      BY <2>1 DEF LoopTypeInv, LoopTypeOK, Responses, NoResponse
    <3>2. calls \in Seq(Call)
      BY <3>1, CallsType DEF LoopTypeInv
    <3>3. m \in Message /\ m.role # "tool"
      BY <3>2, CallsMessage
    <3>4. /\ messages' = Append(messages, m) /\ batch' = calls /\ next' = 1
          /\ pc' \in {"serial", "batch"}
      BY <1>5, <2>1 DEF StreamEnd, Append1
    <3>5. PairedUpto(messages', batch', Len(messages) + 1, next', {})
      BY <1>0, <2>0, <3>2, <3>4, PairOpens
    <3> HIDE DEF m, calls
    <3>6. messages' # <<>> /\ messages'[1].calls = <<>> /\ Len(messages) + 1 \in DOMAIN messages'
      BY <1>0, <1>first, <3>3, <3>4, FirstStays, AppendFacts
    <3>7. ~truncated' => AllGrounded(messages')
      BY <1>0, <1>first, <2>0, <3>3, <3>4, SayingKeeps
    <3>8. PICK b : b = Len(messages) + 1
      OBVIOUS
    <3>9. \E d \in DOMAIN messages' : \E s \in SUBSET Asks' : StepPaired(d, s)'
      <4>1. StepPaired(b, {})'
        BY <3>4, <3>5, <3>8 DEF StepPaired
      <4>2. b \in DOMAIN messages'
        BY <3>6, <3>8
      <4> QED BY <4>1, <4>2
    <3> QED BY <3>4, <3>6, <3>7, <3>9 DEF PairingInv
  <2>2. CASE response.kinds = <<>>
    <3>1. messages' = Append(messages, AssistantSays) /\ pc' \in {"check", "returned"}
      BY <1>5, <2>2 DEF StreamEnd, Append1, Return
    <3>2. AssistantSays \in Message /\ AssistantSays.role # "tool" /\ AssistantSays.calls = <<>>
      BY MessageTypes
    <3>3. AllAnswered(messages') /\ (~truncated' => AllGrounded(messages'))
      BY <1>0, <1>first, <2>0, <3>1, <3>2, SayingKeeps
    <3>4. messages' # <<>> /\ messages'[1].calls = <<>>
      BY <1>0, <1>first, <3>1, <3>2, FirstStays
    <3>5. OnlyAsksOpen(messages', batch')
      BY <3>3, AnsweredOpensNothing
    <3> QED BY <3>1, <3>3, <3>4, <3>5 DEF PairingInv, StepOpen
  <2> QED BY <2>1, <2>2
<1>6. CASE SerialCancelled \/ BatchStart \/ BatchJoined
  <2>1. UNCHANGED <<messages, batch, next, slots, truncated>> /\ StepOpen
    BY <1>6 DEF SerialCancelled, BatchStart, BatchJoined, batchVars, unchangedHistory, StepOpen
  <2>2. pc \in {"serial", "batch", "inflight"}
    BY <1>6 DEF SerialCancelled, BatchStart, BatchJoined
  <2>3. \/ pc' \in {"cancelling", "inflight", "drain"}
        \/ pc' = "returned" /\ outcome' = "error"
    BY <1>6 DEF SerialCancelled, BatchStart, BatchJoined, Return
  <2>4. PICK b \in DOMAIN messages, stay \in SUBSET Asks : StepPaired(b, stay)
    BY <2>1, <1>step
  <2>5. stay = {} /\ PairedUpto(messages, batch, b, next, stay)
    BY <2>2, <2>4 DEF StepPaired
  <2>6. StepPaired(b, stay)' /\ b \in DOMAIN messages' /\ stay \in SUBSET Asks'
    BY <2>1, <2>5 DEF StepPaired, Asks
  <2>7. \E d \in DOMAIN messages' : \E s \in SUBSET Asks' : StepPaired(d, s)'
    BY <2>6
  <2> QED BY <2>1, <2>3, <2>7, <1>first DEF PairingInv
<1>7. CASE SerialOutput
  <2>1. /\ pc = "serial" /\ StepOpen /\ Append1(ToolMessage(batch[next], "output"))
        /\ next' = next + 1 /\ UNCHANGED <<batch, slots, truncated>>
        /\ pc' = IF next = Len(batch) THEN "check" ELSE "serial"
    BY <1>7 DEF SerialOutput, StepOpen
  <2>2. next <= Len(batch)
    BY <2>1 DEF LoopTypeInv, BatchOK
  <2>3. PICK b \in DOMAIN messages, stay \in SUBSET Asks : StepPaired(b, stay)
    BY <2>1, <1>step
  <2>4. stay = {}
    BY <2>1, <2>3 DEF StepPaired
  <2>5. /\ messages' # <<>> /\ messages'[1].calls = <<>>
        /\ b \in DOMAIN messages'
        /\ PairedUpto(messages', batch', b, next', {})
        /\ ~truncated' => AllGrounded(messages')
    BY <2>1, <2>2, <2>3, <2>4, StepAnswers DEF Results
  <2>6. CASE next = Len(batch)
    <3>1. messages' \in Seq(Message) /\ batch' \in Seq(Call) /\ next' \in Nat /\ next' > Len(batch')
      BY <2>1, <2>6, <1>0, LoopTyped DEF LoopTypeInv, LoopTypeOK
    <3>2. AllAnswered(messages')
      BY <3>1, <2>5, PairEnds
    <3> QED BY <2>1, <2>5, <2>6, <3>2 DEF PairingInv, StepOpen
  <2>7. CASE next # Len(batch)
    <3>1. pc' = "serial" /\ StepPaired(b, {})'
      BY <2>1, <2>5, <2>7 DEF StepPaired
    <3>2. \E d \in DOMAIN messages' : \E s \in SUBSET Asks' : StepPaired(d, s)'
      BY <3>1, <2>5
    <3> QED BY <3>1, <3>2, <2>5 DEF PairingInv
  <2> QED BY <2>6, <2>7
<1>8. CASE CancelRest \/ Drain
  <2>1. /\ pc \in {"cancelling", "drain"} /\ StepOpen
        /\ UNCHANGED <<batch, slots, batchCancelled, truncated>>
    BY <1>8 DEF CancelRest, Drain, StepOpen, unchangedHistory
  <2>2. PICK b \in DOMAIN messages, stay \in SUBSET Asks : StepPaired(b, stay)
    BY <2>1, <1>step
  <2>3. CASE next > Len(batch)
    <3>1. /\ UNCHANGED messages
          /\ \/ pc' = "returned"
             \/ pc' = "check" /\ pc = "drain" /\ ~batchCancelled
      BY <2>3, <1>0, <1>8 DEF CancelRest, Drain, Return
    <3>2. PairedUpto(messages, batch, b, next, stay) /\ next \in Nat
      BY <2>2, <1>0 DEF StepPaired
    <3>3. CASE pc' = "returned"
      <4>1. OnlyAsksOpen(messages, batch)
        BY <3>2, <2>3, <1>0, PairEnds DEF Asks
      <4> QED BY <4>1, <3>1, <3>3, <2>1, <1>first DEF PairingInv, StepOpen
    <3>4. CASE pc' = "check" /\ pc = "drain" /\ ~batchCancelled
      <4>1. stay = {}
        BY <3>4, <2>2 DEF LoopTypeInv, BatchOK, StepPaired, Asks
      <4>2. AllAnswered(messages)
        BY <3>2, <2>3, <1>0, <4>1, PairEnds
      <4> QED BY <4>2, <3>1, <3>4, <2>1, <1>first DEF PairingInv, StepOpen
    <3> QED BY <3>1, <3>3, <3>4
  <2>4. CASE next <= Len(batch)
    <3>1. /\ next' = next + 1 /\ pc' = pc
          /\ \/ UNCHANGED messages /\ batch[next].kind = "ask" /\ (pc = "drain" => next \notin slots)
             \/ Append1(ToolMessage(batch[next], "output"))
             \/ Append1(ToolMessage(batch[next], "cancelled"))
      <4>1. ~(next > Len(batch))
        BY <2>4, <1>0
      <4>2. CASE CancelRest
        BY <4>1, <4>2 DEF CancelRest
      <4>3. CASE Drain
        BY <4>1, <4>3 DEF Drain
      <4> QED BY <4>2, <4>3, <1>8
    <3>2. CASE /\ UNCHANGED messages /\ batch[next].kind = "ask" /\ (pc = "drain" => next \notin slots)
      <4>1. next \in 1 .. Len(batch) /\ next \in Asks
        BY <2>4, <3>2, <1>0 DEF Asks
      <4>2. PairedUpto(messages, batch, b, next + 1, stay \cup {next})
        BY <4>1, <2>2, <1>0, PairSkips DEF StepPaired
      <4> PICK left : left = stay \cup {next}
        OBVIOUS
      <4>3. StepPaired(b, left)'
        BY <4>2, <2>1, <2>2, <3>1, <3>2 DEF StepPaired
      <4>4. b \in DOMAIN messages' /\ left \in SUBSET Asks'
        BY <4>1, <2>1, <3>2 DEF Asks
      <4>5. \E d \in DOMAIN messages' : \E s \in SUBSET Asks' : StepPaired(d, s)'
        BY <4>3, <4>4
      <4> QED BY <4>5, <2>1, <3>1, <3>2, <1>first DEF PairingInv
    <3>3. ASSUME NEW r \in {"output", "cancelled"}, Append1(ToolMessage(batch[next], r))
          PROVE  PairingInv'
      <4>1. /\ messages' # <<>> /\ messages'[1].calls = <<>>
            /\ b \in DOMAIN messages'
            /\ PairedUpto(messages', batch', b, next', stay)
            /\ ~truncated' => AllGrounded(messages')
        BY <2>1, <2>2, <2>4, <3>1, <3>3, StepAnswers DEF Results
      <4>2. StepPaired(b, stay)' /\ stay \in SUBSET Asks'
        BY <4>1, <2>1, <2>2, <3>1 DEF StepPaired, Asks
      <4>3. \E d \in DOMAIN messages' : \E s \in SUBSET Asks' : StepPaired(d, s)'
        BY <4>1, <4>2
      <4> QED BY <4>1, <4>3, <2>1, <3>1 DEF PairingInv
    <3> QED BY <3>1, <3>2, <3>3
  <2> QED BY <2>3, <2>4, <1>0
<1>9. ASSUME NEW n \in DOMAIN batch, ToolDone(n)
      PROVE  PairingInv'
  <2>1. UNCHANGED <<messages, pc, batch, next, truncated>> /\ pc = "inflight" /\ StepOpen
    BY <1>9 DEF ToolDone, StepOpen
  <2>2. PICK b \in DOMAIN messages, stay \in SUBSET Asks : StepPaired(b, stay)
    BY <2>1, <1>step
  <2>3. StepPaired(b, stay)' /\ b \in DOMAIN messages' /\ stay \in SUBSET Asks'
    BY <2>1, <2>2 DEF StepPaired, Asks
  <2>4. \E d \in DOMAIN messages' : \E s \in SUBSET Asks' : StepPaired(d, s)'
    BY <2>3
  <2> QED BY <2>1, <2>4, <1>first DEF PairingInv
<1> QED BY <1>1, <1>2, <1>3, <1>4, <1>5, <1>6, <1>7, <1>8, <1>9 DEF LoopNext, LoopStep, LoopInput

THEOREM Pairing == LoopSpec => []PairingInv
BY PairingInit, PairingStays, LoopTypeCorrect, PTL DEF LoopSpec

(* Every request of a run that has not cut its context is one a provider   *)
(* accepts: each call answered behind its message, each result answering   *)
(* such a call and the only one to do so (execute_run and its cancel       *)
(* paths).                                                                 *)
THEOREM RequestsPaired == LoopSpec => []RequestsValid
<1>1. PairingInv => RequestsValid
  BY DEF PairingInv, RequestsValid, ProviderValid, AllAnswered, AllGrounded
<1> QED BY <1>1, Pairing, PTL

(* A run that ends without an error leaves only questions of its last step *)
(* open, even if its context was cut on the way.                           *)
THEOREM QuestionsDangle == LoopSpec => []OnlyQuestionsDangle
<1>1. LoopTypeInv /\ PairingInv => OnlyQuestionsDangle
  <2> SUFFICES ASSUME LoopTypeInv, PairingInv,
                      pc = "returned", outcome \in {"completed", "interrupted"},
                      NEW call \in ToSet(DanglingCalls(messages))
               PROVE  call.kind = "ask" /\ call \in ToSet(batch)
    BY DEF OnlyQuestionsDangle
  <2>1. messages \in Seq(Message)
    BY DEF LoopTypeInv, LoopTypeOK
  <2>2. PICK i \in DOMAIN messages : \E n \in DOMAIN messages[i].calls :
               /\ call = messages[i].calls[n]
               /\ call.id \notin ResolvedIds(messages, i)
    BY <2>1, DanglingMembers
  <2> QED BY <2>2 DEF PairingInv, OnlyAsksOpen
<1> QED BY <1>1, Pairing, LoopTypeCorrect, PTL
=============================================================================
