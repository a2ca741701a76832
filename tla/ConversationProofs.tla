-------------------------- MODULE ConversationProofs --------------------------
(***************************************************************************)
(* Theorems about Conversation, for every number of turns and restarts and   *)
(* whatever batches the model asks for: no call gets two outputs, what the   *)
(* assistant remembers is in the log, a start-up drops the same from both    *)
(* and keeps open what a pending question can still answer, and submitted    *)
(* turns send only requests a provider accepts.                              *)
(***************************************************************************)
EXTENDS Conversation, AgentLoopProofs

-----------------------------------------------------------------------------
(* What the operations on histories return.                                  *)

LEMMA SyntheticType ==
  ASSUME NEW call \in Call
  PROVE  Synthetic(call) \in Message /\ Synthetic(call).result # "output"
<1>1. \A r \in {"superseded", "interrupted"} : r \in Results /\ r # "output"
  BY DEF Results
<1> QED BY <1>1, ToolMessageType DEF Synthetic

LEMMA RepairMessagesType ==
  ASSUME NEW ms \in Seq(Message)
  PROVE  /\ RepairMessages(ms) \in Seq(Message)
         /\ \A n \in DOMAIN RepairMessages(ms) : RepairMessages(ms)[n].result # "output"
         /\ ToSet(RepairMessages(ms)) = {Synthetic(c) : c \in ToSet(DanglingCalls(ms))}
<1> DEFINE calls == DanglingCalls(ms)
<1>1. calls \in Seq(Call)
  BY DanglingMembers
<1>2. RepairMessages(ms) = [n \in DOMAIN calls |-> Synthetic(calls[n])]
  BY DEF RepairMessages
<1> HIDE DEF calls
<1>3. \A n \in DOMAIN calls : Synthetic(calls[n]) \in Message /\ Synthetic(calls[n]).result # "output"
  BY <1>1, SyntheticType
<1>4. DOMAIN calls = 1 .. Len(calls) /\ Len(calls) \in Nat
  BY <1>1
<1>5. RepairMessages(ms) \in Seq(Message)
  BY <1>2, <1>3, <1>4
<1>6. ToSet(RepairMessages(ms)) = {Synthetic(c) : c \in ToSet(calls)}
  BY <1>2 DEF ToSet
<1> QED BY <1>2, <1>3, <1>5, <1>6 DEF calls

LEMMA RepairedMembers ==
  ASSUME NEW ms \in Seq(Message)
  PROVE  /\ Repaired(ms) \in Seq(Message)
         /\ ToSet(Repaired(ms)) \subseteq ToSet(ms) \cup ToSet(RepairMessages(ms))
<1> DEFINE ClosingAt(j) == {i \in 1 .. j : ms[i].calls # <<>> /\ ResultRunEnd(ms, i) = j}
           closes(j) == CHOOSE i \in ClosingAt(j) : TRUE
           close(i) == [n \in DOMAIN Missing(ms, i) |-> Synthetic(Missing(ms, i)[n])]
           Closed(j) == IF ClosingAt(j) = {} THEN <<>> ELSE close(closes(j))
           part(j) == <<ms[j]>> \o Closed(j)
           parts == [j \in DOMAIN ms |-> part(j)]
           fix == ToSet(RepairMessages(ms))
<1>1. Repaired(ms) = FlattenSeq(parts)
  BY DEF Repaired
<1>2. ASSUME NEW i \in DOMAIN ms
      PROVE  close(i) \in Seq(Message) /\ ToSet(close(i)) \subseteq fix
  <2> DEFINE calls == Missing(ms, i)
  <2>1. calls \in Seq(Call) /\ ToSet(calls) \subseteq ToSet(DanglingCalls(ms))
    BY MissingMembers, DanglingMembers DEF OpenAt
  <2>2. close(i) = [n \in DOMAIN calls |-> Synthetic(calls[n])]
    OBVIOUS
  <2> HIDE DEF calls, close, fix
  <2>3. \A n \in DOMAIN calls : Synthetic(calls[n]) \in Message
    BY <2>1, SyntheticType
  <2>4. close(i) \in Seq(Message)
    BY <2>1, <2>2, <2>3
  <2>5. \A n \in DOMAIN calls : Synthetic(calls[n]) \in fix
    <3>1. fix = {Synthetic(c) : c \in ToSet(DanglingCalls(ms))}
      BY RepairMessagesType DEF fix
    <3>2. \A n \in DOMAIN calls : calls[n] \in ToSet(DanglingCalls(ms))
      BY <2>1 DEF ToSet
    <3> QED BY <3>1, <3>2
  <2> QED BY <2>2, <2>4, <2>5 DEF ToSet
<1>3. ASSUME NEW j \in DOMAIN ms
      PROVE  Closed(j) \in Seq(Message) /\ ToSet(Closed(j)) \subseteq fix
  <2>1. CASE ClosingAt(j) = {}
    <3>1. Closed(j) = <<>>
      BY <2>1
    <3> HIDE DEF Closed, fix
    <3> QED BY <3>1 DEF ToSet
  <2>2. CASE ClosingAt(j) # {}
    <3>1. closes(j) \in ClosingAt(j)
      BY <2>2
    <3>2. closes(j) \in DOMAIN ms
      BY <3>1
    <3>3. Closed(j) = close(closes(j))
      BY <2>2
    <3> HIDE DEF Closed, close, closes, fix
    <3> QED BY <3>2, <3>3, <1>2
  <2> QED BY <2>1, <2>2
<1> HIDE DEF Closed
<1>4. ASSUME NEW j \in DOMAIN ms
      PROVE  part(j) \in Seq(Message) /\ ToSet(part(j)) \subseteq ToSet(ms) \cup fix
  <2> DEFINE c == Closed(j)
  <2>1. c \in Seq(Message) /\ \A n \in DOMAIN c : c[n] \in fix
    BY <1>3 DEF ToSet
  <2>2. ms[j] \in Message /\ ms[j] \in ToSet(ms)
    BY DEF ToSet
  <2> HIDE DEF c, fix
  <2>3. /\ <<ms[j]>> \o c \in Seq(Message)
        /\ \A n \in 1 .. Len(c) + 1 : (<<ms[j]>> \o c)[n] = IF n = 1 THEN ms[j] ELSE c[n - 1]
        /\ DOMAIN (<<ms[j]>> \o c) = 1 .. Len(c) + 1
    BY <2>1, <2>2
  <2>4. \A n \in 1 .. Len(c) + 1 : n # 1 => n - 1 \in DOMAIN c
    BY <2>1
  <2>5. ToSet(<<ms[j]>> \o c) \subseteq ToSet(ms) \cup fix
    BY <2>1, <2>2, <2>3, <2>4 DEF ToSet
  <2> QED BY <2>3, <2>5 DEF c
<1> HIDE DEF part
<1>5. parts \in Seq(Seq(Message)) /\ DOMAIN parts = DOMAIN ms /\ \A j \in DOMAIN ms : parts[j] = part(j)
  BY <1>4
<1> HIDE DEF parts
<1>6. /\ FlattenSeq(parts) \in Seq(Message)
      /\ ToSet(FlattenSeq(parts)) = UNION {ToSet(parts[j]) : j \in DOMAIN parts}
  BY <1>5, FlattenMembers
<1>7. UNION {ToSet(parts[j]) : j \in DOMAIN parts} \subseteq ToSet(ms) \cup fix
  <2> HIDE DEF fix
  <2> QED BY <1>4, <1>5
<1> QED BY <1>1, <1>6, <1>7

LEMMA CompactionMembers ==
  ASSUME NEW ms \in Seq(Message), NEW cs \in Compactions(ms)
  PROVE  /\ cs \in Seq(Message) /\ cs # <<>>
         /\ ToSet(cs) \subseteq ToSet(ms) \cup {Notice}
<1>1. Len(ms) > 2 /\ Len(ms) \in Nat
  BY DEF Compactions
<1>2. PICK k \in Len(ms) - 1 .. Len(ms) + 1 : cs = <<Notice>> \o SubSeq(ms, k, Len(ms))
  BY <1>1 DEF Compactions
<1> DEFINE tail == SubSeq(ms, k, Len(ms))
<1>3. tail \in Seq(Message) /\ \A n \in DOMAIN tail : tail[n] \in ToSet(ms)
  <2>1. k \in 1 .. Len(ms) + 1
    BY <1>1
  <2>2. tail \in Seq(Message) /\ Len(tail) = Len(ms) + 1 - k
    BY <1>1, <2>1
  <2>3. \A n \in 1 .. Len(ms) + 1 - k : tail[n] = ms[k + n - 1] /\ k + n - 1 \in 1 .. Len(ms)
    BY <1>1, <2>1
  <2> QED BY <2>2, <2>3 DEF ToSet
<1> HIDE DEF tail
<1>4. /\ <<Notice>> \o tail \in Seq(Message)
      /\ DOMAIN (<<Notice>> \o tail) = 1 .. Len(tail) + 1
      /\ \A n \in 1 .. Len(tail) + 1 : (<<Notice>> \o tail)[n] = IF n = 1 THEN Notice ELSE tail[n - 1]
  BY <1>3, MessageTypes
<1>5. \A n \in 1 .. Len(tail) + 1 : n # 1 => n - 1 \in DOMAIN tail
  BY <1>3
<1>6. ToSet(<<Notice>> \o tail) \subseteq ToSet(ms) \cup {Notice}
  BY <1>3, <1>4, <1>5 DEF ToSet
<1>7. <<Notice>> \o tail # <<>>
  BY <1>3
<1> QED BY <1>2, <1>4, <1>6, <1>7 DEF tail

(* A late result goes in at the end of a run of results.                     *)
PutBehind(ms, e, t, new) ==
  /\ new \in Seq(Message) /\ Len(new) = Len(ms) + 1
  /\ \A k \in 1 .. e : new[k] = ms[k]
  /\ new[e + 1] = t
  /\ \A k \in e + 1 .. Len(ms) : new[k + 1] = ms[k]

LEMMA LateResultShape ==
  ASSUME NEW ms \in Seq(Message), NEW call \in ToSet(DanglingCalls(ms)), NEW result \in Results
  PROVE  \E e \in 1 .. Len(ms) :
           /\ PutBehind(ms, e, ToolMessage(call, result), WithLateResult(ms, call, result))
           /\ e = Len(ms) \/ ms[e + 1].role # "tool"
           /\ \E i \in DOMAIN ms : call \in ToSet(ms[i].calls) /\ e = ResultRunEnd(ms, i)
<1> DEFINE declares == {i \in DOMAIN ms : call \in ToSet(ms[i].calls)}
           first == CHOOSE i \in declares : \A k \in declares : i <= k
           e == ResultRunEnd(ms, first)
           t == ToolMessage(call, result)
<1>1. first \in DOMAIN ms /\ call \in ToSet(ms[first].calls)
  <2>1. declares # {} /\ declares \subseteq Nat
    <3>1. PICK i \in DOMAIN ms : \E n \in DOMAIN ms[i].calls : call = ms[i].calls[n]
      BY DanglingMembers
    <3>2. call \in ToSet(ms[i].calls)
      BY <3>1 DEF ToSet
    <3> QED BY <3>2
  <2>2. \E i \in declares : \A k \in declares : i <= k
    <3> HIDE DEF declares
    <3> QED BY <2>1, Least
  <2>3. first \in declares
    <3> HIDE DEF declares
    <3> QED BY <2>2
  <2> QED BY <2>3
<1>2. WithLateResult(ms, call, result) = SubSeq(ms, 1, e) \o <<t>> \o SubSeq(ms, e + 1, Len(ms))
  BY DEF WithLateResult
<1>3. RunEndsAt(ms, first, e)
  BY <1>1, RunEnd
<1> HIDE DEF first
<1>4. t \in Message
  <2>1. call \in Call
    BY DanglingMembers DEF ToSet
  <2> QED BY <2>1, ToolMessageType
<1> HIDE DEF e, t
<1>5. e \in 1 .. Len(ms) /\ (e = Len(ms) \/ ms[e + 1].role # "tool")
  BY <1>1, <1>3 DEF RunEndsAt
<1> DEFINE a == SubSeq(ms, 1, e)
           b == SubSeq(ms, e + 1, Len(ms))
<1>6. a \in Seq(Message) /\ Len(a) = e /\ \A k \in 1 .. e : a[k] = ms[k]
  BY <1>5
<1>7. b \in Seq(Message) /\ Len(b) = Len(ms) - e /\ \A k \in 1 .. Len(ms) - e : b[k] = ms[e + k]
  BY <1>5
<1> HIDE DEF a, b
<1>8. PutBehind(ms, e, t, a \o <<t>> \o b)
  <2> DEFINE at == a \o <<t>>
  <2>1. at \in Seq(Message) /\ Len(at) = e + 1 /\ at[e + 1] = t /\ \A k \in 1 .. e : at[k] = a[k]
    BY <1>4, <1>5, <1>6
  <2> HIDE DEF at
  <2>2. at \o b \in Seq(Message) /\ Len(at \o b) = Len(ms) + 1
    <3>1. at \o b \in Seq(Message) /\ Len(at \o b) = Len(at) + Len(b)
      <4>1. ASSUME NEW M, NEW u \in Seq(M), NEW v \in Seq(M)
            PROVE  u \o v \in Seq(M) /\ Len(u \o v) = Len(u) + Len(v)
        OBVIOUS
      <4> QED BY <4>1, <2>1, <1>7, Zenon
    <3>2. Len(at) + Len(b) = Len(ms) + 1
      BY <1>5, <1>7, <2>1
    <3> QED BY <3>1, <3>2
  <2>3. \A k \in 1 .. e + 1 : (at \o b)[k] = at[k]
    BY <2>1, <1>5, <1>7
  <2>4. ASSUME NEW k \in e + 1 .. Len(ms) PROVE (at \o b)[k + 1] = ms[k]
    <3>1. (at \o b)[k + 1] = b[k + 1 - (e + 1)]
      BY <2>1, <1>5, <1>7
    <3>2. k + 1 - (e + 1) = k - e /\ k - e \in 1 .. Len(ms) - e /\ e + (k - e) = k
      BY <1>5
    <3> QED BY <3>1, <3>2, <1>7
  <2>5. PutBehind(ms, e, t, at \o b)
    <3>1. \A k \in 1 .. e : (at \o b)[k] = ms[k]
      <4>1. \A k \in 1 .. e : k \in 1 .. e + 1
        BY <1>5
      <4> QED BY <2>1, <2>3, <1>6, <4>1
    <3>2. (at \o b)[e + 1] = t
      BY <2>1, <2>3, <1>5
    <3> QED BY <2>2, <2>4, <3>1, <3>2 DEF PutBehind
  <2> QED BY <2>5 DEF at
<1> QED BY <1>1, <1>2, <1>5, <1>8 DEF a, b, t, e

LEMMA LateResultMembers ==
  ASSUME NEW ms \in Seq(Message), NEW call \in ToSet(DanglingCalls(ms)), NEW result \in Results
  PROVE  /\ WithLateResult(ms, call, result) \in Seq(Message)
         /\ ToSet(WithLateResult(ms, call, result)) \subseteq ToSet(ms) \cup {ToolMessage(call, result)}
<1> DEFINE new == WithLateResult(ms, call, result)
           t == ToolMessage(call, result)
<1>1. PICK e \in 1 .. Len(ms) : PutBehind(ms, e, t, new)
  BY LateResultShape
<1> HIDE DEF new, t
<1>2. ASSUME NEW k \in 1 .. Len(ms) + 1 PROVE new[k] \in ToSet(ms) \cup {t}
  <2>1. CASE k <= e
    BY <2>1, <1>1 DEF PutBehind, ToSet
  <2>2. CASE k = e + 1
    BY <2>2, <1>1 DEF PutBehind
  <2>3. CASE k > e + 1
    <3>1. k - 1 \in e + 1 .. Len(ms) /\ (k - 1) + 1 = k
      BY <2>3
    <3>2. new[k] = ms[k - 1] /\ k - 1 \in DOMAIN ms
      BY <3>1, <1>1 DEF PutBehind
    <3> QED BY <3>2 DEF ToSet
  <2> QED BY <2>1, <2>2, <2>3
<1>3. ToSet(new) \subseteq ToSet(ms) \cup {t}
  BY <1>1, <1>2 DEF PutBehind, ToSet
<1> QED BY <1>1, <1>3 DEF PutBehind, new, t

(* It opens no call and closes no other.                                     *)
LEMMA LateResultKeepsOpen ==
  ASSUME NEW ms \in Seq(Message), NEW call \in ToSet(DanglingCalls(ms)), NEW result \in Results
  PROVE  DanglingIds(ms) \ {call.id} \subseteq DanglingIds(WithLateResult(ms, call, result))
<1> DEFINE new == WithLateResult(ms, call, result)
           t == ToolMessage(call, result)
<1>1. PICK e \in 1 .. Len(ms) : PutBehind(ms, e, t, new) /\ (e = Len(ms) \/ ms[e + 1].role # "tool")
  BY LateResultShape
<1>2. t.role = "tool" /\ t.answers = call.id /\ new \in Seq(Message)
  <2>1. call \in Call
    BY DanglingMembers DEF ToSet
  <2> QED BY <2>1, <1>1, ToolMessageType DEF PutBehind
<1> HIDE DEF new, t
<1>3. ASSUME NEW i \in 1 .. Len(ms), NEW id \in ResolvedIds(new, IF i <= e THEN i ELSE i + 1)
      PROVE  id \in ResolvedIds(ms, i) \cup {call.id}
  <2> DEFINE r == ResultRunEnd(ms, i)
             s == IF i <= e THEN i ELSE i + 1
             q == ResultRunEnd(new, s)
  <2>1. RunEndsAt(ms, i, r)
    BY RunEnd
  <2>2. s \in 1 .. Len(new) /\ Len(new) = Len(ms) + 1 /\ s \in Nat
    BY <1>1 DEF PutBehind
  <2>3. RunEndsAt(new, s, q)
    BY <1>2, <2>2, RunEnd
  <2>4. PICK k \in s + 1 .. q : id = new[k].answers
    BY DEF ResolvedIds
  <2> HIDE DEF r, q
  <2>5. CASE i <= e
    <3>1. s = i
      BY <2>5
    <3>2. CASE k <= e
      <4>1. \A l \in i + 1 .. k : ms[l].role = "tool" /\ l \in 1 .. Len(ms)
        BY <3>1, <3>2, <2>3, <2>4, <1>1 DEF RunEndsAt, PutBehind
      <4>2. k <= r
        <5>1. SUFFICES ASSUME r < k PROVE FALSE
          BY <2>1, <2>4, <3>1, <2>3 DEF RunEndsAt
        <5>2. r + 1 \in i + 1 .. k /\ r # Len(ms)
          BY <5>1, <2>1, <2>4, <3>1, <2>3, <3>2 DEF RunEndsAt
        <5> QED BY <5>2, <4>1, <2>1 DEF RunEndsAt
      <4>3. k \in i + 1 .. r /\ new[k] = ms[k]
        BY <4>2, <3>1, <3>2, <2>1, <2>3, <2>4, <1>1 DEF RunEndsAt, PutBehind
      <4> QED BY <4>3, <2>4 DEF ResolvedIds, r
    <3>3. CASE k = e + 1
      BY <3>3, <1>1, <1>2, <2>4 DEF PutBehind
    <3>4. CASE k > e + 1
      <4>1. e + 2 \in i + 1 .. q /\ e + 1 \in e + 1 .. Len(ms)
        BY <2>5, <3>1, <3>4, <2>2, <2>3, <2>4 DEF RunEndsAt
      <4>2. new[e + 2].role = "tool"
        BY <4>1, <3>1, <2>3 DEF RunEndsAt
      <4>3. new[(e + 1) + 1] = ms[e + 1] /\ (e + 1) + 1 = e + 2
        BY <4>1, <1>1 DEF PutBehind
      <4> QED BY <4>1, <4>2, <4>3, <1>1
    <3> QED BY <3>2, <3>3, <3>4, <2>3, <2>4 DEF RunEndsAt
  <2>6. CASE i > e
    <3>1. s = i + 1
      BY <2>6
    <3>2. \A l \in i + 2 .. k : l - 1 \in e + 1 .. Len(ms) /\ new[l] = ms[l - 1] /\ new[l].role = "tool"
      <4>1. ASSUME NEW l \in i + 2 .. k
            PROVE  l - 1 \in e + 1 .. Len(ms) /\ (l - 1) + 1 = l /\ l \in s + 1 .. q
        BY <3>1, <2>2, <2>3, <2>4, <2>6 DEF RunEndsAt
      <4> QED BY <4>1, <1>1, <2>3 DEF PutBehind, RunEndsAt
    <3>3. k \in i + 2 .. q /\ k \in Nat /\ q <= Len(ms) + 1
      BY <3>1, <2>2, <2>3, <2>4 DEF RunEndsAt
    <3>4. k - 1 <= r
      <4>1. SUFFICES ASSUME r < k - 1 PROVE FALSE
        BY <2>1, <3>3 DEF RunEndsAt
      <4>2. r + 2 \in i + 2 .. k /\ r # Len(ms) /\ (r + 2) - 1 = r + 1
        <5>1. r \in i .. Len(ms) /\ Len(ms) \in Nat /\ i \in Nat
          BY <2>1 DEF RunEndsAt
        <5>2. k \in i + 2 .. q /\ q \in Nat /\ q <= Len(ms) + 1
          BY <3>3, <2>2, <2>3 DEF RunEndsAt
        <5> QED BY ONLY <4>1, <5>1, <5>2
      <4>3. ms[r + 1].role = "tool"
        BY <4>2, <3>2
      <4> QED BY <4>2, <4>3, <2>1 DEF RunEndsAt
    <3>5. k - 1 \in i + 1 .. r /\ new[k] = ms[k - 1]
      <4>1. k \in i + 2 .. k
        BY <3>3
      <4> QED BY <4>1, <3>2, <3>3, <3>4, <2>1 DEF RunEndsAt
    <3> QED BY <3>5, <2>4 DEF ResolvedIds, r
  <2> QED BY <2>5, <2>6
<1>4. ASSUME NEW id \in DanglingIds(ms), id # call.id PROVE id \in DanglingIds(new)
  <2>1. PICK c \in ToSet(DanglingCalls(ms)) : c.id = id
    BY DEF DanglingIds
  <2>2. PICK i \in DOMAIN ms : \E n \in DOMAIN ms[i].calls :
          c = ms[i].calls[n] /\ c.id \notin ResolvedIds(ms, i)
    BY <2>1, DanglingMembers
  <2> DEFINE s == IF i <= e THEN i ELSE i + 1
  <2>3. s \in DOMAIN new /\ new[s] = ms[i]
    BY <1>1 DEF PutBehind
  <2>4. c.id \notin ResolvedIds(new, s)
    BY <1>3, <2>1, <2>2, <1>4
  <2>5. c \in ToSet(DanglingCalls(new))
    <3> HIDE DEF s
    <3> QED BY <1>2, <2>2, <2>3, <2>4, DanglingMembers
  <2> QED BY <2>1, <2>5 DEF DanglingIds
<1> QED BY <1>4 DEF new, t

(* A result at the end of a conversation opens nothing.                      *)
LEMMA AppendedResultOpensNothing ==
  ASSUME NEW ms \in Seq(Message), NEW m \in Message, m.calls = <<>>
  PROVE  DanglingIds(Append(ms, m)) \subseteq DanglingIds(ms)
<1> DEFINE app == Append(ms, m)
<1>1. app \in Seq(Message) /\ Len(app) = Len(ms) + 1 /\ app[Len(ms) + 1] = m
      /\ \A k \in 1 .. Len(ms) : app[k] = ms[k]
  OBVIOUS
<1>2. ASSUME NEW id \in DanglingIds(app) PROVE id \in DanglingIds(ms)
  <2>1. PICK c \in ToSet(DanglingCalls(app)) : c.id = id
    BY DEF DanglingIds
  <2>2. PICK i \in DOMAIN app : \E n \in DOMAIN app[i].calls :
          c = app[i].calls[n] /\ c.id \notin ResolvedIds(app, i)
    BY <2>1, <1>1, DanglingMembers
  <2>3. i \in 1 .. Len(ms) /\ app[i] = ms[i]
    BY <1>1, <2>2
  <2>4. c.id \notin ResolvedIds(ms, i)
    BY <2>2, <2>3, AppendKeeps
  <2>5. c \in ToSet(DanglingCalls(ms))
    <3> HIDE DEF app
    <3> QED BY <2>2, <2>3, <2>4, DanglingMembers
  <2> QED BY <2>1, <2>5 DEF DanglingIds
<1> QED BY <1>2

LEMMA FrontType ==
  ASSUME NEW S, NEW s \in Seq(S)
  PROVE  /\ Front(s) \in Seq(S)
         /\ s # <<>> => /\ Len(Front(s)) = Len(s) - 1
                        /\ \A i \in 1 .. Len(s) - 1 : Front(s)[i] = s[i]
         /\ ToSet(Front(s)) \subseteq ToSet(s)
<1>1. CASE s = <<>>
  <2>1. Front(s) = <<>>
    BY <1>1 DEF Front
  <2> QED BY <2>1, <1>1
<1>2. CASE s # <<>>
  <2>0. Len(s) \in Nat \ {0} /\ Front(s) = SubSeq(s, 1, Len(s) - 1)
    BY <1>2 DEF Front
  <2>1. /\ Front(s) \in Seq(S) /\ Len(Front(s)) = Len(s) - 1
        /\ \A i \in 1 .. Len(s) - 1 : Front(s)[i] = s[i]
    <3>1. SubSeq(s, 1, Len(s) - 1) \in Seq(S)
      BY <2>0
    <3>2. Len(SubSeq(s, 1, Len(s) - 1)) = Len(s) - 1
      <4>1. ASSUME NEW n \in Nat, n <= Len(s) PROVE Len(SubSeq(s, 1, n)) = n
        BY <4>1
      <4>2. Len(s) - 1 \in Nat /\ Len(s) - 1 <= Len(s)
        BY <2>0
      <4> QED BY <4>1, <4>2, Zenon
    <3>3. \A i \in 1 .. Len(s) - 1 : SubSeq(s, 1, Len(s) - 1)[i] = s[i]
      BY <2>0
    <3> QED BY <2>0, <3>1, <3>2, <3>3
  <2>2. DOMAIN Front(s) = 1 .. Len(s) - 1 /\ 1 .. Len(s) - 1 \subseteq DOMAIN s
    BY <2>1
  <2> QED BY <2>1, <2>2 DEF ToSet
<1> QED BY <1>1, <1>2

-----------------------------------------------------------------------------
(* Types.                                                                    *)

(* A submit has put its message into the history; a late answer under way    *)
(* is one result, of a call that was made; a process that is down comes up   *)
(* again.                                                                    *)
UnderWayOK ==
  /\ mode \in {"writing", "ready"} => history # <<>>
  /\ mode = "resuming" => Len(toWrite) = 1 /\ toWrite[1].answers \in 1 .. nextId - 1
  /\ mode = "down" => restarts < MaxRestarts

ConversationTypeInv == LoopTypeInv /\ TypeOK /\ UnderWayOK

LEMMA EngineKept ==
  ASSUME LoopTypeInv, log' \in Seq(Message), messages' \in Seq(Message),
         UNCHANGED <<pc, steps, empties, response, batchVars, cancelled, outcome, unchangedHistory>>
  PROVE  LoopTypeInv'
<1> USE DEF batchVars, unchangedHistory
<1>1. LoopTypeOK'
  <2>1. LoopTypeOK
    BY DEF LoopTypeInv
  <2> QED BY <2>1, Zenon DEF LoopTypeOK
<1>2. BatchOK'
  BY DEF LoopTypeInv, BatchOK
<1>3. CountsOK'
  BY DEF LoopTypeInv, CountsOK
<1> QED BY <1>1, <1>2, <1>3 DEF LoopTypeInv

LEMMA EngineFresh ==
  ASSUME log' \in Seq(Message), messages' \in Seq(Message), pc' \in {"idle", "check"}, Freshen,
         nextId' \in Nat \ {0}, collected' \subseteq 1 .. nextId' - 1
  PROVE  LoopTypeInv'
<1> USE LoopAssumption DEF Freshen
<1>1. LoopTypeOK'
  <2>1. batch' \in Seq(Call) /\ next' \in 1 .. Len(batch') + 1 /\ slots' \subseteq DOMAIN batch'
    OBVIOUS
  <2>2. steps' \in 0 .. MaxSteps /\ empties' \in 0 .. MaxEmptyTurns /\ cancelStep' \in 0 .. MaxSteps
    OBVIOUS
  <2>3. pc' \in Working \cup {"idle", "returned"}
    BY DEF Working
  <2> QED BY <2>1, <2>2, <2>3 DEF LoopTypeOK
<1>2. BatchOK'
  BY DEF BatchOK
<1>3. CountsOK'
  BY DEF CountsOK
<1> QED BY <1>1, <1>2, <1>3 DEF LoopTypeInv

LEMMA ConversationInitTyped == Init => ConversationTypeInv
<1> SUFFICES ASSUME Init PROVE ConversationTypeInv
  OBVIOUS
<1> USE LoopAssumption, ConversationAssumption DEF Init, Quiet, Fresh
<1>1. LoopTypeOK
  <2>1. batch \in Seq(Call) /\ next \in 1 .. Len(batch) + 1 /\ slots \subseteq DOMAIN batch
    OBVIOUS
  <2>2. steps \in 0 .. MaxSteps /\ empties \in 0 .. MaxEmptyTurns /\ cancelStep \in 0 .. MaxSteps
    OBVIOUS
  <2>3. log \in Seq(Message) /\ messages \in Seq(Message) /\ nextId \in Nat \ {0}
    OBVIOUS
  <2> QED BY <2>1, <2>2, <2>3 DEF LoopTypeOK
<1>2. BatchOK /\ CountsOK
  BY DEF BatchOK, CountsOK
<1>3. TypeOK
  <2>1. history \in Seq(Message) /\ toWrite \in Seq(Message)
    OBVIOUS
  <2>2. {closing, resumed, retried, cut, soiled, displaced} \subseteq BOOLEAN
    BY Zenon
  <2>3. turns \in 0 .. MaxTurns /\ restarts \in 0 .. MaxRestarts
    OBVIOUS
  <2> QED BY <1>1, <2>1, <2>2, <2>3 DEF TypeOK
<1> QED BY <1>1, <1>2, <1>3 DEF LoopTypeInv, ConversationTypeInv, UnderWayOK

LEMMA OpenCallType ==
  ASSUME ConversationTypeInv, NEW id \in DanglingIds(history)
  PROVE  /\ OpenCall(id) \in ToSet(DanglingCalls(history))
         /\ OpenCall(id) \in Call
         /\ OpenCall(id).id = id
<1>1. OpenCall(id) \in ToSet(DanglingCalls(history)) /\ OpenCall(id).id = id
  BY DEF DanglingIds, OpenCall
<1>2. history \in Seq(Message)
  BY DEF ConversationTypeInv, TypeOK
<1>3. ToSet(DanglingCalls(history)) \subseteq Call
  BY <1>2, DanglingMembers DEF ToSet
<1> QED BY <1>1, <1>3

DataOK ==
  /\ mode \in {"idle", "writing", "ready", "resuming", "turn", "down", "boot"}
  /\ history \in Seq(Message)
  /\ toWrite \in Seq(Message)
  /\ openRows \subseteq 1 .. nextId - 1
  /\ turns \in 0 .. MaxTurns
  /\ restarts \in 0 .. MaxRestarts

FlagsOK ==
  /\ closing \in BOOLEAN /\ resumed \in BOOLEAN /\ retried \in BOOLEAN
  /\ cut \in BOOLEAN /\ soiled \in BOOLEAN /\ displaced \in BOOLEAN

LEMMA ConversationTypeParts ==
  ConversationTypeInv <=> LoopTypeInv /\ DataOK /\ FlagsOK /\ UnderWayOK
<1>1. {closing, resumed, retried, cut, soiled, displaced} \subseteq BOOLEAN <=> FlagsOK
  BY Zenon DEF FlagsOK
<1>2. LoopTypeInv => LoopTypeOK
  BY DEF LoopTypeInv
<1> QED BY <1>1, <1>2 DEF ConversationTypeInv, TypeOK, DataOK

LEMMA FlagsStay == FlagsOK /\ [Next]_vars => FlagsOK'
<1> SUFFICES ASSUME FlagsOK, [Next]_vars PROVE FlagsOK'
  OBVIOUS
<1> USE DEF FlagsOK
<1>1. CASE Submit \/ WriteNext \/ ProviderUnavailable \/ LateAnswerUndone \/ Crash
  BY <1>1, Zenon DEF Submit, WriteNext, ProviderUnavailable, LateAnswerUndone, Crash
<1>2. CASE Compact \/ TurnError \/ Booted
  BY <1>2, Zenon DEF Compact, TurnError, Booted
<1>3. CASE Launch \/ NetworkRetry \/ ResumeTurn
  BY <1>3, Zenon DEF Launch, NetworkRetry, ResumeTurn, StartTurn
<1>4. CASE TurnStep
  BY <1>4, Zenon DEF TurnStep
<1>5. CASE CloseRows \/ \E n \in DOMAIN batch : AskQuestion(n)
  BY <1>5, Zenon DEF CloseRows, AskQuestion
<1>6. CASE TurnOk
  BY <1>6, Zenon DEF TurnOk
<1>7. CASE \E id \in openRows : LateAnswer(id) \/ AnswerRefused(id)
  BY <1>7, Zenon DEF LateAnswer, AnswerRefused
<1>8. ASSUME NEW id \in openRows, ExpireRow(id)
      PROVE  FlagsOK'
  BY <1>8, Zenon DEF ExpireRow
<1>9. CASE Load
  BY <1>9, Zenon DEF Load
<1>10. CASE UNCHANGED vars
  BY <1>10, Zenon DEF vars, sessionVars
<1> QED BY <1>1, <1>2, <1>3, <1>4, <1>5, <1>6, <1>7, <1>8, <1>9, <1>10 DEF Next

LEMMA IdsGrow ==
  ASSUME LoopTypeInv, LoopNext
  PROVE  nextId' \in Nat /\ nextId <= nextId'
<1>0. nextId \in Nat
  BY DEF LoopTypeInv, LoopTypeOK
<1>1. CASE StreamEnd
  <2>1. CASE response.kinds # <<>>
    <3>1. response.kinds \in Batches
      BY <2>1 DEF LoopTypeInv, LoopTypeOK, Responses, NoResponse
    <3>2. Len(Calls(response.kinds)) \in Nat
      BY <3>1, CallsType DEF LoopTypeInv
    <3>3. nextId' = nextId + Len(Calls(response.kinds))
      BY <1>1, <2>1 DEF StreamEnd
    <3> QED BY <1>0, <3>2, <3>3
  <2>2. CASE response.kinds = <<>>
    BY <1>0, <1>1, <2>2 DEF StreamEnd
  <2> QED BY <2>1, <2>2
<1>2. CASE ~StreamEnd
  <2>1. nextId' = nextId
    BY <1>2 DEF LoopNext, LoopStep, LoopInput, CancelToken, StopAtTop, Request, StreamDone, StreamCancelled,
                StreamFails, SerialCancelled, SerialMalformed, SerialOutput, CancelRest, BatchStart, ToolDone,
                BatchJoined, Drain, unchangedHistory
  <2> QED BY <1>0, <2>1
<1> QED BY <1>1, <1>2

LEMMA ConversationTyped ==
  ASSUME ConversationTypeInv, [Next]_vars
  PROVE  ConversationTypeInv'
<1>0. LoopTypeInv /\ DataOK /\ FlagsOK /\ UnderWayOK /\ LoopTypeOK
  BY ConversationTypeParts DEF LoopTypeInv
<1>p. LoopTypeInv' /\ DataOK' /\ FlagsOK' /\ UnderWayOK' => ConversationTypeInv'
  <2>1. ConversationTypeInv' <=> (LoopTypeInv /\ DataOK /\ FlagsOK /\ UnderWayOK)'
    BY ConversationTypeParts, PTL
  <2> QED BY <2>1
<1>f. FlagsOK'
  BY <1>0, FlagsStay
<1>s. UNCHANGED loopVars => LoopTypeInv'
  BY <1>0, LoopTyped
<1> SUFFICES LoopTypeInv' /\ DataOK' /\ UnderWayOK'
  BY <1>p, <1>f
<1>t. log \in Seq(Message) /\ messages \in Seq(Message) /\ history \in Seq(Message)
      /\ nextId \in Nat \ {0} /\ collected \subseteq 1 .. nextId - 1
  BY <1>0 DEF LoopTypeOK, DataOK
<1> USE ConversationAssumption, MessageTypes
<1>1. CASE Submit
  <2>1. RepairMessages(history) \in Seq(Message) /\ Repaired(history) \in Seq(Message)
    BY <1>t, RepairMessagesType, RepairedMembers
  <2>2. history' \in Seq(Message) /\ toWrite' \in Seq(Message) /\ history' # <<>>
    BY <1>1, <2>1 DEF Submit
  <2>3. LoopTypeInv' /\ nextId' = nextId
    BY <1>1, <1>s DEF Submit, loopVars
  <2> QED BY <1>0, <1>1, <2>2, <2>3 DEF Submit, DataOK, UnderWayOK
<1>2. CASE WriteNext
  <2>1. Head(toWrite) \in Message /\ toWrite' \in Seq(Message)
    BY <1>0, <1>2 DEF WriteNext, DataOK
  <2>2. log' \in Seq(Message) /\ UNCHANGED messages
    BY <1>2, <1>t, <2>1 DEF WriteNext
  <2>3. LoopTypeInv' /\ nextId' = nextId
    BY <1>0, <1>2, <1>t, <2>2, EngineKept DEF WriteNext, unchangedHistory
  <2> QED BY <1>0, <1>2, <2>1, <2>3 DEF WriteNext, DataOK, UnderWayOK
<1>3. CASE Compact
  <2>1. history' \in Seq(Message) /\ history' # <<>>
    BY <1>3, <1>t, CompactionMembers DEF Compact
  <2>2. LoopTypeInv' /\ nextId' = nextId
    BY <1>3, <1>s DEF Compact, loopVars
  <2> QED BY <1>0, <1>3, <2>1, <2>2 DEF Compact, DataOK, UnderWayOK
<1>4. CASE Launch
  <2>1. LoopTypeInv'
    BY <1>4, <1>t, EngineFresh DEF Launch, StartTurn
  <2> QED BY <1>0, <1>4, <2>1 DEF Launch, StartTurn, DataOK, UnderWayOK
<1>5. CASE ProviderUnavailable
  <2>1. history' \in Seq(Message)
    BY <1>5, <1>t, FrontType DEF ProviderUnavailable
  <2>2. LoopTypeInv' /\ nextId' = nextId
    BY <1>5, <1>s DEF ProviderUnavailable, loopVars
  <2> QED BY <1>0, <1>5, <2>1, <2>2 DEF ProviderUnavailable, DataOK, UnderWayOK
<1>6. CASE TurnStep
  <2>1. LoopTypeInv'
    BY <1>0, <1>6, LoopTyped DEF TurnStep
  <2>2. nextId' \in Nat /\ nextId <= nextId'
    BY <1>0, <1>6, IdsGrow DEF TurnStep
  <2>3. openRows' \subseteq 1 .. nextId' - 1
    <3>1. openRows' \subseteq openRows /\ openRows \subseteq 1 .. nextId - 1
      BY <1>0, <1>6 DEF TurnStep, DataOK
    <3>2. 1 .. nextId - 1 \subseteq 1 .. nextId' - 1
      <4>1. ASSUME NEW a \in Nat, NEW b \in Nat, a <= b PROVE 1 .. a - 1 \subseteq 1 .. b - 1
        BY <4>1
      <4>2. nextId \in Nat
        BY <1>t
      <4> QED BY ONLY <2>2, <4>1, <4>2, Zenon
    <3> QED BY <3>1, <3>2, Zenon
  <2>4. DataOK'
    BY <1>0, <1>6, <2>3 DEF TurnStep, DataOK
  <2>5. UnderWayOK'
    BY <1>0, <1>6 DEF TurnStep, UnderWayOK
  <2> QED BY <2>1, <2>4, <2>5
<1>7. ASSUME NEW n \in DOMAIN batch, AskQuestion(n)
      PROVE  LoopTypeInv' /\ DataOK' /\ UnderWayOK'
  <2>1. LoopTypeInv' /\ nextId' = nextId
    BY <1>7, <1>s DEF AskQuestion, loopVars
  <2>2. batch[n].id \in 1 .. nextId - 1
    <3>1. batch[n] \in Call /\ batch[n].id < nextId
      BY <1>0 DEF LoopTypeInv, BatchOK, LoopTypeOK
    <3> QED BY <1>t, <3>1 DEF Call
  <2> QED BY <1>0, <1>7, <2>1, <2>2 DEF AskQuestion, DataOK, UnderWayOK
<1>8. CASE CloseRows
  <2>1. LoopTypeInv' /\ nextId' = nextId
    BY <1>8, <1>s DEF CloseRows, loopVars
  <2> QED BY <1>0, <1>8, <2>1 DEF CloseRows, DataOK, UnderWayOK
<1>9. CASE TurnOk \/ TurnError
  <2>1. LoopTypeInv'
    <3>1. /\ pc' = "idle" /\ messages' = <<>> /\ Freshen
          /\ UNCHANGED <<log, nextId, collected>>
      BY <1>9 DEF TurnOk, TurnError, EndTurn, Quieten
    <3> QED BY <3>1, <1>t, EngineFresh
  <2>2. history' \in Seq(Message) /\ mode' = "idle"
    BY <1>9, <1>t DEF TurnOk, TurnError, EndTurn
  <2>3. UNCHANGED <<toWrite, openRows, turns, restarts, nextId>>
    BY <1>9 DEF TurnOk, TurnError, EndTurn
  <2> QED BY <1>0, <2>1, <2>2, <2>3 DEF DataOK, UnderWayOK
<1>10. CASE NetworkRetry
  <2>1. LoopTypeInv'
    BY <1>10, <1>t, EngineFresh DEF NetworkRetry
  <2> QED BY <1>0, <1>10, <2>1 DEF NetworkRetry, DataOK, UnderWayOK
<1>11. ASSUME NEW id \in openRows, LateAnswer(id)
       PROVE  LoopTypeInv' /\ DataOK' /\ UnderWayOK'
  <2> DEFINE t == ToolMessage(OpenCall(id), "output")
  <2>1. /\ OpenCall(id) \in ToSet(DanglingCalls(history))
        /\ OpenCall(id) \in Call
        /\ OpenCall(id).id = id
    BY <1>11, OpenCallType DEF LateAnswer
  <2>2. t \in Message /\ t.answers = id
    BY <2>1, ToolMessageType DEF Results
  <2>3. messages' \in Seq(Message)
    BY <1>11, <1>t, <2>1, LateResultMembers DEF LateAnswer, Results
  <2>4. LoopTypeInv' /\ nextId' = nextId
    BY <1>0, <1>11, <1>t, <2>3, EngineKept DEF LateAnswer, unchangedHistory
  <2>5. toWrite' = <<t>> /\ id \in 1 .. nextId - 1
    BY <1>0, <1>11 DEF LateAnswer, DataOK
  <2> HIDE DEF t
  <2>6. toWrite' \in Seq(Message) /\ Len(toWrite') = 1 /\ toWrite'[1] = t
    BY <2>2, <2>5
  <2>7. DataOK'
    BY <1>0, <1>11, <2>4, <2>6 DEF LateAnswer, DataOK
  <2>8. UnderWayOK'
    BY <1>11, <2>2, <2>4, <2>5, <2>6 DEF LateAnswer, UnderWayOK
  <2> QED BY <2>4, <2>7, <2>8
<1>12. CASE LateAnswerUndone
  <2>1. Head(toWrite).answers \in 1 .. nextId - 1
    BY <1>0, <1>12 DEF LateAnswerUndone, UnderWayOK, DataOK
  <2>2. LoopTypeInv' /\ nextId' = nextId
    BY <1>0, <1>12, <1>t, EngineKept DEF LateAnswerUndone, unchangedHistory
  <2>3. openRows' \subseteq 1 .. nextId' - 1
    <3>1. openRows' = openRows \cup {Head(toWrite).answers} /\ openRows \subseteq 1 .. nextId - 1
      BY <1>0, <1>12 DEF LateAnswerUndone, DataOK
    <3> QED BY ONLY <2>1, <2>2, <3>1
  <2>4. mode' = "idle" /\ toWrite' = <<>> /\ UNCHANGED <<history, turns, restarts>>
    BY <1>12 DEF LateAnswerUndone
  <2> QED BY <1>0, <2>2, <2>3, <2>4 DEF DataOK, UnderWayOK
<1>13. CASE ResumeTurn
  <2>1. log' \in Seq(Message) /\ messages' \in Seq(Message)
    BY <1>0, <1>13, <1>t DEF ResumeTurn, StartTurn, DataOK
  <2>2. LoopTypeInv'
    BY <1>13, <1>t, <2>1, EngineFresh DEF ResumeTurn, StartTurn
  <2> QED BY <1>0, <1>13, <2>2 DEF ResumeTurn, StartTurn, DataOK, UnderWayOK
<1>14. ASSUME NEW id \in openRows, AnswerRefused(id)
       PROVE  LoopTypeInv' /\ DataOK' /\ UnderWayOK'
  <2>1. LoopTypeInv' /\ nextId' = nextId
    BY <1>14, <1>s DEF AnswerRefused, loopVars
  <2> QED BY <1>0, <1>14, <2>1 DEF AnswerRefused, DataOK, UnderWayOK
<1>15. CASE Crash
  <2>1. LoopTypeInv'
    BY <1>15, <1>t, EngineFresh DEF Crash, Quieten
  <2> QED BY <1>0, <1>15, <2>1 DEF Crash, DataOK, UnderWayOK
<1>16. CASE Load
  <2>1. LoopTypeInv' /\ nextId' = nextId
    BY <1>16, <1>s DEF Load, loopVars
  <2>2. restarts' \in 0 .. MaxRestarts
    BY <1>0, <1>16 DEF Load, DataOK, UnderWayOK
  <2> QED BY <1>0, <1>16, <1>t, <2>1, <2>2 DEF Load, DataOK, UnderWayOK
<1>17. ASSUME NEW id \in openRows, ExpireRow(id)
       PROVE  LoopTypeInv' /\ DataOK' /\ UnderWayOK'
  <2>1. log' \in Seq(Message) /\ history' \in Seq(Message)
    <3>1. CASE id \in DanglingIds(history)
      <4>1. OpenCall(id) \in ToSet(DanglingCalls(history)) /\ OpenCall(id) \in Call
        BY <3>1, OpenCallType
      <4>2. ToolMessage(OpenCall(id), "expired") \in Message
        BY <4>1, ToolMessageType DEF Results
      <4>3. WithLateResult(history, OpenCall(id), "expired") \in Seq(Message)
        BY <4>1, <1>t, LateResultMembers DEF Results
      <4>4. /\ history' = WithLateResult(history, OpenCall(id), "expired")
            /\ log' = Append(log, ToolMessage(OpenCall(id), "expired"))
        BY <1>17, <3>1, Zenon DEF ExpireRow
      <4>5. ASSUME NEW m \in Message PROVE Append(log, m) \in Seq(Message)
        BY <1>t
      <4> QED BY ONLY <4>2, <4>3, <4>4, <4>5
    <3>2. CASE id \notin DanglingIds(history)
      BY <1>17, <1>t, <3>2 DEF ExpireRow
    <3> QED BY <3>1, <3>2
  <2>2. LoopTypeInv' /\ nextId' = nextId
    BY <1>0, <1>17, <1>t, <2>1, EngineKept DEF ExpireRow, unchangedHistory
  <2> QED BY <1>0, <1>17, <2>1, <2>2 DEF ExpireRow, DataOK, UnderWayOK
<1>18. CASE Booted
  <2>1. log' \in Seq(Message) /\ history' \in Seq(Message)
    BY <1>18, <1>t, FrontType DEF Booted
  <2>2. LoopTypeInv' /\ nextId' = nextId
    BY <1>0, <1>18, <1>t, <2>1, EngineKept DEF Booted, unchangedHistory
  <2> QED BY <1>0, <1>18, <2>1, <2>2 DEF Booted, DataOK, UnderWayOK
<1>19. CASE UNCHANGED vars
  BY <1>0, <1>s, <1>19 DEF vars, sessionVars, loopVars, DataOK, UnderWayOK
<1> QED BY <1>1, <1>2, <1>3, <1>4, <1>5, <1>6, <1>7, <1>8, <1>9, <1>10, <1>11, <1>12, <1>13, <1>14, <1>15,
           <1>16, <1>17, <1>18, <1>19 DEF Next

(* Whatever happens between and during the turns, histories, logs and rows   *)
(* keep their types, and every row belongs to a call that was made.          *)
THEOREM TypeCorrect == Spec => []TypeOK
<1>1. Spec => []ConversationTypeInv
  BY ConversationInitTyped, ConversationTyped, PTL DEF Spec
<1>2. ConversationTypeInv => TypeOK
  BY DEF ConversationTypeInv
<1> QED BY <1>1, <1>2, PTL

-----------------------------------------------------------------------------
(* One output per call.  The ids of the calls that have an output in a log,  *)
(* and a log that has one output for each of them.                           *)
Outputs(lg) == {lg[i].answers : i \in {k \in DOMAIN lg : lg[k].result = "output"}}
Once(lg) ==
  \A i, k \in DOMAIN lg :
    lg[i].result = "output" /\ lg[k].result = "output" /\ lg[i].answers = lg[k].answers => i = k

LEMMA OutputsAppend ==
  ASSUME NEW lg \in Seq(Message), NEW m \in Message
  PROVE  /\ m.result # "output" => Outputs(Append(lg, m)) = Outputs(lg)
         /\ m.result = "output" => Outputs(Append(lg, m)) = Outputs(lg) \cup {m.answers}
         /\ Once(lg) /\ (m.result = "output" => m.answers \notin Outputs(lg)) => Once(Append(lg, m))
<1> DEFINE app == Append(lg, m)
<1>1. DOMAIN app = 1 .. Len(lg) + 1 /\ DOMAIN lg = 1 .. Len(lg) /\ Len(lg) \in Nat
      /\ app[Len(lg) + 1] = m /\ \A k \in 1 .. Len(lg) : app[k] = lg[k]
  OBVIOUS
<1> HIDE DEF app
<1>2. DOMAIN app = DOMAIN lg \cup {Len(lg) + 1} /\ Len(lg) + 1 \notin DOMAIN lg
  BY <1>1
<1>3. Outputs(app) = Outputs(lg) \cup (IF m.result = "output" THEN {m.answers} ELSE {})
  <2>1. ASSUME NEW id \in Outputs(app) PROVE id \in Outputs(lg) \cup (IF m.result = "output" THEN {m.answers} ELSE {})
    <3>1. PICK i \in DOMAIN app : app[i].result = "output" /\ id = app[i].answers
      BY DEF Outputs
    <3>2. CASE i = Len(lg) + 1
      BY <3>1, <3>2, <1>1
    <3>3. CASE i # Len(lg) + 1
      BY <3>1, <3>3, <1>1, <1>2 DEF Outputs
    <3> QED BY <3>2, <3>3
  <2>2. ASSUME NEW id \in Outputs(lg) PROVE id \in Outputs(app)
    <3>1. PICK i \in DOMAIN lg : lg[i].result = "output" /\ id = lg[i].answers
      BY DEF Outputs
    <3> QED BY <3>1, <1>1, <1>2 DEF Outputs
  <2>3. m.result = "output" => m.answers \in Outputs(app)
    BY <1>1, <1>2 DEF Outputs
  <2> QED BY <2>1, <2>2, <2>3
<1>4. ASSUME Once(lg), m.result = "output" => m.answers \notin Outputs(lg),
             NEW i \in DOMAIN app, NEW k \in DOMAIN app,
             app[i].result = "output", app[k].result = "output", app[i].answers = app[k].answers
      PROVE  i = k
  <2>1. \A j \in DOMAIN lg : app[j].result = "output" => app[j].answers \in Outputs(lg)
    BY <1>1 DEF Outputs
  <2>2. CASE i \in DOMAIN lg /\ k \in DOMAIN lg
    BY <2>2, <1>1, <1>4 DEF Once
  <2>3. CASE i \notin DOMAIN lg \/ k \notin DOMAIN lg
    BY <2>1, <2>3, <1>1, <1>2, <1>4
  <2> QED BY <2>2, <2>3
<1>5. Once(lg) /\ (m.result = "output" => m.answers \notin Outputs(lg)) => Once(app)
  BY <1>4 DEF Once
<1> QED BY <1>3, <1>5 DEF app

LEMMA OutputsFront ==
  ASSUME NEW lg \in Seq(Message)
  PROVE  Outputs(Front(lg)) \subseteq Outputs(lg) /\ (Once(lg) => Once(Front(lg)))
<1>1. CASE lg = <<>>
  <2>1. Front(lg) = <<>>
    BY <1>1 DEF Front
  <2> QED BY <1>1, <2>1
<1>2. CASE lg # <<>>
  <2>1. DOMAIN Front(lg) \subseteq DOMAIN lg /\ \A i \in DOMAIN Front(lg) : Front(lg)[i] = lg[i]
    BY <1>2, FrontType
  <2> QED BY <2>1 DEF Outputs, Once
<1> QED BY <1>1, <1>2

(* Within a step: the calls still to come have no output, those whose        *)
(* output came in are collected.                                             *)
StepOutputsOK ==
  /\ pc \in {"serial", "batch", "inflight", "drain"} =>
       \A n \in DOMAIN batch : n >= next => batch[n].id \notin Outputs(log)
  /\ pc = "serial" => \A n \in DOMAIN batch : n >= next => batch[n].id \notin collected
  /\ pc \in {"batch", "inflight"} => \A n \in DOMAIN batch \ slots : batch[n].id \notin collected
  /\ pc \in {"inflight", "drain"} => \A n \in slots : batch[n].id \in collected

LoopOutputsOK ==
  /\ Once(log)
  /\ \A id \in Outputs(log) : id < nextId
  /\ StepOutputsOK

LEMMA LoopOutputsStay ==
  ASSUME LoopTypeInv, LoopOutputsOK, LoopNext
  PROVE  LoopOutputsOK' /\ Outputs(log') \subseteq Outputs(log) \cup collected'
<1>0. LoopTypeOK /\ BatchOK /\ Once(log) /\ StepOutputsOK /\ \A id \in Outputs(log) : id < nextId
  BY DEF LoopTypeInv, LoopOutputsOK
<1>t. log \in Seq(Message) /\ nextId \in Nat /\ next \in Nat /\ Len(batch) \in Nat /\ DOMAIN batch = 1 .. Len(batch)
      /\ batch \in Seq(Call) /\ collected \subseteq 1 .. nextId - 1 /\ slots \subseteq DOMAIN batch
  BY <1>0 DEF LoopTypeOK
<1>i. \A id \in collected \cup Outputs(log) : id < nextId
  BY <1>0, <1>t
<1>1. CASE UNCHANGED <<log, nextId, batch, next, slots, collected>> /\ pc' \in {"check", "stream", "cancelling", "returned", "idle", pc}
  <2> USE <1>1
  <2>1. Once(log') /\ Outputs(log') = Outputs(log) /\ \A id \in Outputs(log') : id < nextId'
    BY <1>0
  <2>2. StepOutputsOK'
    <3>1. CASE pc' = pc
      BY <1>0, <3>1 DEF StepOutputsOK
    <3>2. CASE pc' # pc
      <4>1. pc' \notin {"serial", "batch", "inflight", "drain"}
        BY <3>2
      <4> QED BY <4>1 DEF StepOutputsOK
    <3> QED BY <3>1, <3>2
  <2> QED BY <2>1, <2>2 DEF LoopOutputsOK
<1>2. CASE CancelToken \/ StopAtTop \/ Request \/ StreamDone \/ StreamCancelled \/ StreamFails
           \/ SerialCancelled \/ SerialMalformed
  <2>1. UNCHANGED <<log, nextId, batch, next, slots, collected>> /\ pc' \in {"check", "stream", "cancelling", "returned", "idle", pc}
    BY <1>2 DEF CancelToken, StopAtTop, Request, StreamDone, StreamCancelled, StreamFails, SerialCancelled,
                SerialMalformed, Return, batchVars, unchangedHistory
  <2> QED BY <1>1, <2>1
<1>3. CASE StreamEnd
  <2>1. CASE response.kinds # <<>>
    <3> DEFINE calls == Calls(response.kinds)
    <3>1. response.kinds \in Batches
      BY <1>0, <2>1 DEF LoopTypeOK, Responses, NoResponse
    <3>2. calls \in Seq(Call) /\ Len(calls) \in Nat /\ \A n \in 1 .. Len(calls) : calls[n].id = nextId + n - 1
      BY <1>0, <3>1, CallsType
    <3>3. /\ log' = Append(log, AssistantCalls(calls)) /\ batch' = calls /\ nextId' = nextId + Len(calls)
          /\ slots' = {} /\ pc' \in {"serial", "batch"} /\ collected' = collected
      BY <1>3, <2>1 DEF StreamEnd, Append1
    <3> HIDE DEF calls
    <3>4. Outputs(log') = Outputs(log) /\ Once(log')
      <4>1. AssistantCalls(calls) \in Message /\ AssistantCalls(calls).result # "output"
        BY <3>2, CallsMessage
      <4> QED BY <1>0, <1>t, <3>3, <4>1, OutputsAppend
    <3>5. \A id \in Outputs(log') : id < nextId'
      <4>1. ASSUME NEW id \in Outputs(log) PROVE id \in Nat
        <5>1. PICK i \in DOMAIN log : id = log[i].answers
          BY DEF Outputs
        <5>2. log[i] \in Message
          BY <1>t
        <5> QED BY <5>1, <5>2 DEF Message
      <4> QED BY <1>0, <1>t, <3>2, <3>3, <3>4, <4>1
    <3>6. \A n \in DOMAIN batch' : batch'[n].id \notin Outputs(log') /\ batch'[n].id \notin collected'
      <4>1. ASSUME NEW n \in 1 .. Len(calls) PROVE ~(calls[n].id < nextId)
        <5>1. calls[n].id = nextId + n - 1 /\ n \in Nat /\ n >= 1
          BY <3>2
        <5> QED BY ONLY <5>1, <1>t
      <4>2. DOMAIN batch' = 1 .. Len(calls)
        BY <3>2, <3>3
      <4> QED BY <1>i, <3>3, <3>4, <4>1, <4>2
    <3>7. StepOutputsOK'
      BY <3>3, <3>6 DEF StepOutputsOK
    <3> QED BY <3>4, <3>5, <3>7 DEF LoopOutputsOK
  <2>2. CASE response.kinds = <<>>
    <3>1. /\ log' = Append(log, AssistantSays) /\ UNCHANGED <<nextId, collected>>
          /\ pc' \notin {"serial", "batch", "inflight", "drain"}
      BY <1>3, <2>2 DEF StreamEnd, Append1, Return
    <3>2. Outputs(log') = Outputs(log) /\ Once(log')
      BY <1>0, <1>t, <3>1, MessageTypes, OutputsAppend
    <3>3. StepOutputsOK'
      BY <3>1 DEF StepOutputsOK
    <3> QED BY <1>0, <3>1, <3>2, <3>3 DEF LoopOutputsOK
  <2> QED BY <2>1, <2>2
<1>4. CASE SerialOutput
  <2> DEFINE id == batch[next].id
             t == ToolMessage(batch[next], "output")
  <2>1. next \in DOMAIN batch /\ batch[next] \in Call /\ id < nextId /\ id \notin Outputs(log)
    <3>0. pc = "serial"
      BY <1>4 DEF SerialOutput
    <3>1. next \in DOMAIN batch
      BY <1>0, <1>t, <3>0 DEF BatchOK, LoopTypeOK
    <3>2. next >= next /\ batch[next] \in Call
      BY <1>t, <3>1
    <3> QED BY <1>0, <3>0, <3>1, <3>2 DEF BatchOK, StepOutputsOK
  <2>2. t \in Message /\ t.result = "output" /\ t.answers = id
    BY <2>1, ToolMessageType DEF Results
  <2>3. /\ log' = Append(log, t) /\ collected' = collected \cup {id} /\ next' = next + 1
        /\ pc' \in {"check", "serial"} /\ UNCHANGED <<batch, slots, nextId>> /\ pc = "serial"
    BY <1>4 DEF SerialOutput, Append1
  <2>i. \A n \in DOMAIN batch : batch[n].id = id => n = next
    BY <1>0, <2>1 DEF BatchOK
  <2> HIDE DEF t, id
  <2>4. Outputs(log') = Outputs(log) \cup {id} /\ Once(log')
    BY <1>0, <1>t, <2>1, <2>2, <2>3, OutputsAppend
  <2>5. \A n \in DOMAIN batch : n >= next + 1 => batch[n].id # id /\ n >= next
    BY <2>i, <1>t
  <2>6. StepOutputsOK'
    BY <1>0, <2>3, <2>4, <2>5 DEF StepOutputsOK
  <2>7. \A x \in Outputs(log') : x < nextId'
    BY <1>0, <2>1, <2>3, <2>4
  <2> QED BY <2>3, <2>4, <2>6, <2>7 DEF LoopOutputsOK
<1>5. CASE CancelRest
  <2>1. pc' \in {"cancelling", "returned"} /\ UNCHANGED <<batch, slots, nextId, collected>>
    BY <1>5 DEF CancelRest, Return, unchangedHistory
  <2>2. Outputs(log') = Outputs(log) /\ Once(log')
    <3>1. CASE log' = log
      BY <1>0, <3>1
    <3>2. CASE log' # log
      <4>1. next <= Len(batch) /\ log' = Append(log, ToolMessage(batch[next], "cancelled"))
        BY <1>5, <1>t, <3>2 DEF CancelRest, Append1
      <4>2. batch[next] \in Call
        BY <1>0, <1>t, <4>1 DEF LoopTypeOK
      <4>3. /\ ToolMessage(batch[next], "cancelled") \in Message
            /\ ToolMessage(batch[next], "cancelled").result # "output"
        BY <4>2, ToolMessageType DEF Results
      <4> QED BY <1>0, <1>t, <4>1, <4>3, OutputsAppend
    <3> QED BY <3>1, <3>2
  <2>3. StepOutputsOK'
    BY <2>1 DEF StepOutputsOK
  <2> QED BY <1>0, <2>1, <2>2, <2>3 DEF LoopOutputsOK
<1>6. CASE BatchStart
  <2>1. UNCHANGED <<log, batch, next, slots, nextId, collected>> /\ pc = "batch" /\ pc' \in {"cancelling", "inflight", "returned"}
    BY <1>6 DEF BatchStart, Return, batchVars, unchangedHistory
  <2>2. slots = {}
    BY <1>0, <2>1 DEF BatchOK
  <2>3. StepOutputsOK'
    BY <1>0, <2>1, <2>2 DEF StepOutputsOK
  <2> QED BY <1>0, <2>1, <2>3 DEF LoopOutputsOK
<1>7. ASSUME NEW n \in DOMAIN batch, ToolDone(n)
      PROVE  LoopOutputsOK' /\ Outputs(log') \subseteq Outputs(log) \cup collected'
  <2>1. /\ UNCHANGED <<log, batch, next, nextId, pc>> /\ pc = "inflight"
        /\ slots' = slots \cup {n} /\ collected' = collected \cup {batch[n].id}
    BY <1>7 DEF ToolDone
  <2>2. \A k \in DOMAIN batch : batch[k].id = batch[n].id => k = n
    BY <1>0 DEF BatchOK
  <2>3. StepOutputsOK'
    BY <1>0, <2>1, <2>2 DEF StepOutputsOK
  <2> QED BY <1>0, <2>1, <2>3 DEF LoopOutputsOK
<1>8. CASE BatchJoined
  <2>1. UNCHANGED <<log, batch, next, slots, nextId, collected>> /\ pc = "inflight" /\ pc' = "drain"
    BY <1>8 DEF BatchJoined, unchangedHistory
  <2>2. StepOutputsOK'
    BY <1>0, <2>1 DEF StepOutputsOK
  <2> QED BY <1>0, <2>1, <2>2 DEF LoopOutputsOK
<1>9. CASE Drain
  <2>1. UNCHANGED <<batch, slots, nextId, collected>> /\ pc = "drain" /\ pc' \in {"drain", "check", "returned"}
    BY <1>9 DEF Drain, Return, unchangedHistory
  <2>2. CASE next > Len(batch)
    <3>1. UNCHANGED <<log, next>>
      BY <1>9, <1>t, <2>2 DEF Drain
    <3>2. StepOutputsOK'
      BY <1>0, <2>1, <3>1 DEF StepOutputsOK
    <3> QED BY <1>0, <2>1, <3>1, <3>2 DEF LoopOutputsOK
  <2>3. CASE next <= Len(batch)
    <3> DEFINE id == batch[next].id
    <3>1. next \in DOMAIN batch /\ batch[next] \in Call /\ id < nextId /\ id \notin Outputs(log) /\ next' = next + 1
      <4>1. next \in DOMAIN batch
        BY <1>0, <2>3, <1>t DEF LoopTypeOK
      <4>2. next' = next + 1
        BY <1>9, <1>t, <2>3 DEF Drain
      <4> QED BY <4>1, <4>2, <1>0, <1>t, <2>1 DEF BatchOK, StepOutputsOK
    <3>2. \A n \in DOMAIN batch : n >= next + 1 => batch[n].id # id /\ n >= next
      BY <1>0, <1>t, <3>1 DEF BatchOK
    <3>3. CASE next \in slots
      <4> DEFINE t == ToolMessage(batch[next], "output")
      <4>1. log' = Append(log, t)
        BY <1>9, <1>t, <2>3, <3>3 DEF Drain, Append1
      <4>2. t \in Message /\ t.result = "output" /\ t.answers = id /\ id \in collected
        BY <1>0, <2>1, <3>1, <3>3, ToolMessageType DEF Results, StepOutputsOK
      <4> HIDE DEF t, id
      <4>3. Outputs(log') = Outputs(log) \cup {id} /\ Once(log')
        BY <1>0, <1>t, <3>1, <4>1, <4>2, OutputsAppend
      <4>4. StepOutputsOK'
        BY <1>0, <2>1, <3>1, <3>2, <4>3 DEF StepOutputsOK
      <4> QED BY <1>0, <2>1, <3>1, <4>2, <4>3, <4>4 DEF LoopOutputsOK
    <3>4. CASE next \notin slots
      <4> DEFINE t == ToolMessage(batch[next], "cancelled")
      <4>1. log' = log \/ log' = Append(log, t)
        BY <1>9, <1>t, <2>3, <3>4 DEF Drain, Append1
      <4>2. t \in Message /\ t.result # "output"
        BY <3>1, ToolMessageType DEF Results
      <4> HIDE DEF t, id
      <4>3. Outputs(log') = Outputs(log) /\ Once(log')
        BY <1>0, <1>t, <4>1, <4>2, OutputsAppend
      <4>4. StepOutputsOK'
        BY <1>0, <2>1, <3>1, <3>2, <4>3 DEF StepOutputsOK
      <4> QED BY <1>0, <2>1, <4>3, <4>4 DEF LoopOutputsOK
    <3> QED BY <3>3, <3>4
  <2> QED BY <2>2, <2>3, <1>t
<1> QED BY <1>2, <1>3, <1>4, <1>5, <1>6, <1>7, <1>8, <1>9 DEF LoopNext, LoopStep, LoopInput

(* The rows and a late answer on its way belong to calls that have no        *)
(* output yet, and a submit writes none.                                     *)
OutputsInv ==
  /\ LoopOutputsOK
  /\ openRows \cap (Outputs(log) \cup collected) = {}
  /\ mode = "resuming" => toWrite[1].answers \notin openRows \cup Outputs(log) \cup collected
  /\ mode = "writing" => \A i \in DOMAIN toWrite : toWrite[i].result # "output"

LEMMA OutputsInit == Init => OutputsInv
BY DEF Init, Quiet, OutputsInv, LoopOutputsOK, StepOutputsOK, Outputs, Once

LEMMA OutputsKeptOnce ==
  ASSUME ConversationTypeInv, OutputsInv, [Next]_vars
  PROVE  OutputsInv'
<1> USE DEF batchVars
<1>0. LoopTypeInv /\ DataOK /\ UnderWayOK /\ LoopTypeOK /\ LoopOutputsOK /\ StepOutputsOK /\ Once(log)
  BY ConversationTypeParts DEF LoopTypeInv, OutputsInv, LoopOutputsOK
<1>t. /\ log \in Seq(Message) /\ history \in Seq(Message) /\ toWrite \in Seq(Message)
      /\ \A id \in Outputs(log) : id < nextId
      /\ openRows \cap (Outputs(log) \cup collected) = {}
  BY <1>0 DEF LoopTypeOK, DataOK, OutputsInv, LoopOutputsOK
<1>q. ASSUME UNCHANGED <<log, pc, nextId, batchVars, collected>>
      PROVE  LoopOutputsOK'
  BY <1>0, <1>q DEF LoopOutputsOK, StepOutputsOK, batchVars
<1>z. ASSUME Once(log'), Outputs(log') \subseteq Outputs(log), UNCHANGED <<pc, nextId, batchVars, collected>>
      PROVE  LoopOutputsOK'
  BY <1>0, <1>t, <1>z DEF LoopOutputsOK, StepOutputsOK, batchVars
<1>n. ASSUME Once(log'), \A id \in Outputs(log') : id < nextId', pc' \in {"idle", "check"}
      PROVE  LoopOutputsOK'
  BY <1>n DEF LoopOutputsOK, StepOutputsOK
<1>1. CASE Submit
  <2>1. UNCHANGED <<log, pc, nextId, batchVars, collected, openRows>> /\ mode' = "writing"
        /\ toWrite' = Append(RepairMessages(history), UserMessage)
    BY <1>1 DEF Submit, loopVars
  <2>2. \A i \in DOMAIN toWrite' : toWrite'[i].result # "output"
    <3> DEFINE rm == RepairMessages(history)
    <3>1. rm \in Seq(Message) /\ \A i \in DOMAIN rm : rm[i].result # "output"
      BY <1>t, RepairMessagesType
    <3>2. toWrite' = Append(rm, UserMessage) /\ UserMessage \in Message /\ UserMessage.result # "output"
      BY <2>1, MessageTypes
    <3> HIDE DEF rm
    <3> QED BY <3>1, <3>2
  <2> QED BY <1>q, <1>t, <2>1, <2>2 DEF OutputsInv
<1>2. CASE WriteNext
  <2>1. /\ UNCHANGED <<pc, nextId, batchVars, collected, openRows>> /\ log' = Append(log, Head(toWrite))
        /\ toWrite' = Tail(toWrite) /\ toWrite # <<>> /\ mode = "writing" /\ mode' \in {"ready", "writing"}
    BY <1>2 DEF WriteNext, unchangedHistory
  <2>2. Head(toWrite) \in Message /\ Head(toWrite).result # "output"
    BY <1>t, <2>1 DEF OutputsInv
  <2>3. Once(log') /\ Outputs(log') = Outputs(log)
    BY <1>0, <1>t, <2>1, <2>2, OutputsAppend
  <2>4. \A i \in DOMAIN toWrite' : toWrite'[i].result # "output"
    <3>1. \A i \in DOMAIN Tail(toWrite) : i + 1 \in DOMAIN toWrite /\ Tail(toWrite)[i] = toWrite[i + 1]
      BY <1>t, <2>1
    <3> QED BY <2>1, <3>1 DEF OutputsInv
  <2>5. LoopOutputsOK'
    BY <1>z, <2>1, <2>3
  <2> QED BY <1>t, <2>1, <2>3, <2>4, <2>5 DEF OutputsInv
<1>3. CASE Compact \/ Launch \/ ProviderUnavailable
  <2>1. UNCHANGED <<log, nextId, collected, openRows>> /\ mode' \in {"ready", "turn", "idle"}
    BY <1>3 DEF Compact, Launch, ProviderUnavailable, StartTurn, loopVars
  <2>2. LoopOutputsOK'
    <3>1. CASE Launch
      BY <1>0, <1>t, <1>n, <2>1, <3>1 DEF Launch, StartTurn
    <3>2. CASE Compact \/ ProviderUnavailable
      BY <1>q, <3>2 DEF Compact, ProviderUnavailable, loopVars
    <3> QED BY <1>3, <3>1, <3>2
  <2> QED BY <1>t, <2>1, <2>2 DEF OutputsInv
<1>4. CASE TurnStep
  <2>1. LoopOutputsOK' /\ Outputs(log') \subseteq Outputs(log) \cup collected'
    BY <1>0, <1>4, LoopOutputsStay DEF TurnStep
  <2>2. openRows' = openRows \ collected' /\ mode' = "turn"
    BY <1>4 DEF TurnStep
  <2> QED BY <1>t, <2>1, <2>2 DEF OutputsInv
<1>5. ASSUME NEW n \in DOMAIN batch, AskQuestion(n)
      PROVE  OutputsInv'
  <2>1. UNCHANGED <<log, pc, nextId, batchVars, collected>> /\ mode' = "turn" /\ openRows' = openRows \cup {batch[n].id}
    BY <1>5 DEF AskQuestion, loopVars
  <2>2. batch[n].id \notin Outputs(log) \cup collected
    <3>1. CASE pc = "inflight" /\ n \in DOMAIN batch \ slots
      <4>1. next = 1 /\ n >= next
        BY <1>0, <3>1 DEF LoopTypeInv, BatchOK, LoopTypeOK
      <4> QED BY <1>0, <3>1, <4>1 DEF StepOutputsOK
    <3>2. CASE pc = "serial" /\ n = next
      <4>1. n >= next
        BY <1>0, <3>2 DEF LoopTypeOK
      <4> QED BY <1>0, <3>2, <4>1 DEF StepOutputsOK
    <3> QED BY <1>5, <3>1, <3>2 DEF AskQuestion
  <2> QED BY <1>q, <1>t, <2>1, <2>2 DEF OutputsInv
<1>6. CASE CloseRows
  <2>1. UNCHANGED <<log, pc, nextId, batchVars, collected, mode, toWrite>> /\ openRows' = {}
    BY <1>6 DEF CloseRows, loopVars
  <2> QED BY <1>q, <2>1 DEF OutputsInv
<1>7. CASE TurnOk \/ TurnError \/ NetworkRetry
  <2>1. UNCHANGED <<log, nextId, collected, openRows>> /\ mode' \in {"idle", "turn"} /\ pc' \in {"idle", "check"}
    BY <1>7 DEF TurnOk, TurnError, NetworkRetry, EndTurn, Quieten
  <2>2. LoopOutputsOK'
    BY <1>0, <1>t, <1>n, <2>1
  <2> QED BY <1>t, <2>1, <2>2 DEF OutputsInv
<1>8. ASSUME NEW id \in openRows, LateAnswer(id)
      PROVE  OutputsInv'
  <2>1. /\ UNCHANGED <<log, pc, nextId, batchVars, collected>> /\ mode' = "resuming"
        /\ openRows' = openRows \ {id}
        /\ toWrite' = <<ToolMessage(OpenCall(id), "output")>>
    BY <1>8 DEF LateAnswer, unchangedHistory
  <2>2. OpenCall(id) \in Call /\ OpenCall(id).id = id
    BY <1>8, OpenCallType DEF LateAnswer
  <2>3. toWrite'[1].answers = id
    BY <2>1, <2>2, ToolMessageType DEF Results
  <2> QED BY <1>q, <1>t, <2>1, <2>3 DEF OutputsInv
<1>9. CASE LateAnswerUndone
  <2>1. /\ UNCHANGED <<log, pc, nextId, batchVars, collected>> /\ mode = "resuming" /\ mode' = "idle"
        /\ openRows' = openRows \cup {Head(toWrite).answers}
    BY <1>9 DEF LateAnswerUndone, unchangedHistory
  <2>2. Head(toWrite) = toWrite[1]
    BY <1>0, <1>t, <2>1 DEF UnderWayOK
  <2>3. toWrite[1].answers \notin Outputs(log) \cup collected
    BY <2>1 DEF OutputsInv
  <2> QED BY <1>q, <1>t, <2>1, <2>2, <2>3 DEF OutputsInv
<1>10. CASE ResumeTurn
  <2>1. /\ log' = log \o toWrite /\ mode = "resuming" /\ mode' = "turn" /\ pc' = "check"
        /\ UNCHANGED <<nextId, collected, openRows>>
    BY <1>10 DEF ResumeTurn, StartTurn
  <2> DEFINE m == toWrite[1]
  <2>2. m \in Message /\ log' = Append(log, m) /\ m.answers < nextId
    <3>1. Len(toWrite) = 1 /\ m.answers \in 1 .. nextId - 1
      BY <1>0, <2>1 DEF UnderWayOK
    <3>2. m \in Message /\ log \o toWrite = Append(log, m)
      <4>1. toWrite = <<m>> /\ m \in Message
        <5>1. ASSUME NEW M, NEW s \in Seq(M), Len(s) = 1 PROVE s = <<s[1]>> /\ s[1] \in M
          BY <5>1
        <5> QED BY <1>t, <3>1, <5>1, Zenon
      <4> HIDE DEF m
      <4>2. log \o <<m>> = Append(log, m)
        BY <1>t, <4>1
      <4> QED BY <4>1, <4>2
    <3>3. m.answers < nextId
      BY <3>1, <1>0 DEF LoopTypeOK
    <3> QED BY <2>1, <3>2, <3>3
  <2>3. m.answers \notin openRows \cup Outputs(log) \cup collected
    BY <2>1 DEF OutputsInv
  <2> HIDE DEF m
  <2>4. Once(log') /\ Outputs(log') \subseteq Outputs(log) \cup {m.answers}
    BY <1>0, <1>t, <2>2, <2>3, OutputsAppend
  <2>5. LoopOutputsOK'
    BY <1>t, <1>n, <2>1, <2>2, <2>4
  <2> QED BY <1>t, <2>1, <2>3, <2>4, <2>5 DEF OutputsInv
<1>11. ASSUME NEW id \in openRows, AnswerRefused(id)
       PROVE  OutputsInv'
  <2>1. UNCHANGED <<log, pc, nextId, batchVars, collected, mode, toWrite>> /\ openRows' = openRows \ {id} /\ mode = "idle"
    BY <1>11 DEF AnswerRefused, loopVars
  <2> QED BY <1>q, <1>t, <2>1 DEF OutputsInv
<1>12. CASE Crash
  <2>1. UNCHANGED <<log, nextId, collected, openRows>> /\ mode' = "down" /\ pc' = "idle"
    BY <1>12 DEF Crash, Quieten
  <2> QED BY <1>0, <1>t, <1>n, <2>1 DEF OutputsInv
<1>13. CASE Load
  <2>1. UNCHANGED <<log, pc, nextId, batchVars, collected, openRows>> /\ mode' = "boot"
    BY <1>13 DEF Load, loopVars
  <2> QED BY <1>q, <1>t, <2>1 DEF OutputsInv
<1>14. ASSUME NEW id \in openRows, ExpireRow(id)
       PROVE  OutputsInv'
  <2>1. UNCHANGED <<pc, nextId, batchVars, collected, mode>> /\ openRows' = openRows \ {id} /\ mode = "boot"
    BY <1>14 DEF ExpireRow, unchangedHistory
  <2>2. Once(log') /\ Outputs(log') \subseteq Outputs(log)
    <3>1. CASE id \in DanglingIds(history)
      <4>1. log' = Append(log, ToolMessage(OpenCall(id), "expired"))
        BY <1>14, <3>1 DEF ExpireRow
      <4>2. OpenCall(id) \in Call
        BY <3>1, OpenCallType
      <4>3. /\ ToolMessage(OpenCall(id), "expired") \in Message
            /\ ToolMessage(OpenCall(id), "expired").result # "output"
        BY <4>2, ToolMessageType DEF Results
      <4> QED BY <1>0, <1>t, <4>1, <4>3, OutputsAppend
    <3>2. CASE id \notin DanglingIds(history)
      BY <1>0, <1>14, <3>2 DEF ExpireRow
    <3> QED BY <3>1, <3>2
  <2>3. LoopOutputsOK'
    BY <1>z, <2>1, <2>2
  <2> QED BY <1>t, <2>1, <2>2, <2>3 DEF OutputsInv
<1>15. CASE Booted
  <2>1. UNCHANGED <<pc, nextId, batchVars, collected>> /\ openRows' \subseteq openRows /\ mode' = "idle"
    BY <1>15 DEF Booted, unchangedHistory
  <2>2. log' = log \/ log' = Front(log)
    BY <1>15 DEF Booted
  <2>3. Once(log') /\ Outputs(log') \subseteq Outputs(log)
    BY <1>0, <1>t, <2>2, OutputsFront
  <2>4. LoopOutputsOK'
    BY <1>z, <2>1, <2>3
  <2> QED BY <1>t, <2>1, <2>3, <2>4 DEF OutputsInv
<1>16. CASE UNCHANGED vars
  BY <1>q, <1>16 DEF vars, loopVars, sessionVars, OutputsInv
<1> QED BY <1>1, <1>2, <1>3, <1>4, <1>5, <1>6, <1>7, <1>8, <1>9, <1>10, <1>11, <1>12, <1>13, <1>14, <1>15,
           <1>16 DEF Next

(* However often a question is answered, in its turn or late, interrupted,   *)
(* undone or asked again after a crash, the log has one output for it.       *)
THEOREM OneOutput == Spec => []OutputOnce
<1>1. Spec => [](ConversationTypeInv /\ OutputsInv)
  BY ConversationInitTyped, ConversationTyped, OutputsInit, OutputsKeptOnce, PTL DEF Spec
<1>2. OutputsInv => OutputOnce
  BY DEF OutputsInv, LoopOutputsOK, Once, OutputOnce
<1> QED BY <1>1, <1>2, PTL

-----------------------------------------------------------------------------
(* Memory and log.                                                           *)
LEMMA AppendSet ==
  ASSUME NEW s \in Seq(Message), NEW m \in Message
  PROVE  ToSet(Append(s, m)) = ToSet(s) \cup {m}
<1>1. DOMAIN Append(s, m) = DOMAIN s \cup {Len(s) + 1}
  OBVIOUS
<1>2. Append(s, m)[Len(s) + 1] = m /\ \A i \in DOMAIN s : Append(s, m)[i] = s[i]
  OBVIOUS
<1> QED BY <1>1, <1>2 DEF ToSet

LEMMA TailSet ==
  ASSUME NEW s \in Seq(Message), s # <<>>
  PROVE  /\ ToSet(s) = {Head(s)} \cup ToSet(Tail(s))
         /\ Len(s) = 1 => ToSet(Tail(s)) = {}
<1>1. Len(s) \in Nat \ {0} /\ Head(s) = s[1]
  OBVIOUS
<1>2. DOMAIN Tail(s) = 1 .. Len(s) - 1 /\ \A i \in 1 .. Len(s) - 1 : Tail(s)[i] = s[i + 1]
  BY <1>1
<1>3. ASSUME NEW i \in DOMAIN s PROVE i = 1 \/ (i - 1 \in DOMAIN Tail(s) /\ Tail(s)[i - 1] = s[i])
  BY <1>1, <1>2
<1>4. ASSUME NEW i \in DOMAIN Tail(s) PROVE i + 1 \in DOMAIN s /\ Tail(s)[i] = s[i + 1]
  BY <1>1, <1>2
<1>5. 1 \in DOMAIN s
  BY <1>1
<1>6. ASSUME NEW x \in ToSet(s) PROVE x \in {Head(s)} \cup ToSet(Tail(s))
  BY <1>1, <1>3 DEF ToSet
<1>7. ASSUME NEW x \in ToSet(Tail(s)) PROVE x \in ToSet(s)
  BY <1>4 DEF ToSet
<1>8. Head(s) \in ToSet(s)
  BY <1>1, <1>5 DEF ToSet
<1>9. Len(s) = 1 => DOMAIN Tail(s) = {}
  BY <1>2
<1>10. DOMAIN Tail(s) = {} => ToSet(Tail(s)) = {}
  BY DEF ToSet
<1> QED BY <1>6, <1>7, <1>8, <1>9, <1>10

(* Everything but notices and summaries is known.                            *)
KeptIn(ms, known) == \A m \in ToSet(ms) : m.role # "system" => m \in known

LEMMA StepWrites ==
  ASSUME LoopTypeInv, LoopNext
  PROVE  \/ UNCHANGED <<log, messages>>
         \/ \E m \in Message : Append1(m)
         \/ log' = log /\ messages' \in Truncations(messages)
<1>1. \/ UNCHANGED <<log, messages>>
      \/ \E m : Append1(m)
      \/ log' = log /\ messages' \in Truncations(messages)
  <2>1. CASE Request
    BY <2>1 DEF Request
  <2>2. CASE StopAtTop \/ StreamCancelled \/ SerialCancelled \/ SerialMalformed \/ BatchStart \/ BatchJoined
    BY <2>2 DEF StopAtTop, StreamCancelled, SerialCancelled, SerialMalformed, BatchStart, BatchJoined
  <2>3. CASE CancelRest
    BY <2>3 DEF CancelRest
  <2>4. CASE Drain
    BY <2>4 DEF Drain
  <2>5. CASE CancelToken \/ StreamDone \/ StreamFails \/ \E n \in DOMAIN batch : ToolDone(n)
    BY <2>5 DEF CancelToken, StreamDone, StreamFails, ToolDone
  <2>6. CASE StreamEnd \/ SerialOutput
    BY <2>6 DEF StreamEnd, SerialOutput
  <2> QED BY <2>1, <2>2, <2>3, <2>4, <2>5, <2>6 DEF LoopNext, LoopStep, LoopInput
<1>2. ASSUME NEW m, Append1(m) PROVE m \in Message
  <2>1. log \in Seq(Message) /\ log' \in Seq(Message)
    BY LoopTyped DEF LoopTypeInv, LoopTypeOK
  <2>2. log' = Append(log, m)
    BY <1>2 DEF Append1
  <2>3. Len(log) + 1 \in DOMAIN log' /\ log'[Len(log) + 1] = m
    BY <2>1, <2>2
  <2> QED BY <2>1, <2>3
<1> QED BY <1>1, <1>2

LEMMA LoopKeeps ==
  ASSUME LoopTypeInv, LoopNext
  PROVE  /\ ToSet(log) \subseteq ToSet(log')
         /\ KeptIn(messages, ToSet(log)) => KeptIn(messages', ToSet(log'))
<1>0. log \in Seq(Message) /\ messages \in Seq(Message)
  BY DEF LoopTypeInv, LoopTypeOK
<1>1. ASSUME NEW m \in Message, Append1(m)
      PROVE  ToSet(log') = ToSet(log) \cup {m} /\ ToSet(messages') = ToSet(messages) \cup {m}
  <2>1. ToSet(Append(log, m)) = ToSet(log) \cup {m} /\ ToSet(Append(messages, m)) = ToSet(messages) \cup {m}
    BY <1>0, AppendSet
  <2> QED BY <1>1, <2>1 DEF Append1
<1>2. ASSUME messages' \in Truncations(messages)
      PROVE  ToSet(messages') \subseteq ToSet(messages) \cup {Notice}
  <2> DEFINE L == Len(messages)
             known == ToSet(messages) \cup {Notice}
  <2>1. /\ L > 2 /\ L \in Nat
        /\ \/ messages' = <<messages[1], Notice, messages[L - 1], messages[L]>>
           \/ messages' = <<messages[1], Notice, messages[L]>>
    BY <1>0, <1>2, TruncationsType
  <2>2. messages[1] \in known /\ messages[L - 1] \in known /\ messages[L] \in known /\ Notice \in known
    BY <1>0, <2>1 DEF ToSet
  <2> HIDE DEF known
  <2>3. \A i \in DOMAIN messages' : messages'[i] \in known
    BY <2>1, <2>2
  <2> QED BY <2>3 DEF ToSet, known
<1>3. Notice.role = "system"
  BY MessageTypes
<1> QED BY <1>1, <1>2, <1>3, StepWrites DEF KeptIn

(* A start-up leaves memory as the log is, unless it displaced a result,     *)
(* and every row that can be answered by the log can be answered from        *)
(* memory.                                                                   *)
MemoryInv ==
  /\ mode = "boot" => openRows \cap DanglingIds(log) \subseteq DanglingIds(history)
  /\ mode = "boot" /\ ~displaced => history = log
  /\ mode \in {"idle", "ready", "resuming", "turn"} /\ ~displaced => KeptIn(history, ToSet(log))
  /\ mode = "writing" /\ ~displaced => KeptIn(history, ToSet(log) \cup ToSet(toWrite))
  /\ mode = "resuming" /\ ~displaced => KeptIn(messages, ToSet(log) \cup ToSet(toWrite))
  /\ mode = "turn" /\ ~displaced => KeptIn(messages, ToSet(log))

LEMMA MemoryInit == Init => MemoryInv
BY DEF Init, Quiet, MemoryInv, KeptIn, ToSet

LEMMA MemoryStays ==
  ASSUME ConversationTypeInv, MemoryInv, [Next]_vars
  PROVE  MemoryInv'
<1>0. LoopTypeInv /\ DataOK /\ FlagsOK /\ UnderWayOK /\ LoopTypeOK
  BY ConversationTypeParts DEF LoopTypeInv
<1>t. log \in Seq(Message) /\ messages \in Seq(Message) /\ history \in Seq(Message) /\ toWrite \in Seq(Message)
  BY <1>0 DEF LoopTypeOK, DataOK
<1>1. CASE Submit
  <2> DEFINE rm == RepairMessages(history)
  <2>1. /\ ToSet(Repaired(history)) \subseteq ToSet(history) \cup ToSet(rm)
        /\ Repaired(history) \in Seq(Message) /\ rm \in Seq(Message)
    BY <1>t, RepairedMembers, RepairMessagesType
  <2>2. /\ history' = Append(Repaired(history), UserMessage) /\ toWrite' = Append(rm, UserMessage)
        /\ mode = "idle" /\ mode' = "writing" /\ UNCHANGED <<log, displaced>>
    BY <1>1 DEF Submit, loopVars
  <2> HIDE DEF rm
  <2>3. /\ ToSet(history') = ToSet(Repaired(history)) \cup {UserMessage}
        /\ ToSet(toWrite') = ToSet(rm) \cup {UserMessage}
    <3>1. /\ ToSet(Append(Repaired(history), UserMessage)) = ToSet(Repaired(history)) \cup {UserMessage}
          /\ ToSet(Append(rm, UserMessage)) = ToSet(rm) \cup {UserMessage}
      BY <2>1, MessageTypes, AppendSet
    <3> QED BY <2>2, <3>1
  <2>4. ~displaced' => KeptIn(history', ToSet(log') \cup ToSet(toWrite'))
    BY <2>1, <2>2, <2>3 DEF MemoryInv, KeptIn
  <2> QED BY <2>2, <2>4 DEF MemoryInv
<1>2. CASE WriteNext
  <2>1. /\ mode = "writing" /\ toWrite # <<>>
        /\ log' = Append(log, Head(toWrite)) /\ toWrite' = Tail(toWrite)
        /\ mode' = IF Len(toWrite) = 1 THEN "ready" ELSE "writing"
        /\ UNCHANGED <<history, displaced>>
    BY <1>2 DEF WriteNext
  <2>2. Head(toWrite) \in Message
    BY <1>t, <2>1
  <2>3. ToSet(log') \cup ToSet(toWrite') = ToSet(log) \cup ToSet(toWrite)
    <3>1. ToSet(Append(log, Head(toWrite))) = ToSet(log) \cup {Head(toWrite)}
      BY <1>t, <2>2, AppendSet
    <3>2. ToSet(toWrite) = {Head(toWrite)} \cup ToSet(Tail(toWrite))
      BY <1>t, <2>1, TailSet
    <3> QED BY <2>1, <3>1, <3>2
  <2>4. Len(toWrite) = 1 => ToSet(toWrite') = {}
    BY <1>t, <2>1, TailSet
  <2> QED BY <2>1, <2>3, <2>4 DEF MemoryInv, KeptIn
<1>3. CASE Compact
  <2>1. ToSet(history') \subseteq ToSet(history) \cup {Notice}
    BY <1>3, <1>t, CompactionMembers DEF Compact
  <2>2. mode = "ready" /\ mode' = "ready" /\ UNCHANGED <<log, displaced>>
    BY <1>3 DEF Compact, loopVars
  <2> QED BY <2>1, <2>2, MessageTypes DEF MemoryInv, KeptIn
<1>4. CASE Launch \/ NetworkRetry
  <2>1. mode \in {"ready", "turn"} /\ mode' = "turn" /\ messages' = history /\ UNCHANGED <<log, history, displaced>>
    BY <1>4 DEF Launch, StartTurn, NetworkRetry
  <2> QED BY <2>1 DEF MemoryInv
<1>5. CASE ProviderUnavailable
  <2>1. ToSet(history') \subseteq ToSet(history)
    BY <1>5, <1>t, FrontType DEF ProviderUnavailable
  <2>2. mode = "ready" /\ mode' = "idle" /\ UNCHANGED <<log, displaced>>
    BY <1>5 DEF ProviderUnavailable, loopVars
  <2> QED BY <2>1, <2>2 DEF MemoryInv, KeptIn
<1>6. CASE TurnStep
  <2>1. /\ ToSet(log) \subseteq ToSet(log')
        /\ KeptIn(messages, ToSet(log)) => KeptIn(messages', ToSet(log'))
    BY <1>0, <1>6, LoopKeeps DEF TurnStep
  <2>2. mode = "turn" /\ mode' = "turn" /\ UNCHANGED <<history, displaced>>
    BY <1>6 DEF TurnStep
  <2>3. KeptIn(history, ToSet(log)) => KeptIn(history', ToSet(log'))
    BY <2>1, <2>2 DEF KeptIn
  <2> QED BY <2>1, <2>2, <2>3 DEF MemoryInv
<1>7. CASE \E n \in DOMAIN batch : AskQuestion(n)
  <2>1. mode = "turn" /\ UNCHANGED <<mode, history, messages, log, displaced, toWrite>>
    BY <1>7 DEF AskQuestion, loopVars
  <2> QED BY <2>1 DEF MemoryInv
<1>8. CASE CloseRows
  <2>1. UNCHANGED <<mode, history, messages, log, displaced, toWrite>> /\ openRows' = {}
    BY <1>8 DEF CloseRows, loopVars
  <2> QED BY <2>1 DEF MemoryInv
<1>9. CASE TurnOk \/ TurnError
  <2>1. mode = "turn" /\ mode' = "idle" /\ history' \in {history, messages} /\ UNCHANGED <<log, displaced>>
    BY <1>9 DEF TurnOk, TurnError, EndTurn
  <2> QED BY <2>1 DEF MemoryInv
<1>10. ASSUME NEW id \in openRows, LateAnswer(id)
       PROVE  MemoryInv'
  <2> DEFINE t == ToolMessage(OpenCall(id), "output")
  <2>1. OpenCall(id) \in ToSet(DanglingCalls(history)) /\ OpenCall(id) \in Call
    BY <1>10, OpenCallType DEF LateAnswer
  <2>2. t \in Message
    BY <2>1, ToolMessageType DEF Results
  <2>3. ToSet(messages') \subseteq ToSet(history) \cup {t}
    BY <1>10, <1>t, <2>1, LateResultMembers DEF LateAnswer, Results
  <2>4. toWrite' = <<t>> /\ mode = "idle" /\ mode' = "resuming" /\ UNCHANGED <<history, log, displaced>>
    BY <1>10 DEF LateAnswer
  <2> HIDE DEF t
  <2>5. ToSet(toWrite') = {t}
    BY <2>4 DEF ToSet
  <2> QED BY <2>3, <2>4, <2>5 DEF MemoryInv, KeptIn
<1>11. CASE LateAnswerUndone
  <2>1. mode = "resuming" /\ mode' = "idle" /\ UNCHANGED <<history, log, displaced>>
    BY <1>11 DEF LateAnswerUndone
  <2> QED BY <2>1 DEF MemoryInv
<1>12. CASE ResumeTurn
  <2>1. /\ mode = "resuming" /\ mode' = "turn" /\ log' = log \o toWrite
        /\ messages' = messages /\ UNCHANGED <<history, displaced>>
    BY <1>12 DEF ResumeTurn, StartTurn
  <2>2. ToSet(log') = ToSet(log) \cup ToSet(toWrite)
    <3>1. toWrite = <<toWrite[1]>> /\ toWrite[1] \in Message
      <4>1. ASSUME NEW M, NEW s \in Seq(M), Len(s) = 1 PROVE s = <<s[1]>> /\ s[1] \in M
        BY <4>1
      <4>2. Len(toWrite) = 1
        BY <1>0, <2>1 DEF UnderWayOK
      <4> QED BY <1>t, <4>1, <4>2, Zenon
    <3>2. \A m \in Message : log \o <<m>> = Append(log, m)
      BY <1>t
    <3>3. log' = Append(log, toWrite[1])
      BY <2>1, <3>1, <3>2, Zenon
    <3>4. ToSet(toWrite) = {toWrite[1]}
      BY <3>1 DEF ToSet
    <3> QED BY <1>t, <3>1, <3>3, <3>4, AppendSet
  <2> QED BY <2>1, <2>2 DEF MemoryInv, KeptIn
<1>13. CASE \E id \in openRows : AnswerRefused(id)
  <2>1. mode = "idle" /\ UNCHANGED <<mode, history, log, displaced>>
    BY <1>13 DEF AnswerRefused, loopVars
  <2> QED BY <2>1 DEF MemoryInv
<1>14. CASE Crash
  <2>1. mode' = "down"
    BY <1>14 DEF Crash
  <2> QED BY <2>1 DEF MemoryInv
<1>15. CASE Load
  <2>1. mode' = "boot" /\ history' = log /\ log' = log
    BY <1>15 DEF Load, loopVars
  <2> QED BY <2>1 DEF MemoryInv
<1>16. ASSUME NEW id \in openRows, ExpireRow(id)
       PROVE  MemoryInv'
  <2>1. mode = "boot" /\ mode' = "boot" /\ openRows' = openRows \ {id}
    BY <1>16 DEF ExpireRow
  <2>2. CASE id \in DanglingIds(history)
    <3> DEFINE t == ToolMessage(OpenCall(id), "expired")
    <3>1. /\ OpenCall(id) \in ToSet(DanglingCalls(history))
          /\ OpenCall(id) \in Call /\ OpenCall(id).id = id
      BY <2>2, OpenCallType
    <3>2. /\ history' = WithLateResult(history, OpenCall(id), "expired")
          /\ log' = Append(log, t)
          /\ displaced' = (history' # log')
      BY <1>16, <2>2, Zenon DEF ExpireRow
    <3>3. DanglingIds(history) \ {id} \subseteq DanglingIds(history')
      BY <1>t, <3>1, <3>2, LateResultKeepsOpen DEF Results
    <3>4. t \in Message /\ t.calls = <<>>
      BY <3>1, ToolMessageType DEF Results
    <3> HIDE DEF t
    <3>5. DanglingIds(log') \subseteq DanglingIds(log)
      BY <1>t, <3>2, <3>4, AppendedResultOpensNothing
    <3>6. openRows' \cap DanglingIds(log') \subseteq DanglingIds(history')
      BY <2>1, <3>3, <3>5 DEF MemoryInv
    <3> QED BY <2>1, <3>2, <3>6 DEF MemoryInv
  <2>3. CASE id \notin DanglingIds(history)
    <3>1. UNCHANGED <<history, log, displaced>>
      BY <1>16, <2>3, Zenon DEF ExpireRow
    <3> QED BY <2>1, <3>1 DEF MemoryInv
  <2> QED BY <2>2, <2>3
<1>17. CASE Booted
  <2>1. /\ mode = "boot" /\ mode' = "idle" /\ UNCHANGED displaced
        /\ history = log => history' = log'
    BY <1>17 DEF Booted
  <2>2. ~displaced' => history' = log'
    BY <2>1 DEF MemoryInv
  <2> QED BY <2>1, <2>2 DEF MemoryInv, KeptIn
<1>18. CASE UNCHANGED vars
  BY <1>18 DEF vars, loopVars, sessionVars, MemoryInv
<1> QED BY <1>1, <1>2, <1>3, <1>4, <1>5, <1>6, <1>7, <1>8, <1>9, <1>10, <1>11, <1>12, <1>13, <1>14, <1>15,
           <1>16, <1>17, <1>18 DEF Next

LEMMA MemoryInvariance == Spec => [](ConversationTypeInv /\ MemoryInv)
BY ConversationInitTyped, ConversationTyped, MemoryInit, MemoryStays, PTL DEF Spec

(* Whatever turns failed, were retried, cancelled, resumed or lost to a      *)
(* crash, a crash now would not make the assistant forget a call or a        *)
(* result.                                                                   *)
THEOREM Durable == Spec => []HistoryIsDurable
<1>1. MemoryInv => HistoryIsDurable
  BY DEF MemoryInv, HistoryIsDurable, KeptIn, ToSet
<1> QED BY <1>1, MemoryInvariance, PTL

(* Of the steps, only the end of a start-up goes from boot to idle.          *)
LEMMA OnlyBootedBoots ==
  ASSUME [Next]_vars, mode = "boot", mode' = "idle"
  PROVE  Booted
BY DEF Next, Submit, WriteNext, Compact, Launch, StartTurn, ProviderUnavailable, TurnStep, CloseRows, TurnOk,
       TurnError, NetworkRetry, AskQuestion, LateAnswer, AnswerRefused, ExpireRow, LateAnswerUndone, ResumeTurn,
       Crash, Load, vars, sessionVars

(* No start-up takes a call from memory that a pending question could have   *)
(* answered.                                                                 *)
THEOREM QuestionsStayOpen == Spec => QuestionsSurvive
<1>1. ASSUME ConversationTypeInv, MemoryInv, [Next]_vars, mode = "boot", mode' = "idle"
      PROVE  openRows' \cap DanglingIds(log) \subseteq DanglingIds(history')
  <2>1. Booted
    BY <1>1, OnlyBootedBoots
  <2>2. openRows' \subseteq openRows /\ (history' = history \/ openRows' \cap DanglingIds(history) = {})
    BY <2>1 DEF Booted
  <2> QED BY <1>1, <2>2 DEF MemoryInv
<1>2. ConversationTypeInv /\ MemoryInv /\ [Next]_vars =>
        [mode = "boot" /\ mode' = "idle" =>
          openRows' \cap DanglingIds(log) \subseteq DanglingIds(history')]_<<mode, history, openRows>>
  BY <1>1
<1> QED BY <1>2, MemoryInvariance, PTL DEF Spec, QuestionsSurvive

(* What a start-up drops, it drops from memory and log alike.                *)
THEOREM DroppedAlike == Spec => RestoredAlike
<1>1. ASSUME ConversationTypeInv, MemoryInv, [Next]_vars, mode = "boot", mode' = "idle", ~displaced
      PROVE  \/ history' = history /\ log' = log
             \/ history' = Front(history) /\ log' = Front(log) /\ Last(history) = Last(log)
  <2>1. Booted
    BY <1>1, OnlyBootedBoots
  <2>2. history = log
    BY <1>1 DEF MemoryInv
  <2> QED BY <2>1, <2>2 DEF Booted
<1>2. ConversationTypeInv /\ MemoryInv /\ [Next]_vars =>
        [mode = "boot" /\ mode' = "idle" /\ ~displaced =>
          \/ history' = history /\ log' = log
          \/ history' = Front(history) /\ log' = Front(log) /\ Last(history) = Last(log)]_<<mode, history, log>>
  BY <1>1
<1> QED BY <1>2, MemoryInvariance, PTL DEF Spec, RestoredAlike
-----------------------------------------------------------------------------
(* Requests.  Where a result is grounded: message i declares the call that   *)
(* k answers, and between them are results of other calls only.              *)

GroundedBy(ms, i, k) ==
  /\ \A l \in i + 1 .. k : ms[l].role = "tool"
  /\ \E n \in DOMAIN ms[i].calls : ms[i].calls[n].id = ms[k].answers
  /\ \A l \in i + 1 .. k - 1 : ms[l].answers # ms[k].answers

LEMMA RunReaches ==
  ASSUME NEW ms, Len(ms) \in Nat, NEW i \in 1 .. Len(ms), NEW k \in i .. Len(ms)
  PROVE  k <= ResultRunEnd(ms, i) <=> \A l \in i + 1 .. k : ms[l].role = "tool"
<1> DEFINE e == ResultRunEnd(ms, i)
<1>1. RunEndsAt(ms, i, e)
  BY RunEnd
<1> HIDE DEF e
<1>2. e \in i .. Len(ms)
  BY <1>1 DEF RunEndsAt
<1>3. ASSUME k <= e, NEW l \in i + 1 .. k PROVE ms[l].role = "tool"
  <2>1. l \in i + 1 .. e
    BY <1>2, <1>3
  <2> QED BY <2>1, <1>1 DEF RunEndsAt
<1>4. ASSUME k > e, \A l \in i + 1 .. k : ms[l].role = "tool" PROVE FALSE
  <2>1. e + 1 \in i + 1 .. k /\ e # Len(ms)
    BY <1>2, <1>4
  <2> QED BY <2>1, <1>1, <1>4 DEF RunEndsAt
<1>5. k <= e \/ k > e
  BY <1>2
<1> QED BY <1>3, <1>4, <1>5 DEF e

LEMMA GroundedIs ==
  ASSUME NEW ms, Len(ms) \in Nat, NEW k \in 1 .. Len(ms)
  PROVE  Grounded(ms, k) <=> \E i \in 1 .. k - 1 : GroundedBy(ms, i, k)
<1>1. ASSUME NEW i \in 1 .. k - 1
      PROVE  k <= ResultRunEnd(ms, i) <=> \A l \in i + 1 .. k : ms[l].role = "tool"
  <2>1. i \in 1 .. Len(ms) /\ k \in i .. Len(ms)
    OBVIOUS
  <2> QED BY <2>1, RunReaches
<1> QED BY <1>1 DEF Grounded, GroundedBy

(* A result stays grounded when it is moved together with its call and       *)
(* what is between them.                                                     *)
LEMMA GroundedMoves ==
  ASSUME NEW ms, Len(ms) \in Nat, NEW to, Len(to) \in Nat,
         NEW i \in 1 .. Len(ms), NEW k \in i + 1 .. Len(ms), GroundedBy(ms, i, k),
         NEW d \in Int, i + d >= 1, k + d <= Len(to),
         \A l \in i .. k : to[l + d] = ms[l]
  PROVE  Grounded(to, k + d)
<1>1. k + d \in 1 .. Len(to) /\ i + d \in 1 .. k + d - 1 /\ k \in i .. k /\ i \in i .. k
  OBVIOUS
<1>2. to[k + d] = ms[k] /\ to[i + d] = ms[i]
  BY <1>1
<1>3. ASSUME NEW l \in i + d + 1 .. k + d PROVE l - d \in i + 1 .. k /\ l - d \in i .. k /\ to[l] = ms[l - d]
  <2>1. l - d \in i + 1 .. k /\ l - d \in i .. k /\ (l - d) + d = l
    OBVIOUS
  <2>2. to[(l - d) + d] = ms[l - d]
    BY <2>1
  <2> QED BY <2>1, <2>2
<1>4. \A l \in i + d + 1 .. k + d : to[l].role = "tool"
  BY <1>3 DEF GroundedBy
<1>5. ASSUME NEW l \in i + d + 1 .. k + d - 1 PROVE to[l].answers # to[k + d].answers
  <2>1. l \in i + d + 1 .. k + d /\ l - d \in i + 1 .. k - 1
    OBVIOUS
  <2> QED BY <2>1, <1>2, <1>3 DEF GroundedBy
<1>6. GroundedBy(to, i + d, k + d)
  BY <1>2, <1>4, <1>5 DEF GroundedBy
<1> QED BY <1>1, <1>6, GroundedIs

(* Only results answer, no call is declared twice, and ids come in order.    *)
Apart(ms, n) ==
  /\ \A i \in DOMAIN ms : ms[i].calls # <<>> => ms[i].role # "tool"
  /\ \A i, j \in DOMAIN ms : \A a \in DOMAIN ms[i].calls : \A c \in DOMAIN ms[j].calls :
       ms[i].calls[a].id = ms[j].calls[c].id => i = j /\ a = c
  /\ \A i \in DOMAIN ms : \A a \in DOMAIN ms[i].calls : ms[i].calls[a].id < n
Opens(ms) == ms # <<>> => ms[1].calls = <<>>

(* Calls stay apart when messages move and others without calls join them.   *)
LEMMA ApartMoves ==
  ASSUME NEW ms \in Seq(Message), NEW to \in Seq(Message), NEW at, NEW n \in Nat, Apart(ms, n),
         \A p \in DOMAIN to : to[p].calls = <<>> \/ \E j \in DOMAIN ms : p = at[j] /\ to[p] = ms[j]
  PROVE  Apart(to, n)
<1>1. ASSUME NEW p \in DOMAIN to, NEW a \in DOMAIN to[p].calls
      PROVE  \E j \in DOMAIN ms : p = at[j] /\ to[p] = ms[j]
  <2>1. to[p].calls # <<>>
    BY <1>1
  <2> QED BY <2>1
<1>2. ASSUME NEW p \in DOMAIN to, to[p].calls # <<>> PROVE to[p].role # "tool"
  <2>1. PICK j \in DOMAIN ms : to[p] = ms[j]
    BY <1>2
  <2> QED BY <2>1, <1>2 DEF Apart
<1>3. ASSUME NEW p \in DOMAIN to, NEW q \in DOMAIN to,
             NEW a \in DOMAIN to[p].calls, NEW c \in DOMAIN to[q].calls,
             to[p].calls[a].id = to[q].calls[c].id
      PROVE  p = q /\ a = c
  <2>1. PICK i \in DOMAIN ms : p = at[i] /\ to[p] = ms[i]
    BY <1>1
  <2>2. PICK j \in DOMAIN ms : q = at[j] /\ to[q] = ms[j]
    BY <1>1
  <2>3. a \in DOMAIN ms[i].calls /\ c \in DOMAIN ms[j].calls /\ ms[i].calls[a].id = ms[j].calls[c].id
    BY <2>1, <2>2, <1>3
  <2>4. i = j /\ a = c
    BY <2>3 DEF Apart
  <2> QED BY <2>1, <2>2, <2>4
<1>4. ASSUME NEW p \in DOMAIN to, NEW a \in DOMAIN to[p].calls PROVE to[p].calls[a].id < n
  <2>1. PICK j \in DOMAIN ms : to[p] = ms[j]
    BY <1>1, <1>4
  <2> QED BY <2>1, <1>4 DEF Apart
<1> QED BY <1>2, <1>3, <1>4 DEF Apart

LEMMA ApartLater ==
  ASSUME NEW ms \in Seq(Message), NEW n \in Nat, NEW m \in Nat, n <= m, Apart(ms, n)
  PROVE  Apart(ms, m)
<1>1. ASSUME NEW i \in DOMAIN ms, NEW a \in DOMAIN ms[i].calls PROVE ms[i].calls[a].id < m
  <2>1. ms[i].calls[a].id \in Nat
    <3>1. ms[i].calls \in Seq(Call)
      <4>1. ms[i] \in Message
        OBVIOUS
      <4> QED BY <4>1 DEF Message
    <3>2. ms[i].calls[a] \in Call
      BY <3>1
    <3> QED BY <3>2 DEF Call
  <2>2. ms[i].calls[a].id < n
    BY DEF Apart
  <2> QED BY <2>1, <2>2
<1> QED BY <1>1 DEF Apart

LEMMA ApartAppend ==
  ASSUME NEW ms \in Seq(Message), NEW m \in Message, m.calls = <<>>
  PROVE  /\ \A n \in Nat : Apart(ms, n) => Apart(Append(ms, m), n)
         /\ Opens(ms) => Opens(Append(ms, m))
         /\ Append(ms, m) # <<>>
<1> DEFINE app == Append(ms, m)
<1>1. /\ app \in Seq(Message) /\ Len(ms) \in Nat
      /\ DOMAIN ms = 1 .. Len(ms) /\ DOMAIN app = 1 .. Len(ms) + 1
      /\ \A k \in 1 .. Len(ms) : app[k] = ms[k]
      /\ app[Len(ms) + 1] = m
  BY AppendFacts
<1> HIDE DEF app
<1>2. ASSUME NEW n \in Nat, Apart(ms, n) PROVE Apart(app, n)
  <2> DEFINE at == [j \in DOMAIN ms |-> j]
  <2>1. ASSUME NEW p \in DOMAIN app
        PROVE  app[p].calls = <<>> \/ \E j \in DOMAIN ms : p = at[j] /\ app[p] = ms[j]
    <3>1. p \in 1 .. Len(ms) \/ p = Len(ms) + 1
      BY <1>1
    <3> QED BY <3>1, <1>1
  <2>2. app \in Seq(Message)
    BY <1>1
  <2> HIDE DEF at
  <2> QED BY <2>1, <2>2, <1>2, ApartMoves
<1>3. app # <<>> /\ (ms # <<>> => app[1] = ms[1]) /\ (ms = <<>> => app[1] = m)
  <2>1. ms # <<>> => 1 \in 1 .. Len(ms)
    BY <1>1
  <2>2. ms = <<>> => Len(ms) = 0
    OBVIOUS
  <2>3. app # <<>>
    BY <1>1
  <2> QED BY <2>1, <2>2, <2>3, <1>1
<1>4. Opens(ms) => Opens(app)
  BY <1>3 DEF Opens
<1> QED BY <1>2, <1>3, <1>4 DEF app

(* A message that declares a batch of calls, with the next ids.              *)
LEMMA ApartOpens ==
  ASSUME NEW ms \in Seq(Message), NEW cs \in Seq(Call), NEW n \in Nat, Apart(ms, n),
         \A k \in 1 .. Len(cs) : cs[k].id = n + k - 1
  PROVE  Apart(Append(ms, AssistantCalls(cs)), n + Len(cs))
<1> DEFINE m == AssistantCalls(cs)
           app == Append(ms, m)
           L == Len(ms) + 1
<1>0. m \in Message /\ m.calls = cs /\ m.role # "tool" /\ Len(cs) \in Nat /\ DOMAIN cs = 1 .. Len(cs)
  BY CallsMessage
<1>1. /\ app \in Seq(Message) /\ Len(ms) \in Nat
      /\ DOMAIN ms = 1 .. Len(ms) /\ DOMAIN app = 1 .. L
      /\ \A k \in 1 .. Len(ms) : app[k] = ms[k]
      /\ app[L] = m
  BY <1>0, AppendFacts
<1> HIDE DEF m, app
<1>2. Apart(ms, n + Len(cs))
  BY <1>0, ApartLater
<1>3. \A i \in 1 .. L : i \in 1 .. Len(ms) \/ i = L
  BY <1>1
<1>4. ASSUME NEW i \in 1 .. Len(ms), NEW a \in DOMAIN ms[i].calls, NEW c \in 1 .. Len(cs)
      PROVE  ms[i].calls[a].id # cs[c].id
  <2>1. ms[i].calls[a].id < n
    BY <1>1 DEF Apart
  <2>2. ms[i].calls[a].id \in Nat
    <3>1. ms[i].calls \in Seq(Call)
      <4>1. ms[i] \in Message
        OBVIOUS
      <4> QED BY <4>1 DEF Message
    <3>2. ms[i].calls[a] \in Call
      BY <3>1
    <3> QED BY <3>2 DEF Call
  <2>3. cs[c].id = n + c - 1 /\ c >= 1
    OBVIOUS
  <2> QED BY <2>1, <2>2, <2>3
<1>5. ASSUME NEW i \in 1 .. L, NEW j \in 1 .. L,
             NEW a \in DOMAIN app[i].calls, NEW c \in DOMAIN app[j].calls,
             app[i].calls[a].id = app[j].calls[c].id
      PROVE  i = j /\ a = c
  <2>1. CASE i = L /\ j = L
    <3>1. a \in 1 .. Len(cs) /\ c \in 1 .. Len(cs) /\ cs[a].id = cs[c].id
      BY <2>1, <1>0, <1>1, <1>5
    <3>2. \A u, v \in 1 .. Len(cs) : cs[u].id = cs[v].id => u = v
      <4>1. \A u, v \in 1 .. Len(cs) : n + u - 1 = n + v - 1 => u = v
        OBVIOUS
      <4>2. \A u \in 1 .. Len(cs) : cs[u].id = n + u - 1
        OBVIOUS
      <4> QED BY <4>1, <4>2
    <3>3. a = c
      BY <3>1, <3>2, Zenon
    <3> QED BY <2>1, <3>3
  <2>2. CASE i = L /\ j \in 1 .. Len(ms)
    BY <2>2, <1>0, <1>1, <1>4, <1>5
  <2>3. CASE i \in 1 .. Len(ms) /\ j = L
    BY <2>3, <1>0, <1>1, <1>4, <1>5
  <2>4. CASE i \in 1 .. Len(ms) /\ j \in 1 .. Len(ms)
    <3>1. app[i] = ms[i] /\ app[j] = ms[j] /\ i \in DOMAIN ms /\ j \in DOMAIN ms
      BY <2>4, <1>1
    <3>2. a \in DOMAIN ms[i].calls /\ c \in DOMAIN ms[j].calls /\ ms[i].calls[a].id = ms[j].calls[c].id
      BY <3>1, <1>5, Zenon
    <3> QED BY <3>1, <3>2 DEF Apart
  <2> QED BY <2>1, <2>2, <2>3, <2>4, <1>3
<1>6. ASSUME NEW i \in 1 .. L, NEW a \in DOMAIN app[i].calls PROVE app[i].calls[a].id < n + Len(cs)
  <2>1. CASE i = L
    <3>1. a \in 1 .. Len(cs) /\ app[i].calls[a].id = cs[a].id
      BY <2>1, <1>0, <1>1, <1>6
    <3>2. cs[a].id = n + a - 1
      BY <3>1
    <3> QED BY <3>1, <3>2
  <2>2. CASE i \in 1 .. Len(ms)
    BY <2>2, <1>1, <1>2, <1>6 DEF Apart
  <2> QED BY <2>1, <2>2, <1>3
<1>7. ASSUME NEW i \in 1 .. L, app[i].calls # <<>> PROVE app[i].role # "tool"
  <2>1. CASE i = L
    BY <2>1, <1>0, <1>1
  <2>2. CASE i \in 1 .. Len(ms)
    BY <2>2, <1>1, <1>7 DEF Apart
  <2> QED BY <2>1, <2>2, <1>3
<1>8. Apart(app, n + Len(cs))
  BY <1>1, <1>5, <1>6, <1>7 DEF Apart
<1> QED BY <1>8 DEF m, app

(* The start of a conversation is as well grounded as the whole.             *)
LEMMA FrontServes ==
  ASSUME NEW ms \in Seq(Message), ms # <<>>
  PROVE  /\ \A n \in Nat : Apart(ms, n) => Apart(Front(ms), n)
         /\ Opens(ms) => Opens(Front(ms))
         /\ AllGrounded(ms) => AllGrounded(Front(ms))
<1> DEFINE to == Front(ms)
<1>1. /\ to \in Seq(Message) /\ Len(to) = Len(ms) - 1 /\ Len(ms) \in Nat /\ Len(to) \in Nat
      /\ DOMAIN to = 1 .. Len(ms) - 1 /\ DOMAIN ms = 1 .. Len(ms)
      /\ \A k \in 1 .. Len(ms) - 1 : to[k] = ms[k]
  <2>1. /\ to \in Seq(Message) /\ Len(to) = Len(ms) - 1
        /\ \A k \in 1 .. Len(ms) - 1 : to[k] = ms[k]
    BY FrontType
  <2> HIDE DEF to
  <2> QED BY <2>1
<1> HIDE DEF to
<1>2. ASSUME NEW n \in Nat, Apart(ms, n) PROVE Apart(to, n)
  <2> DEFINE at == [j \in DOMAIN ms |-> j]
  <2>1. ASSUME NEW p \in DOMAIN to
        PROVE  to[p].calls = <<>> \/ \E j \in DOMAIN ms : p = at[j] /\ to[p] = ms[j]
    BY <1>1
  <2>2. to \in Seq(Message)
    BY <1>1
  <2> HIDE DEF at
  <2> QED BY <2>1, <2>2, <1>2, ApartMoves
<1>3. Opens(ms) => Opens(to)
  <2>1. to # <<>> => 1 \in 1 .. Len(ms) - 1
    BY <1>1
  <2> QED BY <2>1, <1>1 DEF Opens
<1>4. ASSUME AllGrounded(ms), NEW k \in 1 .. Len(ms) - 1, to[k].role = "tool" PROVE Grounded(to, k)
  <2>1. k \in 1 .. Len(ms) /\ ms[k].role = "tool" /\ k + 0 = k
    BY <1>1, <1>4
  <2>2. Grounded(ms, k)
    BY <2>1, <1>1, <1>4 DEF AllGrounded
  <2>3. PICK i \in 1 .. k - 1 : GroundedBy(ms, i, k)
    BY <2>1, <2>2, <1>1, GroundedIs
  <2>4. i \in 1 .. Len(ms) /\ k \in i + 1 .. Len(ms) /\ i + 0 >= 1 /\ k + 0 <= Len(to) /\ 0 \in Int
    BY <2>1, <1>1
  <2>5. \A l \in i .. k : to[l + 0] = ms[l]
    BY <2>1, <1>1
  <2>6. Grounded(to, k + 0)
    BY <2>3, <2>4, <2>5, <1>1, GroundedMoves
  <2> QED BY <2>1, <2>6
<1> QED BY <1>1, <1>2, <1>3, <1>4 DEF to, AllGrounded

(* A late result is grounded where it is put, and nothing else is moved      *)
(* from its call.                                                            *)
LEMMA LateResultServes ==
  ASSUME NEW ms \in Seq(Message), NEW call \in ToSet(DanglingCalls(ms)), NEW result \in Results,
         NEW n \in Nat, Apart(ms, n), AllGrounded(ms), Opens(ms)
  PROVE  /\ Apart(WithLateResult(ms, call, result), n)
         /\ AllGrounded(WithLateResult(ms, call, result))
         /\ Opens(WithLateResult(ms, call, result))
         /\ WithLateResult(ms, call, result) # <<>>
<1> DEFINE to == WithLateResult(ms, call, result)
           t == ToolMessage(call, result)
<1>1. PICK e \in 1 .. Len(ms) :
        /\ PutBehind(ms, e, t, to)
        /\ e = Len(ms) \/ ms[e + 1].role # "tool"
        /\ \E i \in DOMAIN ms : call \in ToSet(ms[i].calls) /\ e = ResultRunEnd(ms, i)
  BY LateResultShape
<1>2. t \in Message /\ t.calls = <<>> /\ t.role = "tool" /\ t.answers = call.id
  <2>1. call \in Call
    BY DanglingMembers DEF ToSet
  <2> QED BY <2>1, ToolMessageType
<1>3. /\ to \in Seq(Message) /\ Len(to) = Len(ms) + 1 /\ Len(ms) \in Nat /\ Len(to) \in Nat
      /\ DOMAIN to = 1 .. Len(ms) + 1 /\ DOMAIN ms = 1 .. Len(ms)
      /\ \A k \in 1 .. e : to[k] = ms[k]
      /\ to[e + 1] = t
      /\ \A k \in e + 1 .. Len(ms) : to[k + 1] = ms[k]
  <2> HIDE DEF to, t
  <2> QED BY <1>1 DEF PutBehind
<1>4. PICK i \in 1 .. Len(ms) : call \in ToSet(ms[i].calls) /\ e = ResultRunEnd(ms, i)
  BY <1>1, <1>3
\* It is the message whose call is open.
<1>5. call.id \notin ResolvedIds(ms, i)
  <2>1. PICK j \in DOMAIN ms : \E c \in DOMAIN ms[j].calls :
               call = ms[j].calls[c] /\ call.id \notin ResolvedIds(ms, j)
    BY DanglingMembers
  <2>2. PICK a \in DOMAIN ms[i].calls : call = ms[i].calls[a]
    BY <1>4 DEF ToSet
  <2>3. i = j
    BY <2>1, <2>2, <1>3 DEF Apart
  <2> QED BY <2>1, <2>3
<1> HIDE DEF to, t
<1>6. e \in i .. Len(ms) /\ \A l \in i + 1 .. e : ms[l].role = "tool"
  <2>1. RunEndsAt(ms, i, e)
    BY <1>3, <1>4, RunEnd
  <2> QED BY <2>1 DEF RunEndsAt
<1>7. Apart(to, n)
  <2> DEFINE at == [j \in DOMAIN ms |-> IF j <= e THEN j ELSE j + 1]
  <2>1. ASSUME NEW p \in DOMAIN to
        PROVE  to[p].calls = <<>> \/ \E j \in DOMAIN ms : p = at[j] /\ to[p] = ms[j]
    <3>1. CASE p \in 1 .. e
      <4>1. p \in DOMAIN ms /\ p <= e /\ to[p] = ms[p]
        BY <3>1, <1>3
      <4> QED BY <4>1
    <3>2. CASE p = e + 1
      BY <3>2, <1>2, <1>3
    <3>3. CASE p \in e + 2 .. Len(ms) + 1
      <4>1. p - 1 \in e + 1 .. Len(ms) /\ (p - 1) + 1 = p /\ ~(p - 1 <= e)
        BY <3>3
      <4>2. to[p] = ms[p - 1] /\ p - 1 \in DOMAIN ms
        <5>1. to[(p - 1) + 1] = ms[p - 1]
          BY <4>1, <1>3
        <5>2. p - 1 \in 1 .. Len(ms)
          BY <4>1
        <5> QED BY <5>1, <5>2, <4>1, <1>3
      <4>3. at[p - 1] = p
        BY <4>1, <4>2
      <4> HIDE DEF at
      <4> QED BY <4>2, <4>3
    <3>4. p \in 1 .. e \/ p = e + 1 \/ p \in e + 2 .. Len(ms) + 1
      BY <1>3
    <3> QED BY <3>1, <3>2, <3>3, <3>4
  <2>2. to \in Seq(Message)
    BY <1>3
  <2> HIDE DEF at
  <2> QED BY <2>1, <2>2, ApartMoves
<1>8. to # <<>> /\ to[1] = ms[1] /\ ms # <<>>
  <2>1. 1 \in 1 .. e /\ Len(ms) # 0
    OBVIOUS
  <2> QED BY <2>1, <1>3
<1>9. ASSUME NEW p \in 1 .. Len(ms) + 1, to[p].role = "tool" PROVE Grounded(to, p)
  <2>1. CASE p \in 1 .. e
    <3>1. p \in 1 .. Len(ms) /\ ms[p].role = "tool" /\ p + 0 = p
      BY <2>1, <1>3, <1>9
    <3>2. PICK j \in 1 .. p - 1 : GroundedBy(ms, j, p)
      <4>1. Grounded(ms, p)
        BY <3>1, <1>3 DEF AllGrounded
      <4> QED BY <3>1, <4>1, <1>3, GroundedIs
    <3>3. j \in 1 .. Len(ms) /\ p \in j + 1 .. Len(ms) /\ j + 0 >= 1 /\ p + 0 <= Len(to) /\ 0 \in Int
      BY <3>1, <1>3
    <3>4. \A l \in j .. p : to[l + 0] = ms[l]
      BY <2>1, <1>3
    <3>5. Grounded(to, p + 0)
      BY <3>2, <3>3, <3>4, <1>3, GroundedMoves
    <3> QED BY <3>1, <3>5
  <2>2. CASE p = e + 1
    <3>1. i \in 1 .. p - 1 /\ to[i] = ms[i]
      BY <2>2, <1>3, <1>6, SMTT(30)
    <3>2. \A l \in i + 1 .. p : to[l].role = "tool"
      <4>1. \A l \in i + 1 .. p : l = p \/ (l \in 1 .. e /\ l \in i + 1 .. e)
        BY <2>2, <1>6
      <4> QED BY <4>1, <2>2, <1>2, <1>3, <1>6
    <3>3. \E a \in DOMAIN to[i].calls : to[i].calls[a].id = to[p].answers
      BY <3>1, <2>2, <1>2, <1>3, <1>4 DEF ToSet
    <3>4. \A l \in i + 1 .. p - 1 : to[l].answers # to[p].answers
      <4>1. \A l \in i + 1 .. p - 1 : l \in 1 .. e /\ l \in i + 1 .. e
        BY <2>2, <1>6
      <4>2. \A l \in i + 1 .. e : ms[l].answers # call.id
        BY <1>4, <1>5 DEF ResolvedIds
      <4> QED BY <4>1, <4>2, <2>2, <1>2, <1>3
    <3>5. GroundedBy(to, i, p)
      BY <3>2, <3>3, <3>4 DEF GroundedBy
    <3> QED BY <3>1, <3>5, <1>3, GroundedIs
  <2>3. CASE p \in e + 2 .. Len(ms) + 1
    <3>1. p - 1 \in e + 1 .. Len(ms) /\ (p - 1) + 1 = p /\ p - 1 \in 1 .. Len(ms)
      BY <2>3
    <3> DEFINE k == p - 1
    <3>2. to[p] = ms[k]
      <4>1. to[(p - 1) + 1] = ms[p - 1]
        BY <3>1, <1>3
      <4> QED BY <4>1, <3>1
    <3> HIDE DEF k
    <3>3. k \in e + 1 .. Len(ms) /\ k + 1 = p /\ k \in 1 .. Len(ms)
      BY <3>1 DEF k
    <3>4. PICK j \in 1 .. k - 1 : GroundedBy(ms, j, k)
      <4>1. ms[k].role = "tool"
        BY <3>2, <1>9
      <4>2. Grounded(ms, k)
        BY <3>3, <4>1, <1>3 DEF AllGrounded
      <4> QED BY <3>3, <4>2, <1>3, GroundedIs
    <3>5. j > e
      <4>1. ASSUME j <= e PROVE FALSE
        <5>1. e + 1 \in j + 1 .. k /\ e # Len(ms)
          BY <4>1, <3>3
        <5> QED BY <5>1, <3>4, <1>1 DEF GroundedBy
      <4> QED BY <4>1
    <3>6. j \in 1 .. Len(ms) /\ k \in j + 1 .. Len(ms) /\ j + 1 >= 1 /\ k + 1 <= Len(to) /\ 1 \in Int
      BY <3>3, <1>3
    <3>7. \A l \in j .. k : to[l + 1] = ms[l]
      <4>1. \A l \in j .. k : l \in e + 1 .. Len(ms)
        BY <3>3, <3>5
      <4> QED BY <4>1, <1>3
    <3>8. Grounded(to, k + 1)
      BY <3>4, <3>6, <3>7, <1>3, GroundedMoves
    <3> QED BY <3>3, <3>8
  <2>4. p \in 1 .. e \/ p = e + 1 \/ p \in e + 2 .. Len(ms) + 1
    BY <1>3
  <2> QED BY <2>1, <2>2, <2>3, <2>4
<1>10. AllGrounded(to)
  BY <1>3, <1>9 DEF AllGrounded
<1>11. Opens(to)
  BY <1>8 DEF Opens
<1> QED BY <1>7, <1>8, <1>10, <1>11 DEF to

-----------------------------------------------------------------------------
(* The repair: what is put behind message j, and where everything is then.   *)

ClosingAt(ms, j) == {i \in 1 .. j : ms[i].calls # <<>> /\ ResultRunEnd(ms, i) = j}
Closing(ms, i) == [n \in DOMAIN Missing(ms, i) |-> Synthetic(Missing(ms, i)[n])]
ClosedAt(ms, j) ==
  IF ClosingAt(ms, j) = {} THEN <<>> ELSE Closing(ms, CHOOSE i \in ClosingAt(ms, j) : TRUE)

LEMMA SyntheticShape ==
  ASSUME NEW call \in Call
  PROVE  /\ Synthetic(call) \in Message /\ Synthetic(call).role = "tool"
         /\ Synthetic(call).calls = <<>> /\ Synthetic(call).answers = call.id
<1>1. \A r \in {"superseded", "interrupted"} : r \in Results
  BY DEF Results
<1> QED BY <1>1, ToolMessageType DEF Synthetic

LEMMA ClosingType ==
  ASSUME NEW ms \in Seq(Message), NEW i \in 1 .. Len(ms)
  PROVE  /\ Closing(ms, i) \in Seq(Message) /\ Missing(ms, i) \in Seq(Call)
         /\ Len(Closing(ms, i)) = Len(Missing(ms, i))
         /\ \A y \in 1 .. Len(Missing(ms, i)) :
              /\ Closing(ms, i)[y].role = "tool" /\ Closing(ms, i)[y].calls = <<>>
              /\ Closing(ms, i)[y].answers = Missing(ms, i)[y].id
<1> DEFINE calls == Missing(ms, i)
<1>1. calls \in Seq(Call)
  <2>1. i \in DOMAIN ms
    OBVIOUS
  <2> QED BY <2>1, MissingMembers
<1>2. Closing(ms, i) = [n \in DOMAIN calls |-> Synthetic(calls[n])]
  BY DEF Closing
<1> HIDE DEF calls
<1>3. \A n \in DOMAIN calls :
        /\ Synthetic(calls[n]) \in Message /\ Synthetic(calls[n]).role = "tool"
        /\ Synthetic(calls[n]).calls = <<>> /\ Synthetic(calls[n]).answers = calls[n].id
  <2>1. \A n \in DOMAIN calls : calls[n] \in Call
    BY <1>1
  <2> QED BY <2>1, SyntheticShape
<1>4. Closing(ms, i) \in Seq(Message) /\ Len(Closing(ms, i)) = Len(calls)
  BY <1>1, <1>2, <1>3
<1>5. \A y \in 1 .. Len(calls) : y \in DOMAIN calls /\ Closing(ms, i)[y] = Synthetic(calls[y])
  BY <1>1, <1>2
<1> QED BY <1>1, <1>3, <1>4, <1>5 DEF calls

(* A call is missing once.                                                   *)
LEMMA MissingOnce ==
  ASSUME NEW ms \in Seq(Message), NEW i \in 1 .. Len(ms), NEW n \in Nat, Apart(ms, n),
         NEW x \in 1 .. Len(Missing(ms, i)), NEW y \in 1 .. Len(Missing(ms, i)),
         Missing(ms, i)[x].id = Missing(ms, i)[y].id
  PROVE  x = y
<1> DEFINE calls == ms[i].calls
           part(k) == IF calls[k].id \in ResolvedIds(ms, i) THEN <<>> ELSE <<calls[k]>>
           parts == [k \in DOMAIN calls |-> part(k)]
           flat == FlattenSeq(parts)
<1>1. calls \in Seq(Call)
  <2>1. ms[i] \in Message
    OBVIOUS
  <2> QED BY <2>1 DEF Message
<1>2. \A k \in DOMAIN calls : part(k) \in Seq(Call)
  BY <1>1
<1>3. parts \in Seq(Seq(Call)) /\ DOMAIN parts = DOMAIN calls /\ Len(parts) = Len(calls) /\ DOMAIN calls = 1 .. Len(calls)
  <2> HIDE DEF part, calls
  <2>2. DOMAIN calls = 1 .. Len(calls) /\ Len(calls) \in Nat
    BY <1>1
  <2>1. parts \in Seq(Seq(Call)) /\ DOMAIN parts = DOMAIN calls
    <3>1. DOMAIN parts = DOMAIN calls /\ parts \in [DOMAIN calls -> Seq(Call)]
      BY <1>2, Zenon
    <3>2. ASSUME NEW W, NEW l \in Nat, NEW f \in [1 .. l -> W] PROVE f \in Seq(W)
      OBVIOUS
    <3> QED BY <2>2, <3>1, <3>2, Zenon
  <2> HIDE DEF parts
  <2>3. ASSUME NEW W, NEW p \in Seq(W), DOMAIN p = 1 .. Len(calls) PROVE Len(p) = Len(calls)
    BY <2>2, <2>3
  <2>4. Len(parts) = Len(calls)
    BY <2>1, <2>2, <2>3, Zenon
  <2> QED BY <2>1, <2>2, <2>4
<1>4. Missing(ms, i) = flat
  BY DEF Missing
<1>5. \A k \in DOMAIN calls : \A z \in 1 .. Len(parts[k]) : z = 1 /\ parts[k][z] = calls[k]
  <2>1. ASSUME NEW k \in DOMAIN calls, NEW z \in 1 .. Len(parts[k]) PROVE z = 1 /\ parts[k][z] = calls[k]
    <3>1. parts[k] = part(k)
      OBVIOUS
    <3> HIDE DEF calls, parts
    <3>2. Len(<<>>) = 0 /\ Len(<<calls[k]>>) = 1 /\ <<calls[k]>>[1] = calls[k] /\ 1 .. 0 = {} /\ 1 .. 1 = {1}
      OBVIOUS
    <3> QED BY <3>1, <3>2
  <2> QED BY <2>1
<1> HIDE DEF parts, part
<1>6. PICK st : Laid(parts, flat, st)
  BY <1>3, FlattenLays
<1> HIDE DEF flat
<1>7. ASSUME NEW z \in 1 .. Len(flat)
      PROVE  \E k \in 1 .. Len(calls) : z = st[k] + 1 /\ flat[z] = calls[k]
  <2>1. PICK k \in 1 .. Len(parts) : \E w \in 1 .. Len(parts[k]) : z = st[k] + w
    BY <1>6 DEF Laid
  <2>2. PICK w \in 1 .. Len(parts[k]) : z = st[k] + w
    BY <2>1
  <2>3. flat[st[k] + w] = parts[k][w]
    BY <1>6 DEF Laid
  <2>4. k \in 1 .. Len(calls) /\ k \in DOMAIN calls
    BY <1>3
  <2>5. w = 1 /\ parts[k][w] = calls[k]
    BY <1>5, <2>4
  <2> QED BY <2>2, <2>3, <2>4, <2>5
<1>8. x \in 1 .. Len(flat) /\ y \in 1 .. Len(flat) /\ flat[x].id = flat[y].id
  BY <1>4
<1>9. PICK a \in 1 .. Len(calls) : x = st[a] + 1 /\ flat[x] = calls[a]
  BY <1>7, <1>8
<1>10. PICK c \in 1 .. Len(calls) : y = st[c] + 1 /\ flat[y] = calls[c]
  BY <1>7, <1>8
<1>11. i \in DOMAIN ms /\ a \in DOMAIN ms[i].calls /\ c \in DOMAIN ms[i].calls /\ ms[i].calls[a].id = ms[i].calls[c].id
  <2>1. i \in DOMAIN ms
    OBVIOUS
  <2> QED BY <2>1, <1>3, <1>8, <1>9, <1>10 DEF calls
<1>12. a = c
  BY <1>11 DEF Apart
<1> QED BY <1>9, <1>10, <1>12

LEMMA ClosedType ==
  ASSUME NEW ms \in Seq(Message), NEW j \in 1 .. Len(ms)
  PROVE  /\ ClosedAt(ms, j) \in Seq(Message)
         /\ \A y \in 1 .. Len(ClosedAt(ms, j)) :
              ClosedAt(ms, j)[y].role = "tool" /\ ClosedAt(ms, j)[y].calls = <<>>
<1>1. CASE ClosingAt(ms, j) = {}
  <2>1. ClosedAt(ms, j) = <<>> /\ Len(<<>>) = 0 /\ 1 .. 0 = {} /\ <<>> \in Seq(Message)
    BY <1>1 DEF ClosedAt
  <2> QED BY <2>1
<1>2. CASE ClosingAt(ms, j) # {}
  <2> DEFINE i == CHOOSE i \in ClosingAt(ms, j) : TRUE
  <2>1. i \in ClosingAt(ms, j)
    BY <1>2
  <2>2. ClosedAt(ms, j) = Closing(ms, i)
    BY <1>2 DEF ClosedAt
  <2> HIDE DEF i
  <2>3. i \in 1 .. Len(ms)
    BY <2>1 DEF ClosingAt
  <2> QED BY <2>2, <2>3, ClosingType
<1> QED BY <1>1, <1>2

(* A result that is put in answers an open call of a message whose results   *)
(* end there; nothing is put in before a result.                             *)
LEMMA ClosedAnswers ==
  ASSUME NEW ms \in Seq(Message), NEW j \in 1 .. Len(ms), NEW n \in Nat, Apart(ms, n)
  PROVE  /\ \A y \in 1 .. Len(ClosedAt(ms, j)) : \E i \in 1 .. j :
              /\ ResultRunEnd(ms, i) = j
              /\ \E c \in DOMAIN ms[i].calls : ms[i].calls[c].id = ClosedAt(ms, j)[y].answers
              /\ ClosedAt(ms, j)[y].answers \notin ResolvedIds(ms, i)
              /\ \A x \in 1 .. y - 1 : ClosedAt(ms, j)[x].answers # ClosedAt(ms, j)[y].answers
         /\ j < Len(ms) /\ ms[j + 1].role = "tool" => Len(ClosedAt(ms, j)) = 0
<1>1. CASE ClosingAt(ms, j) = {}
  <2>1. Len(ClosedAt(ms, j)) = 0 /\ 1 .. 0 = {}
    BY <1>1 DEF ClosedAt
  <2> QED BY <2>1
<1>2. CASE ClosingAt(ms, j) # {}
  <2> DEFINE i == CHOOSE i \in ClosingAt(ms, j) : TRUE
  <2>1. i \in ClosingAt(ms, j)
    BY <1>2
  <2>2. ClosedAt(ms, j) = Closing(ms, i)
    BY <1>2 DEF ClosedAt
  <2> HIDE DEF i
  <2>3. i \in 1 .. j /\ i \in 1 .. Len(ms) /\ ResultRunEnd(ms, i) = j /\ i \in DOMAIN ms
    BY <2>1 DEF ClosingAt
  <2>4. RunEndsAt(ms, i, j)
    BY <2>3, RunEnd
  <2>5. ~(j < Len(ms) /\ ms[j + 1].role = "tool")
    BY <2>4 DEF RunEndsAt
  <2>6. ASSUME NEW y \in 1 .. Len(ClosedAt(ms, j))
        PROVE  /\ \E c \in DOMAIN ms[i].calls : ms[i].calls[c].id = ClosedAt(ms, j)[y].answers
               /\ ClosedAt(ms, j)[y].answers \notin ResolvedIds(ms, i)
               /\ \A x \in 1 .. y - 1 : ClosedAt(ms, j)[x].answers # ClosedAt(ms, j)[y].answers
    <3>1. y \in 1 .. Len(Missing(ms, i)) /\ Missing(ms, i) \in Seq(Call)
      BY <2>2, <2>3, ClosingType
    <3>2. \A x \in 1 .. Len(Missing(ms, i)) : ClosedAt(ms, j)[x].answers = Missing(ms, i)[x].id
      BY <2>2, <2>3, ClosingType
    <3>3. Missing(ms, i)[y] \in OpenAt(ms, i)
      <4>1. ToSet(Missing(ms, i)) = OpenAt(ms, i)
        BY <2>3, MissingMembers
      <4>2. Missing(ms, i)[y] \in ToSet(Missing(ms, i))
        BY <3>1 DEF ToSet
      <4> QED BY <4>1, <4>2
    <3>4. PICK c \in DOMAIN ms[i].calls :
            ms[i].calls[c].id \notin ResolvedIds(ms, i) /\ Missing(ms, i)[y] = ms[i].calls[c]
      BY <3>3 DEF OpenAt
    <3>5. ASSUME NEW x \in 1 .. y - 1 PROVE Missing(ms, i)[x].id # Missing(ms, i)[y].id
      <4>1. x \in 1 .. Len(Missing(ms, i)) /\ x # y
        BY <3>1
      <4> QED BY <4>1, <3>1, <2>3, MissingOnce
    <3>6. \A x \in 1 .. y - 1 : x \in 1 .. Len(Missing(ms, i))
      BY <3>1
    <3> QED BY <3>1, <3>2, <3>4, <3>5, <3>6
  <2> QED BY <2>3, <2>5, <2>6
<1> QED BY <1>1, <1>2

(* Every open call gets its result.                                          *)
LEMMA ClosedAll ==
  ASSUME NEW ms \in Seq(Message), NEW i \in 1 .. Len(ms), NEW n \in Nat, Apart(ms, n),
         NEW c \in DOMAIN ms[i].calls, ms[i].calls[c].id \notin ResolvedIds(ms, i)
  PROVE  \E y \in 1 .. Len(ClosedAt(ms, ResultRunEnd(ms, i))) :
           ClosedAt(ms, ResultRunEnd(ms, i))[y].answers = ms[i].calls[c].id
<1> DEFINE j == ResultRunEnd(ms, i)
<1>1. RunEndsAt(ms, i, j)
  BY RunEnd
<1>2. ResultRunEnd(ms, i) = j
  OBVIOUS
<1> HIDE DEF j
<1>3. j \in i .. Len(ms) /\ j \in 1 .. Len(ms) /\ i \in 1 .. j /\ i \in DOMAIN ms
  BY <1>1 DEF RunEndsAt
<1>4. ms[i].calls # <<>> /\ i \in ClosingAt(ms, j)
  BY <1>2, <1>3 DEF ClosingAt
<1>5. ASSUME NEW k \in ClosingAt(ms, j) PROVE k = i
  <2>1. k \in 1 .. j /\ k \in DOMAIN ms /\ ms[k].calls # <<>> /\ ResultRunEnd(ms, k) = j /\ k \in 1 .. Len(ms)
    BY <1>3 DEF ClosingAt
  <2>2. ms[k].role # "tool" /\ ms[i].role # "tool"
    BY <2>1, <1>3, <1>4 DEF Apart
  <2>3. RunEndsAt(ms, k, j)
    BY <2>1, RunEnd
  <2>4. CASE k < i
    <3>1. i \in k + 1 .. j
      BY <2>1, <2>4, <1>3
    <3> QED BY <3>1, <2>2, <2>3 DEF RunEndsAt
  <2>5. CASE i < k
    <3>1. k \in i + 1 .. j
      BY <2>1, <2>5, <1>3
    <3> QED BY <3>1, <2>2, <1>1 DEF RunEndsAt
  <2> QED BY <2>1, <2>4, <2>5
<1>6. ClosedAt(ms, j) = Closing(ms, i)
  <2> DEFINE k == CHOOSE k \in ClosingAt(ms, j) : TRUE
  <2>1. k \in ClosingAt(ms, j) /\ ClosingAt(ms, j) # {}
    BY <1>4
  <2>2. k = i
    BY <2>1, <1>5
  <2> QED BY <2>1, <2>2 DEF ClosedAt
<1>7. ms[i].calls[c] \in ToSet(Missing(ms, i))
  <2>1. ToSet(Missing(ms, i)) = OpenAt(ms, i)
    BY <1>3, MissingMembers
  <2> QED BY <2>1 DEF OpenAt
<1>8. PICK y \in DOMAIN Missing(ms, i) : Missing(ms, i)[y] = ms[i].calls[c]
  BY <1>7 DEF ToSet
<1>9. y \in 1 .. Len(Missing(ms, i))
  <2>1. Missing(ms, i) \in Seq(Call)
    BY ClosingType
  <2> QED BY <2>1, <1>8
<1>10. y \in 1 .. Len(ClosedAt(ms, j)) /\ ClosedAt(ms, j)[y].answers = ms[i].calls[c].id
  BY <1>6, <1>8, <1>9, ClosingType
<1> QED BY <1>10 DEF j

LEMMA Headed ==
  ASSUME NEW S, NEW e \in S, NEW s \in Seq(S)
  PROVE  /\ <<e>> \o s \in Seq(S) /\ Len(<<e>> \o s) = 1 + Len(s) /\ Len(s) \in Nat
         /\ (<<e>> \o s)[1] = e
         /\ \A y \in 1 .. Len(s) : (<<e>> \o s)[1 + y] = s[y]
<1>1. ASSUME NEW a \in Seq(S), NEW b \in Seq(S)
      PROVE  /\ a \o b \in Seq(S) /\ Len(a \o b) = Len(a) + Len(b) /\ Len(b) \in Nat
             /\ \A y \in 1 .. Len(a) : (a \o b)[y] = a[y]
             /\ \A y \in 1 .. Len(b) : (a \o b)[Len(a) + y] = b[y]
  OBVIOUS
<1> DEFINE f == <<e>>
<1>2. f \in Seq(S) /\ Len(f) = 1 /\ f[1] = e
  OBVIOUS
<1> HIDE DEF f
<1>3. /\ f \o s \in Seq(S) /\ Len(f \o s) = Len(f) + Len(s) /\ Len(s) \in Nat
      /\ \A y \in 1 .. Len(f) : (f \o s)[y] = f[y]
      /\ \A y \in 1 .. Len(s) : (f \o s)[Len(f) + y] = s[y]
  <2>1. f \in Seq(S)
    BY <1>2
  <2> QED BY <1>1, <2>1, Zenon
<1> DEFINE g == f \o s
<1>4. /\ g \in Seq(S) /\ Len(g) = Len(f) + Len(s) /\ Len(s) \in Nat
      /\ \A y \in 1 .. Len(f) : g[y] = f[y]
      /\ \A y \in 1 .. Len(s) : g[Len(f) + y] = s[y]
  BY <1>3
<1> HIDE DEF g
<1>5. g[1] = e /\ Len(g) = 1 + Len(s) /\ \A y \in 1 .. Len(s) : g[1 + y] = s[y]
  BY <1>2, <1>4
<1> QED BY <1>4, <1>5 DEF f, g

(* Message j of ms is at st[j] + 1 of the repaired to, with what closes it   *)
(* behind it, and nothing else is there.                                     *)
Mends(ms, to, st) ==
  /\ to \in Seq(Message) /\ st \in [1 .. Len(ms) + 1 -> Nat] /\ st[1] = 0
  /\ \A j \in 1 .. Len(ms) :
       /\ st[j] + 1 \in 1 .. Len(to) /\ to[st[j] + 1] = ms[j]
       /\ st[j + 1] = st[j] + 1 + Len(ClosedAt(ms, j))
       /\ \A y \in 1 .. Len(ClosedAt(ms, j)) :
            st[j] + 1 + y \in 1 .. Len(to) /\ to[st[j] + 1 + y] = ClosedAt(ms, j)[y]
  /\ \A p \in 1 .. Len(to) : \E j \in 1 .. Len(ms) :
       \/ p = st[j] + 1
       \/ \E y \in 1 .. Len(ClosedAt(ms, j)) : p = st[j] + 1 + y

LEMMA RepairMends ==
  ASSUME NEW ms \in Seq(Message)
  PROVE  \E st : Mends(ms, Repaired(ms), st)
<1> DEFINE part(j) == <<ms[j]>> \o ClosedAt(ms, j)
           parts == [j \in DOMAIN ms |-> part(j)]
           to == FlattenSeq(parts)
           N == Len(ms)
<1>1. Repaired(ms) = to
  BY DEF Repaired, ClosedAt, ClosingAt, Closing
<1>2. DOMAIN ms = 1 .. N /\ N \in Nat
  OBVIOUS
<1>3. ASSUME NEW j \in 1 .. N
      PROVE  /\ part(j) \in Seq(Message) /\ Len(part(j)) = 1 + Len(ClosedAt(ms, j))
             /\ part(j)[1] = ms[j]
             /\ Len(ClosedAt(ms, j)) \in Nat
             /\ \A y \in 1 .. Len(ClosedAt(ms, j)) : part(j)[1 + y] = ClosedAt(ms, j)[y]
  <2>1. ClosedAt(ms, j) \in Seq(Message) /\ ms[j] \in Message
    BY ClosedType
  <2> QED BY <2>1, Headed
<1>4. parts \in Seq(Seq(Message)) /\ Len(parts) = N /\ \A j \in 1 .. N : parts[j] = part(j)
  <2>1. \A j \in 1 .. N : part(j) \in Seq(Message)
    BY <1>3
  <2> HIDE DEF part, N
  <2>2. parts \in Seq(Seq(Message)) /\ DOMAIN parts = 1 .. N /\ \A j \in 1 .. N : parts[j] = part(j)
    BY <1>2, <2>1
  <2> HIDE DEF parts
  <2>3. ASSUME NEW W, NEW p \in Seq(W), DOMAIN p = 1 .. N PROVE Len(p) = N
    BY <1>2, <2>3
  <2>4. Len(parts) = N
    BY <2>2, <2>3, Zenon
  <2> QED BY <2>2, <2>4
<1>5. PICK st : Laid(parts, to, st)
  <2> HIDE DEF parts
  <2> QED BY <1>4, FlattenLays
<1>6. to \in Seq(Message)
  <2> HIDE DEF parts
  <2> QED BY <1>4, FlattenMembers
<1> HIDE DEF part, parts, to, N
<1>7. /\ st \in [1 .. N + 1 -> Nat] /\ st[1] = 0
      /\ \A i \in 1 .. N + 1 : st[i] <= Len(to)
      /\ \A i \in 1 .. N : st[i + 1] = st[i] + Len(part(i))
      /\ \A i \in 1 .. N : \A x \in 1 .. Len(part(i)) : to[st[i] + x] = part(i)[x]
      /\ \A k \in 1 .. Len(to) : \E i \in 1 .. N : \E x \in 1 .. Len(part(i)) : k = st[i] + x
  BY <1>4, <1>5 DEF Laid
<1>8. ASSUME NEW j \in 1 .. N
      PROVE  /\ st[j] + 1 \in 1 .. Len(to) /\ to[st[j] + 1] = ms[j]
             /\ st[j + 1] = st[j] + 1 + Len(ClosedAt(ms, j))
             /\ \A y \in 1 .. Len(ClosedAt(ms, j)) :
                  st[j] + 1 + y \in 1 .. Len(to) /\ to[st[j] + 1 + y] = ClosedAt(ms, j)[y]
  <2>0. PICK m \in Nat : m = Len(ClosedAt(ms, j)) /\ Len(part(j)) = 1 + m
    BY <1>3
  <2>1. j \in 1 .. N + 1 /\ j + 1 \in 1 .. N + 1
    BY <1>2
  <2>2. /\ st[j] \in Nat /\ st[j + 1] \in Nat /\ st[j + 1] <= Len(to) /\ Len(to) \in Nat
        /\ st[j + 1] = st[j] + Len(part(j))
    BY <2>1, <1>6, <1>7
  <2>3. st[j + 1] = st[j] + 1 + Len(ClosedAt(ms, j)) /\ st[j] + 1 \in 1 .. Len(to)
    <3>1. ASSUME NEW u \in Nat, NEW w \in Nat, u + (1 + m) <= w
          PROVE  u + (1 + m) = u + 1 + m /\ u + 1 \in 1 .. w
      BY <3>1
    <3>2. st[j + 1] = st[j] + (1 + m) /\ st[j] + (1 + m) <= Len(to)
      BY <2>0, <2>2, Zenon
    <3> QED BY <3>1, <3>2, <2>0, <2>2, Zenon
  <2>4. to[st[j] + 1] = ms[j]
    <3>1. 1 \in 1 .. Len(part(j))
      BY <2>0
    <3> QED BY <3>1, <1>3, <1>7
  <2>5. ASSUME NEW y \in 1 .. Len(ClosedAt(ms, j))
        PROVE  st[j] + 1 + y \in 1 .. Len(to) /\ to[st[j] + 1 + y] = ClosedAt(ms, j)[y]
    <3>0. y \in 1 .. m
      BY <2>0
    <3>1. 1 + y \in 1 .. Len(part(j)) /\ st[j] + (1 + y) = st[j] + 1 + y
      <4>1. ASSUME NEW u \in Nat PROVE 1 + y \in 1 .. 1 + m /\ u + (1 + y) = u + 1 + y
        BY <3>0
      <4> QED BY <4>1, <2>0, <2>2, Zenon
    <3>2. to[st[j] + (1 + y)] = part(j)[1 + y]
      BY <3>1, <1>7
    <3>3. st[j] + 1 + y \in 1 .. Len(to)
      <4>1. ASSUME NEW u \in Nat, NEW w \in Nat, u + (1 + m) <= w PROVE u + 1 + y \in 1 .. w
        BY <3>0, <4>1
      <4>2. st[j] + (1 + m) <= Len(to)
        BY <2>0, <2>2, Zenon
      <4> QED BY <4>1, <4>2, <2>2, Zenon
    <3> QED BY <3>1, <3>2, <3>3, <1>3
  <2> QED BY <2>3, <2>4, <2>5
<1>9. ASSUME NEW p \in 1 .. Len(to)
      PROVE  \E j \in 1 .. N : \/ p = st[j] + 1
                               \/ \E y \in 1 .. Len(ClosedAt(ms, j)) : p = st[j] + 1 + y
  <2>1. PICK j \in 1 .. N : \E x \in 1 .. Len(part(j)) : p = st[j] + x
    BY <1>7
  <2>2. PICK x \in 1 .. Len(part(j)) : p = st[j] + x
    BY <2>1
  <2>3. CASE x = 1
    BY <2>2, <2>3
  <2>4. CASE x # 1
    <3>1. x - 1 \in 1 .. Len(ClosedAt(ms, j)) /\ st[j] \in Nat
      <4>1. PICK m \in Nat : m = Len(ClosedAt(ms, j)) /\ Len(part(j)) = 1 + m
        BY <1>3
      <4>2. j \in 1 .. N + 1
        BY <1>2
      <4>3. st[j] \in Nat
        BY <4>2, <1>7
      <4>4. x \in 1 .. 1 + m
        BY <4>1
      <4>5. x - 1 \in 1 .. m
        BY <4>4, <2>4
      <4> QED BY <4>1, <4>3, <4>5
    <3>2. p = st[j] + 1 + (x - 1)
      BY <3>1, <2>2
    <3> QED BY <3>1, <3>2
  <2> QED BY <2>3, <2>4
<1>10. Mends(ms, to, st)
  BY <1>6, <1>7, <1>8, <1>9 DEF Mends, N
<1> QED BY <1>1, <1>10

(* Results stay right behind their message.                                  *)
LEMMA MendsSteadily ==
  ASSUME NEW ms \in Seq(Message), NEW to, NEW st, Mends(ms, to, st), NEW n \in Nat, Apart(ms, n),
         NEW i \in 1 .. Len(ms), NEW j \in i .. Len(ms), \A l \in i + 1 .. j : ms[l].role = "tool"
  PROVE  \A l \in i .. j : st[l] = st[i] + (l - i)
<1> DEFINE Bad == {l \in i .. j : st[l] # st[i] + (l - i)}
<1>0. \A l \in i .. j : l \in 1 .. Len(ms) /\ l \in Nat /\ st[l] \in Nat
  <2>1. \A l \in i .. j : l \in 1 .. Len(ms) /\ l \in Nat /\ l \in 1 .. Len(ms) + 1
    OBVIOUS
  <2>2. st \in [1 .. Len(ms) + 1 -> Nat]
    BY DEF Mends
  <2> QED BY <2>1, <2>2
<1>1. ASSUME NEW l \in Bad, \A m \in Bad : l <= m PROVE FALSE
  <2>1. l \in i .. j /\ st[l] # st[i] + (l - i)
    OBVIOUS
  <2>2. l # i
    <3>1. st[i] \in Nat /\ i \in Nat
      BY <1>0
    <3> QED BY <2>1, <3>1
  <2>3. l - 1 \in i .. j /\ l - 1 < l /\ (l - 1) + 1 = l /\ l \in i + 1 .. j /\ l - 1 \in 1 .. Len(ms) /\ l - 1 < Len(ms)
    BY <2>1, <2>2
  <2>4. l - 1 \notin Bad
    <3> HIDE DEF Bad
    <3>1. l \in Nat /\ l - 1 \in Nat
      BY <2>3, <2>1
    <3>2. ASSUME l - 1 \in Bad PROVE FALSE
      <4>1. l <= l - 1
        BY <3>2, <1>1
      <4> QED BY <4>1, <3>1
    <3> QED BY <3>2
  <2>5. st[l - 1] = st[i] + ((l - 1) - i)
    BY <2>3, <2>4
  <2>6. Len(ClosedAt(ms, l - 1)) = 0
    <3>1. ms[(l - 1) + 1].role = "tool"
      BY <2>3
    <3> HIDE DEF Bad
    <3> DEFINE k == l - 1
    <3>2. k \in 1 .. Len(ms) /\ k < Len(ms) /\ ms[k + 1].role = "tool"
      BY <2>3, <3>1
    <3> HIDE DEF k
    <3>3. Len(ClosedAt(ms, k)) = 0
      BY <3>2, ClosedAnswers
    <3> QED BY <3>3 DEF k
  <2>7. st[(l - 1) + 1] = st[l - 1] + 1 + Len(ClosedAt(ms, l - 1))
    BY <2>3 DEF Mends
  <2>8. st[i] \in Nat /\ l \in Nat /\ i \in Nat
    BY <1>0, <2>1
  <2>9. st[l] = st[l - 1] + 1 + 0
    BY <2>3, <2>6, <2>7
  <2>10. \A a, b, c \in Nat : (a + ((b - 1) - c)) + 1 + 0 = a + (b - c)
    OBVIOUS
  <2> HIDE DEF Bad
  <2>11. (st[i] + ((l - 1) - i)) + 1 + 0 = st[i] + (l - i)
    BY <2>8, <2>10, Zenon
  <2>12. st[l] = (st[i] + ((l - 1) - i)) + 1 + 0
    BY <2>5, <2>9, Zenon
  <2> QED BY <2>1, <2>11, <2>12, Zenon
<1>2. Bad = {}
  <2>1. Bad \subseteq Nat
    BY <1>0
  <2> HIDE DEF Bad
  <2> QED BY <2>1, <1>1, Least
<1> QED BY <1>2

(* What is between message i and a result put in behind j, when only         *)
(* results follow i up to j.                                                 *)
Trails(ms, to, st, i, j, y, p) ==
  \/ \E k \in i + 1 .. j : p = st[k] + 1 /\ to[p] = ms[k]
  \/ \E x \in 1 .. y : p = st[j] + 1 + x /\ to[p] = ClosedAt(ms, j)[x]

LEMMA MendsTrail ==
  ASSUME NEW ms \in Seq(Message), NEW to, NEW st, Mends(ms, to, st), NEW n \in Nat, Apart(ms, n),
         NEW i \in 1 .. Len(ms), NEW j \in i .. Len(ms), \A l \in i + 1 .. j : ms[l].role = "tool",
         NEW y \in Nat, y <= Len(ClosedAt(ms, j)), NEW p \in st[i] + 2 .. st[j] + 1 + y
  PROVE  Trails(ms, to, st, i, j, y, p) /\ to[p].role = "tool"
<1>1. \A l \in i .. j : st[l] = st[i] + (l - i)
  BY MendsSteadily
<1>2. i \in i .. j /\ j \in i .. j /\ j \in 1 .. Len(ms)
  OBVIOUS
<1>3. st[i] \in Nat /\ st[j] \in Nat /\ st[j] = st[i] + (j - i)
  <2>1. i \in 1 .. Len(ms) + 1 /\ j \in 1 .. Len(ms) + 1
    OBVIOUS
  <2>2. st \in [1 .. Len(ms) + 1 -> Nat]
    BY DEF Mends
  <2> QED BY <2>1, <2>2, <1>1, <1>2
<1> DEFINE u == st[i]
           v == st[j]
<1>a. u \in Nat /\ v \in Nat /\ v = u + (j - i) /\ p \in u + 2 .. v + 1 + y
  BY <1>3
<1> HIDE DEF u, v
<1>b. p \in Int /\ i \in Nat /\ j \in Nat /\ i <= j /\ j <= Len(ms) /\ Len(ms) \in Nat /\ i >= 1
  BY <1>a
<1>4. PICK m \in Nat : m = Len(ClosedAt(ms, j))
  BY <1>2, ClosedType
<1>5. CASE p <= v + 1
  <2> DEFINE k == p - 1 - u + i
  <2>0. k \in i + 1 .. j /\ k \in i .. j /\ k \in 1 .. Len(ms) /\ p = (u + (k - i)) + 1
    BY <1>a, <1>b, <1>5
  <2> HIDE DEF k
  <2>1. k \in i + 1 .. j /\ k \in i .. j /\ k \in 1 .. Len(ms) /\ p = (st[i] + (k - i)) + 1
    BY <2>0 DEF u
  <2>2. st[k] = st[i] + (k - i)
    BY <2>1, <1>1
  <2>3. p = st[k] + 1 /\ to[st[k] + 1] = ms[k] /\ ms[k].role = "tool"
    BY <2>1, <2>2 DEF Mends
  <2>4. Trails(ms, to, st, i, j, y, p)
    BY <2>1, <2>3, Zenon DEF Trails
  <2> QED BY <2>3, <2>4
<1>6. CASE p > v + 1
  <2> DEFINE x == p - (v + 1)
  <2>0. x \in 1 .. y /\ p = v + 1 + x
    BY <1>a, <1>b, <1>6
  <2> HIDE DEF x
  <2>1. x \in 1 .. y /\ p = st[j] + 1 + x
    BY <2>0 DEF v
  <2>2. x \in 1 .. m
    BY <2>1, <1>4
  <2>3. x \in 1 .. Len(ClosedAt(ms, j))
    BY <2>2, <1>4
  <2>4. to[st[j] + 1 + x] = ClosedAt(ms, j)[x] /\ ClosedAt(ms, j)[x].role = "tool"
    <3>1. to[st[j] + 1 + x] = ClosedAt(ms, j)[x]
      BY <2>3, <1>2 DEF Mends
    <3>2. ClosedAt(ms, j)[x].role = "tool"
      BY <2>3, <1>2, ClosedType
    <3> QED BY <3>1, <3>2
  <2>5. Trails(ms, to, st, i, j, y, p)
    BY <2>1, <2>4, Zenon DEF Trails
  <2> QED BY <2>1, <2>4, <2>5
<1>7. p <= v + 1 \/ p > v + 1
  BY <1>a, <1>b
<1> QED BY <1>5, <1>6, <1>7

(* A repaired history can be sent: everything is answered, and every         *)
(* result, put in or there before, is grounded.                              *)
LEMMA RepairServes ==
  ASSUME NEW ms \in Seq(Message), NEW n \in Nat, Apart(ms, n), AllGrounded(ms), Opens(ms)
  PROVE  /\ Repaired(ms) \in Seq(Message) /\ Apart(Repaired(ms), n) /\ Opens(Repaired(ms))
         /\ AllGrounded(Repaired(ms)) /\ AllAnswered(Repaired(ms))
<1> DEFINE to == Repaired(ms)
<1>1. PICK st : Mends(ms, to, st)
  BY RepairMends
<1> HIDE DEF to
<1>2. to \in Seq(Message) /\ DOMAIN to = 1 .. Len(to) /\ Len(to) \in Nat /\ DOMAIN ms = 1 .. Len(ms) /\ Len(ms) \in Nat
  BY <1>1 DEF Mends
<1>3. ASSUME NEW j \in 1 .. Len(ms)
      PROVE  /\ st[j] \in Nat /\ st[j] + 1 \in 1 .. Len(to) /\ to[st[j] + 1] = ms[j]
             /\ Len(ClosedAt(ms, j)) \in Nat
             /\ \A y \in 1 .. Len(ClosedAt(ms, j)) :
                  /\ st[j] + 1 + y \in 1 .. Len(to) /\ to[st[j] + 1 + y] = ClosedAt(ms, j)[y]
                  /\ ClosedAt(ms, j)[y].role = "tool" /\ ClosedAt(ms, j)[y].calls = <<>>
  <2>1. j \in 1 .. Len(ms) + 1
    OBVIOUS
  <2>2. st[j] \in Nat
    BY <2>1, <1>1 DEF Mends
  <2>3. /\ st[j] + 1 \in 1 .. Len(to) /\ to[st[j] + 1] = ms[j]
        /\ \A y \in 1 .. Len(ClosedAt(ms, j)) :
             st[j] + 1 + y \in 1 .. Len(to) /\ to[st[j] + 1 + y] = ClosedAt(ms, j)[y]
    BY <1>1 DEF Mends
  <2>4. Len(ClosedAt(ms, j)) \in Nat
    BY ClosedType
  <2>5. \A y \in 1 .. Len(ClosedAt(ms, j)) : ClosedAt(ms, j)[y].role = "tool" /\ ClosedAt(ms, j)[y].calls = <<>>
    BY ClosedType
  <2> QED BY <2>2, <2>3, <2>4, <2>5
<1>4. ASSUME NEW p \in 1 .. Len(to)
      PROVE  \E j \in 1 .. Len(ms) : \/ p = st[j] + 1
                                     \/ \E y \in 1 .. Len(ClosedAt(ms, j)) : p = st[j] + 1 + y
  BY <1>1 DEF Mends
<1>5. Apart(to, n)
  <2> DEFINE at == [j \in DOMAIN ms |-> st[j] + 1]
  <2>1. ASSUME NEW p \in DOMAIN to
        PROVE  to[p].calls = <<>> \/ \E j \in DOMAIN ms : p = at[j] /\ to[p] = ms[j]
    <3>1. PICK j \in 1 .. Len(ms) : \/ p = st[j] + 1
                                    \/ \E y \in 1 .. Len(ClosedAt(ms, j)) : p = st[j] + 1 + y
      BY <1>2, <1>4
    <3>2. CASE p = st[j] + 1
      <4>1. j \in DOMAIN ms /\ p = at[j] /\ to[p] = ms[j]
        BY <3>2, <1>2, <1>3
      <4> HIDE DEF at
      <4> QED BY <4>1
    <3>3. ASSUME NEW y \in 1 .. Len(ClosedAt(ms, j)), p = st[j] + 1 + y PROVE to[p].calls = <<>>
      <4>1. to[st[j] + 1 + y] = ClosedAt(ms, j)[y] /\ ClosedAt(ms, j)[y].calls = <<>>
        BY <1>3
      <4> QED BY <3>3, <4>1, Zenon
    <3> QED BY <3>1, <3>2, <3>3
  <2>2. to \in Seq(Message)
    BY <1>2
  <2> HIDE DEF at
  <2> QED BY <2>1, <2>2, ApartMoves
<1>6. Opens(to)
  <2>1. SUFFICES ASSUME to # <<>> PROVE to[1].calls = <<>>
    BY DEF Opens
  <2>2. Len(to) # 0
    BY <2>1, <1>2
  <2>3. 1 \in 1 .. Len(to)
    BY <2>2, <1>2
  <2>4. PICK j \in 1 .. Len(ms) : \/ 1 = st[j] + 1
                                  \/ \E y \in 1 .. Len(ClosedAt(ms, j)) : 1 = st[j] + 1 + y
    BY <2>3, <1>4
  <2>5. 1 \in 1 .. Len(ms) /\ ms # <<>>
    BY <1>2
  <2>6. st[1] = 0 /\ 0 + 1 = 1
    BY <1>1 DEF Mends
  <2>7. to[1] = ms[1]
    BY <2>5, <2>6, <1>3
  <2> QED BY <2>5, <2>7 DEF Opens
<1>7. ASSUME NEW p \in 1 .. Len(to), to[p].role = "tool" PROVE Grounded(to, p)
  <2>1. PICK j \in 1 .. Len(ms) : \/ p = st[j] + 1
                                  \/ \E y \in 1 .. Len(ClosedAt(ms, j)) : p = st[j] + 1 + y
    BY <1>4
  <2>2. CASE p = st[j] + 1
    <3>1. ms[j].role = "tool"
      BY <2>2, <1>3, <1>7
    <3>2. PICK i \in 1 .. j - 1 : GroundedBy(ms, i, j)
      <4>1. Grounded(ms, j)
        BY <3>1, <1>2 DEF AllGrounded
      <4> QED BY <4>1, <1>2, GroundedIs
    <3>3. i \in 1 .. Len(ms) /\ j \in i .. Len(ms) /\ j \in i + 1 .. Len(ms) /\ \A l \in i + 1 .. j : ms[l].role = "tool"
      BY <3>2, <1>2 DEF GroundedBy
    <3>4. \A l \in i .. j : st[l] = st[i] + (l - i)
      BY <3>3, <1>1, MendsSteadily
    <3>5. st[i] \in Nat /\ st[j] \in Nat
      BY <3>3, <1>3
    <3> DEFINE d == st[i] + 1 - i
    <3>6. d \in Int /\ i + d >= 1
      BY <3>5
    <3>7. j + d = p
      <4>1. st[j] = st[i] + (j - i)
        BY <3>3, <3>4
      <4> QED BY <4>1, <3>5, <2>2
    <3>8. \A l \in i .. j : to[l + d] = ms[l]
      <4>1. ASSUME NEW l \in i .. j PROVE to[l + d] = ms[l]
        <5>1. l \in 1 .. Len(ms)
          BY <3>3
        <5>2. l + d = (st[i] + (l - i)) + 1
          BY <3>5
        <5>3. l + d = st[l] + 1
          BY <5>2, <3>4
        <5> HIDE DEF d
        <5> QED BY <5>1, <5>3, <1>3
      <4> QED BY <4>1
    <3>9. j + d <= Len(to)
      BY <3>7
    <3> HIDE DEF d
    <3>10. Grounded(to, j + d)
      BY <3>2, <3>3, <3>6, <3>8, <3>9, <1>2, GroundedMoves
    <3> QED BY <3>7, <3>10
  <2>3. ASSUME NEW y \in 1 .. Len(ClosedAt(ms, j)), p = st[j] + 1 + y PROVE Grounded(to, p)
    <3>1. PICK i \in 1 .. j :
            /\ ResultRunEnd(ms, i) = j
            /\ \E c \in DOMAIN ms[i].calls : ms[i].calls[c].id = ClosedAt(ms, j)[y].answers
            /\ ClosedAt(ms, j)[y].answers \notin ResolvedIds(ms, i)
            /\ \A x \in 1 .. y - 1 : ClosedAt(ms, j)[x].answers # ClosedAt(ms, j)[y].answers
      BY ClosedAnswers
    <3>2. i \in 1 .. Len(ms) /\ j \in i .. Len(ms)
      OBVIOUS
    <3>3. \A l \in i + 1 .. j : ms[l].role = "tool"
      <4>1. RunEndsAt(ms, i, j)
        BY <3>1, <3>2, <1>2, RunEnd
      <4> QED BY <4>1 DEF RunEndsAt
    <3>4. st[i] \in Nat /\ st[j] \in Nat /\ st[j] = st[i] + (j - i)
      <4>1. j \in i .. j
        OBVIOUS
      <4>2. \A l \in i .. j : st[l] = st[i] + (l - i)
        BY <3>2, <3>3, <1>1, MendsSteadily
      <4>3. st[i] \in Nat /\ st[j] \in Nat
        BY <3>2, <1>3
      <4> QED BY <4>1, <4>2, <4>3
    <3>5. PICK m \in Nat : m = Len(ClosedAt(ms, j)) /\ y \in 1 .. m /\ y \in Nat
      BY <1>3
    <3>a. ASSUME NEW u \in Nat, NEW v \in Nat, v = u + (j - i), p = v + 1 + y
          PROVE  /\ u + 1 \in 1 .. p - 1 /\ (u + 1) + 1 = u + 2
                 /\ \A q \in u + 2 .. p - 1 : q \in u + 2 .. p /\ q < p
                 /\ \A q \in u + 2 .. p - 1 : \A x \in 1 .. y : q = v + 1 + x => x \in 1 .. y - 1
      BY <3>2, <3>5, <3>a
    <3>b. /\ st[i] + 1 \in 1 .. p - 1 /\ (st[i] + 1) + 1 = st[i] + 2
          /\ \A q \in st[i] + 2 .. p - 1 : q \in st[i] + 2 .. p /\ q < p
          /\ \A q \in st[i] + 2 .. p - 1 : \A x \in 1 .. y : q = st[j] + 1 + x => x \in 1 .. y - 1
      BY <3>a, <3>4, <2>3, Zenon
    <3> DEFINE b == st[i] + 1
    <3>6. b \in 1 .. p - 1 /\ b + 1 = st[i] + 2
      BY <3>b
    <3>7. to[b] = ms[i] /\ to[p] = ClosedAt(ms, j)[y]
      BY <3>2, <2>3, <1>3
    <3>8. ASSUME NEW q \in st[i] + 2 .. p
          PROVE  Trails(ms, to, st, i, j, y, q) /\ to[q].role = "tool"
      <4>1. y <= Len(ClosedAt(ms, j)) /\ q \in st[i] + 2 .. st[j] + 1 + y
        BY <3>5, <2>3
      <4>2. y \in Nat
        BY <3>5
      <4> HIDE DEF b
      <4> QED BY <4>1, <4>2, <3>2, <3>3, <1>1, MendsTrail
    <3>9. ASSUME NEW q \in st[i] + 2 .. p - 1 PROVE to[q].answers # to[p].answers
      <4>1. q \in st[i] + 2 .. p
        BY <3>b, Zenon
      <4>2. ASSUME NEW k \in i + 1 .. j, to[q] = ms[k] PROVE to[q].answers # to[p].answers
        BY <4>2, <3>1, <3>7 DEF ResolvedIds
      <4>3. ASSUME NEW x \in 1 .. y, q = st[j] + 1 + x, to[q] = ClosedAt(ms, j)[x]
            PROVE  to[q].answers # to[p].answers
        <5>1. x \in 1 .. y - 1
          BY <4>3, <3>b, Zenon
        <5> QED BY <5>1, <4>3, <3>1, <3>7
      <4>4. Trails(ms, to, st, i, j, y, q)
        BY <4>1, <3>8
      <4> QED BY <4>2, <4>3, <4>4, Zenon DEF Trails
    <3> HIDE DEF b
    <3>10. GroundedBy(to, b, p)
      <4>1. \A q \in b + 1 .. p : to[q].role = "tool"
        BY <3>6, <3>8
      <4>2. \A q \in b + 1 .. p - 1 : to[q].answers # to[p].answers
        BY <3>6, <3>9
      <4>3. \E c \in DOMAIN to[b].calls : to[b].calls[c].id = to[p].answers
        BY <3>1, <3>7
      <4> QED BY <4>1, <4>2, <4>3 DEF GroundedBy
    <3> QED BY <3>6, <3>10, <1>2, GroundedIs
  <2> QED BY <2>1, <2>2, <2>3
<1>8. ASSUME NEW p \in 1 .. Len(to), NEW c \in DOMAIN to[p].calls
      PROVE  to[p].calls[c].id \in ResolvedIds(to, p)
  <2>1. PICK i \in 1 .. Len(ms) : p = st[i] + 1 /\ to[p] = ms[i]
    <3>1. PICK j \in 1 .. Len(ms) : \/ p = st[j] + 1
                                    \/ \E y \in 1 .. Len(ClosedAt(ms, j)) : p = st[j] + 1 + y
      BY <1>4
    <3>2. ASSUME NEW y \in 1 .. Len(ClosedAt(ms, j)), p = st[j] + 1 + y PROVE FALSE
      <4>1. to[p].calls = <<>>
        <5>1. to[st[j] + 1 + y] = ClosedAt(ms, j)[y] /\ ClosedAt(ms, j)[y].calls = <<>>
          BY <1>3
        <5> QED BY <3>2, <5>1, Zenon
      <4> QED BY <4>1, <1>8
    <3> QED BY <3>1, <3>2, <1>3
  <2>2. c \in DOMAIN ms[i].calls /\ st[i] \in Nat
    BY <2>1, <1>3
  <2> DEFINE id == ms[i].calls[c].id
             e == ResultRunEnd(ms, i)
  <2>3. RunEndsAt(ms, i, e)
    BY <1>2, RunEnd
  <2>4. ResultRunEnd(ms, i) = e
    OBVIOUS
  <2>5. to[p].calls[c].id = id
    BY <2>1
  \* A place behind p with results only in between is in its run.
  <2>6. ASSUME NEW q \in p + 1 .. Len(to), \A l \in p + 1 .. q : to[l].role = "tool", to[q].answers = id
        PROVE  id \in ResolvedIds(to, p)
    <3> HIDE DEF id
    <3>1. q \in p .. Len(to)
      BY <2>1
    <3>2. q <= ResultRunEnd(to, p)
      BY <3>1, <2>6, <1>2, RunReaches
    <3>3. RunEndsAt(to, p, ResultRunEnd(to, p))
      BY <1>2, RunEnd
    <3>4. ResultRunEnd(to, p) \in Nat
      BY <3>3 DEF RunEndsAt
    <3>5. q \in p + 1 .. ResultRunEnd(to, p)
      BY <3>2, <3>4
    <3> QED BY <3>5, <2>6 DEF ResolvedIds
  <2> HIDE DEF e, id
  <2>7. e \in i .. Len(ms) /\ e \in 1 .. Len(ms) /\ \A l \in i + 1 .. e : ms[l].role = "tool"
    BY <2>3 DEF RunEndsAt
  <2>8. CASE id \in ResolvedIds(ms, i)
    <3>1. PICK k \in i + 1 .. e : ms[k].answers = id
      BY <2>4, <2>8 DEF ResolvedIds
    <3>2. k \in i .. Len(ms) /\ k \in 1 .. Len(ms) /\ k \in i .. k /\ \A l \in i + 1 .. k : ms[l].role = "tool"
      BY <2>7
    <3>3. \A l \in i .. k : st[l] = st[i] + (l - i)
      BY <3>2, <1>1, MendsSteadily
    <3>4. st[k] = st[i] + (k - i) /\ st[k] \in Nat
      BY <3>2, <3>3, <1>3
    <3> DEFINE q == st[k] + 1
    <3>5. q \in p + 1 .. Len(to) /\ to[q] = ms[k]
      <4>1. q \in 1 .. Len(to) /\ to[q] = ms[k]
        BY <3>2, <1>3
      <4>2. q >= p + 1
        <5>1. k - i \in Nat \ {0}
          BY <2>7
        <5>2. ASSUME NEW u \in Nat, NEW d \in Nat \ {0} PROVE (u + d) + 1 >= (u + 1) + 1
          OBVIOUS
        <5>3. (st[i] + (k - i)) + 1 >= (st[i] + 1) + 1
          BY <5>1, <5>2, <2>2, Zenon
        <5> QED BY <5>3, <3>4, <2>1, Zenon
      <4> QED BY <4>1, <4>2
    <3>6. ASSUME NEW l \in p + 1 .. q PROVE to[l].role = "tool"
      <4>1. PICK m \in Nat : m = Len(ClosedAt(ms, k))
        BY <3>2, <1>3
      <4>2. 0 \in Nat /\ 0 <= Len(ClosedAt(ms, k)) /\ l \in st[i] + 2 .. st[k] + 1 + 0
        <5>1. p + 1 = st[i] + 2 /\ q = st[k] + 1 + 0
          <6>1. ASSUME NEW u \in Nat, NEW v \in Nat PROVE (u + 1) + 1 = u + 2 /\ v + 1 = v + 1 + 0
            OBVIOUS
          <6>2. (st[i] + 1) + 1 = st[i] + 2 /\ st[k] + 1 = st[k] + 1 + 0
            BY <6>1, <3>4, <2>2, Zenon
          <6> QED BY <6>2, <2>1, Zenon
        <5>2. 0 \in Nat /\ 0 <= Len(ClosedAt(ms, k))
          BY <4>1
        <5> HIDE DEF q
        <5> QED BY <5>1, <5>2
      <4> HIDE DEF q
      <4> QED BY <4>2, <3>2, <1>1, MendsTrail
    <3>7. to[q].answers = id
      BY <3>1, <3>5
    <3> HIDE DEF q
    <3>8. id \in ResolvedIds(to, p)
      BY <3>5, <3>6, <3>7, <2>6
    <3> QED BY <3>8, <2>5
  <2>9. CASE id \notin ResolvedIds(ms, i)
    <3>1. PICK y \in 1 .. Len(ClosedAt(ms, e)) : ClosedAt(ms, e)[y].answers = id
      <4>1. \E y \in 1 .. Len(ClosedAt(ms, ResultRunEnd(ms, i))) :
              ClosedAt(ms, ResultRunEnd(ms, i))[y].answers = ms[i].calls[c].id
        BY <2>2, <2>9, ClosedAll DEF id
      <4> QED BY <4>1, <2>4 DEF id
    <3>2. PICK m \in Nat : m = Len(ClosedAt(ms, e)) /\ y \in 1 .. m /\ y \in Nat
      BY <2>7, <1>3
    <3>3. st[e] = st[i] + (e - i) /\ st[e] \in Nat
      <4>1. \A l \in i .. e : st[l] = st[i] + (l - i)
        BY <2>7, <1>1, MendsSteadily
      <4>2. e \in i .. e
        BY <2>7
      <4> QED BY <4>1, <4>2, <2>7, <1>3
    <3> DEFINE q == st[e] + 1 + y
    <3>4. q \in p + 1 .. Len(to) /\ to[q] = ClosedAt(ms, e)[y]
      <4>1. q \in 1 .. Len(to) /\ to[q] = ClosedAt(ms, e)[y]
        BY <2>7, <1>3
      <4>2. q >= p + 1
        <5>1. PICK d \in Nat : d = e - i
          BY <2>7
        <5>2. ASSUME NEW a \in Nat, NEW w \in Nat, w >= 1 PROVE (a + d) + 1 + w >= (a + 1) + 1
          BY <5>2
        <5>3. y \in Nat /\ y >= 1
          BY <3>2
        <5>4. (st[i] + d) + 1 + y >= (st[i] + 1) + 1
          BY <5>2, <5>3, <2>2, Zenon
        <5>5. st[e] = st[i] + d
          BY <3>3, <5>1, Zenon
        <5> QED BY <5>4, <5>5, <2>1, Zenon
      <4> QED BY <4>1, <4>2
    <3>5. ASSUME NEW l \in p + 1 .. q PROVE to[l].role = "tool"
      <4>1. y <= Len(ClosedAt(ms, e)) /\ l \in st[i] + 2 .. st[e] + 1 + y
        <5>1. y <= Len(ClosedAt(ms, e))
          BY <3>2
        <5>2. ASSUME NEW u \in Nat PROVE (u + 1) + 1 = u + 2
          OBVIOUS
        <5>3. p + 1 = st[i] + 2
          BY <5>2, <2>1, <2>2, Zenon
        <5> QED BY <5>1, <5>3, Zenon
      <4> HIDE DEF q
      <4> QED BY <4>1, <3>2, <2>7, <1>1, MendsTrail
    <3>7. to[q].answers = id
      BY <3>1, <3>4
    <3> HIDE DEF q
    <3>8. id \in ResolvedIds(to, p)
      BY <3>4, <3>5, <3>7, <2>6
    <3> QED BY <3>8, <2>5
  <2> QED BY <2>8, <2>9
<1>9. AllGrounded(to) /\ AllAnswered(to)
  BY <1>2, <1>7, <1>8 DEF AllGrounded, AllAnswered, Answered
<1> QED BY <1>2, <1>5, <1>6, <1>9 DEF to

(* In a turn, as long as it cuts nothing: the results it appends are         *)
(* grounded, whatever the conversation it started from leaves open.          *)
GroundInv ==
  ~truncated =>
    /\ AllGrounded(messages)
    /\ StepOpen => \E b \in DOMAIN messages : RunUpto(messages, batch, b, next)

LEMMA RunSkips ==
  ASSUME NEW ms \in Seq(Message), NEW cs, NEW b, NEW nx \in Nat, RunUpto(ms, cs, b, nx)
  PROVE  RunUpto(ms, cs, b, nx + 1)
<1>1. \A m \in 1 .. nx - 1 : m \in 1 .. nx + 1 - 1
  OBVIOUS
<1> QED BY <1>1 DEF RunUpto

(* The result of the call the loop is at.                                    *)
LEMMA GroundAnswers ==
  ASSUME LoopTypeInv, next <= Len(batch), NEW r \in Results,
         Append1(ToolMessage(batch[next], r)), batch' = batch, next' = next + 1,
         AllGrounded(messages), NEW b \in DOMAIN messages, RunUpto(messages, batch, b, next)
  PROVE  AllGrounded(messages') /\ b \in DOMAIN messages' /\ RunUpto(messages', batch', b, next')
<1> DEFINE t == ToolMessage(batch[next], r)
<1>1. /\ messages \in Seq(Message) /\ batch \in Seq(Call) /\ next \in 1 .. Len(batch)
      /\ \A n, m \in 1 .. Len(batch) : batch[n].id = batch[m].id => n = m
  BY DEF LoopTypeInv, LoopTypeOK, BatchOK
<1>2. batch[next] \in Call
  BY <1>1
<1>3. t \in Message
  BY <1>2, ToolMessageType
<1>4. messages' = Append(messages, t)
  BY DEF Append1
<1>5. /\ RunUpto(Append(messages, t), batch, b, next + 1)
      /\ AllGrounded(messages) => AllGrounded(Append(messages, t))
  BY <1>1, RunAnswers
<1> HIDE DEF t
<1>6. b \in DOMAIN messages'
  BY <1>1, <1>3, <1>4, AppendFacts
<1> QED BY <1>4, <1>5, <1>6

LEMMA GroundStays == LoopTypeInv /\ GroundInv /\ [LoopNext]_loopVars => GroundInv'
<1> SUFFICES ASSUME LoopTypeInv, GroundInv, [LoopNext]_loopVars, ~truncated'
             PROVE  /\ AllGrounded(messages')
                    /\ StepOpen' => \E d \in DOMAIN messages' : RunUpto(messages', batch', d, next')
  BY DEF GroundInv
<1>0. /\ messages \in Seq(Message) /\ batch \in Seq(Call)
      /\ next \in 1 .. Len(batch) + 1 /\ slots \subseteq DOMAIN batch
      /\ Len(batch) \in Nat
  BY DEF LoopTypeInv, LoopTypeOK
<1>g. ~truncated => AllGrounded(messages)
  BY DEF GroundInv
<1>step. ~truncated /\ StepOpen => \E b \in DOMAIN messages : RunUpto(messages, batch, b, next)
  BY DEF GroundInv
<1>1. CASE CancelToken \/ StreamDone \/ UNCHANGED loopVars
  <2>1. UNCHANGED <<messages, pc, batch, next, truncated>>
    BY <1>1 DEF CancelToken, StreamDone, batchVars, unchangedHistory, loopVars
  <2> QED BY <2>1, <1>g, <1>step DEF StepOpen
<1>2. CASE StopAtTop \/ StreamCancelled \/ StreamFails \/ SerialMalformed
  <2>1. UNCHANGED <<messages, truncated>> /\ pc' = "returned"
    BY <1>2 DEF StopAtTop, StreamCancelled, StreamFails, SerialMalformed, Return, batchVars, unchangedHistory
  <2> QED BY <2>1, <1>g DEF StepOpen
<1>3. CASE Request
  <2>1. pc' = "stream" /\ UNCHANGED <<messages, truncated>>
    BY <1>3 DEF Request
  <2> QED BY <2>1, <1>g DEF StepOpen
<1>4. CASE StreamEnd
  <2>0. truncated' = truncated /\ AllGrounded(messages)
    BY <1>4, <1>g DEF StreamEnd
  <2>1. CASE response.kinds # <<>>
    <3> DEFINE calls == Calls(response.kinds)
               m == AssistantCalls(calls)
               L == Len(messages) + 1
    <3>1. response.kinds \in Batches
      BY <2>1 DEF LoopTypeInv, LoopTypeOK, Responses, NoResponse
    <3>2. calls \in Seq(Call)
      BY <3>1, CallsType DEF LoopTypeInv
    <3>3. m \in Message /\ m.role # "tool" /\ m.calls = calls
      BY <3>2, CallsMessage
    <3>4. messages' = Append(messages, m) /\ batch' = calls /\ next' = 1
      BY <1>4, <2>1 DEF StreamEnd, Append1
    <3> HIDE DEF m, calls
    <3>5. AllGrounded(messages')
      BY <1>0, <2>0, <3>3, <3>4, SayingKeeps
    <3>6. Len(messages') = L /\ L \in Nat /\ DOMAIN messages' = 1 .. L /\ messages'[L].calls = batch'
      BY <1>0, <3>3, <3>4, AppendFacts
    <3>7. L \in DOMAIN messages' /\ L + 1 .. Len(messages') = {}
      BY <3>6
    <3>8. RunUpto(messages', batch', L, next')
      BY <3>6, <3>7 DEF RunUpto
    <3> QED BY <3>5, <3>7, <3>8
  <2>2. CASE response.kinds = <<>>
    <3>1. messages' = Append(messages, AssistantSays) /\ pc' \in {"check", "returned"}
      BY <1>4, <2>2 DEF StreamEnd, Append1, Return
    <3>2. AllGrounded(messages')
      BY <1>0, <2>0, <3>1, SayingKeeps, MessageTypes
    <3> QED BY <3>1, <3>2 DEF StepOpen
  <2> QED BY <2>1, <2>2
<1>5. CASE SerialCancelled \/ BatchStart \/ BatchJoined
  <2>1. UNCHANGED <<messages, batch, next, truncated>> /\ StepOpen
    BY <1>5 DEF SerialCancelled, BatchStart, BatchJoined, batchVars, unchangedHistory, StepOpen
  <2> QED BY <2>1, <1>g, <1>step
<1>6. CASE SerialOutput
  <2>1. /\ StepOpen /\ Append1(ToolMessage(batch[next], "output"))
        /\ next' = next + 1 /\ UNCHANGED <<batch, truncated>>
    BY <1>6 DEF SerialOutput, StepOpen
  <2>2. next <= Len(batch)
    BY <1>6 DEF LoopTypeInv, BatchOK, SerialOutput
  <2>3. PICK b \in DOMAIN messages : RunUpto(messages, batch, b, next)
    BY <2>1, <1>step
  <2>4. AllGrounded(messages') /\ b \in DOMAIN messages' /\ RunUpto(messages', batch', b, next')
    <3>1. "output" \in Results /\ AllGrounded(messages)
      BY <2>1, <1>g DEF Results
    <3> QED BY <2>1, <2>2, <2>3, <3>1, GroundAnswers
  <2> QED BY <2>4
<1>7. CASE CancelRest \/ Drain
  <2>1. StepOpen /\ UNCHANGED <<batch, truncated>>
    BY <1>7 DEF CancelRest, Drain, StepOpen, unchangedHistory
  <2>2. PICK b \in DOMAIN messages : RunUpto(messages, batch, b, next)
    BY <2>1, <1>step
  <2>3. CASE next > Len(batch)
    <3>1. UNCHANGED <<messages, next>>
      BY <2>3, <1>0, <1>7 DEF CancelRest, Drain
    <3> QED BY <3>1, <2>1, <2>2, <1>g
  <2>4. CASE next <= Len(batch)
    <3>1. /\ next' = next + 1
          /\ \/ UNCHANGED messages
             \/ Append1(ToolMessage(batch[next], "output"))
             \/ Append1(ToolMessage(batch[next], "cancelled"))
      <4>1. ~(next > Len(batch))
        BY <2>4, <1>0
      <4>2. CASE CancelRest
        BY <4>1, <4>2 DEF CancelRest
      <4>3. CASE Drain
        BY <4>1, <4>3 DEF Drain
      <4> QED BY <4>2, <4>3, <1>7
    <3>2. CASE UNCHANGED messages
      <4>1. RunUpto(messages, batch, b, next + 1)
        BY <2>2, <1>0, RunSkips
      <4>2. b \in DOMAIN messages' /\ RunUpto(messages', batch', b, next')
        BY <4>1, <2>1, <3>1, <3>2
      <4> QED BY <4>2, <2>1, <3>2, <1>g
    <3>3. ASSUME NEW r \in {"output", "cancelled"}, Append1(ToolMessage(batch[next], r))
          PROVE  AllGrounded(messages') /\ b \in DOMAIN messages' /\ RunUpto(messages', batch', b, next')
      <4>1. r \in Results /\ AllGrounded(messages)
        BY <2>1, <1>g DEF Results
      <4> QED BY <2>1, <2>2, <2>4, <3>1, <3>3, <4>1, GroundAnswers
    <3> QED BY <3>1, <3>2, <3>3
  <2> QED BY <2>3, <2>4, <1>0
<1>8. ASSUME NEW n \in DOMAIN batch, ToolDone(n)
      PROVE  /\ AllGrounded(messages')
             /\ StepOpen' => \E d \in DOMAIN messages' : RunUpto(messages', batch', d, next')
  <2>1. UNCHANGED <<messages, batch, next, truncated>> /\ StepOpen
    BY <1>8 DEF ToolDone, StepOpen
  <2> QED BY <2>1, <1>g, <1>step
<1> QED BY <1>1, <1>2, <1>3, <1>4, <1>5, <1>6, <1>7, <1>8 DEF LoopNext, LoopStep, LoopInput

-----------------------------------------------------------------------------
(* What a step of the loop appends to the log and to its conversation: a     *)
(* message without calls, or the calls of the step under fresh ids.          *)
Declares(cs) ==
  /\ cs \in Seq(Call) /\ nextId' = nextId + Len(cs)
  /\ \A k \in 1 .. Len(cs) : cs[k].id = nextId + k - 1
  /\ Append1(AssistantCalls(cs))

LEMMA StepAppends ==
  ASSUME LoopTypeInv, LoopNext
  PROVE  \/ UNCHANGED <<log, messages, nextId>>
         \/ nextId' = nextId /\ \E m \in Message : m.calls = <<>> /\ Append1(m)
         \/ \E cs : Declares(cs)
         \/ UNCHANGED <<log, nextId>> /\ truncated'
<1>0. batch \in Seq(Call)
  BY DEF LoopTypeInv, LoopTypeOK
<1>r. {"output", "cancelled"} \subseteq Results
  BY DEF Results
<1>t. ASSUME NEW r \in {"output", "cancelled"}, next \in DOMAIN batch
      PROVE  ToolMessage(batch[next], r) \in Message /\ ToolMessage(batch[next], r).calls = <<>>
  <2>1. batch[next] \in Call /\ r \in Results
    BY <1>0, <1>r, <1>t
  <2> QED BY <2>1, ToolMessageType
<1>1. CASE Request
  BY <1>1 DEF Request
<1>2. CASE StopAtTop \/ StreamCancelled \/ SerialCancelled \/ SerialMalformed \/ BatchStart \/ BatchJoined
  BY <1>2 DEF StopAtTop, StreamCancelled, SerialCancelled, SerialMalformed, BatchStart, BatchJoined, unchangedHistory
<1>3. CASE CancelToken \/ StreamDone \/ StreamFails \/ \E n \in DOMAIN batch : ToolDone(n)
  BY <1>3 DEF CancelToken, StreamDone, StreamFails, ToolDone, unchangedHistory
<1>4. CASE CancelRest \/ Drain
  <2>1. nextId' = nextId
    BY <1>4 DEF CancelRest, Drain, unchangedHistory
  <2>2. \/ UNCHANGED <<log, messages>>
        \/ next <= Len(batch) /\ \E r \in {"output", "cancelled"} : Append1(ToolMessage(batch[next], r))
    <3>1. CASE CancelRest
      BY <3>1 DEF CancelRest
    <3>2. CASE Drain
      BY <3>2 DEF Drain
    <3> QED BY <1>4, <3>1, <3>2
  <2>3. next <= Len(batch) => next \in DOMAIN batch
    BY DEF LoopTypeInv, LoopTypeOK
  <2> QED BY <2>1, <2>2, <2>3, <1>t
<1>5. CASE SerialOutput
  <2>1. nextId' = nextId /\ Append1(ToolMessage(batch[next], "output"))
    BY <1>5 DEF SerialOutput
  <2>2. next \in DOMAIN batch
    BY <1>5 DEF SerialOutput, LoopTypeInv, LoopTypeOK, BatchOK
  <2> QED BY <2>1, <2>2, <1>t
<1>6. CASE StreamEnd
  <2>1. CASE response.kinds # <<>>
    <3>1. response.kinds \in Batches
      BY <2>1 DEF LoopTypeInv, LoopTypeOK, Responses, NoResponse
    <3> DEFINE cs == Calls(response.kinds)
    <3>2. /\ cs \in Seq(Call) /\ Len(cs) = Len(response.kinds)
          /\ \A k \in 1 .. Len(response.kinds) : cs[k].id = nextId + k - 1
      BY <3>1, CallsType DEF LoopTypeInv
    <3>3. nextId' = nextId + Len(cs) /\ Append1(AssistantCalls(cs))
      BY <1>6, <2>1 DEF StreamEnd
    <3> HIDE DEF cs
    <3>4. Declares(cs)
      BY <3>2, <3>3 DEF Declares
    <3> QED BY <3>4
  <2>2. CASE response.kinds = <<>>
    BY <1>6, <2>2, MessageTypes DEF StreamEnd
  <2> QED BY <2>1, <2>2
<1> QED BY <1>1, <1>2, <1>3, <1>4, <1>5, <1>6 DEF LoopNext, LoopStep, LoopInput

(* What a conversation, or a log, must be for the next step.                 *)
Tidy(ms, n) == ms # <<>> /\ Apart(ms, n) /\ Opens(ms)

LEMMA TidyAppend ==
  ASSUME NEW ms \in Seq(Message), NEW n \in Nat, Tidy(ms, n)
  PROVE  /\ \A m \in Message : m.calls = <<>> => Tidy(Append(ms, m), n)
         /\ \A cs \in Seq(Call) : (\A k \in 1 .. Len(cs) : cs[k].id = n + k - 1)
                                    => Tidy(Append(ms, AssistantCalls(cs)), n + Len(cs))
<1>1. ASSUME NEW m \in Message, m.calls = <<>> PROVE Tidy(Append(ms, m), n)
  <2>1. Append(ms, m) # <<>> /\ Apart(Append(ms, m), n) /\ Opens(Append(ms, m))
    BY <1>1, ApartAppend DEF Tidy
  <2> QED BY <2>1 DEF Tidy
<1>2. ASSUME NEW cs \in Seq(Call), \A k \in 1 .. Len(cs) : cs[k].id = n + k - 1
      PROVE  Tidy(Append(ms, AssistantCalls(cs)), n + Len(cs))
  <2>1. AssistantCalls(cs) \in Message
    BY CallsMessage
  <2>2. Apart(Append(ms, AssistantCalls(cs)), n + Len(cs))
    BY <1>2, ApartOpens DEF Tidy
  <2>3. Append(ms, AssistantCalls(cs)) # <<>> /\ Append(ms, AssistantCalls(cs))[1] = ms[1]
    BY <2>1, FirstStays DEF Tidy
  <2> QED BY <2>2, <2>3 DEF Tidy, Opens
<1> QED BY <1>1, <1>2

(* A step keeps the log tidy and, unless it cuts it, the conversation.       *)
LEMMA TidyStays ==
  ASSUME LoopTypeInv, LoopNext
  PROVE  /\ Tidy(log, nextId) => Tidy(log', nextId')
         /\ Tidy(messages, nextId) /\ ~truncated' => Tidy(messages', nextId')
<1>0. log \in Seq(Message) /\ messages \in Seq(Message) /\ nextId \in Nat
  BY DEF LoopTypeInv, LoopTypeOK
<1>1. CASE UNCHANGED <<log, messages, nextId>>
  BY <1>1
<1>2. ASSUME nextId' = nextId, NEW m \in Message, m.calls = <<>>, Append1(m)
      PROVE  /\ Tidy(log, nextId) => Tidy(log', nextId')
             /\ Tidy(messages, nextId) => Tidy(messages', nextId')
  <2>1. log' = Append(log, m) /\ messages' = Append(messages, m)
    BY <1>2 DEF Append1
  <2>2. Tidy(log, nextId) => Tidy(Append(log, m), nextId)
    BY <1>0, <1>2, TidyAppend
  <2>3. Tidy(messages, nextId) => Tidy(Append(messages, m), nextId)
    BY <1>0, <1>2, TidyAppend
  <2> QED BY <1>2, <2>1, <2>2, <2>3
<1>3. ASSUME NEW cs, Declares(cs)
      PROVE  /\ Tidy(log, nextId) => Tidy(log', nextId')
             /\ Tidy(messages, nextId) => Tidy(messages', nextId')
  <2>1. /\ log' = Append(log, AssistantCalls(cs)) /\ messages' = Append(messages, AssistantCalls(cs))
        /\ nextId' = nextId + Len(cs) /\ cs \in Seq(Call)
        /\ \A k \in 1 .. Len(cs) : cs[k].id = nextId + k - 1
    BY <1>3 DEF Declares, Append1
  <2>2. Tidy(log, nextId) => Tidy(Append(log, AssistantCalls(cs)), nextId + Len(cs))
    BY <1>0, <2>1, TidyAppend
  <2>3. Tidy(messages, nextId) => Tidy(Append(messages, AssistantCalls(cs)), nextId + Len(cs))
    BY <1>0, <2>1, TidyAppend
  <2> QED BY <2>1, <2>2, <2>3
<1>4. CASE UNCHANGED <<log, nextId>> /\ truncated'
  BY <1>4
<1> QED BY <1>1, <1>2, <1>3, <1>4, StepAppends

-----------------------------------------------------------------------------
(* What every submit finds, and leaves: the log keeps calls apart whatever   *)
(* happens, and messages still to be written declare none.                   *)
LogServed ==
  /\ Apart(log, nextId) /\ Opens(log)
  /\ mode \in {"ready", "turn"} => log # <<>>
  /\ \A m \in ToSet(toWrite) : m.calls = <<>>
  /\ mode # "turn" => pc = "idle"

LEMMA LogServedInit == Init => LogServed
BY DEF Init, Quiet, LogServed, Apart, Opens, ToSet

LEMMA LogServedStays ==
  ASSUME ConversationTypeInv, LogServed, [Next]_vars
  PROVE  LogServed'
<1>0. LoopTypeInv /\ DataOK /\ UnderWayOK /\ LoopTypeOK
  BY ConversationTypeParts DEF LoopTypeInv
<1>t. log \in Seq(Message) /\ history \in Seq(Message) /\ toWrite \in Seq(Message) /\ nextId \in Nat
  BY <1>0 DEF LoopTypeOK, DataOK
<1>f. /\ Apart(log, nextId) /\ Opens(log)
      /\ mode \in {"ready", "turn"} => log # <<>>
      /\ \A m \in ToSet(toWrite) : m.calls = <<>>
      /\ mode # "turn" => pc = "idle"
  BY DEF LogServed
<1>a. ASSUME NEW m \in Message, m.calls = <<>>, log' = Append(log, m), nextId' = nextId
      PROVE  Apart(log', nextId') /\ Opens(log') /\ log' # <<>>
  BY <1>a, <1>t, <1>f, ApartAppend
<1>1. CASE Submit
  <2> DEFINE rm == RepairMessages(history)
  <2>1. rm \in Seq(Message) /\ ToSet(rm) = {Synthetic(c) : c \in ToSet(DanglingCalls(history))}
    BY <1>t, RepairMessagesType
  <2>2. \A m \in ToSet(rm) : m.calls = <<>>
    BY <2>1 DEF Synthetic, ToolMessage
  <2>3. toWrite' = Append(rm, UserMessage) /\ UNCHANGED <<log, nextId, pc>> /\ mode = "idle" /\ mode' = "writing"
    BY <1>1 DEF Submit, loopVars
  <2> HIDE DEF rm
  <2>4. ToSet(Append(rm, UserMessage)) = ToSet(rm) \cup {UserMessage}
    BY <2>1, AppendSet, MessageTypes
  <2>5. \A m \in ToSet(toWrite') : m.calls = <<>>
    BY <2>2, <2>3, <2>4, MessageTypes
  <2> QED BY <2>3, <2>5, <1>f DEF LogServed
<1>2. CASE WriteNext
  <2>1. /\ mode = "writing" /\ toWrite # <<>> /\ mode' \in {"writing", "ready"}
        /\ log' = Append(log, Head(toWrite)) /\ toWrite' = Tail(toWrite) /\ UNCHANGED <<nextId, pc>>
    BY <1>2 DEF WriteNext, unchangedHistory
  <2>2. ToSet(toWrite) = {Head(toWrite)} \cup ToSet(Tail(toWrite))
    BY <1>t, <2>1, TailSet
  <2>3. Head(toWrite) \in Message /\ Head(toWrite).calls = <<>>
    BY <1>t, <1>f, <2>1, <2>2
  <2>4. Apart(log', nextId') /\ Opens(log') /\ log' # <<>>
    BY <1>a, <2>1, <2>3
  <2>5. \A m \in ToSet(toWrite') : m.calls = <<>>
    BY <1>f, <2>1, <2>2
  <2> QED BY <2>1, <2>4, <2>5, <1>f DEF LogServed
<1>3. CASE \/ Compact \/ ProviderUnavailable \/ CloseRows \/ Load \/ UNCHANGED vars
           \/ (\E n \in DOMAIN batch : AskQuestion(n)) \/ (\E id \in openRows : AnswerRefused(id))
  <2>1. /\ UNCHANGED <<log, nextId, pc, toWrite>>
        /\ mode' = mode \/ (mode = "ready" /\ mode' = "idle") \/ (mode = "down" /\ mode' = "boot")
    BY <1>3 DEF Compact, ProviderUnavailable, CloseRows, Load, AskQuestion, AnswerRefused, vars, sessionVars, loopVars
  <2> QED BY <2>1, <1>f DEF LogServed
<1>4. CASE Launch \/ NetworkRetry
  <2>1. mode \in {"ready", "turn"} /\ mode' = "turn" /\ UNCHANGED <<log, nextId, toWrite>>
    BY <1>4 DEF Launch, StartTurn, NetworkRetry
  <2> QED BY <2>1, <1>f DEF LogServed
<1>5. CASE TurnStep
  <2>1. mode = "turn" /\ mode' = "turn" /\ LoopNext /\ UNCHANGED toWrite
    BY <1>5 DEF TurnStep
  <2>2. Tidy(log', nextId')
    BY <2>1, <1>0, <1>f, TidyStays DEF Tidy
  <2> QED BY <2>1, <2>2, <1>f DEF LogServed, Tidy
<1>6. CASE TurnOk \/ TurnError \/ Crash
  <2>1. /\ UNCHANGED <<log, nextId>> /\ toWrite' \in {toWrite, <<>>}
        /\ mode' \in {"idle", "down"} /\ pc' = "idle"
    BY <1>6 DEF TurnOk, TurnError, EndTurn, Crash, Quieten
  <2>2. ToSet(<<>>) = {}
    BY DEF ToSet
  <2> QED BY <2>1, <2>2, <1>f DEF LogServed
<1>7. ASSUME NEW id \in openRows, LateAnswer(id)
      PROVE  LogServed'
  <2>1. toWrite' = <<ToolMessage(OpenCall(id), "output")>> /\ UNCHANGED <<log, nextId, pc>>
        /\ mode = "idle" /\ mode' = "resuming"
    BY <1>7 DEF LateAnswer, unchangedHistory
  <2>2. \A m \in ToSet(toWrite') : m = ToolMessage(OpenCall(id), "output")
    BY <2>1 DEF ToSet
  <2> QED BY <2>1, <2>2, <1>f DEF LogServed, ToolMessage
<1>8. CASE LateAnswerUndone
  <2>1. toWrite' = <<>> /\ UNCHANGED <<log, nextId, pc>> /\ mode = "resuming" /\ mode' = "idle"
    BY <1>8 DEF LateAnswerUndone, unchangedHistory
  <2>2. ToSet(toWrite') = {}
    BY <2>1 DEF ToSet
  <2> QED BY <2>1, <2>2, <1>f DEF LogServed
<1>9. CASE ResumeTurn
  <2>1. /\ mode = "resuming" /\ log' = log \o toWrite /\ toWrite' = <<>> /\ nextId' = nextId /\ mode' = "turn"
    BY <1>9 DEF ResumeTurn, StartTurn
  <2>2. Len(toWrite) = 1
    BY <2>1, <1>0 DEF UnderWayOK
  <2>0. ASSUME NEW s \in Seq(Message), Len(s) = 1
        PROVE  s[1] \in Message /\ 1 \in DOMAIN s /\ \A lg \in Seq(Message) : lg \o s = Append(lg, s[1])
    <3>1. s[1] \in Message /\ 1 \in DOMAIN s
      BY <2>0
    <3>2. s = <<s[1]>>
      BY <2>0
    <3>3. ASSUME NEW m \in Message, NEW lg \in Seq(Message) PROVE lg \o <<m>> = Append(lg, m)
      OBVIOUS
    <3> QED BY <3>1, <3>2, <3>3, Zenon
  <2>3. toWrite[1] \in Message /\ 1 \in DOMAIN toWrite
    BY <1>t, <2>0, <2>2, Zenon
  <2>4. toWrite[1].calls = <<>>
    BY <2>3, <1>f DEF ToSet
  <2>5. log \o toWrite = Append(log, toWrite[1])
    BY <1>t, <2>0, <2>2, Zenon
  <2>6. Apart(log', nextId') /\ Opens(log') /\ log' # <<>>
    BY <1>a, <2>1, <2>3, <2>4, <2>5
  <2>7. ToSet(toWrite') = {}
    BY <2>1 DEF ToSet
  <2> QED BY <2>1, <2>6, <2>7 DEF LogServed
<1>10. ASSUME NEW id \in openRows, ExpireRow(id)
       PROVE  LogServed'
  <2>1. mode = "boot" /\ UNCHANGED <<mode, toWrite, nextId, pc>>
    BY <1>10 DEF ExpireRow, unchangedHistory
  <2>2. CASE id \in DanglingIds(history)
    <3>1. log' = Append(log, ToolMessage(OpenCall(id), "expired"))
      BY <1>10, <2>2, Zenon DEF ExpireRow
    <3>2. OpenCall(id) \in Call /\ "expired" \in Results
      BY <2>2, OpenCallType DEF Results
    <3>3. ToolMessage(OpenCall(id), "expired") \in Message /\ ToolMessage(OpenCall(id), "expired").calls = <<>>
      BY <3>2, ToolMessageType
    <3>4. Apart(log', nextId') /\ Opens(log')
      BY <1>a, <2>1, <3>1, <3>3
    <3> QED BY <2>1, <3>4, <1>f DEF LogServed
  <2>3. CASE id \notin DanglingIds(history)
    <3>1. log' = log
      BY <1>10, <2>3 DEF ExpireRow
    <3> QED BY <2>1, <3>1, <1>f DEF LogServed
  <2> QED BY <2>2, <2>3
<1>11. CASE Booted
  <2>1. mode = "boot" /\ mode' = "idle" /\ UNCHANGED <<toWrite, nextId, pc>> /\ log' \in {log, Front(log)}
    BY <1>11 DEF Booted, unchangedHistory
  <2>2. Apart(Front(log), nextId) /\ Opens(Front(log))
    <3>1. CASE log = <<>>
      <4>1. Front(<<>>) = <<>>
        BY DEF Front
      <4> QED BY <3>1, <4>1, <1>f
    <3>2. CASE log # <<>>
      BY <3>2, <1>t, <1>f, FrontServes
    <3> QED BY <3>1, <3>2
  <2> QED BY <2>1, <2>2, <1>f DEF LogServed
<1> QED BY <1>1, <1>2, <1>3, <1>4, <1>5, <1>6, <1>7, <1>8, <1>9, <1>10, <1>11 DEF Next

(* The history, while nothing was cut from it and no log was loaded with     *)
(* results out of place: the repair of a submit answers all of it.           *)
HistoryServed ==
  /\ Apart(history, nextId) /\ Opens(history) /\ AllGrounded(history)
  /\ mode \in {"writing", "ready"} \/ (mode = "turn" /\ ~resumed) => AllAnswered(history) /\ history # <<>>

(* The conversation of a turn, from its late answer or its launch on.        *)
TurnServed ==
  /\ mode = "resuming" => Tidy(messages, nextId) /\ AllGrounded(messages)
  /\ mode = "turn" => GroundInv /\ (~truncated => Tidy(messages, nextId))
  /\ mode = "turn" /\ ~resumed => PairingInv

ServedInv ==
  /\ LogServed
  /\ ~cut /\ ~soiled => HistoryServed /\ TurnServed

LEMMA ServedInit == Init => ServedInv
<1> SUFFICES ASSUME Init PROVE ServedInv
  OBVIOUS
<1>1. LogServed
  BY LogServedInit
<1>2. mode = "idle" /\ history = <<>>
  BY DEF Init
<1>3. HistoryServed /\ TurnServed
  BY <1>2 DEF HistoryServed, TurnServed, Apart, Opens, AllGrounded
<1> QED BY <1>1, <1>3 DEF ServedInv

(* Only a load forgets a cut and a soiled log.                               *)
LEMMA CutAndSoiledStay ==
  ASSUME [Next]_vars, ~cut', ~soiled'
  PROVE  Load \/ (~cut /\ ~soiled)
<1>1. CASE Submit \/ WriteNext \/ Launch \/ ProviderUnavailable \/ TurnStep \/ CloseRows \/ TurnError \/ NetworkRetry
  BY <1>1 DEF Submit, WriteNext, Launch, ProviderUnavailable, TurnStep, CloseRows, TurnError, NetworkRetry
<1>2. CASE Compact
  BY <1>2 DEF Compact
<1>3. CASE TurnOk
  BY <1>3 DEF TurnOk
<1>4. CASE LateAnswerUndone \/ ResumeTurn \/ Crash \/ Booted \/ UNCHANGED vars
  BY <1>4 DEF LateAnswerUndone, ResumeTurn, Crash, Booted, vars, sessionVars
<1>5. CASE \E n \in DOMAIN batch : AskQuestion(n)
  BY <1>5 DEF AskQuestion
<1>6. ASSUME NEW id \in openRows, LateAnswer(id) \/ AnswerRefused(id)
      PROVE  ~cut /\ ~soiled
  BY <1>6 DEF LateAnswer, AnswerRefused
<1>7. ASSUME NEW id \in openRows, ExpireRow(id)
      PROVE  ~cut /\ ~soiled
  <2>1. UNCHANGED <<cut, soiled>>
    BY <1>7 DEF ExpireRow
  <2> QED BY <2>1
<1> QED BY <1>1, <1>2, <1>3, <1>4, <1>5, <1>6, <1>7 DEF Next

LEMMA HistoryServedStays ==
  ASSUME ConversationTypeInv, HistoryServed, TurnServed, [Next]_vars, ~Load, ~cut', ~soiled'
  PROVE  HistoryServed'
<1>0. LoopTypeInv /\ DataOK /\ LoopTypeOK
  BY ConversationTypeParts DEF LoopTypeInv
<1>t. messages \in Seq(Message) /\ history \in Seq(Message) /\ nextId \in Nat
  BY <1>0 DEF LoopTypeOK, DataOK
<1>f. /\ Apart(history, nextId) /\ Opens(history) /\ AllGrounded(history)
      /\ mode \in {"writing", "ready"} \/ (mode = "turn" /\ ~resumed) => AllAnswered(history) /\ history # <<>>
  BY DEF HistoryServed
<1>1. CASE Submit
  <2> DEFINE to == Repaired(history)
  <2>1. /\ to \in Seq(Message) /\ Apart(to, nextId) /\ Opens(to)
        /\ AllGrounded(to) /\ AllAnswered(to)
    BY <1>t, <1>f, RepairServes
  <2>2. history' = Append(to, UserMessage) /\ nextId' = nextId
    BY <1>1 DEF Submit, loopVars
  <2> HIDE DEF to
  <2>3. /\ Apart(Append(to, UserMessage), nextId) /\ Opens(Append(to, UserMessage))
        /\ Append(to, UserMessage) # <<>>
    BY <1>t, <2>1, ApartAppend, MessageTypes
  <2>4. AllAnswered(Append(to, UserMessage)) /\ AllGrounded(Append(to, UserMessage))
    BY <2>1, SayingKeeps, MessageTypes
  <2> QED BY <2>2, <2>3, <2>4 DEF HistoryServed
<1>2. CASE WriteNext \/ CloseRows \/ NetworkRetry \/ UNCHANGED vars \/ \E n \in DOMAIN batch : AskQuestion(n)
  <2>1. UNCHANGED <<history, nextId, resumed>> /\ (mode' = mode \/ (mode = "writing" /\ mode' = "ready"))
    BY <1>2 DEF WriteNext, CloseRows, NetworkRetry, AskQuestion, vars, sessionVars, loopVars, unchangedHistory
  <2> QED BY <2>1, <1>f DEF HistoryServed
<1>3. CASE Compact
  BY <1>3 DEF Compact
<1>4. CASE Launch
  <2>1. mode = "ready" /\ UNCHANGED <<history, nextId>>
    BY <1>4 DEF Launch
  <2> QED BY <2>1, <1>f DEF HistoryServed
<1>5. CASE ProviderUnavailable
  <2>1. mode = "ready" /\ mode' = "idle" /\ nextId' = nextId /\ history' \in {history, Front(history)}
    BY <1>5 DEF ProviderUnavailable, loopVars
  <2>2. Apart(Front(history), nextId) /\ Opens(Front(history)) /\ AllGrounded(Front(history))
    BY <2>1, <1>t, <1>f, FrontServes
  <2> QED BY <2>1, <2>2, <1>f DEF HistoryServed
<1>6. CASE TurnStep
  <2>1. LoopNext /\ UNCHANGED <<mode, history, resumed>>
    BY <1>6 DEF TurnStep
  <2>2. nextId' \in Nat /\ nextId <= nextId'
    BY <2>1, <1>0, IdsGrow
  <2>3. Apart(history, nextId')
    BY <2>2, <1>t, <1>f, ApartLater
  <2> QED BY <2>1, <2>3, <1>f DEF HistoryServed
<1>7. CASE TurnOk
  <2>1. mode = "turn" /\ mode' = "idle" /\ history' = messages /\ ~truncated /\ nextId' = nextId
    BY <1>7 DEF TurnOk, EndTurn
  <2>2. Tidy(messages, nextId) /\ AllGrounded(messages)
    BY <2>1 DEF TurnServed, GroundInv
  <2> QED BY <2>1, <2>2 DEF HistoryServed, Tidy
<1>8. CASE TurnError \/ LateAnswerUndone \/ ResumeTurn \/ \E id \in openRows : LateAnswer(id) \/ AnswerRefused(id)
  <2>1. /\ UNCHANGED <<history, nextId>>
        /\ mode' \in {"idle", "resuming"} \/ (mode' = "turn" /\ resumed')
    BY <1>8 DEF TurnError, EndTurn, LateAnswerUndone, ResumeTurn, StartTurn, LateAnswer, AnswerRefused,
                unchangedHistory, loopVars
  <2> QED BY <2>1, <1>f DEF HistoryServed
<1>9. CASE Crash
  <2>1. history' = <<>> /\ mode' = "down"
    BY <1>9 DEF Crash
  <2> QED BY <2>1 DEF HistoryServed, Apart, Opens, AllGrounded
<1>10. ASSUME NEW id \in openRows, ExpireRow(id)
       PROVE  HistoryServed'
  <2>1. mode = "boot" /\ UNCHANGED <<mode, nextId>>
    BY <1>10 DEF ExpireRow, unchangedHistory
  <2>2. CASE id \in DanglingIds(history)
    <3> DEFINE to == WithLateResult(history, OpenCall(id), "expired")
    <3>1. history' = to
      BY <1>10, <2>2, Zenon DEF ExpireRow
    <3>2. OpenCall(id) \in ToSet(DanglingCalls(history)) /\ "expired" \in Results
      BY <2>2, OpenCallType DEF Results
    <3>3. Apart(to, nextId) /\ AllGrounded(to) /\ Opens(to)
      BY <1>t, <1>f, <3>2, LateResultServes
    <3> HIDE DEF to
    <3> QED BY <2>1, <3>1, <3>3 DEF HistoryServed
  <2>3. CASE id \notin DanglingIds(history)
    <3>1. history' = history
      BY <1>10, <2>3 DEF ExpireRow
    <3> QED BY <2>1, <3>1, <1>f DEF HistoryServed
  <2> QED BY <2>2, <2>3
<1>11. CASE Booted
  <2>1. mode = "boot" /\ mode' = "idle" /\ nextId' = nextId
    BY <1>11 DEF Booted, unchangedHistory
  <2>2. CASE history' = history
    BY <2>1, <2>2, <1>f DEF HistoryServed
  <2>3. CASE history' # history
    <3>1. history # <<>> /\ history' = Front(history)
      BY <1>11, <2>3 DEF Booted, EndsInCalls
    <3>2. Apart(Front(history), nextId) /\ Opens(Front(history)) /\ AllGrounded(Front(history))
      BY <3>1, <1>t, <1>f, FrontServes
    <3> QED BY <2>1, <3>1, <3>2 DEF HistoryServed
  <2> QED BY <2>2, <2>3
<1> QED BY <1>1, <1>2, <1>3, <1>4, <1>5, <1>6, <1>7, <1>8, <1>9, <1>10, <1>11 DEF Next

LEMMA TurnServedStays ==
  ASSUME ConversationTypeInv, HistoryServed, TurnServed, [Next]_vars
  PROVE  TurnServed'
<1>0. LoopTypeInv /\ DataOK /\ LoopTypeOK
  BY ConversationTypeParts DEF LoopTypeInv
<1>t. messages \in Seq(Message) /\ history \in Seq(Message) /\ nextId \in Nat
  BY <1>0 DEF LoopTypeOK, DataOK
<1>1. CASE \/ Submit \/ WriteNext \/ Compact \/ ProviderUnavailable \/ TurnOk \/ TurnError
           \/ LateAnswerUndone \/ Crash \/ Load \/ Booted
           \/ \E id \in openRows : AnswerRefused(id) \/ ExpireRow(id)
  <2>1. mode' \notin {"resuming", "turn"}
    <3>1. CASE Submit \/ WriteNext \/ Compact \/ ProviderUnavailable \/ TurnOk \/ TurnError
      BY <3>1 DEF Submit, WriteNext, Compact, ProviderUnavailable, TurnOk, TurnError, EndTurn
    <3>2. CASE LateAnswerUndone \/ Crash \/ Load \/ Booted
      BY <3>2 DEF LateAnswerUndone, Crash, Load, Booted
    <3>3. ASSUME NEW id \in openRows, AnswerRefused(id) \/ ExpireRow(id)
          PROVE  mode' \notin {"resuming", "turn"}
      BY <3>3 DEF AnswerRefused, ExpireRow
    <3> QED BY <1>1, <3>1, <3>2, <3>3
  <2> QED BY <2>1 DEF TurnServed
<1>2. CASE CloseRows \/ UNCHANGED vars \/ \E n \in DOMAIN batch : AskQuestion(n)
  <2>1. UNCHANGED loopVars /\ UNCHANGED <<mode, resumed>>
    BY <1>2 DEF CloseRows, AskQuestion, vars, sessionVars
  <2>2. UNCHANGED <<messages, batch, next, pc, outcome, slots, truncated, nextId>>
    BY <2>1 DEF loopVars
  <2>3. (GroundInv => GroundInv') /\ (PairingInv => PairingInv')
    BY <2>1, <1>0, GroundStays, PairingStays
  <2> QED BY <2>1, <2>2, <2>3 DEF TurnServed
<1>3. CASE Launch \/ NetworkRetry
  <2>1. /\ messages' = history /\ pc' = "check" /\ truncated' = FALSE /\ nextId' = nextId
        /\ mode = "ready" \/ (mode = "turn" /\ ~resumed)
        /\ mode' = "turn"
    BY <1>3 DEF Launch, StartTurn, NetworkRetry, Freshen
  <2>2. /\ Apart(history, nextId) /\ Opens(history) /\ AllGrounded(history)
        /\ AllAnswered(history) /\ history # <<>>
    BY <2>1 DEF HistoryServed
  <2>3. GroundInv' /\ Tidy(messages', nextId')
    BY <2>1, <2>2 DEF GroundInv, StepOpen, Tidy
  <2>4. PairingInv'
    BY <2>1, <2>2 DEF PairingInv, StepOpen, Opens
  <2> QED BY <2>1, <2>3, <2>4 DEF TurnServed
<1>4. CASE TurnStep
  <2>1. LoopNext /\ mode = "turn" /\ UNCHANGED <<mode, resumed>>
    BY <1>4 DEF TurnStep
  <2>2. GroundInv'
    BY <2>1, <1>0, GroundStays DEF TurnServed
  <2>3. ~resumed => PairingInv'
    BY <2>1, <1>0, PairingStays DEF TurnServed
  <2>4. ~truncated' => Tidy(messages', nextId')
    <3>1. truncated => truncated'
      BY <2>1 DEF LoopNext, LoopStep, LoopInput, CancelToken, StopAtTop, Request, StreamDone, StreamCancelled,
                  StreamFails, StreamEnd, SerialCancelled, SerialMalformed, SerialOutput, CancelRest, BatchStart,
                  ToolDone, BatchJoined, Drain, unchangedHistory
    <3> QED BY <2>1, <3>1, <1>0, TidyStays DEF TurnServed
  <2> QED BY <2>1, <2>2, <2>3, <2>4 DEF TurnServed
<1>5. ASSUME NEW id \in openRows, LateAnswer(id)
      PROVE  TurnServed'
  <2> DEFINE to == WithLateResult(history, OpenCall(id), "output")
  <2>1. mode' = "resuming" /\ nextId' = nextId /\ messages' = to /\ id \in DanglingIds(history)
    BY <1>5 DEF LateAnswer, unchangedHistory
  <2>2. OpenCall(id) \in ToSet(DanglingCalls(history)) /\ "output" \in Results
    BY <2>1, OpenCallType DEF Results
  <2>3. Apart(to, nextId) /\ AllGrounded(to) /\ Opens(to) /\ to # <<>>
    BY <1>t, <2>2, LateResultServes DEF HistoryServed
  <2> HIDE DEF to
  <2> QED BY <2>1, <2>3 DEF TurnServed, Tidy
<1>6. CASE ResumeTurn
  <2>1. /\ mode = "resuming" /\ mode' = "turn" /\ resumed' = TRUE /\ pc' = "check"
        /\ messages' = messages /\ nextId' = nextId
    BY <1>6 DEF ResumeTurn, StartTurn
  <2>2. Tidy(messages, nextId) /\ AllGrounded(messages)
    BY <2>1 DEF TurnServed
  <2> QED BY <2>1, <2>2 DEF TurnServed, GroundInv, StepOpen
<1> QED BY <1>1, <1>2, <1>3, <1>4, <1>5, <1>6 DEF Next

LEMMA ServedStays ==
  ASSUME ConversationTypeInv, ServedInv, [Next]_vars
  PROVE  ServedInv'
<1>1. LogServed'
  BY LogServedStays DEF ServedInv
<1>2. ASSUME ~cut', ~soiled' PROVE HistoryServed' /\ TurnServed'
  <2>1. CASE Load
    <3>1. /\ history' = log /\ mode' = "boot" /\ nextId' = nextId
          /\ \A k \in DOMAIN log : log[k].role = "tool" => Grounded(log, k)
      BY <2>1, <1>2 DEF Load, loopVars
    <3>2. Apart(log, nextId) /\ Opens(log) /\ AllGrounded(log)
      BY <3>1 DEF ServedInv, LogServed, AllGrounded
    <3> QED BY <3>1, <3>2 DEF HistoryServed, TurnServed
  <2>2. CASE ~Load
    <3>1. HistoryServed /\ TurnServed
      BY <1>2, <2>2, CutAndSoiledStay DEF ServedInv
    <3>2. HistoryServed'
      BY <1>2, <2>2, <3>1, HistoryServedStays
    <3>3. TurnServed'
      BY <3>1, TurnServedStays
    <3> QED BY <3>2, <3>3
  <2> QED BY <2>1, <2>2
<1> QED BY <1>1, <1>2 DEF ServedInv

(* Whatever was cancelled, failed, retried, crashed or left unanswered       *)
(* before: a submitted turn sends only requests a provider accepts, unless   *)
(* its conversation was cut or the log was loaded with results out of their  *)
(* place (handle_submit's repair, late answers, the restoration).            *)
THEOREM SubmissionsValid == Spec => []SubmittedValid
<1>1. ConversationTypeInv /\ ServedInv => SubmittedValid
  <2> SUFFICES ASSUME ServedInv, pc = "stream", ~truncated, ~cut, ~resumed, ~soiled
               PROVE  ProviderValid(messages)
    BY DEF SubmittedValid, Sends
  <2>1. mode = "turn"
    BY DEF ServedInv, LogServed
  <2>2. PairingInv
    BY <2>1 DEF ServedInv, TurnServed
  <2> QED BY <2>2 DEF PairingInv, ProviderValid, AllAnswered, AllGrounded
<1>2. Init => ConversationTypeInv /\ ServedInv
  BY ConversationInitTyped, ServedInit
<1>3. ConversationTypeInv /\ ServedInv /\ [Next]_vars => (ConversationTypeInv /\ ServedInv)'
  BY ConversationTyped, ServedStays
<1> QED BY <1>1, <1>2, <1>3, PTL DEF Spec
=============================================================================
