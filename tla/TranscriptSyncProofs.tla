------------------------- MODULE TranscriptSyncProofs -------------------------
(***************************************************************************)
(* Theorems about TranscriptSync, for every number of runs, turns and      *)
(* faults, every archive and any number of tracked cursors: the state      *)
(* keeps its types, a pass of the loop stores no call of the turn that is  *)
(* under way, the rows of a run that is tracked are the first entries of   *)
(* its transcript, as the cursor says, and no entry is shown twice.        *)
(***************************************************************************)
EXTENDS TranscriptSync, SequenceLemmas

-----------------------------------------------------------------------------
(* Entries and messages whose ids have been given out.                     *)
EntryUpto(n) == {e \in Entry : e.id <= n}
MessageUpto(n) == {m \in Message : m.id <= n}

LEMMA UptoGrows ==
  ASSUME NEW n \in Nat, NEW k \in Nat, n <= k
  PROVE  /\ EntryUpto(n) \subseteq EntryUpto(k) /\ MessageUpto(n) \subseteq MessageUpto(k)
         /\ Seq(EntryUpto(n)) \subseteq Seq(EntryUpto(k))
         /\ Seq(MessageUpto(n)) \subseteq Seq(MessageUpto(k))
<1>1. ASSUME NEW e \in EntryUpto(n) PROVE e \in EntryUpto(k)
  <2>1. e \in Entry /\ e.id \in Nat /\ e.id <= n
    BY DEF EntryUpto, Entry, Id
  <2> QED BY <2>1 DEF EntryUpto
<1>2. ASSUME NEW m \in MessageUpto(n) PROVE m \in MessageUpto(k)
  <2>1. m \in Message /\ m.id \in Nat /\ m.id <= n
    BY DEF MessageUpto, Message, Id
  <2> QED BY <2>1 DEF MessageUpto
<1>3. ASSUME NEW S, NEW T, S \subseteq T PROVE Seq(S) \subseteq Seq(T)
  BY <1>3
<1> QED BY <1>1, <1>2, <1>3

LEMMA ShownType ==
  ASSUME NEW kind \in {"user", "text", "call", "meta", "mark"}, NEW id \in Id, NEW out \in BOOLEAN,
         NEW n \in Nat, id <= n
  PROVE  Shown(kind, id, out) \in EntryUpto(n)
<1>1. Shown(kind, id, out) \in Entry
  BY DEF Shown, Entry
<1> QED BY <1>1 DEF EntryUpto, Shown

LEMMA MarksType ==
  ASSUME NEW n \in Nat
  PROVE  Meta \in EntryUpto(n) /\ Mark \in EntryUpto(n)
<1>1. 0 \in Id /\ TRUE \in BOOLEAN /\ 0 <= n
  <2>1. Len(Archive) \in Nat /\ MaxTurns \in Nat
    BY SyncAssumption, ArchiveAssumption
  <2> QED BY <2>1 DEF Id
<1>2. "meta" \in {"user", "text", "call", "meta", "mark"} /\ "mark" \in {"user", "text", "call", "meta", "mark"}
  OBVIOUS
<1> QED BY <1>1, <1>2, ShownType DEF Meta, Mark

-----------------------------------------------------------------------------
(* Reading a transcript back.                                              *)
LEMMA ListedPlaces ==
  ASSUME NEW table, IsFiniteSet(DOMAIN table), DOMAIN table \subseteq Nat
  PROVE  /\ Cardinality(DOMAIN table) \in Nat
         /\ DOMAIN Listed(table) = 1 .. Cardinality(DOMAIN table)
         /\ \A i \in 1 .. Cardinality(DOMAIN table) : \E k \in DOMAIN table :
               Listed(table)[i] = table[k] /\ Cardinality({x \in DOMAIN table : x < k}) = i - 1
<1> DEFINE seqs == DOMAIN table
           At(k, i) == Cardinality({x \in seqs : x < k}) = i - 1
           Nth(i) == CHOOSE k \in seqs : At(k, i)
<1>1. Listed(table) = [i \in 1 .. Cardinality(seqs) |-> table[Nth(i)]]
  BY DEF Listed
<1>2. Cardinality(seqs) \in Nat
  BY FS_CardinalityType
<1>3. ASSUME NEW i \in 1 .. Cardinality(seqs)
      PROVE  Nth(i) \in seqs /\ At(Nth(i), i)
  <2>1. \E k \in seqs : At(k, i)
    BY <1>3, NthExists
  <2> HIDE DEF At
  <2> QED BY <2>1
<1> HIDE DEF Nth
<1> QED BY <1>1, <1>2, <1>3

LEMMA ListedType ==
  ASSUME NEW table, IsFiniteSet(DOMAIN table), DOMAIN table \subseteq Nat, NEW n \in Nat,
         \A k \in DOMAIN table : table[k] \in EntryUpto(n)
  PROVE  Listed(table) \in Seq(EntryUpto(n))
<1> DEFINE N == Cardinality(DOMAIN table)
           E == EntryUpto(n)
<1>1. N \in Nat /\ DOMAIN Listed(table) = 1 .. N
  BY ListedPlaces
<1>2. ASSUME NEW i \in 1 .. N PROVE Listed(table)[i] \in E
  BY ListedPlaces
<1>3. Listed(table) = [i \in 1 .. N |-> Listed(table)[i]]
  BY <1>1 DEF Listed
<1> HIDE DEF E, N
<1>4. [i \in 1 .. N |-> Listed(table)[i]] \in Seq(E)
  BY <1>1, <1>2
<1> QED BY <1>3, <1>4 DEF E

(* Where no number is missing, the list is the table.                      *)
LEMMA ListedInOrder ==
  ASSUME NEW table, NEW n \in Nat, DOMAIN table = 0 .. n - 1
  PROVE  /\ DOMAIN Listed(table) = 1 .. n
         /\ \A i \in 1 .. n : Listed(table)[i] = table[i - 1]
<1>1. IsFiniteSet(0 .. n - 1) /\ Cardinality(0 .. n - 1) = n
  BY FS_Interval
<1>2. 0 .. n - 1 \subseteq Nat
  OBVIOUS
<1>3. ASSUME NEW i \in 1 .. n PROVE Listed(table)[i] = table[i - 1]
  <2>1. PICK k \in 0 .. n - 1 : Listed(table)[i] = table[k] /\ Cardinality({x \in 0 .. n - 1 : x < k}) = i - 1
    <3>1. i \in 1 .. Cardinality(DOMAIN table) /\ IsFiniteSet(DOMAIN table) /\ DOMAIN table \subseteq Nat
      BY <1>1, <1>2
    <3>2. \E k \in DOMAIN table : Listed(table)[i] = table[k] /\ Cardinality({x \in DOMAIN table : x < k}) = i - 1
      BY <3>1, ListedPlaces
    <3> QED BY <3>2
  <2>2. {x \in 0 .. n - 1 : x < k} = 0 .. k - 1
    OBVIOUS
  <2>3. Cardinality(0 .. k - 1) = k
    BY FS_Interval
  <2> QED BY <2>1, <2>2, <2>3
<1> QED BY <1>1, <1>2, <1>3, ListedPlaces

LEMMA ProjectedType ==
  ASSUME NEW n \in Nat, NEW m \in MessageUpto(n), NEW ms
  PROVE  Projected(m, ms) \in Seq(EntryUpto(n))
<1> DEFINE E == EntryUpto(n)
<1>1. m.id \in Id /\ m.id <= n /\ m.role \in {"user", "agent", "tool"} /\ m.text \in BOOLEAN
  BY DEF MessageUpto, Message
<1>2. /\ Shown("user", m.id, TRUE) \in E
      /\ Shown("call", m.id, m.id \in Answered(ms)) \in E
      /\ Shown("text", m.id, TRUE) \in E
  <2>1. (m.id \in Answered(ms)) \in BOOLEAN
    OBVIOUS
  <2>2. \A kind \in {"user", "call", "text"} : kind \in {"user", "text", "call", "meta", "mark"}
    OBVIOUS
  <2> QED BY <2>1, <2>2, <1>1, ShownType
<1> HIDE DEF E
<1>3. \A e1, e2 \in E : /\ <<e1>> \in Seq(E) /\ <<>> \in Seq(E) /\ <<e1>> \o <<e2>> \in Seq(E)
                        /\ <<e1>> \o <<>> \in Seq(E) /\ <<>> \o <<e1>> \in Seq(E) /\ <<>> \o <<>> \in Seq(E)
  OBVIOUS
<1> DEFINE user == Shown("user", m.id, TRUE)
           call == Shown("call", m.id, m.id \in Answered(ms))
           text == Shown("text", m.id, TRUE)
<1>4. Projected(m, ms) =
        CASE m.role = "user" -> <<user>>
          [] m.role = "agent" -> (IF m.call = "none" THEN <<>> ELSE <<call>>) \o (IF m.text THEN <<text>> ELSE <<>>)
          [] m.role = "tool" -> <<>>
  BY DEF Projected
<1>5. user \in E /\ call \in E /\ text \in E
  BY <1>2
<1> HIDE DEF user, call, text
<1>6. CASE m.role = "user"
  BY <1>6, <1>3, <1>4, <1>5 DEF E
<1>7. CASE m.role = "agent"
  <2>1. Projected(m, ms) = (IF m.call = "none" THEN <<>> ELSE <<call>>) \o (IF m.text THEN <<text>> ELSE <<>>)
    BY <1>7, <1>4
  <2> QED BY <2>1, <1>3, <1>5, <1>1 DEF E
<1>8. CASE m.role = "tool"
  BY <1>8, <1>3, <1>4, <1>5 DEF E
<1> QED BY <1>1, <1>6, <1>7, <1>8

LEMMA ProjectType ==
  ASSUME NEW n \in Nat, NEW ms \in Seq(MessageUpto(n))
  PROVE  Project(ms) \in Seq(EntryUpto(n))
<1> DEFINE parts == [i \in 1 .. Len(ms) |-> Projected(ms[i], ms)]
           E == EntryUpto(n)
<1>1. \A i \in 1 .. Len(ms) : Projected(ms[i], ms) \in Seq(E)
  BY ProjectedType
<1> HIDE DEF E
<1>2. parts \in Seq(Seq(E))
  BY <1>1
<1>3. Project(ms) = FlattenSeq(parts)
  BY DEF Project
<1> HIDE DEF parts
<1>4. FlattenSeq(parts) \in Seq(E)
  BY <1>2, FlattenMembers
<1> QED BY <1>3, <1>4 DEF E

LEMMA DurablesType ==
  ASSUME NEW n \in Nat, NEW out \in Seq(EntryUpto(n))
  PROVE  Durables(out) \in Seq(EntryUpto(n))
<1> DEFINE keep == {k \in DOMAIN out : Durable(out[k])}
           table == [i \in keep |-> out[i]]
           E == EntryUpto(n)
<1>1. DOMAIN out = 1 .. Len(out) /\ Len(out) \in Nat /\ \A i \in DOMAIN out : out[i] \in E
  OBVIOUS
<1>2. IsFiniteSet(keep)
  <2>1. IsFiniteSet(1 .. Len(out)) /\ keep \subseteq 1 .. Len(out)
    BY <1>1, FS_Interval
  <2> QED BY <2>1, FS_Subset
<1>3. DOMAIN table = keep /\ keep \subseteq Nat /\ \A k \in keep : table[k] \in E
  BY <1>1
<1>4. Durables(out) = Listed(table)
  BY DEF Durables
<1> HIDE DEF keep, table
<1> QED BY <1>2, <1>3, <1>4, ListedType

(* Appending to a sequence leaves what it had.                             *)
LEMMA JoinKeeps ==
  ASSUME NEW n \in Nat, NEW a \in Seq(EntryUpto(n)), NEW b \in Seq(EntryUpto(n))
  PROVE  /\ a \o b \in Seq(EntryUpto(n))
         /\ Len(a \o b) = Len(a) + Len(b)
         /\ \A i \in DOMAIN a : i \in DOMAIN (a \o b) /\ (a \o b)[i] = a[i]
         /\ \A i \in DOMAIN (a \o b) : i \notin DOMAIN a => \E k \in DOMAIN b : (a \o b)[i] = b[k]
<1> DEFINE E == EntryUpto(n)
<1> HIDE DEF E
<1>1. ASSUME NEW c \in Seq(E), NEW d \in Seq(E)
      PROVE  /\ c \o d \in Seq(E) /\ Len(c \o d) = Len(c) + Len(d)
             /\ \A i \in DOMAIN c : i \in DOMAIN (c \o d) /\ (c \o d)[i] = c[i]
             /\ \A i \in DOMAIN (c \o d) : i \notin DOMAIN c =>
                   i - Len(c) \in DOMAIN d /\ (c \o d)[i] = d[i - Len(c)]
  OBVIOUS
<1>2. /\ a \o b \in Seq(E) /\ Len(a \o b) = Len(a) + Len(b)
      /\ \A i \in DOMAIN a : i \in DOMAIN (a \o b) /\ (a \o b)[i] = a[i]
      /\ \A i \in DOMAIN (a \o b) : i \notin DOMAIN a =>
            i - Len(a) \in DOMAIN b /\ (a \o b)[i] = b[i - Len(a)]
  <2>1. a \in Seq(E) /\ b \in Seq(E)
    BY DEF E
  <2> QED BY <1>1, <2>1, Zenon
<1> DEFINE c == a \o b
<1> HIDE DEF c
<1>3. \A i \in DOMAIN c : i \notin DOMAIN a => \E k \in DOMAIN b : c[i] = b[k]
  BY <1>2, Zenon DEF c
<1> QED BY <1>2, <1>3, Zenon DEF E, c

Starts(s, t) == \A i \in DOMAIN s : i \in DOMAIN t /\ t[i] = s[i]

LEMMA HealedType ==
  ASSUME NEW n \in Nat, NEW out \in Seq(EntryUpto(n)), NEW ms \in Seq(MessageUpto(n))
  PROVE  Healed(out, ms) \in Seq(EntryUpto(n)) /\ Starts(out, Healed(out, ms))
<1> DEFINE shown == Durables(out)
           projected == Project(ms)
           tail == SubSeq(projected, Len(shown) + 1, Len(projected))
           E == EntryUpto(n)
<1>1. shown \in Seq(E) /\ projected \in Seq(E) /\ <<Meta>> \in Seq(E)
  BY DurablesType, ProjectType, MarksType
<1>2. Healed(out, ms) = out \/ Healed(out, ms) = out \o <<Meta>> \o tail
  BY DEF Healed
<1> HIDE DEF shown, projected, E
<1>3. tail \in Seq(E)
  <2>1. ASSUME NEW s \in Seq(E), NEW k \in Nat
        PROVE  SubSeq(s, k + 1, Len(s)) \in Seq(E)
    OBVIOUS
  <2>2. Len(shown) \in Nat
    BY <1>1
  <2> QED BY <1>1, <2>1, <2>2
<1> HIDE DEF tail
<1>4. out \o <<Meta>> \in Seq(E) /\ Starts(out, out \o <<Meta>>)
  BY <1>1, JoinKeeps DEF E, Starts
<1>5. out \o <<Meta>> \o tail \in Seq(E) /\ Starts(out \o <<Meta>>, out \o <<Meta>> \o tail)
  BY <1>4, <1>3, JoinKeeps DEF E, Starts
<1>6. Starts(out, out \o <<Meta>> \o tail)
  BY <1>4, <1>5 DEF Starts
<1> QED BY <1>2, <1>5, <1>6 DEF E, Starts

(* A table of rows with numbers and entries of the past.                   *)
TableOK(table, n) ==
  /\ IsFiniteSet(DOMAIN table) /\ DOMAIN table \subseteq Nat
  /\ \A i \in DOMAIN table : table[i] \in EntryUpto(n)

LEMMA RebuiltType ==
  ASSUME NEW n \in Nat, NEW table, TableOK(table, n), NEW ms \in Seq(MessageUpto(n)), NEW readable
  PROVE  /\ Rebuilt(table, ms, readable) \in Seq(EntryUpto(n))
         /\ readable /\ DOMAIN table # {} => Starts(Listed(table), Rebuilt(table, ms, readable))
<1>1. Listed(table) \in Seq(EntryUpto(n)) /\ Project(ms) \in Seq(EntryUpto(n))
  BY ListedType, ProjectType DEF TableOK
<1> QED BY <1>1, HealedType DEF Rebuilt

LEMMA DropMarkType ==
  ASSUME NEW n \in Nat, NEW out \in Seq(EntryUpto(n)), NEW popped
  PROVE  /\ WithDropMark(out, popped) \in Seq(EntryUpto(n))
         /\ Starts(out, WithDropMark(out, popped))
<1>1. Append(out, Meta) = out \o <<Meta>> /\ <<Meta>> \in Seq(EntryUpto(n))
  BY MarksType
<1>2. out \o <<Meta>> \in Seq(EntryUpto(n)) /\ Starts(out, out \o <<Meta>>)
  BY <1>1, JoinKeeps DEF Starts
<1> QED BY <1>1, <1>2 DEF WithDropMark, Starts

LEMMA EmptyTable ==
  ASSUME NEW n \in Nat
  PROVE  TableOK(<<>>, n)
BY FS_EmptySet DEF TableOK

(* One place is filled, if it was free.                                    *)
Filled(table, more, seq, e) ==
  /\ DOMAIN more = DOMAIN table \cup {seq}
  /\ \A i \in DOMAIN table : more[i] = table[i]
  /\ seq \notin DOMAIN table => more[seq] = e

LEMMA InsertType ==
  ASSUME NEW n \in Nat, NEW table, TableOK(table, n), NEW seq \in Nat, NEW e \in EntryUpto(n)
  PROVE  /\ TableOK(InsertOrIgnore(table, seq, e), n)
         /\ Filled(table, InsertOrIgnore(table, seq, e), seq, e)
<1>1. CASE seq \in DOMAIN table
  BY <1>1 DEF InsertOrIgnore, TableOK, Filled
<1>2. CASE seq \notin DOMAIN table
  <2>1. InsertOrIgnore(table, seq, e) = [x \in DOMAIN table \cup {seq} |-> IF x = seq THEN e ELSE table[x]]
    BY <1>2 DEF InsertOrIgnore, Put
  <2>2. IsFiniteSet(DOMAIN table \cup {seq})
    BY FS_AddElement DEF TableOK
  <2>3. Filled(table, InsertOrIgnore(table, seq, e), seq, e)
    BY <2>1, <1>2 DEF Filled
  <2> QED BY <2>1, <2>2, <2>3, <1>2 DEF TableOK
<1> QED BY <1>1, <1>2

LEMMA FrontType ==
  ASSUME NEW n \in Nat, NEW ms \in Seq(MessageUpto(n)), ms # <<>>
  PROVE  Front(ms) \in Seq(MessageUpto(n))
<1> DEFINE M == MessageUpto(n)
<1> HIDE DEF M
<1>1. ASSUME NEW s \in Seq(M), s # <<>> PROVE SubSeq(s, 1, Len(s) - 1) \in Seq(M)
  OBVIOUS
<1> QED BY <1>1 DEF Front, M

-----------------------------------------------------------------------------
(* The type invariant, and how the parts fit: a turn has a run and ids to  *)
(* spend, a pass is within what it read and has a cursor, a handler has a  *)
(* target, and nothing is written to a session that is being opened.       *)
PassRecord(n) ==
  [by : {"loop", "flush"}, run : Run, entries : Seq(EntryUpto(n)), busy : BOOLEAN,
   stage : {"boot", "write", "mark"}, from : Nat, seq : Nat, until : Nat, unfolded : BOOLEAN]
TurnRecord ==
  [at : {"none", "open", "user", "model", "called", "tool", "fold", "end"}, run : Run \cup {NoRun},
   first : Nat, id : Nat, call : Tool \cup {"none"}, text : BOOLEAN]
SwitchRecord(n) ==
  [op : {"none", "new", "open", "stop"},
   at : {"none", "flush", "flushing", "flushed", "popped", "loaded", "released", "built"},
   target : Run \cup {NoRun}, popped : BOOLEAN, late : BOOLEAN,
   loaded : Seq(MessageUpto(n)), built : Seq(EntryUpto(n))]

CoreOK ==
  /\ transcript \in Seq(EntryUpto(ids)) /\ run \in Run \cup {NoRun} /\ running \in BOOLEAN
  /\ ids \in Nat /\ turns \in 0 .. MaxTurns /\ events \in 0 .. MaxEvents /\ broken \in BOOLEAN

StoreOK ==
  /\ DOMAIN rows = Run /\ \A r \in Run : TableOK(rows[r], ids)
  /\ messages \in [Run -> Seq(MessageUpto(ids))]
  /\ runs \in 0 .. MaxRuns

CursorsTyped(c) ==
  /\ DOMAIN c \subseteq Run /\ Cardinality(DOMAIN c) <= MaxTracked
  /\ \A r \in DOMAIN c : c[r] \in Nat

WriterOK ==
  /\ writer \in PassRecord(ids) \cup {NoWriter}
  /\ writer.by = "flush" <=> switch.at = "flushing"
  /\ writer.by # "none" =>
       /\ writer.until <= Len(writer.entries)
       /\ writer.stage # "boot" => writer.run \in DOMAIN cursors

(* The ids a turn may still use.                                           *)
Left ==
  CASE turn.at \in {"open", "user"} -> 2
    [] turn.at = "model" -> IF turn.call = "none" THEN 2 ELSE 1
    [] turn.at \in {"called", "tool"} -> 1
    [] turn.at \in {"none", "fold", "end"} -> 0

TurnOK ==
  /\ turn \in TurnRecord
  /\ running <=> turn # NoTurn
  /\ turn.at = "none" => turn = NoTurn
  /\ turn.at = "open" => run = NoRun /\ runs < MaxRuns
  /\ turn.at \notin {"none", "open"} => turn.run \in Run
  /\ turn.at \in {"called", "tool"} => turn.call \in Tool
  /\ turn.first <= ids /\ turn.id <= ids
  /\ ids + Left <= Len(Archive) + 3 * turns

SwitchOK ==
  /\ switch \in SwitchRecord(ids)
  /\ switch.at = "none" <=> switch = NoSwitch
  /\ switch.op = "none" <=> switch = NoSwitch
  /\ switch.at \in {"popped", "loaded", "released", "built"} => switch.op = "open"
  /\ switch.op = "open" => turn = NoTurn /\ switch.target \in Run

TypeInv == CoreOK /\ StoreOK /\ CursorsTyped(cursors) /\ WriterOK /\ TurnOK /\ SwitchOK

LEMMA UntilType ==
  ASSUME NEW n \in Nat, NEW entries \in Seq(EntryUpto(n)), NEW busy \in BOOLEAN, NEW force \in BOOLEAN,
         NEW cursor \in Nat
  PROVE  /\ Until(entries, busy, force, cursor) \in Nat
         /\ Until(entries, busy, force, cursor) <= Len(entries)
         /\ ~force /\ busy => \A i \in DOMAIN entries :
               cursor < i /\ i <= Until(entries, busy, force, cursor) => entries[i].kind # "call"
<1> DEFINE stops == {i \in cursor + 1 .. Len(entries) : ~force /\ busy /\ entries[i].kind = "call"}
<1>0. Len(entries) \in Nat /\ DOMAIN entries = 1 .. Len(entries)
  OBVIOUS
<1>1. CASE stops = {}
  <2>1. Until(entries, busy, force, cursor) = Len(entries)
    BY <1>1 DEF Until
  <2> QED BY <2>1, <1>0, <1>1
<1>2. CASE stops # {}
  <2>1. stops \subseteq Nat
    BY <1>0
  <2>2. PICK m \in stops : \A i \in stops : m <= i
    <3> HIDE DEF stops
    <3> QED BY <2>1, <1>2, Least
  <2>3. Min(stops) \in stops /\ \A i \in stops : Min(stops) <= i
    <3> HIDE DEF stops
    <3> QED BY <2>2 DEF Min
  <2>4. Until(entries, busy, force, cursor) = Min(stops) - 1
    BY <1>2 DEF Until
  <2>5. Min(stops) \in cursor + 1 .. Len(entries)
    BY <2>3
  <2>6. ASSUME ~force, busy, NEW i \in DOMAIN entries, cursor < i, i <= Min(stops) - 1, entries[i].kind = "call"
        PROVE  FALSE
    <3>1. i \in stops
      BY <2>6, <1>0
    <3>2. Min(stops) <= i
      BY <3>1, <2>3
    <3> HIDE DEF stops
    <3> QED BY <3>2, <2>6, <2>5, <1>0
  <2> HIDE DEF stops
  <2> QED BY <2>4, <2>5, <2>6, <1>0
<1> QED BY <1>1, <1>2

(* One cursor is set.                                                      *)
Moved(c, p, r, n) == DOMAIN p = DOMAIN c \cup {r} /\ p[r] = n /\ \A q \in DOMAIN c : q # r => p[q] = c[q]

LEMMA PutType ==
  ASSUME NEW c, CursorsTyped(c), NEW r \in Run, NEW n \in Nat
  PROVE  /\ Moved(c, Put(c, r, n), r, n)
         /\ r \in DOMAIN c => CursorsTyped(Put(c, r, n))
         /\ r \notin DOMAIN c /\ Cardinality(DOMAIN c) < MaxTracked => CursorsTyped(Put(c, r, n))
<1>1. Put(c, r, n) = [x \in DOMAIN c \cup {r} |-> IF x = r THEN n ELSE c[x]]
  BY DEF Put
<1>2. IsFiniteSet(DOMAIN c) /\ Cardinality(DOMAIN c) \in Nat
  <2>1. IsFiniteSet(Run) /\ DOMAIN c \subseteq Run
    BY FS_Interval, SyncAssumption DEF Run, CursorsTyped
  <2> QED BY <2>1, FS_Subset, FS_CardinalityType
<1>3. r \in DOMAIN c => DOMAIN c \cup {r} = DOMAIN c
  OBVIOUS
<1>4. r \notin DOMAIN c => Cardinality(DOMAIN c \cup {r}) = Cardinality(DOMAIN c) + 1
  BY <1>2, FS_AddElement
<1>5. MaxTracked \in Nat
  BY SyncAssumption
<1>6. Moved(c, Put(c, r, n), r, n)
  BY <1>1 DEF Moved
<1> QED BY <1>1, <1>2, <1>3, <1>4, <1>5, <1>6 DEF CursorsTyped

LEMMA TrackedType ==
  ASSUME NEW c, CursorsTyped(c), NEW r \in Run, NEW n \in Nat, NEW d \in Tracked(c, r, n)
  PROVE  /\ CursorsTyped(d) /\ r \in DOMAIN d /\ d[r] = n
         /\ \A q \in DOMAIN d : q # r => q \in DOMAIN c /\ d[q] = c[q]
<1>0. IsFiniteSet(DOMAIN c) /\ Cardinality(DOMAIN c) \in Nat /\ MaxTracked \in Nat
  <2>1. IsFiniteSet(Run) /\ DOMAIN c \subseteq Run
    BY FS_Interval, SyncAssumption DEF Run, CursorsTyped
  <2> QED BY <2>1, FS_Subset, FS_CardinalityType, SyncAssumption
<1>1. CASE Cardinality(DOMAIN c) < MaxTracked
  <2>1. d = Put(c, r, n)
    BY <1>1 DEF Tracked
  <2> DEFINE p == Put(c, r, n)
  <2>2. /\ Moved(c, p, r, n)
        /\ r \in DOMAIN c => CursorsTyped(p)
        /\ r \notin DOMAIN c => CursorsTyped(p)
    BY <1>1, PutType
  <2> HIDE DEF p
  <2> QED BY <2>1, <2>2 DEF p, Moved
<1>2. CASE ~(Cardinality(DOMAIN c) < MaxTracked)
  <2>1. PICK old \in DOMAIN c : d = Put([x \in DOMAIN c \ {old} |-> c[x]], r, n)
    BY <1>2 DEF Tracked
  <2> DEFINE b == [x \in DOMAIN c \ {old} |-> c[x]]
  <2>2. Cardinality(DOMAIN c \ {old}) = Cardinality(DOMAIN c) - 1
    BY <1>0, FS_RemoveElement
  <2>3. CursorsTyped(b) /\ Cardinality(DOMAIN b) < MaxTracked
    BY <2>2, <1>0 DEF CursorsTyped
  <2> HIDE DEF b
  <2>4. /\ CursorsTyped(d) /\ r \in DOMAIN d /\ d[r] = n
        /\ \A q \in DOMAIN d : q # r => q \in DOMAIN b /\ d[q] = b[q]
    <3> DEFINE p == Put(b, r, n)
    <3>1. /\ Moved(b, p, r, n)
          /\ r \in DOMAIN b => CursorsTyped(p)
          /\ r \notin DOMAIN b => CursorsTyped(p)
      BY <2>3, PutType
    <3>2. d = p
      BY <2>1 DEF b
    <3> HIDE DEF p
    <3> QED BY <3>1, <3>2, <2>3 DEF Moved
  <2> QED BY <2>4 DEF b
<1> QED BY <1>1, <1>2

(* More ids given out leave everything well typed.                         *)
LEMMA StillTyped ==
  ASSUME TypeInv, NEW k \in Nat, ids <= k
  PROVE  /\ transcript \in Seq(EntryUpto(k))
         /\ \A r \in Run : TableOK(rows[r], k)
         /\ messages \in [Run -> Seq(MessageUpto(k))]
         /\ writer \in PassRecord(k) \cup {NoWriter}
         /\ switch \in SwitchRecord(k)
<1>1. /\ EntryUpto(ids) \subseteq EntryUpto(k)
      /\ Seq(EntryUpto(ids)) \subseteq Seq(EntryUpto(k))
      /\ Seq(MessageUpto(ids)) \subseteq Seq(MessageUpto(k))
  BY UptoGrows DEF TypeInv, CoreOK
<1>2. transcript \in Seq(EntryUpto(k))
  BY <1>1 DEF TypeInv, CoreOK
<1>3. \A r \in Run : TableOK(rows[r], k)
  BY <1>1 DEF TypeInv, StoreOK, TableOK
<1>4. messages \in [Run -> Seq(MessageUpto(k))]
  BY <1>1 DEF TypeInv, StoreOK
<1>5. PassRecord(ids) \subseteq PassRecord(k)
  BY <1>1 DEF PassRecord
<1>6. SwitchRecord(ids) \subseteq SwitchRecord(k)
  BY <1>1 DEF SwitchRecord
<1> QED BY <1>2, <1>3, <1>4, <1>5, <1>6 DEF TypeInv, WriterOK, SwitchOK

LEMMA InitTyped == Init => TypeInv
<1> SUFFICES ASSUME Init PROVE TypeInv
  OBVIOUS
<1> DEFINE n == Len(Archive)
<1>0. n \in Nat /\ MaxTurns \in Nat /\ MaxRuns \in Nat \ {0} /\ MaxTracked \in Nat \ {0} /\ MaxEvents \in Nat
  BY SyncAssumption, ArchiveAssumption
<1>1. Archive \in Seq(MessageUpto(n)) /\ <<>> \in Seq(MessageUpto(n))
  BY ArchiveAssumption DEF MessageUpto
<1>2. \A r \in Run : messages[r] \in Seq(MessageUpto(n))
  BY <1>1 DEF Init
<1>3. ASSUME NEW r \in Run PROVE TableOK(rows[r], n)
  <2> DEFINE p == Project(messages[r])
  <2>1. p \in Seq(EntryUpto(n))
    BY <1>2, <1>0, ProjectType
  <2>2. rows[r] = [i \in 0 .. Len(p) - 1 |-> p[i + 1]]
    BY DEF Init
  <2> HIDE DEF p
  <2>3. Len(p) \in Nat /\ \A i \in 0 .. Len(p) - 1 : i + 1 \in 1 .. Len(p) /\ p[i + 1] \in EntryUpto(n)
    BY <2>1
  <2>4. IsFiniteSet(0 .. Len(p) - 1)
    BY <2>3, FS_Interval
  <2> QED BY <2>2, <2>3, <2>4 DEF TableOK
<1>4. CoreOK
  <2>0. transcript = <<>> /\ <<>> \in Seq(EntryUpto(ids))
    BY DEF Init
  <2>1. transcript \in Seq(EntryUpto(ids)) /\ run \in Run \cup {NoRun} /\ running \in BOOLEAN /\ broken \in BOOLEAN
    BY <2>0 DEF Init
  <2>2. ids \in Nat /\ turns \in 0 .. MaxTurns /\ events \in 0 .. MaxEvents
    BY <1>0 DEF Init
  <2> QED BY <2>1, <2>2 DEF CoreOK
<1>5. StoreOK
  BY <1>0, <1>2, <1>3 DEF Init, StoreOK
<1>6. CursorsTyped(cursors)
  <2>1. DOMAIN cursors = {}
    BY DEF Init
  <2> QED BY <2>1, <1>0, FS_EmptySet DEF CursorsTyped
<1>7. WriterOK
  BY DEF Init, WriterOK, NoWriter, NoSwitch
<1>8. TurnOK
  BY <1>0 DEF Init, TurnOK, TurnRecord, NoTurn, Left, NoRun
<1>9. SwitchOK
  BY DEF Init, SwitchOK, SwitchRecord, NoSwitch, NoRun
<1> QED BY <1>4, <1>5, <1>6, <1>7, <1>8, <1>9 DEF TypeInv

(* A step of the turn leaves the rows, the passes and the handlers alone.  *)
LEMMA TurnFrame ==
  ASSUME TypeInv, ids' \in Nat, ids <= ids', UNCHANGED <<rows, cursors, writer, switch>>, CoreOK', TurnOK',
         messages' \in [Run -> Seq(MessageUpto(ids'))], runs' \in 0 .. MaxRuns,
         switch.op = "open" => turn' = NoTurn
  PROVE  TypeInv'
<1> DEFINE k == ids'
<1>1. /\ \A r \in Run : TableOK(rows[r], k)
      /\ writer \in PassRecord(k) \cup {NoWriter}
      /\ switch \in SwitchRecord(k)
  BY StillTyped
<1> HIDE DEF k
<1>2. StoreOK'
  <2>1. \A r \in Run : TableOK(rows[r], ids')
    BY <1>1 DEF k
  <2>2. \A r \in Run : TableOK(rows'[r], ids')
    BY <2>1
  <2> QED BY <2>2 DEF TypeInv, StoreOK
<1>3. CursorsTyped(cursors')
  BY DEF TypeInv
<1>4. WriterOK'
  BY <1>1 DEF TypeInv, WriterOK, k
<1>5. SwitchOK'
  BY <1>1 DEF TypeInv, SwitchOK, k
<1> QED BY <1>2, <1>3, <1>4, <1>5 DEF TypeInv

(* What the turn can append to the transcript and to the messages.         *)
LEMMA SayType ==
  ASSUME NEW n \in Nat, NEW t \in Seq(EntryUpto(n)), NEW e \in EntryUpto(n), NEW f \in EntryUpto(n)
  PROVE  /\ t \o <<e>> \in Seq(EntryUpto(n)) /\ t \o <<>> \in Seq(EntryUpto(n))
         /\ t \o (<<e>> \o <<f>>) \in Seq(EntryUpto(n)) /\ t \o (<<>> \o <<f>>) \in Seq(EntryUpto(n))
<1> DEFINE E == EntryUpto(n)
<1> HIDE DEF E
<1>1. ASSUME NEW s \in Seq(E), NEW x \in E, NEW y \in E
      PROVE  /\ s \o <<x>> \in Seq(E) /\ s \o <<>> \in Seq(E)
             /\ s \o (<<x>> \o <<y>>) \in Seq(E) /\ s \o (<<>> \o <<y>>) \in Seq(E)
  OBVIOUS
<1> QED BY <1>1, Zenon DEF E

LEMMA LogType ==
  ASSUME NEW n \in Nat, NEW all \in [Run -> Seq(MessageUpto(n))], NEW r \in Run, NEW m \in MessageUpto(n),
         NEW m2 \in MessageUpto(n)
  PROVE  /\ [all EXCEPT ![r] = Append(all[r], m)] \in [Run -> Seq(MessageUpto(n))]
         /\ [all EXCEPT ![r] = all[r] \o <<m>>] \in [Run -> Seq(MessageUpto(n))]
         /\ [all EXCEPT ![r] = all[r] \o <<m, m2>>] \in [Run -> Seq(MessageUpto(n))]
<1> DEFINE M == MessageUpto(n)
<1> HIDE DEF M
<1>1. ASSUME NEW s \in Seq(M), NEW x \in M, NEW y \in M
      PROVE  Append(s, x) \in Seq(M) /\ s \o <<x>> \in Seq(M) /\ s \o <<x, y>> \in Seq(M)
  OBVIOUS
<1>2. all[r] \in Seq(M)
  BY DEF M
<1>3. Append(all[r], m) \in Seq(M) /\ all[r] \o <<m>> \in Seq(M) /\ all[r] \o <<m, m2>> \in Seq(M)
  BY <1>1, <1>2 DEF M
<1> QED BY <1>3 DEF M

LEMMA ResultType ==
  ASSUME NEW n \in Nat, NEW id \in Id, id <= n
  PROVE  Result(id) \in MessageUpto(n)
BY DEF Result, MessageUpto, Message

(* The ids a turn gives out are within the bound.                          *)
LEMMA NextId ==
  ASSUME TypeInv, Left >= 1
  PROVE  ids + 1 \in Id /\ ids + 1 \in Nat /\ ids \in Nat
<1>1. ids \in Nat /\ turns \in 0 .. MaxTurns /\ MaxTurns \in Nat /\ Len(Archive) \in Nat
  BY SyncAssumption, ArchiveAssumption DEF TypeInv, CoreOK
<1>2. ids + Left <= Len(Archive) + 3 * turns
  BY DEF TypeInv, TurnOK
<1>3. Left \in Nat
  BY DEF TypeInv, TurnOK, TurnRecord, Left
<1> QED BY <1>1, <1>2, <1>3 DEF Id

LEMMA SubmitTyped == TypeInv /\ Submit => TypeInv'
<1> SUFFICES ASSUME TypeInv, Submit PROVE TypeInv'
  OBVIOUS
<1>0. ids \in Nat /\ turns \in 0 .. MaxTurns /\ MaxTurns \in Nat /\ Len(Archive) \in Nat /\ events \in 0 .. MaxEvents
      /\ MaxEvents \in Nat /\ turns < MaxTurns /\ events < MaxEvents /\ ids' = ids + 1 /\ turns' = turns + 1 /\ events' = events + 1
  BY SyncAssumption, ArchiveAssumption DEF TypeInv, CoreOK, Submit, FreshId
<1>1. turn = NoTurn /\ ids <= Len(Archive) + 3 * turns
  <2>1. turn = NoTurn
    BY DEF Submit
  <2>2. Left = 0
    BY <2>1 DEF Left, NoTurn
  <2>3. ids + Left <= Len(Archive) + 3 * turns
    BY DEF TypeInv, TurnOK
  <2> QED BY <2>1, <2>2, <2>3, <1>0
<1>2. ids + 1 \in Id /\ ids + 1 \in Nat /\ ids <= ids + 1 /\ ids + 1 + 2 <= Len(Archive) + 3 * (turns + 1)
  BY <1>0, <1>1 DEF Id
<1>3. transcript' \in Seq(EntryUpto(ids'))
  <2>1. transcript' = transcript \o <<Shown("user", ids + 1, TRUE)>>
    BY DEF Submit, Say
  <2>2. transcript \in Seq(EntryUpto(ids + 1))
    BY <1>2, <1>0, StillTyped
  <2>3. Shown("user", ids + 1, TRUE) \in EntryUpto(ids + 1)
    <3>1. "user" \in {"user", "text", "call", "meta", "mark"} /\ TRUE \in BOOLEAN /\ ids + 1 <= ids + 1
      BY <1>2
    <3> QED BY <1>2, <3>1, ShownType
  <2>4. transcript \o <<Shown("user", ids + 1, TRUE)>> \in Seq(EntryUpto(ids + 1))
    BY <2>2, <2>3, <1>2, SayType
  <2> QED BY <2>1, <2>4, <1>0
<1>4. CoreOK'
  <2>1. turns' \in 0 .. MaxTurns /\ events' \in 0 .. MaxEvents /\ ids' \in Nat
    BY <1>0
  <2>2. UNCHANGED <<run, broken>> /\ running' = TRUE
    BY DEF Submit
  <2> QED BY <1>3, <2>1, <2>2 DEF TypeInv, CoreOK
<1>5. messages' \in [Run -> Seq(MessageUpto(ids'))] /\ runs' \in 0 .. MaxRuns
  <2>1. UNCHANGED <<messages, runs>>
    BY DEF Submit, store
  <2>2. messages \in [Run -> Seq(MessageUpto(ids + 1))]
    BY <1>2, <1>0, StillTyped
  <2> QED BY <2>1, <2>2, <1>0 DEF TypeInv, StoreOK
<1>6. TurnOK'
  <2>1. turn' = [at |-> IF run = NoRun THEN "open" ELSE "user", run |-> run, first |-> ids + 1, id |-> ids + 1,
                 call |-> "none", text |-> FALSE]
    BY DEF Submit, NoTurn
  <2>2. turn' \in TurnRecord
    BY <2>1, <1>2 DEF TurnRecord, TypeInv, CoreOK
  <2>3. Left' = 2
    BY <2>1 DEF Left
  <2>4. turn' # NoTurn
    BY <2>1 DEF NoTurn
  <2>5. turn'.at = "open" => run' = NoRun /\ runs' < MaxRuns
    BY <2>1 DEF Submit, store
  <2>6. turn'.at \notin {"none", "open"} => turn'.run \in Run
    BY <2>1 DEF TypeInv, CoreOK
  <2>7. turn'.first = ids' /\ turn'.id = ids' /\ ids' + Left' <= Len(Archive) + 3 * turns'
    BY <2>1, <2>3, <1>0, <1>2
  <2>8. running' = TRUE
    BY DEF Submit
  <2>9. turn'.at # "none" /\ turn'.at \notin {"called", "tool"}
    BY <2>1
  <2>10. ids' <= ids'
    BY <1>0
  <2> QED BY <2>2, <2>4, <2>5, <2>6, <2>7, <2>8, <2>9, <2>10 DEF TurnOK
<1>7. UNCHANGED <<rows, cursors, writer, switch>> /\ switch.op # "open"
  BY DEF Submit, store, sync
<1>8. ids' \in Nat /\ ids <= ids'
  BY <1>0
<1> QED BY <1>4, <1>5, <1>6, <1>7, <1>8, TurnFrame

LEMMA OpenRunTyped == TypeInv /\ OpenRun => TypeInv'
<1> SUFFICES ASSUME TypeInv, OpenRun PROVE TypeInv'
  OBVIOUS
<1>0. ids \in Nat /\ runs \in 0 .. MaxRuns /\ MaxRuns \in Nat /\ ids' = ids /\ turns' = turns /\ ids <= ids
  BY SyncAssumption DEF TypeInv, CoreOK, StoreOK, OpenRun, counters
<1>1. turn.at = "open" /\ turn \in TurnRecord /\ runs < MaxRuns /\ turn # NoTurn /\ running
  BY DEF TypeInv, TurnOK, OpenRun, NoTurn
<1>2. runs' = runs + 1 /\ runs' \in Run /\ runs' \in 0 .. MaxRuns /\ run' = runs'
  <2>1. runs' = runs + 1 /\ run' = runs'
    BY DEF OpenRun
  <2> QED BY <2>1, <1>0, <1>1 DEF Run
<1>3. CoreOK'
  BY <1>2 DEF OpenRun, TypeInv, CoreOK, counters
<1>4. messages' \in [Run -> Seq(MessageUpto(ids'))]
  BY <1>0 DEF OpenRun, TypeInv, StoreOK
<1>5. TurnOK'
  <2>1. turn' = [turn EXCEPT !.at = "user", !.run = runs']
    BY DEF OpenRun
  <2>2. turn' \in TurnRecord /\ turn'.at = "user" /\ turn'.run = runs' /\ turn'.first = turn.first /\ turn'.id = turn.id
    BY <2>1, <1>1, <1>2 DEF TurnRecord
  <2>3. Left' = 2 /\ Left = 2
    BY <2>2, <1>1 DEF Left
  <2>4. turn' # NoTurn /\ running' = running
    BY <2>2 DEF NoTurn, OpenRun
  <2>5. turn.first <= ids /\ turn.id <= ids /\ ids + Left <= Len(Archive) + 3 * turns
    BY DEF TypeInv, TurnOK
  <2>6. turn'.first <= ids' /\ turn'.id <= ids' /\ ids' + Left' <= Len(Archive) + 3 * turns'
    BY <2>2, <2>3, <2>5, <1>0
  <2> QED BY <2>2, <2>4, <2>6, <1>1, <1>2 DEF TurnOK
<1>6. UNCHANGED <<rows, cursors, writer, switch>> /\ switch.op # "open"
  BY <1>1 DEF OpenRun, sync, TypeInv, SwitchOK
<1>7. ids' \in Nat /\ ids <= ids'
  BY <1>0
<1> QED BY <1>2, <1>3, <1>4, <1>5, <1>6, <1>7, TurnFrame

LEMMA WriteUserTyped == TypeInv /\ WriteUser => TypeInv'
<1> SUFFICES ASSUME TypeInv, WriteUser PROVE TypeInv'
  OBVIOUS
<1>0. ids \in Nat /\ ids' = ids /\ turns' = turns /\ ids <= ids
  BY DEF TypeInv, CoreOK, WriteUser, counters
<1>1. turn.at = "user" /\ turn \in TurnRecord /\ turn.run \in Run /\ turn # NoTurn /\ running /\ turn.id <= ids
      /\ turn.id \in Nat
  BY DEF TypeInv, TurnOK, WriteUser, NoTurn, TurnRecord
<1>2. CoreOK'
  BY DEF WriteUser, TypeInv, CoreOK, counters, core
<1>3. messages' \in [Run -> Seq(MessageUpto(ids'))]
  <2> DEFINE ms == messages[turn.run]
             user == [role |-> "user", id |-> turn.id, call |-> "none", text |-> TRUE]
  <2>1. messages' = [messages EXCEPT ![turn.run] =
                       ms \o (IF EndsOpen(ms) THEN <<Result(Last(ms).id), user>> ELSE <<user>>)]
    BY DEF WriteUser
  <2>2. messages \in [Run -> Seq(MessageUpto(ids))] /\ ms \in Seq(MessageUpto(ids))
    BY <1>1 DEF TypeInv, StoreOK
  <2>3. turn.id \in Id
    <3>1. ids + Left <= Len(Archive) + 3 * turns /\ Left = 2
      BY <1>1 DEF TypeInv, TurnOK, Left
    <3>2. turns \in 0 .. MaxTurns /\ MaxTurns \in Nat /\ Len(Archive) \in Nat
      BY SyncAssumption, ArchiveAssumption DEF TypeInv, CoreOK
    <3> QED BY <3>1, <3>2, <1>0, <1>1 DEF Id
  <2>4. user \in MessageUpto(ids)
    BY <2>3, <1>1 DEF MessageUpto, Message
  <2>5. CASE EndsOpen(ms)
    <3>1. Last(ms) \in MessageUpto(ids)
      <4>1. ms # <<>> /\ Len(ms) \in DOMAIN ms
        BY <2>5, <2>2 DEF EndsOpen
      <4> HIDE DEF ms
      <4> QED BY <4>1, <2>2 DEF Last
    <3>2. Last(ms).id \in Id /\ Last(ms).id <= ids
      BY <3>1 DEF MessageUpto, Message
    <3>3. Result(Last(ms).id) \in MessageUpto(ids)
      BY <3>2, <1>0, ResultType
    <3>4. messages' = [messages EXCEPT ![turn.run] = messages[turn.run] \o <<Result(Last(ms).id), user>>]
      BY <2>1, <2>5
    <3> HIDE DEF user
    <3> QED BY <3>3, <3>4, <2>2, <2>4, <1>0, <1>1, LogType
  <2>6. CASE ~EndsOpen(ms)
    <3>1. messages' = [messages EXCEPT ![turn.run] = messages[turn.run] \o <<user>>]
      BY <2>1, <2>6
    <3> HIDE DEF user
    <3> QED BY <3>1, <2>2, <2>4, <1>0, <1>1, LogType
  <2> QED BY <2>5, <2>6
<1>4. TurnOK'
  <2>1. turn' = [turn EXCEPT !.at = "model"]
    BY DEF WriteUser
  <2>2. turn' \in TurnRecord /\ turn'.at = "model" /\ turn'.run = turn.run /\ turn'.first = turn.first /\ turn'.id = turn.id
    BY <2>1, <1>1 DEF TurnRecord
  <2>3. Left' \in {1, 2} /\ Left = 2
    BY <2>2, <1>1 DEF Left
  <2>4. turn' # NoTurn /\ running' = running
    BY <2>2 DEF NoTurn, WriteUser, core
  <2>5. turn.first <= ids /\ turn.id <= ids /\ ids + Left <= Len(Archive) + 3 * turns
    BY DEF TypeInv, TurnOK
  <2>6. turns \in Nat /\ Len(Archive) \in Nat
    BY ArchiveAssumption DEF TypeInv, CoreOK
  <2>7. turn'.first <= ids' /\ turn'.id <= ids' /\ ids' + Left' <= Len(Archive) + 3 * turns'
    BY <2>2, <2>3, <2>5, <2>6, <1>0
  <2> QED BY <2>2, <2>4, <2>7, <1>1 DEF TurnOK
<1>5. UNCHANGED <<rows, cursors, writer, switch>> /\ switch.op # "open" /\ runs' = runs /\ runs \in 0 .. MaxRuns
  BY <1>1 DEF WriteUser, sync, TypeInv, SwitchOK, StoreOK
<1>6. ids' \in Nat /\ ids <= ids'
  BY <1>0
<1> QED BY <1>2, <1>3, <1>4, <1>5, <1>6, TurnFrame

(* The turn goes on to a place that needs no more ids than it had left.    *)
LEMMA TurnMoves ==
  ASSUME TypeInv, turn.at \notin {"none", "open"}, turn' \in TurnRecord, turn'.run = turn.run,
         turn'.first = turn.first, turn'.at \notin {"none", "open"}, turn'.id <= ids',
         turn'.at \in {"called", "tool"} => turn'.call \in Tool,
         ids' \in Nat, ids <= ids', ids' + Left' <= ids + Left, running' = running, turns' = turns
  PROVE  TurnOK'
<1>1. turn'.run \in Run /\ running' /\ turn' # NoTurn
  BY DEF TypeInv, TurnOK, NoTurn
<1>2. turn.first \in Nat /\ turn.first <= ids /\ ids \in Nat
  BY DEF TypeInv, TurnOK, TurnRecord, CoreOK
<1>3. ids + Left <= Len(Archive) + 3 * turns /\ turns \in Nat /\ Len(Archive) \in Nat
  BY ArchiveAssumption DEF TypeInv, TurnOK, CoreOK
<1>4. Left \in Nat /\ Left' \in Nat
  BY DEF TypeInv, TurnOK, TurnRecord, Left
<1>5. turn'.first <= ids'
  BY <1>2
<1>6. ids' + Left' <= Len(Archive) + 3 * turns'
  <2>1. ASSUME NEW i \in Nat, NEW l \in Nat, NEW i2 \in Nat, NEW l2 \in Nat, NEW a \in Nat, NEW t \in Nat,
               i2 + l2 <= i + l, i + l <= a + 3 * t
        PROVE  i2 + l2 <= a + 3 * t
    BY <2>1
  <2> DEFINE l2 == Left'
             i2 == ids'
             a == Len(Archive)
  <2>2. i2 \in Nat /\ l2 \in Nat /\ a \in Nat /\ i2 + l2 <= ids + Left
    BY <1>3, <1>4
  <2> HIDE DEF l2, i2, a
  <2>3. i2 + l2 <= a + 3 * turns
    BY <1>2, <1>3, <1>4, <2>1, <2>2 DEF a
  <2> QED BY <2>3 DEF l2, i2, a
<1> QED BY <1>1, <1>5, <1>6 DEF TurnOK

(* A message of the turn is logged, with the id just given out.            *)
LEMMA LogTyped ==
  ASSUME TypeInv, NEW m \in Message, m.id <= ids', turn.run \in Run, ids' \in Nat, ids <= ids',
         Log(turn.run, m)
  PROVE  messages' \in [Run -> Seq(MessageUpto(ids'))]
<1> DEFINE k == ids'
<1>1. messages \in [Run -> Seq(MessageUpto(k))] /\ k \in Nat
  BY StillTyped
<1>2. m \in MessageUpto(k)
  BY DEF MessageUpto
<1>3. messages' = [messages EXCEPT ![turn.run] = Append(messages[turn.run], m)]
  BY DEF Log
<1> HIDE DEF k
<1>4. messages' \in [Run -> Seq(MessageUpto(k))]
  BY <1>1, <1>2, <1>3, LogType
<1> QED BY <1>4 DEF k

LEMMA ModelCallsTyped ==
  ASSUME TypeInv, NEW c \in Calls, ModelCalls(c.tool, c.text)
  PROVE  TypeInv'
<1>1. turn.at = "model" /\ turn.call = "none" /\ turn \in TurnRecord /\ turn.run \in Run /\ Left = 2
  BY DEF TypeInv, TurnOK, ModelCalls, Left
<1>2. ids + 1 \in Id /\ ids + 1 \in Nat /\ ids \in Nat /\ ids' = ids + 1
  <2>1. Left >= 1
    BY <1>1
  <2> QED BY <2>1, NextId DEF ModelCalls, FreshId
<1>3. c.tool \in {"call", "quest"} /\ c.text \in BOOLEAN /\ c.tool \in Tool
  BY SyncAssumption DEF Tool
<1>4. CoreOK'
  <2>1. transcript \in Seq(EntryUpto(ids + 1))
    BY <1>2, StillTyped
  <2> QED BY <2>1, <1>2 DEF ModelCalls, TypeInv, CoreOK, core
<1>5. messages' \in [Run -> Seq(MessageUpto(ids'))]
  <2> DEFINE m == [role |-> "agent", id |-> ids + 1, call |-> c.tool, text |-> c.text]
  <2>1. m \in Message /\ m.id <= ids' /\ Log(turn.run, m) /\ ids' \in Nat /\ ids <= ids'
    BY <1>2, <1>3 DEF Message, ModelCalls
  <2> HIDE DEF m
  <2> QED BY <2>1, <1>1, LogTyped
<1>6. TurnOK'
  <2>1. turn' = [turn EXCEPT !.at = "called", !.id = ids + 1, !.call = c.tool, !.text = c.text]
    BY DEF ModelCalls
  <2>2. /\ turn' \in TurnRecord /\ turn'.at = "called" /\ turn'.run = turn.run /\ turn'.first = turn.first
        /\ turn'.id = ids + 1 /\ turn'.call = c.tool
    BY <2>1, <1>1, <1>2, <1>3 DEF TurnRecord
  <2>3. Left' = 1
    BY <2>2 DEF Left
  <2>4. running' = running /\ turns' = turns
    BY DEF ModelCalls, core
  <2>5. ids' + Left' <= ids + Left /\ turn'.id <= ids' /\ ids' \in Nat /\ ids <= ids'
    BY <2>2, <2>3, <1>1, <1>2
  <2> QED BY <1>1, <1>3, <2>2, <2>4, <2>5, TurnMoves
<1>7. UNCHANGED <<rows, cursors, writer, switch>> /\ switch.op # "open" /\ runs' = runs /\ runs \in 0 .. MaxRuns
  BY <1>1 DEF ModelCalls, sync, TypeInv, SwitchOK, StoreOK, NoTurn
<1>8. ids' \in Nat /\ ids <= ids'
  BY <1>2
<1> QED BY <1>4, <1>5, <1>6, <1>7, <1>8, TurnFrame

(* The entry of a text that has an id.                                     *)
LEMMA TextType ==
  ASSUME NEW n \in Nat, NEW t \in Seq(EntryUpto(n)), NEW id \in Id, id <= n, NEW text \in BOOLEAN
  PROVE  t \o (IF text THEN Text(id) ELSE <<>>) \in Seq(EntryUpto(n))
<1>1. "text" \in {"user", "text", "call", "meta", "mark"} /\ TRUE \in BOOLEAN
  OBVIOUS
<1>2. Shown("text", id, TRUE) \in EntryUpto(n)
  BY <1>1, ShownType
<1> QED BY <1>2, SayType DEF Text

LEMMA TurnId ==
  ASSUME TypeInv, turn # NoTurn
  PROVE  turn.id \in Id /\ turn.id <= ids /\ ids \in Nat
<1>1. turn.id \in Nat /\ turn.id <= ids /\ ids + Left <= Len(Archive) + 3 * turns /\ Left \in Nat
  BY DEF TypeInv, TurnOK, TurnRecord, Left
<1>2. turns \in 0 .. MaxTurns /\ MaxTurns \in Nat /\ Len(Archive) \in Nat /\ ids \in Nat
  BY SyncAssumption, ArchiveAssumption DEF TypeInv, CoreOK
<1> QED BY <1>1, <1>2 DEF Id

LEMMA ToolStartTyped == TypeInv /\ ToolStart => TypeInv'
<1> SUFFICES ASSUME TypeInv, ToolStart PROVE TypeInv'
  OBVIOUS
<1>1. turn.at = "called" /\ turn \in TurnRecord /\ turn # NoTurn /\ turn.call \in Tool /\ Left = 1 /\ ids \in Nat
  BY DEF TypeInv, TurnOK, ToolStart, Left, NoTurn, CoreOK
<1>2. UNCHANGED <<run, running, store, sync, switch, counters>>
  BY DEF ToolStart
<1>3. transcript' \in Seq(EntryUpto(ids'))
  <2>1. turn.id \in Id /\ turn.id <= ids
    BY <1>1, TurnId
  <2>2. transcript' = transcript \o ((IF turn.text THEN Text(turn.id) ELSE <<>>) \o <<Shown("call", turn.id, FALSE)>>)
    BY DEF ToolStart, Say
  <2>3. Shown("call", turn.id, FALSE) \in EntryUpto(ids) /\ Shown("text", turn.id, TRUE) \in EntryUpto(ids)
    <3>1. {"call", "text"} \subseteq {"user", "text", "call", "meta", "mark"} /\ {TRUE, FALSE} \subseteq BOOLEAN
      OBVIOUS
    <3> QED BY <2>1, <1>1, <3>1, ShownType
  <2>4. transcript \in Seq(EntryUpto(ids))
    BY DEF TypeInv, CoreOK
  <2>5. transcript' \in Seq(EntryUpto(ids))
    BY <2>2, <2>3, <2>4, <1>1, SayType DEF Text
  <2> QED BY <2>5, <1>2 DEF counters
<1>4. CoreOK'
  BY <1>2, <1>3 DEF TypeInv, CoreOK, counters
<1>5. TurnOK'
  <2>1. turn' = [turn EXCEPT !.at = "tool"]
    BY DEF ToolStart
  <2>2. /\ turn' \in TurnRecord /\ turn'.at = "tool" /\ turn'.run = turn.run /\ turn'.first = turn.first
        /\ turn'.id = turn.id /\ turn'.call = turn.call
    BY <2>1, <1>1 DEF TurnRecord
  <2>3. Left' = 1
    BY <2>2 DEF Left
  <2>4. ids' = ids /\ running' = running /\ turns' = turns /\ turn.id <= ids
    BY <1>1, <1>2, TurnId DEF counters
  <2>5. ids' + Left' <= ids + Left /\ turn'.id <= ids' /\ ids' \in Nat /\ ids <= ids'
    BY <2>2, <2>3, <2>4, <1>1
  <2> QED BY <1>1, <2>2, <2>4, <2>5, TurnMoves
<1>6. /\ UNCHANGED <<rows, cursors, writer, switch>> /\ switch.op # "open" /\ runs' \in 0 .. MaxRuns
      /\ messages' \in [Run -> Seq(MessageUpto(ids'))]
  BY <1>1, <1>2 DEF sync, store, counters, TypeInv, SwitchOK, StoreOK
<1>7. ids' \in Nat /\ ids <= ids'
  BY <1>1, <1>2 DEF counters
<1> QED BY <1>4, <1>5, <1>6, <1>7, TurnFrame

LEMMA ToolEndTyped == TypeInv /\ ToolEnd => TypeInv'
<1> SUFFICES ASSUME TypeInv, ToolEnd PROVE TypeInv'
  OBVIOUS
<1>1. turn.at = "tool" /\ turn \in TurnRecord /\ turn # NoTurn /\ turn.call \in Tool /\ turn.run \in Run /\ Left = 1
      /\ ids \in Nat
  BY DEF TypeInv, TurnOK, ToolEnd, Left, NoTurn, CoreOK
<1>2. UNCHANGED <<core, rows, runs, sync, switch, counters>> /\ ids' = ids
  BY DEF ToolEnd, counters
<1>3. turn.id \in Id /\ turn.id <= ids
  BY <1>1, TurnId
<1>4. messages' \in [Run -> Seq(MessageUpto(ids'))]
  <2> DEFINE m == Result(turn.id)
  <2>1. m \in Message /\ m.id <= ids' /\ Log(turn.run, m) /\ ids' \in Nat /\ ids <= ids'
    BY <1>1, <1>2, <1>3, ResultType DEF MessageUpto, ToolEnd
  <2> HIDE DEF m
  <2> QED BY <2>1, <1>1, LogTyped
<1>5. CoreOK'
  BY <1>2 DEF TypeInv, CoreOK, counters, core
<1>6. TurnOK'
  <2>1. turn' = [turn EXCEPT !.at = "model"]
    BY DEF ToolEnd
  <2>2. /\ turn' \in TurnRecord /\ turn'.at = "model" /\ turn'.run = turn.run /\ turn'.first = turn.first
        /\ turn'.id = turn.id /\ turn'.call = turn.call
    BY <2>1, <1>1 DEF TurnRecord
  <2>3. Left' = 1
    BY <2>2, <1>1 DEF Left, Tool
  <2>4. ids' = ids /\ running' = running /\ turns' = turns
    BY <1>2 DEF counters, core
  <2>5. ids' + Left' <= ids + Left /\ turn'.id <= ids' /\ ids' \in Nat /\ ids <= ids'
    BY <2>2, <2>3, <2>4, <1>1, <1>3
  <2> QED BY <1>1, <2>2, <2>4, <2>5, TurnMoves
<1>7. UNCHANGED <<rows, cursors, writer, switch>> /\ switch.op # "open" /\ runs' \in 0 .. MaxRuns
  BY <1>1, <1>2 DEF sync, TypeInv, SwitchOK, StoreOK
<1>8. ids' \in Nat /\ ids <= ids'
  BY <1>1, <1>2
<1> QED BY <1>4, <1>5, <1>6, <1>7, <1>8, TurnFrame

LEMMA ModelAnswersTyped == TypeInv /\ ModelAnswers => TypeInv'
<1> SUFFICES ASSUME TypeInv, ModelAnswers PROVE TypeInv'
  OBVIOUS
<1>1. turn.at = "model" /\ turn \in TurnRecord /\ turn.run \in Run /\ Left \in {1, 2}
  BY DEF TypeInv, TurnOK, ModelAnswers, Left
<1>2. ids + 1 \in Id /\ ids + 1 \in Nat /\ ids \in Nat /\ ids' = ids + 1 /\ ids <= ids'
  <2>1. Left >= 1
    BY <1>1
  <2>2. ids + 1 \in Id /\ ids + 1 \in Nat /\ ids \in Nat /\ ids' = ids + 1
    BY <2>1, NextId DEF ModelAnswers, FreshId
  <2> QED BY <2>2
<1>3. CoreOK'
  <2>1. transcript \in Seq(EntryUpto(ids + 1))
    BY <1>2, StillTyped
  <2> QED BY <2>1, <1>2 DEF ModelAnswers, TypeInv, CoreOK, core
<1>4. messages' \in [Run -> Seq(MessageUpto(ids'))]
  <2> DEFINE m == [role |-> "agent", id |-> ids + 1, call |-> "none", text |-> TRUE]
  <2>1. m \in Message /\ m.id <= ids' /\ Log(turn.run, m) /\ ids' \in Nat /\ ids <= ids'
    BY <1>2 DEF Message, ModelAnswers
  <2> HIDE DEF m
  <2> QED BY <2>1, <1>1, LogTyped
<1>5. TurnOK'
  <2>1. turn' = [turn EXCEPT !.at = "fold", !.id = ids + 1, !.text = TRUE]
    BY DEF ModelAnswers
  <2>2. /\ turn' \in TurnRecord /\ turn'.at = "fold" /\ turn'.run = turn.run /\ turn'.first = turn.first
        /\ turn'.id = ids + 1
    BY <2>1, <1>1, <1>2 DEF TurnRecord
  <2>3. Left' = 0
    BY <2>2 DEF Left
  <2>4. running' = running /\ turns' = turns
    BY DEF ModelAnswers, core
  <2>5. ids' + Left' <= ids + Left /\ turn'.id <= ids' /\ ids' \in Nat
    BY <2>2, <2>3, <1>1, <1>2
  <2> QED BY <1>1, <1>2, <2>2, <2>4, <2>5, TurnMoves
<1>6. UNCHANGED <<rows, cursors, writer, switch>> /\ switch.op # "open" /\ runs' \in 0 .. MaxRuns
  BY <1>1 DEF ModelAnswers, sync, TypeInv, SwitchOK, StoreOK, NoTurn
<1>7. ids' \in Nat
  BY <1>2
<1> QED BY <1>2, <1>3, <1>4, <1>5, <1>6, <1>7, TurnFrame

LEMMA TurnCancelledTyped == TypeInv /\ TurnCancelled => TypeInv'
<1> SUFFICES ASSUME TypeInv, TurnCancelled PROVE TypeInv'
  OBVIOUS
<1> DEFINE id == IF turn.at = "model" THEN ids + 1 ELSE turn.id
           next == IF turn.at = "model" THEN ids + 1 ELSE ids
<1>1. turn.at \in {"model", "tool"} /\ turn \in TurnRecord /\ turn.run \in Run /\ Left \in {1, 2} /\ turn # NoTurn
      /\ turn.id <= ids /\ turn.id \in Nat /\ ids \in Nat
  <2>1. turn.at \in {"model", "tool"}
    BY DEF TurnCancelled
  <2>2. turn \in TurnRecord /\ turn.run \in Run /\ turn.id <= ids /\ ids \in Nat
    BY <2>1 DEF TypeInv, TurnOK, CoreOK
  <2>3. Left \in {1, 2}
    BY <2>1 DEF Left
  <2> QED BY <2>1, <2>2, <2>3 DEF TurnRecord, NoTurn
<1>2. PICK text \in BOOLEAN : turn' = [turn EXCEPT !.at = "fold", !.id = id, !.text = text]
  <2>1. CASE turn.at = "model"
    BY <2>1 DEF TurnCancelled
  <2>2. CASE turn.at = "tool"
    <3>1. turn' = [turn EXCEPT !.at = "fold", !.text = FALSE]
      BY <2>2 DEF TurnCancelled
    <3>2. turn' = [turn EXCEPT !.at = "fold", !.id = turn.id, !.text = FALSE]
      BY <3>1, <1>1 DEF TurnRecord
    <3> QED BY <3>2, <2>2
  <2> QED BY <1>1, <2>1, <2>2
<1>3. UNCHANGED <<core, store, sync, switch, turns, events, broken>> /\ ids' = next
  BY DEF TurnCancelled, FreshId, counters
<1>4. ids' \in Nat /\ ids <= ids' /\ id \in Nat /\ id <= ids' /\ next <= ids + 1
  BY <1>1, <1>3
<1>5. CoreOK'
  <2>1. transcript \in Seq(EntryUpto(ids'))
    BY <1>4, StillTyped
  <2> QED BY <2>1, <1>3, <1>4 DEF TypeInv, CoreOK, core
<1>6. messages' \in [Run -> Seq(MessageUpto(ids'))]
  <2>1. messages \in [Run -> Seq(MessageUpto(ids'))]
    BY <1>4, StillTyped
  <2> QED BY <2>1, <1>3 DEF store
<1>7. TurnOK'
  <2>1. /\ turn' \in TurnRecord /\ turn'.at = "fold" /\ turn'.run = turn.run /\ turn'.first = turn.first
        /\ turn'.id = id
    BY <1>1, <1>2, <1>4 DEF TurnRecord
  <2>2. Left' = 0
    BY <2>1 DEF Left
  <2>3. running' = running /\ turns' = turns
    BY <1>3 DEF core
  <2>4. ids' + Left' <= ids + Left /\ turn'.id <= ids'
    BY <2>1, <2>2, <1>1, <1>3, <1>4
  <2> QED BY <1>1, <1>4, <2>1, <2>3, <2>4, TurnMoves
<1>8. UNCHANGED <<rows, cursors, writer, switch>> /\ switch.op # "open" /\ runs' \in 0 .. MaxRuns
  BY <1>1, <1>3 DEF sync, store, TypeInv, SwitchOK, StoreOK
<1> QED BY <1>4, <1>5, <1>6, <1>7, <1>8, TurnFrame

LEMMA FoldedType ==
  ASSUME NEW n \in Nat, NEW t \in Seq(EntryUpto(n)), NEW ms
  PROVE  /\ Folded(t, ms) \in Seq(EntryUpto(n)) /\ DOMAIN Folded(t, ms) = DOMAIN t
         /\ \A i \in DOMAIN t : SameEntry(Folded(t, ms)[i], t[i])
<1>0. DOMAIN t = 1 .. Len(t) /\ Len(t) \in Nat
  OBVIOUS
<1>1. ASSUME NEW i \in DOMAIN t
      PROVE  Folded(t, ms)[i] \in EntryUpto(n) /\ SameEntry(Folded(t, ms)[i], t[i])
  <2>1. t[i] \in Entry /\ t[i].id <= n
    BY DEF EntryUpto
  <2>2. [t[i] EXCEPT !.out = TRUE] \in Entry /\ [t[i] EXCEPT !.out = TRUE].id = t[i].id
        /\ [t[i] EXCEPT !.out = TRUE].kind = t[i].kind
    BY <2>1 DEF Entry
  <2>3. Folded(t, ms)[i] = t[i] \/ Folded(t, ms)[i] = [t[i] EXCEPT !.out = TRUE]
    BY DEF Folded
  <2> QED BY <2>1, <2>2, <2>3 DEF EntryUpto, SameEntry
<1>2. Folded(t, ms) = [i \in 1 .. Len(t) |-> Folded(t, ms)[i]]
  BY <1>0 DEF Folded
<1> DEFINE E == EntryUpto(n)
<1>3. \A i \in 1 .. Len(t) : Folded(t, ms)[i] \in E
  BY <1>0, <1>1
<1> HIDE DEF E
<1>4. [i \in 1 .. Len(t) |-> Folded(t, ms)[i]] \in Seq(E)
  BY <1>0, <1>3
<1> QED BY <1>0, <1>1, <1>2, <1>4 DEF E

LEMMA FoldTyped == TypeInv /\ FoldToolOutcomes => TypeInv'
<1> SUFFICES ASSUME TypeInv, FoldToolOutcomes PROVE TypeInv'
  OBVIOUS
<1>1. turn.at = "fold" /\ turn \in TurnRecord /\ turn # NoTurn /\ turn.text \in BOOLEAN /\ Left = 0 /\ ids \in Nat
  BY DEF TypeInv, TurnOK, TurnRecord, FoldToolOutcomes, Left, NoTurn, CoreOK
<1>2. UNCHANGED <<run, running, store, sync, switch, counters>> /\ ids' = ids /\ ids <= ids'
  BY <1>1 DEF FoldToolOutcomes, counters
<1>3. CoreOK'
  <2> DEFINE flushed == transcript \o (IF turn.text THEN Text(turn.id) ELSE <<>>)
  <2>1. transcript \in Seq(EntryUpto(ids)) /\ turn.id \in Id /\ turn.id <= ids
    BY <1>1, TurnId DEF TypeInv, CoreOK
  <2>2. flushed \in Seq(EntryUpto(ids))
    BY <2>1, <1>1, TextType
  <2>3. transcript' = Folded(flushed, messages[turn.run])
    BY DEF FoldToolOutcomes
  <2> HIDE DEF flushed
  <2>4. transcript' \in Seq(EntryUpto(ids'))
    BY <2>2, <2>3, <1>1, <1>2, FoldedType
  <2> QED BY <2>4, <1>2 DEF TypeInv, CoreOK, counters
<1>4. TurnOK'
  <2>1. turn' = [turn EXCEPT !.at = "end"]
    BY DEF FoldToolOutcomes
  <2>2. /\ turn' \in TurnRecord /\ turn'.at = "end" /\ turn'.run = turn.run /\ turn'.first = turn.first
        /\ turn'.id = turn.id
    BY <2>1, <1>1 DEF TurnRecord
  <2>3. Left' = 0
    BY <2>2 DEF Left
  <2>4. running' = running /\ turns' = turns /\ turn.id <= ids
    BY <1>1, <1>2, TurnId DEF counters
  <2>5. ids' + Left' <= ids + Left /\ turn'.id <= ids' /\ ids' \in Nat
    BY <2>2, <2>3, <2>4, <1>1, <1>2
  <2> QED BY <1>1, <1>2, <2>2, <2>4, <2>5, TurnMoves
<1>5. /\ UNCHANGED <<rows, cursors, writer, switch>> /\ switch.op # "open" /\ runs' \in 0 .. MaxRuns
      /\ messages' \in [Run -> Seq(MessageUpto(ids'))]
  BY <1>1, <1>2 DEF sync, store, TypeInv, SwitchOK, StoreOK
<1>6. ids' \in Nat
  BY <1>1, <1>2
<1> QED BY <1>2, <1>3, <1>4, <1>5, <1>6, TurnFrame

LEMMA TurnFailsTyped == TypeInv /\ TurnFails => TypeInv'
<1> SUFFICES ASSUME TypeInv, TurnFails PROVE TypeInv'
  OBVIOUS
<1>1. turn.at = "model" /\ turn \in TurnRecord /\ turn.run \in Run /\ Left \in {1, 2} /\ turn # NoTurn
      /\ turn.id <= ids /\ turn.id \in Nat
  BY DEF TypeInv, TurnOK, TurnRecord, TurnFails, Left, NoTurn
<1>2. ids + 1 \in Id /\ ids + 1 \in Nat /\ ids \in Nat /\ ids' = ids + 1 /\ ids <= ids'
  <2>1. Left >= 1
    BY <1>1
  <2>2. ids + 1 \in Id /\ ids + 1 \in Nat /\ ids \in Nat /\ ids' = ids + 1
    BY <2>1, NextId DEF TurnFails, FreshId
  <2> QED BY <2>2
<1>3. UNCHANGED <<run, running, store, sync, switch, turns, events, broken>>
  BY DEF TurnFails
<1>4. CoreOK'
  <2>1. transcript \in Seq(EntryUpto(ids + 1)) /\ ids + 1 <= ids + 1
    BY <1>2, StillTyped
  <2>2. PICK partial \in BOOLEAN : transcript' = transcript \o (IF partial THEN Text(ids + 1) ELSE <<>>)
    BY DEF TurnFails, Say
  <2>3. transcript' \in Seq(EntryUpto(ids + 1))
    BY <2>1, <2>2, <1>2, TextType
  <2> QED BY <2>3, <1>2, <1>3 DEF TypeInv, CoreOK
<1>5. messages' \in [Run -> Seq(MessageUpto(ids'))]
  <2>1. messages \in [Run -> Seq(MessageUpto(ids + 1))]
    BY <1>2, StillTyped
  <2> QED BY <2>1, <1>2, <1>3 DEF store
<1>6. TurnOK'
  <2>1. turn' = [turn EXCEPT !.at = "end"]
    BY DEF TurnFails
  <2>2. /\ turn' \in TurnRecord /\ turn'.at = "end" /\ turn'.run = turn.run /\ turn'.first = turn.first
        /\ turn'.id = turn.id
    BY <2>1, <1>1 DEF TurnRecord
  <2>3. Left' = 0
    BY <2>2 DEF Left
  <2>4. ids' + Left' <= ids + Left /\ turn'.id <= ids' /\ ids' \in Nat
    BY <2>2, <2>3, <1>1, <1>2
  <2> QED BY <1>1, <1>2, <1>3, <2>2, <2>4, TurnMoves
<1>7. UNCHANGED <<rows, cursors, writer, switch>> /\ switch.op # "open" /\ runs' \in 0 .. MaxRuns
  BY <1>1, <1>3 DEF sync, store, TypeInv, SwitchOK, StoreOK
<1>8. ids' \in Nat
  BY <1>2
<1> QED BY <1>2, <1>4, <1>5, <1>6, <1>7, <1>8, TurnFrame

LEMMA FinalizeTyped == TypeInv /\ FinalizeTurn => TypeInv'
<1> SUFFICES ASSUME TypeInv, FinalizeTurn PROVE TypeInv'
  OBVIOUS
<1>1. turn.at = "end" /\ turn' = NoTurn /\ running' = FALSE /\ Left = 0
  BY DEF FinalizeTurn, TypeInv, TurnOK, Left
<1>2. UNCHANGED <<transcript, run, store, sync, switch, counters>> /\ ids' = ids /\ turns' = turns
  BY DEF FinalizeTurn, counters
<1>3. CoreOK'
  BY <1>1, <1>2 DEF TypeInv, CoreOK, counters
<1>4. TurnOK'
  <2>1. turn' \in TurnRecord
    BY <1>1 DEF TurnRecord, NoTurn, NoRun
  <2>2. Left' = 0
    BY <1>1 DEF Left, NoTurn
  <2>3. turn'.first <= ids' /\ turn'.id <= ids'
    BY <1>1, <1>2 DEF NoTurn, TypeInv, CoreOK
  <2>4. ids' + Left' <= Len(Archive) + 3 * turns'
    BY <1>1, <1>2, <2>2 DEF TypeInv, TurnOK
  <2>5. turn'.at = "none"
    BY <1>1 DEF NoTurn
  <2> QED BY <1>1, <2>1, <2>3, <2>4, <2>5 DEF TurnOK
<1>5. /\ UNCHANGED <<rows, cursors, writer, switch>> /\ runs' \in 0 .. MaxRuns
      /\ messages' \in [Run -> Seq(MessageUpto(ids'))] /\ ids' \in Nat /\ ids <= ids'
  BY <1>2 DEF sync, store, TypeInv, StoreOK, CoreOK
<1> QED BY <1>1, <1>3, <1>4, <1>5, TurnFrame

(* What a step of a pass or of a handler does not touch.                   *)
LEMMA QuietFrame ==
  ASSUME TypeInv, UNCHANGED <<core, turn, runs, ids, turns>>
  PROVE  /\ TurnOK' /\ ids' = ids /\ ids \in Nat
         /\ events' \in 0 .. MaxEvents /\ broken' \in BOOLEAN => CoreOK'
<1>1. CoreOK /\ TurnOK
  BY DEF TypeInv
<1>2. UNCHANGED <<transcript, run, running, turn, runs, ids, turns>>
  BY DEF core
<1>3. TurnOK'
  <2>1. Left' = Left
    BY <1>2 DEF Left
  <2>2. UNCHANGED <<run, running, turn, runs, ids, turns, Left>>
    BY <1>2, <2>1
  <2> QED BY <1>1, <2>2 DEF TurnOK
<1> QED BY <1>1, <1>2, <1>3 DEF CoreOK

LEMMA FaultType ==
  ASSUME TypeInv, Fault \/ UNCHANGED events
  PROVE  events' \in 0 .. MaxEvents
<1>1. events \in 0 .. MaxEvents /\ MaxEvents \in Nat
  BY SyncAssumption DEF TypeInv, CoreOK
<1> QED BY <1>1 DEF Fault

LEMMA SwitchStays ==
  ASSUME TypeInv, ids' = ids, UNCHANGED <<switch, turn>>
  PROVE  SwitchOK'
BY DEF TypeInv, SwitchOK

LEMMA PassType ==
  ASSUME TypeInv, NEW by \in {"loop", "flush"}, run # NoRun
  PROVE  /\ Pass(by) \in PassRecord(ids) /\ Pass(by).until <= Len(Pass(by).entries)
         /\ Pass(by).stage # "boot" => run \in DOMAIN cursors
         /\ Pass(by).by = by /\ Pass(by).run = run /\ Pass(by).entries = transcript
         /\ ids \in Nat
<1> DEFINE tracked == run \in DOMAIN cursors
           from == IF tracked THEN cursors[run] ELSE 0
           until == IF tracked THEN Until(transcript, running, by = "flush", from) ELSE 0
           stage == IF tracked THEN "write" ELSE "boot"
<1>1. transcript \in Seq(EntryUpto(ids)) /\ running \in BOOLEAN /\ run \in Run /\ ids \in Nat /\ Len(transcript) \in Nat
  BY DEF TypeInv, CoreOK
<1>2. from \in Nat
  BY DEF TypeInv, CursorsTyped
<1>3. until \in Nat /\ until <= Len(transcript)
  <2>1. (by = "flush") \in BOOLEAN
    OBVIOUS
  <2> HIDE DEF from
  <2>2. /\ Until(transcript, running, by = "flush", from) \in Nat
        /\ Until(transcript, running, by = "flush", from) <= Len(transcript)
    BY <2>1, <1>1, <1>2, UntilType
  <2> QED BY <2>2, <1>1
<1>4. Pass(by) = [by |-> by, run |-> run, entries |-> transcript, busy |-> running, stage |-> stage,
                  from |-> from, seq |-> from, until |-> until, unfolded |-> FALSE]
  BY DEF Pass
<1>5. stage \in {"boot", "write", "mark"} /\ (stage # "boot" => run \in DOMAIN cursors)
  OBVIOUS
<1> HIDE DEF from, until, stage
<1> QED BY <1>1, <1>2, <1>3, <1>4, <1>5 DEF PassRecord

LEMMA LoopPassTyped == TypeInv /\ LoopPass => TypeInv'
<1> SUFFICES ASSUME TypeInv, LoopPass PROVE TypeInv'
  OBVIOUS
<1>1. UNCHANGED <<core, store, cursors, turn, counters>> /\ writer' = Pass("loop") /\ run # NoRun
      /\ switch' = [switch EXCEPT !.late = FALSE] /\ writer = NoWriter
  BY DEF LoopPass
<1>2. CoreOK' /\ TurnOK' /\ ids' = ids /\ StoreOK' /\ CursorsTyped(cursors')
  <2>1. UNCHANGED <<core, turn, runs, ids, turns>> /\ UNCHANGED events /\ UNCHANGED broken
    BY <1>1 DEF counters, store
  <2>2. TurnOK' /\ ids' = ids /\ CoreOK'
    BY <2>1, QuietFrame DEF TypeInv, CoreOK
  <2> QED BY <2>2, <1>1 DEF TypeInv, StoreOK, store
<1>3. switch \in SwitchRecord(ids) /\ switch.at # "flushing"
  BY <1>1 DEF TypeInv, SwitchOK, WriterOK, NoWriter
<1>4. /\ switch' \in SwitchRecord(ids) /\ switch'.op = switch.op /\ switch'.at = switch.at
      /\ switch'.target = switch.target
  BY <1>1, <1>3 DEF SwitchRecord
<1>5. SwitchOK'
  <2>1. switch = NoSwitch => switch' = NoSwitch
    <3>1. ASSUME NEW n \in Nat, NEW s \in SwitchRecord(n), s.late = FALSE
          PROVE  [s EXCEPT !.late = FALSE] = s
      BY <3>1 DEF SwitchRecord
    <3>2. ids \in Nat /\ NoSwitch.late = FALSE
      BY DEF NoSwitch, TypeInv, CoreOK
    <3> QED BY <3>1, <3>2, <1>1, <1>3
  <2>2. switch' = NoSwitch => switch.at = "none"
    BY <1>4 DEF NoSwitch
  <2>3. turn' = turn
    BY <1>1
  <2> QED BY <1>2, <1>4, <2>1, <2>2, <2>3 DEF TypeInv, SwitchOK
<1>6. WriterOK'
  <2>1. writer' \in PassRecord(ids') /\ writer'.until <= Len(writer'.entries) /\ writer'.by = "loop"
        /\ (writer'.stage # "boot" => writer'.run \in DOMAIN cursors')
    BY <1>1, <1>2, PassType
  <2> QED BY <2>1, <1>3, <1>4 DEF WriterOK
<1> QED BY <1>2, <1>5, <1>6 DEF TypeInv

LEMMA FlushPassTyped == TypeInv /\ FlushPass => TypeInv'
<1> SUFFICES ASSUME TypeInv, FlushPass PROVE TypeInv'
  OBVIOUS
<1>1. UNCHANGED <<core, store, cursors, turn, counters>> /\ writer = NoWriter /\ switch.at = "flush"
  BY DEF FlushPass
<1>2. CoreOK' /\ TurnOK' /\ ids' = ids /\ StoreOK' /\ CursorsTyped(cursors')
  <2>1. UNCHANGED <<core, turn, runs, ids, turns>> /\ UNCHANGED events /\ UNCHANGED broken
    BY <1>1 DEF counters, store
  <2>2. TurnOK' /\ ids' = ids /\ CoreOK'
    BY <2>1, QuietFrame DEF TypeInv, CoreOK
  <2> QED BY <2>2, <1>1 DEF TypeInv, StoreOK, store
<1>3. switch \in SwitchRecord(ids) /\ switch # NoSwitch
  BY <1>1 DEF TypeInv, SwitchOK, NoSwitch
<1>4. PICK at \in {"flushing", "flushed"} :
        /\ switch' = [switch EXCEPT !.at = at]
        /\ at = "flushing" => writer' = Pass("flush") /\ run # NoRun
        /\ at = "flushed" => writer' = NoWriter
  BY <1>1 DEF FlushPass
<1>5. /\ switch' \in SwitchRecord(ids) /\ switch'.op = switch.op /\ switch'.at = at
      /\ switch'.target = switch.target
  BY <1>3, <1>4 DEF SwitchRecord
<1>6. SwitchOK'
  <2>1. switch' # NoSwitch /\ switch.op # "none"
    BY <1>3, <1>5 DEF NoSwitch, TypeInv, SwitchOK
  <2>2. turn' = turn
    BY <1>1
  <2> QED BY <1>2, <1>5, <2>1, <2>2 DEF TypeInv, SwitchOK
<1>7. WriterOK'
  <2>1. CASE at = "flushing"
    <3>1. writer' \in PassRecord(ids') /\ writer'.until <= Len(writer'.entries) /\ writer'.by = "flush"
          /\ (writer'.stage # "boot" => writer'.run \in DOMAIN cursors')
      BY <2>1, <1>1, <1>2, <1>4, PassType
    <3> QED BY <3>1, <2>1, <1>5 DEF WriterOK
  <2>2. CASE at = "flushed"
    BY <2>2, <1>4, <1>5 DEF WriterOK, NoWriter
  <2> QED BY <2>1, <2>2
<1> QED BY <1>2, <1>6, <1>7 DEF TypeInv

(* A pass under way is well typed.                                         *)
LEMMA PassOn ==
  ASSUME TypeInv, writer.by # "none"
  PROVE  /\ writer \in PassRecord(ids) /\ writer.run \in Run /\ writer.seq \in Nat /\ writer.from \in Nat
         /\ writer.until \in Nat /\ writer.until <= Len(writer.entries)
         /\ writer.entries \in Seq(EntryUpto(ids)) /\ Len(writer.entries) \in Nat
         /\ DOMAIN writer.entries = 1 .. Len(writer.entries)
         /\ writer.busy \in BOOLEAN /\ writer.unfolded \in BOOLEAN /\ writer.by \in {"loop", "flush"}
         /\ ids \in Nat
<1>1. writer \in PassRecord(ids) /\ writer.until <= Len(writer.entries) /\ ids \in Nat
  BY DEF TypeInv, WriterOK, NoWriter, CoreOK
<1>2. writer.entries \in Seq(EntryUpto(ids))
  BY <1>1 DEF PassRecord
<1>3. Len(writer.entries) \in Nat /\ DOMAIN writer.entries = 1 .. Len(writer.entries)
  BY <1>2
<1> QED BY <1>1, <1>2, <1>3 DEF PassRecord

(* The lock is let go, and whoever held it goes on.                        *)
LEMMA ReleaseTyped ==
  ASSUME TypeInv, writer.by # "none", NEW c, CursorsTyped(c), Release(c), ids' = ids, turn' = turn
  PROVE  WriterOK' /\ SwitchOK' /\ CursorsTyped(cursors')
<1>1. writer' = NoWriter /\ cursors' = c
  BY DEF Release
<1>2. switch \in SwitchRecord(ids) /\ SwitchOK /\ (writer.by = "flush" <=> switch.at = "flushing")
  BY DEF TypeInv, SwitchOK, WriterOK
<1>3. CASE writer.by = "flush"
  <2>1. switch' = [switch EXCEPT !.at = "flushed"]
    BY <1>3 DEF Release
  <2>2. /\ switch' \in SwitchRecord(ids) /\ switch'.op = switch.op /\ switch'.at = "flushed"
        /\ switch'.target = switch.target
    BY <2>1, <1>2 DEF SwitchRecord
  <2>3. switch' # NoSwitch /\ switch # NoSwitch
    BY <2>2, <1>2, <1>3 DEF NoSwitch
  <2>4. SwitchOK'
    BY <2>2, <2>3, <1>2 DEF SwitchOK
  <2>5. WriterOK'
    BY <2>2, <1>1 DEF WriterOK, NoWriter
  <2> QED BY <2>4, <2>5, <1>1
<1>4. CASE writer.by # "flush"
  <2>1. switch' = switch
    BY <1>4 DEF Release
  <2>2. SwitchOK'
    BY <2>1, SwitchStays
  <2>3. WriterOK'
    BY <2>1, <1>1, <1>2, <1>4 DEF WriterOK, NoWriter
  <2> QED BY <2>2, <2>3, <1>1
<1> QED BY <1>3, <1>4

LEMMA BootstrapTyped == TypeInv /\ Bootstrap => TypeInv'
<1> SUFFICES ASSUME TypeInv, Bootstrap PROVE TypeInv'
  OBVIOUS
<1>1. writer.by # "none" /\ UNCHANGED <<core, store, turn, switch, ids, turns, broken>>
  BY DEF Bootstrap
<1>2. CoreOK' /\ TurnOK' /\ ids' = ids /\ StoreOK'
  <2>1. UNCHANGED <<core, turn, runs, ids, turns>> /\ UNCHANGED broken
    BY <1>1 DEF store
  <2>2. Fault \/ UNCHANGED events
    BY DEF Bootstrap
  <2>3. TurnOK' /\ ids' = ids /\ CoreOK'
    BY <2>1, <2>2, FaultType, QuietFrame DEF TypeInv, CoreOK
  <2> QED BY <2>3, <1>1 DEF TypeInv, StoreOK, store
<1>3. SwitchOK'
  BY <1>1, <1>2, SwitchStays
<1>4. PICK n : /\ n = 0 \/ n = Cardinality(DOMAIN rows[writer.run])
               /\ cursors' \in Tracked(cursors, writer.run, n)
               /\ writer' = [writer EXCEPT !.stage = "write", !.from = n, !.seq = n,
                    !.until = Until(writer.entries, writer.busy, writer.by = "flush", n)]
  BY DEF Bootstrap
<1>5. n \in Nat
  <2>1. IsFiniteSet(DOMAIN rows[writer.run])
    BY <1>1, PassOn DEF TypeInv, StoreOK, TableOK
  <2> QED BY <2>1, <1>4, FS_CardinalityType
<1>6. CursorsTyped(cursors') /\ writer.run \in DOMAIN cursors'
  BY <1>1, <1>4, <1>5, PassOn, TrackedType DEF TypeInv
<1>7. WriterOK'
  <2> DEFINE u == Until(writer.entries, writer.busy, writer.by = "flush", n)
  <2>1. u \in Nat /\ u <= Len(writer.entries)
    <3>1. (writer.by = "flush") \in BOOLEAN
      OBVIOUS
    <3> QED BY <3>1, <1>1, <1>5, PassOn, UntilType
  <2>2. writer' = [writer EXCEPT !.stage = "write", !.from = n, !.seq = n, !.until = u]
    BY <1>4
  <2>3. writer \in PassRecord(ids)
    BY <1>1, PassOn
  <2> HIDE DEF u
  <2>4. /\ writer' \in PassRecord(ids) /\ writer'.by = writer.by /\ writer'.run = writer.run
        /\ writer'.entries = writer.entries /\ writer'.until = u
    BY <2>1, <2>2, <2>3, <1>5 DEF PassRecord
  <2> QED BY <2>1, <2>4, <1>1, <1>2, <1>6 DEF TypeInv, WriterOK
<1> QED BY <1>2, <1>3, <1>6, <1>7 DEF TypeInv

(* A row is added to the table of one run.                                 *)
LEMMA InsertTyped ==
  ASSUME TypeInv, NEW r \in Run, NEW seq \in Nat, NEW e \in EntryUpto(ids),
         rows' = [rows EXCEPT ![r] = InsertOrIgnore(rows[r], seq, e)], UNCHANGED <<messages, runs, ids>>
  PROVE  StoreOK'
<1>1. ids \in Nat /\ TableOK(rows[r], ids) /\ DOMAIN rows = Run
  BY DEF TypeInv, CoreOK, StoreOK
<1>2. TableOK(InsertOrIgnore(rows[r], seq, e), ids)
  BY <1>1, InsertType
<1>3. DOMAIN rows' = Run /\ \A q \in Run : rows'[q] = rows[q] \/ rows'[q] = InsertOrIgnore(rows[r], seq, e)
  BY <1>1
<1>4. \A q \in Run : TableOK(rows'[q], ids)
  BY <1>2, <1>3 DEF TypeInv, StoreOK
<1> QED BY <1>3, <1>4 DEF TypeInv, StoreOK

LEMMA InsertEntryTyped == TypeInv /\ InsertEntry => TypeInv'
<1> SUFFICES ASSUME TypeInv, InsertEntry PROVE TypeInv'
  OBVIOUS
<1> DEFINE e == writer.entries[writer.seq + 1]
<1>1. /\ writer.by # "none" /\ writer.stage = "write" /\ writer.seq < writer.until
      /\ UNCHANGED <<core, messages, runs, cursors, turn, switch, ids, turns>>
  BY DEF InsertEntry
<1>2. /\ writer \in PassRecord(ids) /\ writer.run \in Run /\ writer.seq \in Nat /\ writer.until <= Len(writer.entries)
      /\ writer.seq + 1 \in DOMAIN writer.entries /\ e \in EntryUpto(ids) /\ writer.unfolded \in BOOLEAN
      /\ writer.seq <= Len(writer.entries)
  BY <1>1, PassOn
<1>3. broken' \in BOOLEAN /\ (Fault \/ UNCHANGED events)
  <2>1. broken \in BOOLEAN
    BY DEF TypeInv, CoreOK
  <2>2. \/ broken' = (broken \/ LacksMark(rows[writer.run], writer.seq, writer.entries))
        \/ broken' = (broken \/ switch = [switch EXCEPT !.op = "open", !.at = "flushing"])
    BY DEF InsertEntry
  <2>3. Fault \/ UNCHANGED events
    BY DEF InsertEntry
  <2>4. \A x : (broken \/ x) \in BOOLEAN
    BY <2>1
  <2> QED BY <2>2, <2>3, <2>4, Zenon
<1>4. CoreOK' /\ TurnOK' /\ ids' = ids
  BY <1>1, <1>3, FaultType, QuietFrame
<1>5. SwitchOK' /\ CursorsTyped(cursors')
  BY <1>1, <1>4, SwitchStays DEF TypeInv
<1>6. CASE /\ rows' = [rows EXCEPT ![writer.run] = InsertOrIgnore(@, writer.seq, e)]
           /\ writer' = [writer EXCEPT !.seq = @ + 1, !.unfolded = @ \/ (e.kind = "call" /\ ~e.out)]
  <2>1. rows' = [rows EXCEPT ![writer.run] = InsertOrIgnore(rows[writer.run], writer.seq, e)]
    BY <1>6
  <2> HIDE DEF e
  <2>2. StoreOK'
    BY <2>1, <1>1, <1>2, InsertTyped
  <2> DEFINE u == writer.unfolded \/ (e.kind = "call" /\ ~e.out)
             n == writer.seq + 1
  <2>3. u \in BOOLEAN /\ n \in Nat /\ writer' = [writer EXCEPT !.seq = n, !.unfolded = u]
    BY <1>2, <1>6
  <2> HIDE DEF u, n
  <2>4. /\ writer' \in PassRecord(ids) /\ writer'.by = writer.by /\ writer'.run = writer.run
        /\ writer'.entries = writer.entries /\ writer'.until = writer.until
    BY <1>2, <2>3 DEF PassRecord
  <2>5. WriterOK'
    BY <2>4, <1>1, <1>2, <1>4 DEF TypeInv, WriterOK
  <2> QED BY <2>2, <2>5, <1>4, <1>5 DEF TypeInv
<1>7. CASE rows' = rows /\ writer' = [writer EXCEPT !.until = writer.seq]
  <2>1. StoreOK'
    BY <1>1, <1>4, <1>7 DEF TypeInv, StoreOK
  <2>2. /\ writer' \in PassRecord(ids) /\ writer'.by = writer.by /\ writer'.run = writer.run
        /\ writer'.entries = writer.entries /\ writer'.until = writer.seq
    BY <1>2, <1>7 DEF PassRecord
  <2>3. WriterOK'
    BY <2>2, <1>1, <1>2, <1>4 DEF TypeInv, WriterOK
  <2> QED BY <2>1, <2>3, <1>4, <1>5 DEF TypeInv
<1>8. \/ /\ rows' = [rows EXCEPT ![writer.run] = InsertOrIgnore(@, writer.seq, e)]
         /\ writer' = [writer EXCEPT !.seq = @ + 1, !.unfolded = @ \/ (e.kind = "call" /\ ~e.out)]
      \/ rows' = rows /\ writer' = [writer EXCEPT !.until = writer.seq]
  BY DEF InsertEntry
<1> QED BY <1>6, <1>7, <1>8

LEMMA EndPassTyped == TypeInv /\ EndPass => TypeInv'
<1> SUFFICES ASSUME TypeInv, EndPass PROVE TypeInv'
  OBVIOUS
<1>1. writer.by # "none" /\ writer.stage = "write" /\ UNCHANGED <<core, store, turn, counters>>
  BY DEF EndPass
<1>2. CoreOK' /\ TurnOK' /\ ids' = ids /\ StoreOK'
  <2>1. UNCHANGED <<core, turn, runs, ids, turns>> /\ UNCHANGED events /\ UNCHANGED broken
    BY <1>1 DEF counters, store
  <2>2. TurnOK' /\ ids' = ids /\ CoreOK'
    BY <2>1, QuietFrame DEF TypeInv, CoreOK
  <2> QED BY <2>2, <1>1 DEF TypeInv, StoreOK, store
<1> DEFINE c == IF writer.seq > writer.from THEN Put(cursors, writer.run, writer.seq) ELSE cursors
<1>3. CursorsTyped(c) /\ writer.run \in DOMAIN c
  <2>1. writer.run \in DOMAIN cursors /\ writer.run \in Run /\ writer.seq \in Nat /\ CursorsTyped(cursors)
    BY <1>1, PassOn DEF TypeInv, WriterOK
  <2>2. CursorsTyped(Put(cursors, writer.run, writer.seq)) /\ writer.run \in DOMAIN Put(cursors, writer.run, writer.seq)
    <3> DEFINE p == Put(cursors, writer.run, writer.seq)
    <3>1. Moved(cursors, p, writer.run, writer.seq) /\ CursorsTyped(p)
      BY <2>1, PutType
    <3> HIDE DEF p
    <3>2. writer.run \in DOMAIN p
      BY <3>1 DEF Moved
    <3> QED BY <3>1, <3>2 DEF p
  <2> QED BY <2>1, <2>2
<1>4. CASE writer.by = "flush" /\ writer.unfolded
  <2>1. cursors' = c /\ writer' = [writer EXCEPT !.stage = "mark"] /\ switch' = switch
    BY <1>4 DEF EndPass
  <2>2. writer \in PassRecord(ids)
    BY <1>1, PassOn
  <2>3. /\ writer' \in PassRecord(ids) /\ writer'.by = writer.by /\ writer'.run = writer.run
        /\ writer'.entries = writer.entries /\ writer'.until = writer.until
    BY <2>1, <2>2 DEF PassRecord
  <2>4. WriterOK'
    BY <2>1, <2>3, <1>1, <1>2, <1>3 DEF TypeInv, WriterOK
  <2>5. SwitchOK'
    BY <2>1, <1>1, <1>2, SwitchStays
  <2> QED BY <2>1, <2>4, <2>5, <1>2, <1>3 DEF TypeInv
<1>5. CASE ~(writer.by = "flush" /\ writer.unfolded)
  <2>1. Release(c)
    BY <1>5 DEF EndPass
  <2> HIDE DEF c
  <2>2. turn' = turn
    BY <1>1
  <2> QED BY <2>1, <2>2, <1>1, <1>2, <1>3, ReleaseTyped DEF TypeInv
<1> QED BY <1>4, <1>5

LEMMA InsertMarkTyped == TypeInv /\ InsertMark => TypeInv'
<1> SUFFICES ASSUME TypeInv, InsertMark PROVE TypeInv'
  OBVIOUS
<1>1. writer.by # "none" /\ writer.stage = "mark" /\ UNCHANGED <<core, messages, runs, turn, ids, turns, broken>>
  BY DEF InsertMark
<1>2. CoreOK' /\ TurnOK' /\ ids' = ids
  <2>1. Fault \/ UNCHANGED events
    BY DEF InsertMark
  <2> QED BY <2>1, <1>1, FaultType, QuietFrame DEF TypeInv, CoreOK
<1>3. writer.run \in DOMAIN cursors /\ writer.run \in Run /\ writer.seq \in Nat /\ CursorsTyped(cursors) /\ ids \in Nat
  BY <1>1, PassOn DEF TypeInv, WriterOK
<1>4. turn' = turn
  BY <1>1
<1>5. CASE /\ rows' = [rows EXCEPT ![writer.run] = InsertOrIgnore(@, writer.seq, Mark)]
           /\ Release(Put(cursors, writer.run, writer.seq + 1))
  <2>1. StoreOK'
    <3>1. rows' = [rows EXCEPT ![writer.run] = InsertOrIgnore(rows[writer.run], writer.seq, Mark)]
      BY <1>5
    <3>2. Mark \in EntryUpto(ids)
      BY <1>3, MarksType
    <3> QED BY <3>1, <3>2, <1>1, <1>3, InsertTyped
  <2>2. writer.seq + 1 \in Nat
    BY <1>3
  <2>3. CursorsTyped(Put(cursors, writer.run, writer.seq + 1))
    BY <1>3, <2>2, PutType
  <2> QED BY <2>1, <2>3, <1>1, <1>2, <1>4, <1>5, ReleaseTyped DEF TypeInv
<1>6. CASE Release(cursors) /\ rows' = rows
  <2>1. StoreOK'
    BY <1>1, <1>2, <1>6 DEF TypeInv, StoreOK
  <2> QED BY <2>1, <1>1, <1>2, <1>3, <1>4, <1>6, ReleaseTyped DEF TypeInv
<1> QED BY <1>5, <1>6 DEF InsertMark

(* A step of a handler outside its flush leaves the passes alone.          *)
LEMMA HandlerFrame ==
  ASSUME TypeInv, switch.at # "flushing", switch'.at # "flushing", ids' = ids, UNCHANGED writer,
         cursors' = cursors
  PROVE  WriterOK' /\ CursorsTyped(cursors')
BY DEF TypeInv, WriterOK

LEMMA BeginTyped ==
  ASSUME TypeInv, NEW op \in {"new", "open", "stop"}, NEW target \in Run \cup {NoRun}, NEW late \in BOOLEAN,
         Begin(op, target, late), op = "open" => ~running /\ target \in Run
  PROVE  TypeInv'
<1>1. /\ UNCHANGED <<core, store, sync, turn, ids, turns, broken>> /\ switch = NoSwitch
      /\ events < MaxEvents /\ events' = events + 1
  BY DEF Begin
<1>2. CoreOK' /\ TurnOK' /\ ids' = ids /\ StoreOK'
  <2>1. UNCHANGED <<core, turn, runs, ids, turns>> /\ UNCHANGED broken
    BY <1>1 DEF store
  <2>2. events' \in 0 .. MaxEvents
    BY <1>1, SyncAssumption DEF TypeInv, CoreOK
  <2>3. TurnOK' /\ ids' = ids /\ CoreOK'
    BY <2>1, <2>2, QuietFrame DEF TypeInv, CoreOK
  <2> QED BY <2>3, <1>1 DEF TypeInv, StoreOK, store
<1>3. switch' = [op |-> op, at |-> "flush", target |-> target, popped |-> FALSE, late |-> late,
                 loaded |-> <<>>, built |-> <<>>]
  BY DEF Begin, NoSwitch
<1>4. switch' \in SwitchRecord(ids')
  <2>1. <<>> \in Seq(MessageUpto(ids')) /\ <<>> \in Seq(EntryUpto(ids'))
    OBVIOUS
  <2> QED BY <2>1, <1>3 DEF SwitchRecord
<1>5. SwitchOK'
  <2>1. op = "open" => turn' = NoTurn
    BY <1>1 DEF TypeInv, TurnOK
  <2>2. switch' # NoSwitch
    BY <1>3 DEF NoSwitch
  <2> QED BY <1>3, <1>4, <2>1, <2>2 DEF SwitchOK
<1>6. WriterOK' /\ CursorsTyped(cursors')
  <2>1. switch.at # "flushing" /\ switch'.at # "flushing" /\ UNCHANGED writer /\ cursors' = cursors
    BY <1>1, <1>3 DEF NoSwitch, sync
  <2> QED BY <2>1, <1>2, HandlerFrame
<1> QED BY <1>2, <1>5, <1>6 DEF TypeInv

(* A handler ends.                                                         *)
LEMMA NoSwitchTyped ==
  ASSUME switch' = NoSwitch
  PROVE  SwitchOK'
<1>1. <<>> \in Seq(MessageUpto(ids')) /\ <<>> \in Seq(EntryUpto(ids'))
  OBVIOUS
<1>2. switch' \in SwitchRecord(ids')
  BY <1>1 DEF SwitchRecord, NoSwitch, NoRun
<1> QED BY <1>2 DEF SwitchOK, NoSwitch

LEMMA ResetTyped == TypeInv /\ ResetSession => TypeInv'
<1> SUFFICES ASSUME TypeInv, ResetSession PROVE TypeInv'
  OBVIOUS
<1>1. switch.at = "flushed" /\ switch' = NoSwitch /\ UNCHANGED <<running, store, sync, turn, counters>>
  BY DEF ResetSession
<1>2. ids' = ids /\ ids \in Nat
  BY <1>1 DEF counters, TypeInv, CoreOK
<1>3. CoreOK' /\ TurnOK'
  <2>1. CASE running
    <3>1. UNCHANGED <<core, turn, runs, ids, turns>> /\ UNCHANGED events /\ UNCHANGED broken
      BY <1>1, <2>1 DEF ResetSession, core, store, counters
    <3> QED BY <3>1, QuietFrame DEF TypeInv, CoreOK
  <2>2. CASE ~running
    <3>1. transcript' = <<>> /\ run' = NoRun /\ turn = NoTurn
      BY <2>2 DEF ResetSession, TypeInv, TurnOK
    <3>2. <<>> \in Seq(EntryUpto(ids))
      OBVIOUS
    <3>3. CoreOK'
      BY <3>1, <3>2, <1>1 DEF TypeInv, CoreOK, counters
    <3>4. TurnOK'
      <4>1. Left' = Left
        BY <1>1 DEF Left
      <4>2. UNCHANGED <<running, turn, ids, turns, Left>> /\ turn'.at = "none"
        BY <4>1, <3>1, <1>1 DEF counters, NoTurn
      <4> QED BY <4>2 DEF TypeInv, TurnOK
    <3> QED BY <3>3, <3>4
  <2> QED BY <2>1, <2>2 DEF TypeInv, CoreOK
<1>4. SwitchOK'
  BY <1>1, NoSwitchTyped
<1>5. WriterOK' /\ CursorsTyped(cursors')
  <2>1. switch.at # "flushing" /\ switch'.at # "flushing" /\ UNCHANGED writer /\ cursors' = cursors
    BY <1>1 DEF NoSwitch, sync
  <2> QED BY <2>1, <1>2, HandlerFrame
<1>6. StoreOK'
  BY <1>1, <1>2 DEF TypeInv, StoreOK, store
<1> QED BY <1>3, <1>4, <1>5, <1>6 DEF TypeInv

LEMMA OpenFailsTyped == TypeInv /\ OpenFails => TypeInv'
<1> SUFFICES ASSUME TypeInv, OpenFails PROVE TypeInv'
  OBVIOUS
<1>1. /\ switch.at = "flushed" /\ switch' = NoSwitch /\ Fault
      /\ UNCHANGED <<core, store, sync, turn, ids, turns, broken>>
  BY DEF OpenFails
<1>2. CoreOK' /\ TurnOK' /\ ids' = ids /\ StoreOK'
  <2>1. UNCHANGED <<core, turn, runs, ids, turns>> /\ UNCHANGED broken
    BY <1>1 DEF store
  <2>2. TurnOK' /\ ids' = ids /\ CoreOK'
    BY <2>1, <1>1, FaultType, QuietFrame DEF TypeInv, CoreOK
  <2> QED BY <2>2, <1>1 DEF TypeInv, StoreOK, store
<1>3. WriterOK' /\ CursorsTyped(cursors')
  <2>1. switch.at # "flushing" /\ switch'.at # "flushing" /\ UNCHANGED writer /\ cursors' = cursors
    BY <1>1 DEF NoSwitch, sync
  <2> QED BY <2>1, <1>2, HandlerFrame
<1> QED BY <1>1, <1>2, <1>3, NoSwitchTyped DEF TypeInv

(* A handler that opens a run goes on to its next step.                    *)
LEMMA OpensOn ==
  ASSUME TypeInv, switch.op = "open", switch.at # "flushing", switch' \in SwitchRecord(ids'),
         switch'.op = switch.op, switch'.target = switch.target,
         switch'.at \in {"popped", "loaded", "released", "built"}, turn' = turn, ids' = ids
  PROVE  SwitchOK'
<1>1. turn = NoTurn /\ switch.target \in Run
  BY DEF TypeInv, SwitchOK
<1>2. switch' # NoSwitch
  BY DEF NoSwitch
<1> QED BY <1>1, <1>2 DEF SwitchOK

LEMMA LoadRunTyped == TypeInv /\ LoadRun => TypeInv'
<1> SUFFICES ASSUME TypeInv, LoadRun PROVE TypeInv'
  OBVIOUS
<1> DEFINE r == switch.target
           ms == IF EndsOpen(messages[r]) THEN Front(messages[r]) ELSE messages[r]
<1>1. switch.op = "open" /\ switch.at = "flushed" /\ UNCHANGED <<core, sync, turn, counters>>
  BY DEF LoadRun
<1>2. runs' = runs
  BY DEF LoadRun, store
<1>3. CoreOK' /\ TurnOK' /\ ids' = ids /\ ids \in Nat
  <2>1. UNCHANGED <<core, turn, runs, ids, turns>> /\ UNCHANGED events /\ UNCHANGED broken
    BY <1>1, <1>2 DEF counters
  <2> QED BY <2>1, QuietFrame DEF TypeInv, CoreOK
<1>4. r \in Run /\ switch \in SwitchRecord(ids)
  BY <1>1 DEF TypeInv, SwitchOK
<1>5. ms \in Seq(MessageUpto(ids))
  <2>1. messages[r] \in Seq(MessageUpto(ids))
    BY <1>4 DEF TypeInv, StoreOK
  <2>2. EndsOpen(messages[r]) => messages[r] # <<>>
    BY DEF EndsOpen
  <2> QED BY <2>1, <2>2, <1>3, FrontType
<1>6. CASE EndsOpen(messages[r])
  <2>1. /\ messages' = [messages EXCEPT ![r] = ms] /\ rows' = [rows EXCEPT ![r] = <<>>]
        /\ switch' = [switch EXCEPT !.at = "popped", !.popped = TRUE, !.loaded = ms]
    BY <1>6 DEF LoadRun
  <2> HIDE DEF ms
  <2>2. messages' \in [Run -> Seq(MessageUpto(ids'))]
    BY <2>1, <1>3, <1>5 DEF TypeInv, StoreOK
  <2>3. DOMAIN rows' = Run /\ \A q \in Run : TableOK(rows'[q], ids)
    <3>1. TableOK(<<>>, ids)
      BY <1>3, EmptyTable
    <3>2. DOMAIN rows' = Run /\ \A q \in Run : rows'[q] = rows[q] \/ rows'[q] = <<>>
      BY <2>1 DEF TypeInv, StoreOK
    <3> QED BY <3>1, <3>2 DEF TypeInv, StoreOK
  <2>4. StoreOK'
    BY <2>2, <2>3, <1>2, <1>3 DEF TypeInv, StoreOK
  <2>5. /\ switch' \in SwitchRecord(ids') /\ switch'.op = switch.op /\ switch'.target = switch.target
        /\ switch'.at = "popped"
    BY <2>1, <1>3, <1>4, <1>5 DEF SwitchRecord
  <2>6. SwitchOK'
    BY <2>5, <1>1, <1>3, OpensOn
  <2>7. WriterOK' /\ CursorsTyped(cursors')
    BY <2>5, <1>1, <1>3, HandlerFrame DEF sync
  <2> QED BY <2>4, <2>6, <2>7, <1>3 DEF TypeInv
<1>7. CASE ~EndsOpen(messages[r])
  <2>1. UNCHANGED store /\ switch' = [switch EXCEPT !.at = "loaded", !.loaded = ms]
    BY <1>7 DEF LoadRun
  <2> HIDE DEF ms
  <2>2. StoreOK'
    BY <2>1, <1>3 DEF TypeInv, StoreOK, store
  <2>3. /\ switch' \in SwitchRecord(ids') /\ switch'.op = switch.op /\ switch'.target = switch.target
        /\ switch'.at = "loaded"
    BY <2>1, <1>3, <1>4, <1>5 DEF SwitchRecord
  <2>4. SwitchOK'
    BY <2>3, <1>1, <1>3, OpensOn
  <2>5. WriterOK' /\ CursorsTyped(cursors')
    BY <2>3, <1>1, <1>3, HandlerFrame DEF sync
  <2> QED BY <2>2, <2>4, <2>5, <1>3 DEF TypeInv
<1> QED BY <1>6, <1>7

LEMMA InvalidateTyped == TypeInv /\ Invalidate => TypeInv'
<1> SUFFICES ASSUME TypeInv, Invalidate PROVE TypeInv'
  OBVIOUS
<1>1. /\ switch.at = "popped" /\ writer = NoWriter /\ writer' = writer /\ UNCHANGED <<core, store, turn, counters>>
      /\ switch' = [switch EXCEPT !.at = "loaded"]
      /\ cursors' = [r \in DOMAIN cursors \ {switch.target} |-> cursors[r]]
  BY DEF Invalidate
<1>2. CoreOK' /\ TurnOK' /\ ids' = ids /\ ids \in Nat /\ StoreOK'
  <2>1. UNCHANGED <<core, turn, runs, ids, turns>> /\ UNCHANGED events /\ UNCHANGED broken
    BY <1>1 DEF counters, store
  <2>2. TurnOK' /\ ids' = ids /\ CoreOK' /\ ids \in Nat
    BY <2>1, QuietFrame DEF TypeInv, CoreOK
  <2> QED BY <2>2, <1>1 DEF TypeInv, StoreOK, store
<1>3. switch.op = "open" /\ switch \in SwitchRecord(ids)
  BY <1>1 DEF TypeInv, SwitchOK
<1>4. /\ switch' \in SwitchRecord(ids') /\ switch'.op = switch.op /\ switch'.target = switch.target
      /\ switch'.at = "loaded"
  BY <1>1, <1>2, <1>3 DEF SwitchRecord
<1>5. SwitchOK'
  BY <1>1, <1>2, <1>3, <1>4, OpensOn
<1>6. CursorsTyped(cursors')
  <2>1. DOMAIN cursors \subseteq Run /\ Cardinality(DOMAIN cursors) <= MaxTracked /\ DOMAIN cursors' \subseteq DOMAIN cursors
    BY <1>1 DEF TypeInv, CursorsTyped
  <2>2. IsFiniteSet(DOMAIN cursors)
    <3>1. IsFiniteSet(Run)
      BY FS_Interval, SyncAssumption DEF Run
    <3> QED BY <3>1, <2>1, FS_Subset
  <2>3. /\ Cardinality(DOMAIN cursors') <= Cardinality(DOMAIN cursors)
        /\ Cardinality(DOMAIN cursors') \in Nat /\ Cardinality(DOMAIN cursors) \in Nat
    BY <2>1, <2>2, FS_Subset, FS_CardinalityType
  <2>4. \A r \in DOMAIN cursors' : cursors'[r] \in Nat
    BY <1>1 DEF TypeInv, CursorsTyped
  <2>5. Cardinality(DOMAIN cursors') <= MaxTracked
    BY <2>1, <2>3, SyncAssumption
  <2> QED BY <2>1, <2>4, <2>5 DEF CursorsTyped
<1>7. WriterOK'
  BY <1>1, <1>4 DEF WriterOK, NoWriter
<1> QED BY <1>2, <1>5, <1>6, <1>7 DEF TypeInv

LEMMA ReleaseOldTyped == TypeInv /\ ReleaseOld => TypeInv'
<1> SUFFICES ASSUME TypeInv, ReleaseOld PROVE TypeInv'
  OBVIOUS
<1>1. /\ switch.at = "loaded" /\ switch' = [switch EXCEPT !.at = "released"]
      /\ UNCHANGED <<transcript, running, store, sync, turn, counters>> /\ run' \in {run, NoRun}
  BY DEF ReleaseOld
<1>2. switch.op = "open" /\ turn = NoTurn /\ switch \in SwitchRecord(ids)
  BY <1>1 DEF TypeInv, SwitchOK
<1>3. CoreOK' /\ StoreOK' /\ ids' = ids
  BY <1>1 DEF TypeInv, CoreOK, StoreOK, store, counters
<1>4. TurnOK'
  <2>1. Left' = Left
    BY <1>1 DEF Left
  <2>2. UNCHANGED <<running, turn, ids, turns, Left>> /\ turn'.at = "none"
    BY <2>1, <1>1, <1>2 DEF counters, NoTurn
  <2> QED BY <2>2 DEF TypeInv, TurnOK
<1>5. /\ switch' \in SwitchRecord(ids') /\ switch'.op = switch.op /\ switch'.target = switch.target
      /\ switch'.at = "released"
  BY <1>1, <1>2, <1>3 DEF SwitchRecord
<1>6. SwitchOK'
  BY <1>1, <1>2, <1>3, <1>5, OpensOn
<1>7. WriterOK' /\ CursorsTyped(cursors')
  BY <1>1, <1>3, <1>5, HandlerFrame DEF sync
<1> QED BY <1>3, <1>4, <1>6, <1>7 DEF TypeInv

LEMMA RebuildTyped == TypeInv /\ RebuildTranscript => TypeInv'
<1> SUFFICES ASSUME TypeInv, RebuildTranscript PROVE TypeInv'
  OBVIOUS
<1>1. switch.at = "released" /\ UNCHANGED <<core, store, sync, turn, ids, turns>>
  BY DEF RebuildTranscript
<1>2. PICK readable \in BOOLEAN :
        /\ broken' = (broken \/ ~readable)
        /\ switch' = [switch EXCEPT !.at = "built", !.built =
             WithDropMark(Rebuilt(rows[switch.target], switch.loaded, readable), switch.popped)]
  BY DEF RebuildTranscript
<1>3. CoreOK' /\ TurnOK' /\ ids' = ids /\ ids \in Nat /\ StoreOK'
  <2>1. UNCHANGED <<core, turn, runs, ids, turns>>
    BY <1>1 DEF store
  <2>2. broken' \in BOOLEAN /\ (Fault \/ UNCHANGED events)
    BY <1>2 DEF RebuildTranscript, TypeInv, CoreOK
  <2>3. TurnOK' /\ ids' = ids /\ CoreOK' /\ ids \in Nat
    BY <2>1, <2>2, FaultType, QuietFrame
  <2> QED BY <2>3, <1>1 DEF TypeInv, StoreOK, store
<1>4. switch.op = "open" /\ switch \in SwitchRecord(ids) /\ switch.target \in Run /\ switch.loaded \in Seq(MessageUpto(ids))
      /\ switch.popped \in BOOLEAN
  BY <1>1 DEF TypeInv, SwitchOK, SwitchRecord
<1> DEFINE built == WithDropMark(Rebuilt(rows[switch.target], switch.loaded, readable), switch.popped)
<1>5. built \in Seq(EntryUpto(ids))
  <2>1. TableOK(rows[switch.target], ids)
    BY <1>4 DEF TypeInv, StoreOK
  <2>2. Rebuilt(rows[switch.target], switch.loaded, readable) \in Seq(EntryUpto(ids))
    BY <2>1, <1>3, <1>4, RebuiltType
  <2> QED BY <2>2, <1>3, DropMarkType
<1>6. /\ switch' \in SwitchRecord(ids') /\ switch'.op = switch.op /\ switch'.target = switch.target
      /\ switch'.at = "built"
  <2>1. switch' = [switch EXCEPT !.at = "built", !.built = built]
    BY <1>2
  <2> HIDE DEF built
  <2> QED BY <2>1, <1>3, <1>4, <1>5 DEF SwitchRecord
<1>7. SwitchOK'
  BY <1>1, <1>3, <1>4, <1>6, OpensOn
<1>8. WriterOK' /\ CursorsTyped(cursors')
  BY <1>1, <1>3, <1>6, HandlerFrame DEF sync
<1> QED BY <1>3, <1>7, <1>8 DEF TypeInv

LEMMA InstallTyped == TypeInv /\ Install => TypeInv'
<1> SUFFICES ASSUME TypeInv, Install PROVE TypeInv'
  OBVIOUS
<1>1. /\ switch.at = "built" /\ switch' = NoSwitch /\ UNCHANGED <<store, sync, turn, counters>>
      /\ transcript' = switch.built /\ run' = switch.target /\ running' = FALSE
  BY DEF Install
<1>2. switch.op = "open" /\ turn = NoTurn /\ switch.target \in Run /\ switch.built \in Seq(EntryUpto(ids))
  BY <1>1 DEF TypeInv, SwitchOK, SwitchRecord
<1>3. CoreOK' /\ StoreOK' /\ ids' = ids
  BY <1>1, <1>2 DEF TypeInv, CoreOK, StoreOK, store, counters
<1>4. TurnOK'
  <2>1. Left' = Left
    BY <1>1 DEF Left
  <2>2. UNCHANGED <<turn, ids, turns, Left>> /\ turn'.at = "none" /\ turn' = NoTurn /\ running' = FALSE
    BY <2>1, <1>1, <1>2 DEF counters, NoTurn
  <2> QED BY <2>2 DEF TypeInv, TurnOK
<1>5. WriterOK' /\ CursorsTyped(cursors')
  <2>1. switch.at # "flushing" /\ switch'.at # "flushing" /\ UNCHANGED writer /\ cursors' = cursors
    BY <1>1 DEF NoSwitch, sync
  <2> QED BY <2>1, <1>3, HandlerFrame
<1> QED BY <1>1, <1>3, <1>4, <1>5, NoSwitchTyped DEF TypeInv

(* What the next life finds.                                               *)
LEMMA RestartTyped ==
  ASSUME TypeInv, NEW pop \in BOOLEAN, Restart(pop)
  PROVE  TypeInv'
<1>1. /\ runs' = runs /\ UNCHANGED <<ids, turns, broken>> /\ running' = FALSE /\ cursors' = <<>> /\ writer' = NoWriter
      /\ turn' = NoTurn /\ switch' = NoSwitch /\ (Fault \/ UNCHANGED events)
  BY DEF Restart
<1>2. ids \in Nat /\ runs \in 0 .. MaxRuns /\ MaxRuns \in Nat
  BY SyncAssumption DEF TypeInv, CoreOK, StoreOK
<1>3. events' \in 0 .. MaxEvents
  BY <1>1, FaultType
<1>4. transcript' \in Seq(EntryUpto(ids)) /\ run' \in Run \cup {NoRun} /\ StoreOK'
  <2>1. CASE runs = 0 \/ messages[runs] = <<>>
    <3>1. transcript' = <<>> /\ run' = NoRun /\ UNCHANGED <<rows, messages>>
      BY <2>1 DEF Restart
    <3>2. <<>> \in Seq(EntryUpto(ids))
      OBVIOUS
    <3> QED BY <3>1, <3>2, <1>1 DEF TypeInv, StoreOK
  <2>2. CASE ~(runs = 0 \/ messages[runs] = <<>>)
    <3> DEFINE stored == messages[runs]
               drop == EndsOpen(stored) /\ (pop \/ Last(stored).call # "quest")
               ms == IF drop THEN Front(stored) ELSE stored
               left == IF drop THEN <<>> ELSE rows[runs]
    <3>1. /\ messages' = [messages EXCEPT ![runs] = ms] /\ rows' = [rows EXCEPT ![runs] = left]
          /\ transcript' = WithDropMark(Rebuilt(left, ms, TRUE), drop) /\ run' = runs
      BY <2>2 DEF Restart
    <3>2. runs \in Run /\ stored \in Seq(MessageUpto(ids)) /\ stored # <<>>
      <4>1. runs \in Run
        BY <2>2, <1>2 DEF Run
      <4> QED BY <4>1, <2>2 DEF TypeInv, StoreOK
    <3>3. ms \in Seq(MessageUpto(ids))
      <4>1. Front(stored) \in Seq(MessageUpto(ids))
        BY <3>2, <1>2, FrontType
      <4> QED BY <4>1, <3>2
    <3>4. TableOK(left, ids)
      <4>1. TableOK(<<>>, ids) /\ TableOK(rows[runs], ids)
        BY <3>2, <1>2, EmptyTable DEF TypeInv, StoreOK
      <4> QED BY <4>1
    <3> HIDE DEF stored, ms, left, drop
    <3>5. Rebuilt(left, ms, TRUE) \in Seq(EntryUpto(ids))
      BY <3>3, <3>4, <1>2, RebuiltType
    <3>6. transcript' \in Seq(EntryUpto(ids))
      BY <3>1, <3>5, <1>2, DropMarkType
    <3>7. messages' \in [Run -> Seq(MessageUpto(ids))]
      BY <3>1, <3>3 DEF TypeInv, StoreOK
    <3>8. DOMAIN rows' = Run /\ \A q \in Run : TableOK(rows'[q], ids)
      <4>1. DOMAIN rows' = Run /\ \A q \in Run : rows'[q] = rows[q] \/ rows'[q] = left
        BY <3>1 DEF TypeInv, StoreOK
      <4> QED BY <4>1, <3>4 DEF TypeInv, StoreOK
    <3>9. StoreOK'
      BY <3>7, <3>8, <1>1, <1>2 DEF StoreOK
    <3> QED BY <3>1, <3>2, <3>6, <3>9
  <2> QED BY <2>1, <2>2
<1>5. CoreOK'
  BY <1>1, <1>2, <1>3, <1>4 DEF TypeInv, CoreOK
<1>6. CursorsTyped(cursors')
  <2>1. DOMAIN cursors' = {}
    BY <1>1
  <2>2. MaxTracked \in Nat
    BY SyncAssumption
  <2> QED BY <2>1, <2>2, FS_EmptySet DEF CursorsTyped
<1>7. WriterOK'
  BY <1>1 DEF WriterOK, NoWriter, NoSwitch
<1>8. TurnOK'
  <2>1. turn' \in TurnRecord
    BY <1>1 DEF TurnRecord, NoTurn, NoRun
  <2>2. Left' = 0
    BY <1>1 DEF Left, NoTurn
  <2>3. turn'.first <= ids' /\ turn'.id <= ids' /\ turn'.at = "none"
    BY <1>1, <1>2 DEF NoTurn
  <2>4. ids' + Left' <= Len(Archive) + 3 * turns'
    <3>1. ids + Left <= Len(Archive) + 3 * turns /\ Left \in Nat /\ turns \in Nat /\ Len(Archive) \in Nat
      BY ArchiveAssumption DEF TypeInv, TurnOK, TurnRecord, Left, CoreOK
    <3>2. ASSUME NEW i \in Nat, NEW l \in Nat, NEW a \in Nat, NEW t \in Nat, i + l <= a + 3 * t
          PROVE  i + 0 <= a + 3 * t
      BY <3>2
    <3>3. ids + 0 <= Len(Archive) + 3 * turns
      BY <3>1, <3>2, <1>2
    <3> QED BY <3>3, <2>2, <1>1
  <2> QED BY <1>1, <2>1, <2>3, <2>4 DEF TurnOK
<1> QED BY <1>1, <1>4, <1>5, <1>6, <1>7, <1>8, NoSwitchTyped DEF TypeInv

LEMMA TurnStepTyped == TypeInv /\ TurnStep => TypeInv'
<1> SUFFICES ASSUME TypeInv, TurnStep PROVE TypeInv'
  OBVIOUS
<1>1. CASE \E c \in Calls : ModelCalls(c.tool, c.text)
  BY <1>1, ModelCallsTyped
<1>2. CASE OpenRun \/ WriteUser \/ ToolStart \/ ToolEnd
  BY <1>2, OpenRunTyped, WriteUserTyped, ToolStartTyped, ToolEndTyped
<1>3. CASE ModelAnswers \/ TurnCancelled \/ FoldToolOutcomes \/ TurnFails \/ FinalizeTurn
  BY <1>3, ModelAnswersTyped, TurnCancelledTyped, FoldTyped, TurnFailsTyped, FinalizeTyped
<1> QED BY <1>1, <1>2, <1>3 DEF TurnStep

LEMMA BeginsTyped ==
  ASSUME TypeInv, NewSession \/ Shutdown \/ \E r \in Run : OpenSession(r)
  PROVE  TypeInv'
<1>1. CASE NewSession
  <2>1. Begin("new", NoRun, FALSE)
    BY <1>1 DEF NewSession
  <2> QED BY <2>1, BeginTyped
<1>2. CASE Shutdown
  <2>1. PICK late \in BOOLEAN : Begin("stop", NoRun, late)
    BY <1>2 DEF Shutdown
  <2> QED BY <2>1, BeginTyped
<1>3. CASE \E r \in Run : OpenSession(r)
  <2>1. PICK r \in Run : ~running /\ Begin("open", r, FALSE)
    BY <1>3 DEF OpenSession
  <2> QED BY <2>1, BeginTyped
<1> QED BY <1>1, <1>2, <1>3

LEMMA NextTyped == TypeInv /\ [Next]_vars => TypeInv'
<1> SUFFICES ASSUME TypeInv, [Next]_vars PROVE TypeInv'
  OBVIOUS
<1>1. CASE Submit \/ TurnStep
  BY <1>1, SubmitTyped, TurnStepTyped
<1>2. CASE LoopPass \/ FlushPass
  BY <1>2, LoopPassTyped, FlushPassTyped
<1>3. CASE PassStep
  BY <1>3, BootstrapTyped, InsertEntryTyped, EndPassTyped, InsertMarkTyped DEF PassStep
<1>4. CASE NewSession \/ Shutdown \/ \E r \in Run : OpenSession(r)
  BY <1>4, BeginsTyped
<1>5. CASE SwitchStep
  BY <1>5, ResetTyped, OpenFailsTyped, LoadRunTyped, InvalidateTyped, ReleaseOldTyped, RebuildTyped, InstallTyped
     DEF SwitchStep
<1>6. CASE \E pop \in BOOLEAN : Restart(pop)
  BY <1>6, RestartTyped
<1>7. CASE UNCHANGED vars
  <2>1. /\ UNCHANGED <<transcript, run, running, rows, messages, runs, cursors, writer>>
        /\ UNCHANGED <<turn, switch, ids, turns, events, broken>>
    BY <1>7 DEF vars, core, store, sync, counters
  <2>2. Left' = Left
    BY <2>1 DEF Left
  <2>3. CoreOK' /\ StoreOK' /\ CursorsTyped(cursors') /\ WriterOK' /\ SwitchOK'
    BY <2>1 DEF TypeInv, CoreOK, StoreOK, WriterOK, SwitchOK
  <2>4. TurnOK'
    BY <2>1, <2>2 DEF TypeInv, TurnOK
  <2> QED BY <2>3, <2>4 DEF TypeInv
<1> QED BY <1>1, <1>2, <1>3, <1>4, <1>5, <1>6, <1>7 DEF Next

LEMMA AlwaysTyped == Spec => []TypeInv
<1>1. Init => TypeInv
  BY InitTyped
<1>2. TypeInv /\ [Next]_vars => TypeInv'
  BY NextTyped
<1> QED BY <1>1, <1>2, PTL DEF Spec

(* The state keeps its types: whatever fails, and wherever a restart or an *)
(* opening cuts in, the transcript is a sequence of entries, each table    *)
(* has entries at numbers, and no more cursors are kept than               *)
(* MAX_TRACKED_RUNS (SyncState::remember).                                 *)
THEOREM TypeCorrect == Spec => []TypeOK
<1>1. TypeInv => TypeOK
  <2> SUFFICES ASSUME TypeInv PROVE TypeOK
    OBVIOUS
  <2>1. \A n : EntryUpto(n) \subseteq Entry /\ MessageUpto(n) \subseteq Message
    BY DEF EntryUpto, MessageUpto
  <2>2. Seq(EntryUpto(ids)) \subseteq Seq(Entry) /\ Seq(MessageUpto(ids)) \subseteq Seq(Message)
    <3>1. ASSUME NEW S, NEW T, S \subseteq T PROVE Seq(S) \subseteq Seq(T)
      BY <3>1
    <3> QED BY <2>1, <3>1
  <2>3. transcript \in Seq(Entry) /\ run \in Run \cup {NoRun} /\ running \in BOOLEAN
    BY <2>2 DEF TypeInv, CoreOK
  <2>4. ASSUME NEW r \in Run
        PROVE  DOMAIN rows[r] \subseteq Nat /\ Range(rows[r]) \subseteq Entry /\ messages[r] \in Seq(Message)
    BY <2>1, <2>2 DEF TypeInv, StoreOK, TableOK, Range
  <2>5. /\ DOMAIN cursors \subseteq Run /\ Cardinality(DOMAIN cursors) <= MaxTracked
        /\ Range(cursors) \subseteq Nat
    BY DEF TypeInv, CursorsTyped, Range
  <2> QED BY <2>3, <2>4, <2>5 DEF TypeOK
<1> QED BY <1>1, AlwaysTyped, PTL

-----------------------------------------------------------------------------
(* The calls that a pass of the loop will still store are older than the   *)
(* turn: a pass over a busy session stops short of them, and what a pass   *)
(* over a quiet one has read is older than every turn to come.             *)
WindowIsOld ==
  writer.by = "loop" /\ turn # NoTurn =>
    \A i \in DOMAIN writer.entries :
      writer.seq < i /\ i <= writer.until /\ writer.entries[i].kind = "call"
        => writer.entries[i].id < turn.first
QuietIsOld ==
  writer.by = "loop" /\ ~writer.busy /\ turn # NoTurn =>
    \A i \in DOMAIN writer.entries : writer.entries[i].id < turn.first
OldInv == WindowIsOld /\ QuietIsOld

(* The steps of a turn leave the pass alone, and the turn its first id.    *)
LEMMA TurnKeepsFirst ==
  ASSUME TypeInv, TurnStep
  PROVE  /\ writer' = writer
         /\ turn' = NoTurn \/ (turn # NoTurn /\ turn'.first = turn.first)
         /\ rows' = rows
<1>1. turn \in TurnRecord /\ (turn.at # "none" => turn # NoTurn)
  BY DEF TypeInv, TurnOK, NoTurn
<1>2. CASE \E c \in Calls : ModelCalls(c.tool, c.text)
  <2>1. PICK c \in Calls : ModelCalls(c.tool, c.text)
    BY <1>2
  <2>2. turn.at = "model" /\ turn' = [turn EXCEPT !.at = "called", !.id = ids + 1, !.call = c.tool, !.text = c.text]
        /\ UNCHANGED <<rows, sync>>
    BY <2>1 DEF ModelCalls
  <2> QED BY <2>2, <1>1 DEF TurnRecord, sync
<1>3. CASE OpenRun
  <2>1. turn.at = "open" /\ turn' = [turn EXCEPT !.at = "user", !.run = runs'] /\ UNCHANGED <<rows, sync>>
    BY <1>3 DEF OpenRun
  <2> QED BY <2>1, <1>1 DEF TurnRecord, sync
<1>4. CASE WriteUser \/ ToolStart \/ ToolEnd
  <2>1. turn.at # "none" /\ UNCHANGED <<rows, sync>> /\ \E at \in {"model", "tool"} : turn' = [turn EXCEPT !.at = at]
    BY <1>4 DEF WriteUser, ToolStart, ToolEnd, store
  <2> QED BY <2>1, <1>1 DEF TurnRecord, sync
<1>5. CASE ModelAnswers
  <2>1. turn.at = "model" /\ turn' = [turn EXCEPT !.at = "fold", !.id = ids + 1, !.text = TRUE] /\ UNCHANGED <<rows, sync>>
    BY <1>5 DEF ModelAnswers
  <2> QED BY <2>1, <1>1 DEF TurnRecord, sync
<1>6. CASE TurnCancelled
  <2>1. /\ turn.at # "none" /\ UNCHANGED <<store, sync>>
        /\ \/ \E partial \in BOOLEAN : turn' = [turn EXCEPT !.at = "fold", !.id = ids + 1, !.text = partial]
           \/ turn' = [turn EXCEPT !.at = "fold", !.text = FALSE]
    BY <1>6 DEF TurnCancelled
  <2> QED BY <2>1, <1>1 DEF TurnRecord, sync, store
<1>7. CASE FoldToolOutcomes \/ TurnFails
  <2>1. turn.at # "none" /\ UNCHANGED <<store, sync>> /\ turn' = [turn EXCEPT !.at = "end"]
    BY <1>7 DEF FoldToolOutcomes, TurnFails
  <2> QED BY <2>1, <1>1 DEF TurnRecord, sync, store
<1>8. CASE FinalizeTurn
  BY <1>8 DEF FinalizeTurn, sync, store
<1> QED BY <1>2, <1>3, <1>4, <1>5, <1>6, <1>7, <1>8 DEF TurnStep

(* The calls after its cursor that a pass will store: none while busy.     *)
LEMMA WindowStarts ==
  ASSUME NEW n \in Nat, NEW entries \in Seq(EntryUpto(n)), NEW busy \in BOOLEAN, NEW cursor \in Nat, NEW first,
         ~busy => \A i \in DOMAIN entries : entries[i].id < first
  PROVE  \A i \in DOMAIN entries :
           cursor < i /\ i <= Until(entries, busy, FALSE, cursor) /\ entries[i].kind = "call" => entries[i].id < first
<1>1. CASE busy
  <2>1. FALSE \in BOOLEAN
    OBVIOUS
  <2>2. \A i \in DOMAIN entries : cursor < i /\ i <= Until(entries, busy, FALSE, cursor) => entries[i].kind # "call"
    BY <1>1, <2>1, UntilType
  <2> QED BY <2>2
<1>2. CASE ~busy
  BY <1>2
<1> QED BY <1>1, <1>2

LEMMA NextOld == TypeInv /\ OldInv /\ [Next]_vars => OldInv'
<1> SUFFICES ASSUME TypeInv, OldInv, [Next]_vars PROVE OldInv'
  OBVIOUS
<1>1. ASSUME writer' = writer, turn' = NoTurn \/ (turn # NoTurn /\ turn'.first = turn.first) PROVE OldInv'
  BY <1>1 DEF OldInv, WindowIsOld, QuietIsOld
<1>2. ASSUME writer'.by # "loop" PROVE OldInv'
  BY <1>2 DEF OldInv, WindowIsOld, QuietIsOld
<1>3. CASE Submit
  <2>1. writer' = writer /\ turn'.first = ids + 1
    BY <1>3 DEF Submit, sync, NoTurn
  <2>2. ASSUME writer.by = "loop", NEW i \in DOMAIN writer.entries PROVE writer.entries[i].id < ids + 1
    <3>1. writer.entries[i] \in EntryUpto(ids) /\ ids \in Nat
      BY <2>2, PassOn
    <3>2. writer.entries[i].id \in Nat /\ writer.entries[i].id <= ids
      BY <3>1 DEF EntryUpto, Entry, Id
    <3> QED BY <3>1, <3>2
  <2> QED BY <2>1, <2>2 DEF OldInv, WindowIsOld, QuietIsOld
<1>4. CASE TurnStep
  BY <1>1, <1>4, TurnKeepsFirst
<1>5. CASE LoopPass
  <2>1. writer' = Pass("loop") /\ turn' = turn /\ run # NoRun
    BY <1>5 DEF LoopPass
  <2>2. transcript \in Seq(EntryUpto(ids)) /\ running \in BOOLEAN /\ ids \in Nat /\ (running <=> turn # NoTurn)
    BY DEF TypeInv, CoreOK, TurnOK
  <2>3. QuietIsOld'
    BY <2>1, <2>2 DEF QuietIsOld, Pass
  <2>4. CASE run \in DOMAIN cursors /\ running
    <3>1. cursors[run] \in Nat
      BY <2>4 DEF TypeInv, CursorsTyped
    <3>2. \A i \in DOMAIN transcript :
            cursors[run] < i /\ i <= Until(transcript, running, FALSE, cursors[run]) /\ transcript[i].kind = "call"
              => transcript[i].id < turn.first
      BY <2>2, <2>4, <3>1, WindowStarts
    <3>3. /\ writer'.entries = transcript /\ writer'.seq = cursors[run]
          /\ writer'.until = Until(transcript, running, FALSE, cursors[run])
      BY <2>1, <2>4 DEF Pass
    <3>4. WindowIsOld'
      BY <2>1, <3>2, <3>3 DEF WindowIsOld
    <3> QED BY <2>3, <3>4 DEF OldInv
  <2>5. CASE run \notin DOMAIN cursors
    <3>1. writer'.seq = 0 /\ writer'.until = 0 /\ writer'.entries = transcript
      BY <2>1, <2>5 DEF Pass
    <3>2. \A i \in DOMAIN transcript : ~(0 < i /\ i <= 0)
      BY <2>2
    <3>3. WindowIsOld'
      BY <3>1, <3>2 DEF WindowIsOld
    <3> QED BY <2>3, <3>3 DEF OldInv
  <2>6. CASE ~running
    BY <2>1, <2>2, <2>3, <2>6 DEF OldInv, WindowIsOld
  <2> QED BY <2>4, <2>5, <2>6
<1>6. CASE FlushPass
  <2>1. writer = NoWriter /\ (writer' = writer \/ writer' = Pass("flush"))
    BY <1>6 DEF FlushPass
  <2>2. writer'.by # "loop"
    BY <2>1 DEF NoWriter, Pass
  <2> QED BY <1>2, <2>2
<1>7. CASE Bootstrap
  <2>1. writer.by # "none" /\ turn' = turn
    BY <1>7 DEF Bootstrap
  <2>2. PICK n : /\ n = 0 \/ n = Cardinality(DOMAIN rows[writer.run])
                 /\ writer' = [writer EXCEPT !.stage = "write", !.from = n, !.seq = n,
                      !.until = Until(writer.entries, writer.busy, writer.by = "flush", n)]
    BY <1>7 DEF Bootstrap
  <2>3. n \in Nat /\ writer \in PassRecord(ids) /\ ids \in Nat
    <3>1. IsFiniteSet(DOMAIN rows[writer.run])
      BY <2>1, PassOn DEF TypeInv, StoreOK, TableOK
    <3> QED BY <2>1, <2>2, <3>1, PassOn, FS_CardinalityType
  <2> DEFINE u == Until(writer.entries, writer.busy, writer.by = "flush", n)
  <2>4. /\ writer'.entries = writer.entries /\ writer'.by = writer.by /\ writer'.busy = writer.busy
        /\ writer'.seq = n /\ writer'.until = u
    <3>1. writer' = [writer EXCEPT !.stage = "write", !.from = n, !.seq = n, !.until = u]
      BY <2>2
    <3> HIDE DEF u
    <3> QED BY <3>1, <2>3 DEF PassRecord
  <2>5. QuietIsOld'
    BY <2>1, <2>4 DEF OldInv, QuietIsOld
  <2>6. CASE writer.by = "loop" /\ turn # NoTurn
    <3>1. writer.entries \in Seq(EntryUpto(ids)) /\ writer.busy \in BOOLEAN
      BY <2>1, PassOn
    <3>2. ~writer.busy => \A i \in DOMAIN writer.entries : writer.entries[i].id < turn.first
      BY <2>6 DEF OldInv, QuietIsOld
    <3>3. \A i \in DOMAIN writer.entries :
            n < i /\ i <= Until(writer.entries, writer.busy, FALSE, n) /\ writer.entries[i].kind = "call"
              => writer.entries[i].id < turn.first
      BY <2>3, <3>1, <3>2, WindowStarts
    <3>4. u = Until(writer.entries, writer.busy, FALSE, n)
      <4>1. (writer.by = "flush") = FALSE
        BY <2>6
      <4> QED BY <4>1
    <3> HIDE DEF u
    <3>5. WindowIsOld'
      BY <2>1, <2>4, <3>3, <3>4 DEF WindowIsOld
    <3> QED BY <2>5, <3>5 DEF OldInv
  <2>7. CASE ~(writer.by = "loop" /\ turn # NoTurn)
    BY <2>1, <2>4, <2>5, <2>7 DEF OldInv, WindowIsOld
  <2> QED BY <2>6, <2>7
<1>8. CASE InsertEntry
  <2> DEFINE e == writer.entries[writer.seq + 1]
             x == writer.unfolded \/ (e.kind = "call" /\ ~e.out)
             k == writer.seq + 1
  <2>1. /\ writer.by # "none" /\ turn' = turn /\ writer.seq < writer.until
        /\ \/ writer' = [writer EXCEPT !.seq = k, !.unfolded = x]
           \/ writer' = [writer EXCEPT !.until = writer.seq]
    BY <1>8 DEF InsertEntry
  <2>2. writer \in PassRecord(ids) /\ writer.seq \in Nat /\ writer.until \in Nat /\ DOMAIN writer.entries \subseteq Nat
    BY <2>1, PassOn
  <2> HIDE DEF e, x
  <2>3. /\ writer'.entries = writer.entries /\ writer'.by = writer.by /\ writer'.busy = writer.busy
        /\ (writer'.seq = writer.seq + 1 /\ writer'.until = writer.until) \/ (writer'.seq = writer.seq /\ writer'.until = writer.seq)
    BY <2>1, <2>2 DEF PassRecord
  <2>4. \A i \in DOMAIN writer.entries : writer'.seq < i /\ i <= writer'.until => writer.seq < i /\ i <= writer.until
    BY <2>2, <2>3
  <2>5. WindowIsOld' /\ QuietIsOld'
    BY <2>1, <2>3, <2>4 DEF OldInv, WindowIsOld, QuietIsOld
  <2> QED BY <2>5 DEF OldInv
<1>9. CASE EndPass
  <2>1. writer.by # "none" /\ (writer' = NoWriter \/ (writer.by = "flush" /\ writer' = [writer EXCEPT !.stage = "mark"]))
    BY <1>9 DEF EndPass, Release
  <2>2. writer \in PassRecord(ids)
    BY <2>1, PassOn
  <2>3. writer'.by # "loop"
    BY <2>1, <2>2 DEF NoWriter, PassRecord
  <2> QED BY <1>2, <2>3
<1>10. CASE InsertMark
  <2>1. writer'.by # "loop"
    BY <1>10 DEF InsertMark, Release, NoWriter
  <2> QED BY <1>2, <2>1
<1>11. CASE NewSession \/ Shutdown \/ \E r \in Run : OpenSession(r)
  <2>1. writer' = writer /\ turn' = turn
    BY <1>11 DEF NewSession, Shutdown, OpenSession, Begin, sync
  <2> QED BY <1>1, <2>1
<1>12. CASE SwitchStep
  <2>1. writer' = writer /\ turn' = turn
    BY <1>12 DEF SwitchStep, ResetSession, OpenFails, LoadRun, Invalidate, ReleaseOld, RebuildTranscript, Install, sync
  <2> QED BY <1>1, <2>1
<1>13. CASE \E pop \in BOOLEAN : Restart(pop)
  <2>1. writer' = NoWriter
    BY <1>13 DEF Restart
  <2> QED BY <1>2, <2>1 DEF NoWriter
<1>14. CASE UNCHANGED vars
  <2>1. writer' = writer /\ turn' = turn
    BY <1>14 DEF vars, sync
  <2> QED BY <1>1, <2>1
<1> QED BY <1>3, <1>4, <1>5, <1>6, <1>7, <1>8, <1>9, <1>10, <1>11, <1>12, <1>13, <1>14 DEF Next, PassStep

(* What a step can add to the rows: an entry of the pass under way, in its *)
(* window, or the Mark.                                                    *)
LEMMA RowsAdded ==
  ASSUME TypeInv, [Next]_vars, NEW r \in Run, NEW i \in DOMAIN rows'[r] \ DOMAIN rows[r]
  PROVE  /\ writer.by # "none" /\ r = writer.run /\ i = writer.seq
         /\ \/ writer.seq < writer.until /\ rows'[r][i] = writer.entries[writer.seq + 1]
            \/ rows'[r][i] = Mark
<1>1. ASSUME rows'[r] = rows[r] \/ rows'[r] = <<>> PROVE FALSE
  <2>1. DOMAIN rows'[r] \subseteq DOMAIN rows[r]
    BY <1>1
  <2> QED BY <2>1
<1>2. ASSUME NEW e \in EntryUpto(ids), writer.by # "none",
             rows' = [rows EXCEPT ![writer.run] = InsertOrIgnore(rows[writer.run], writer.seq, e)]
      PROVE  r = writer.run /\ i = writer.seq /\ rows'[r][i] = e
  <2> DEFINE had == rows[writer.run]
  <2>0. DOMAIN rows = Run /\ writer.run \in Run /\ ids \in Nat /\ TableOK(had, ids) /\ writer.seq \in Nat
    BY <1>2, PassOn DEF TypeInv, StoreOK
  <2>1. r = writer.run /\ rows'[r] = InsertOrIgnore(had, writer.seq, e)
    BY <1>1, <1>2, <2>0
  <2> DEFINE grown == InsertOrIgnore(had, writer.seq, e)
  <2>2. Filled(had, grown, writer.seq, e)
    BY <2>0, <1>2, InsertType
  <2>3. i \in DOMAIN grown \ DOMAIN had
    BY <2>1
  <2> HIDE DEF grown, had
  <2>4. i = writer.seq /\ grown[i] = e
    BY <2>2, <2>3 DEF Filled
  <2> QED BY <2>1, <2>4 DEF grown
<1>3. CASE InsertEntry
  <2> DEFINE e == writer.entries[writer.seq + 1]
  <2>1. writer.by # "none" /\ writer.seq < writer.until
    BY <1>3 DEF InsertEntry
  <2>2. e \in EntryUpto(ids)
    <3>1. writer.seq + 1 \in DOMAIN writer.entries /\ writer.entries \in Seq(EntryUpto(ids))
      BY <2>1, PassOn
    <3> QED BY <3>1
  <2>3. \/ rows' = [rows EXCEPT ![writer.run] = InsertOrIgnore(rows[writer.run], writer.seq, e)]
        \/ rows' = rows
    BY <1>3 DEF InsertEntry
  <2> HIDE DEF e
  <2>4. r = writer.run /\ i = writer.seq /\ rows'[r][i] = e
    BY <2>1, <2>2, <2>3, <1>1, <1>2
  <2> QED BY <2>1, <2>4 DEF e
<1>4. CASE InsertMark
  <2>1. writer.by # "none"
    BY <1>4 DEF InsertMark
  <2>2. \/ rows' = [rows EXCEPT ![writer.run] = InsertOrIgnore(rows[writer.run], writer.seq, Mark)]
        \/ rows' = rows
    BY <1>4 DEF InsertMark
  <2>3. Mark \in EntryUpto(ids)
    BY MarksType DEF TypeInv, CoreOK
  <2>4. r = writer.run /\ i = writer.seq /\ rows'[r][i] = Mark
    BY <2>1, <2>2, <2>3, <1>1, <1>2
  <2> QED BY <2>1, <2>4
<1>5. DOMAIN rows = Run
  BY DEF TypeInv, StoreOK
<1>6. CASE Submit \/ TurnStep
  <2>1. rows' = rows
    BY <1>6, TurnKeepsFirst DEF Submit, store
  <2> QED BY <1>1, <2>1
<1>7. CASE LoopPass \/ FlushPass \/ Bootstrap \/ EndPass \/ NewSession \/ Shutdown \/ (\E q \in Run : OpenSession(q)) \/ UNCHANGED vars
  <2>1. rows' = rows
    BY <1>7 DEF LoopPass, FlushPass, Bootstrap, EndPass, NewSession, Shutdown, OpenSession, Begin, store, vars
  <2> QED BY <1>1, <2>1
<1>8. CASE SwitchStep
  <2>1. rows' = rows \/ rows' = [rows EXCEPT ![switch.target] = <<>>]
    BY <1>8 DEF SwitchStep, ResetSession, OpenFails, LoadRun, Invalidate, ReleaseOld, RebuildTranscript, Install, store
  <2>2. rows'[r] = rows[r] \/ rows'[r] = <<>>
    BY <2>1, <1>5
  <2> QED BY <1>1, <2>2
<1>9. CASE \E pop \in BOOLEAN : Restart(pop)
  <2>1. rows' = rows \/ rows' = [rows EXCEPT ![runs] = <<>>] \/ rows' = [rows EXCEPT ![runs] = rows[runs]]
    BY <1>9 DEF Restart
  <2>2. rows'[r] = rows[r] \/ rows'[r] = <<>>
    BY <2>1, <1>5
  <2> QED BY <1>1, <2>2
<1> QED BY <1>3, <1>4, <1>6, <1>7, <1>8, <1>9 DEF Next, PassStep

(* Only a flush stores the call of a turn that is still under way: the     *)
(* loop's pass (sync_loop, transcripts.rs) stops at the first call of a    *)
(* busy session, and a pass that began before the turn knows none of it.   *)
THEOREM NoEarlySnapshots == Spec => OnlyFlushSnapshots
<1>1. Init => OldInv
  BY DEF Init, OldInv, WindowIsOld, QuietIsOld, NoWriter
<1>2. TypeInv /\ OldInv /\ [Next]_vars => OldInv'
  BY NextOld
<1>3. ASSUME TypeInv, OldInv, [Next]_vars, NEW r \in Run, NEW i \in DOMAIN rows'[r] \ DOMAIN rows[r],
             writer.by = "loop", rows'[r][i].kind = "call", turn # NoTurn
      PROVE  rows'[r][i].id < turn.first
  <2>1. writer.seq < writer.until /\ rows'[r][i] = writer.entries[writer.seq + 1]
    <3>1. writer.by # "none" => /\ \/ writer.seq < writer.until /\ rows'[r][i] = writer.entries[writer.seq + 1]
                                   \/ rows'[r][i] = Mark
      BY <1>3, RowsAdded
    <3>2. Mark.kind # "call"
      BY DEF Mark, Shown
    <3> QED BY <3>1, <3>2, <1>3
  <2>2. writer.seq + 1 \in DOMAIN writer.entries /\ writer.seq < writer.seq + 1 /\ writer.seq + 1 <= writer.until
    BY <1>3, <2>1, PassOn
  <2> QED BY <2>1, <2>2, <1>3 DEF OldInv, WindowIsOld
<1>4. TypeInv /\ OldInv /\ [Next]_vars =>
        [\A r \in Run : \A i \in DOMAIN rows'[r] \ DOMAIN rows[r] :
           writer.by = "loop" /\ rows'[r][i].kind = "call" /\ turn # NoTurn
             => rows'[r][i].id < turn.first]_vars
  BY <1>3
<1> QED BY <1>1, <1>2, <1>4, AlwaysTyped, PTL DEF Spec, OnlyFlushSnapshots

-----------------------------------------------------------------------------
(* Rows have no gaps, and neither a cursor nor a pass is beyond them; no    *)
(* pass writes to the run that a handler opens, once the flush is over.    *)
Opening == switch.op = "open" /\ switch.at \notin {"flush", "flushing"}
UsedOK ==
  /\ run <= runs /\ (writer.by # "none" => writer.run <= runs) /\ (switch.op = "open" => switch.target <= runs)
  /\ \A r \in Run : r > runs => DOMAIN rows[r] = {}
AwayOK ==
  /\ switch.op = "open" => switch.target # run
  /\ Opening /\ writer.by # "none" => writer.run # switch.target
Reaches(n, table) == \E k \in Nat : n <= k /\ DOMAIN table = 0 .. k - 1
CursorsReach ==
  \A r \in DOMAIN cursors : Reaches(cursors[r], rows[r]) \/ (switch.at = "popped" /\ r = switch.target)
PassReaches ==
  writer.by # "none" => Reaches(writer.seq, rows[writer.run]) /\ (writer.stage = "boot" => writer.seq = 0)
PlaceInv == UsedOK /\ AwayOK /\ (\A r \in Run : Reaches(0, rows[r])) /\ CursorsReach /\ PassReaches

LEMMA TurnKeeps ==
  ASSUME Submit \/ TurnStep
  PROVE  /\ UNCHANGED <<rows, cursors, writer, switch, broken>>
         /\ \/ run' = run /\ runs' = runs
            \/ turn.at = "open" /\ run' = runs' /\ runs' = runs + 1
<1>1. CASE Submit \/ WriteUser \/ ToolStart \/ ToolEnd
  BY <1>1 DEF Submit, WriteUser, ToolStart, ToolEnd, core, store, sync, counters
<1>2. CASE OpenRun
  BY <1>2 DEF OpenRun, sync, counters
<1>3. CASE ModelAnswers \/ TurnCancelled \/ FoldToolOutcomes \/ TurnFails \/ FinalizeTurn
  BY <1>3 DEF ModelAnswers, TurnCancelled, FoldToolOutcomes, TurnFails, FinalizeTurn, core, store, sync, counters
<1>4. CASE \E c \in Calls : ModelCalls(c.tool, c.text)
  BY <1>4 DEF ModelCalls, core, sync
<1> QED BY <1>1, <1>2, <1>3, <1>4 DEF TurnStep

(* Rows are never lost where no run is emptied.                            *)
LEMMA ReachesMore ==
  ASSUME NEW table, NEW n \in Nat, Reaches(n, table), NEW e, NEW more, Filled(table, more, n, e)
  PROVE  Reaches(n + 1, more) /\ \A m \in Nat : Reaches(m, table) => Reaches(m, more)
<1>1. PICK k \in Nat : n <= k /\ DOMAIN table = 0 .. k - 1
  BY DEF Reaches
<1>2. DOMAIN more = DOMAIN table \cup {n}
  BY DEF Filled
<1>3. PICK j \in Nat : k <= j /\ n + 1 <= j /\ DOMAIN more = 0 .. j - 1
  <2>1. CASE n < k
    BY <1>1, <1>2, <2>1
  <2>2. CASE n = k
    <3>1. DOMAIN more = 0 .. (k + 1) - 1
      BY <1>1, <1>2, <2>2
    <3> QED BY <3>1, <2>2
  <2> QED BY <1>1, <2>1, <2>2
<1>4. ASSUME NEW m \in Nat, Reaches(m, table) PROVE Reaches(m, more)
  <2>1. PICK i \in Nat : m <= i /\ DOMAIN table = 0 .. i - 1
    BY <1>4 DEF Reaches
  <2>2. Cardinality(0 .. k - 1) = k /\ Cardinality(0 .. i - 1) = i
    BY FS_Interval
  <2>3. m <= j
    BY <1>1, <1>3, <2>1, <2>2
  <2> QED BY <2>3, <1>3 DEF Reaches
<1>5. Reaches(n + 1, more)
  BY <1>3 DEF Reaches
<1> QED BY <1>4, <1>5

LEMMA InitPlaced == Init => PlaceInv
<1> SUFFICES ASSUME Init PROVE PlaceInv
  OBVIOUS
<1>0. TypeInv
  BY InitTyped
<1>1. ASSUME NEW r \in Run
      PROVE  \E k \in Nat : 0 <= k /\ DOMAIN rows[r] = 0 .. k - 1 /\ k = Len(Project(messages[r]))
  <2> DEFINE p == Project(messages[r])
  <2>1. p \in Seq(EntryUpto(ids)) /\ ids \in Nat
    BY <1>0, ProjectType DEF TypeInv, StoreOK, CoreOK
  <2>2. rows[r] = [i \in 0 .. Len(p) - 1 |-> p[i + 1]]
    BY DEF Init
  <2> HIDE DEF p
  <2>3. Len(p) \in Nat /\ DOMAIN rows[r] = 0 .. Len(p) - 1
    BY <2>1, <2>2
  <2> QED BY <2>3 DEF p
<1>2. \A r \in Run : Reaches(0, rows[r])
  BY <1>1 DEF Reaches
<1>3. run = NoRun /\ runs \in {0, 1} /\ writer.by = "none" /\ switch.op = "none"
  BY DEF Init, NoWriter, NoSwitch
<1>4. ASSUME NEW r \in Run, r > runs PROVE DOMAIN rows[r] = {}
  <2>1. messages[r] = <<>>
    <3>1. r \in Nat /\ r # 0
      BY SyncAssumption DEF Run
    <3> QED BY <3>1, <1>4 DEF Init
  <2>2. Project(<<>>) = <<>>
    <3>1. FlattenSeq(<<>>) = <<>>
      <4>1. <<>> \in Seq(Seq({}))
        OBVIOUS
      <4>2. FlattenSeq(<<>>) \in Seq({})
        BY <4>1, FlattenMembers
      <4> QED BY <4>2
    <3>2. [i \in 1 .. Len(<<>>) |-> Projected(<<>>[i], <<>>)] = <<>>
      OBVIOUS
    <3> QED BY <3>1, <3>2 DEF Project
  <2>3. Len(Project(messages[r])) = 0
    BY <2>1, <2>2
  <2> QED BY <2>3, <1>1
<1>5. UsedOK
  BY <1>3, <1>4 DEF UsedOK, NoRun
<1>6. AwayOK /\ PassReaches
  BY <1>3 DEF AwayOK, PassReaches, Opening
<1>7. CursorsReach
  BY DEF Init, CursorsReach
<1> QED BY <1>2, <1>5, <1>6, <1>7 DEF PlaceInv

LEMMA TurnPlaced ==
  ASSUME TypeInv, PlaceInv, Submit \/ TurnStep
  PROVE  PlaceInv'
<1>1. /\ UNCHANGED <<rows, cursors, writer, switch>>
      /\ \/ run' = run /\ runs' = runs
         \/ turn.at = "open" /\ run' = runs' /\ runs' = runs + 1
  BY TurnKeeps
<1>3. (\A r \in Run : Reaches(0, rows'[r])) /\ CursorsReach' /\ PassReaches'
  BY <1>1 DEF PlaceInv, CursorsReach, PassReaches
<1>4. CASE run' = run /\ runs' = runs
  <2>1. UsedOK' /\ AwayOK'
    BY <1>1, <1>4 DEF PlaceInv, UsedOK, AwayOK, Opening
  <2> QED BY <2>1, <1>3 DEF PlaceInv
<1>5. CASE turn.at = "open" /\ run' = runs' /\ runs' = runs + 1
  <2>1. switch.op # "open"
    BY <1>5 DEF TypeInv, SwitchOK, NoTurn
  <2>2. runs \in Nat /\ runs + 1 \in Nat /\ \A r \in Run : r \in Nat
    BY SyncAssumption DEF TypeInv, StoreOK, Run
  <2>3. writer.by # "none" => writer.run \in Nat /\ writer.run <= runs
    BY <2>2, PassOn DEF PlaceInv, UsedOK
  <2>4. run' <= runs' /\ (writer.by # "none" => writer.run <= runs')
    BY <2>2, <2>3, <1>5
  <2>5. \A r \in Run : r > runs' => r > runs
    BY <2>2, <1>5
  <2>6. UsedOK'
    BY <2>1, <2>4, <2>5, <1>1 DEF PlaceInv, UsedOK
  <2>7. AwayOK'
    BY <2>1, <1>1 DEF AwayOK, Opening
  <2> QED BY <2>6, <2>7, <1>3 DEF PlaceInv
<1> QED BY <1>1, <1>4, <1>5

(* Starting a pass.                                                        *)
LEMMA StartPlaced ==
  ASSUME TypeInv, PlaceInv, NEW by \in {"loop", "flush"}, run # NoRun, writer' = Pass(by),
         UNCHANGED <<rows, run, runs, cursors>>, switch'.op = switch.op, switch'.target = switch.target,
         switch'.at = switch.at \/ (switch.at = "flush" /\ switch'.at = "flushing")
  PROVE  PlaceInv'
<1>1. writer'.run = run /\ run \in Run
  BY PassType DEF TypeInv, CoreOK
<1>3. CursorsReach'
  BY DEF PlaceInv, CursorsReach
<1>4. UsedOK'
  BY <1>1 DEF PlaceInv, UsedOK
<1>5. AwayOK'
  BY <1>1 DEF PlaceInv, AwayOK, Opening
<1>6. PassReaches'
  <2>1. CASE run \in DOMAIN cursors
    <3>1. writer'.seq = cursors[run] /\ writer'.stage = "write"
      BY <2>1 DEF Pass
    <3>2. switch.at = "popped" => run # switch.target
      BY DEF PlaceInv, AwayOK, TypeInv, SwitchOK
    <3>3. Reaches(cursors[run], rows[run])
      BY <2>1, <3>2 DEF PlaceInv, CursorsReach
    <3> QED BY <3>1, <3>3, <1>1 DEF PassReaches
  <2>2. CASE run \notin DOMAIN cursors
    <3>1. writer'.seq = 0
      BY <2>2 DEF Pass
    <3>2. Reaches(0, rows[run])
      BY <1>1 DEF PlaceInv
    <3> QED BY <3>1, <3>2, <1>1 DEF PassReaches
  <2> QED BY <2>1, <2>2
<1>7. \A r \in Run : Reaches(0, rows'[r])
  BY DEF PlaceInv
<1> QED BY <1>3, <1>4, <1>5, <1>6, <1>7 DEF PlaceInv

(* Ending one.                                                             *)
LEMMA EndPlaced ==
  ASSUME TypeInv, PlaceInv, writer'.by = "none", UNCHANGED <<run, runs>>,
         switch'.op = switch.op, switch'.target = switch.target,
         switch'.at = switch.at \/ (switch.at \in {"flush", "flushing"} /\ switch'.at = "flushed"),
         \A r \in Run : r > runs => DOMAIN rows'[r] = {},
         \A r \in Run : Reaches(0, rows'[r]),
         \A r \in DOMAIN cursors' : Reaches(cursors'[r], rows'[r]) \/ (switch.at = "popped" /\ r = switch.target)
  PROVE  PlaceInv'
<1>1. UsedOK'
  BY DEF PlaceInv, UsedOK
<1>2. AwayOK'
  BY DEF PlaceInv, AwayOK, Opening
<1>3. PassReaches'
  BY DEF PassReaches
<1>4. CursorsReach'
  <2>1. switch.at = "popped" => switch'.at = "popped"
    OBVIOUS
  <2>2. ASSUME NEW r \in DOMAIN cursors' PROVE Reaches(cursors'[r], rows'[r]) \/ (switch'.at = "popped" /\ r = switch'.target)
    <3>1. Reaches(cursors'[r], rows'[r]) \/ (switch.at = "popped" /\ r = switch.target)
      BY <2>2
    <3> QED BY <3>1, <2>1
  <2> QED BY <2>2 DEF CursorsReach
<1> QED BY <1>1, <1>2, <1>3, <1>4 DEF PlaceInv

LEMMA LoopPassPlaced == TypeInv /\ PlaceInv /\ LoopPass => PlaceInv'
<1> SUFFICES ASSUME TypeInv, PlaceInv, LoopPass PROVE PlaceInv'
  OBVIOUS
<1>1. /\ writer' = Pass("loop") /\ run # NoRun /\ UNCHANGED <<rows, run, runs, cursors>>
      /\ switch' = [switch EXCEPT !.late = FALSE]
  BY DEF LoopPass, core, store
<1>2. switch \in SwitchRecord(ids)
  BY DEF TypeInv, SwitchOK
<1>3. switch'.op = switch.op /\ switch'.target = switch.target /\ switch'.at = switch.at
  BY <1>1, <1>2 DEF SwitchRecord
<1> QED BY <1>1, <1>3, StartPlaced

LEMMA FlushPassPlaced == TypeInv /\ PlaceInv /\ FlushPass => PlaceInv'
<1> SUFFICES ASSUME TypeInv, PlaceInv, FlushPass PROVE PlaceInv'
  OBVIOUS
<1>1. switch.at = "flush" /\ UNCHANGED <<rows, run, runs, cursors>> /\ writer = NoWriter
  BY DEF FlushPass, core, store
<1>2. switch \in SwitchRecord(ids)
  BY DEF TypeInv, SwitchOK
<1>3. CASE run = NoRun
  <2>1. writer' = writer /\ switch' = [switch EXCEPT !.at = "flushed"]
    BY <1>3 DEF FlushPass
  <2>2. switch'.op = switch.op /\ switch'.target = switch.target /\ switch'.at = "flushed" /\ writer'.by = "none"
    BY <2>1, <1>1, <1>2 DEF SwitchRecord, NoWriter
    <2>3. cursors' = cursors /\ rows' = rows
    BY <1>1
  <2>4. /\ \A r \in Run : r > runs => DOMAIN rows'[r] = {}
        /\ \A r \in Run : Reaches(0, rows'[r])
        /\ \A r \in DOMAIN cursors' : Reaches(cursors'[r], rows'[r]) \/ (switch.at = "popped" /\ r = switch.target)
    BY <2>3 DEF PlaceInv, UsedOK, CursorsReach
  <2>5. /\ writer'.by = "none" /\ UNCHANGED <<run, runs>> /\ switch'.op = switch.op /\ switch'.target = switch.target
        /\ switch'.at = switch.at \/ (switch.at \in {"flush", "flushing"} /\ switch'.at = "flushed")
    BY <2>2, <1>1
  <2> QED BY <2>4, <2>5, EndPlaced
<1>4. CASE run # NoRun
  <2>1. writer' = Pass("flush") /\ switch' = [switch EXCEPT !.at = "flushing"]
    BY <1>4 DEF FlushPass
  <2>2. switch'.op = switch.op /\ switch'.target = switch.target /\ switch'.at = "flushing"
    BY <2>1, <1>2 DEF SwitchRecord
  <2> QED BY <2>1, <2>2, <1>1, <1>4, StartPlaced
<1> QED BY <1>3, <1>4

LEMMA BootstrapPlaced == TypeInv /\ PlaceInv /\ Bootstrap => PlaceInv'
<1> SUFFICES ASSUME TypeInv, PlaceInv, Bootstrap PROVE PlaceInv'
  OBVIOUS
<1>1. writer.by # "none" /\ UNCHANGED <<run, rows, runs, switch>>
  BY DEF Bootstrap, core, store
<1>2. PICK n : /\ n = 0 \/ n = Cardinality(DOMAIN rows[writer.run])
               /\ cursors' \in Tracked(cursors, writer.run, n)
               /\ writer' = [writer EXCEPT !.stage = "write", !.from = n, !.seq = n,
                    !.until = Until(writer.entries, writer.busy, writer.by = "flush", n)]
  BY DEF Bootstrap
<1>3. writer \in PassRecord(ids) /\ writer.run \in Run
  BY <1>1, PassOn
<1>4. n \in Nat /\ Reaches(n, rows[writer.run])
  <2>1. PICK k \in Nat : DOMAIN rows[writer.run] = 0 .. k - 1
    BY <1>3 DEF PlaceInv, Reaches
  <2>2. Cardinality(0 .. k - 1) = k
    BY FS_Interval
  <2>3. n \in Nat /\ n <= k
    BY <1>2, <2>1, <2>2
  <2> QED BY <2>1, <2>3 DEF Reaches
<1>5. writer'.by = writer.by /\ writer'.run = writer.run /\ writer'.stage = "write" /\ writer'.seq = n
  <2> DEFINE u == Until(writer.entries, writer.busy, writer.by = "flush", n)
  <2>1. writer' = [writer EXCEPT !.stage = "write", !.from = n, !.seq = n, !.until = u]
    BY <1>2
  <2> HIDE DEF u
  <2> QED BY <2>1, <1>3 DEF PassRecord
<1>7. UsedOK' /\ AwayOK'
  BY <1>1, <1>5 DEF PlaceInv, UsedOK, AwayOK, Opening
<1>8. PassReaches'
  BY <1>4, <1>5, <1>1 DEF PassReaches
<1>9. CursorsReach'
  <2>1. /\ cursors'[writer.run] = n
        /\ \A q \in DOMAIN cursors' : q # writer.run => q \in DOMAIN cursors /\ cursors'[q] = cursors[q]
    BY <1>2, <1>3, <1>4, TrackedType DEF TypeInv
  <2>2. ASSUME NEW r \in DOMAIN cursors' PROVE Reaches(cursors'[r], rows[r]) \/ (switch.at = "popped" /\ r = switch.target)
    BY <2>1, <1>4 DEF PlaceInv, CursorsReach
  <2> QED BY <2>2, <1>1 DEF CursorsReach
<1>10. \A r \in Run : Reaches(0, rows'[r])
  BY <1>1 DEF PlaceInv
<1> QED BY <1>7, <1>8, <1>9, <1>10 DEF PlaceInv

(* What an insertion at the place of the pass does to the rows.            *)
LEMMA InsertReaches ==
  ASSUME TypeInv, PlaceInv, writer.by # "none", NEW e \in EntryUpto(ids),
         rows' = [rows EXCEPT ![writer.run] = InsertOrIgnore(rows[writer.run], writer.seq, e)]
  PROVE  /\ Reaches(writer.seq + 1, rows'[writer.run])
         /\ \A r \in Run : \A m \in Nat : Reaches(m, rows[r]) => Reaches(m, rows'[r])
         /\ \A r \in Run : r > runs => DOMAIN rows'[r] = {}
<1> DEFINE had == rows[writer.run]
           more == InsertOrIgnore(had, writer.seq, e)
<1>1. /\ writer.run \in Run /\ writer.seq \in Nat /\ ids \in Nat /\ DOMAIN rows = Run /\ TableOK(had, ids)
      /\ Reaches(writer.seq, had) /\ writer.run <= runs
  BY PassOn DEF TypeInv, StoreOK, PlaceInv, PassReaches, UsedOK
<1>2. Filled(had, more, writer.seq, e)
  BY <1>1, InsertType
<1>3. rows'[writer.run] = more /\ \A r \in Run : r # writer.run => rows'[r] = rows[r]
  BY <1>1
<1> HIDE DEF had, more
<1>4. Reaches(writer.seq + 1, more) /\ \A m \in Nat : Reaches(m, had) => Reaches(m, more)
  BY <1>1, <1>2, ReachesMore
<1>5. \A r \in Run : \A m \in Nat : Reaches(m, rows[r]) => Reaches(m, rows'[r])
  BY <1>3, <1>4 DEF had
<1>6. Reaches(writer.seq + 1, rows'[writer.run])
  BY <1>3, <1>4
<1>7. ASSUME NEW r \in Run, r > runs PROVE DOMAIN rows'[r] = {}
  <2>1. r # writer.run
    <3>1. r \in Nat /\ runs \in Nat
      BY SyncAssumption DEF Run, TypeInv, StoreOK
    <3> QED BY <3>1, <1>1, <1>7
  <2> QED BY <2>1, <1>3, <1>7 DEF PlaceInv, UsedOK
<1> QED BY <1>5, <1>6, <1>7

LEMMA InsertEntryPlaced == TypeInv /\ PlaceInv /\ InsertEntry => PlaceInv'
<1> SUFFICES ASSUME TypeInv, PlaceInv, InsertEntry PROVE PlaceInv'
  OBVIOUS
<1> DEFINE e == writer.entries[writer.seq + 1]
           x == writer.unfolded \/ (e.kind = "call" /\ ~e.out)
           next == writer.seq + 1
<1>1. writer.by # "none" /\ writer.stage = "write" /\ writer.seq < writer.until /\ UNCHANGED <<run, runs, cursors, switch>>
  BY DEF InsertEntry, core
<1>2. /\ writer \in PassRecord(ids) /\ writer.run \in Run /\ writer.seq \in Nat /\ e \in EntryUpto(ids)
      /\ \A r \in DOMAIN cursors : cursors[r] \in Nat /\ r \in Run
  <2>1. writer.seq + 1 \in DOMAIN writer.entries /\ writer.entries \in Seq(EntryUpto(ids))
    BY <1>1, PassOn
  <2> QED BY <2>1, <1>1, PassOn DEF TypeInv, CursorsTyped
<1>3. \/ /\ rows' = [rows EXCEPT ![writer.run] = InsertOrIgnore(rows[writer.run], writer.seq, e)]
         /\ writer' = [writer EXCEPT !.seq = next, !.unfolded = x]
      \/ rows' = rows /\ writer' = [writer EXCEPT !.until = writer.seq]
  BY DEF InsertEntry
<1> HIDE DEF e, x
<1>4. writer'.by = writer.by /\ writer'.run = writer.run /\ writer'.stage = writer.stage
  BY <1>2, <1>3 DEF PassRecord
<1>5. CASE /\ rows' = [rows EXCEPT ![writer.run] = InsertOrIgnore(rows[writer.run], writer.seq, e)]
           /\ writer' = [writer EXCEPT !.seq = next, !.unfolded = x]
  <2>1. writer'.seq = writer.seq + 1
    BY <1>2, <1>5 DEF PassRecord
  <2>2. /\ Reaches(writer.seq + 1, rows'[writer.run])
        /\ \A r \in Run : \A m \in Nat : Reaches(m, rows[r]) => Reaches(m, rows'[r])
        /\ \A r \in Run : r > runs => DOMAIN rows'[r] = {}
    BY <1>1, <1>2, <1>5, InsertReaches
  <2>3. \A r \in Run : Reaches(0, rows'[r])
    BY <2>2 DEF PlaceInv
  <2>4. PassReaches'
    BY <2>1, <2>2, <1>1, <1>4 DEF PassReaches
  <2>5. \A r \in DOMAIN cursors : Reaches(cursors[r], rows'[r]) \/ (switch.at = "popped" /\ r = switch.target)
    <3>1. \A r \in DOMAIN cursors : Reaches(cursors[r], rows[r]) \/ (switch.at = "popped" /\ r = switch.target)
      BY DEF PlaceInv, CursorsReach
    <3> QED BY <3>1, <1>2, <2>2
  <2>6. CursorsReach'
    BY <2>5, <1>1 DEF CursorsReach
  <2>7. UsedOK' /\ AwayOK'
    BY <2>2, <1>1, <1>4 DEF PlaceInv, UsedOK, AwayOK, Opening
  <2> QED BY <2>3, <2>4, <2>6, <2>7 DEF PlaceInv
<1>6. CASE rows' = rows /\ writer' = [writer EXCEPT !.until = writer.seq]
  <2>1. writer'.seq = writer.seq
    BY <1>2, <1>6 DEF PassRecord
  <2>2. UsedOK' /\ AwayOK'
    BY <1>1, <1>4, <1>6 DEF PlaceInv, UsedOK, AwayOK, Opening
  <2>3. PassReaches'
    BY <2>1, <1>4, <1>6 DEF PlaceInv, PassReaches
  <2>4. CursorsReach' /\ \A r \in Run : Reaches(0, rows'[r])
    BY <1>1, <1>6 DEF PlaceInv, CursorsReach
  <2> QED BY <2>2, <2>3, <2>4 DEF PlaceInv
<1> QED BY <1>3, <1>5, <1>6

(* The lock is let go.                                                     *)
LEMMA ReleaseMoves ==
  ASSUME TypeInv, writer.by # "none", NEW c, Release(c)
  PROVE  /\ writer'.by = "none" /\ cursors' = c /\ switch'.op = switch.op /\ switch'.target = switch.target
         /\ switch'.at = switch.at \/ (switch.at \in {"flush", "flushing"} /\ switch'.at = "flushed")
         /\ switch'.built = switch.built
<1>1. writer' = NoWriter /\ cursors' = c
  BY DEF Release
<1>2. switch \in SwitchRecord(ids) /\ (writer.by = "flush" <=> switch.at = "flushing")
  BY DEF TypeInv, SwitchOK, WriterOK
<1>3. CASE writer.by = "flush"
  <2>1. switch' = [switch EXCEPT !.at = "flushed"]
    BY <1>3 DEF Release
  <2> QED BY <2>1, <1>1, <1>2, <1>3 DEF SwitchRecord, NoWriter
<1>4. CASE writer.by # "flush"
  BY <1>1, <1>4 DEF Release, NoWriter
<1> QED BY <1>3, <1>4

LEMMA EndPassPlaced == TypeInv /\ PlaceInv /\ EndPass => PlaceInv'
<1> SUFFICES ASSUME TypeInv, PlaceInv, EndPass PROVE PlaceInv'
  OBVIOUS
<1> DEFINE c == IF writer.seq > writer.from THEN Put(cursors, writer.run, writer.seq) ELSE cursors
<1>1. writer.by # "none" /\ writer.stage = "write" /\ UNCHANGED <<run, rows, runs>>
  BY DEF EndPass, core, store
<1>2. /\ CursorsTyped(cursors) /\ writer \in PassRecord(ids) /\ writer.run \in Run /\ writer.seq \in Nat
      /\ writer.run \in DOMAIN cursors
  BY <1>1, PassOn DEF TypeInv, WriterOK
<1>3. \A r \in DOMAIN c : Reaches(c[r], rows[r]) \/ (switch.at = "popped" /\ r = switch.target)
  <2> DEFINE p == Put(cursors, writer.run, writer.seq)
  <2>1. Moved(cursors, p, writer.run, writer.seq)
    BY <1>2, PutType
  <2> HIDE DEF p
  <2>2. Reaches(writer.seq, rows[writer.run])
    BY <1>1 DEF PlaceInv, PassReaches
  <2>3. \A r \in DOMAIN p : Reaches(p[r], rows[r]) \/ (switch.at = "popped" /\ r = switch.target)
    BY <2>1, <2>2 DEF PlaceInv, CursorsReach, Moved
  <2>4. \A r \in DOMAIN cursors : Reaches(cursors[r], rows[r]) \/ (switch.at = "popped" /\ r = switch.target)
    BY DEF PlaceInv, CursorsReach
  <2>5. c = p \/ c = cursors
    BY DEF p
  <2> HIDE DEF c
  <2> QED BY <2>3, <2>4, <2>5
<1>4. CASE writer.by = "flush" /\ writer.unfolded
  <2>1. cursors' = c /\ writer' = [writer EXCEPT !.stage = "mark"] /\ switch' = switch
    BY <1>4 DEF EndPass
  <2> HIDE DEF c
  <2>2. writer'.by = writer.by /\ writer'.run = writer.run /\ writer'.stage = "mark" /\ writer'.seq = writer.seq
    BY <2>1, <1>2 DEF PassRecord
  <2>3. UsedOK' /\ AwayOK'
    BY <2>1, <2>2, <1>1 DEF PlaceInv, UsedOK, AwayOK, Opening
  <2>4. PassReaches' /\ \A r \in Run : Reaches(0, rows'[r])
    BY <2>2, <1>1 DEF PlaceInv, PassReaches
  <2>5. CursorsReach'
    BY <2>1, <1>1, <1>3 DEF CursorsReach
  <2> QED BY <2>3, <2>4, <2>5 DEF PlaceInv
<1>5. CASE ~(writer.by = "flush" /\ writer.unfolded)
  <2>1. Release(c)
    BY <1>5 DEF EndPass
  <2> HIDE DEF c
  <2>2. /\ writer'.by = "none" /\ cursors' = c /\ switch'.op = switch.op /\ switch'.target = switch.target
        /\ switch'.at = switch.at \/ (switch.at \in {"flush", "flushing"} /\ switch'.at = "flushed")
    BY <2>1, <1>1, ReleaseMoves
  <2>3. /\ \A r \in Run : r > runs => DOMAIN rows'[r] = {}
        /\ \A r \in Run : Reaches(0, rows'[r])
    BY <1>1 DEF PlaceInv, UsedOK
  <2>4. \A r \in DOMAIN cursors' : Reaches(cursors'[r], rows'[r]) \/ (switch.at = "popped" /\ r = switch.target)
    BY <2>2, <1>1, <1>3
  <2> QED BY <2>2, <2>3, <2>4, <1>1, EndPlaced
<1> QED BY <1>4, <1>5

LEMMA InsertMarkPlaced == TypeInv /\ PlaceInv /\ InsertMark => PlaceInv'
<1> SUFFICES ASSUME TypeInv, PlaceInv, InsertMark PROVE PlaceInv'
  OBVIOUS
<1>1. writer.by # "none" /\ writer.stage = "mark" /\ UNCHANGED <<run, runs>>
  BY DEF InsertMark, core
<1>2. /\ CursorsTyped(cursors) /\ writer.run \in Run /\ writer.seq \in Nat /\ writer.seq + 1 \in Nat
      /\ writer.run \in DOMAIN cursors /\ ids \in Nat
  BY <1>1, PassOn DEF TypeInv, WriterOK
<1>3. CASE /\ rows' = [rows EXCEPT ![writer.run] = InsertOrIgnore(rows[writer.run], writer.seq, Mark)]
           /\ Release(Put(cursors, writer.run, writer.seq + 1))
  <2> DEFINE p == Put(cursors, writer.run, writer.seq + 1)
  <2>1. Moved(cursors, p, writer.run, writer.seq + 1)
    BY <1>2, PutType
  <2>2. Release(p)
    BY <1>3
  <2> HIDE DEF p
  <2>3. /\ Reaches(writer.seq + 1, rows'[writer.run])
        /\ \A r \in Run : \A m \in Nat : Reaches(m, rows[r]) => Reaches(m, rows'[r])
        /\ \A r \in Run : r > runs => DOMAIN rows'[r] = {}
    <3>1. Mark \in EntryUpto(ids)
      BY <1>2, MarksType
    <3> QED BY <3>1, <1>1, <1>3, InsertReaches
  <2>4. /\ writer'.by = "none" /\ cursors' = p /\ switch'.op = switch.op /\ switch'.target = switch.target
        /\ switch'.at = switch.at \/ (switch.at \in {"flush", "flushing"} /\ switch'.at = "flushed")
    BY <2>2, <1>1, ReleaseMoves
  <2>5. \A r \in DOMAIN p : Reaches(p[r], rows'[r]) \/ (switch.at = "popped" /\ r = switch.target)
    <3>1. \A r \in DOMAIN cursors : /\ r \in Run /\ cursors[r] \in Nat
                                    /\ Reaches(cursors[r], rows[r]) \/ (switch.at = "popped" /\ r = switch.target)
      BY <1>2 DEF PlaceInv, CursorsReach, CursorsTyped
    <3>2. \A r \in DOMAIN cursors : Reaches(cursors[r], rows'[r]) \/ (switch.at = "popped" /\ r = switch.target)
      BY <3>1, <2>3
    <3> QED BY <3>2, <2>1, <2>3 DEF Moved
  <2>6. \A r \in Run : Reaches(0, rows'[r])
    BY <2>3 DEF PlaceInv
  <2> QED BY <2>3, <2>4, <2>5, <2>6, <1>1, EndPlaced
<1>4. CASE Release(cursors) /\ rows' = rows
  <2>1. /\ writer'.by = "none" /\ cursors' = cursors /\ switch'.op = switch.op /\ switch'.target = switch.target
        /\ switch'.at = switch.at \/ (switch.at \in {"flush", "flushing"} /\ switch'.at = "flushed")
    BY <1>1, <1>4, ReleaseMoves
  <2>2. /\ \A r \in Run : r > runs => DOMAIN rows'[r] = {}
        /\ \A r \in Run : Reaches(0, rows'[r])
        /\ \A r \in DOMAIN cursors' : Reaches(cursors'[r], rows'[r]) \/ (switch.at = "popped" /\ r = switch.target)
    BY <2>1, <1>4 DEF PlaceInv, UsedOK, CursorsReach
  <2> QED BY <2>1, <2>2, <1>1, EndPlaced
<1> QED BY <1>3, <1>4 DEF InsertMark

(* The handlers.                                                           *)
LEMMA BeginPlaced ==
  ASSUME ~Reopening, TypeInv, PlaceInv, NewSession \/ Shutdown \/ \E r \in Run : OpenSession(r)
  PROVE  PlaceInv'
<1>1. /\ UNCHANGED <<run, rows, runs, cursors, writer>> /\ switch = NoSwitch /\ switch'.at = "flush"
      /\ switch'.op = "open" => switch'.target # run /\ switch'.target <= runs
  <2>1. CASE NewSession \/ Shutdown
    BY <2>1 DEF NewSession, Shutdown, Begin, core, store, sync, NoSwitch
  <2>2. CASE \E r \in Run : OpenSession(r)
    <3>1. PICK r \in Run : r \in 1 .. runs /\ (r = run => Reopening) /\ Begin("open", r, FALSE)
      BY <2>2 DEF OpenSession
    <3>2. UNCHANGED <<run, rows, runs, cursors, writer>> /\ switch = NoSwitch /\ switch'.at = "flush" /\ switch'.target = r
      BY <3>1 DEF Begin, core, store, sync, NoSwitch
    <3>3. r <= runs
      BY <3>1 DEF TypeInv, StoreOK
    <3> QED BY <3>1, <3>2, <3>3
  <2> QED BY <2>1, <2>2
<1>2. UsedOK' /\ AwayOK'
  BY <1>1 DEF PlaceInv, UsedOK, AwayOK, Opening
<1>3. PassReaches' /\ \A r \in Run : Reaches(0, rows'[r])
  BY <1>1 DEF PlaceInv, PassReaches
<1>4. CursorsReach'
  BY <1>1 DEF PlaceInv, CursorsReach, NoSwitch
<1> QED BY <1>2, <1>3, <1>4 DEF PlaceInv

LEMMA SwitchPlaced ==
  ASSUME TypeInv, PlaceInv, SwitchStep
  PROVE  PlaceInv'
<1>0. switch \in SwitchRecord(ids) /\ DOMAIN rows = Run /\ runs \in Nat
  BY DEF TypeInv, SwitchOK, StoreOK
<1>1. ASSUME UNCHANGED <<rows, runs, cursors, writer>>, run' = run \/ run' = NoRun, switch.at # "popped",
             switch'.op # "open" \/ (Opening /\ switch'.op = "open" /\ switch'.target = switch.target)
      PROVE  PlaceInv'
  <2>1. run' <= runs /\ (switch.op = "open" => switch.target \in Run)
    BY <1>0, <1>1 DEF PlaceInv, UsedOK, NoRun, TypeInv, SwitchOK
  <2>2. UsedOK'
    BY <1>1, <2>1 DEF PlaceInv, UsedOK, Opening
  <2>3. NoRun \notin Run
    BY SyncAssumption DEF NoRun, Run
  <2>4. AwayOK'
    BY <1>1, <2>1, <2>3 DEF PlaceInv, AwayOK, Opening
  <2>5. PassReaches' /\ \A r \in Run : Reaches(0, rows'[r])
    BY <1>1 DEF PlaceInv, PassReaches
  <2>6. CursorsReach'
    BY <1>1 DEF PlaceInv, CursorsReach
  <2> QED BY <2>2, <2>4, <2>5, <2>6 DEF PlaceInv
<1>2. CASE ResetSession \/ OpenFails
  <2>1. UNCHANGED <<rows, runs, cursors, writer>> /\ (run' = run \/ run' = NoRun) /\ switch.at = "flushed" /\ switch' = NoSwitch
    BY <1>2 DEF ResetSession, OpenFails, core, store, sync
  <2> QED BY <2>1, <1>1 DEF NoSwitch
<1>3. CASE LoadRun
  <2> DEFINE r == switch.target
             ms == IF EndsOpen(messages[r]) THEN Front(messages[r]) ELSE messages[r]
  <2>1. switch.op = "open" /\ switch.at = "flushed" /\ UNCHANGED <<run, runs, cursors, writer>> /\ r \in Run
    BY <1>3 DEF LoadRun, core, store, sync, TypeInv, SwitchOK
  <2>2. CASE ~EndsOpen(messages[r])
    <3>1. UNCHANGED store /\ switch' = [switch EXCEPT !.at = "loaded", !.loaded = ms]
      BY <1>3, <2>2 DEF LoadRun
    <3> HIDE DEF ms
    <3>2. switch'.op = "open" /\ switch'.target = switch.target
      BY <3>1, <2>1, <1>0 DEF SwitchRecord
    <3> QED BY <3>1, <3>2, <2>1, <1>1 DEF store, Opening
  <2>3. CASE EndsOpen(messages[r])
    <3>1. rows' = [rows EXCEPT ![r] = <<>>] /\ switch' = [switch EXCEPT !.at = "popped", !.popped = TRUE, !.loaded = ms]
      BY <1>3, <2>3 DEF LoadRun
    <3> HIDE DEF ms
    <3>2. switch'.op = "open" /\ switch'.target = r /\ switch'.at = "popped"
      BY <3>1, <2>1, <1>0 DEF SwitchRecord
    <3>3. /\ DOMAIN rows'[r] = {} /\ DOMAIN rows'[r] = 0 .. 0 - 1
          /\ \A q \in Run : q # r => rows'[q] = rows[q]
      BY <3>1, <2>1, <1>0
    <3>4. writer.by # "none" => writer.run # r /\ writer.run \in Run
      BY <2>1, PassOn DEF PlaceInv, AwayOK, Opening
    <3> HIDE DEF r
    <3>5. r = switch.target
      BY DEF r
    <3>6. UsedOK'
      BY <2>1, <3>2, <3>3, <3>5 DEF PlaceInv, UsedOK
    <3>7. AwayOK'
      BY <2>1, <3>2, <3>4, <3>5 DEF PlaceInv, AwayOK
    <3>8. \A q \in Run : Reaches(0, rows'[q])
      <4>1. Reaches(0, rows'[r])
        <5>1. 0 \in Nat /\ 0 <= 0
          OBVIOUS
        <5> QED BY <5>1, <3>3 DEF Reaches
      <4> QED BY <4>1, <3>3 DEF PlaceInv
    <3>9. PassReaches'
      BY <2>1, <3>3, <3>4 DEF PlaceInv, PassReaches
    <3>10. CursorsReach'
      BY <2>1, <3>2, <3>3 DEF PlaceInv, CursorsReach, TypeInv, CursorsTyped
    <3> QED BY <3>6, <3>7, <3>8, <3>9, <3>10 DEF PlaceInv
  <2> QED BY <2>2, <2>3
<1>4. CASE Invalidate
  <2>1. /\ switch.at = "popped" /\ writer = NoWriter /\ UNCHANGED <<run, rows, runs, writer>>
        /\ switch' = [switch EXCEPT !.at = "loaded"]
        /\ cursors' = [r \in DOMAIN cursors \ {switch.target} |-> cursors[r]]
    BY <1>4 DEF Invalidate, core, store
  <2>2. switch'.op = switch.op /\ switch'.target = switch.target /\ switch'.at = "loaded"
    BY <2>1, <1>0 DEF SwitchRecord
  <2>3. UsedOK' /\ AwayOK'
    BY <2>1, <2>2 DEF PlaceInv, UsedOK, AwayOK, NoWriter
  <2>4. PassReaches' /\ \A r \in Run : Reaches(0, rows'[r])
    BY <2>1 DEF PlaceInv, PassReaches
  <2>5. CursorsReach'
    BY <2>1, <2>2 DEF PlaceInv, CursorsReach
  <2> QED BY <2>3, <2>4, <2>5 DEF PlaceInv
<1>5. CASE ReleaseOld
  <2>1. /\ switch.at = "loaded" /\ switch' = [switch EXCEPT !.at = "released"]
        /\ UNCHANGED <<rows, runs, cursors, writer>> /\ (run' = run \/ run' = NoRun)
    BY <1>5 DEF ReleaseOld, store, sync
  <2>2. switch.op = "open"
    BY <2>1 DEF TypeInv, SwitchOK
  <2>3. switch'.op = switch.op /\ switch'.target = switch.target
    BY <2>1, <1>0 DEF SwitchRecord
  <2> QED BY <2>1, <2>2, <2>3, <1>1 DEF Opening
<1>6. CASE RebuildTranscript
  <2>1. PICK built : switch.at = "released" /\ switch' = [switch EXCEPT !.at = "built", !.built = built]
    BY <1>6 DEF RebuildTranscript
  <2>2. UNCHANGED <<rows, runs, cursors, writer, run>>
    BY <1>6 DEF RebuildTranscript, core, store, sync
  <2>3. switch.op = "open"
    BY <2>1 DEF TypeInv, SwitchOK
  <2>4. switch'.op = switch.op /\ switch'.target = switch.target
    BY <2>1, <1>0 DEF SwitchRecord
  <2> QED BY <2>1, <2>2, <2>3, <2>4, <1>1 DEF Opening
<1>7. CASE Install
  <2>1. switch.at = "built" /\ UNCHANGED <<rows, runs, cursors, writer>> /\ switch' = NoSwitch /\ run' = switch.target
    BY <1>7 DEF Install, store, sync
  <2>2. switch.op = "open"
    BY <2>1 DEF TypeInv, SwitchOK
  <2>3. UsedOK' /\ AwayOK'
    BY <2>1, <2>2 DEF PlaceInv, UsedOK, AwayOK, NoSwitch, Opening
  <2>4. PassReaches' /\ \A r \in Run : Reaches(0, rows'[r])
    BY <2>1 DEF PlaceInv, PassReaches
  <2>5. CursorsReach'
    BY <2>1 DEF PlaceInv, CursorsReach
  <2> QED BY <2>3, <2>4, <2>5 DEF PlaceInv
<1> QED BY <1>2, <1>3, <1>4, <1>5, <1>6, <1>7 DEF SwitchStep

LEMMA RestartPlaced ==
  ASSUME TypeInv, PlaceInv, NEW pop \in BOOLEAN, Restart(pop)
  PROVE  PlaceInv'
<1>1. runs' = runs /\ cursors' = <<>> /\ writer' = NoWriter /\ switch' = NoSwitch /\ (run' = NoRun \/ run' = runs)
  BY DEF Restart
<1>2. rows' = rows \/ rows' = [rows EXCEPT ![runs] = <<>>] \/ rows' = [rows EXCEPT ![runs] = rows[runs]]
  BY DEF Restart
<1>3. DOMAIN rows = Run /\ runs \in Nat
  BY DEF TypeInv, StoreOK
<1>4. \A r \in Run : rows'[r] = rows[r] \/ rows'[r] = <<>>
  BY <1>2, <1>3
<1>5. Reaches(0, <<>>) /\ DOMAIN <<>> = {}
  <2>1. 0 \in Nat /\ 0 <= 0 /\ DOMAIN <<>> = 0 .. 0 - 1
    OBVIOUS
  <2> QED BY <2>1 DEF Reaches
<1>6. \A r \in Run : Reaches(0, rows'[r]) /\ (r > runs => DOMAIN rows'[r] = {})
  <2>1. \A r \in Run : Reaches(0, rows[r]) /\ (r > runs => DOMAIN rows[r] = {})
    BY DEF PlaceInv, UsedOK
  <2> QED BY <2>1, <1>4, <1>5
<1>7. UsedOK'
  <2>1. run' <= runs'
    BY <1>1, <1>3 DEF NoRun
  <2> QED BY <2>1, <1>1, <1>6 DEF UsedOK, NoWriter, NoSwitch
<1>8. AwayOK' /\ PassReaches' /\ CursorsReach'
  BY <1>1 DEF AwayOK, PassReaches, CursorsReach, NoWriter, NoSwitch
<1> QED BY <1>6, <1>7, <1>8 DEF PlaceInv

LEMMA NextPlaced ==
  ASSUME ~Reopening, TypeInv, PlaceInv, [Next]_vars
  PROVE  PlaceInv'
<1>1. CASE Submit \/ TurnStep
  BY <1>1, TurnPlaced
<1>2. CASE LoopPass \/ FlushPass \/ PassStep
  BY <1>2, LoopPassPlaced, FlushPassPlaced, BootstrapPlaced, InsertEntryPlaced, EndPassPlaced, InsertMarkPlaced
     DEF PassStep
<1>3. CASE NewSession \/ Shutdown \/ \E r \in Run : OpenSession(r)
  BY <1>3, BeginPlaced
<1>4. CASE SwitchStep
  BY <1>4, SwitchPlaced
<1>5. CASE \E pop \in BOOLEAN : Restart(pop)
  BY <1>5, RestartPlaced
<1>6. CASE UNCHANGED vars
  <2>1. UNCHANGED <<run, rows, runs, cursors, writer, switch>>
    BY <1>6 DEF vars, core, store, sync
  <2>2. UsedOK' /\ AwayOK' /\ CursorsReach' /\ PassReaches' /\ \A r \in Run : Reaches(0, rows'[r])
    BY <2>1 DEF PlaceInv, UsedOK, AwayOK, CursorsReach, PassReaches, Opening
  <2> QED BY <2>2 DEF PlaceInv
<1> QED BY <1>1, <1>2, <1>3, <1>4, <1>5, <1>6 DEF Next

-----------------------------------------------------------------------------
(* The rows are the first entries of the transcript.                       *)
Grows(s, t) ==
  /\ \A i \in DOMAIN s : i \in DOMAIN t /\ SameEntry(t[i], s[i]) /\ (t[i] = Mark => s[i] = Mark)
  /\ \A i \in DOMAIN t : i \notin DOMAIN s => t[i] # Mark
Like(s, t) == \A i \in DOMAIN s : i \in DOMAIN t /\ SameEntry(s[i], t[i])
Follows(table, t) ==
  \A i \in DOMAIN table : LacksMark(table, i, t) \/ (i + 1 \in DOMAIN t /\ SameEntry(table[i], t[i + 1]))
FollowInv ==
  /\ writer.by # "none" /\ run = writer.run => Like(writer.entries, transcript)
  /\ run # NoRun /\ ~broken => Follows(rows[run], transcript)
  /\ switch.at = "built" /\ ~broken => Follows(rows[switch.target], switch.built)

LEMMA Places ==
  ASSUME NEW n \in Nat, NEW t \in Seq(EntryUpto(n)), NEW i \in Nat
  PROVE  i < Len(t) <=> i + 1 \in DOMAIN t
<1>1. Len(t) \in Nat /\ DOMAIN t = 1 .. Len(t)
  OBVIOUS
<1> QED BY <1>1

LEMMA FollowsGrow ==
  ASSUME NEW n \in Nat, NEW k \in Nat, NEW s \in Seq(EntryUpto(n)), NEW t \in Seq(EntryUpto(k)), Grows(s, t),
         NEW table, DOMAIN table \subseteq Nat, Follows(table, s)
  PROVE  Follows(table, t)
<1> SUFFICES ASSUME NEW i \in DOMAIN table
             PROVE  LacksMark(table, i, t) \/ (i + 1 \in DOMAIN t /\ SameEntry(table[i], t[i + 1]))
  BY DEF Follows
<1>1. CASE i + 1 \in DOMAIN s /\ SameEntry(table[i], s[i + 1])
  BY <1>1 DEF Grows, SameEntry
<1>2. CASE LacksMark(table, i, s)
  <2>1. PICK j \in DOMAIN table : j <= i /\ table[j] = Mark /\ (j < Len(s) => s[j + 1] # Mark)
    BY <1>2 DEF LacksMark
  <2>2. j \in Nat
    OBVIOUS
  <2>3. (j < Len(s) <=> j + 1 \in DOMAIN s) /\ (j < Len(t) <=> j + 1 \in DOMAIN t)
    BY <2>2, Places
  <2>4. j < Len(t) => t[j + 1] # Mark
    BY <2>1, <2>3 DEF Grows
  <2>5. LacksMark(table, i, t)
    BY <2>1, <2>4 DEF LacksMark
  <2> QED BY <2>5
<1> QED BY <1>1, <1>2 DEF Follows

LEMMA LikeGrows ==
  ASSUME NEW s, NEW t, NEW u, Grows(t, u), Like(s, t)
  PROVE  Like(s, u)
BY DEF Grows, Like, SameEntry

(* What is appended to the transcript is no Mark.                          *)
LEMMA JoinGrows ==
  ASSUME NEW n \in Nat, NEW a \in Seq(EntryUpto(n)), NEW b \in Seq(EntryUpto(n)),
         \A i \in DOMAIN b : b[i] # Mark
  PROVE  Grows(a, a \o b)
<1> DEFINE c == a \o b
<1>1. /\ \A i \in DOMAIN a : i \in DOMAIN c /\ c[i] = a[i]
      /\ \A i \in DOMAIN c : i \notin DOMAIN a => \E k \in DOMAIN b : c[i] = b[k]
  BY JoinKeeps
<1> HIDE DEF c
<1>2. Grows(a, c)
  BY <1>1 DEF Grows, SameEntry
<1> QED BY <1>2 DEF c

LEMMA PartsAreNoMarks ==
  ASSUME NEW n \in Nat, NEW e \in EntryUpto(n), NEW f \in EntryUpto(n), e # Mark, f # Mark
  PROVE  /\ <<e>> \in Seq(EntryUpto(n)) /\ <<>> \in Seq(EntryUpto(n))
         /\ <<e>> \o <<f>> \in Seq(EntryUpto(n)) /\ <<>> \o <<f>> \in Seq(EntryUpto(n))
         /\ \A i \in DOMAIN <<e>> : <<e>>[i] # Mark
         /\ \A i \in DOMAIN <<>> : <<>>[i] # Mark
         /\ \A i \in DOMAIN (<<e>> \o <<f>>) : (<<e>> \o <<f>>)[i] # Mark
         /\ \A i \in DOMAIN (<<>> \o <<f>>) : (<<>> \o <<f>>)[i] # Mark
<1> DEFINE E == EntryUpto(n)
           M == Mark
<1> HIDE DEF E, M
<1>1. ASSUME NEW x \in E, NEW y \in E, x # M, y # M
      PROVE  /\ <<x>> \in Seq(E) /\ <<>> \in Seq(E) /\ <<x>> \o <<y>> \in Seq(E) /\ <<>> \o <<y>> \in Seq(E)
             /\ \A i \in DOMAIN <<x>> : <<x>>[i] # M
             /\ \A i \in DOMAIN <<>> : <<>>[i] # M
             /\ \A i \in DOMAIN (<<x>> \o <<y>>) : (<<x>> \o <<y>>)[i] # M
             /\ \A i \in DOMAIN (<<>> \o <<y>>) : (<<>> \o <<y>>)[i] # M
  BY <1>1
<1>2. e \in E /\ f \in E /\ e # M /\ f # M
  BY DEF E, M
<1> QED BY <1>1, <1>2, Zenon DEF E, M

LEMMA FoldedGrows ==
  ASSUME NEW n \in Nat, NEW t \in Seq(EntryUpto(n)), NEW ms
  PROVE  Grows(t, Folded(t, ms))
<1>1. /\ DOMAIN Folded(t, ms) = DOMAIN t
      /\ \A i \in DOMAIN t : SameEntry(Folded(t, ms)[i], t[i])
  BY FoldedType
<1>2. ASSUME NEW i \in DOMAIN t, Folded(t, ms)[i] = Mark PROVE t[i] = Mark
  <2>1. CASE t[i].kind = "call" /\ t[i].id \in Answered(ms)
    <3>1. Folded(t, ms)[i].kind = "call"
      BY <2>1, <1>1 DEF SameEntry
    <3> QED BY <3>1, <1>2 DEF Mark, Shown
  <2>2. CASE ~(t[i].kind = "call" /\ t[i].id \in Answered(ms))
    BY <2>2, <1>2 DEF Folded
  <2> QED BY <2>1, <2>2
<1> QED BY <1>1, <1>2 DEF Grows

LEMMA GrowsOn ==
  ASSUME NEW s, NEW t, NEW u, Grows(s, t), Grows(t, u)
  PROVE  Grows(s, u)
BY DEF Grows, SameEntry

LEMMA StaysGrown ==
  ASSUME NEW s
  PROVE  Grows(s, s)
BY DEF Grows, SameEntry

(* The turn only adds to the transcript.                                   *)
LEMMA TurnGrows ==
  ASSUME TypeInv, Submit \/ TurnStep
  PROVE  Grows(transcript, transcript')
<1>0. transcript \in Seq(EntryUpto(ids)) /\ ids \in Nat /\ turn \in TurnRecord
  BY DEF TypeInv, CoreOK, TurnOK
<1>1. CASE transcript' = transcript
  BY <1>1, StaysGrown
<1>2. ASSUME NEW id \in Id, NEW n \in Nat, id <= n, NEW t \in Seq(EntryUpto(n)), NEW text \in BOOLEAN
      PROVE  /\ Grows(t, t \o <<Shown("user", id, TRUE)>>)
             /\ Grows(t, t \o (IF text THEN Text(id) ELSE <<>>))
             /\ Grows(t, t \o ((IF text THEN Text(id) ELSE <<>>) \o <<Shown("call", id, FALSE)>>))
  <2> DEFINE u == Shown("user", id, TRUE)
             x == Shown("text", id, TRUE)
             c == Shown("call", id, FALSE)
  <2>1. /\ u \in EntryUpto(n) /\ x \in EntryUpto(n) /\ c \in EntryUpto(n)
        /\ u # Mark /\ x # Mark /\ c # Mark
    <3>1. {"user", "text", "call"} \subseteq {"user", "text", "call", "meta", "mark"} /\ {TRUE, FALSE} \subseteq BOOLEAN
      OBVIOUS
    <3>2. u \in EntryUpto(n) /\ x \in EntryUpto(n) /\ c \in EntryUpto(n)
      BY <3>1, <1>2, ShownType
    <3> QED BY <3>2 DEF Mark, Shown
  <2>2. Text(id) = <<x>>
    BY DEF Text
  <2> HIDE DEF u, x, c
  <2>3. Grows(t, t \o <<u>>) /\ Grows(t, t \o <<x>>) /\ Grows(t, t \o <<>>)
    <3>1. \A e \in EntryUpto(n) : e # Mark => Grows(t, t \o <<e>>) /\ Grows(t, t \o <<>>)
      <4> SUFFICES ASSUME NEW e \in EntryUpto(n), e # Mark PROVE Grows(t, t \o <<e>>) /\ Grows(t, t \o <<>>)
        OBVIOUS
      <4>1. /\ <<e>> \in Seq(EntryUpto(n)) /\ <<>> \in Seq(EntryUpto(n))
            /\ \A i \in DOMAIN <<e>> : <<e>>[i] # Mark
            /\ \A i \in DOMAIN <<>> : <<>>[i] # Mark
        BY PartsAreNoMarks
      <4> DEFINE b == <<e>>
                 z == <<>>
      <4>2. /\ b \in Seq(EntryUpto(n)) /\ z \in Seq(EntryUpto(n))
            /\ \A i \in DOMAIN b : b[i] # Mark
            /\ \A i \in DOMAIN z : z[i] # Mark
        BY <4>1, Zenon
      <4> HIDE DEF b, z
      <4>3. Grows(t, t \o b) /\ Grows(t, t \o z)
        BY <1>2, <4>2, JoinGrows
      <4> QED BY <4>3 DEF b, z
    <3> QED BY <2>1, <3>1
  <2>4. Grows(t, t \o (<<x>> \o <<c>>)) /\ Grows(t, t \o (<<>> \o <<c>>))
    <3>1. /\ <<x>> \o <<c>> \in Seq(EntryUpto(n)) /\ <<>> \o <<c>> \in Seq(EntryUpto(n))
          /\ \A i \in DOMAIN (<<x>> \o <<c>>) : (<<x>> \o <<c>>)[i] # Mark
          /\ \A i \in DOMAIN (<<>> \o <<c>>) : (<<>> \o <<c>>)[i] # Mark
      BY <2>1, <1>2, PartsAreNoMarks
    <3> DEFINE b == <<x>> \o <<c>>
               z == <<>> \o <<c>>
    <3>2. /\ b \in Seq(EntryUpto(n)) /\ z \in Seq(EntryUpto(n))
          /\ \A i \in DOMAIN b : b[i] # Mark
          /\ \A i \in DOMAIN z : z[i] # Mark
      BY <3>1, Zenon
    <3> HIDE DEF b, z
    <3>3. Grows(t, t \o b) /\ Grows(t, t \o z)
      BY <1>2, <3>2, JoinGrows
    <3> QED BY <3>3 DEF b, z
  <2>5. CASE text
    BY <2>2, <2>3, <2>4, <2>5 DEF u, c
  <2>6. CASE ~text
    BY <2>3, <2>4, <2>6 DEF u, c
  <2> QED BY <2>5, <2>6
<1>3. CASE Submit
  <2>1. turn = NoTurn /\ transcript' = transcript \o <<Shown("user", ids + 1, TRUE)>>
    BY <1>3 DEF Submit, Say
  <2>2. ids + 1 \in Id /\ ids + 1 \in Nat /\ ids <= ids + 1 /\ ids + 1 <= ids + 1
    <3>1. ids + Left <= Len(Archive) + 3 * turns /\ Left = 0
      BY <2>1 DEF TypeInv, TurnOK, Left, NoTurn
    <3>2. turns \in 0 .. MaxTurns /\ MaxTurns \in Nat /\ turns < MaxTurns /\ Len(Archive) \in Nat
      BY <1>3, SyncAssumption, ArchiveAssumption DEF TypeInv, CoreOK, Submit
    <3> QED BY <3>1, <3>2, <1>0 DEF Id
  <2>3. transcript \in Seq(EntryUpto(ids + 1)) /\ TRUE \in BOOLEAN
    BY <2>2, StillTyped
  <2>4. Grows(transcript, transcript \o <<Shown("user", ids + 1, TRUE)>>)
    BY <1>2, <2>2, <2>3
  <2> QED BY <2>1, <2>4
<1>4. CASE ToolStart
  <2>1. /\ turn.at = "called" /\ turn # NoTurn /\ turn.text \in BOOLEAN
        /\ transcript' = transcript \o ((IF turn.text THEN Text(turn.id) ELSE <<>>) \o <<Shown("call", turn.id, FALSE)>>)
    BY <1>0, <1>4 DEF ToolStart, Say, NoTurn, TurnRecord
  <2>2. turn.id \in Id /\ turn.id <= ids
    BY <2>1, TurnId
  <2>3. Grows(transcript, transcript \o ((IF turn.text THEN Text(turn.id) ELSE <<>>) \o <<Shown("call", turn.id, FALSE)>>))
    BY <1>0, <1>2, <2>1, <2>2
  <2> QED BY <2>1, <2>3
<1>5. CASE FoldToolOutcomes
  <2> DEFINE flushed == transcript \o (IF turn.text THEN Text(turn.id) ELSE <<>>)
  <2>1. turn # NoTurn /\ turn.text \in BOOLEAN /\ transcript' = Folded(flushed, messages[turn.run])
    BY <1>0, <1>5 DEF FoldToolOutcomes, NoTurn, TurnRecord
  <2>2. turn.id \in Id /\ turn.id <= ids
    BY <2>1, TurnId
  <2>3. Grows(transcript, flushed) /\ flushed \in Seq(EntryUpto(ids))
    BY <1>0, <1>2, <2>1, <2>2, TextType
  <2> HIDE DEF flushed
  <2>4. Grows(flushed, transcript')
    BY <2>1, <2>3, <1>0, FoldedGrows
  <2> QED BY <2>3, <2>4, GrowsOn
<1>6. CASE TurnFails
  <2>1. turn.at = "model"
    BY <1>6 DEF TurnFails
  <2>2. ids + 1 \in Id /\ ids + 1 \in Nat /\ ids <= ids + 1 /\ ids + 1 <= ids + 1
    <3>1. Left >= 1
      BY <2>1 DEF Left
    <3>2. ids + 1 \in Id /\ ids + 1 \in Nat
      BY <3>1, NextId
    <3> QED BY <3>2, <1>0
  <2>3. PICK partial \in BOOLEAN : transcript' = transcript \o (IF partial THEN Text(ids + 1) ELSE <<>>)
    BY <1>6 DEF TurnFails, Say
  <2>4. transcript \in Seq(EntryUpto(ids + 1))
    BY <2>2, StillTyped
  <2>5. Grows(transcript, transcript \o (IF partial THEN Text(ids + 1) ELSE <<>>))
    BY <1>2, <2>2, <2>4
  <2> QED BY <2>3, <2>5
<1>7. CASE OpenRun \/ WriteUser \/ ToolEnd \/ ModelAnswers \/ TurnCancelled \/ FinalizeTurn
           \/ \E c \in Calls : ModelCalls(c.tool, c.text)
  <2>1. transcript' = transcript
    BY <1>7 DEF OpenRun, WriteUser, ToolEnd, ModelAnswers, TurnCancelled, FinalizeTurn, ModelCalls, core
  <2> QED BY <2>1, <1>1
<1> QED BY <1>3, <1>4, <1>5, <1>6, <1>7 DEF TurnStep

(* What a handler or a restart reads back begins with the rows it read.    *)
LEMMA RebuiltFollows ==
  ASSUME NEW n \in Nat, NEW table, TableOK(table, n), Reaches(0, table), NEW ms \in Seq(MessageUpto(n)),
         NEW popped
  PROVE  Follows(table, WithDropMark(Rebuilt(table, ms, TRUE), popped))
<1> DEFINE read == Rebuilt(table, ms, TRUE)
           shown == WithDropMark(read, popped)
           list == Listed(table)
<1>1. PICK k \in Nat : DOMAIN table = 0 .. k - 1
  BY DEF Reaches
<1>2. DOMAIN list = 1 .. k /\ \A i \in 1 .. k : list[i] = table[i - 1]
  BY <1>1, ListedInOrder
<1>3. read \in Seq(EntryUpto(n)) /\ (DOMAIN table # {} => Starts(list, read))
  BY RebuiltType
<1> HIDE DEF read, list
<1>4. Starts(read, shown)
  BY <1>3, DropMarkType
<1> HIDE DEF shown
<1>5. ASSUME NEW i \in DOMAIN table PROVE i + 1 \in DOMAIN shown /\ SameEntry(table[i], shown[i + 1])
  <2>1. i + 1 \in 1 .. k /\ (i + 1) - 1 = i
    BY <1>1
  <2>2. i + 1 \in DOMAIN list /\ list[i + 1] = table[i]
    BY <2>1, <1>2
  <2>3. i + 1 \in DOMAIN shown /\ shown[i + 1] = table[i]
    BY <2>2, <1>3, <1>4 DEF Starts
  <2> QED BY <2>3 DEF SameEntry
<1>6. Follows(table, shown)
  BY <1>5 DEF Follows
<1> QED BY <1>6 DEF shown, read

(* A row is added that the transcript has at its place, or a Mark it lacks. *)
LEMMA FilledFollows ==
  ASSUME NEW table, NEW more, NEW seq, NEW e, NEW t, Filled(table, more, seq, e), Follows(table, t),
         seq \notin DOMAIN table => LacksMark(more, seq, t) \/ (seq + 1 \in DOMAIN t /\ SameEntry(e, t[seq + 1]))
  PROVE  Follows(more, t)
<1> SUFFICES ASSUME NEW i \in DOMAIN more
             PROVE  LacksMark(more, i, t) \/ (i + 1 \in DOMAIN t /\ SameEntry(more[i], t[i + 1]))
  BY DEF Follows
<1>1. CASE i \in DOMAIN table
  <2>1. more[i] = table[i]
    BY <1>1 DEF Filled
  <2>2. LacksMark(table, i, t) => LacksMark(more, i, t)
    BY DEF LacksMark, Filled
  <2> QED BY <1>1, <2>1, <2>2 DEF Follows
<1>2. CASE i \notin DOMAIN table
  <2>1. i = seq /\ more[i] = e
    BY <1>2 DEF Filled
  <2> QED BY <1>2, <2>1
<1> QED BY <1>1, <1>2

(* Nothing the invariant speaks of has changed, but for a pass or a handler *)
(* that ended.                                                             *)
LEMMA FollowFrame ==
  ASSUME FollowInv, UNCHANGED <<transcript, run, rows>>, broken => broken',
         writer'.by # "none" => writer.by # "none" /\ writer'.run = writer.run /\ writer'.entries = writer.entries,
         switch'.at = "built" => switch.at = "built" /\ switch'.target = switch.target /\ switch'.built = switch.built
  PROVE  FollowInv'
BY DEF FollowInv

LEMMA InitFollows == Init => FollowInv
BY DEF Init, FollowInv, NoWriter, NoSwitch

LEMMA TurnFollows ==
  ASSUME TypeInv, TypeInv', PlaceInv, FollowInv, Submit \/ TurnStep
  PROVE  FollowInv'
<1>1. /\ UNCHANGED <<rows, cursors, writer, switch, broken>>
      /\ \/ run' = run /\ runs' = runs
         \/ turn.at = "open" /\ run' = runs' /\ runs' = runs + 1
  BY TurnKeeps
<1>2. Grows(transcript, transcript')
  BY TurnGrows
<1>3. /\ transcript \in Seq(EntryUpto(ids)) /\ transcript' \in Seq(EntryUpto(ids')) /\ ids \in Nat /\ ids' \in Nat
      /\ run' \in Run \cup {NoRun} /\ \A r \in Run : DOMAIN rows[r] \subseteq Nat
  BY DEF TypeInv, CoreOK, StoreOK, TableOK
<1>4. switch'.at = "built" /\ ~broken' => Follows(rows'[switch'.target], switch'.built)
  BY <1>1 DEF FollowInv
<1>5. CASE run' = run /\ runs' = runs
  <2>1. writer'.by # "none" /\ run' = writer'.run => Like(writer'.entries, transcript')
    BY <1>1, <1>2, <1>5, LikeGrows DEF FollowInv
  <2>2. ASSUME run' # NoRun, ~broken' PROVE Follows(rows'[run'], transcript')
    <3> DEFINE table == rows[run]
    <3>1. Follows(table, transcript) /\ DOMAIN table \subseteq Nat
      BY <2>2, <1>1, <1>3, <1>5 DEF FollowInv
    <3> HIDE DEF table
    <3>2. Follows(table, transcript')
      BY <3>1, <1>2, <1>3, FollowsGrow
    <3> QED BY <3>2, <1>1, <1>5 DEF table
  <2> QED BY <1>4, <2>1, <2>2 DEF FollowInv
<1>6. CASE turn.at = "open" /\ run' = runs' /\ runs' = runs + 1
  <2>1. runs \in Nat /\ run' > runs
    BY <1>6 DEF TypeInv, StoreOK
  <2>2. writer.by # "none" => writer.run # run'
    <3>1. writer.by # "none" => writer.run <= runs /\ writer.run \in Nat
      BY PassOn, SyncAssumption DEF PlaceInv, UsedOK, Run
    <3> QED BY <3>1, <2>1, <1>6
  <2>3. DOMAIN rows[run'] = {}
    <3>1. run' \in Run
      BY <1>3, <2>1 DEF NoRun
    <3> QED BY <3>1, <2>1 DEF PlaceInv, UsedOK
  <2>4. Follows(rows'[run'], transcript')
    BY <1>1, <2>3 DEF Follows
  <2> QED BY <1>1, <1>4, <2>2, <2>4 DEF FollowInv
<1> QED BY <1>1, <1>5, <1>6

LEMMA InsertFollows ==
  ASSUME TypeInv, PlaceInv, FollowInv, writer.by # "none", NEW e \in EntryUpto(ids), UNCHANGED <<transcript, run>>,
         broken => broken',
         rows' = [rows EXCEPT ![writer.run] = InsertOrIgnore(rows[writer.run], writer.seq, e)],
         e = Mark \/ (writer.seq + 1 \in DOMAIN writer.entries /\ e = writer.entries[writer.seq + 1]),
         writer'.by # "none" => writer'.run = writer.run /\ writer'.entries = writer.entries,
         switch'.at = "built" => switch.at = "built" /\ switch'.target = switch.target /\ switch'.built = switch.built
  PROVE  FollowInv'
<1> DEFINE had == rows[writer.run]
           more == InsertOrIgnore(had, writer.seq, e)
<1>1. /\ writer.run \in Run /\ writer.seq \in Nat /\ ids \in Nat /\ DOMAIN rows = Run /\ TableOK(had, ids)
      /\ transcript \in Seq(EntryUpto(ids))
  BY PassOn DEF TypeInv, StoreOK, CoreOK
<1>2. Filled(had, more, writer.seq, e)
  BY <1>1, InsertType
<1>3. rows'[writer.run] = more /\ \A r \in Run : r # writer.run => rows'[r] = rows[r]
  BY <1>1
<1> HIDE DEF had, more
<1>4. ASSUME run = writer.run, ~broken PROVE Follows(more, transcript)
  <2>1. Follows(had, transcript) /\ Like(writer.entries, transcript)
    <3>1. run # NoRun
      BY <1>1, <1>4, SyncAssumption DEF Run, NoRun
    <3> QED BY <3>1, <1>4 DEF FollowInv, had
  <2>2. ASSUME writer.seq \notin DOMAIN had
        PROVE  \/ LacksMark(more, writer.seq, transcript)
               \/ writer.seq + 1 \in DOMAIN transcript /\ SameEntry(e, transcript[writer.seq + 1])
    <3>1. CASE writer.seq + 1 \in DOMAIN writer.entries /\ e = writer.entries[writer.seq + 1]
      BY <3>1, <2>1 DEF Like
    <3>2. CASE e = Mark
      <4>1. writer.seq \in DOMAIN more /\ more[writer.seq] = Mark /\ writer.seq <= writer.seq
        BY <1>1, <1>2, <2>2, <3>2 DEF Filled
      <4>2. writer.seq < Len(transcript) <=> writer.seq + 1 \in DOMAIN transcript
        BY <1>1, Places
      <4>3. CASE writer.seq + 1 \in DOMAIN transcript /\ transcript[writer.seq + 1] = Mark
        BY <4>3, <3>2 DEF SameEntry
      <4>4. CASE ~(writer.seq + 1 \in DOMAIN transcript /\ transcript[writer.seq + 1] = Mark)
        BY <4>1, <4>2, <4>4 DEF LacksMark
      <4> QED BY <4>3, <4>4
    <3> QED BY <3>1, <3>2
  <2> QED BY <2>1, <2>2, <1>2, FilledFollows
<1>5. run # NoRun /\ ~broken' => Follows(rows'[run], transcript)
  <2>1. CASE run = writer.run
    BY <2>1, <1>3, <1>4
  <2>2. CASE run # writer.run
    BY <2>2, <1>3 DEF FollowInv, TypeInv, CoreOK
  <2> QED BY <2>1, <2>2
<1>6. switch'.at = "built" /\ ~broken' => Follows(rows'[switch'.target], switch'.built)
  <2> SUFFICES ASSUME switch'.at = "built", ~broken' PROVE Follows(rows'[switch'.target], switch'.built)
    OBVIOUS
  <2>1. switch.op = "open" /\ switch.target \in Run
    BY DEF TypeInv, SwitchOK
  <2>2. writer.run # switch.target
    BY <2>1 DEF PlaceInv, AwayOK, Opening
  <2> QED BY <2>1, <2>2, <1>3 DEF FollowInv
<1>7. writer'.by # "none" /\ run' = writer'.run => Like(writer'.entries, transcript')
  BY DEF FollowInv
<1> QED BY <1>5, <1>6, <1>7 DEF FollowInv

LEMMA PassFollows ==
  ASSUME TypeInv, PlaceInv, FollowInv, PassStep
  PROVE  FollowInv'
<1>1. CASE Bootstrap
  <2>1. writer.by # "none" /\ UNCHANGED <<transcript, run, rows, switch, broken>>
    BY <1>1 DEF Bootstrap, core, store
  <2>2. PICK n, u : writer' = [writer EXCEPT !.stage = "write", !.from = n, !.seq = n, !.until = u]
    BY <1>1, ZenonT(60) DEF Bootstrap
  <2>3. writer \in PassRecord(ids)
    BY <2>1, PassOn
  <2>4. writer'.run = writer.run /\ writer'.entries = writer.entries
    BY <2>2, <2>3 DEF PassRecord
  <2> QED BY <2>1, <2>4, FollowFrame
<1>2. CASE InsertEntry
  <2> DEFINE e == writer.entries[writer.seq + 1]
             x == writer.unfolded \/ (e.kind = "call" /\ ~e.out)
             next == writer.seq + 1
  <2>1. writer.by # "none" /\ writer.seq < writer.until /\ UNCHANGED <<transcript, run, switch>>
    BY <1>2 DEF InsertEntry, core
  <2>2. writer.seq + 1 \in DOMAIN writer.entries /\ e \in EntryUpto(ids) /\ writer \in PassRecord(ids)
    <3>1. writer.seq + 1 \in DOMAIN writer.entries /\ writer.entries \in Seq(EntryUpto(ids)) /\ writer \in PassRecord(ids)
      BY <2>1, PassOn
    <3> QED BY <3>1
  <2>3. broken => broken'
    BY <1>2 DEF InsertEntry
  <2>4. \/ /\ rows' = [rows EXCEPT ![writer.run] = InsertOrIgnore(rows[writer.run], writer.seq, e)]
           /\ writer' = [writer EXCEPT !.seq = next, !.unfolded = x]
        \/ rows' = rows /\ writer' = [writer EXCEPT !.until = writer.seq]
    BY <1>2 DEF InsertEntry
  <2>5. e = writer.entries[writer.seq + 1]
    OBVIOUS
  <2> HIDE DEF e, x, next
  <2>6. writer'.run = writer.run /\ writer'.entries = writer.entries
    BY <2>2, <2>4 DEF PassRecord
  <2>7. CASE rows' = [rows EXCEPT ![writer.run] = InsertOrIgnore(rows[writer.run], writer.seq, e)]
    BY <2>1, <2>2, <2>3, <2>5, <2>6, <2>7, InsertFollows
  <2>8. CASE rows' = rows
    BY <2>1, <2>3, <2>6, <2>8, FollowFrame
  <2> QED BY <2>4, <2>7, <2>8
<1>3. CASE EndPass
  <2>1. writer.by # "none" /\ UNCHANGED <<transcript, run, rows, broken>>
    BY <1>3 DEF EndPass, core, store, counters
  <2>2. (writer' = [writer EXCEPT !.stage = "mark"] /\ switch' = switch) \/ \E c : Release(c)
    BY <1>3 DEF EndPass
  <2>3. CASE writer' = [writer EXCEPT !.stage = "mark"] /\ switch' = switch
    <3>1. writer \in PassRecord(ids)
      BY <2>1, PassOn
    <3>2. writer'.run = writer.run /\ writer'.entries = writer.entries
      BY <2>3, <3>1 DEF PassRecord
    <3> QED BY <2>1, <2>3, <3>2, FollowFrame
  <2>4. CASE \E c : Release(c)
    <3>1. PICK c : Release(c)
      BY <2>4
    <3>2. /\ writer'.by = "none" /\ switch'.target = switch.target /\ switch'.built = switch.built
          /\ switch'.at = switch.at \/ switch'.at = "flushed"
      BY <3>1, <2>1, ReleaseMoves
    <3> QED BY <2>1, <3>2, FollowFrame
  <2> QED BY <2>2, <2>3, <2>4
<1>4. CASE InsertMark
  <2>1. writer.by # "none" /\ UNCHANGED <<transcript, run, broken>>
    BY <1>4 DEF InsertMark, core
  <2>2. /\ \E c : Release(c)
        /\ \/ rows' = [rows EXCEPT ![writer.run] = InsertOrIgnore(rows[writer.run], writer.seq, Mark)]
           \/ rows' = rows
    BY <1>4 DEF InsertMark
  <2>3. PICK c : Release(c)
    BY <2>2
  <2>4. /\ writer'.by = "none" /\ switch'.target = switch.target /\ switch'.built = switch.built
        /\ switch'.at = switch.at \/ switch'.at = "flushed"
    BY <2>1, <2>3, ReleaseMoves
  <2>5. Mark \in EntryUpto(ids)
    BY MarksType DEF TypeInv, CoreOK
  <2>6. CASE rows' = [rows EXCEPT ![writer.run] = InsertOrIgnore(rows[writer.run], writer.seq, Mark)]
    BY <2>1, <2>4, <2>5, <2>6, InsertFollows
  <2>7. CASE rows' = rows
    BY <2>1, <2>4, <2>7, FollowFrame
  <2> QED BY <2>2, <2>6, <2>7
<1> QED BY <1>1, <1>2, <1>3, <1>4 DEF PassStep

LEMMA StartFollows ==
  ASSUME TypeInv, FollowInv, LoopPass \/ FlushPass
  PROVE  FollowInv'
<1>1. UNCHANGED <<transcript, run, rows, broken>> /\ switch \in SwitchRecord(ids)
  BY DEF LoopPass, FlushPass, core, store, counters, TypeInv, SwitchOK
<1>2. writer' = writer \/ \E by \in {"loop", "flush"} : writer' = Pass(by)
  BY DEF LoopPass, FlushPass
<1>3. writer'.by # "none" /\ run' = writer'.run => Like(writer'.entries, transcript')
  <2>1. CASE writer' = writer
    BY <2>1, <1>1 DEF FollowInv
  <2>2. ASSUME NEW by, writer' = Pass(by) PROVE Like(writer'.entries, transcript')
    BY <2>2, <1>1 DEF Pass, Like, SameEntry
  <2> QED BY <1>2, <2>1, <2>2
<1>4. switch'.at = "built" => switch.at = "built" /\ switch'.target = switch.target /\ switch'.built = switch.built
  BY <1>1 DEF LoopPass, FlushPass, SwitchRecord
<1> QED BY <1>1, <1>3, <1>4 DEF FollowInv

LEMMA SwitchFollows ==
  ASSUME TypeInv, PlaceInv, FollowInv, SwitchStep
  PROVE  FollowInv'
<1>0. /\ switch \in SwitchRecord(ids) /\ DOMAIN rows = Run /\ (switch.op = "open" => switch.target \in Run)
      /\ NoRun \notin Run /\ (writer.by # "none" => writer.run \in Run) /\ ids \in Nat /\ run \in Run \cup {NoRun}
  <2>1. NoRun \notin Run
    BY SyncAssumption DEF Run, NoRun
  <2>2. writer.by # "none" => writer.run \in Run
    BY PassOn
  <2> QED BY <2>1, <2>2 DEF TypeInv, SwitchOK, StoreOK, CoreOK
<1>1. ASSUME UNCHANGED <<rows, writer>>, broken' = broken, switch'.at # "built",
             run' = NoRun \/ UNCHANGED <<run, transcript>>
      PROVE  FollowInv'
  BY <1>0, <1>1 DEF FollowInv
<1>2. CASE ResetSession
  <2>1. UNCHANGED <<rows, writer, broken>> /\ switch' = NoSwitch /\ (run' = NoRun \/ UNCHANGED <<run, transcript>>)
    BY <1>2 DEF ResetSession, store, sync, counters
  <2> QED BY <2>1, <1>1 DEF NoSwitch
<1>3. CASE OpenFails
  <2>1. UNCHANGED <<rows, writer, broken>> /\ switch' = NoSwitch /\ UNCHANGED <<run, transcript>>
    BY <1>3 DEF OpenFails, core, store, sync
  <2> QED BY <2>1, <1>1 DEF NoSwitch
<1>4. CASE LoadRun
  <2>1. /\ UNCHANGED <<writer, broken, run, transcript>> /\ switch.op = "open"
        /\ \E at \in {"popped", "loaded"} : \E popped, ms : switch' = [switch EXCEPT !.at = at, !.popped = popped, !.loaded = ms]
        /\ rows' = rows \/ rows' = [rows EXCEPT ![switch.target] = <<>>]
    <3>1. UNCHANGED <<writer, broken, run, transcript>> /\ switch.op = "open"
      BY <1>4 DEF LoadRun, core, sync, counters
    <3>2. rows' = rows \/ rows' = [rows EXCEPT ![switch.target] = <<>>]
      BY <1>4 DEF LoadRun, store
    <3>3. \/ \E ms : switch' = [switch EXCEPT !.at = "popped", !.popped = TRUE, !.loaded = ms]
          \/ \E ms : switch' = [switch EXCEPT !.at = "loaded", !.loaded = ms]
      BY <1>4 DEF LoadRun
    <3>4. ASSUME NEW ms, switch' = [switch EXCEPT !.at = "loaded", !.loaded = ms]
          PROVE  switch' = [switch EXCEPT !.at = "loaded", !.popped = switch.popped, !.loaded = ms]
      BY <3>4, <1>0 DEF SwitchRecord
    <3> QED BY <3>1, <3>2, <3>3, <3>4
  <2>2. switch'.at # "built"
    BY <2>1, <1>0 DEF SwitchRecord
  <2>3. run # switch.target /\ (run \in Run => rows'[run] = rows[run])
    BY <2>1, <1>0 DEF PlaceInv, AwayOK
  <2> QED BY <2>1, <2>2, <2>3, <1>0 DEF FollowInv
<1>5. CASE Invalidate
  <2>1. UNCHANGED <<rows, writer, broken, run, transcript>> /\ switch' = [switch EXCEPT !.at = "loaded"]
    BY <1>5 DEF Invalidate, core, store, counters
  <2>2. switch'.at # "built"
    BY <2>1, <1>0 DEF SwitchRecord
  <2> QED BY <2>1, <2>2, <1>1
<1>6. CASE ReleaseOld
  <2>1. UNCHANGED <<rows, writer, broken, transcript>> /\ switch' = [switch EXCEPT !.at = "released"] /\ (run' = run \/ run' = NoRun)
    BY <1>6 DEF ReleaseOld, store, sync, counters
  <2>2. switch'.at # "built"
    BY <2>1, <1>0 DEF SwitchRecord
  <2> QED BY <2>1, <2>2, <1>1
<1>7. CASE RebuildTranscript
  <2>1. PICK readable \in BOOLEAN :
          /\ broken' = (broken \/ ~readable)
          /\ switch' = [switch EXCEPT !.at = "built", !.built =
               WithDropMark(Rebuilt(rows[switch.target], switch.loaded, readable), switch.popped)]
    BY <1>7 DEF RebuildTranscript
  <2>2. UNCHANGED <<transcript, run, rows, writer>> /\ switch.at = "released"
    BY <1>7 DEF RebuildTranscript, core, store, sync
  <2>3. switch.target \in Run /\ switch.loaded \in Seq(MessageUpto(ids)) /\ TableOK(rows[switch.target], ids)
        /\ Reaches(0, rows[switch.target])
    BY <2>2 DEF TypeInv, SwitchOK, SwitchRecord, StoreOK, PlaceInv
  <2> DEFINE built == WithDropMark(Rebuilt(rows[switch.target], switch.loaded, readable), switch.popped)
  <2>4. readable => Follows(rows[switch.target], built)
    <3>1. Follows(rows[switch.target], WithDropMark(Rebuilt(rows[switch.target], switch.loaded, TRUE), switch.popped))
      BY <2>3, <1>0, RebuiltFollows
    <3>2. readable => readable = TRUE
      OBVIOUS
    <3> QED BY <3>1, <3>2
  <2>5. switch' = [switch EXCEPT !.at = "built", !.built = built]
    BY <2>1
  <2> HIDE DEF built
  <2>6. switch'.target = switch.target /\ switch'.built = built
    BY <2>5, <1>0 DEF SwitchRecord
  <2>7. ~broken' => readable /\ ~broken
    BY <2>1
  <2>8. ~broken' => Follows(rows'[switch'.target], switch'.built)
    BY <2>2, <2>4, <2>6, <2>7
  <2> QED BY <2>2, <2>7, <2>8 DEF FollowInv
<1>8. CASE Install
  <2>1. /\ switch.at = "built" /\ UNCHANGED <<rows, writer, broken>> /\ switch' = NoSwitch
        /\ transcript' = switch.built /\ run' = switch.target
    BY <1>8 DEF Install, store, sync, counters
  <2>2. switch.op = "open"
    BY <2>1 DEF TypeInv, SwitchOK
  <2>3. writer.by # "none" => writer.run # run'
    BY <2>1, <2>2 DEF PlaceInv, AwayOK, Opening
  <2> QED BY <2>1, <2>3 DEF FollowInv, NoSwitch
<1> QED BY <1>2, <1>3, <1>4, <1>5, <1>6, <1>7, <1>8 DEF SwitchStep

LEMMA RestartFollows ==
  ASSUME TypeInv, PlaceInv, NEW pop \in BOOLEAN, Restart(pop)
  PROVE  FollowInv'
<1>1. writer' = NoWriter /\ switch' = NoSwitch
  BY DEF Restart
<1>2. ASSUME run' # NoRun PROVE Follows(rows'[run'], transcript')
  <2> DEFINE stored == messages[runs]
             drop == EndsOpen(stored) /\ (pop \/ Last(stored).call # "quest")
             ms == IF drop THEN Front(stored) ELSE stored
             left == IF drop THEN <<>> ELSE rows[runs]
  <2>1. ~(runs = 0 \/ messages[runs] = <<>>)
    BY <1>2 DEF Restart
  <2>2. /\ rows' = [rows EXCEPT ![runs] = left] /\ transcript' = WithDropMark(Rebuilt(left, ms, TRUE), drop) /\ run' = runs
    BY <2>1 DEF Restart
  <2>3. runs \in Run /\ stored \in Seq(MessageUpto(ids)) /\ stored # <<>> /\ ids \in Nat /\ DOMAIN rows = Run
    <3>1. runs \in 0 .. MaxRuns /\ MaxRuns \in Nat
      BY SyncAssumption DEF TypeInv, StoreOK
    <3>2. runs \in Run
      BY <3>1, <2>1 DEF Run
    <3> QED BY <3>2, <2>1 DEF TypeInv, StoreOK, CoreOK
  <2>4. ms \in Seq(MessageUpto(ids))
    <3>1. Front(stored) \in Seq(MessageUpto(ids))
      BY <2>3, FrontType
    <3> QED BY <3>1, <2>3
  <2>5. TableOK(left, ids) /\ Reaches(0, left)
    <3>1. TableOK(<<>>, ids) /\ TableOK(rows[runs], ids) /\ Reaches(0, rows[runs])
      BY <2>3, EmptyTable DEF TypeInv, StoreOK, PlaceInv
    <3>2. Reaches(0, <<>>)
      <4>1. 0 \in Nat /\ 0 <= 0 /\ DOMAIN <<>> = 0 .. 0 - 1
        OBVIOUS
      <4> QED BY <4>1 DEF Reaches
    <3> QED BY <3>1, <3>2
  <2> HIDE DEF stored, drop, ms, left
  <2>6. Follows(left, WithDropMark(Rebuilt(left, ms, TRUE), drop))
    BY <2>3, <2>4, <2>5, RebuiltFollows
  <2>7. rows'[runs] = left
    BY <2>2, <2>3
  <2> QED BY <2>2, <2>6, <2>7
<1> QED BY <1>1, <1>2 DEF FollowInv, NoWriter, NoSwitch

LEMMA NextFollows ==
  ASSUME TypeInv, PlaceInv, FollowInv, [Next]_vars
  PROVE  FollowInv'
<1>1. CASE Submit \/ TurnStep
  <2>1. TypeInv'
    BY NextTyped
  <2> QED BY <2>1, <1>1, TurnFollows
<1>2. CASE LoopPass \/ FlushPass
  BY <1>2, StartFollows
<1>3. CASE PassStep
  BY <1>3, PassFollows
<1>4. CASE NewSession \/ Shutdown \/ \E r \in Run : OpenSession(r)
  <2>1. UNCHANGED <<transcript, run, rows, writer, broken>> /\ switch'.at = "flush"
    BY <1>4 DEF NewSession, Shutdown, OpenSession, Begin, core, store, sync, NoSwitch
  <2> QED BY <2>1, FollowFrame
<1>5. CASE SwitchStep
  BY <1>5, SwitchFollows
<1>6. CASE \E pop \in BOOLEAN : Restart(pop)
  BY <1>6, RestartFollows
<1>7. CASE UNCHANGED vars
  <2>1. UNCHANGED <<transcript, run, rows, writer, broken, switch>>
    BY <1>7 DEF vars, core, store, sync, counters
  <2> QED BY <2>1, FollowFrame
<1> QED BY <1>1, <1>2, <1>3, <1>4, <1>5, <1>6, <1>7 DEF Next

(* The rows of the current run are the first entries of the transcript, as *)
(* many as the cursor says, up to a Mark that the transcript lacks         *)
(* (SyncState, sync_loop and rebuild_transcript, transcripts.rs), where    *)
(* open_session is given another run than the current one (runtime.rs).    *)
THEOREM RowsFollow == ASSUME ~Reopening PROVE Spec => []RowsFollowMemory
<1>1. Init => TypeInv /\ PlaceInv /\ FollowInv
  BY InitTyped, InitPlaced, InitFollows
<1>2. TypeInv /\ PlaceInv /\ FollowInv /\ [Next]_vars => (TypeInv /\ PlaceInv /\ FollowInv)'
  BY NextTyped, NextPlaced, NextFollows
<1>3. TypeInv /\ PlaceInv /\ FollowInv => RowsFollowMemory
  <2> SUFFICES ASSUME TypeInv, PlaceInv, FollowInv, run # NoRun, switch.op # "open", ~broken,
                      NEW i \in DOMAIN rows[run] \cup
                        0 .. (IF run \in DOMAIN cursors /\ writer = NoWriter THEN cursors[run] ELSE 0) - 1
               PROVE  \/ LacksMark(rows[run], i, transcript)
                      \/ /\ i \in DOMAIN rows[run] /\ i < Len(transcript)
                         /\ SameEntry(rows[run][i], transcript[i + 1])
    BY DEF RowsFollowMemory
  <2>1. /\ run \in Run /\ transcript \in Seq(EntryUpto(ids)) /\ ids \in Nat /\ DOMAIN rows[run] \subseteq Nat
        /\ (run \in DOMAIN cursors => cursors[run] \in Nat)
    BY DEF TypeInv, CoreOK, StoreOK, TableOK, CursorsTyped
  <2>2. i \in DOMAIN rows[run]
    <3>1. CASE run \in DOMAIN cursors /\ writer = NoWriter
      <4>1. switch.at # "popped"
        BY DEF TypeInv, SwitchOK
      <4>2. PICK k \in Nat : cursors[run] <= k /\ DOMAIN rows[run] = 0 .. k - 1
        BY <3>1, <4>1 DEF PlaceInv, CursorsReach, Reaches
      <4> QED BY <3>1, <4>2, <2>1
    <3>2. CASE ~(run \in DOMAIN cursors /\ writer = NoWriter)
      BY <3>2
    <3> QED BY <3>1, <3>2
  <2>3. i < Len(transcript) <=> i + 1 \in DOMAIN transcript
    BY <2>1, <2>2, Places
  <2>4. Follows(rows[run], transcript)
    BY DEF FollowInv
  <2> QED BY <2>2, <2>3, <2>4 DEF Follows
<1> QED BY <1>1, <1>2, <1>3, PTL DEF Spec

-----------------------------------------------------------------------------
(* Transcript and messages, aligned.  Durable entries have places, counted *)
(* without the others; Healed compares the entry at a place with the entry *)
(* the messages project there.  An entry that is shown at an earlier place *)
(* than it is projected to would be shown again behind the mend: somewhere *)
(* before it, then, the two do not pair, and there is no mend.             *)
Place(t, i) == Cardinality({k \in 1 .. i : Durable(t[k])})
Torn(t, i, p) ==
  \E k \in 1 .. i : Durable(t[k]) /\ Place(t, k) <= Len(p) /\ ~Pairs(t[k], p[Place(t, k)])
Aligned(t, p) ==
  \A i \in DOMAIN t : \A j \in DOMAIN p : SameEntry(t[i], p[j]) /\ Place(t, i) < j => Torn(t, i, p)
Level(t, p) == Place(t, Len(t)) >= Len(p) \/ Torn(t, Len(t), p)
Once(t) == \A i, j \in DOMAIN t : i # j /\ Durable(t[i]) => ~SameEntry(t[i], t[j])
Clean(t, p) == Once(t) /\ Aligned(t, p)
Fits(t, p) == Clean(t, p) /\ Level(t, p)

\* The entries that messages project to, whichever calls are answered.
Sketch(m) == Projected(m, <<>>)
Outline(ms) == FlattenSeq([i \in 1 .. Len(ms) |-> Sketch(ms[i])])
AllDurable(p) == \A i \in DOMAIN p : Durable(p[i])
\* No entry of t is one of p.
Apart(t, p) == \A i \in DOMAIN t : \A j \in DOMAIN p : ~SameEntry(t[i], p[j])

(* Places grow with the entries, by one at each that is durable.           *)
LEMMA PlaceType ==
  ASSUME NEW t, NEW i \in Nat
  PROVE  /\ Place(t, i) \in Nat /\ Place(t, i) <= i
         /\ Place(t, 0) = 0
         /\ IsFiniteSet({k \in 1 .. i : Durable(t[k])})
<1> DEFINE T(n) == {k \in 1 .. n : Durable(t[k])}
<1>1. IsFiniteSet(1 .. i) /\ Cardinality(1 .. i) = i
  BY FS_Interval
<1>2. T(i) \subseteq 1 .. i
  OBVIOUS
<1>3. IsFiniteSet(T(i)) /\ Cardinality(T(i)) <= i
  <2> HIDE DEF T
  <2> QED BY <1>1, <1>2, FS_Subset
<1>4. Cardinality(T(i)) \in Nat
  <2> HIDE DEF T
  <2> QED BY <1>3, FS_CardinalityType
<1>5. T(0) = {}
  OBVIOUS
<1>6. Cardinality(T(0)) = 0
  BY <1>5, FS_EmptySet
<1> QED BY <1>3, <1>4, <1>6 DEF Place

LEMMA PlaceNext ==
  ASSUME NEW t, NEW i \in Nat
  PROVE  Place(t, i + 1) = IF Durable(t[i + 1]) THEN Place(t, i) + 1 ELSE Place(t, i)
<1> DEFINE T(n) == {k \in 1 .. n : Durable(t[k])}
<1>1. IsFiniteSet(T(i)) /\ i + 1 \notin T(i)
  BY PlaceType
<1>2. T(i + 1) = IF Durable(t[i + 1]) THEN T(i) \cup {i + 1} ELSE T(i)
  OBVIOUS
<1>3. Cardinality(T(i) \cup {i + 1}) = Cardinality(T(i)) + 1
  <2> HIDE DEF T
  <2> QED BY <1>1, FS_AddElement
<1>4. Place(t, i) = Cardinality(T(i)) /\ Place(t, i + 1) = Cardinality(T(i + 1))
  BY DEF Place
<1> HIDE DEF T
<1> QED BY <1>2, <1>3, <1>4

LEMMA PlaceGrows ==
  ASSUME NEW t, NEW i \in Nat, NEW k \in Nat, i <= k
  PROVE  /\ Place(t, i) <= Place(t, k)
         /\ i < k /\ Durable(t[k]) => Place(t, i) < Place(t, k)
<1> DEFINE Bad == {n \in Nat : i <= n /\ ~(/\ Place(t, i) <= Place(t, n)
                                           /\ i < n /\ Durable(t[n]) => Place(t, i) < Place(t, n))}
<1>1. ASSUME NEW n \in Bad, \A m \in Bad : n <= m PROVE FALSE
  <2>1. n \in Nat /\ i <= n
    OBVIOUS
  <2>2. n # i
    <3>1. Place(t, i) \in Nat
      BY PlaceType
    <3> QED BY <3>1, <1>1
  <2>3. n - 1 \in Nat /\ i <= n - 1 /\ n - 1 < n /\ n - 1 + 1 = n
    BY <2>1, <2>2
  <2>4. n - 1 \notin Bad
    <3> HIDE DEF Bad
    <3> QED BY <2>3, <1>1, <2>1
  <2>5. Place(t, i) <= Place(t, n - 1)
    BY <2>3, <2>4
  <2>6. Place(t, n) = IF Durable(t[n]) THEN Place(t, n - 1) + 1 ELSE Place(t, n - 1)
    <3>1. Place(t, n - 1 + 1) = IF Durable(t[n - 1 + 1]) THEN Place(t, n - 1) + 1 ELSE Place(t, n - 1)
      BY <2>3, PlaceNext
    <3> QED BY <3>1, <2>3
  <2>7. Place(t, i) \in Nat /\ Place(t, n - 1) \in Nat
    BY <2>3, PlaceType
  <2> QED BY <2>5, <2>6, <2>7
<1>2. Bad = {}
  <2>1. Bad \subseteq Nat
    OBVIOUS
  <2> HIDE DEF Bad
  <2> QED BY <2>1, <1>1, Least
<1> QED BY <1>2

LEMMA PlaceAlike ==
  ASSUME NEW s, NEW t, NEW i \in Nat, \A k \in 1 .. i : SameEntry(s[k], t[k])
  PROVE  \A k \in 0 .. i : Place(s, k) = Place(t, k)
<1> SUFFICES ASSUME NEW k \in 0 .. i PROVE Place(s, k) = Place(t, k)
  OBVIOUS
<1>1. \A x \in 1 .. k : Durable(s[x]) <=> Durable(t[x])
  BY DEF SameEntry, Durable
<1>2. {x \in 1 .. k : Durable(s[x])} = {x \in 1 .. k : Durable(t[x])}
  BY <1>1
<1> QED BY <1>2 DEF Place

\* In a sequence of durable entries each is at its own place.
LEMMA PlaceDurable ==
  ASSUME NEW t, NEW i \in Nat, \A k \in 1 .. i : Durable(t[k])
  PROVE  Place(t, i) = i
<1>1. {k \in 1 .. i : Durable(t[k])} = 1 .. i
  OBVIOUS
<1>2. Cardinality(1 .. i) = i
  BY FS_Interval
<1> QED BY <1>1, <1>2 DEF Place

(* A place before the end of s is the same in what s begins.               *)
LEMMA LikePlaces ==
  ASSUME NEW S, NEW s \in Seq(S), NEW t \in Seq(S), Like(s, t)
  PROVE  /\ Len(s) \in Nat /\ Len(t) \in Nat /\ Len(s) <= Len(t)
         /\ \A i \in 0 .. Len(s) : Place(s, i) = Place(t, i)
         /\ \A i \in 1 .. Len(s) : i \in 1 .. Len(t) /\ SameEntry(s[i], t[i]) /\ (Durable(s[i]) <=> Durable(t[i]))
<1>1. Len(s) \in Nat /\ DOMAIN s = 1 .. Len(s) /\ Len(t) \in Nat /\ DOMAIN t = 1 .. Len(t)
  OBVIOUS
<1>2. \A i \in 1 .. Len(s) : i \in 1 .. Len(t) /\ SameEntry(s[i], t[i])
  BY <1>1 DEF Like
<1>3. Len(s) <= Len(t)
  <2>1. CASE Len(s) = 0
    BY <2>1, <1>1
  <2>2. CASE Len(s) # 0
    <3>1. Len(s) \in 1 .. Len(s)
      BY <2>2, <1>1
    <3>2. Len(s) \in 1 .. Len(t)
      BY <3>1, <1>2
    <3> QED BY <3>2, <1>1
  <2> QED BY <2>1, <2>2
<1>4. \A i \in 0 .. Len(s) : Place(s, i) = Place(t, i)
  BY <1>1, <1>2, PlaceAlike
<1>5. \A i \in 1 .. Len(s) : Durable(s[i]) <=> Durable(t[i])
  BY <1>2 DEF SameEntry, Durable
<1> QED BY <1>1, <1>2, <1>3, <1>4, <1>5

LEMMA PairsAlike ==
  ASSUME NEW a, NEW b, NEW c, NEW d, SameEntry(a, b), SameEntry(c, d)
  PROVE  /\ Pairs(a, c) <=> Pairs(b, d)
         /\ SameEntry(a, c) <=> SameEntry(b, d)
         /\ SameEntry(b, a)
BY DEF SameEntry, Pairs

LEMMA DurablePlace ==
  ASSUME NEW t, NEW x \in Nat \ {0}, Durable(t[x])
  PROVE  Place(t, x) \in Nat /\ 1 <= Place(t, x)
<1>1. x \in Nat /\ 0 \in Nat /\ 0 <= x /\ 0 < x
  OBVIOUS
<1>2. Place(t, 0) = 0 /\ Place(t, x) \in Nat
  BY <1>1, PlaceType
<1>3. Place(t, 0) < Place(t, x)
  BY <1>1, PlaceGrows
<1> QED BY <1>2, <1>3

(* What is torn stays torn.                                                *)
LEMMA TornGrows ==
  ASSUME NEW S, NEW s \in Seq(S), NEW t \in Seq(S), NEW p \in Seq(S), NEW q \in Seq(S),
         Like(s, t), Like(p, q), NEW i \in 0 .. Len(s), NEW k \in Nat, i <= k, Torn(s, i, p)
  PROVE  Torn(t, k, q)
<1>1. PICK x \in 1 .. i : Durable(s[x]) /\ Place(s, x) <= Len(p) /\ ~Pairs(s[x], p[Place(s, x)])
  BY DEF Torn
<1>2. x \in 1 .. Len(s) /\ x \in 0 .. Len(s) /\ x \in 1 .. k /\ x \in Nat \ {0}
  <2>1. Len(s) \in Nat
    OBVIOUS
  <2> QED BY <2>1
<1>3. Durable(t[x]) /\ Place(t, x) = Place(s, x) /\ SameEntry(s[x], t[x])
  BY <1>1, <1>2, LikePlaces
<1> DEFINE y == Place(s, x)
<1>4. y \in Nat /\ 1 <= y
  BY <1>1, <1>2, DurablePlace
<1>5. y \in 1 .. Len(p)
  <2>1. Len(p) \in Nat
    OBVIOUS
  <2> QED BY <2>1, <1>1, <1>4
<1> HIDE DEF y
<1>6. SameEntry(p[y], q[y]) /\ y <= Len(q)
  <2>1. Len(p) \in Nat /\ Len(q) \in Nat /\ Len(p) <= Len(q) /\ SameEntry(p[y], q[y])
    BY <1>5, LikePlaces
  <2> QED BY <2>1, <1>5
<1>7. ~Pairs(t[x], q[y])
  <2>1. ~Pairs(s[x], p[y])
    BY <1>1 DEF y
  <2> QED BY <2>1, <1>3, <1>6, PairsAlike
<1> QED BY <1>2, <1>3, <1>6, <1>7 DEF Torn, y

(* A part of what is aligned with a part of the projection is aligned.     *)
LEMMA CleanPart ==
  ASSUME NEW S, NEW s \in Seq(S), NEW t \in Seq(S), NEW p \in Seq(S), NEW q \in Seq(S),
         Like(s, t), Like(q, p), Clean(t, p)
  PROVE  Clean(s, q)
<1>0. /\ DOMAIN s = 1 .. Len(s) /\ DOMAIN t = 1 .. Len(t) /\ DOMAIN p = 1 .. Len(p) /\ DOMAIN q = 1 .. Len(q)
      /\ Len(s) \in Nat /\ Len(t) \in Nat /\ Len(p) \in Nat /\ Len(q) \in Nat
  OBVIOUS
<1>1. Once(s)
  <2> SUFFICES ASSUME NEW i \in DOMAIN s, NEW j \in DOMAIN s, i # j, Durable(s[i]), SameEntry(s[i], s[j])
               PROVE  FALSE
    BY DEF Once
  <2>1. i \in DOMAIN t /\ j \in DOMAIN t /\ Durable(t[i]) /\ SameEntry(s[i], t[i]) /\ SameEntry(s[j], t[j])
    BY <1>0, LikePlaces
  <2>2. SameEntry(t[i], t[j])
    BY <2>1, PairsAlike
  <2> QED BY <2>1, <2>2 DEF Clean, Once
<1>2. Aligned(s, q)
  <2> SUFFICES ASSUME NEW i \in DOMAIN s, NEW j \in DOMAIN q, SameEntry(s[i], q[j]), Place(s, i) < j
               PROVE  Torn(s, i, q)
    BY DEF Aligned
  <2>1. i \in DOMAIN t /\ j \in DOMAIN p /\ SameEntry(s[i], t[i]) /\ SameEntry(q[j], p[j]) /\ Place(t, i) = Place(s, i)
    BY <1>0, LikePlaces
  <2>2. SameEntry(t[i], p[j]) /\ Place(t, i) < j
    BY <2>1, PairsAlike
  <2>3. Torn(t, i, p)
    BY <2>1, <2>2 DEF Clean, Aligned
  <2>4. PICK x \in 1 .. i : Durable(t[x]) /\ Place(t, x) <= Len(p) /\ ~Pairs(t[x], p[Place(t, x)])
    BY <2>3 DEF Torn
  <2>5. x \in 1 .. Len(s) /\ x \in 0 .. Len(s) /\ x \in Nat \ {0} /\ i \in Nat /\ x <= i
    BY <1>0
  <2>6. Durable(s[x]) /\ Place(s, x) = Place(t, x) /\ SameEntry(s[x], t[x])
    BY <2>4, <2>5, LikePlaces
  <2> DEFINE y == Place(t, x)
  <2>7. y \in Nat /\ 1 <= y /\ y < j
    <3>1. Place(t, x) <= Place(t, i) /\ Place(t, i) \in Nat
      BY <2>5, PlaceGrows, PlaceType
    <3>2. j \in Nat
      BY <1>0
    <3>3. y \in Nat /\ 1 <= y
      BY <2>4, <2>5, DurablePlace
    <3> QED BY <3>1, <3>2, <3>3, <2>2
  <2>8. y \in 1 .. Len(q)
    BY <2>7, <1>0
  <2> HIDE DEF y
  <2>9. SameEntry(q[y], p[y])
    BY <2>8, LikePlaces
  <2>10. ~Pairs(s[x], q[y])
    <3>1. ~Pairs(t[x], p[y])
      BY <2>4 DEF y
    <3> QED BY <3>1, <2>6, <2>9, PairsAlike
  <2> QED BY <2>6, <2>8, <2>10 DEF Torn, y
<1> QED BY <1>1, <1>2 DEF Clean

\* The same entries, whatever their outputs.
Alike(s, t) == Len(s) = Len(t) /\ Like(s, t)

LEMMA AlikeBack ==
  ASSUME NEW S, NEW s \in Seq(S), NEW t \in Seq(S), Alike(s, t)
  PROVE  Alike(t, s)
<1>1. DOMAIN s = 1 .. Len(s) /\ DOMAIN t = 1 .. Len(t) /\ Len(s) = Len(t)
  BY DEF Alike
<1> QED BY <1>1 DEF Alike, Like, SameEntry

LEMMA FitsAlike ==
  ASSUME NEW S, NEW s \in Seq(S), NEW t \in Seq(S), NEW p \in Seq(S), NEW q \in Seq(S),
         Alike(s, t), Alike(q, p), Fits(t, p)
  PROVE  Fits(s, q)
<1>1. Clean(s, q)
  BY CleanPart DEF Fits, Alike
<1>2. Like(t, s) /\ Like(p, q) /\ Len(s) = Len(t) /\ Len(p) = Len(q) /\ Len(t) \in Nat /\ Len(t) \in 0 .. Len(t)
  BY AlikeBack DEF Alike
<1>3. Place(s, Len(s)) = Place(t, Len(t))
  BY <1>2, LikePlaces
<1>4. Torn(t, Len(t), p) => Torn(s, Len(s), q)
  BY <1>2, TornGrows
<1> QED BY <1>1, <1>2, <1>3, <1>4 DEF Fits, Level

LEMMA JoinPlaces ==
  ASSUME NEW S, NEW a \in Seq(S), NEW b \in Seq(S)
  PROVE  /\ a \o b \in Seq(S) /\ Len(a \o b) = Len(a) + Len(b) /\ Len(a) \in Nat /\ Len(b) \in Nat
         /\ \A i \in 1 .. Len(a) : (a \o b)[i] = a[i]
         /\ \A i \in 1 .. Len(b) : (a \o b)[Len(a) + i] = b[i]
         /\ DOMAIN a = 1 .. Len(a) /\ DOMAIN b = 1 .. Len(b) /\ DOMAIN (a \o b) = 1 .. Len(a) + Len(b)
OBVIOUS

Joined(a, b) ==
  /\ DOMAIN (a \o b) = 1 .. Len(a) + Len(b) /\ Len(a \o b) = Len(a) + Len(b)
  /\ \A i \in 1 .. Len(a) : (a \o b)[i] = a[i]
  /\ \A i \in 1 .. Len(b) : (a \o b)[Len(a) + i] = b[i]
LEMMA Joins ==
  ASSUME NEW S, NEW a \in Seq(S), NEW b \in Seq(S)
  PROVE  Joined(a, b)
BY DEF Joined

LEMMA BeginsJoin ==
  ASSUME NEW S, NEW a \in Seq(S), NEW b \in Seq(S)
  PROVE  Like(a, a \o b) /\ a \o b \in Seq(S)
<1>1. \A i \in DOMAIN a : i \in DOMAIN (a \o b) /\ (a \o b)[i] = a[i]
  OBVIOUS
<1> QED BY <1>1 DEF Like, SameEntry

LEMMA LikeItself ==
  ASSUME NEW a
  PROVE  Like(a, a)
BY DEF Like, SameEntry

(* Entries join the transcript and the projection.                         *)
LEMMA AlignedJoin ==
  ASSUME NEW S, NEW t \in Seq(S), NEW x \in Seq(S), NEW p \in Seq(S), NEW y \in Seq(S),
         Aligned(t, p), Apart(t, y), Apart(x, p),
         \A i \in DOMAIN x : \A j \in DOMAIN y :
           SameEntry(x[i], y[j]) /\ Place(t \o x, Len(t) + i) < Len(p) + j => Torn(t \o x, Len(t) + i, p \o y)
  PROVE  Aligned(t \o x, p \o y)
<1> DEFINE u == t \o x
           q == p \o y
<1>1. /\ u \in Seq(S) /\ q \in Seq(S) /\ Like(t, u) /\ Like(p, q)
      /\ DOMAIN t = 1 .. Len(t) /\ DOMAIN x = 1 .. Len(x) /\ DOMAIN u = 1 .. Len(t) + Len(x)
      /\ DOMAIN p = 1 .. Len(p) /\ DOMAIN y = 1 .. Len(y) /\ DOMAIN q = 1 .. Len(p) + Len(y)
      /\ Len(t) \in Nat /\ Len(x) \in Nat /\ Len(p) \in Nat /\ Len(y) \in Nat
  BY JoinPlaces, BeginsJoin
<1>2. /\ \A i \in 1 .. Len(t) : u[i] = t[i]
      /\ \A i \in 1 .. Len(x) : u[Len(t) + i] = x[i]
      /\ \A i \in 1 .. Len(p) : q[i] = p[i]
      /\ \A i \in 1 .. Len(y) : q[Len(p) + i] = y[i]
  BY JoinPlaces
<1>3. \A i \in DOMAIN x : \A j \in DOMAIN y :
         SameEntry(x[i], y[j]) /\ Place(u, Len(t) + i) < Len(p) + j => Torn(u, Len(t) + i, q)
  OBVIOUS
<1> HIDE DEF u, q
<1> SUFFICES ASSUME NEW i \in DOMAIN u, NEW j \in DOMAIN q, SameEntry(u[i], q[j]), Place(u, i) < j
             PROVE  Torn(u, i, q)
  BY DEF Aligned, u, q
<1>4. CASE i <= Len(t) /\ j <= Len(p)
  <2>1. i \in 1 .. Len(t) /\ j \in 1 .. Len(p) /\ i \in 0 .. Len(t) /\ i \in Nat
    BY <1>1, <1>4
  <2>2. SameEntry(t[i], p[j])
    BY <2>1, <1>2
  <2>3. Place(t, i) = Place(u, i)
    BY <2>1, <1>1, LikePlaces
  <2>4. Torn(t, i, p)
    BY <2>1, <2>2, <2>3, <1>1 DEF Aligned
  <2> QED BY <2>1, <2>4, <1>1, TornGrows
<1>5. CASE i <= Len(t) /\ j > Len(p)
  <2>1. i \in DOMAIN t /\ j - Len(p) \in DOMAIN y /\ Len(p) + (j - Len(p)) = j
    BY <1>1, <1>5
  <2>2. SameEntry(t[i], y[j - Len(p)])
    BY <2>1, <1>1, <1>2
  <2> QED BY <2>1, <2>2 DEF Apart
<1>6. CASE i > Len(t) /\ j <= Len(p)
  <2>1. i - Len(t) \in DOMAIN x /\ j \in DOMAIN p /\ Len(t) + (i - Len(t)) = i
    BY <1>1, <1>6
  <2>2. SameEntry(x[i - Len(t)], p[j])
    BY <2>1, <1>1, <1>2
  <2> QED BY <2>1, <2>2 DEF Apart
<1>7. CASE i > Len(t) /\ j > Len(p)
  <2> DEFINE a == i - Len(t)
             b == j - Len(p)
  <2>1. a \in DOMAIN x /\ b \in DOMAIN y /\ Len(t) + a = i /\ Len(p) + b = j
    BY <1>1, <1>7
  <2> HIDE DEF a, b
  <2>2. u[i] = x[a] /\ q[j] = y[b]
    BY <2>1, <1>1, <1>2
  <2>3. SameEntry(x[a], y[b]) /\ Place(u, Len(t) + a) < Len(p) + b
    BY <2>1, <2>2
  <2>4. Torn(u, Len(t) + a, q)
    BY <2>1, <2>3, <1>3
  <2> QED BY <2>1, <2>4
<1>8. (i <= Len(t) \/ i > Len(t)) /\ (j <= Len(p) \/ j > Len(p))
  BY <1>1
<1> QED BY <1>4, <1>5, <1>6, <1>7, <1>8

LEMMA OnceJoin ==
  ASSUME NEW S, NEW t \in Seq(S), NEW x \in Seq(S), Once(t), Once(x),
         \A i \in DOMAIN t : \A j \in DOMAIN x : Durable(t[i]) => ~SameEntry(t[i], x[j])
  PROVE  Once(t \o x)
<1> DEFINE u == t \o x
<1>1. /\ DOMAIN t = 1 .. Len(t) /\ DOMAIN x = 1 .. Len(x) /\ DOMAIN u = 1 .. Len(t) + Len(x)
      /\ Len(t) \in Nat /\ Len(x) \in Nat
  BY JoinPlaces
<1>2. /\ \A i \in 1 .. Len(t) : u[i] = t[i]
      /\ \A i \in 1 .. Len(x) : u[Len(t) + i] = x[i]
  BY JoinPlaces
<1> HIDE DEF u
<1>3. ASSUME NEW i \in DOMAIN u
      PROVE  \/ i \in DOMAIN t /\ u[i] = t[i]
             \/ i - Len(t) \in DOMAIN x /\ u[i] = x[i - Len(t)] /\ i \in Int
  <2>1. CASE i <= Len(t)
    BY <2>1, <1>1, <1>2
  <2>2. CASE i > Len(t)
    <3>1. i - Len(t) \in DOMAIN x /\ Len(t) + (i - Len(t)) = i
      BY <2>2, <1>1
    <3> QED BY <3>1, <1>1, <1>2
  <2> QED BY <2>1, <2>2, <1>1
<1> SUFFICES ASSUME NEW i \in DOMAIN u, NEW j \in DOMAIN u, i # j, Durable(u[i]), SameEntry(u[i], u[j])
             PROVE  FALSE
  BY DEF Once, u
<1>4. CASE i \in DOMAIN t /\ j \in DOMAIN t /\ u[i] = t[i] /\ u[j] = t[j]
  BY <1>4 DEF Once
<1>5. CASE i \in DOMAIN t /\ j - Len(t) \in DOMAIN x /\ u[i] = t[i] /\ u[j] = x[j - Len(t)]
  BY <1>5
<1>6. CASE i - Len(t) \in DOMAIN x /\ j \in DOMAIN t /\ u[i] = x[i - Len(t)] /\ u[j] = t[j]
  <2>1. SameEntry(t[j], x[i - Len(t)]) /\ Durable(t[j])
    BY <1>6 DEF SameEntry, Durable
  <2> QED BY <2>1, <1>6
<1>7. CASE /\ i - Len(t) \in DOMAIN x /\ j - Len(t) \in DOMAIN x /\ i \in Int /\ j \in Int
           /\ u[i] = x[i - Len(t)] /\ u[j] = x[j - Len(t)]
  <2>1. i - Len(t) # j - Len(t)
    BY <1>7, <1>1
  <2> QED BY <2>1, <1>7 DEF Once
<1> QED BY <1>3, <1>4, <1>5, <1>6, <1>7

LEMMA SingleOnce ==
  ASSUME NEW e
  PROVE  Once(<<e>>) /\ DOMAIN <<e>> = {1} /\ <<e>>[1] = e /\ Len(<<e>>) = 1
<1>1. DOMAIN <<e>> = {1} /\ <<e>>[1] = e /\ Len(<<e>>) = 1
  OBVIOUS
<1> QED BY <1>1 DEF Once

\* One more entry is in the transcript, and is not projected.
LEMMA CleanAfter ==
  ASSUME NEW S, NEW t \in Seq(S), NEW p \in Seq(S), NEW e \in S, Clean(t, p),
         \A j \in DOMAIN p : ~SameEntry(e, p[j]),
         \A i \in DOMAIN t : Durable(t[i]) => ~SameEntry(t[i], e)
  PROVE  Clean(t \o <<e>>, p)
<1>1. <<e>> \in Seq(S) /\ <<>> \in Seq(S) /\ p \o <<>> = p /\ DOMAIN <<>> = {}
  OBVIOUS
<1>2. Once(t \o <<e>>)
  <2>1. Once(<<e>>) /\ DOMAIN <<e>> = {1} /\ <<e>>[1] = e
    BY SingleOnce
  <2>2. Once(t)
    BY DEF Clean
  <2>3. \A i \in DOMAIN t : \A j \in DOMAIN <<e>> : Durable(t[i]) => ~SameEntry(t[i], <<e>>[j])
    BY <2>1
  <2> HIDE DEF Once
  <2> QED BY <2>1, <2>2, <2>3, <1>1, OnceJoin
<1>3. Aligned(t \o <<e>>, p \o <<>>)
  <2>1. Apart(t, <<>>) /\ Apart(<<e>>, p)
    <3>1. \A i \in DOMAIN <<e>> : <<e>>[i] = e
      BY SingleOnce
    <3> QED BY <1>1, <3>1 DEF Apart
  <2>2. Aligned(t, p)
    BY DEF Clean
  <2>3. \A i \in DOMAIN <<e>> : \A j \in DOMAIN <<>> :
          SameEntry(<<e>>[i], <<>>[j]) /\ Place(t \o <<e>>, Len(t) + i) < Len(p) + j
            => Torn(t \o <<e>>, Len(t) + i, p \o <<>>)
    BY <1>1
  <2> QED BY <2>1, <2>2, <2>3, <1>1, AlignedJoin
<1> QED BY <1>1, <1>2, <1>3 DEF Clean

LEMMA FitsAfter ==
  ASSUME NEW S, NEW t \in Seq(S), NEW p \in Seq(S), NEW e \in S, Fits(t, p),
         \A j \in DOMAIN p : ~SameEntry(e, p[j]),
         \A i \in DOMAIN t : Durable(t[i]) => ~SameEntry(t[i], e)
  PROVE  Fits(t \o <<e>>, p)
<1> DEFINE u == t \o <<e>>
<1>1. Clean(u, p)
  BY CleanAfter DEF Fits
<1>2. <<e>> \in Seq(S) /\ Len(<<e>>) = 1
  OBVIOUS
<1>3. u \in Seq(S) /\ Like(t, u) /\ Len(u) = Len(t) + 1 /\ Len(t) \in Nat /\ Len(p) \in Nat
  <2>1. t \o <<e>> \in Seq(S) /\ Like(t, t \o <<e>>)
    BY <1>2, BeginsJoin
  <2>2. Len(t \o <<e>>) = Len(t) + Len(<<e>>)
    BY <1>2, JoinPlaces
  <2>3. Len(t) \in Nat /\ Len(p) \in Nat
    OBVIOUS
  <2> QED BY <2>1, <2>2, <2>3, <1>2 DEF u
<1> HIDE DEF u
<1>4. Place(t, Len(t)) = Place(u, Len(t)) /\ Place(u, Len(t)) <= Place(u, Len(u)) /\ Place(u, Len(u)) \in Nat
      /\ Place(t, Len(t)) \in Nat
  <2>1. Len(t) \in 0 .. Len(t) /\ Len(u) \in Nat /\ Len(t) <= Len(u)
    BY <1>3
  <2>2. Place(t, Len(t)) = Place(u, Len(t))
    BY <2>1, <1>3, LikePlaces, ZenonT(60)
  <2> QED BY <2>1, <2>2, <1>3, PlaceGrows, PlaceType
<1>5. Torn(t, Len(t), p) => Torn(u, Len(u), p)
  <2>1. Len(t) \in 0 .. Len(t) /\ Len(u) \in Nat /\ Len(t) <= Len(u) /\ Like(p, p)
    BY <1>3, LikeItself
  <2> QED BY <2>1, <1>3, TornGrows
<1>6. Level(u, p)
  <2>1. Place(t, Len(t)) >= Len(p) \/ Torn(t, Len(t), p)
    BY DEF Fits, Level
  <2> QED BY <2>1, <1>3, <1>4, <1>5 DEF Level
<1> QED BY <1>1, <1>6 DEF Fits, u

\* One more entry is projected, and is not in the transcript.
LEMMA CleanMore ==
  ASSUME NEW S, NEW t \in Seq(S), NEW p \in Seq(S), NEW y \in Seq(S), Clean(t, p), Apart(t, y)
  PROVE  Clean(t, p \o y)
<1>1. <<>> \in Seq(S) /\ t \o <<>> = t /\ DOMAIN <<>> = {}
  OBVIOUS
<1>2. Aligned(t \o <<>>, p \o y)
  <2>1. Apart(<<>>, p)
    BY <1>1 DEF Apart
  <2>2. Aligned(t, p)
    BY DEF Clean
  <2>3. \A i \in DOMAIN <<>> : \A j \in DOMAIN y :
          SameEntry(<<>>[i], y[j]) /\ Place(t \o <<>>, Len(t) + i) < Len(p) + j
            => Torn(t \o <<>>, Len(t) + i, p \o y)
    BY <1>1
  <2> QED BY <2>1, <2>2, <2>3, <1>1, AlignedJoin
<1> QED BY <1>1, <1>2 DEF Clean

(* What joins both, in transcript and projection.                          *)
LEMMA LevelJoin ==
  ASSUME NEW S, NEW t \in Seq(S), NEW x \in Seq(S), NEW p \in Seq(S), NEW y \in Seq(S), Level(t, p),
         Place(t \o x, Len(t) + Len(x)) >= Place(t, Len(t)) + Len(y)
  PROVE  /\ Level(t \o x, p \o y)
         /\ Place(t, Len(t)) >= Len(p) \/ \A i \in Nat : Len(t) <= i => Torn(t \o x, i, p \o y)
<1> DEFINE u == t \o x
           q == p \o y
<1>1. /\ u \in Seq(S) /\ q \in Seq(S) /\ Like(t, u) /\ Like(p, q)
      /\ Len(u) = Len(t) + Len(x) /\ Len(q) = Len(p) + Len(y)
      /\ Len(t) \in Nat /\ Len(x) \in Nat /\ Len(p) \in Nat /\ Len(y) \in Nat
  BY JoinPlaces, BeginsJoin
<1>2. Place(u, Len(t) + Len(x)) >= Place(t, Len(t)) + Len(y)
  OBVIOUS
<1> HIDE DEF u, q
<1>3. Place(t, Len(t)) >= Len(p) \/ Torn(t, Len(t), p)
  BY DEF Level
<1>4. ASSUME Torn(t, Len(t), p), NEW i \in Nat, Len(t) <= i PROVE Torn(u, i, q)
  <2>1. Len(t) \in 0 .. Len(t)
    BY <1>1
  <2> QED BY <2>1, <1>1, <1>4, TornGrows
<1>5. Level(u, q)
  <2>1. CASE Place(t, Len(t)) >= Len(p)
    <3>0. Len(t) \in Nat /\ Len(t) + Len(x) \in Nat
      BY <1>1
    <3>1. Place(t, Len(t)) \in Nat /\ Place(u, Len(t) + Len(x)) \in Nat
      BY <3>0, PlaceType
    <3> QED BY <3>1, <2>1, <1>1, <1>2 DEF Level
  <2>2. CASE Torn(t, Len(t), p)
    <3>1. Torn(u, Len(u), q)
      BY <2>2, <1>1, <1>4
    <3> QED BY <3>1 DEF Level
  <2> QED BY <2>1, <2>2, <1>3
<1> QED BY <1>3, <1>4, <1>5 DEF u, q

LEMMA FitsBoth ==
  ASSUME NEW S, NEW t \in Seq(S), NEW p \in Seq(S), NEW e \in S, NEW f \in S, Fits(t, p), Durable(e),
         \A j \in DOMAIN p : ~SameEntry(e, p[j]),
         \A i \in DOMAIN t : ~SameEntry(t[i], e) /\ ~SameEntry(t[i], f)
  PROVE  Fits(t \o <<e>>, p \o <<f>>)
<1> DEFINE x == <<e>>
           y == <<f>>
<1>1. /\ x \in Seq(S) /\ y \in Seq(S) /\ Len(x) = 1 /\ Len(y) = 1 /\ x[1] = e /\ y[1] = f
      /\ DOMAIN x = {1} /\ DOMAIN y = {1} /\ Once(x)
  BY SingleOnce
<1>2. Place(t \o x, Len(t) + 1) = Place(t, Len(t)) + 1
  <2>1. (t \o x)[Len(t) + 1] = e /\ Len(t) \in Nat /\ Like(t, t \o x) /\ t \o x \in Seq(S)
    <3>1. 1 \in 1 .. Len(x)
      BY <1>1
    <3>2. (t \o x)[Len(t) + 1] = x[1] /\ Len(t) \in Nat
      BY <1>1, <3>1, JoinPlaces
    <3>3. Like(t, t \o x) /\ t \o x \in Seq(S)
      BY <1>1, BeginsJoin
    <3> HIDE DEF x
    <3> QED BY <3>2, <3>3, <1>1
  <2>2. Place(t \o x, Len(t)) = Place(t, Len(t))
    <3>1. Len(t) \in 0 .. Len(t)
      BY <2>1
    <3> QED BY <3>1, <2>1, LikePlaces
  <2> HIDE DEF x
  <2> QED BY <2>1, <2>2, PlaceNext
<1> HIDE DEF x, y
<1>3. Once(t \o x)
  BY <1>1, OnceJoin DEF Fits, Clean
<1>4. Len(t) \in Nat /\ Len(p) \in Nat /\ Place(t, Len(t)) \in Nat
  <2>1. Len(t) \in Nat /\ Len(p) \in Nat
    OBVIOUS
  <2> QED BY <2>1, PlaceType
<1>5. Level(t \o x, p \o y) /\ (Place(t, Len(t)) >= Len(p) \/ \A i \in Nat : Len(t) <= i => Torn(t \o x, i, p \o y))
  <2>1. Place(t \o x, Len(t) + Len(x)) >= Place(t, Len(t)) + Len(y)
    BY <1>1, <1>2, <1>4
  <2> QED BY <2>1, <1>1, LevelJoin DEF Fits
<1>6. Aligned(t \o x, p \o y)
  <2>1. ASSUME Place(t \o x, Len(t) + 1) < Len(p) + 1 PROVE Torn(t \o x, Len(t) + 1, p \o y)
    BY <2>1, <1>2, <1>4, <1>5
  <2>2. Apart(t, y) /\ Apart(x, p)
    BY <1>1 DEF Apart
  <2> QED BY <2>1, <2>2, <1>1, AlignedJoin DEF Fits, Clean
<1> QED BY <1>3, <1>5, <1>6 DEF Fits, Clean, x, y

\* A call and its text, which the projection puts the other way round.
LEMMA FitsCall ==
  ASSUME NEW S, NEW t \in Seq(S), NEW p \in Seq(S), NEW e \in S, NEW c \in S, Fits(t, p),
         e.kind = "text", c.kind = "call",
         \A j \in DOMAIN p : ~SameEntry(e, p[j]) /\ ~SameEntry(c, p[j]),
         \A i \in DOMAIN t : ~SameEntry(t[i], e) /\ ~SameEntry(t[i], c)
  PROVE  Fits(t \o <<e, c>>, p \o <<c, e>>)
<1>0. \A a, b \in Seq(S) : /\ Len(a \o b) = Len(a) + Len(b)
                            /\ \A i \in 1 .. Len(b) : (a \o b)[Len(a) + i] = b[i]
  OBVIOUS
<1> DEFINE x == <<e, c>>
           y == <<c, e>>
           u == t \o x
           q == p \o y
<1>1. /\ x \in Seq(S) /\ y \in Seq(S) /\ Len(x) = 2 /\ Len(y) = 2
      /\ x[1] = e /\ x[2] = c /\ y[1] = c /\ y[2] = e /\ DOMAIN x = {1, 2} /\ DOMAIN y = {1, 2}
  OBVIOUS
<1>2. Durable(e) /\ Durable(c) /\ ~SameEntry(e, c) /\ ~SameEntry(c, e) /\ ~Pairs(e, c)
  BY DEF Durable, SameEntry, Pairs
<1> HIDE DEF x, y
<1>3. u \in Seq(S) /\ Like(t, u) /\ Len(t) \in Nat /\ Len(p) \in Nat
  <2>1. u \in Seq(S) /\ Like(t, u)
    BY <1>1, BeginsJoin
  <2> QED BY <2>1
<1>4. u[Len(t) + 1] = e /\ u[Len(t) + 2] = c /\ q[Len(p) + 1] = c /\ Len(q) = Len(p) + 2
  <2>1. 1 \in 1 .. Len(x) /\ 2 \in 1 .. Len(x) /\ 1 \in 1 .. Len(y)
    BY <1>1
  <2>2. u[Len(t) + 1] = x[1] /\ u[Len(t) + 2] = x[2]
    <3>1. \A i \in 1 .. Len(x) : (t \o x)[Len(t) + i] = x[i]
      BY ONLY <1>0, <1>1, t \in Seq(S), p \in Seq(S), Zenon
    <3> QED BY <3>1, <2>1
  <2>3. q[Len(p) + 1] = y[1] /\ Len(q) = Len(p) + Len(y)
    <3>1. \A i \in 1 .. Len(y) : (p \o y)[Len(p) + i] = y[i]
      BY ONLY <1>0, <1>1, t \in Seq(S), p \in Seq(S), Zenon
    <3>2. Len(p \o y) = Len(p) + Len(y)
      BY ONLY <1>0, <1>1, t \in Seq(S), p \in Seq(S), Zenon
    <3> QED BY <3>1, <3>2, <2>1
  <2> HIDE DEF u, q
  <2> QED BY <2>2, <2>3, <1>1
<1>5. Once(u)
  <2>1. Once(x)
    BY <1>1, <1>2 DEF Once
  <2>2. \A i \in DOMAIN t : \A j \in DOMAIN x : Durable(t[i]) => ~SameEntry(t[i], x[j])
    BY <1>1
  <2>3. Once(t)
    BY DEF Fits, Clean
  <2> HIDE DEF Once
  <2> QED BY <1>1, <2>1, <2>2, <2>3, OnceJoin
<1> DEFINE n == Place(t, Len(t))
<1>6. n \in Nat
  BY <1>3, PlaceType
<1>7. Place(u, Len(t) + 1) = n + 1 /\ Place(u, Len(t) + 2) = n + 2
  <2>1. Len(t) \in 0 .. Len(t) /\ Len(t) + 1 \in Nat /\ Len(t) + 1 + 1 = Len(t) + 2
    BY <1>3
  <2>2. Place(u, Len(t)) = n
    BY <2>1, <1>3, LikePlaces, ZenonT(60)
  <2> HIDE DEF n, u
  <2>3. Place(u, Len(t) + 1) = n + 1
    BY <2>2, <1>2, <1>3, <1>4, PlaceNext
  <2>4. Place(u, Len(t) + 1 + 1) = IF Durable(u[Len(t) + 1 + 1]) THEN Place(u, Len(t) + 1) + 1 ELSE Place(u, Len(t) + 1)
    BY <2>1, PlaceNext
  <2> QED BY <2>1, <2>3, <2>4, <1>2, <1>4, <1>6
<1>8. Level(u, q) /\ (n >= Len(p) \/ \A i \in Nat : Len(t) <= i => Torn(u, i, q))
  <2>1. Place(t \o x, Len(t) + Len(x)) >= Place(t, Len(t)) + Len(y)
    BY <1>1, <1>6, <1>7
  <2>2. Level(t, p)
    BY DEF Fits
  <2> HIDE DEF Level
  <2> QED BY <2>1, <2>2, <1>1, LevelJoin
<1>9. ASSUME Place(u, Len(t) + 1) < Len(p) + 2 PROVE Torn(u, Len(t) + 1, q)
  <2>1. CASE n >= Len(p)
    <3>1. n = Len(p)
      BY <2>1, <1>9, <1>7, <1>6, <1>3
    <3>2. Place(u, Len(t) + 1) = Len(p) + 1 /\ Place(u, Len(t) + 1) <= Len(q)
      BY <3>1, <1>7, <1>4, <1>3
    <3>3. Len(t) + 1 \in 1 .. Len(t) + 1
      BY <1>3
    <3>4. Durable(u[Len(t) + 1]) /\ ~Pairs(u[Len(t) + 1], q[Len(p) + 1])
      BY <1>2, <1>4
    <3> HIDE DEF u, q
    <3> QED BY <3>2, <3>3, <3>4 DEF Torn
  <2>2. CASE ~(n >= Len(p))
    <3>1. Len(t) + 1 \in Nat /\ Len(t) <= Len(t) + 1
      BY <1>3
    <3> QED BY <3>1, <2>2, <1>8
  <2> QED BY <2>1, <2>2
<1>10. ASSUME Place(u, Len(t) + 2) < Len(p) + 1 PROVE Torn(u, Len(t) + 2, q)
  <2>1. ~(n >= Len(p))
    BY <1>10, <1>7, <1>6, <1>3
  <2>2. Len(t) + 2 \in Nat /\ Len(t) <= Len(t) + 2
    BY <1>3
  <2> QED BY <2>1, <2>2, <1>8
<1>11. Aligned(u, q)
  <2>1. Apart(t, y) /\ Apart(x, p)
    BY <1>1 DEF Apart
  <2>2. Aligned(t, p)
    BY DEF Fits, Clean
  <2>3. \A i \in DOMAIN x : \A j \in DOMAIN y :
          SameEntry(x[i], y[j]) /\ Place(u, Len(t) + i) < Len(p) + j => Torn(u, Len(t) + i, q)
    <3> HIDE DEF u, q
    <3> QED BY <1>1, <1>2, <1>9, <1>10
  <2> QED BY <2>1, <2>2, <2>3, <1>1, AlignedJoin
<1> QED BY <1>5, <1>8, <1>11 DEF Fits, Clean, x, y

-----------------------------------------------------------------------------
(* The outline of the messages.                                            *)
DurableUpto(n) == {e \in EntryUpto(n) : Durable(e)}

LEMMA DurableUptoType ==
  ASSUME NEW n \in Nat
  PROVE  /\ DurableUpto(n) \subseteq EntryUpto(n) /\ Seq(DurableUpto(n)) \subseteq Seq(EntryUpto(n))
         /\ \A p \in Seq(DurableUpto(n)) : AllDurable(p)
<1>1. DurableUpto(n) \subseteq EntryUpto(n)
  BY DEF DurableUpto
<1>2. \A S, T : S \subseteq T => Seq(S) \subseteq Seq(T)
  OBVIOUS
<1>3. ASSUME NEW p \in Seq(DurableUpto(n)) PROVE AllDurable(p)
  <2>1. \A i \in DOMAIN p : p[i] \in DurableUpto(n)
    OBVIOUS
  <2> QED BY <2>1 DEF AllDurable, DurableUpto
<1> QED BY <1>1, <1>2, <1>3

SketchOf(m, call, text) ==
  CASE m.role = "user" -> <<Shown("user", m.id, TRUE)>>
    [] m.role = "agent" -> (IF m.call = "none" THEN <<>> ELSE <<call>>) \o (IF m.text THEN <<text>> ELSE <<>>)
    [] m.role = "tool" -> <<>>

LEMMA SketchParts ==
  ASSUME NEW n \in Nat, NEW m \in MessageUpto(n)
  PROVE  /\ Sketch(m) = SketchOf(m, Shown("call", m.id, FALSE), Shown("text", m.id, TRUE))
         /\ Shown("user", m.id, TRUE) \in DurableUpto(n)
         /\ Shown("call", m.id, FALSE) \in DurableUpto(n)
         /\ Shown("text", m.id, TRUE) \in DurableUpto(n)
         /\ m.role \in {"user", "agent", "tool"} /\ m.text \in BOOLEAN
<1>1. m.id \in Id /\ m.id <= n /\ m.role \in {"user", "agent", "tool"} /\ m.text \in BOOLEAN
  BY DEF MessageUpto, Message
<1>2. /\ Shown("user", m.id, TRUE) \in EntryUpto(n)
      /\ Shown("call", m.id, FALSE) \in EntryUpto(n)
      /\ Shown("text", m.id, TRUE) \in EntryUpto(n)
  BY <1>1, ShownType
<1>3. \A kind \in {"user", "call", "text"}, b \in BOOLEAN : Durable(Shown(kind, m.id, b))
  BY DEF Durable, Shown
<1>4. (m.id \in Answered(<<>>)) = FALSE
  <2>1. Range(<<>>) = {}
    BY DEF Range
  <2> QED BY <2>1 DEF Answered
<1>5. Sketch(m) = SketchOf(m, Shown("call", m.id, FALSE), Shown("text", m.id, TRUE))
  BY <1>4 DEF Sketch, Projected, SketchOf
<1> QED BY <1>1, <1>2, <1>3, <1>5 DEF DurableUpto

LEMMA SketchType ==
  ASSUME NEW n \in Nat, NEW m \in MessageUpto(n)
  PROVE  Sketch(m) \in Seq(DurableUpto(n))
<1> DEFINE D == DurableUpto(n)
           user == Shown("user", m.id, TRUE)
           call == Shown("call", m.id, FALSE)
           text == Shown("text", m.id, TRUE)
<1>1. Sketch(m) = SketchOf(m, call, text) /\ user \in D /\ call \in D /\ text \in D
      /\ m.role \in {"user", "agent", "tool"} /\ m.text \in BOOLEAN
  BY SketchParts
<1> HIDE DEF D, call, text
<1>2. \A e1, e2 \in D : /\ <<e1>> \in Seq(D) /\ <<>> \in Seq(D) /\ <<e1>> \o <<e2>> \in Seq(D)
                        /\ <<e1>> \o <<>> \in Seq(D) /\ <<>> \o <<e1>> \in Seq(D) /\ <<>> \o <<>> \in Seq(D)
  OBVIOUS
<1>3. CASE m.role = "agent"
  <2>1. Sketch(m) = (IF m.call = "none" THEN <<>> ELSE <<call>>) \o (IF m.text THEN <<text>> ELSE <<>>)
    BY <1>3, <1>1 DEF SketchOf
  <2> QED BY <2>1, <1>1, <1>2 DEF D
<1>4. CASE m.role = "user"
  <2>1. Sketch(m) = <<user>>
    BY <1>4, <1>1 DEF SketchOf
  <2> HIDE DEF user
  <2> QED BY <2>1, <1>1, <1>2 DEF D
<1>5. CASE m.role = "tool"
  <2>1. Sketch(m) = <<>>
    BY <1>5, <1>1 DEF SketchOf
  <2> QED BY <2>1, <1>1, <1>2 DEF D
<1> QED BY <1>1, <1>3, <1>4, <1>5

LEMMA OutlineType ==
  ASSUME NEW n \in Nat, NEW ms \in Seq(MessageUpto(n))
  PROVE  /\ Outline(ms) \in Seq(DurableUpto(n)) /\ Outline(ms) \in Seq(EntryUpto(n))
         /\ [i \in 1 .. Len(ms) |-> Sketch(ms[i])] \in Seq(Seq(DurableUpto(n)))
<1> DEFINE parts == [i \in 1 .. Len(ms) |-> Sketch(ms[i])]
           D == DurableUpto(n)
<1>1. \A i \in 1 .. Len(ms) : Sketch(ms[i]) \in Seq(D)
  BY SketchType
<1> HIDE DEF D
<1>2. parts \in Seq(Seq(D))
  BY <1>1
<1>3. Outline(ms) = FlattenSeq(parts)
  BY DEF Outline
<1> HIDE DEF parts
<1>4. FlattenSeq(parts) \in Seq(D)
  BY <1>2, FlattenMembers
<1>5. Outline(ms) \in Seq(DurableUpto(n))
  BY <1>3, <1>4 DEF D
<1>6. Outline(ms) \in Seq(EntryUpto(n))
  BY <1>5, DurableUptoType
<1> QED BY <1>2, <1>5, <1>6 DEF parts, D

LEMMA OutlineEmpty == Outline(<<>>) = <<>>
BY DEF Outline, FlattenSeq

LEMMA OutlineAppend ==
  ASSUME NEW n \in Nat, NEW ms \in Seq(MessageUpto(n)), NEW m \in MessageUpto(n)
  PROVE  Outline(Append(ms, m)) = Outline(ms) \o Sketch(m)
<1> DEFINE parts == [i \in 1 .. Len(ms) |-> Sketch(ms[i])]
           more == [i \in 1 .. Len(Append(ms, m)) |-> Sketch(Append(ms, m)[i])]
           e == Sketch(m)
           D == DurableUpto(n)
<1>1. parts \in Seq(Seq(D)) /\ e \in Seq(D)
  BY OutlineType, SketchType
<1>2. more = Append(parts, e)
  <2>1. Len(ms) \in Nat /\ Len(Append(ms, m)) = Len(ms) + 1
        /\ \A i \in 1 .. Len(ms) + 1 : Append(ms, m)[i] = IF i = Len(ms) + 1 THEN m ELSE ms[i]
    OBVIOUS
  <2>2. more = [i \in 1 .. Len(ms) + 1 |-> IF i = Len(ms) + 1 THEN Sketch(m) ELSE Sketch(ms[i])]
    BY <2>1
  <2> DEFINE F(i) == Sketch(ms[i])
  <2> HIDE DEF F, e
  <2>3. Append([i \in 1 .. Len(ms) |-> F(i)], e) = [i \in 1 .. Len(ms) + 1 |-> IF i = Len(ms) + 1 THEN e ELSE F(i)]
    BY <2>1
  <2> QED BY <2>2, <2>3 DEF F, e
<1>3. Outline(ms) = FlattenSeq(parts) /\ Outline(Append(ms, m)) = FlattenSeq(more)
  BY DEF Outline
<1> HIDE DEF parts, more, e, D
<1>4. FlattenSeq(Append(parts, e)) = FlattenSeq(parts) \o e
  BY <1>1, FlattenAppend
<1> QED BY <1>2, <1>3, <1>4 DEF e

LEMMA FrontLast ==
  ASSUME NEW S, NEW ms \in Seq(S), ms # <<>>
  PROVE  Front(ms) \in Seq(S) /\ Last(ms) \in S /\ ms = Append(Front(ms), Last(ms)) /\ Len(ms) \in DOMAIN ms
<1>1. Len(ms) \in Nat /\ Len(ms) > 0
  OBVIOUS
<1>2. Len(ms) - 1 \in Nat /\ Len(ms) \in 1 .. Len(ms)
  BY <1>1
<1>3. Front(ms) = SubSeq(ms, 1, Len(ms) - 1)
  BY DEF Front
<1>4. SubSeq(ms, 1, Len(ms) - 1) \in Seq(S) /\ ms = Append(SubSeq(ms, 1, Len(ms) - 1), ms[Len(ms)])
  BY <1>1, <1>2
<1> QED BY <1>2, <1>3, <1>4 DEF Last

(* Without the open call at the end, the outline is without its end.       *)
LEMMA OutlineFront ==
  ASSUME NEW n \in Nat, NEW ms \in Seq(MessageUpto(n)), ms # <<>>
  PROVE  /\ Front(ms) \in Seq(MessageUpto(n))
         /\ Like(Outline(Front(ms)), Outline(ms))
<1> DEFINE a == Outline(Front(ms))
           b == Sketch(Last(ms))
<1>1. Front(ms) \in Seq(MessageUpto(n)) /\ Last(ms) \in MessageUpto(n) /\ ms = Append(Front(ms), Last(ms))
  BY FrontLast
<1>2. Outline(Append(Front(ms), Last(ms))) = a \o b
  BY <1>1, OutlineAppend
<1>3. a \in Seq(DurableUpto(n)) /\ b \in Seq(DurableUpto(n))
  BY <1>1, OutlineType, SketchType
<1> HIDE DEF a, b
<1>4. Like(a, a \o b)
  BY <1>3, BeginsJoin
<1> QED BY <1>1, <1>2, <1>4 DEF a

LEMMA SamePlaces ==
  ASSUME NEW S, NEW a \in Seq(S), NEW b \in Seq(S), Len(a) = Len(b), \A i \in 1 .. Len(a) : a[i] = b[i]
  PROVE  a = b
OBVIOUS

LEMMA Pieces ==
  ASSUME NEW x, NEW y
  PROVE  <<x>> \o <<y>> = <<x, y>> /\ <<>> \o <<y>> = <<y>> /\ <<x>> \o <<>> = <<x>>
<1> DEFINE a == <<x>>
           b == <<y>>
           c == <<x, y>>
           d == a \o b
           S == {x, y}
<1>1. a \in Seq(S) /\ b \in Seq(S) /\ c \in Seq(S)
  OBVIOUS
<1>2. Len(a) = 1 /\ Len(b) = 1 /\ Len(c) = 2 /\ c[1] = x /\ c[2] = y /\ a[1] = x /\ b[1] = y
  OBVIOUS
<1> HIDE DEF a, b, c, S
<1>3. d \in Seq(S) /\ Len(d) = 2 /\ d[1] = x /\ d[2] = y
  <2>1. /\ d \in Seq(S) /\ Len(d) = Len(a) + Len(b)
        /\ \A i \in 1 .. Len(a) : d[i] = a[i]
        /\ \A i \in 1 .. Len(b) : d[Len(a) + i] = b[i]
    BY <1>1, JoinPlaces
  <2> HIDE DEF d
  <2> QED BY <2>1, <1>2
<1>4. Len(d) = Len(c) /\ \A i \in 1 .. Len(d) : d[i] = c[i]
  BY <1>1, <1>2, <1>3
<1> HIDE DEF d
<1>5. d = c
  BY <1>1, <1>3, <1>4, SamePlaces
<1>6. \A T : \A s \in Seq(T) : <<>> \o s = s /\ s \o <<>> = s
  OBVIOUS
<1>7. <<>> \o b = b /\ a \o <<>> = a
  BY <1>1, <1>6
<1> QED BY <1>5, <1>7 DEF a, b, c, d

\* Whichever calls are answered, the projection has the same entries.
LEMMA ProjectOutline ==
  ASSUME NEW n \in Nat, NEW ms \in Seq(MessageUpto(n))
  PROVE  Alike(Project(ms), Outline(ms))
<1> DEFINE a == [i \in 1 .. Len(ms) |-> Projected(ms[i], ms)]
           b == [i \in 1 .. Len(ms) |-> Sketch(ms[i])]
           E == EntryUpto(n)
           R == {z \in E \X E : SameEntry(z[1], z[2])}
<1>1. \A i \in 1 .. Len(ms) : Projected(ms[i], ms) \in Seq(E) /\ Projected(ms[i], <<>>) \in Seq(E)
  BY ProjectedType
<1>2. ASSUME NEW i \in 1 .. Len(ms) PROVE Related(R, Projected(ms[i], ms), Projected(ms[i], <<>>))
  <2> DEFINE m == ms[i]
             p == Projected(m, ms)
             q == Projected(m, <<>>)
             out == m.id \in Answered(ms)
             none == m.id \in Answered(<<>>)
             call(o) == Shown("call", m.id, o)
             text == Shown("text", m.id, TRUE)
  <2>1. m.role \in {"user", "agent", "tool"} /\ m.text \in BOOLEAN
    BY DEF MessageUpto, Message
  <2>2. p \in Seq(E) /\ q \in Seq(E)
    BY <1>1
  <2>3. Len(p) = Len(q) /\ \A k \in DOMAIN p : SameEntry(p[k], q[k])
    <3>1. CASE m.role \in {"user", "tool"}
      <4>1. p = q
        BY <3>1 DEF Projected
      <4> QED BY <4>1 DEF SameEntry
    <3>2. CASE m.role = "agent"
      <4>1. /\ p = (IF m.call = "none" THEN <<>> ELSE <<call(out)>>) \o (IF m.text THEN <<text>> ELSE <<>>)
            /\ q = (IF m.call = "none" THEN <<>> ELSE <<call(none)>>) \o (IF m.text THEN <<text>> ELSE <<>>)
        BY <3>2 DEF Projected
      <4>2. SameEntry(call(out), call(none)) /\ SameEntry(text, text)
        BY DEF SameEntry, Shown
      <4> DEFINE c == call(out)
                 d == call(none)
      <4>3. SameEntry(c, d) /\ SameEntry(text, text)
        BY <4>2
      <4>4. /\ p = (IF m.call = "none" THEN <<>> ELSE <<c>>) \o (IF m.text THEN <<text>> ELSE <<>>)
            /\ q = (IF m.call = "none" THEN <<>> ELSE <<d>>) \o (IF m.text THEN <<text>> ELSE <<>>)
        BY <4>1
      <4> HIDE DEF c, d, text, p, q, m
      <4>5. CASE m.call = "none" /\ m.text
        <5>1. p = <<text>> /\ q = <<text>>
          BY <4>4, <4>5
        <5> QED BY <5>1, <4>3
      <4>6. CASE m.call = "none" /\ ~m.text
        <5>1. p = <<>> /\ q = <<>>
          BY <4>4, <4>6
        <5> QED BY <5>1
      <4>7. CASE m.call # "none" /\ m.text
        <5>1. p = <<c>> \o <<text>> /\ q = <<d>> \o <<text>>
          BY <4>4, <4>7, Zenon
        <5>2. p = <<c, text>> /\ q = <<d, text>>
          BY <5>1, Pieces
        <5> QED BY <5>2, <4>3
      <4>8. CASE m.call # "none" /\ ~m.text
        <5>1. p = <<c>> /\ q = <<d>>
          BY <4>4, <4>8
        <5> QED BY <5>1, <4>3
      <4> QED BY <2>1, <4>5, <4>6, <4>7, <4>8
    <3> QED BY <2>1, <3>1, <3>2
  <2> HIDE DEF p, q
  <2>4. \A k \in DOMAIN p : p[k] \in E /\ q[k] \in E
    <3>1. DOMAIN p = DOMAIN q
      BY <2>2, <2>3
    <3> HIDE DEF E
    <3> QED BY <2>2, <3>1
  <2> HIDE DEF E
  <2>5. \A k \in DOMAIN p : <<p[k], q[k]>> \in R
    BY <2>3, <2>4
  <2> HIDE DEF R
  <2>6. Related(R, p, q)
    BY <2>3, <2>5 DEF Related
  <2> QED BY <2>6 DEF p, q
<1>3. a \in Seq(Seq(E)) /\ b \in Seq(Seq(E)) /\ Len(a) = Len(b) /\ Len(a) = Len(ms)
  <2> DEFINE W == Seq(E)
             F(i) == Projected(ms[i], ms)
             G(i) == Projected(ms[i], <<>>)
  <2>1. \A i \in 1 .. Len(ms) : F(i) \in W /\ G(i) \in W
    BY <1>1
  <2>2. Len(ms) \in Nat
    OBVIOUS
  <2> HIDE DEF W, F, G
  <2>3. /\ [i \in 1 .. Len(ms) |-> F(i)] \in Seq(W) /\ [i \in 1 .. Len(ms) |-> G(i)] \in Seq(W)
        /\ Len([i \in 1 .. Len(ms) |-> F(i)]) = Len(ms) /\ Len([i \in 1 .. Len(ms) |-> G(i)]) = Len(ms)
    BY <2>1, <2>2
  <2> QED BY <2>3 DEF W, F, G, Sketch
<1>4. \A i \in 1 .. Len(a) : Related(R, a[i], b[i])
  BY <1>2, <1>3 DEF Sketch
<1>5. Project(ms) = FlattenSeq(a) /\ Outline(ms) = FlattenSeq(b)
  BY DEF Project, Outline
<1> DEFINE u == FlattenSeq(a)
           v == FlattenSeq(b)
<1>6. Related(R, u, v)
  <2> HIDE DEF a, b, R, E
  <2> QED BY <1>3, <1>4, FlattenRelated
<1>7. u \in Seq(E) /\ v \in Seq(E)
  <2> HIDE DEF a, b, E
  <2> QED BY <1>3, FlattenMembers
<1> HIDE DEF u, v, a, b, E
<1>8. Len(u) = Len(v) /\ \A i \in DOMAIN u : SameEntry(u[i], v[i])
  <2>1. Len(u) = Len(v) /\ \A i \in DOMAIN u : <<u[i], v[i]>> \in R
    BY <1>6 DEF Related
  <2>2. ASSUME NEW x, NEW y, <<x, y>> \in R PROVE SameEntry(x, y)
    BY <2>2
  <2> HIDE DEF R
  <2> QED BY <2>1, <2>2
<1>9. DOMAIN u = DOMAIN v
  BY <1>7, <1>8
<1> QED BY <1>5, <1>8, <1>9 DEF Alike, Like, u, v

\* Messages with ids of their own have entries of their own.
OwnIds(ms) == \A i, j \in DOMAIN ms : i # j /\ ms[i].role # "tool" /\ ms[j].role # "tool" => ms[i].id # ms[j].id

LEMMA SketchOnce ==
  ASSUME NEW n \in Nat, NEW m \in MessageUpto(n)
  PROVE  /\ Once(Sketch(m))
         /\ \A i \in DOMAIN Sketch(m) : Sketch(m)[i].id = m.id /\ m.role # "tool"
<1> DEFINE call == Shown("call", m.id, FALSE)
           text == Shown("text", m.id, TRUE)
           user == Shown("user", m.id, TRUE)
<1>1. Sketch(m) = SketchOf(m, call, text) /\ m.role \in {"user", "agent", "tool"} /\ m.text \in BOOLEAN
  BY SketchParts
<1>2. call.id = m.id /\ text.id = m.id /\ user.id = m.id /\ ~SameEntry(call, text) /\ ~SameEntry(text, call)
  BY DEF Shown, SameEntry
<1>3. \/ Sketch(m) = <<>>
      \/ m.role # "tool" /\ \E e \in {call, text, user} : Sketch(m) = <<e>>
      \/ m.role # "tool" /\ Sketch(m) = <<call, text>>
  <2>1. CASE m.role = "agent"
    <3>1. Sketch(m) = (IF m.call = "none" THEN <<>> ELSE <<call>>) \o (IF m.text THEN <<text>> ELSE <<>>)
      BY <2>1, <1>1 DEF SketchOf
    <3> HIDE DEF call, text, user
    <3>2. CASE m.call = "none" /\ m.text
      <4>1. Sketch(m) = <<>> \o <<text>>
        BY <3>1, <3>2, Zenon
      <4> QED BY <4>1, <2>1, Pieces
    <3>3. CASE m.call = "none" /\ ~m.text
      BY <3>1, <3>3
    <3>4. CASE m.call # "none" /\ m.text
      <4>1. Sketch(m) = <<call>> \o <<text>>
        BY <3>1, <3>4, Zenon
      <4>2. Sketch(m) = <<call, text>> /\ m.role # "tool"
        BY <4>1, <2>1, Pieces
      <4> QED BY <4>2
    <3>5. CASE m.call # "none" /\ ~m.text
      <4>1. Sketch(m) = <<call>> \o <<>>
        BY <3>1, <3>5, Zenon
      <4> QED BY <4>1, <2>1, Pieces
    <3> QED BY <3>2, <3>3, <3>4, <3>5
  <2>2. CASE m.role # "agent"
    BY <2>2, <1>1 DEF SketchOf
  <2> QED BY <2>1, <2>2
<1> HIDE DEF call, text, user
<1>4. CASE Sketch(m) = <<>>
  BY <1>4 DEF Once
<1>5. CASE m.role # "tool" /\ \E e \in {call, text, user} : Sketch(m) = <<e>>
  <2>1. PICK e \in {call, text, user} : Sketch(m) = <<e>>
    BY <1>5
  <2> QED BY <2>1, <1>2, <1>5, SingleOnce
<1>6. CASE m.role # "tool" /\ Sketch(m) = <<call, text>>
  <2>1. DOMAIN Sketch(m) = {1, 2} /\ Sketch(m)[1] = call /\ Sketch(m)[2] = text
    BY <1>6
  <2> QED BY <2>1, <1>2, <1>6 DEF Once
<1> QED BY <1>3, <1>4, <1>5, <1>6

LEMMA OutlineOnce ==
  ASSUME NEW n \in Nat, NEW ms \in Seq(MessageUpto(n)), OwnIds(ms)
  PROVE  Once(Outline(ms))
<1> DEFINE pre(k) == [i \in 1 .. k |-> ms[i]]
           Good(k) == /\ Once(Outline(pre(k)))
                      /\ \A j \in DOMAIN Outline(pre(k)) :
                           \E i \in 1 .. k : ms[i].role # "tool" /\ Outline(pre(k))[j].id = ms[i].id
           Bad == {k \in 0 .. Len(ms) : ~Good(k)}
<1>0. Len(ms) \in Nat /\ DOMAIN ms = 1 .. Len(ms) /\ pre(Len(ms)) = ms
  OBVIOUS
<1>1. \A k \in 0 .. Len(ms) : pre(k) \in Seq(MessageUpto(n))
  OBVIOUS
<1>2. ASSUME NEW k \in Bad, \A m \in Bad : k <= m PROVE FALSE
  <2>1. k \in 0 .. Len(ms) /\ ~Good(k)
    OBVIOUS
  <2>2. CASE k = 0
    <3>1. pre(0) = <<>>
      OBVIOUS
    <3>2. DOMAIN Outline(pre(0)) = {}
      BY <3>1, OutlineEmpty
    <3> HIDE DEF pre
    <3> QED BY <2>1, <2>2, <3>2 DEF Once
  <2>3. CASE k # 0
    <3> DEFINE l == k - 1
               m == ms[k]
    <3>1. l \in 0 .. Len(ms) /\ l < k /\ k \in 1 .. Len(ms) /\ k = l + 1
      BY <2>1, <2>3, <1>0
    <3>2. Good(l)
      <4>1. l \notin Bad
        <5> HIDE DEF Bad, l
        <5> QED BY <3>1, <1>2, <1>0
      <4> HIDE DEF Good, l
      <4> QED BY <4>1, <3>1
    <3>3. m \in MessageUpto(n) /\ pre(l) \in Seq(MessageUpto(n))
      BY <3>1, <1>1
    <3>4. pre(k) = Append(pre(l), m)
      BY <3>1
    <3> DEFINE a == Outline(pre(l))
               b == Sketch(m)
    <3>5. Outline(pre(k)) = a \o b
      <4> HIDE DEF pre, m
      <4> QED BY <3>3, <3>4, OutlineAppend
    <3>6. a \in Seq(DurableUpto(n)) /\ b \in Seq(DurableUpto(n))
      <4> HIDE DEF pre, m
      <4> QED BY <3>3, OutlineType, SketchType
    <3>7. /\ Once(a) /\ \A j \in DOMAIN a : \E i \in 1 .. l : ms[i].role # "tool" /\ a[j].id = ms[i].id
      BY <3>2
    <3>8. Once(b) /\ \A j \in DOMAIN b : b[j].id = m.id /\ m.role # "tool"
      <4> HIDE DEF m
      <4> QED BY <3>3, SketchOnce
    <3>9. \A i \in DOMAIN a : \A j \in DOMAIN b : Durable(a[i]) => ~SameEntry(a[i], b[j])
      <4> SUFFICES ASSUME NEW i \in DOMAIN a, NEW j \in DOMAIN b PROVE a[i].id # b[j].id
        BY DEF SameEntry
      <4>1. PICK x \in 1 .. l : ms[x].role # "tool" /\ a[i].id = ms[x].id
        BY <3>7
      <4>2. x \in DOMAIN ms /\ k \in DOMAIN ms /\ x # k
        BY <3>1, <1>0
      <4>3. ms[x].id # ms[k].id
        BY <4>1, <4>2, <3>8 DEF OwnIds
      <4> QED BY <4>1, <4>3, <3>8
    <3> HIDE DEF a, b
    <3>10. Once(a \o b)
      BY <3>6, <3>7, <3>8, <3>9, OnceJoin
    <3>11. ASSUME NEW j \in DOMAIN (a \o b)
           PROVE  \E i \in 1 .. k : ms[i].role # "tool" /\ (a \o b)[j].id = ms[i].id
      <4>0. /\ DOMAIN a = 1 .. Len(a) /\ DOMAIN b = 1 .. Len(b) /\ Len(a) \in Nat /\ Len(b) \in Nat
            /\ DOMAIN (a \o b) = 1 .. Len(a) + Len(b)
        BY <3>6, JoinPlaces
      <4>1. CASE j <= Len(a)
        <5>1. j \in DOMAIN a /\ (a \o b)[j] = a[j]
          <6>1. j \in 1 .. Len(a)
            BY <4>0, <4>1
          <6> QED BY <6>1, <3>6, <4>0, JoinPlaces
        <5>2. PICK x \in 1 .. l : ms[x].role # "tool" /\ a[j].id = ms[x].id
          BY <5>1, <3>7
        <5>3. x \in 1 .. k
          BY <3>1
        <5> QED BY <5>1, <5>2, <5>3
      <4>2. CASE j > Len(a)
        <5>1. j - Len(a) \in 1 .. Len(b) /\ Len(a) + (j - Len(a)) = j
          BY <4>0, <4>2
        <5>2. (a \o b)[Len(a) + (j - Len(a))] = b[j - Len(a)]
          BY <5>1, <3>6, JoinPlaces
        <5>3. k \in 1 .. k
          BY <3>1
        <5> QED BY <5>1, <5>2, <5>3, <3>8, <4>0
      <4> QED BY <4>0, <4>1, <4>2
    <3>12. Good(k)
      BY <3>5, <3>10, <3>11
    <3> QED BY <3>12, <2>1
  <2> QED BY <2>2, <2>3
<1>3. Bad = {}
  <2>1. Bad \subseteq 0 .. Len(ms)
    <3> HIDE DEF Good
    <3> QED OBVIOUS
  <2>2. Bad \subseteq Nat
    <3> HIDE DEF Bad
    <3> QED BY <2>1, <1>0
  <2> HIDE DEF Bad
  <2> QED BY <2>2, <1>2, Least
<1>4. Good(Len(ms))
  <2>1. Len(ms) \in 0 .. Len(ms)
    BY <1>0
  <2> HIDE DEF Good
  <2> QED BY <2>1, <1>3
<1> QED BY <1>0, <1>4

-----------------------------------------------------------------------------
(* Mending.                                                                *)
LEMMA PlaceJoin ==
  ASSUME NEW S, NEW t \in Seq(S), NEW x \in Seq(S), AllDurable(x)
  PROVE  /\ \A b \in 0 .. Len(x) : Place(t \o x, Len(t) + b) = Place(t, Len(t)) + b
         /\ Place(t, Len(t)) \in Nat /\ Len(t) \in Nat /\ Len(x) \in Nat
<1> DEFINE u == t \o x
           n == Place(t, Len(t))
           Bad == {b \in 0 .. Len(x) : Place(u, Len(t) + b) # n + b}
<1>0. /\ u \in Seq(S) /\ Like(t, u) /\ Len(t) \in Nat /\ Len(x) \in Nat /\ DOMAIN x = 1 .. Len(x)
      /\ \A i \in 1 .. Len(x) : u[Len(t) + i] = x[i]
  <2>1. u \in Seq(S) /\ Like(t, u)
    BY BeginsJoin
  <2>2. \A i \in 1 .. Len(x) : u[Len(t) + i] = x[i]
    BY JoinPlaces
  <2>3. Len(t) \in Nat /\ Len(x) \in Nat /\ DOMAIN x = 1 .. Len(x)
    OBVIOUS
  <2> QED BY <2>1, <2>2, <2>3
<1>n. n \in Nat
  BY <1>0, PlaceType
<1> HIDE DEF u
<1>1. ASSUME NEW b \in Bad, \A m \in Bad : b <= m PROVE FALSE
  <2>1. b \in 0 .. Len(x) /\ Place(u, Len(t) + b) # n + b
    OBVIOUS
  <2>2. CASE b = 0
    <3>1. Len(t) \in 0 .. Len(t) /\ Len(t) + 0 = Len(t)
      BY <1>0
    <3>2. Place(u, Len(t)) = n
      BY <3>1, <1>0, LikePlaces
    <3> HIDE DEF n
    <3> QED BY <2>1, <2>2, <3>1, <3>2, <1>n
  <2>3. CASE b # 0
    <3> DEFINE c == b - 1
    <3>1. c \in 0 .. Len(x) /\ c < b /\ b = c + 1 /\ b \in 1 .. Len(x) /\ Len(t) + c \in Nat /\ Len(t) + c + 1 = Len(t) + b
      BY <2>1, <2>3, <1>0
    <3> HIDE DEF c
    <3>2. Place(u, Len(t) + c) = n + c
      <4>1. c \notin Bad
        <5> HIDE DEF Bad
        <5> QED BY <3>1, <1>1, <2>1, <1>0
      <4> HIDE DEF n
      <4> QED BY <4>1, <3>1
    <3>3. Place(u, Len(t) + c + 1) = IF Durable(u[Len(t) + c + 1]) THEN Place(u, Len(t) + c) + 1 ELSE Place(u, Len(t) + c)
      BY <3>1, PlaceNext
    <3>4. Durable(u[Len(t) + b])
      BY <3>1, <1>0 DEF AllDurable
    <3>5. Place(u, Len(t) + b) = n + c + 1
      BY <3>1, <3>2, <3>3, <3>4
    <3> HIDE DEF n
    <3> QED BY <3>5, <3>1, <2>1, <1>n, <1>0
  <2> QED BY <2>2, <2>3
<1>2. Bad = {}
  <2>1. Bad \subseteq 0 .. Len(x)
    OBVIOUS
  <2>2. Bad \subseteq Nat
    <3> HIDE DEF Bad
    <3> QED BY <2>1, <1>0
  <2> HIDE DEF Bad
  <2> QED BY <2>2, <1>1, Least
<1> QED BY <1>0, <1>n, <1>2 DEF u

\* The durable entries, each at its place.
LEMMA DurablesPlaces ==
  ASSUME NEW n \in Nat, NEW out \in Seq(EntryUpto(n))
  PROVE  /\ Len(Durables(out)) = Place(out, Len(out)) /\ Place(out, Len(out)) \in Nat
         /\ \A k \in 1 .. Place(out, Len(out)) : \E x \in DOMAIN out :
              Durable(out[x]) /\ Place(out, x) = k /\ Durables(out)[k] = out[x]
<1> DEFINE keep == {k \in DOMAIN out : Durable(out[k])}
           table == [i \in keep |-> out[i]]
           N == Place(out, Len(out))
<1>1. DOMAIN out = 1 .. Len(out) /\ Len(out) \in Nat
  OBVIOUS
<1>2. keep = {k \in 1 .. Len(out) : Durable(out[k])} /\ keep \subseteq Nat
  BY <1>1
<1>3. IsFiniteSet(keep) /\ Cardinality(keep) = N /\ N \in Nat
  BY <1>1, <1>2, PlaceType DEF Place
<1>4. DOMAIN table = keep /\ Durables(out) = Listed(table) /\ \A x \in keep : table[x] = out[x]
  BY DEF Durables
<1>5. ASSUME NEW x \in keep
      PROVE  Place(out, x) = Cardinality({y \in keep : y < x}) + 1 /\ Cardinality({y \in keep : y < x}) \in Nat
  <2>1. x \in 1 .. Len(out) /\ Durable(out[x]) /\ x - 1 \in Nat /\ x - 1 + 1 = x
    BY <1>1
  <2>2. {y \in keep : y < x} = {y \in 1 .. x - 1 : Durable(out[y])}
    BY <2>1, <1>2, <1>1
  <2>3. Cardinality({y \in keep : y < x}) = Place(out, x - 1) /\ Place(out, x - 1) \in Nat
    BY <2>1, <2>2, PlaceType DEF Place
  <2>4. Place(out, x - 1 + 1) = IF Durable(out[x - 1 + 1]) THEN Place(out, x - 1) + 1 ELSE Place(out, x - 1)
    BY <2>1, PlaceNext
  <2> HIDE DEF keep
  <2> QED BY <2>1, <2>3, <2>4
<1> HIDE DEF keep, table, N
<1>6. DOMAIN Listed(table) = 1 .. N
  <2>1. DOMAIN Listed(table) = 1 .. Cardinality(DOMAIN table)
    BY <1>2, <1>3, <1>4, ListedPlaces
  <2> QED BY <2>1, <1>3, <1>4
<1>7. ASSUME NEW k \in 1 .. N
      PROVE  \E x \in keep : Place(out, x) = k /\ Listed(table)[k] = out[x]
  <2>1. PICK x \in keep : Listed(table)[k] = table[x] /\ Cardinality({y \in keep : y < x}) = k - 1
    <3>1. k \in 1 .. Cardinality(DOMAIN table)
      BY <1>3, <1>4
    <3>2. \E x \in DOMAIN table : Listed(table)[k] = table[x] /\ Cardinality({y \in DOMAIN table : y < x}) = k - 1
      BY <3>1, <1>2, <1>3, <1>4, ListedPlaces
    <3> QED BY <3>2, <1>4
  <2>2. Place(out, x) = Cardinality({y \in keep : y < x}) + 1
    BY <1>5
  <2>3. Place(out, x) = k
    BY <2>1, <2>2, <1>3
  <2> QED BY <2>1, <2>3, <1>4
<1>8. Len(Listed(table)) = N
  <2>1. Durables(out) \in Seq(EntryUpto(n))
    BY DurablesType
  <2> DEFINE L == Listed(table)
  <2>2. L \in Seq(EntryUpto(n)) /\ DOMAIN L = 1 .. N
    BY <2>1, <1>4, <1>6
  <2> HIDE DEF L
  <2>3. DOMAIN L = 1 .. Len(L) /\ Len(L) \in Nat
    BY <2>2
  <2>4. \A a, b \in Nat : 1 .. a = 1 .. b => a = b
    <3> SUFFICES ASSUME NEW a \in Nat, NEW b \in Nat, 1 .. a = 1 .. b PROVE a = b
      OBVIOUS
    <3>1. a # 0 => a \in 1 .. b
      OBVIOUS
    <3>2. b # 0 => b \in 1 .. a
      OBVIOUS
    <3> QED BY <3>1, <3>2
  <2> QED BY <2>2, <2>3, <2>4, <1>3 DEF L
<1>9. \A x \in keep : x \in DOMAIN out /\ Durable(out[x])
  BY DEF keep
<1> QED BY <1>3, <1>4, <1>7, <1>8, <1>9 DEF N

LEMMA CleanItself ==
  ASSUME NEW S, NEW p \in Seq(S), Once(p), AllDurable(p)
  PROVE  Clean(p, p) /\ \A i \in DOMAIN p : Place(p, i) = i
<1>1. \A i \in DOMAIN p : Place(p, i) = i
  <2> SUFFICES ASSUME NEW i \in DOMAIN p PROVE Place(p, i) = i
    OBVIOUS
  <2>1. i \in Nat /\ \A k \in 1 .. i : k \in DOMAIN p
    OBVIOUS
  <2> QED BY <2>1, PlaceDurable DEF AllDurable
<1>2. Aligned(p, p)
  <2> SUFFICES ASSUME NEW i \in DOMAIN p, NEW j \in DOMAIN p, SameEntry(p[i], p[j]), Place(p, i) < j
               PROVE  FALSE
    BY DEF Aligned
  <2>1. i = j
    BY DEF Once, AllDurable
  <2>2. j \in Nat
    OBVIOUS
  <2> QED BY <2>1, <2>2, <1>1
<1> QED BY <1>1, <1>2 DEF Clean

\* The projection behind the entries that are shown, when none is torn.
LEMMA TailFits ==
  ASSUME NEW S, NEW t \in Seq(S), NEW p \in Seq(S), NEW q \in Seq(S), Alike(q, p), Once(p), AllDurable(p),
         Clean(t, p), Place(t, Len(t)) < Len(p), ~Torn(t, Len(t), p)
  PROVE  Fits(t \o SubSeq(q, Place(t, Len(t)) + 1, Len(q)), p)
<1> DEFINE L == Place(t, Len(t))
           x == SubSeq(q, L + 1, Len(q))
           u == t \o x
<1>1. /\ Len(t) \in Nat /\ Len(p) \in Nat /\ Len(q) = Len(p) /\ DOMAIN t = 1 .. Len(t) /\ DOMAIN p = 1 .. Len(p)
      /\ \A i \in 1 .. Len(p) : SameEntry(q[i], p[i])
  <2>1. Len(t) \in Nat /\ Len(p) \in Nat /\ DOMAIN t = 1 .. Len(t) /\ DOMAIN p = 1 .. Len(p) /\ DOMAIN q = 1 .. Len(q)
    OBVIOUS
  <2> QED BY <2>1 DEF Alike, Like
<1>2. L \in Nat /\ L < Len(p)
  BY <1>1, PlaceType
<1> HIDE DEF L
<1>3. /\ x \in Seq(S) /\ Len(x) = Len(p) - L /\ \A b \in 1 .. Len(x) : x[b] = q[L + b] /\ L + b \in 1 .. Len(p)
      /\ DOMAIN x = 1 .. Len(x)
  BY <1>1, <1>2
<1> HIDE DEF x
<1>4. \A b \in DOMAIN x : L + b \in DOMAIN p /\ SameEntry(x[b], p[L + b])
  BY <1>1, <1>3
<1>5. AllDurable(x)
  <2> SUFFICES ASSUME NEW b \in DOMAIN x PROVE Durable(x[b])
    BY DEF AllDurable
  <2>1. SameEntry(x[b], p[L + b]) /\ Durable(p[L + b])
    BY <1>4 DEF AllDurable
  <2> QED BY <2>1 DEF SameEntry, Durable
<1>6. ASSUME NEW i \in DOMAIN t, NEW j \in DOMAIN p, SameEntry(t[i], p[j])
      PROVE  ~(Place(t, i) < j) /\ Place(t, i) <= L /\ Place(t, i) \in Nat
  <2>1. i \in Nat /\ i <= Len(t) /\ i \in 0 .. Len(t)
    BY <1>1
  <2>2. Place(t, i) <= L /\ Place(t, i) \in Nat
    <3>1. Place(t, i) <= Place(t, Len(t))
      BY <2>1, <1>1, PlaceGrows
    <3> QED BY <3>1, <2>1, PlaceType DEF L
  <2>3. ASSUME Torn(t, i, p) PROVE FALSE
    <3>1. Like(t, t) /\ Like(p, p)
      BY LikeItself
    <3>2. Torn(t, Len(t), p)
      BY <2>1, <2>3, <1>1, <3>1, TornGrows
    <3> QED BY <3>2
  <2>4. ~(Place(t, i) < j)
    BY <1>6, <2>3 DEF Clean, Aligned
  <2> QED BY <2>2, <2>4
<1>7. Once(u)
  <2>1. Once(x)
    <3> SUFFICES ASSUME NEW a \in DOMAIN x, NEW b \in DOMAIN x, a # b, SameEntry(x[a], x[b]) PROVE FALSE
      BY DEF Once
    <3>1. SameEntry(x[a], p[L + a]) /\ SameEntry(x[b], p[L + b]) /\ L + a \in DOMAIN p /\ L + b \in DOMAIN p
      BY <1>4
    <3>2. SameEntry(p[L + a], p[L + b])
      BY <3>1 DEF SameEntry
    <3>3. L + a # L + b
      BY <1>2, <1>3
    <3> QED BY <3>1, <3>2, <3>3 DEF Once, AllDurable
  <2>2. \A i \in DOMAIN t : \A b \in DOMAIN x : Durable(t[i]) => ~SameEntry(t[i], x[b])
    <3> SUFFICES ASSUME NEW i \in DOMAIN t, NEW b \in DOMAIN x, SameEntry(t[i], x[b]) PROVE FALSE
      OBVIOUS
    <3>1. SameEntry(t[i], p[L + b]) /\ L + b \in DOMAIN p
      BY <1>4 DEF SameEntry
    <3>2. ~(Place(t, i) < L + b) /\ Place(t, i) <= L /\ Place(t, i) \in Nat
      BY <3>1, <1>6
    <3>3. b >= 1 /\ b \in Nat
      BY <1>3
    <3> QED BY <3>2, <3>3, <1>2
  <2>3. Once(t)
    BY DEF Clean
  <2> HIDE DEF Once
  <2> QED BY <2>1, <2>2, <2>3, <1>3, OnceJoin
<1>8. \A b \in 0 .. Len(x) : Place(u, Len(t) + b) = L + b
  BY <1>3, <1>5, PlaceJoin DEF L
<1>9. /\ u \in Seq(S) /\ Like(t, u) /\ DOMAIN u = 1 .. Len(t) + Len(x) /\ Len(u) = Len(t) + Len(x)
      /\ \A i \in 1 .. Len(t) : u[i] = t[i]
      /\ \A i \in 1 .. Len(x) : u[Len(t) + i] = x[i]
  <2>1. u \in Seq(S) /\ Like(t, u)
    BY <1>3, BeginsJoin
  <2>2. /\ DOMAIN u = 1 .. Len(t) + Len(x) /\ Len(u) = Len(t) + Len(x)
        /\ \A i \in 1 .. Len(t) : u[i] = t[i]
        /\ \A i \in 1 .. Len(x) : u[Len(t) + i] = x[i]
    <3>1. Joined(t, x)
      BY <1>3, Joins
    <3> QED BY <3>1 DEF Joined
  <2> QED BY <2>1, <2>2
<1> HIDE DEF u
<1>10. Level(u, p)
  <2>1. Len(x) \in 0 .. Len(x) /\ L + Len(x) = Len(p)
    BY <1>1, <1>2, <1>3
  <2>2. Place(u, Len(u)) = Len(p)
    BY <2>1, <1>8, <1>9
  <2> QED BY <2>2, <1>1 DEF Level
<1>11. Aligned(u, p)
  <2> SUFFICES ASSUME NEW i \in DOMAIN u, NEW j \in DOMAIN p, SameEntry(u[i], p[j]), Place(u, i) < j PROVE FALSE
    BY DEF Aligned
  <2>1. CASE i <= Len(t)
    <3>1. i \in 1 .. Len(t) /\ i \in 0 .. Len(t) /\ i \in DOMAIN t /\ u[i] = t[i]
      BY <2>1, <1>9, <1>1
    <3>2. Place(t, i) = Place(u, i)
      BY <3>1, <1>9, LikePlaces
    <3>3. ~(Place(t, i) < j)
      BY <3>1, <1>6
    <3> QED BY <3>2, <3>3
  <2>2. CASE i > Len(t)
    <3> DEFINE b == i - Len(t)
    <3>1. b \in 1 .. Len(x) /\ b \in 0 .. Len(x) /\ Len(t) + b = i /\ b \in DOMAIN x
      BY <2>2, <1>9, <1>1, <1>3
    <3> HIDE DEF b
    <3>2. u[i] = x[b] /\ Place(u, i) = L + b
      BY <3>1, <1>8, <1>9
    <3>3. SameEntry(x[b], p[L + b]) /\ L + b \in DOMAIN p
      BY <3>1, <1>4
    <3>4. SameEntry(p[L + b], p[j])
      BY <3>2, <3>3 DEF SameEntry
    <3>5. L + b = j
      BY <3>3, <3>4 DEF Once, AllDurable
    <3>6. j \in Nat
      BY <1>1
    <3> QED BY <3>2, <3>5, <3>6
  <2> QED BY <2>1, <2>2, <1>9, <1>1
<1> QED BY <1>7, <1>10, <1>11 DEF Fits, Clean, L, x, u

\* An entry that stands for no message changes nothing.
LEMMA MarkIsNone ==
  ASSUME NEW n \in Nat, NEW e \in {Meta, Mark}, NEW p, AllDurable(p), NEW t
  PROVE  /\ e \in EntryUpto(n) /\ ~Durable(e)
         /\ \A j \in DOMAIN p : ~SameEntry(e, p[j])
         /\ \A i \in DOMAIN t : Durable(t[i]) => ~SameEntry(t[i], e)
<1>1. e \in EntryUpto(n)
  BY MarksType
<1>2. ~Durable(e)
  BY DEF Durable, Meta, Mark, Shown
<1> QED BY <1>1, <1>2 DEF SameEntry, Durable, AllDurable

LEMMA HealedFits ==
  ASSUME NEW n \in Nat, NEW out \in Seq(EntryUpto(n)), NEW ms \in Seq(MessageUpto(n)), NEW p \in Seq(EntryUpto(n)),
         Alike(Project(ms), p), Once(p), AllDurable(p), Clean(out, p)
  PROVE  Fits(Healed(out, ms), p)
<1> DEFINE shown == Durables(out)
           q == Project(ms)
           L == Place(out, Len(out))
           E == EntryUpto(n)
<1>1. q \in Seq(E) /\ Len(q) = Len(p) /\ Len(p) \in Nat /\ DOMAIN out = 1 .. Len(out) /\ Len(out) \in Nat
      /\ \A i \in 1 .. Len(p) : SameEntry(q[i], p[i])
  <2>1. q \in Seq(E)
    BY ProjectType
  <2>2. Len(p) \in Nat /\ DOMAIN out = 1 .. Len(out) /\ Len(out) \in Nat /\ DOMAIN q = 1 .. Len(q)
    BY <2>1
  <2> HIDE DEF q, E
  <2> QED BY <2>1, <2>2 DEF Alike, Like, q
<1>2. /\ Len(shown) = L /\ L \in Nat
      /\ \A k \in 1 .. L : \E x \in DOMAIN out : Durable(out[x]) /\ Place(out, x) = k /\ shown[k] = out[x]
  BY DurablesPlaces
<1>3. Healed(out, ms) =
        IF Len(shown) < Len(q) /\ \A k \in 1 .. Len(shown) : Pairs(shown[k], q[k])
        THEN out \o <<Meta>> \o SubSeq(q, Len(shown) + 1, Len(q)) ELSE out
  BY DEF Healed
<1> HIDE DEF shown, q, L, E
<1>4. CASE ~(L < Len(p))
  <2>1. Healed(out, ms) = out
    BY <1>1, <1>2, <1>3, <1>4
  <2>2. Level(out, p)
    BY <1>1, <1>2, <1>4 DEF Level, L
  <2> QED BY <2>1, <2>2 DEF Fits
<1>5. CASE L < Len(p) /\ \E k \in 1 .. L : ~Pairs(shown[k], q[k])
  <2>1. PICK k \in 1 .. L : ~Pairs(shown[k], q[k])
    BY <1>5
  <2>2. PICK x \in DOMAIN out : Durable(out[x]) /\ Place(out, x) = k /\ shown[k] = out[x]
    BY <1>2
  <2>3. k \in 1 .. Len(p) /\ k <= Len(p)
    BY <1>1, <1>2, <1>5
  <2>4. ~Pairs(out[x], p[k])
    <3>1. SameEntry(q[k], p[k]) /\ SameEntry(out[x], out[x])
      BY <2>3, <1>1 DEF SameEntry
    <3> QED BY <3>1, <2>1, <2>2, PairsAlike
  <2>5. Torn(out, Len(out), p)
    BY <2>2, <2>3, <2>4, <1>1 DEF Torn
  <2>6. Healed(out, ms) = out
    BY <2>1, <1>2, <1>3
  <2> QED BY <2>5, <2>6 DEF Fits, Level
<1>6. CASE L < Len(p) /\ \A k \in 1 .. L : Pairs(shown[k], q[k])
  <2> DEFINE t == out \o <<Meta>>
  <2>1. Healed(out, ms) = t \o SubSeq(q, L + 1, Len(q))
    BY <1>1, <1>2, <1>3, <1>6
  <2>2. /\ Meta \in E /\ ~Durable(Meta)
        /\ \A j \in DOMAIN p : ~SameEntry(Meta, p[j])
        /\ \A i \in DOMAIN out : Durable(out[i]) => ~SameEntry(out[i], Meta)
    BY MarkIsNone DEF E
  <2>3. Clean(t, p)
    BY <2>2, CleanAfter DEF E
  <2>4. /\ t \in Seq(E) /\ Like(out, t) /\ Len(t) = Len(out) + 1 /\ t[Len(out) + 1] = Meta
        /\ \A i \in 1 .. Len(out) : t[i] = out[i]
    <3> DEFINE y == <<Meta>>
    <3>1. y \in Seq(E) /\ Len(y) = 1 /\ y[1] = Meta
      BY <2>2
    <3> HIDE DEF y
    <3>2. out \o y \in Seq(E) /\ Like(out, out \o y)
      BY <3>1, BeginsJoin DEF E
    <3>3. out \in Seq(E)
      BY DEF E
    <3>4. /\ Len(out \o y) = Len(out) + Len(y)
          /\ \A i \in 1 .. Len(out) : (out \o y)[i] = out[i]
          /\ \A i \in 1 .. Len(y) : (out \o y)[Len(out) + i] = y[i]
      <4>1. Joined(out, y)
        BY <3>1, <3>3, Joins
      <4> QED BY <4>1 DEF Joined
    <3>5. (out \o y)[Len(out) + 1] = Meta
      <4>1. 1 \in 1 .. Len(y)
        BY <3>1
      <4> QED BY <4>1, <3>4, <3>1
    <3> QED BY <3>1, <3>2, <3>4, <3>5 DEF y
  <2> HIDE DEF t
  <2>5. \A i \in 0 .. Len(out) : Place(out, i) = Place(t, i)
    BY <2>4, LikePlaces DEF E
  <2>6. Place(t, Len(t)) = L
    <3>1. Place(t, Len(out)) = L
      <4>1. Len(out) \in 0 .. Len(out)
        BY <1>1
      <4> QED BY <4>1, <2>5 DEF L
    <3>2. Place(t, Len(out) + 1) = IF Durable(t[Len(out) + 1]) THEN Place(t, Len(out)) + 1 ELSE Place(t, Len(out))
      BY <1>1, PlaceNext
    <3> QED BY <3>1, <3>2, <2>2, <2>4
  <2>7. ~Torn(t, Len(t), p)
    <3> SUFFICES ASSUME NEW x \in 1 .. Len(t), Durable(t[x]), Place(t, x) <= Len(p), ~Pairs(t[x], p[Place(t, x)])
                 PROVE  FALSE
      BY DEF Torn
    <3>1. x \in 1 .. Len(out)
      <4>1. x # Len(out) + 1
        BY <2>2, <2>4
      <4> QED BY <4>1, <2>4, <1>1
    <3>2. x \in 0 .. Len(out) /\ x \in Nat \ {0} /\ x <= Len(out) /\ x \in Nat /\ x \in DOMAIN out
      BY <3>1, <1>1
    <3>3. t[x] = out[x] /\ Place(out, x) = Place(t, x) /\ Durable(out[x])
      BY <3>1, <3>2, <2>4, <2>5
    <3> DEFINE k == Place(out, x)
    <3>4. k \in Nat /\ 1 <= k
      BY <3>2, <3>3, DurablePlace
    <3>5. k \in 1 .. L
      <4>1. k <= Place(out, Len(out))
        BY <3>2, <1>1, PlaceGrows
      <4> HIDE DEF k
      <4> QED BY <4>1, <3>4, <1>2 DEF L
    <3> HIDE DEF k
    <3>6. PICK y \in DOMAIN out : Durable(out[y]) /\ Place(out, y) = k /\ shown[k] = out[y]
      BY <3>5, <1>2
    <3>7. y = x
      <4>1. y \in Nat
        BY <1>1
      <4>2. CASE y < x
        <5>1. Place(out, y) < Place(out, x)
          BY <4>1, <4>2, <3>2, <3>3, PlaceGrows
        <5> QED BY <5>1, <3>6, <3>4 DEF k
      <4>3. CASE x < y
        <5>1. Place(out, x) < Place(out, y)
          BY <4>1, <4>3, <3>2, <3>6, PlaceGrows
        <5> QED BY <5>1, <3>6, <3>4 DEF k
      <4> QED BY <4>1, <4>2, <4>3, <3>2
    <3>8. Pairs(out[x], q[k])
      BY <3>5, <3>6, <3>7, <1>6
    <3>9. SameEntry(q[k], p[k]) /\ SameEntry(out[x], out[x])
      <4>1. k \in 1 .. Len(p)
        BY <3>5, <1>6, <1>1, <1>2
      <4> QED BY <4>1, <1>1 DEF SameEntry
    <3>10. Pairs(out[x], p[k])
      BY <3>8, <3>9, PairsAlike
    <3> QED BY <3>3, <3>10 DEF k
  <2>8. Fits(t \o SubSeq(q, Place(t, Len(t)) + 1, Len(q)), p)
    <3>1. Place(t, Len(t)) < Len(p)
      BY <2>6, <1>6
    <3>2. Alike(q, p)
      BY DEF q
    <3> QED BY <3>1, <3>2, <2>3, <2>4, <2>7, <1>1, TailFits DEF E
  <2> QED BY <2>1, <2>6, <2>8
<1> QED BY <1>4, <1>5, <1>6

\* What is read back fits the messages it is mended from.
LEMMA RebuiltFits ==
  ASSUME NEW n \in Nat, NEW table, TableOK(table, n), NEW ms \in Seq(MessageUpto(n)), NEW popped,
         Once(Outline(ms)), Clean(Listed(table), Outline(ms))
  PROVE  Fits(WithDropMark(Rebuilt(table, ms, TRUE), popped), Outline(ms))
<1> DEFINE p == Outline(ms)
           q == Project(ms)
           E == EntryUpto(n)
           out == IF DOMAIN table # {} THEN Listed(table) ELSE q
           read == Healed(out, ms)
<1>1. p \in Seq(E) /\ AllDurable(p) /\ q \in Seq(E) /\ Alike(q, p)
  <2>1. p \in Seq(DurableUpto(n)) /\ p \in Seq(E)
    BY OutlineType
  <2>2. AllDurable(p)
    BY <2>1, DurableUptoType
  <2> QED BY <2>1, <2>2, ProjectType, ProjectOutline
<1>2. Clean(q, p)
  <2>1. Clean(p, p)
    BY <1>1, CleanItself
  <2>2. Like(q, p) /\ Like(p, p)
    BY <1>1, LikeItself DEF Alike
  <2> HIDE DEF p, q, E
  <2> QED BY <2>1, <2>2, <1>1, CleanPart
<1>3. Listed(table) \in Seq(E)
  BY ListedType DEF TableOK
<1>4. out \in Seq(E) /\ Clean(out, p)
  BY <1>1, <1>2, <1>3
<1>5. Rebuilt(table, ms, TRUE) = read
  BY DEF Rebuilt
<1>6. Fits(read, p) /\ read \in Seq(E)
  <2>1. Fits(read, p)
    <3> HIDE DEF out, p
    <3> QED BY <1>1, <1>4, HealedFits DEF p
  <2>2. read \in Seq(E)
    <3> HIDE DEF out
    <3> QED BY <1>4, HealedType
  <2> QED BY <2>1, <2>2
<1> HIDE DEF p, read
<1>7. Append(read, Meta) = read \o <<Meta>>
  BY <1>6
<1>8. Fits(read \o <<Meta>>, p)
  <2>1. /\ Meta \in E
        /\ \A j \in DOMAIN p : ~SameEntry(Meta, p[j])
        /\ \A i \in DOMAIN read : Durable(read[i]) => ~SameEntry(read[i], Meta)
    BY <1>1, MarkIsNone
  <2> QED BY <2>1, <1>1, <1>6, FitsAfter
<1>9. WithDropMark(read, popped) \in {read, read \o <<Meta>>}
  BY <1>7 DEF WithDropMark
<1> QED BY <1>5, <1>6, <1>8, <1>9 DEF p

-----------------------------------------------------------------------------
(* What a run's messages will project to once the turn has logged what it  *)
(* shows already, and what the turn will show of what it has logged.       *)
OwedBy(t) == IF t.at \in {"open", "user"} THEN <<Shown("user", t.id, TRUE)>> ELSE <<>>
ComingFrom(t) ==
  (IF t.at \in {"called", "fold"} /\ t.text THEN Text(t.id) ELSE <<>>)
    \o (IF t.at = "called" THEN <<Shown("call", t.id, FALSE)>> ELSE <<>>)
Base(r) == IF r = NoRun THEN <<>> ELSE Outline(messages[r])
Plan(r) == Base(r) \o (IF r = run THEN OwedBy(turn) ELSE <<>>)

(* Every sequence of entries that may become the transcript is aligned     *)
(* with the plan of its run.                                               *)
UnusedEmpty == \A r \in Run : r > runs => messages[r] = <<>>
PlansOnce == \A r \in Run : Once(Plan(r))
TurnRuns == turn.at \notin {"none", "open"} => turn.run = run
LoadedOK ==
  switch.at \in {"popped", "loaded", "released", "built"} => switch.loaded = messages[switch.target]
ShownFits == ~broken => Fits(transcript \o ComingFrom(turn), Plan(run))
PassFits ==
  ~broken /\ writer.by # "none" =>
    Clean(writer.entries, Plan(writer.run)) /\ Follows(rows[writer.run], writer.entries)
RowsFit == ~broken => \A r \in Run : Clean(Listed(rows[r]), Plan(r))
BuiltFits == ~broken /\ switch.at = "built" => Fits(switch.built, Plan(switch.target))
OnceInv ==
  /\ UnusedEmpty /\ PlansOnce /\ TurnRuns /\ LoadedOK
  /\ ShownFits /\ PassFits /\ RowsFit /\ BuiltFits

LEMMA NothingJoined ==
  ASSUME NEW S, NEW s \in Seq(S)
  PROVE  s \o <<>> = s /\ <<>> \o s = s /\ <<>> \in Seq(S)
OBVIOUS

LEMMA CleanNothing ==
  ASSUME NEW t, NEW p, DOMAIN t = {}
  PROVE  Clean(t, p)
BY DEF Clean, Once, Aligned

LEMMA FitsNothing ==
  ASSUME NEW S, NEW t \in Seq(S), Once(t)
  PROVE  Fits(t, <<>>)
<1>1. Len(t) \in Nat /\ Len(<<>>) = 0 /\ DOMAIN <<>> = {}
  OBVIOUS
<1>2. Place(t, Len(t)) \in Nat
  BY <1>1, PlaceType
<1>3. Place(t, Len(t)) >= Len(<<>>)
  BY <1>1, <1>2
<1>4. Aligned(t, <<>>)
  BY <1>1 DEF Aligned
<1> QED BY <1>3, <1>4 DEF Fits, Clean, Level

LEMMA OncePart ==
  ASSUME NEW S, NEW s \in Seq(S), NEW t \in Seq(S), Like(s, t), Once(t)
  PROVE  Once(s)
<1> DEFINE q == <<>>
<1>1. q \in Seq(S) /\ Clean(t, q) /\ Like(q, q)
  BY FitsNothing, LikeItself DEF Fits
<1> HIDE DEF q
<1>2. Clean(s, q)
  BY <1>1, CleanPart
<1> QED BY <1>2 DEF Clean

LEMMA ListedNothing ==
  ASSUME NEW table, DOMAIN table = {}
  PROVE  DOMAIN Listed(table) = {}
<1>1. DOMAIN table = 0 .. 0 - 1 /\ 0 \in Nat /\ 1 .. 0 = {}
  OBVIOUS
<1> QED BY <1>1, ListedInOrder

LEMMA UptoId ==
  ASSUME NEW n \in Nat, NEW t \in Seq(EntryUpto(n)), NEW i \in DOMAIN t
  PROVE  t[i] \in EntryUpto(n) /\ t[i].id <= n /\ t[i].id \in Nat
<1>1. t[i] \in EntryUpto(n)
  OBVIOUS
<1> QED BY <1>1 DEF EntryUpto, Entry, Id

\* What has an id of its own is in no sequence of the past.
LEMMA FreshApart ==
  ASSUME NEW n \in Nat, NEW t \in Seq(EntryUpto(n)), NEW y, \A j \in DOMAIN y : y[j].id > n
  PROVE  Apart(t, y)
<1> SUFFICES ASSUME NEW i \in DOMAIN t, NEW j \in DOMAIN y, SameEntry(t[i], y[j]) PROVE FALSE
  BY DEF Apart
<1>1. t[i].id <= n /\ t[i].id \in Nat
  BY UptoId
<1> QED BY <1>1 DEF SameEntry

LEMMA FreshEntry ==
  ASSUME NEW n \in Nat, NEW t \in Seq(EntryUpto(n)), NEW e, e.id = n + 1
  PROVE  \A i \in DOMAIN t : ~SameEntry(t[i], e) /\ ~SameEntry(e, t[i])
<1> SUFFICES ASSUME NEW i \in DOMAIN t PROVE t[i].id # e.id
  BY DEF SameEntry
<1>1. t[i].id <= n /\ t[i].id \in Nat
  BY UptoId
<1> QED BY <1>1

LEMMA OwedType ==
  ASSUME TypeInv
  PROVE  OwedBy(turn) \in Seq(DurableUpto(ids)) /\ OwedBy(turn) \in Seq(EntryUpto(ids))
<1> DEFINE e == Shown("user", turn.id, TRUE)
<1>0. ids \in Nat
  BY DEF TypeInv, CoreOK
<1>1. CASE turn.at \in {"open", "user"}
  <2>1. turn # NoTurn
    BY <1>1 DEF NoTurn
  <2>2. turn.id \in Id /\ turn.id <= ids
    BY <2>1, TurnId
  <2>3. e \in EntryUpto(ids)
    BY <2>2, <1>0, ShownType
  <2>4. e \in DurableUpto(ids)
    BY <2>3 DEF DurableUpto, Durable, Shown
  <2>5. OwedBy(turn) = <<e>>
    BY <1>1 DEF OwedBy
  <2> HIDE DEF e
  <2> QED BY <2>3, <2>4, <2>5
<1>2. CASE turn.at \notin {"open", "user"}
  BY <1>2 DEF OwedBy
<1> QED BY <1>1, <1>2

LEMMA PlanType ==
  ASSUME TypeInv, NEW r \in Run \cup {NoRun}
  PROVE  /\ Plan(r) \in Seq(DurableUpto(ids)) /\ Plan(r) \in Seq(EntryUpto(ids)) /\ AllDurable(Plan(r))
         /\ r \in Run => /\ r # NoRun /\ messages[r] \in Seq(MessageUpto(ids))
                         /\ Plan(r) = Outline(messages[r]) \o (IF r = run THEN OwedBy(turn) ELSE <<>>)
         /\ Plan(NoRun) = IF NoRun = run THEN OwedBy(turn) ELSE <<>>
         /\ Base(r) \in Seq(DurableUpto(ids)) /\ Base(r) \in Seq(EntryUpto(ids)) /\ Base(r) \o <<>> = Base(r)
         /\ ids \in Nat
<1> DEFINE D == DurableUpto(ids)
           a == IF r = NoRun THEN <<>> ELSE Outline(messages[r])
           b == IF r = run THEN OwedBy(turn) ELSE <<>>
<1>0. ids \in Nat /\ NoRun \notin Run
  BY SyncAssumption DEF Run, NoRun, TypeInv, CoreOK
<1>1. r \in Run => messages[r] \in Seq(MessageUpto(ids))
  BY DEF TypeInv, StoreOK
<1>2. a \in Seq(D)
  BY <1>0, <1>1, OutlineType
<1>3. b \in Seq(D) /\ OwedBy(turn) \in Seq(D)
  BY OwedType
<1>4. Plan(r) = a \o b
  BY DEF Plan, Base
<1>5. \A s \in Seq(D) : <<>> \o s = s
  <2> HIDE DEF D
  <2> QED OBVIOUS
<1>6. Plan(NoRun) = IF NoRun = run THEN OwedBy(turn) ELSE <<>>
  <2>1. Plan(NoRun) = <<>> \o (IF NoRun = run THEN OwedBy(turn) ELSE <<>>)
    BY DEF Plan, Base
  <2>2. (IF NoRun = run THEN OwedBy(turn) ELSE <<>>) \in Seq(D)
    BY <1>3
  <2> QED BY <2>1, <2>2, <1>5
<1>7. r \in Run => /\ r # NoRun
                   /\ Plan(r) = Outline(messages[r]) \o (IF r = run THEN OwedBy(turn) ELSE <<>>)
  BY <1>0 DEF Plan, Base
<1>8. Plan(r) \in Seq(D)
  <2> HIDE DEF a, b, D
  <2> QED BY <1>2, <1>3, <1>4
<1>9. Plan(r) \in Seq(EntryUpto(ids)) /\ AllDurable(Plan(r))
  BY <1>8, <1>0, DurableUptoType
<1>10. Base(r) \in Seq(D) /\ Base(r) \o <<>> = Base(r)
  <2>1. Base(r) = a
    BY DEF Base
  <2> HIDE DEF a, D
  <2> QED BY <2>1, <1>2, NothingJoined
<1>11. Base(r) \in Seq(EntryUpto(ids))
  BY <1>10, <1>0, DurableUptoType
<1> QED BY <1>0, <1>1, <1>6, <1>7, <1>8, <1>9, <1>10, <1>11

\* A turn that owes nothing leaves the plan to the messages.
LEMMA PlanIsOutline ==
  ASSUME TypeInv, NEW r \in Run, r # run \/ OwedBy(turn) = <<>>
  PROVE  Plan(r) = Outline(messages[r]) /\ messages[r] \in Seq(MessageUpto(ids))
         /\ Outline(messages[r]) \in Seq(EntryUpto(ids))
<1>1. ids \in Nat /\ messages[r] \in Seq(MessageUpto(ids))
      /\ Plan(r) = Outline(messages[r]) \o (IF r = run THEN OwedBy(turn) ELSE <<>>)
  BY PlanType
<1>2. Plan(r) = Outline(messages[r]) \o <<>>
  BY <1>1
<1>3. Outline(messages[r]) \in Seq(EntryUpto(ids))
  BY <1>1, OutlineType
<1>4. Outline(messages[r]) \o <<>> = Outline(messages[r])
  BY <1>3, NothingJoined
<1> QED BY <1>1, <1>2, <1>3, <1>4

LEMMA ComingType ==
  ASSUME TypeInv
  PROVE  /\ ComingFrom(turn) \in Seq(EntryUpto(ids)) /\ transcript \in Seq(EntryUpto(ids))
         /\ transcript \o ComingFrom(turn) \in Seq(EntryUpto(ids)) /\ ids \in Nat
         /\ turn.at \notin {"called", "fold"} =>
              ComingFrom(turn) = <<>> /\ transcript \o ComingFrom(turn) = transcript
         /\ turn.at = "fold" => ComingFrom(turn) = IF turn.text THEN Text(turn.id) ELSE <<>>
<1> DEFINE E == EntryUpto(ids)
           x == Shown("text", turn.id, TRUE)
           c == Shown("call", turn.id, FALSE)
<1>0. ids \in Nat /\ transcript \in Seq(E)
  BY DEF TypeInv, CoreOK
<1>1. Text(turn.id) = <<x>>
  BY DEF Text
<1>2. \A e, f \in E : /\ <<>> \in Seq(E) /\ <<e>> \in Seq(E) /\ <<e>> \o <<f>> \in Seq(E)
                      /\ <<e>> \o <<>> = <<e>> /\ <<>> \o <<f>> = <<f>>
  <2> HIDE DEF E
  <2> QED OBVIOUS
<1>3. <<>> \in Seq(E) /\ <<>> \o <<>> = <<>>
  <2> HIDE DEF E
  <2> QED OBVIOUS
<1>4. turn.at \in {"called", "fold"} => x \in E /\ c \in E
  <2> SUFFICES ASSUME turn.at \in {"called", "fold"} PROVE x \in E /\ c \in E
    OBVIOUS
  <2>1. turn # NoTurn
    BY DEF NoTurn
  <2>2. turn.id \in Id /\ turn.id <= ids
    BY <2>1, TurnId
  <2> QED BY <2>2, <1>0, ShownType
<1> HIDE DEF E, x, c
<1>5. ASSUME turn.at = "called" PROVE ComingFrom(turn) \in Seq(E)
  <2>1. ComingFrom(turn) = (IF turn.text THEN <<x>> ELSE <<>>) \o <<c>>
    BY <1>5, <1>1 DEF ComingFrom, c
  <2>2. x \in E /\ c \in E
    BY <1>4, <1>5
  <2>3. ComingFrom(turn) \in Seq(E)
    <3>1. CASE turn.text
      BY <3>1, <2>1, <2>2, <1>2
    <3>2. CASE ~turn.text
      BY <3>2, <2>1, <2>2, <1>2
    <3> QED BY <3>1, <3>2
  <2> QED BY <2>3, <1>5
<1>6. ASSUME turn.at = "fold"
      PROVE  ComingFrom(turn) \in Seq(E) /\ ComingFrom(turn) = IF turn.text THEN Text(turn.id) ELSE <<>>
  <2>1. ComingFrom(turn) = (IF turn.text THEN <<x>> ELSE <<>>) \o <<>>
    BY <1>6, <1>1 DEF ComingFrom
  <2>2. x \in E
    BY <1>4, <1>6
  <2>3. ComingFrom(turn) = (IF turn.text THEN <<x>> ELSE <<>>) /\ ComingFrom(turn) \in Seq(E)
    BY <2>1, <2>2, <1>2, <1>3
  <2> QED BY <2>3, <1>1, <1>6
<1>7. ASSUME turn.at \notin {"called", "fold"}
      PROVE  /\ ComingFrom(turn) \in Seq(E) /\ ComingFrom(turn) = <<>>
             /\ transcript \o ComingFrom(turn) = transcript
  <2>1. ComingFrom(turn) = <<>> \o <<>>
    BY <1>7 DEF ComingFrom
  <2>2. transcript \o <<>> = transcript
    BY <1>0, NothingJoined
  <2> QED BY <2>1, <2>2, <1>3, <1>7
<1>8. ComingFrom(turn) \in Seq(E)
  BY <1>5, <1>6, <1>7
<1>9. transcript \o ComingFrom(turn) \in Seq(E)
  BY <1>0, <1>8
<1> QED BY <1>0, <1>5, <1>6, <1>7, <1>8, <1>9 DEF E

-----------------------------------------------------------------------------
(* The turn.                                                               *)
LEMMA FreshFits ==
  ASSUME NEW n \in Nat, NEW t \in Seq(EntryUpto(n)), NEW p \in Seq(EntryUpto(n)),
         NEW e \in EntryUpto(n + 1), e.id = n + 1, Durable(e), Fits(t, p)
  PROVE  Fits(t \o <<e>>, p \o <<e>>) /\ Fits(t \o <<e>>, p)
<1> DEFINE F == EntryUpto(n + 1)
<1>1. t \in Seq(F) /\ p \in Seq(F) /\ e \in F
  <2>1. n + 1 \in Nat /\ n <= n + 1
    OBVIOUS
  <2> QED BY <2>1, UptoGrows
<1>2. /\ \A i \in DOMAIN t : ~SameEntry(t[i], e)
      /\ \A j \in DOMAIN p : ~SameEntry(e, p[j])
  BY FreshEntry
<1> HIDE DEF F
<1>3. Fits(t \o <<e>>, p \o <<e>>)
  BY <1>1, <1>2, FitsBoth
<1>4. Fits(t \o <<e>>, p)
  BY <1>1, <1>2, FitsAfter
<1> QED BY <1>3, <1>4

LEMMA FreshCallFits ==
  ASSUME NEW n \in Nat, NEW t \in Seq(EntryUpto(n)), NEW p \in Seq(EntryUpto(n)),
         NEW e \in EntryUpto(n + 1), NEW c \in EntryUpto(n + 1), e.id = n + 1, c.id = n + 1,
         e.kind = "text", c.kind = "call", Fits(t, p)
  PROVE  Fits(t \o <<e, c>>, p \o <<c, e>>)
<1> DEFINE F == EntryUpto(n + 1)
<1>1. t \in Seq(F) /\ p \in Seq(F) /\ e \in F /\ c \in F
  <2>1. n + 1 \in Nat /\ n <= n + 1
    OBVIOUS
  <2> QED BY <2>1, UptoGrows
<1>2. \A i \in DOMAIN t : ~SameEntry(t[i], e) /\ ~SameEntry(t[i], c)
  BY FreshEntry
<1>3. \A j \in DOMAIN p : ~SameEntry(e, p[j]) /\ ~SameEntry(c, p[j])
  BY FreshEntry
<1> HIDE DEF F
<1> QED BY <1>1, <1>2, <1>3, FitsCall

\* How a step of the turn changes the plan of a run.
Grown(r) ==
  \/ Plan(r)' = Plan(r)
  \/ \E y \in Seq(DurableUpto(ids')) :
       Plan(r)' = Plan(r) \o y /\ Once(y) /\ \A j \in DOMAIN y : y[j].id > ids
  \/ DOMAIN rows[r] = {} /\ r > runs /\ Once(Plan(r)')

\* A message is logged by a turn that owes none.
LEMMA LogPlans ==
  ASSUME TypeInv, TurnRuns, turn.at \notin {"none", "open", "user"}, turn'.at \notin {"none", "open", "user"},
         run' = run, ids' \in Nat, ids <= ids', NEW m \in MessageUpto(ids'),
         messages' = [messages EXCEPT ![turn.run] = Append(messages[turn.run], m)]
  PROVE  /\ run \in Run /\ run # NoRun /\ turn.run = run
         /\ Plan(run)' = Plan(run) \o Sketch(m)
         /\ \A r \in Run : r # run => Plan(r)' = Plan(r)
         /\ Sketch(m) \in Seq(DurableUpto(ids'))
<1>1. turn.run \in Run /\ turn.run = run /\ NoRun \notin Run
  BY SyncAssumption DEF Run, NoRun, TypeInv, TurnOK, TurnRuns
<1>2. OwedBy(turn) = <<>> /\ OwedBy(turn') = <<>>
  BY DEF OwedBy
<1>3. messages \in [Run -> Seq(MessageUpto(ids'))]
  BY StillTyped
<1> DEFINE ms == messages[run]
<1>4. ms \in Seq(MessageUpto(ids'))
  BY <1>1, <1>3
<1>5. Outline(Append(ms, m)) = Outline(ms) \o Sketch(m)
  BY <1>4, OutlineAppend
<1>6. messages'[run] = Append(ms, m) /\ \A r \in Run : r # run => messages'[r] = messages[r]
  BY <1>1, <1>3
<1>7. Base(run)' = Base(run) \o Sketch(m) /\ \A r \in Run : r # run => Base(r)' = Base(r)
  <2>1. Base(run) = Outline(ms) /\ Base(run)' = Outline(messages'[run])
    BY <1>1 DEF Base
  <2>2. \A r \in Run : Base(r) = Outline(messages[r]) /\ Base(r)' = Outline(messages'[r])
    BY <1>1 DEF Base
  <2> QED BY <2>1, <2>2, <1>5, <1>6
<1>8. Sketch(m) \in Seq(DurableUpto(ids')) /\ Outline(ms) \in Seq(DurableUpto(ids'))
  BY <1>4, SketchType, OutlineType
<1>9. Plan(run) = Base(run) /\ \A r \in Run : Plan(r) = Base(r)
  <2>1. \A r \in Run : Plan(r) = Base(r) \o <<>> /\ Base(r) \o <<>> = Base(r)
    <3>1. \A r \in Run : Base(r) \o <<>> = Base(r)
      BY PlanType
    <3> QED BY <3>1, <1>2 DEF Plan
  <2> QED BY <2>1, <1>1
<1>10. \A r \in Run : Plan(r)' = Base(r)' \o <<>>
  BY <1>2 DEF Plan
<1>11. \A r \in Run : Base(r)' \o <<>> = Base(r)'
  <2> SUFFICES ASSUME NEW r \in Run PROVE Base(r)' \o <<>> = Base(r)'
    OBVIOUS
  <2>1. CASE r = run
    <3> DEFINE a == Outline(ms)
               b == Sketch(m)
               D == DurableUpto(ids')
    <3>1. a \in Seq(D) /\ b \in Seq(D) /\ Base(run)' = a \o b
      BY <1>7, <1>8, <1>1 DEF Base
    <3> HIDE DEF a, b, D
    <3>2. a \o b \in Seq(D)
      BY <3>1
    <3>3. (a \o b) \o <<>> = a \o b
      BY <3>2, NothingJoined
    <3> QED BY <3>1, <3>3, <2>1
  <2>2. CASE r # run
    <3>1. Base(r)' = Base(r) /\ Base(r) \o <<>> = Base(r)
      BY <2>2, <1>7, PlanType
    <3> QED BY <3>1
  <2> QED BY <2>1, <2>2
<1>12. Plan(run)' = Base(run)'
  <2>1. Plan(run)' = Base(run)' \o <<>> /\ Base(run)' \o <<>> = Base(run)'
    BY <1>1, <1>10, <1>11
  <2> QED BY <2>1
<1>13. \A r \in Run : r # run => Plan(r)' = Plan(r)
  BY <1>7, <1>9, <1>10, <1>11
<1> QED BY <1>1, <1>7, <1>8, <1>9, <1>12, <1>13

Goes == UnusedEmpty' /\ TurnRuns' /\ ShownFits' /\ \A r \in Run : Grown(r)

LEMMA NothingComing ==
  ASSUME NEW t, t.at \notin {"called", "fold"}
  PROVE  ComingFrom(t) = <<>>
<1>1. ComingFrom(t) = <<>> \o <<>>
  BY DEF ComingFrom
<1> QED BY <1>1, NothingJoined

LEMMA OwesNothing ==
  ASSUME NEW t, t.at \notin {"open", "user"}
  PROVE  OwedBy(t) = <<>>
BY DEF OwedBy

\* A turn begins and ends in a session that no handler replaces.
LEMMA TurnAway ==
  ASSUME TypeInv, Submit \/ TurnStep
  PROVE  switch.op # "open" /\ switch.at \notin {"popped", "loaded", "released", "built"}
<1>1. CASE Submit
  BY <1>1 DEF Submit, TypeInv, SwitchOK
<1>2. CASE TurnStep
  <2>1. turn.at # "none"
    BY <1>2 DEF TurnStep, OpenRun, WriteUser, ToolStart, ToolEnd, ModelAnswers, TurnCancelled, FoldToolOutcomes,
                TurnFails, FinalizeTurn, ModelCalls
  <2>2. turn # NoTurn
    BY <2>1 DEF NoTurn
  <2> QED BY <2>2 DEF TypeInv, SwitchOK
<1> QED BY <1>1, <1>2

LEMMA TurnOnce ==
  ASSUME TypeInv, PlaceInv, OnceInv, Submit \/ TurnStep, Goes, ids' \in Nat, ids <= ids'
  PROVE  OnceInv'
<1>1. UNCHANGED <<rows, writer, switch, broken>>
  BY TurnKeeps
<1>2. LoadedOK' /\ BuiltFits'
  BY <1>1, TurnAway DEF LoadedOK, BuiltFits
<1>3. ids \in Nat /\ DurableUpto(ids') \subseteq EntryUpto(ids') /\ Seq(DurableUpto(ids')) \subseteq Seq(EntryUpto(ids'))
      /\ Seq(EntryUpto(ids)) \subseteq Seq(EntryUpto(ids'))
  BY DurableUptoType, UptoGrows DEF TypeInv, CoreOK
<1>4. ASSUME NEW r \in Run, NEW t \in Seq(EntryUpto(ids)), Clean(t, Plan(r)), DOMAIN rows[r] = {} /\ r > runs => DOMAIN t = {}
      PROVE  Clean(t, Plan(r)')
  <2>1. CASE Plan(r)' = Plan(r)
    BY <1>4, <2>1
  <2>2. ASSUME NEW y \in Seq(DurableUpto(ids')), Plan(r)' = Plan(r) \o y, \A j \in DOMAIN y : y[j].id > ids
        PROVE  Clean(t, Plan(r)')
    <3> DEFINE p == Plan(r)
    <3>1. p \in Seq(EntryUpto(ids)) /\ Clean(t, p)
      BY <1>4, PlanType
    <3> HIDE DEF p
    <3>2. Apart(t, y)
      BY <1>3, <2>2, FreshApart
    <3>3. t \in Seq(EntryUpto(ids')) /\ p \in Seq(EntryUpto(ids')) /\ y \in Seq(EntryUpto(ids'))
      BY <1>3, <3>1
    <3>4. Clean(t, p \o y)
      BY <3>1, <3>2, <3>3, CleanMore
    <3> QED BY <3>4, <2>2 DEF p
  <2>3. CASE DOMAIN rows[r] = {} /\ r > runs
    BY <1>4, <2>3, CleanNothing
  <2> QED BY <2>1, <2>2, <2>3 DEF Goes, Grown
<1>5. ASSUME NEW r \in Run PROVE Once(Plan(r)')
  <2>1. CASE Plan(r)' = Plan(r)
    BY <2>1 DEF OnceInv, PlansOnce
  <2>2. ASSUME NEW y \in Seq(DurableUpto(ids')), Plan(r)' = Plan(r) \o y, Once(y), \A j \in DOMAIN y : y[j].id > ids
        PROVE  Once(Plan(r)')
    <3> DEFINE p == Plan(r)
    <3>1. p \in Seq(EntryUpto(ids)) /\ Once(p)
      BY PlanType DEF OnceInv, PlansOnce
    <3> HIDE DEF p
    <3>2. Apart(p, y)
      BY <1>3, <2>2, <3>1, FreshApart
    <3>3. p \in Seq(EntryUpto(ids')) /\ y \in Seq(EntryUpto(ids'))
      BY <1>3, <3>1
    <3>4. Once(p \o y)
      BY <2>2, <3>1, <3>2, <3>3, OnceJoin DEF Apart
    <3> QED BY <3>4, <2>2 DEF p
  <2>3. CASE Once(Plan(r)')
    BY <2>3
  <2> QED BY <2>1, <2>2, <2>3 DEF Goes, Grown
<1>6. PlansOnce'
  BY <1>5 DEF PlansOnce
<1>7. RowsFit'
  <2> SUFFICES ASSUME ~broken, NEW r \in Run PROVE Clean(Listed(rows[r]), Plan(r)')
    BY <1>1 DEF RowsFit
  <2>1. Clean(Listed(rows[r]), Plan(r)) /\ TableOK(rows[r], ids)
    BY DEF OnceInv, RowsFit, TypeInv, StoreOK
  <2>2. Listed(rows[r]) \in Seq(EntryUpto(ids))
    BY <1>3, <2>1, ListedType DEF TableOK
  <2>3. DOMAIN rows[r] = {} => DOMAIN Listed(rows[r]) = {}
    BY ListedNothing
  <2> QED BY <2>1, <2>2, <2>3, <1>4
<1>8. PassFits'
  <2> SUFFICES ASSUME ~broken, writer.by # "none"
               PROVE  Clean(writer.entries, Plan(writer.run)') /\ Follows(rows[writer.run], writer.entries)
    BY <1>1 DEF PassFits
  <2>1. writer.run \in Run /\ writer.entries \in Seq(EntryUpto(ids))
    BY PassOn
  <2>2. Clean(writer.entries, Plan(writer.run)) /\ Follows(rows[writer.run], writer.entries)
    BY DEF OnceInv, PassFits
  <2>3. ~(writer.run > runs)
    <3>1. writer.run <= runs /\ runs \in Nat /\ writer.run \in Nat
      BY <2>1, SyncAssumption DEF PlaceInv, UsedOK, TypeInv, StoreOK, Run
    <3> QED BY <3>1
  <2>4. PICK r \in Run : r = writer.run
    BY <2>1
  <2>5. Clean(writer.entries, Plan(r)')
    BY <2>1, <2>2, <2>3, <2>4, <1>4
  <2>6. writer'.run = r
    BY <2>4, <1>1
  <2> QED BY <2>2, <2>4, <2>5, <2>6
<1> QED BY <1>2, <1>6, <1>7, <1>8 DEF Goes, OnceInv

\* A step that changes no message, run or owed message changes no plan.
LEMMA SamePlans ==
  ASSUME UNCHANGED <<messages, run>>, OwedBy(turn') = OwedBy(turn)
  PROVE  Plan(run)' = Plan(run) /\ \A r \in Run : Plan(r)' = Plan(r) /\ Grown(r)
<1>1. Plan(run)' = Plan(run)
  BY DEF Plan, Base
<1>2. \A r \in Run : Plan(r)' = Plan(r)
  BY DEF Plan, Base
<1> QED BY <1>1, <1>2 DEF Grown

LEMMA UnusedStay ==
  ASSUME TypeInv, PlaceInv, UnusedEmpty, runs' = runs,
         messages' = messages \/ \E m : run \in Run /\ messages' = [messages EXCEPT ![run] = m]
  PROVE  UnusedEmpty'
<1>1. run <= runs /\ runs \in Nat /\ (run \in Run => run \in Nat) /\ messages \in [Run -> Seq(MessageUpto(ids))]
  BY SyncAssumption DEF PlaceInv, UsedOK, TypeInv, StoreOK, Run
<1> SUFFICES ASSUME NEW r \in Run, r > runs PROVE messages'[r] = <<>>
  BY DEF UnusedEmpty
<1>2. messages[r] = <<>> /\ ~(run \in Run /\ r = run)
  BY <1>1 DEF UnusedEmpty
<1> QED BY <1>1, <1>2

LEMMA SubmitGoes ==
  ASSUME TypeInv, PlaceInv, OnceInv, Submit
  PROVE  Goes /\ ids' \in Nat /\ ids <= ids'
<1> DEFINE e == Shown("user", ids + 1, TRUE)
<1>1. /\ turn = NoTurn /\ UNCHANGED <<run, messages, runs, broken>> /\ ids' = ids + 1 /\ transcript' = transcript \o <<e>>
      /\ turn' = [at |-> IF run = NoRun THEN "open" ELSE "user", run |-> run, first |-> ids + 1, id |-> ids + 1,
                  call |-> "none", text |-> FALSE]
  BY DEF Submit, Say, FreshId, store, NoTurn
<1>2. Left >= 1 \/ ids + 1 \in Id
  <2>1. ids + Left <= Len(Archive) + 3 * turns /\ Left = 0
    BY <1>1 DEF TypeInv, TurnOK, Left, NoTurn
  <2>2. ids \in Nat /\ turns \in 0 .. MaxTurns /\ MaxTurns \in Nat /\ Len(Archive) \in Nat /\ turns < MaxTurns
    BY SyncAssumption, ArchiveAssumption DEF TypeInv, CoreOK, Submit
  <2> QED BY <2>1, <2>2 DEF Id
<1>3. ids + 1 \in Id /\ ids \in Nat /\ ids + 1 \in Nat /\ ids <= ids + 1
  <2>1. ids \in Nat
    BY DEF TypeInv, CoreOK
  <2> QED BY <2>1, <1>2, NextId
<1>4. e \in EntryUpto(ids + 1) /\ e.id = ids + 1 /\ Durable(e)
  <2>1. e \in EntryUpto(ids + 1)
    <3>1. "user" \in {"user", "text", "call", "meta", "mark"} /\ TRUE \in BOOLEAN /\ ids + 1 <= ids + 1
      BY <1>3
    <3> QED BY <1>3, <3>1, ShownType
  <2> QED BY <2>1 DEF Durable, Shown
<1>5. OwedBy(turn) = <<>> /\ OwedBy(turn') = <<e>> /\ ComingFrom(turn') = <<>> /\ turn.at = "none"
  <2>1. turn'.at \in {"open", "user"} /\ turn'.id = ids + 1
    BY <1>1
  <2>2. ComingFrom(turn') = <<>>
    BY <2>1, NothingComing
  <2> QED BY <1>1, <2>1, <2>2 DEF OwedBy, NoTurn
<1>6. run \in Run \cup {NoRun}
  BY DEF TypeInv, CoreOK
<1>7. Plan(run)' = Plan(run) \o <<e>>
  <2>1. Plan(run)' = Base(run) \o <<e>>
    BY <1>1, <1>5 DEF Plan, Base
  <2>2. Plan(run) = Base(run) \o <<>> /\ Base(run) \o <<>> = Base(run)
    BY <1>5, <1>6, PlanType DEF Plan
  <2> QED BY <2>1, <2>2
<1>8. ASSUME NEW r \in Run, r # run PROVE Plan(r)' = Plan(r)
  BY <1>1, <1>8 DEF Plan, Base
<1>9. ShownFits'
  <2> SUFFICES ASSUME ~broken PROVE Fits(transcript' \o ComingFrom(turn'), Plan(run)')
    BY <1>1 DEF ShownFits
  <2>1. transcript \o ComingFrom(turn) = transcript /\ transcript \in Seq(EntryUpto(ids))
    BY <1>5, ComingType
  <2>2. Fits(transcript, Plan(run)) /\ Plan(run) \in Seq(EntryUpto(ids))
    BY <2>1, <1>6, PlanType DEF OnceInv, ShownFits
  <2> HIDE DEF e
  <2>3. Fits(transcript \o <<e>>, Plan(run) \o <<e>>)
    BY <2>1, <2>2, <1>3, <1>4, FreshFits
  <2>4. transcript \o <<e>> \in Seq(EntryUpto(ids + 1))
    BY <2>1, <1>3, <1>4, UptoGrows, SayType
  <2>5. (transcript \o <<e>>) \o <<>> = transcript \o <<e>>
    BY <2>4, NothingJoined
  <2> QED BY <2>3, <2>5, <1>1, <1>5, <1>7
<1>10. \A r \in Run : Grown(r)
  <2> SUFFICES ASSUME NEW r \in Run, r = run PROVE Grown(r)
    BY <1>8 DEF Grown
  <2>1. e \in DurableUpto(ids')
    BY <1>1, <1>4 DEF DurableUpto
  <2> HIDE DEF e
  <2>2. <<e>> \in Seq(DurableUpto(ids')) /\ Once(<<e>>) /\ \A j \in DOMAIN <<e>> : <<e>>[j].id > ids
    BY <2>1, <1>3, <1>4, SingleOnce
  <2>3. Plan(r)' = Plan(r) \o <<e>>
    BY <1>1, <1>7
  <2> QED BY <2>2, <2>3 DEF Grown
<1>11. UnusedEmpty' /\ TurnRuns'
  BY <1>1 DEF OnceInv, UnusedEmpty, TurnRuns
<1> QED BY <1>1, <1>3, <1>9, <1>10, <1>11 DEF Goes

LEMMA OpenRunGoes ==
  ASSUME TypeInv, PlaceInv, OnceInv, OpenRun
  PROVE  Goes /\ ids' \in Nat /\ ids <= ids'
<1>1. /\ turn.at = "open" /\ UNCHANGED <<messages, broken, transcript, ids>> /\ runs' = runs + 1 /\ run' = runs + 1
      /\ turn' = [turn EXCEPT !.at = "user", !.run = runs'] /\ turn \in TurnRecord /\ run = NoRun /\ turn # NoTurn
      /\ runs \in Nat /\ runs + 1 \in Run /\ ids \in Nat /\ MaxRuns \in Nat
  <2>1. turn.at = "open"
    BY DEF OpenRun
  <2>2. runs < MaxRuns /\ run = NoRun /\ turn \in TurnRecord /\ turn # NoTurn
    BY <2>1 DEF TypeInv, TurnOK, NoTurn
  <2>3. runs \in 0 .. MaxRuns /\ MaxRuns \in Nat /\ ids \in Nat
    BY SyncAssumption DEF TypeInv, StoreOK, CoreOK
  <2>4. runs + 1 \in Run /\ runs \in Nat
    BY <2>2, <2>3 DEF Run
  <2> QED BY <2>1, <2>2, <2>3, <2>4 DEF OpenRun, counters
<1>2. turn'.at = "user" /\ turn'.run = run' /\ turn'.id = turn.id
  BY <1>1 DEF TurnRecord
<1> PICK new \in Run : new = runs + 1
  BY <1>1
<1> DEFINE owed == OwedBy(turn)
<1>3. OwedBy(turn') = owed /\ ComingFrom(turn') = <<>> /\ ComingFrom(turn) = <<>> /\ owed = <<Shown("user", turn.id, TRUE)>>
  <2>1. ComingFrom(turn') = <<>>
    BY <1>2, NothingComing
  <2>2. ComingFrom(turn) = <<>>
    BY <1>1, NothingComing
  <2>3. owed = <<Shown("user", turn.id, TRUE)>>
    BY <1>1 DEF OwedBy
  <2>4. OwedBy(turn') = <<Shown("user", turn'.id, TRUE)>>
    <3>1. turn'.at \in {"open", "user"}
      BY <1>2
    <3> QED BY <3>1 DEF OwedBy
  <2>5. OwedBy(turn') = owed
    BY <2>3, <2>4, <1>2
  <2> QED BY <2>1, <2>2, <2>3, <2>5
<1>4. messages[new] = <<>> /\ DOMAIN rows[new] = {} /\ new # NoRun /\ new \in Run /\ new > runs /\ new # run
  <2>1. new \in Run /\ new > runs /\ new # NoRun
    BY <1>1 DEF NoRun
  <2> QED BY <1>1, <2>1 DEF OnceInv, UnusedEmpty, PlaceInv, UsedOK
<1>5. owed \in Seq(DurableUpto(ids)) /\ Once(owed)
  BY <1>3, OwedType, SingleOnce
<1>6. Plan(run) = owed
  BY <1>1, PlanType
<1> HIDE DEF owed
<1>7. run' = new /\ NoRun \notin Run
  BY <1>1, SyncAssumption DEF Run, NoRun
<1>8. <<>> \o owed = owed
  BY <1>5, NothingJoined
<1>9. Plan(new)' = owed
  <2>1. Base(new)' = <<>>
    BY <1>1, <1>4, OutlineEmpty DEF Base
  <2>2. Plan(new)' = Base(new)' \o owed
    BY <1>3, <1>7 DEF Plan
  <2> QED BY <2>1, <2>2, <1>8
<1>10. Plan(run)' = owed
  BY <1>7, <1>9 DEF Plan, Base
<1>11. ASSUME NEW r \in Run, r # new PROVE Plan(r)' = Plan(r)
  BY <1>1, <1>7, <1>11 DEF Plan, Base
<1>12. \A r \in Run : Grown(r)
  <2>1. ASSUME NEW r \in Run, r # new PROVE Grown(r)
    BY <1>11, <2>1 DEF Grown
  <2>2. Grown(new)
    BY <1>4, <1>5, <1>9 DEF Grown
  <2> QED BY <2>1, <2>2
<1>13. ShownFits'
  BY <1>1, <1>3, <1>6, <1>10 DEF OnceInv, ShownFits
<1>14. UnusedEmpty' /\ TurnRuns'
  <2>1. \A r \in Run : r > runs' => r > runs
    BY <1>1, SyncAssumption DEF Run
  <2> QED BY <2>1, <1>1, <1>2 DEF OnceInv, UnusedEmpty, TurnRuns
<1> QED BY <1>1, <1>12, <1>13, <1>14 DEF Goes

\* The user's message is what the turn owed; the answer to a call that was
\* left open projects to nothing.
LEMMA WriteUserGoes ==
  ASSUME TypeInv, PlaceInv, OnceInv, WriteUser
  PROVE  Goes /\ ids' \in Nat /\ ids <= ids'
<1> DEFINE user == [role |-> "user", id |-> turn.id, call |-> "none", text |-> TRUE]
           ms == messages[run]
           more == ms \o (IF EndsOpen(ms) THEN <<Result(Last(ms).id), user>> ELSE <<user>>)
           e == Shown("user", turn.id, TRUE)
           owed == OwedBy(turn)
           M == MessageUpto(ids)
<1>1. /\ turn.at = "user" /\ UNCHANGED <<transcript, run, runs, broken, ids>> /\ turn' = [turn EXCEPT !.at = "model"]
      /\ turn \in TurnRecord /\ turn # NoTurn /\ ids \in Nat /\ turn.run = run /\ run \in Run /\ run # NoRun
  <2>1. turn.at = "user" /\ UNCHANGED <<transcript, run, runs, broken, ids>> /\ turn' = [turn EXCEPT !.at = "model"]
    BY DEF WriteUser, core, counters
  <2>2. turn \in TurnRecord /\ turn.run \in Run /\ turn # NoTurn /\ ids \in Nat /\ NoRun \notin Run
    BY <2>1, SyncAssumption DEF TypeInv, TurnOK, CoreOK, NoTurn, Run, NoRun
  <2>3. turn.run = run
    BY <2>1 DEF OnceInv, TurnRuns
  <2> QED BY <2>1, <2>2, <2>3
<1>2. messages' = [messages EXCEPT ![run] = more]
  BY <1>1 DEF WriteUser
<1>3. turn'.at = "model" /\ turn'.run = turn.run
  BY <1>1 DEF TurnRecord
<1>4. OwedBy(turn') = <<>> /\ ComingFrom(turn') = <<>> /\ ComingFrom(turn) = <<>> /\ owed = <<e>>
  BY <1>1, <1>3, NothingComing, OwesNothing DEF OwedBy
<1>5. ms \in Seq(M) /\ user \in M /\ (EndsOpen(ms) => Result(Last(ms).id) \in M)
  <2>1. ms \in Seq(M) /\ messages \in [Run -> Seq(M)]
    BY <1>1 DEF TypeInv, StoreOK
  <2>2. turn.id \in Id /\ turn.id <= ids
    BY <1>1, TurnId
  <2>3. user \in M
    BY <2>2 DEF MessageUpto, Message
  <2>4. ASSUME EndsOpen(ms) PROVE Result(Last(ms).id) \in M
    <3>1. ms # <<>>
      BY <2>4 DEF EndsOpen
    <3>2. Last(ms) \in M
      BY <2>1, <3>1, FrontLast
    <3>3. Last(ms).id \in Id /\ Last(ms).id <= ids
      BY <3>2 DEF MessageUpto, Message
    <3> QED BY <3>3, <1>1, ResultType
  <2> QED BY <2>1, <2>3, <2>4
<1>6. Sketch(user) = <<e>> /\ \A m \in M : m.role = "tool" => Sketch(m) = <<>>
  BY DEF Sketch, Projected
<1>7. Outline(more) = Outline(ms) \o <<e>> /\ Outline(more) \in Seq(DurableUpto(ids))
  <2> DEFINE r == Result(Last(ms).id)
  <2>1. \A a \in Seq(M) : \A x, y \in M : /\ a \o <<x, y>> = Append(Append(a, x), y) /\ a \o <<y>> = Append(a, y)
                                          /\ Append(a, x) \in Seq(M)
    <3> HIDE DEF M
    <3> QED OBVIOUS
  <2>2. \A a \in Seq(M) : Outline(Append(a, user)) = Outline(a) \o <<e>> /\ Outline(Append(a, user)) \in Seq(DurableUpto(ids))
    <3> SUFFICES ASSUME NEW a \in Seq(M)
                 PROVE  Outline(Append(a, user)) = Outline(a) \o <<e>> /\ Outline(Append(a, user)) \in Seq(DurableUpto(ids))
      OBVIOUS
    <3>1. Append(a, user) \in Seq(M)
      BY <2>1, <1>5
    <3>2. Outline(Append(a, user)) = Outline(a) \o Sketch(user)
      BY <1>1, <1>5, OutlineAppend
    <3>3. Outline(Append(a, user)) \in Seq(DurableUpto(ids))
      BY <3>1, <1>1, OutlineType
    <3> QED BY <3>2, <3>3, <1>6
  <2>3. CASE ~EndsOpen(ms)
    <3>1. more = Append(ms, user)
      <4>1. more = ms \o <<user>>
        BY <2>3
      <4> QED BY <4>1, <2>1, <1>5
    <3> QED BY <3>1, <2>2, <1>5
  <2>4. CASE EndsOpen(ms)
    <3>1. r \in M /\ r.role = "tool"
      BY <2>4, <1>5 DEF Result
    <3> HIDE DEF r
    <3>2. more = Append(Append(ms, r), user) /\ Append(ms, r) \in Seq(M)
      <4>1. more = ms \o <<r, user>>
        BY <2>4 DEF r
      <4> QED BY <4>1, <3>1, <2>1, <1>5
    <3>3. Outline(Append(ms, r)) = Outline(ms)
      <4>1. Outline(Append(ms, r)) = Outline(ms) \o Sketch(r)
        BY <3>1, <1>1, <1>5, OutlineAppend
      <4>2. Sketch(r) = <<>>
        BY <3>1, <1>6
      <4>3. Outline(ms) \in Seq(DurableUpto(ids))
        BY <1>1, <1>5, OutlineType
      <4>4. Outline(ms) \o <<>> = Outline(ms)
        BY <4>3, NothingJoined
      <4> QED BY <4>1, <4>2, <4>4
    <3> QED BY <3>2, <3>3, <2>2
  <2> QED BY <2>3, <2>4
<1>8. Plan(run) = Outline(ms) \o <<e>>
  <2>1. Plan(run) = Outline(ms) \o owed
    BY <1>1, PlanType
  <2> QED BY <2>1, <1>4
<1>9. messages'[run] = more /\ \A r \in Run : r # run => messages'[r] = messages[r]
  BY <1>1, <1>2 DEF TypeInv, StoreOK
<1> HIDE DEF more, ms, e, owed
<1>10. Plan(run)' = Plan(run)
  <2>1. Plan(run)' = Outline(more) \o <<>>
    BY <1>1, <1>4, <1>9 DEF Plan, Base
  <2>2. Outline(more) \o <<>> = Outline(more)
    BY <1>7, NothingJoined
  <2> QED BY <2>1, <2>2, <1>7, <1>8
<1>11. ASSUME NEW r \in Run, r # run PROVE Plan(r)' = Plan(r)
  <2>1. messages'[r] = messages[r]
    BY <1>9, <1>11
  <2> QED BY <1>1, <1>11, <2>1 DEF Plan, Base
<1>12. \A r \in Run : Grown(r)
  <2> SUFFICES ASSUME NEW r \in Run PROVE Plan(r)' = Plan(r)
    BY DEF Grown
  <2>1. CASE r = run
    <3>1. run' = run
      BY <1>1
    <3> QED BY <2>1, <3>1, <1>10 DEF Plan, Base
  <2>2. CASE r # run
    BY <2>2, <1>11
  <2> QED BY <2>1, <2>2
<1>13. ShownFits'
  BY <1>1, <1>4, <1>10 DEF OnceInv, ShownFits
<1>14. UnusedEmpty'
  BY <1>1, <1>2, UnusedStay DEF OnceInv
<1>15. TurnRuns'
  BY <1>1, <1>3 DEF TurnRuns
<1>16. ids' \in Nat /\ ids <= ids'
  BY <1>1
<1> QED BY <1>12, <1>13, <1>14, <1>15, <1>16 DEF Goes

\* The entries of a text and of a call that have just got their id.
LEMMA FreshShown ==
  ASSUME TypeInv, Left >= 1
  PROVE  /\ ids \in Nat /\ ids + 1 \in Nat /\ ids + 1 \in Id /\ ids <= ids + 1
         /\ Shown("text", ids + 1, TRUE) \in EntryUpto(ids + 1) /\ Shown("call", ids + 1, FALSE) \in EntryUpto(ids + 1)
         /\ Durable(Shown("text", ids + 1, TRUE)) /\ Durable(Shown("call", ids + 1, FALSE))
<1>1. ids \in Nat /\ ids + 1 \in Nat /\ ids + 1 \in Id
  BY NextId
<1>2. ids <= ids + 1 /\ ids + 1 <= ids + 1
  BY <1>1
<1>3. {"call", "text"} \subseteq {"user", "text", "call", "meta", "mark"} /\ {TRUE, FALSE} \subseteq BOOLEAN
  OBVIOUS
<1>4. Shown("text", ids + 1, TRUE) \in EntryUpto(ids + 1) /\ Shown("call", ids + 1, FALSE) \in EntryUpto(ids + 1)
  BY <1>1, <1>2, <1>3, ShownType
<1> QED BY <1>1, <1>2, <1>4 DEF Durable, Shown

\* What the turn shows of a message that it has logged.
LEMMA ComingParts ==
  ASSUME NEW t
  PROVE  LET x == Shown("text", t.id, TRUE)
             c == Shown("call", t.id, FALSE)
         IN /\ t.at = "called" /\ t.text => ComingFrom(t) = <<x, c>>
            /\ t.at = "called" /\ ~t.text => ComingFrom(t) = <<c>>
            /\ t.at = "fold" /\ t.text => ComingFrom(t) = <<x>>
            /\ t.at = "fold" /\ ~t.text => ComingFrom(t) = <<>>
<1> DEFINE x == Shown("text", t.id, TRUE)
           c == Shown("call", t.id, FALSE)
<1>1. ComingFrom(t) = (IF t.at \in {"called", "fold"} /\ t.text THEN <<x>> ELSE <<>>)
                      \o (IF t.at = "called" THEN <<c>> ELSE <<>>)
  BY DEF ComingFrom, Text
<1> HIDE DEF x, c
<1>2. <<x>> \o <<c>> = <<x, c>> /\ <<>> \o <<c>> = <<c>> /\ <<x>> \o <<>> = <<x>>
  BY Pieces
<1>3. <<>> \o <<>> = <<>>
  BY NothingJoined
<1> QED BY <1>1, <1>2, <1>3 DEF x, c

\* A turn that logs the message m: the plans and the messages.
LEMMA LogGoes ==
  ASSUME TypeInv, PlaceInv, OnceInv, turn.at \notin {"none", "open", "user"}, turn'.at \notin {"none", "open", "user"},
         turn'.run = turn.run, UNCHANGED <<run, runs>>, ids' \in Nat, ids <= ids',
         NEW m \in MessageUpto(ids'), m.role = "tool" \/ m.id > ids,
         messages' = [messages EXCEPT ![turn.run] = Append(messages[turn.run], m)]
  PROVE  /\ UnusedEmpty' /\ TurnRuns' /\ \A r \in Run : Grown(r)
         /\ Plan(run)' = Plan(run) \o Sketch(m)
<1>1. run \in Run /\ run # NoRun /\ turn.run = run /\ Plan(run)' = Plan(run) \o Sketch(m)
  BY LogPlans DEF OnceInv
<1>2. \A r \in Run : r # run => Plan(r)' = Plan(r)
  BY LogPlans DEF OnceInv
<1>3. Sketch(m) \in Seq(DurableUpto(ids'))
  BY SketchType
<1>4. Once(Sketch(m)) /\ \A j \in DOMAIN Sketch(m) : Sketch(m)[j].id > ids
  <2>1. Once(Sketch(m)) /\ \A j \in DOMAIN Sketch(m) : Sketch(m)[j].id = m.id /\ m.role # "tool"
    BY SketchOnce
  <2> QED BY <2>1
<1>5. ASSUME NEW r \in Run PROVE Grown(r)
  <2>1. CASE r = run
    <3>1. Plan(r)' = Plan(r) \o Sketch(m)
      BY <1>1, <2>1 DEF Plan, Base
    <3> QED BY <3>1, <1>3, <1>4 DEF Grown
  <2>2. CASE r # run
    BY <1>2, <2>2 DEF Grown
  <2> QED BY <2>1, <2>2
<1>6. UnusedEmpty'
  BY <1>1, UnusedStay DEF OnceInv
<1>7. TurnRuns'
  BY <1>1 DEF TurnRuns
<1> QED BY <1>1, <1>5, <1>6, <1>7

LEMMA ModelCallsGoes ==
  ASSUME TypeInv, PlaceInv, OnceInv, NEW c \in Calls, ModelCalls(c.tool, c.text)
  PROVE  Goes /\ ids' \in Nat /\ ids <= ids'
<1> DEFINE m == [role |-> "agent", id |-> ids + 1, call |-> c.tool, text |-> c.text]
           x == Shown("text", ids + 1, TRUE)
           y == Shown("call", ids + 1, FALSE)
<1>1. turn.at = "model" /\ turn.call = "none" /\ turn \in TurnRecord /\ UNCHANGED <<transcript, run, runs, broken>>
      /\ ids' = ids + 1 /\ turn' = [turn EXCEPT !.at = "called", !.id = ids + 1, !.call = c.tool, !.text = c.text]
      /\ messages' = [messages EXCEPT ![turn.run] = Append(messages[turn.run], m)]
  BY DEF ModelCalls, Log, FreshId, core, TypeInv, TurnOK
<1>2. c.tool \in {"call", "quest"} /\ c.text \in BOOLEAN
  BY SyncAssumption
<1>3. /\ ids \in Nat /\ ids + 1 \in Nat /\ ids + 1 \in Id /\ ids <= ids + 1
      /\ x \in EntryUpto(ids + 1) /\ y \in EntryUpto(ids + 1) /\ Durable(x) /\ Durable(y)
  <2>1. Left >= 1
    BY <1>1 DEF Left
  <2> QED BY <2>1, FreshShown
<1>4. turn'.at = "called" /\ turn'.run = turn.run /\ turn'.id = ids + 1 /\ turn'.text = c.text
  BY <1>1 DEF TurnRecord
<1>5. m \in MessageUpto(ids') /\ m.role = "agent" /\ m.id > ids
  BY <1>1, <1>2, <1>3 DEF MessageUpto, Message, Tool
<1>6. Sketch(m) = <<y>> \o (IF c.text THEN <<x>> ELSE <<>>)
  <2>1. Sketch(m) = SketchOf(m, y, x)
    BY <1>1, <1>3, <1>5, SketchParts
  <2> QED BY <2>1, <1>2 DEF SketchOf
<1>7. x.id = ids + 1 /\ y.id = ids + 1 /\ x.kind = "text" /\ y.kind = "call"
  BY DEF Shown
<1> HIDE DEF m
<1>8. /\ UnusedEmpty' /\ TurnRuns' /\ \A r \in Run : Grown(r)
      /\ Plan(run)' = Plan(run) \o Sketch(m)
  <2>1. turn.at \notin {"none", "open", "user"} /\ turn'.at \notin {"none", "open", "user"} /\ ids' \in Nat /\ ids <= ids'
    BY <1>1, <1>3, <1>4
  <2> QED BY <2>1, <1>1, <1>4, <1>5, LogGoes
<1>9. (c.text => ComingFrom(turn') = <<x, y>>) /\ (~c.text => ComingFrom(turn') = <<y>>)
  BY <1>4, ComingParts
<1> HIDE DEF x, y
<1>10. ShownFits'
  <2> SUFFICES ASSUME ~broken PROVE Fits(transcript' \o ComingFrom(turn'), Plan(run)')
    BY <1>1 DEF ShownFits
  <2>1. transcript \o ComingFrom(turn) = transcript /\ transcript \in Seq(EntryUpto(ids))
    BY <1>1, ComingType
  <2>2. Fits(transcript, Plan(run))
    BY <2>1 DEF OnceInv, ShownFits
  <2>3. Plan(run) \in Seq(EntryUpto(ids))
    BY PlanType DEF TypeInv, CoreOK
  <2>4. <<y>> \o <<x>> = <<y, x>> /\ <<y>> \o <<>> = <<y>>
    BY Pieces
  <2>5. CASE c.text
    <3>1. Fits(transcript \o <<x, y>>, Plan(run) \o <<y, x>>)
      BY <1>3, <1>7, <2>1, <2>2, <2>3, FreshCallFits
    <3>2. Sketch(m) = <<y, x>>
      BY <1>6, <2>4, <2>5
    <3> QED BY <3>1, <3>2, <1>1, <1>8, <1>9, <2>5
  <2>6. CASE ~c.text
    <3>1. Fits(transcript \o <<y>>, Plan(run) \o <<y>>)
      BY <1>3, <1>7, <2>1, <2>2, <2>3, FreshFits
    <3>2. Sketch(m) = <<y>>
      BY <1>6, <2>4, <2>6
    <3> QED BY <3>1, <3>2, <1>1, <1>8, <1>9, <2>6
  <2> QED BY <2>5, <2>6
<1> QED BY <1>1, <1>3, <1>8, <1>10 DEF Goes

LEMMA ModelAnswersGoes ==
  ASSUME TypeInv, PlaceInv, OnceInv, ModelAnswers
  PROVE  Goes /\ ids' \in Nat /\ ids <= ids'
<1> DEFINE m == [role |-> "agent", id |-> ids + 1, call |-> "none", text |-> TRUE]
           x == Shown("text", ids + 1, TRUE)
           y == Shown("call", ids + 1, FALSE)
<1>1. turn.at = "model" /\ turn \in TurnRecord /\ UNCHANGED <<transcript, run, runs, broken>>
      /\ ids' = ids + 1 /\ turn' = [turn EXCEPT !.at = "fold", !.id = ids + 1, !.text = TRUE]
      /\ messages' = [messages EXCEPT ![turn.run] = Append(messages[turn.run], m)]
  BY DEF ModelAnswers, Log, FreshId, core, TypeInv, TurnOK
<1>3. /\ ids \in Nat /\ ids + 1 \in Nat /\ ids + 1 \in Id /\ ids <= ids + 1
      /\ x \in EntryUpto(ids + 1) /\ Durable(x)
  <2>1. Left >= 1
    BY <1>1 DEF Left
  <2> QED BY <2>1, FreshShown
<1>4. turn'.at = "fold" /\ turn'.run = turn.run /\ turn'.id = ids + 1 /\ turn'.text = TRUE
  BY <1>1 DEF TurnRecord
<1>5. m \in MessageUpto(ids') /\ m.role = "agent" /\ m.id > ids
  BY <1>1, <1>3 DEF MessageUpto, Message, Tool
<1>6. Sketch(m) = <<>> \o <<x>>
  <2>1. Sketch(m) = SketchOf(m, y, x)
    BY <1>1, <1>3, <1>5, SketchParts
  <2> QED BY <2>1 DEF SketchOf
<1>7. x.id = ids + 1
  BY DEF Shown
<1> HIDE DEF m
<1>8. /\ UnusedEmpty' /\ TurnRuns' /\ \A r \in Run : Grown(r)
      /\ Plan(run)' = Plan(run) \o Sketch(m)
  <2>1. turn.at \notin {"none", "open", "user"} /\ turn'.at \notin {"none", "open", "user"} /\ ids' \in Nat /\ ids <= ids'
    BY <1>1, <1>3, <1>4
  <2> QED BY <2>1, <1>1, <1>4, <1>5, LogGoes
<1>9. ComingFrom(turn') = <<x>>
  BY <1>4, ComingParts
<1> HIDE DEF x, y
<1>10. ShownFits'
  <2> SUFFICES ASSUME ~broken PROVE Fits(transcript' \o ComingFrom(turn'), Plan(run)')
    BY <1>1 DEF ShownFits
  <2>1. transcript \o ComingFrom(turn) = transcript /\ transcript \in Seq(EntryUpto(ids))
    BY <1>1, ComingType
  <2>2. Fits(transcript, Plan(run))
    BY <2>1 DEF OnceInv, ShownFits
  <2>3. Plan(run) \in Seq(EntryUpto(ids))
    BY PlanType DEF TypeInv, CoreOK
  <2>4. Fits(transcript \o <<x>>, Plan(run) \o <<x>>)
    BY <1>3, <1>7, <2>1, <2>2, <2>3, FreshFits
  <2>5. Sketch(m) = <<x>>
    BY <1>6, Pieces
  <2> QED BY <2>4, <2>5, <1>1, <1>8, <1>9
<1> QED BY <1>1, <1>3, <1>8, <1>10 DEF Goes

LEMMA ToolEndGoes ==
  ASSUME TypeInv, PlaceInv, OnceInv, ToolEnd
  PROVE  Goes /\ ids' \in Nat /\ ids <= ids'
<1> DEFINE m == Result(turn.id)
<1>1. turn.at = "tool" /\ turn \in TurnRecord /\ turn # NoTurn /\ UNCHANGED <<transcript, run, runs, broken, ids>>
      /\ turn' = [turn EXCEPT !.at = "model"] /\ ids \in Nat
      /\ messages' = [messages EXCEPT ![turn.run] = Append(messages[turn.run], m)]
  BY DEF ToolEnd, Log, core, counters, TypeInv, TurnOK, CoreOK, NoTurn
<1>2. turn'.at = "model" /\ turn'.run = turn.run
  BY <1>1 DEF TurnRecord
<1>3. m \in MessageUpto(ids') /\ m.role = "tool" /\ Sketch(m) = <<>>
  <2>1. turn.id \in Id /\ turn.id <= ids
    BY <1>1, TurnId
  <2> QED BY <2>1, <1>1, ResultType DEF Result, Sketch, Projected
<1> HIDE DEF m
<1>4. /\ UnusedEmpty' /\ TurnRuns' /\ \A r \in Run : Grown(r)
      /\ Plan(run)' = Plan(run) \o Sketch(m)
  <2>1. turn.at \notin {"none", "open", "user"} /\ turn'.at \notin {"none", "open", "user"} /\ ids' \in Nat /\ ids <= ids'
    BY <1>1, <1>2
  <2> QED BY <2>1, <1>1, <1>2, <1>3, LogGoes
<1>5. Plan(run)' = Plan(run)
  <2>1. Plan(run) \in Seq(EntryUpto(ids))
    BY PlanType DEF TypeInv, CoreOK
  <2>2. Plan(run) \o <<>> = Plan(run)
    BY <2>1, NothingJoined
  <2> QED BY <2>2, <1>3, <1>4
<1>6. ComingFrom(turn') = <<>>
  BY <1>2, NothingComing
<1>7. ComingFrom(turn) = <<>>
  BY <1>1, NothingComing
<1>8. ShownFits'
  BY <1>1, <1>5, <1>6, <1>7 DEF OnceInv, ShownFits
<1> QED BY <1>1, <1>4, <1>8 DEF Goes

\* A step that only shows: the plans stay.
LEMMA ShowGoes ==
  ASSUME TypeInv, PlaceInv, OnceInv, UNCHANGED <<messages, run, runs, broken>>,
         turn.at \notin {"none", "open", "user"}, turn'.at \notin {"open", "user"},
         turn'.at # "none" => turn'.run = turn.run,
         ~broken => Fits(transcript' \o ComingFrom(turn'), Plan(run))
  PROVE  Goes
<1>1. OwedBy(turn) = <<>>
  BY OwesNothing
<1>2. OwedBy(turn') = <<>>
  BY OwesNothing
<1>3. Plan(run)' = Plan(run) /\ \A r \in Run : Plan(r)' = Plan(r) /\ Grown(r)
  BY <1>1, <1>2, SamePlans
<1>4. ShownFits'
  BY <1>3 DEF ShownFits
<1>5. UnusedEmpty' /\ TurnRuns'
  BY DEF OnceInv, UnusedEmpty, TurnRuns
<1> QED BY <1>3, <1>4, <1>5 DEF Goes

LEMMA ToolStartGoes ==
  ASSUME TypeInv, PlaceInv, OnceInv, ToolStart
  PROVE  Goes /\ ids' \in Nat /\ ids <= ids'
<1>1. turn.at = "called" /\ turn \in TurnRecord /\ UNCHANGED <<messages, run, runs, broken, ids>> /\ ids \in Nat
      /\ turn' = [turn EXCEPT !.at = "tool"]
  BY DEF ToolStart, store, counters, TypeInv, TurnOK, CoreOK
<1>2. turn'.at = "tool" /\ turn'.run = turn.run
  BY <1>1 DEF TurnRecord
<1>3. transcript' = transcript \o ComingFrom(turn)
  BY <1>1 DEF ToolStart, Say, ComingFrom
<1>4. transcript' \o ComingFrom(turn') = transcript'
  <2>1. transcript' \in Seq(EntryUpto(ids))
    BY <1>3, ComingType
  <2>2. ComingFrom(turn') = <<>>
    BY <1>2, NothingComing
  <2> QED BY <2>1, <2>2, NothingJoined
<1>5. ~broken => Fits(transcript' \o ComingFrom(turn'), Plan(run))
  BY <1>3, <1>4 DEF OnceInv, ShownFits
<1>6. Goes
  BY <1>1, <1>2, <1>5, ShowGoes
<1> QED BY <1>1, <1>6

\* A text that is not logged.
LEMMA PartialFits ==
  ASSUME TypeInv, OnceInv, ~broken, turn.at = "model"
  PROVE  /\ Fits(transcript, Plan(run)) /\ Fits(transcript \o <<Shown("text", ids + 1, TRUE)>>, Plan(run))
         /\ transcript \o <<>> = transcript /\ ids \in Nat /\ ids + 1 \in Nat /\ ids <= ids + 1
         /\ (transcript \o <<Shown("text", ids + 1, TRUE)>>) \o <<>> = transcript \o <<Shown("text", ids + 1, TRUE)>>
<1> DEFINE x == Shown("text", ids + 1, TRUE)
<1>1. /\ ids \in Nat /\ ids + 1 \in Nat /\ ids + 1 \in Id /\ ids <= ids + 1
      /\ x \in EntryUpto(ids + 1) /\ Durable(x)
  <2>1. Left >= 1
    BY DEF Left, TypeInv, TurnOK
  <2> QED BY <2>1, FreshShown
<1>2. x.id = ids + 1
  BY DEF Shown
<1>3. transcript \o ComingFrom(turn) = transcript /\ transcript \in Seq(EntryUpto(ids))
  BY ComingType
<1>4. Fits(transcript, Plan(run))
  BY <1>3 DEF OnceInv, ShownFits
<1>5. Plan(run) \in Seq(EntryUpto(ids))
  BY PlanType DEF TypeInv, CoreOK
<1> HIDE DEF x
<1>6. Fits(transcript \o <<x>>, Plan(run))
  BY <1>1, <1>2, <1>3, <1>4, <1>5, FreshFits
<1>7. transcript \o <<>> = transcript
  BY <1>3, NothingJoined
<1>8. (transcript \o <<x>>) \o <<>> = transcript \o <<x>>
  <2>1. transcript \o <<x>> \in Seq(EntryUpto(ids + 1))
    BY <1>1, <1>3, UptoGrows, SayType
  <2> QED BY <2>1, NothingJoined
<1> QED BY <1>1, <1>4, <1>6, <1>7, <1>8 DEF x

LEMMA TurnCancelledGoes ==
  ASSUME TypeInv, PlaceInv, OnceInv, TurnCancelled
  PROVE  Goes /\ ids' \in Nat /\ ids <= ids'
<1>1. CASE turn.at = "model"
  <2>1. PICK partial \in BOOLEAN : turn' = [turn EXCEPT !.at = "fold", !.id = ids + 1, !.text = partial]
    BY <1>1 DEF TurnCancelled
  <2>2. turn \in TurnRecord /\ UNCHANGED <<transcript, messages, run, runs, broken>> /\ ids' = ids + 1 /\ ids \in Nat
    BY <1>1 DEF TurnCancelled, FreshId, core, store, TypeInv, TurnOK, CoreOK
  <2>3. turn'.at = "fold" /\ turn'.run = turn.run /\ turn'.id = ids + 1 /\ turn'.text = partial
    BY <2>1, <2>2 DEF TurnRecord
  <2>4. ASSUME ~broken PROVE Fits(transcript' \o ComingFrom(turn'), Plan(run))
    <3>1. CASE partial
      <4>1. ComingFrom(turn') = <<Shown("text", ids + 1, TRUE)>>
        BY <2>3, <3>1, ComingParts
      <4>2. Fits(transcript \o <<Shown("text", ids + 1, TRUE)>>, Plan(run))
        BY <1>1, <2>4, PartialFits
      <4> QED BY <4>1, <4>2, <2>2
    <3>2. CASE ~partial
      <4>1. ComingFrom(turn') = <<>>
        BY <2>3, <3>2, ComingParts
      <4>2. Fits(transcript, Plan(run)) /\ transcript \o <<>> = transcript
        BY <1>1, <2>4, PartialFits
      <4> QED BY <4>1, <4>2, <2>2
    <3> QED BY <3>1, <3>2
  <2>5. Goes
    BY <1>1, <2>2, <2>3, <2>4, ShowGoes
  <2> QED BY <2>2, <2>5
<1>2. CASE turn.at = "tool"
  <2>1. turn' = [turn EXCEPT !.at = "fold", !.text = FALSE]
    BY <1>2 DEF TurnCancelled
  <2>2. turn \in TurnRecord /\ UNCHANGED <<transcript, messages, run, runs, broken, ids>> /\ ids \in Nat
    BY <1>2 DEF TurnCancelled, core, store, counters, TypeInv, TurnOK, CoreOK
  <2>3. turn'.at = "fold" /\ turn'.run = turn.run /\ turn'.text = FALSE
    BY <2>1, <2>2 DEF TurnRecord
  <2>4. ComingFrom(turn') = <<>>
    BY <2>3, ComingParts
  <2>5. ComingFrom(turn) = <<>>
    BY <1>2, NothingComing
  <2>6. ~broken => Fits(transcript' \o ComingFrom(turn'), Plan(run))
    BY <2>2, <2>4, <2>5 DEF OnceInv, ShownFits
  <2>7. Goes
    BY <1>2, <2>2, <2>3, <2>6, ShowGoes
  <2> QED BY <2>2, <2>7
<1> QED BY <1>1, <1>2 DEF TurnCancelled

LEMMA FoldGoes ==
  ASSUME TypeInv, PlaceInv, OnceInv, FoldToolOutcomes
  PROVE  Goes /\ ids' \in Nat /\ ids <= ids'
<1> DEFINE flushed == transcript \o ComingFrom(turn)
<1>1. turn.at = "fold" /\ turn \in TurnRecord /\ UNCHANGED <<messages, run, runs, broken, ids>> /\ ids \in Nat
      /\ turn' = [turn EXCEPT !.at = "end"]
  BY DEF FoldToolOutcomes, store, counters, TypeInv, TurnOK, CoreOK
<1>2. turn'.at = "end" /\ turn'.run = turn.run
  BY <1>1 DEF TurnRecord
<1>3. transcript' = Folded(flushed, messages[turn.run]) /\ flushed \in Seq(EntryUpto(ids))
  <2>1. ComingFrom(turn) = (IF turn.text THEN Text(turn.id) ELSE <<>>) /\ flushed \in Seq(EntryUpto(ids))
    BY <1>1, ComingType
  <2> QED BY <2>1 DEF FoldToolOutcomes
<1> HIDE DEF flushed
<1>4. transcript' \in Seq(EntryUpto(ids)) /\ Alike(transcript', flushed)
  <2>1. /\ transcript' \in Seq(EntryUpto(ids)) /\ DOMAIN transcript' = DOMAIN flushed
        /\ \A i \in DOMAIN flushed : SameEntry(transcript'[i], flushed[i])
    BY <1>1, <1>3, FoldedType
  <2>2. Len(transcript') = Len(flushed)
    <3>1. /\ DOMAIN transcript' = 1 .. Len(transcript') /\ Len(transcript') \in Nat
          /\ DOMAIN flushed = 1 .. Len(flushed) /\ Len(flushed) \in Nat
      BY <1>3, <2>1
    <3>2. \A n \in Nat : Cardinality(1 .. n) = n
      <4> SUFFICES ASSUME NEW n \in Nat PROVE Cardinality(1 .. n) = n
        OBVIOUS
      <4>1. 1 \in Int /\ n \in Int /\ (1 <= n \/ n = 0)
        OBVIOUS
      <4>2. Cardinality(1 .. n) = IF 1 > n THEN 0 ELSE n - 1 + 1
        BY <4>1, FS_Interval
      <4> QED BY <4>1, <4>2
    <3>3. Cardinality(1 .. Len(transcript')) = Cardinality(1 .. Len(flushed))
      BY <2>1, <3>1
    <3> QED BY <3>1, <3>2, <3>3
  <2> QED BY <2>1, <2>2 DEF Alike, Like
<1>5. transcript' \o ComingFrom(turn') = transcript'
  <2>1. ComingFrom(turn') = <<>>
    BY <1>2, NothingComing
  <2> QED BY <2>1, <1>4, NothingJoined
<1>6. ASSUME ~broken PROVE Fits(transcript' \o ComingFrom(turn'), Plan(run))
  <2> DEFINE p == Plan(run)
  <2>1. p \in Seq(EntryUpto(ids)) /\ Fits(flushed, p)
    BY <1>6, PlanType DEF TypeInv, CoreOK, OnceInv, ShownFits, flushed
  <2>2. Alike(p, p)
    BY LikeItself DEF Alike
  <2> HIDE DEF p
  <2>3. Fits(transcript', p)
    BY <2>1, <2>2, <1>3, <1>4, FitsAlike
  <2> QED BY <2>3, <1>5 DEF p
<1>7. Goes
  BY <1>1, <1>2, <1>6, ShowGoes
<1> QED BY <1>1, <1>7

LEMMA TurnFailsGoes ==
  ASSUME TypeInv, PlaceInv, OnceInv, TurnFails
  PROVE  Goes /\ ids' \in Nat /\ ids <= ids'
<1>1. turn.at = "model" /\ turn \in TurnRecord /\ UNCHANGED <<messages, run, runs, broken>> /\ ids' = ids + 1 /\ ids \in Nat
      /\ turn' = [turn EXCEPT !.at = "end"]
  BY DEF TurnFails, FreshId, store, TypeInv, TurnOK, CoreOK
<1>2. PICK partial \in BOOLEAN : transcript' = transcript \o (IF partial THEN Text(ids + 1) ELSE <<>>)
  BY DEF TurnFails, Say
<1>3. turn'.at = "end" /\ turn'.run = turn.run
  BY <1>1 DEF TurnRecord
<1>4. ComingFrom(turn') = <<>>
  BY <1>3, NothingComing
<1>5. ASSUME ~broken PROVE Fits(transcript' \o ComingFrom(turn'), Plan(run))
  <2> DEFINE x == Shown("text", ids + 1, TRUE)
  <2>1. /\ Fits(transcript, Plan(run)) /\ Fits(transcript \o <<x>>, Plan(run))
        /\ transcript \o <<>> = transcript /\ (transcript \o <<x>>) \o <<>> = transcript \o <<x>>
    BY <1>1, <1>5, PartialFits
  <2>2. transcript' = IF partial THEN transcript \o <<x>> ELSE transcript
    BY <1>2, <2>1 DEF Text
  <2> HIDE DEF x
  <2> QED BY <2>1, <2>2, <1>4
<1>6. Goes
  BY <1>1, <1>3, <1>5, ShowGoes
<1>7. ids' \in Nat /\ ids <= ids'
  BY <1>1
<1> QED BY <1>6, <1>7

LEMMA FinalizeGoes ==
  ASSUME TypeInv, PlaceInv, OnceInv, FinalizeTurn
  PROVE  Goes /\ ids' \in Nat /\ ids <= ids'
<1>1. turn.at = "end" /\ UNCHANGED <<transcript, messages, run, runs, broken, ids>> /\ turn' = NoTurn /\ ids \in Nat
  BY DEF FinalizeTurn, store, counters, TypeInv, CoreOK
<1>2. turn'.at = "none"
  BY <1>1 DEF NoTurn
<1>3. ComingFrom(turn') = <<>>
  BY <1>2, NothingComing
<1>4. ComingFrom(turn) = <<>>
  BY <1>1, NothingComing
<1>5. ~broken => Fits(transcript' \o ComingFrom(turn'), Plan(run))
  BY <1>1, <1>3, <1>4 DEF OnceInv, ShownFits
<1>6. Goes
  BY <1>1, <1>2, <1>5, ShowGoes
<1> QED BY <1>1, <1>6

LEMMA TurnKeepsOnce ==
  ASSUME TypeInv, PlaceInv, OnceInv, Submit \/ TurnStep
  PROVE  OnceInv'
<1>1. CASE Submit
  BY <1>1, SubmitGoes, TurnOnce
<1>2. CASE OpenRun
  BY <1>2, OpenRunGoes, TurnOnce
<1>3. CASE WriteUser
  BY <1>3, WriteUserGoes, TurnOnce
<1>4. CASE ToolStart
  BY <1>4, ToolStartGoes, TurnOnce
<1>5. CASE ToolEnd
  BY <1>5, ToolEndGoes, TurnOnce
<1>6. CASE ModelAnswers
  BY <1>6, ModelAnswersGoes, TurnOnce
<1>7. CASE TurnCancelled
  BY <1>7, TurnCancelledGoes, TurnOnce
<1>8. CASE FoldToolOutcomes
  BY <1>8, FoldGoes, TurnOnce
<1>9. CASE TurnFails
  BY <1>9, TurnFailsGoes, TurnOnce
<1>10. CASE FinalizeTurn
  BY <1>10, FinalizeGoes, TurnOnce
<1>11. CASE \E c \in Calls : ModelCalls(c.tool, c.text)
  BY <1>11, ModelCallsGoes, TurnOnce
<1> QED BY <1>1, <1>2, <1>3, <1>4, <1>5, <1>6, <1>7, <1>8, <1>9, <1>10, <1>11 DEF TurnStep

-----------------------------------------------------------------------------
(* The passes.                                                             *)
LEMMA PassFrame ==
  ASSUME TypeInv, OnceInv, UNCHANGED <<transcript, run, messages, runs, turn>>, broken => broken',
         switch'.at \in {"popped", "loaded", "released", "built"} =>
           /\ switch'.at = switch.at /\ switch'.target = switch.target
           /\ switch'.loaded = switch.loaded /\ switch'.built = switch.built
  PROVE  /\ UnusedEmpty' /\ PlansOnce' /\ TurnRuns' /\ LoadedOK' /\ ShownFits' /\ BuiltFits'
         /\ \A r \in Run : Plan(r)' = Plan(r)
<1>1. Plan(run)' = Plan(run) /\ \A r \in Run : Plan(r)' = Plan(r)
  BY SamePlans
<1>2. UnusedEmpty' /\ TurnRuns'
  BY DEF OnceInv, UnusedEmpty, TurnRuns
<1>3. PlansOnce'
  BY <1>1 DEF OnceInv, PlansOnce
<1>4. LoadedOK'
  BY DEF OnceInv, LoadedOK
<1>5. ShownFits'
  BY <1>1 DEF OnceInv, ShownFits
<1>6. BuiltFits'
  <2> SUFFICES ASSUME ~broken', switch'.at = "built" PROVE Fits(switch'.built, Plan(switch.target)')
    BY DEF BuiltFits
  <2>1. switch.at = "built" /\ switch'.target = switch.target /\ switch'.built = switch.built
    OBVIOUS
  <2>2. switch.target \in Run
    BY <2>1 DEF TypeInv, SwitchOK
  <2>3. PICK r \in Run : r = switch.target
    BY <2>2
  <2>4. Fits(switch.built, Plan(r))
    BY <2>1, <2>3 DEF OnceInv, BuiltFits
  <2>5. Fits(switch'.built, Plan(r)')
    BY <2>1, <2>4, <1>1
  <2> QED BY <2>1, <2>3, <2>5
<1> QED BY <1>1, <1>2, <1>3, <1>4, <1>5, <1>6

\* The rows are the same, and so is the pass, or it has ended.
LEMMA SameRows ==
  ASSUME TypeInv, OnceInv, UNCHANGED <<transcript, run, messages, runs, turn, rows>>, broken => broken',
         writer'.by # "none" => writer.by # "none" /\ writer'.run = writer.run /\ writer'.entries = writer.entries,
         switch'.at \in {"popped", "loaded", "released", "built"} =>
           /\ switch'.at = switch.at /\ switch'.target = switch.target
           /\ switch'.loaded = switch.loaded /\ switch'.built = switch.built
  PROVE  OnceInv'
<1>1. /\ UnusedEmpty' /\ PlansOnce' /\ TurnRuns' /\ LoadedOK' /\ ShownFits' /\ BuiltFits'
      /\ \A r \in Run : Plan(r)' = Plan(r)
  BY PassFrame
<1>2. RowsFit'
  BY <1>1 DEF OnceInv, RowsFit
<1>3. PassFits'
  <2> SUFFICES ASSUME ~broken', writer'.by # "none"
               PROVE  Clean(writer'.entries, Plan(writer.run)') /\ Follows(rows'[writer'.run], writer'.entries)
    BY DEF PassFits
  <2>1. writer.run \in Run
    BY PassOn
  <2>2. PICK r \in Run : r = writer.run
    BY <2>1
  <2>3. Clean(writer.entries, Plan(r)) /\ Follows(rows[r], writer.entries)
    BY <2>2 DEF OnceInv, PassFits
  <2>4. Clean(writer'.entries, Plan(r)') /\ writer'.run = r /\ Follows(rows'[r], writer'.entries)
    BY <2>2, <2>3, <1>1
  <2> QED BY <2>4
<1> QED BY <1>1, <1>2, <1>3 DEF OnceInv

\* A part of what the transcript will show fits the plan.
LEMMA ShownPart ==
  ASSUME TypeInv, OnceInv, ~broken
  PROVE  Clean(transcript, Plan(run)) /\ transcript \in Seq(EntryUpto(ids)) /\ Plan(run) \in Seq(EntryUpto(ids))
<1> DEFINE p == Plan(run)
           c == ComingFrom(turn)
<1>1. /\ transcript \in Seq(EntryUpto(ids)) /\ c \in Seq(EntryUpto(ids)) /\ transcript \o c \in Seq(EntryUpto(ids))
  BY ComingType
<1>2. p \in Seq(EntryUpto(ids)) /\ Clean(transcript \o c, p)
  BY PlanType DEF TypeInv, CoreOK, OnceInv, ShownFits, Fits
<1>3. Like(p, p)
  BY LikeItself
<1> HIDE DEF p, c
<1>4. Like(transcript, transcript \o c)
  BY <1>1, BeginsJoin
<1>5. Clean(transcript, p)
  BY <1>1, <1>2, <1>3, <1>4, CleanPart
<1> QED BY <1>1, <1>2, <1>5 DEF p

LEMMA StartOnce ==
  ASSUME TypeInv, FollowInv, OnceInv, LoopPass \/ FlushPass
  PROVE  OnceInv'
<1>1. UNCHANGED <<transcript, run, messages, runs, turn, rows, broken>> /\ switch \in SwitchRecord(ids) /\ writer = NoWriter
  BY DEF LoopPass, FlushPass, core, store, counters, TypeInv, SwitchOK
<1>2. switch'.at \in {"popped", "loaded", "released", "built"} =>
           /\ switch'.at = switch.at /\ switch'.target = switch.target
           /\ switch'.loaded = switch.loaded /\ switch'.built = switch.built
  BY <1>1 DEF LoopPass, FlushPass, SwitchRecord
<1>3. /\ UnusedEmpty' /\ PlansOnce' /\ TurnRuns' /\ LoadedOK' /\ ShownFits' /\ BuiltFits'
      /\ \A r \in Run : Plan(r)' = Plan(r)
  BY <1>1, <1>2, PassFrame
<1>4. RowsFit'
  BY <1>1, <1>3 DEF OnceInv, RowsFit
<1>5. PassFits'
  <2> SUFFICES ASSUME ~broken', writer'.by # "none"
               PROVE  Clean(writer'.entries, Plan(writer.run)') /\ Follows(rows'[writer'.run], writer'.entries)
    BY DEF PassFits
  <2>1. run # NoRun /\ \E by \in {"loop", "flush"} : writer' = Pass(by)
    <3>1. CASE LoopPass
      BY <3>1 DEF LoopPass
    <3>2. CASE FlushPass
      <4>1. writer' # writer
        BY <1>1 DEF NoWriter
      <4>2. run # NoRun /\ writer' = Pass("flush")
        BY <3>2, <4>1 DEF FlushPass
      <4> QED BY <4>2
    <3> QED BY <3>1, <3>2
  <2>2. writer'.run = run /\ writer'.entries = transcript /\ run \in Run
    BY <2>1, PassType DEF TypeInv, CoreOK
  <2>3. PICK r \in Run : r = run
    BY <2>2
  <2>4. Clean(transcript, Plan(r))
    BY <1>1, <2>3, ShownPart
  <2>5. Follows(rows[r], transcript)
    BY <1>1, <2>1, <2>3 DEF FollowInv
  <2>6. Clean(writer'.entries, Plan(r)') /\ writer'.run = r /\ Follows(rows'[r], writer'.entries)
    BY <1>1, <1>3, <2>2, <2>3, <2>4, <2>5
  <2> QED BY <2>6
<1> QED BY <1>3, <1>4, <1>5 DEF OnceInv

\* A row is added to those of a pass, which its entries have at its place.
LEMMA FilledClean ==
  ASSUME NEW n \in Nat, NEW had, TableOK(had, n), NEW seq \in Nat, Reaches(seq, had), seq \notin DOMAIN had,
         NEW e, NEW more, Filled(had, more, seq, e), TableOK(more, n)
  PROVE  /\ Listed(had) \in Seq(EntryUpto(n)) /\ Listed(more) \in Seq(EntryUpto(n)) /\ Len(Listed(had)) = seq
         /\ DOMAIN had = 0 .. seq - 1 /\ DOMAIN Listed(had) = 1 .. seq /\ DOMAIN Listed(more) = 1 .. seq + 1
         /\ \A i \in 1 .. seq : Listed(more)[i] = Listed(had)[i] /\ Listed(had)[i] = had[i - 1]
         /\ Listed(more)[seq + 1] = e
<1>1. PICK k \in Nat : seq <= k /\ DOMAIN had = 0 .. k - 1
  BY DEF Reaches
<1>2. seq = k
  BY <1>1
<1>3. DOMAIN more = 0 .. (seq + 1) - 1 /\ seq + 1 \in Nat /\ DOMAIN had = 0 .. seq - 1
  BY <1>1, <1>2 DEF Filled
<1>4. DOMAIN Listed(had) = 1 .. seq /\ \A i \in 1 .. seq : Listed(had)[i] = had[i - 1]
  BY <1>3, ListedInOrder
<1>5. DOMAIN Listed(more) = 1 .. seq + 1 /\ \A i \in 1 .. seq + 1 : Listed(more)[i] = more[i - 1]
  BY <1>3, ListedInOrder
<1>6. \A i \in 1 .. seq : i - 1 \in DOMAIN had /\ more[i - 1] = had[i - 1] /\ i \in 1 .. seq + 1
  BY <1>3 DEF Filled
<1>7. more[seq] = e /\ seq + 1 \in 1 .. seq + 1 /\ (seq + 1) - 1 = seq
  BY <1>3 DEF Filled
<1>8. Listed(had) \in Seq(EntryUpto(n)) /\ Listed(more) \in Seq(EntryUpto(n))
  BY ListedType DEF TableOK
<1>9. Len(Listed(had)) = seq
  <2>1. ASSUME NEW S, NEW s \in Seq(S), DOMAIN s = 1 .. seq PROVE Len(s) = seq
    <3>1. DOMAIN s = 1 .. Len(s) /\ Len(s) \in Nat
      OBVIOUS
    <3>2. \A m \in Nat : Cardinality(1 .. m) = m
      <4> SUFFICES ASSUME NEW m \in Nat PROVE Cardinality(1 .. m) = m
        OBVIOUS
      <4>1. 1 \in Int /\ m \in Int /\ (1 <= m \/ m = 0)
        OBVIOUS
      <4>2. Cardinality(1 .. m) = IF 1 > m THEN 0 ELSE m - 1 + 1
        BY <4>1, FS_Interval
      <4> QED BY <4>1, <4>2
    <3>3. Cardinality(1 .. Len(s)) = Cardinality(1 .. seq)
      BY <2>1, <3>1
    <3> QED BY <3>1, <3>2, <3>3
  <2> QED BY <1>4, <1>8, <2>1
<1> QED BY <1>3, <1>4, <1>5, <1>6, <1>7, <1>8, <1>9

LEMMA InsertEntryOnce ==
  ASSUME TypeInv, PlaceInv, OnceInv, InsertEntry
  PROVE  OnceInv'
<1> DEFINE e == writer.entries[writer.seq + 1]
           x == writer.unfolded \/ (e.kind = "call" /\ ~e.out)
           next == writer.seq + 1
<1>1. writer.by # "none" /\ writer.seq < writer.until /\ UNCHANGED <<transcript, run, messages, runs, turn, switch>>
      /\ (broken => broken')
  BY DEF InsertEntry, core
<1>2. writer.seq + 1 \in DOMAIN writer.entries /\ e \in EntryUpto(ids) /\ writer \in PassRecord(ids)
      /\ writer.entries \in Seq(EntryUpto(ids)) /\ writer.run \in Run /\ writer.seq \in Nat /\ ids \in Nat
  <2>1. writer.seq + 1 \in DOMAIN writer.entries /\ writer.entries \in Seq(EntryUpto(ids)) /\ writer \in PassRecord(ids)
        /\ writer.run \in Run /\ writer.seq \in Nat /\ ids \in Nat
    BY <1>1, PassOn
  <2> QED BY <2>1
<1>3. \/ /\ rows' = [rows EXCEPT ![writer.run] = InsertOrIgnore(rows[writer.run], writer.seq, e)]
         /\ writer' = [writer EXCEPT !.seq = next, !.unfolded = x]
         /\ broken' = (broken \/ LacksMark(rows[writer.run], writer.seq, writer.entries))
      \/ rows' = rows /\ writer' = [writer EXCEPT !.until = writer.seq]
  BY DEF InsertEntry
<1> HIDE DEF x, next
<1>4. writer'.run = writer.run /\ writer'.entries = writer.entries /\ writer'.by = writer.by
  BY <1>2, <1>3 DEF PassRecord
<1>5. CASE rows' = rows
  BY <1>1, <1>4, <1>5, SameRows
<1>6. ASSUME rows' = [rows EXCEPT ![writer.run] = InsertOrIgnore(rows[writer.run], writer.seq, e)],
             broken' = (broken \/ LacksMark(rows[writer.run], writer.seq, writer.entries))
      PROVE  OnceInv'
  <2>1. PICK r \in Run : r = writer.run
    BY <1>2
  <2> DEFINE had == rows[r]
             more == InsertOrIgnore(had, writer.seq, e)
             ent == writer.entries
             p == Plan(r)
  <2>2. rows'[r] = more /\ \A q \in Run : q # r => rows'[q] = rows[q]
    BY <1>6, <2>1 DEF TypeInv, StoreOK
  <2>3. TableOK(had, ids)
    BY DEF TypeInv, StoreOK
  <2>4. TableOK(more, ids) /\ Filled(had, more, writer.seq, e)
    BY <1>2, <2>3, InsertType
  <2>5. /\ UnusedEmpty' /\ PlansOnce' /\ TurnRuns' /\ LoadedOK' /\ ShownFits' /\ BuiltFits'
        /\ \A q \in Run : Plan(q)' = Plan(q)
    BY <1>1, PassFrame
  <2>6. Reaches(writer.seq, had)
    BY <1>1, <2>1 DEF PlaceInv, PassReaches
  <2>7. writer.seq \in DOMAIN had => more = had
    BY DEF InsertOrIgnore
  <2>8. p \in Seq(EntryUpto(ids))
    BY PlanType
  <2>9. ~broken' => ~broken /\ ~LacksMark(had, writer.seq, ent)
    BY <1>6, <2>1
  <2>10. ~broken => Clean(ent, p) /\ Follows(had, ent) /\ Clean(Listed(had), p)
    BY <1>1, <2>1 DEF OnceInv, PassFits, RowsFit
  <2> HIDE DEF had, more, p
  <2>11. ~broken' => Follows(more, ent)
    <3> SUFFICES ASSUME ~broken' PROVE Follows(more, ent)
      OBVIOUS
    <3>1. Follows(had, ent) /\ SameEntry(e, ent[writer.seq + 1])
      BY <2>9, <2>10 DEF SameEntry
    <3> QED BY <3>1, <1>2, <2>4, FilledFollows
  <2>12. ~broken' => Clean(Listed(more), p)
    <3> SUFFICES ASSUME ~broken', writer.seq \notin DOMAIN had PROVE Clean(Listed(more), p)
      BY <2>7, <2>9, <2>10
    <3> DEFINE seq == writer.seq
               list == Listed(more)
    <3>1. /\ list \in Seq(EntryUpto(ids)) /\ DOMAIN had = 0 .. seq - 1 /\ DOMAIN list = 1 .. seq + 1
          /\ \A i \in 1 .. seq : list[i] = had[i - 1]
          /\ list[seq + 1] = e
      BY <1>2, <2>3, <2>4, <2>6, FilledClean
    <3> HIDE DEF seq, list
    <3>2. seq \in Nat /\ seq + 1 \in DOMAIN ent /\ e = ent[seq + 1]
      BY <1>2 DEF seq
    <3>3. ASSUME NEW i \in 1 .. seq PROVE i \in DOMAIN ent /\ SameEntry(had[i - 1], ent[i])
      <4>1. i - 1 \in DOMAIN had /\ (i - 1) + 1 = i /\ i - 1 <= seq /\ i - 1 \in Nat
        BY <3>1, <3>2
      <4>2. LacksMark(had, i - 1, ent) => LacksMark(had, seq, ent)
        <5> SUFFICES ASSUME NEW j \in DOMAIN had, j <= i - 1, had[j] = Mark, j < Len(ent) => ent[j + 1] # Mark
                     PROVE  LacksMark(had, seq, ent)
          BY DEF LacksMark
        <5>1. j <= seq
          BY <3>1, <3>2, <4>1
        <5> QED BY <5>1 DEF LacksMark
      <4>3. ~LacksMark(had, i - 1, ent)
        BY <4>2, <2>9 DEF seq
      <4>4. (i - 1) + 1 \in DOMAIN ent /\ SameEntry(had[i - 1], ent[(i - 1) + 1])
        BY <4>1, <4>3, <2>9, <2>10 DEF Follows
      <4> QED BY <4>1, <4>4
    <3>4. Like(list, ent)
      <4> SUFFICES ASSUME NEW i \in 1 .. seq + 1 PROVE i \in DOMAIN ent /\ SameEntry(list[i], ent[i])
        BY <3>1 DEF Like
      <4>1. CASE i = seq + 1
        BY <4>1, <3>1, <3>2 DEF SameEntry
      <4>2. CASE i # seq + 1
        <5>1. i \in 1 .. seq
          BY <4>2, <3>2
        <5> QED BY <5>1, <3>1, <3>3
      <4> QED BY <4>1, <4>2
    <3>5. Like(p, p) /\ Clean(ent, p)
      BY <2>9, <2>10, LikeItself
    <3>6. Clean(list, p)
      BY <1>2, <2>8, <3>1, <3>4, <3>5, CleanPart
    <3> QED BY <3>6 DEF list
  <2>13. RowsFit'
    <3> SUFFICES ASSUME ~broken', NEW q \in Run PROVE Clean(Listed(rows'[q]), Plan(q)')
      BY DEF RowsFit
    <3>1. CASE q = r
      BY <3>1, <2>2, <2>5, <2>12 DEF p
    <3>2. CASE q # r
      BY <3>2, <2>2, <2>5, <2>9 DEF OnceInv, RowsFit
    <3> QED BY <3>1, <3>2
  <2>14. PassFits'
    <3> SUFFICES ASSUME ~broken'
                 PROVE  Clean(writer'.entries, Plan(writer.run)') /\ Follows(rows'[writer'.run], writer'.entries)
      BY DEF PassFits
    <3>1. Clean(ent, Plan(r)') /\ Follows(rows'[r], ent)
      BY <2>2, <2>5, <2>9, <2>10, <2>11 DEF p
    <3>2. writer'.run = r /\ writer'.entries = ent
      BY <1>4, <2>1
    <3> QED BY <3>1, <3>2
  <2> QED BY <2>5, <2>13, <2>14 DEF OnceInv
<1> QED BY <1>3, <1>5, <1>6

LEMMA ReleaseKeeps ==
  ASSUME TypeInv, writer.by # "none", NEW c, Release(c)
  PROVE  /\ writer'.by = "none"
         /\ switch'.at \in {"popped", "loaded", "released", "built"} =>
              /\ switch'.at = switch.at /\ switch'.target = switch.target
              /\ switch'.loaded = switch.loaded /\ switch'.built = switch.built
<1>1. switch \in SwitchRecord(ids)
  BY DEF TypeInv, SwitchOK
<1>2. writer'.by = "none"
  BY DEF Release, NoWriter
<1>3. CASE switch' = [switch EXCEPT !.at = "flushed"]
  BY <1>1, <1>2, <1>3 DEF SwitchRecord
<1>4. CASE switch' = switch
  BY <1>2, <1>4
<1> QED BY <1>3, <1>4 DEF Release

LEMMA InsertMarkOnce ==
  ASSUME TypeInv, PlaceInv, OnceInv, InsertMark
  PROVE  OnceInv'
<1>1. writer.by # "none" /\ UNCHANGED <<transcript, run, messages, runs, turn, broken>>
  BY DEF InsertMark, core
<1>2. PICK c : Release(c)
  BY DEF InsertMark
<1>3. /\ writer'.by = "none"
      /\ switch'.at \in {"popped", "loaded", "released", "built"} =>
              /\ switch'.at = switch.at /\ switch'.target = switch.target
              /\ switch'.loaded = switch.loaded /\ switch'.built = switch.built
  BY <1>1, <1>2, ReleaseKeeps
<1>4. CASE rows' = rows
  BY <1>1, <1>3, <1>4, SameRows
<1>5. ASSUME rows' = [rows EXCEPT ![writer.run] = InsertOrIgnore(rows[writer.run], writer.seq, Mark)]
      PROVE  OnceInv'
  <2>0. writer.run \in Run /\ writer.seq \in Nat /\ ids \in Nat
    BY <1>1, PassOn
  <2>1. PICK r \in Run : r = writer.run
    BY <2>0
  <2> DEFINE had == rows[r]
             more == InsertOrIgnore(had, writer.seq, Mark)
             p == Plan(r)
  <2>2. rows'[r] = more /\ \A q \in Run : q # r => rows'[q] = rows[q]
    BY <1>5, <2>1 DEF TypeInv, StoreOK
  <2>3. TableOK(had, ids)
    BY DEF TypeInv, StoreOK
  <2>4. p \in Seq(EntryUpto(ids)) /\ AllDurable(p)
    BY PlanType
  <2>5. /\ UnusedEmpty' /\ PlansOnce' /\ TurnRuns' /\ LoadedOK' /\ ShownFits' /\ BuiltFits'
        /\ \A q \in Run : Plan(q)' = Plan(q)
    BY <1>1, <1>3, PassFrame
  <2>6. Reaches(writer.seq, had)
    BY <1>1, <2>1 DEF PlaceInv, PassReaches
  <2>7. writer.seq \in DOMAIN had => more = had
    BY DEF InsertOrIgnore
  <2>8. Mark \in EntryUpto(ids) /\ Mark \in {Meta, Mark}
    BY <2>0, MarksType
  <2>9. ~broken => Clean(Listed(had), p)
    BY DEF OnceInv, RowsFit
  <2>10. TableOK(more, ids) /\ Filled(had, more, writer.seq, Mark)
    BY <2>0, <2>3, <2>8, InsertType
  <2> HIDE DEF had, more, p
  <2>11. ~broken => Clean(Listed(more), p)
    <3> SUFFICES ASSUME ~broken, writer.seq \notin DOMAIN had PROVE Clean(Listed(more), p)
      BY <2>7, <2>9
    <3> DEFINE seq == writer.seq
               list == Listed(more)
               old == Listed(had)
               one == <<Mark>>
    <3>1. /\ old \in Seq(EntryUpto(ids)) /\ list \in Seq(EntryUpto(ids)) /\ Len(old) = seq
          /\ DOMAIN list = 1 .. seq + 1
          /\ \A i \in 1 .. seq : list[i] = old[i]
          /\ list[seq + 1] = Mark
      BY <2>0, <2>3, <2>6, <2>10, FilledClean
    <3>2. seq \in Nat /\ one \in Seq(EntryUpto(ids)) /\ Len(one) = 1 /\ one[1] = Mark
      BY <2>0, <2>8
    <3> HIDE DEF seq, list, old, one
    <3>3. Joined(old, one) /\ old \o one \in Seq(EntryUpto(ids))
      BY <3>1, <3>2, Joins, BeginsJoin
    <3>4. list = old \o one
      <4> DEFINE u == old \o one
      <4>1. /\ DOMAIN u = 1 .. seq + 1 /\ Len(u) = seq + 1
            /\ \A i \in 1 .. seq : u[i] = old[i]
            /\ \A i \in 1 .. 1 : u[seq + i] = one[i]
        BY <3>1, <3>2, <3>3 DEF Joined
      <4>2. u \in Seq(EntryUpto(ids))
        BY <3>3
      <4> HIDE DEF u
      <4>3. u[seq + 1] = Mark
        BY <4>1, <3>2
      <4>4. \A i \in 1 .. seq + 1 : list[i] = u[i]
        <5> SUFFICES ASSUME NEW i \in 1 .. seq + 1 PROVE list[i] = u[i]
          OBVIOUS
        <5>1. i \in 1 .. seq \/ i = seq + 1
          BY <3>2
        <5> QED BY <5>1, <3>1, <4>1, <4>3
      <4>5. Len(list) = seq + 1
        <5>1. ASSUME NEW S, NEW s \in Seq(S), NEW t \in Seq(S), DOMAIN s = DOMAIN t PROVE Len(s) = Len(t)
          BY <5>1
        <5> QED BY <5>1, <3>1, <4>1, <4>2
      <4>6. list = u
        BY <3>1, <4>1, <4>2, <4>4, <4>5, SamePlaces
      <4> QED BY <4>6 DEF u
    <3>5. /\ \A j \in DOMAIN p : ~SameEntry(Mark, p[j])
          /\ \A i \in DOMAIN old : Durable(old[i]) => ~SameEntry(old[i], Mark)
      BY <2>0, <2>4, <2>8, MarkIsNone
    <3>6. Clean(old, p)
      BY <2>9 DEF old
    <3>7. Clean(old \o <<Mark>>, p)
      BY <2>4, <2>8, <3>1, <3>5, <3>6, CleanAfter
    <3> QED BY <3>4, <3>7 DEF list, one
  <2>12. RowsFit'
    <3> SUFFICES ASSUME ~broken, NEW q \in Run PROVE Clean(Listed(rows'[q]), Plan(q)')
      BY <1>1 DEF RowsFit
    <3>1. CASE q = r
      BY <3>1, <2>2, <2>5, <2>11 DEF p
    <3>2. CASE q # r
      BY <3>2, <2>2, <2>5 DEF OnceInv, RowsFit
    <3> QED BY <3>1, <3>2
  <2>13. PassFits'
    BY <1>3 DEF PassFits
  <2> QED BY <2>5, <2>12, <2>13 DEF OnceInv
<1> QED BY <1>4, <1>5 DEF InsertMark

LEMMA PassOnce ==
  ASSUME TypeInv, PlaceInv, OnceInv, PassStep
  PROVE  OnceInv'
<1>1. CASE Bootstrap
  <2>1. writer.by # "none" /\ UNCHANGED <<transcript, run, messages, runs, turn, rows, switch, broken>>
    BY <1>1 DEF Bootstrap, core, store
  <2>2. PICK n, u : writer' = [writer EXCEPT !.stage = "write", !.from = n, !.seq = n, !.until = u]
    BY <1>1, ZenonT(60) DEF Bootstrap
  <2>3. writer \in PassRecord(ids)
    BY <2>1, PassOn
  <2>4. writer'.run = writer.run /\ writer'.entries = writer.entries
    BY <2>2, <2>3 DEF PassRecord
  <2> QED BY <2>1, <2>4, SameRows
<1>2. CASE InsertEntry
  BY <1>2, InsertEntryOnce
<1>3. CASE EndPass
  <2>1. writer.by # "none" /\ UNCHANGED <<transcript, run, messages, runs, turn, rows, broken>>
    BY <1>3 DEF EndPass, core, store, counters
  <2>2. (writer' = [writer EXCEPT !.stage = "mark"] /\ switch' = switch) \/ \E c : Release(c)
    BY <1>3 DEF EndPass
  <2>3. CASE writer' = [writer EXCEPT !.stage = "mark"] /\ switch' = switch
    <3>1. writer \in PassRecord(ids)
      BY <2>1, PassOn
    <3>2. writer'.run = writer.run /\ writer'.entries = writer.entries
      BY <2>3, <3>1 DEF PassRecord
    <3> QED BY <2>1, <2>3, <3>2, SameRows
  <2>4. CASE \E c : Release(c)
    <3>1. PICK c : Release(c)
      BY <2>4
    <3>2. /\ writer'.by = "none"
          /\ switch'.at \in {"popped", "loaded", "released", "built"} =>
              /\ switch'.at = switch.at /\ switch'.target = switch.target
              /\ switch'.loaded = switch.loaded /\ switch'.built = switch.built
      BY <3>1, <2>1, ReleaseKeeps
    <3> QED BY <2>1, <3>2, SameRows
  <2> QED BY <2>2, <2>3, <2>4
<1>4. CASE InsertMark
  BY <1>4, InsertMarkOnce
<1> QED BY <1>1, <1>2, <1>3, <1>4 DEF PassStep

-----------------------------------------------------------------------------
(* The handlers.                                                           *)
LEMMA IdlePlans ==
  ASSUME UNCHANGED messages, turn.at = "none", turn'.at = "none"
  PROVE  (\A r \in Run : Plan(r)' = Plan(r)) /\ (run' = NoRun => Plan(run)' = <<>>)
<1>1. OwedBy(turn) = <<>>
  BY OwesNothing
<1>2. OwedBy(turn') = <<>>
  BY OwesNothing
<1>3. \A r \in Run : Plan(r)' = Plan(r)
  BY <1>1, <1>2 DEF Plan, Base
<1>4. run' = NoRun => Plan(run)' = <<>> \o <<>>
  BY <1>2 DEF Plan, Base
<1> QED BY <1>3, <1>4, NothingJoined

LEMMA SwitchFrame ==
  ASSUME TypeInv, OnceInv, UNCHANGED <<messages, runs, turn, rows, writer>>, broken => broken', turn.at = "none",
         LoadedOK', ShownFits', BuiltFits'
  PROVE  OnceInv'
<1>1. \A r \in Run : Plan(r)' = Plan(r)
  BY IdlePlans
<1>2. UnusedEmpty' /\ TurnRuns'
  BY DEF OnceInv, UnusedEmpty, TurnRuns
<1>3. PlansOnce'
  BY <1>1 DEF OnceInv, PlansOnce
<1>4. RowsFit'
  BY <1>1 DEF OnceInv, RowsFit
<1>5. PassFits'
  <2> SUFFICES ASSUME ~broken', writer.by # "none"
               PROVE  Clean(writer.entries, Plan(writer.run)') /\ Follows(rows[writer.run], writer.entries)
    BY DEF PassFits
  <2>1. writer.run \in Run
    BY PassOn
  <2>2. PICK r \in Run : r = writer.run
    BY <2>1
  <2>3. Clean(writer.entries, Plan(r)) /\ Follows(rows[r], writer.entries)
    BY <2>2 DEF OnceInv, PassFits
  <2>4. Clean(writer.entries, Plan(r)') /\ writer'.run = r
    BY <2>2, <2>3, <1>1
  <2> QED BY <2>2, <2>3, <2>4
<1> QED BY <1>2, <1>3, <1>4, <1>5 DEF OnceInv

\* While a session is opened there is no turn, and the target is another run.
LEMMA OpenFacts ==
  ASSUME TypeInv, PlaceInv, switch.op = "open"
  PROVE  /\ turn.at = "none" /\ switch.target \in Run /\ switch.target # run /\ switch.target # NoRun
         /\ switch \in SwitchRecord(ids) /\ ids \in Nat /\ ComingFrom(turn) = <<>>
         /\ transcript \o ComingFrom(turn) = transcript
         /\ Plan(switch.target) = Outline(messages[switch.target])
         /\ messages[switch.target] \in Seq(MessageUpto(ids))
<1>1. turn = NoTurn /\ switch.target \in Run /\ switch \in SwitchRecord(ids) /\ ids \in Nat
  BY DEF TypeInv, SwitchOK, CoreOK
<1>2. turn.at = "none"
  BY <1>1 DEF NoTurn
<1>3. switch.target # run
  BY DEF PlaceInv, AwayOK
<1>4. ComingFrom(turn) = <<>> /\ transcript \o ComingFrom(turn) = transcript
  BY <1>2, ComingType
<1>5. switch.target # NoRun
  BY <1>1, SyncAssumption DEF Run, NoRun
<1>6. Plan(switch.target) = Outline(messages[switch.target]) /\ messages[switch.target] \in Seq(MessageUpto(ids))
  BY <1>1, <1>3, PlanIsOutline
<1> QED BY <1>1, <1>2, <1>3, <1>4, <1>5, <1>6

LEMMA ResetOnce ==
  ASSUME TypeInv, PlaceInv, OnceInv, ResetSession
  PROVE  OnceInv'
<1>1. UNCHANGED <<messages, runs, turn, rows, writer, broken>> /\ switch' = NoSwitch
  BY DEF ResetSession, store, sync, counters
<1>2. switch'.at = "none"
  BY <1>1 DEF NoSwitch
<1>3. CASE running
  <2>1. UNCHANGED <<transcript, run>>
    BY <1>3 DEF ResetSession
  <2> QED BY <1>1, <1>2, <2>1, SameRows
<1>4. CASE ~running
  <2>1. transcript' = <<>> /\ run' = NoRun /\ turn.at = "none"
    BY <1>4 DEF ResetSession, TypeInv, TurnOK, NoTurn
  <2>2. ComingFrom(turn) = <<>>
    BY <2>1, NothingComing
  <2>3. Plan(run)' = <<>>
    BY <1>1, <2>1, IdlePlans
  <2>4. Fits(<<>>, <<>>)
    <3>1. Once(<<>>) /\ <<>> \in Seq({})
      BY DEF Once
    <3> QED BY <3>1, FitsNothing
  <2>5. <<>> \o <<>> = <<>>
    BY NothingJoined
  <2>6. ShownFits'
    BY <1>1, <2>1, <2>2, <2>3, <2>4, <2>5 DEF ShownFits
  <2>7. LoadedOK' /\ BuiltFits'
    BY <1>2 DEF LoadedOK, BuiltFits
  <2> QED BY <1>1, <2>1, <2>6, <2>7, SwitchFrame
<1> QED BY <1>3, <1>4

LEMMA LoadRunOnce ==
  ASSUME TypeInv, PlaceInv, OnceInv, LoadRun
  PROVE  OnceInv'
<1>1. switch.op = "open" /\ switch.at = "flushed" /\ UNCHANGED <<transcript, run, runs, turn, writer, broken>>
  BY DEF LoadRun, core, store, sync, counters
<1>2. /\ turn.at = "none" /\ switch.target \in Run /\ switch.target # run /\ switch.target # NoRun
      /\ switch \in SwitchRecord(ids) /\ ids \in Nat /\ ComingFrom(turn) = <<>>
      /\ transcript \o ComingFrom(turn) = transcript
      /\ Plan(switch.target) = Outline(messages[switch.target])
      /\ messages[switch.target] \in Seq(MessageUpto(ids))
  BY <1>1, OpenFacts
<1>3. PICK r \in Run : r = switch.target
  BY <1>2
<1> DEFINE ms == messages[r]
<1>4. CASE ~EndsOpen(ms)
  <2>1. UNCHANGED <<messages, rows>> /\ switch' = [switch EXCEPT !.at = "loaded", !.loaded = ms]
    BY <1>3, <1>4 DEF LoadRun, store
  <2>2. switch'.at = "loaded" /\ switch'.loaded = ms /\ switch'.target = r
    BY <1>2, <1>3, <2>1 DEF SwitchRecord
  <2>3. LoadedOK' /\ BuiltFits'
    BY <2>1, <2>2 DEF LoadedOK, BuiltFits
  <2>4. Plan(run)' = Plan(run)
    BY <1>1, <2>1, SamePlans
  <2>5. ShownFits'
    BY <1>1, <2>4 DEF OnceInv, ShownFits
  <2> QED BY <1>1, <1>2, <2>1, <2>3, <2>5, SwitchFrame
<1>5. CASE EndsOpen(ms)
  <2> DEFINE front == Front(ms)
  <2>1. /\ messages' = [messages EXCEPT ![r] = front] /\ rows' = [rows EXCEPT ![r] = <<>>]
        /\ switch' = [switch EXCEPT !.at = "popped", !.popped = TRUE, !.loaded = front]
    BY <1>3, <1>5 DEF LoadRun
  <2>2. ms # <<>> /\ ms \in Seq(MessageUpto(ids))
    BY <1>2, <1>3, <1>5 DEF EndsOpen
  <2>3. front \in Seq(MessageUpto(ids)) /\ Like(Outline(front), Outline(ms)) /\ Outline(ms) = Plan(r)
    BY <1>2, <1>3, <2>2, OutlineFront
  <2> HIDE DEF front
  <2>4. switch'.at = "popped" /\ switch'.loaded = front /\ switch'.target = r
    BY <1>2, <1>3, <2>1 DEF SwitchRecord
  <2>5. /\ messages'[r] = front /\ DOMAIN rows'[r] = {}
        /\ \A q \in Run : q # r => messages'[q] = messages[q] /\ rows'[q] = rows[q]
    BY <2>1 DEF TypeInv, StoreOK
  <2>6. OwedBy(turn) = <<>> /\ OwedBy(turn') = <<>>
    BY <1>1, <1>2, OwesNothing
  <2>7. \A q \in Run : q # r => Plan(q)' = Plan(q)
    BY <1>1, <2>5 DEF Plan, Base
  <2>8. Plan(run)' = Plan(run)
    <3>1. run \in Run \cup {NoRun} /\ run # r
      BY <1>2, <1>3 DEF TypeInv, CoreOK
    <3>2. run \in Run => messages'[run] = messages[run]
      BY <2>5, <3>1
    <3>3. Base(run)' = Base(run)
      BY <1>1, <3>1, <3>2 DEF Base
    <3> QED BY <1>1, <3>3 DEF Plan
  <2>9. Plan(r)' = Outline(front)
    <3>1. Plan(r)' = Outline(front) \o <<>>
      BY <1>2, <1>3, <2>5, <2>6 DEF Plan, Base
    <3>2. Outline(front) \in Seq(EntryUpto(ids))
      BY <1>2, <2>3, OutlineType
    <3> QED BY <3>1, <3>2, NothingJoined
  <2>10. PlansOnce'
    <3>1. Once(Plan(r)')
      <4>1. Outline(front) \in Seq(EntryUpto(ids)) /\ Outline(ms) \in Seq(EntryUpto(ids))
        BY <1>2, <2>2, <2>3, OutlineType
      <4>2. Once(Outline(ms))
        BY <2>3 DEF OnceInv, PlansOnce
      <4> QED BY <4>1, <4>2, <2>3, <2>9, OncePart
    <3>2. \A q \in Run : q # r => Once(Plan(q)')
      BY <2>7 DEF OnceInv, PlansOnce
    <3> QED BY <3>1, <3>2 DEF PlansOnce
  <2>11. UnusedEmpty'
    BY <1>1, <2>2, <2>5 DEF OnceInv, UnusedEmpty
  <2>12. TurnRuns'
    BY <1>1, <1>2 DEF TurnRuns
  <2>13. LoadedOK' /\ BuiltFits'
    BY <2>4, <2>5 DEF LoadedOK, BuiltFits
  <2>14. ShownFits'
    BY <1>1, <2>8 DEF OnceInv, ShownFits
  <2>15. RowsFit'
    <3>1. Clean(Listed(rows'[r]), Plan(r)')
      BY <2>5, ListedNothing, CleanNothing
    <3>2. ~broken => \A q \in Run : q # r => Clean(Listed(rows'[q]), Plan(q)')
      BY <2>5, <2>7 DEF OnceInv, RowsFit
    <3> QED BY <1>1, <3>1, <3>2 DEF RowsFit
  <2>16. PassFits'
    <3> SUFFICES ASSUME ~broken, writer.by # "none"
                 PROVE  Clean(writer.entries, Plan(writer.run)') /\ Follows(rows'[writer.run], writer.entries)
      BY <1>1 DEF PassFits
    <3>1. writer.run \in Run /\ writer.run # r
      BY <1>1, <1>3, PassOn DEF PlaceInv, AwayOK, Opening
    <3>2. PICK q \in Run : q = writer.run
      BY <3>1
    <3>3. Clean(writer.entries, Plan(q)) /\ Follows(rows[q], writer.entries)
      BY <3>2 DEF OnceInv, PassFits
    <3>4. Clean(writer.entries, Plan(q)') /\ writer'.run = q /\ rows'[q] = rows[q]
      BY <1>1, <2>5, <2>7, <3>1, <3>2, <3>3
    <3> QED BY <3>2, <3>3, <3>4
  <2> QED BY <2>10, <2>11, <2>12, <2>13, <2>14, <2>15, <2>16 DEF OnceInv
<1> QED BY <1>4, <1>5

LEMMA SwitchOnce ==
  ASSUME TypeInv, PlaceInv, OnceInv, SwitchStep
  PROVE  OnceInv'
<1>1. CASE ResetSession
  BY <1>1, ResetOnce
<1>2. CASE OpenFails
  <2>1. UNCHANGED <<transcript, run, messages, runs, turn, rows, writer, broken>> /\ switch' = NoSwitch
    BY <1>2 DEF OpenFails, core, store, sync
  <2>2. switch'.at = "none"
    BY <2>1 DEF NoSwitch
  <2> QED BY <2>1, <2>2, SameRows
<1>3. CASE LoadRun
  BY <1>3, LoadRunOnce
<1>4. ASSUME switch.op = "open", UNCHANGED <<messages, runs, turn, rows, writer>>, broken => broken',
             LoadedOK', ShownFits', BuiltFits'
      PROVE  OnceInv'
  BY <1>4, OpenFacts, SwitchFrame
<1>5. CASE Invalidate
  <2>1. /\ UNCHANGED <<transcript, run, messages, runs, turn, rows, writer, broken>> /\ switch.at = "popped"
        /\ switch' = [switch EXCEPT !.at = "loaded"]
    BY <1>5 DEF Invalidate, core, store, counters
  <2>2. switch.op = "open" /\ switch \in SwitchRecord(ids)
    BY <2>1 DEF TypeInv, SwitchOK
  <2>3. switch'.at = "loaded" /\ switch'.loaded = switch.loaded /\ switch'.target = switch.target
    BY <2>1, <2>2 DEF SwitchRecord
  <2>4. LoadedOK' /\ BuiltFits'
    BY <2>1, <2>3 DEF OnceInv, LoadedOK, BuiltFits
  <2>5. Plan(run)' = Plan(run)
    BY <2>1, SamePlans
  <2>6. ShownFits'
    BY <2>1, <2>5 DEF OnceInv, ShownFits
  <2> QED BY <1>4, <2>1, <2>2, <2>4, <2>6
<1>6. CASE ReleaseOld
  <2>1. /\ UNCHANGED <<transcript, messages, runs, turn, rows, writer, broken>> /\ switch.at = "loaded"
        /\ run' = IF run = switch.target THEN run ELSE NoRun
        /\ switch' = [switch EXCEPT !.at = "released"]
    BY <1>6 DEF ReleaseOld, store, sync, counters
  <2>2. switch.op = "open" /\ switch \in SwitchRecord(ids)
    BY <2>1 DEF TypeInv, SwitchOK
  <2>3. switch'.at = "released" /\ switch'.loaded = switch.loaded /\ switch'.target = switch.target
    BY <2>1, <2>2 DEF SwitchRecord
  <2>4. LoadedOK' /\ BuiltFits'
    BY <2>1, <2>3 DEF OnceInv, LoadedOK, BuiltFits
  <2>5. run' = NoRun /\ turn.at = "none" /\ transcript \o ComingFrom(turn) = transcript
    BY <2>1, <2>2, OpenFacts
  <2>6. Plan(run)' = <<>>
    BY <2>1, <2>5, IdlePlans
  <2>7. ~broken => Fits(transcript, <<>>)
    <3> SUFFICES ASSUME ~broken PROVE Fits(transcript, <<>>)
      OBVIOUS
    <3>1. Once(transcript) /\ transcript \in Seq(EntryUpto(ids))
      BY ShownPart DEF Clean
    <3> QED BY <3>1, FitsNothing
  <2>8. ShownFits'
    BY <2>1, <2>5, <2>6, <2>7 DEF ShownFits
  <2> QED BY <1>4, <2>1, <2>2, <2>4, <2>8
<1>7. CASE RebuildTranscript
  <2>1. PICK readable \in BOOLEAN :
          /\ broken' = (broken \/ ~readable)
          /\ switch' = [switch EXCEPT !.at = "built", !.built =
               WithDropMark(Rebuilt(rows[switch.target], switch.loaded, readable), switch.popped)]
    BY <1>7 DEF RebuildTranscript
  <2>2. UNCHANGED <<transcript, run, messages, runs, turn, rows, writer>> /\ switch.at = "released"
    BY <1>7 DEF RebuildTranscript, core, store, sync
  <2>3. switch.op = "open" /\ switch \in SwitchRecord(ids)
    BY <2>2 DEF TypeInv, SwitchOK
  <2>4. PICK r \in Run : r = switch.target
    BY <2>3, OpenFacts
  <2> DEFINE ms == messages[r]
             table == rows[r]
             built == WithDropMark(Rebuilt(table, switch.loaded, readable), switch.popped)
  <2>5. switch' = [switch EXCEPT !.at = "built", !.built = built]
    BY <2>1, <2>4
  <2>6. ms \in Seq(MessageUpto(ids)) /\ ids \in Nat /\ TableOK(table, ids) /\ Plan(r) = Outline(ms) /\ switch.loaded = ms
    BY <2>2, <2>3, <2>4, OpenFacts DEF TypeInv, StoreOK, OnceInv, LoadedOK
  <2>7. ~broken => Once(Outline(ms)) /\ Clean(Listed(table), Outline(ms))
    BY <2>6 DEF OnceInv, PlansOnce, RowsFit
  <2>8. ~broken' => Fits(built, Outline(ms))
    <3> SUFFICES ASSUME ~broken' PROVE Fits(built, Outline(ms))
      OBVIOUS
    <3>1. readable = TRUE /\ ~broken
      BY <2>1
    <3>2. built = WithDropMark(Rebuilt(table, ms, TRUE), switch.popped)
      BY <2>6, <3>1
    <3> HIDE DEF ms, table, built
    <3>3. Fits(WithDropMark(Rebuilt(table, ms, TRUE), switch.popped), Outline(ms))
      BY <2>6, <2>7, <3>1, RebuiltFits
    <3> QED BY <3>2, <3>3
  <2> HIDE DEF built
  <2>9. switch'.at = "built" /\ switch'.built = built /\ switch'.target = r /\ switch'.loaded = switch.loaded
    BY <2>3, <2>4, <2>5 DEF SwitchRecord
  <2>10. Plan(r)' = Plan(r) /\ Plan(run)' = Plan(run)
    BY <2>2, SamePlans
  <2>11. BuiltFits'
    <3> SUFFICES ASSUME ~broken' PROVE Fits(switch'.built, Plan(switch.target)')
      BY DEF BuiltFits
    <3>1. Fits(switch'.built, Plan(r)')
      BY <2>6, <2>8, <2>9, <2>10
    <3> QED BY <3>1, <2>9
  <2>12. LoadedOK'
    BY <2>2, <2>6, <2>9 DEF LoadedOK
  <2>13. ShownFits'
    BY <2>1, <2>2, <2>10 DEF OnceInv, ShownFits
  <2>14. broken => broken'
    BY <2>1
  <2> QED BY <1>4, <2>2, <2>3, <2>11, <2>12, <2>13, <2>14
<1>8. CASE Install
  <2>1. /\ switch.at = "built" /\ UNCHANGED <<messages, runs, turn, rows, writer, broken>> /\ switch' = NoSwitch
        /\ transcript' = switch.built /\ run' = switch.target
    BY <1>8 DEF Install, store, sync, counters
  <2>2. switch.op = "open" /\ switch \in SwitchRecord(ids)
    BY <2>1 DEF TypeInv, SwitchOK
  <2>3. PICK r \in Run : r = switch.target
    BY <2>2, OpenFacts
  <2>4. turn.at = "none" /\ ComingFrom(turn) = <<>>
    BY <2>2, OpenFacts
  <2>5. Plan(r)' = Plan(r)
    BY <2>1, <2>4, IdlePlans
  <2>6. switch.built \in Seq(EntryUpto(ids))
    BY <2>2 DEF SwitchRecord
  <2>7. switch.built \o <<>> = switch.built
    BY <2>6, NothingJoined
  <2>8. ShownFits'
    <3> SUFFICES ASSUME ~broken PROVE Fits(transcript' \o ComingFrom(turn'), Plan(run)')
      BY <2>1 DEF ShownFits
    <3>1. Fits(switch.built, Plan(r))
      BY <2>1, <2>3 DEF OnceInv, BuiltFits
    <3>2. Fits(transcript' \o ComingFrom(turn'), Plan(r)')
      BY <2>1, <2>4, <2>5, <2>7, <3>1
    <3>3. run' = r
      BY <2>1, <2>3
    <3> QED BY <3>2, <3>3 DEF Plan, Base
  <2>9. LoadedOK' /\ BuiltFits'
    BY <2>1 DEF LoadedOK, BuiltFits, NoSwitch
  <2> QED BY <1>4, <2>1, <2>2, <2>8, <2>9
<1> QED BY <1>1, <1>2, <1>3, <1>5, <1>6, <1>7, <1>8 DEF SwitchStep

\* What a turn owed is lost with the process, and nothing else of a plan.
LEMMA RestartPlans ==
  ASSUME TypeInv, turn'.at = "none", NEW r \in Run, NEW n \in Nat, n = ids, NEW ms \in Seq(MessageUpto(n)),
         messages'[r] = ms, Like(Outline(ms), Outline(messages[r]))
  PROVE  /\ Plan(r)' = Outline(ms) /\ Like(Outline(ms), Plan(r))
         /\ Outline(ms) \in Seq(EntryUpto(n)) /\ Plan(r) \in Seq(EntryUpto(n))
<1>1. OwedBy(turn') = <<>>
  BY OwesNothing
<1>2. r # NoRun /\ messages[r] \in Seq(MessageUpto(n))
      /\ Plan(r) = Outline(messages[r]) \o (IF r = run THEN OwedBy(turn) ELSE <<>>)
  BY PlanType
<1>3. Outline(ms) \in Seq(EntryUpto(n)) /\ Outline(messages[r]) \in Seq(EntryUpto(n))
  BY <1>2, OutlineType
<1>4. Plan(r)' = Outline(ms) \o <<>>
  BY <1>1, <1>2 DEF Plan, Base
<1>5. Plan(r)' = Outline(ms)
  BY <1>3, <1>4, NothingJoined
<1>6. OwedBy(turn) \in Seq(EntryUpto(n)) /\ <<>> \in Seq(EntryUpto(n))
  BY OwedType
<1>7. Like(Outline(messages[r]), Plan(r))
  BY <1>2, <1>3, <1>6, BeginsJoin
<1>8. Like(Outline(ms), Plan(r))
  BY <1>7 DEF Like, SameEntry
<1>9. Plan(r) \in Seq(EntryUpto(n))
  BY PlanType
<1> QED BY <1>3, <1>5, <1>8, <1>9

LEMMA RestartOnce ==
  ASSUME TypeInv, PlaceInv, OnceInv, NEW pop \in BOOLEAN, Restart(pop)
  PROVE  OnceInv'
<1>1. /\ turn' = NoTurn /\ writer' = NoWriter /\ switch' = NoSwitch /\ UNCHANGED <<runs, broken>>
      /\ turn'.at = "none" /\ writer'.by = "none" /\ switch'.at = "none"
  BY DEF Restart, NoTurn, NoWriter, NoSwitch
<1>2. TurnRuns' /\ LoadedOK' /\ PassFits' /\ BuiltFits'
  BY <1>1 DEF TurnRuns, LoadedOK, PassFits, BuiltFits
<1>3. ids \in Nat /\ \A r \in Run : messages[r] \in Seq(MessageUpto(ids)) /\ TableOK(rows[r], ids)
  BY DEF TypeInv, StoreOK, CoreOK
<1>4. ComingFrom(turn') = <<>>
  BY <1>1, NothingComing
<1>5. ASSUME NEW r \in Run, messages'[r] = messages[r], rows'[r] = rows[r]
      PROVE  /\ Once(Plan(r)') /\ (~broken => Clean(Listed(rows'[r]), Plan(r)'))
             /\ Plan(r)' = Outline(messages[r])
  <2> DEFINE ms == messages[r]
  <2>1. Like(Outline(ms), Outline(messages[r]))
    BY LikeItself
  <2>2. ms \in Seq(MessageUpto(ids)) /\ messages'[r] = ms
    BY <1>3, <1>5
  <2> HIDE DEF ms
  <2>3. /\ Plan(r)' = Outline(ms) /\ Like(Outline(ms), Plan(r))
        /\ Outline(ms) \in Seq(EntryUpto(ids)) /\ Plan(r) \in Seq(EntryUpto(ids))
    BY <1>1, <1>3, <2>1, <2>2, RestartPlans
  <2>4. Once(Plan(r)')
    <3>1. Once(Plan(r))
      BY DEF OnceInv, PlansOnce
    <3> QED BY <2>3, <3>1, OncePart
  <2>5. ~broken => Clean(Listed(rows'[r]), Plan(r)')
    <3> SUFFICES ASSUME ~broken PROVE Clean(Listed(rows[r]), Outline(ms))
      BY <1>5, <2>3
    <3>1. Clean(Listed(rows[r]), Plan(r))
      BY DEF OnceInv, RowsFit
    <3>2. Listed(rows[r]) \in Seq(EntryUpto(ids))
      BY <1>3, ListedType DEF TableOK
    <3>3. Like(Listed(rows[r]), Listed(rows[r]))
      BY LikeItself
    <3> QED BY <2>3, <3>1, <3>2, <3>3, CleanPart
  <2> QED BY <2>3, <2>4, <2>5 DEF ms
<1>6. CASE runs = 0 \/ messages[runs] = <<>>
  <2>1. transcript' = <<>> /\ run' = NoRun /\ UNCHANGED <<rows, messages>>
    BY <1>6 DEF Restart
  <2>2. UnusedEmpty'
    BY <1>1, <2>1 DEF OnceInv, UnusedEmpty
  <2>3. PlansOnce' /\ RowsFit'
    BY <1>1, <1>5, <2>1 DEF PlansOnce, RowsFit
  <2>4. Plan(run)' = <<>>
    <3>1. OwedBy(turn') = <<>>
      BY <1>1, OwesNothing
    <3>2. Plan(run)' = <<>> \o <<>>
      BY <2>1, <3>1 DEF Plan, Base
    <3> QED BY <3>2, NothingJoined
  <2>5. Fits(<<>>, <<>>)
    <3>1. Once(<<>>) /\ <<>> \in Seq({})
      BY DEF Once
    <3> QED BY <3>1, FitsNothing
  <2>6. <<>> \o <<>> = <<>>
    BY NothingJoined
  <2>7. ShownFits'
    BY <1>4, <2>1, <2>4, <2>5, <2>6 DEF ShownFits
  <2> QED BY <1>2, <2>2, <2>3, <2>7 DEF OnceInv
<1>7. CASE ~(runs = 0 \/ messages[runs] = <<>>)
  <2> DEFINE stored == messages[runs]
             drop == EndsOpen(stored) /\ (pop \/ Last(stored).call # "quest")
             ms == IF drop THEN Front(stored) ELSE stored
             left == IF drop THEN <<>> ELSE rows[runs]
             built == WithDropMark(Rebuilt(left, ms, TRUE), drop)
  <2>1. /\ rows' = [rows EXCEPT ![runs] = left] /\ messages' = [messages EXCEPT ![runs] = ms]
        /\ transcript' = built /\ run' = runs
    BY <1>7 DEF Restart
  <2>2. runs \in Run
    <3>1. runs \in 0 .. MaxRuns /\ MaxRuns \in Nat
      BY SyncAssumption DEF TypeInv, StoreOK
    <3> QED BY <3>1, <1>7 DEF Run
  <2>3. PICK r \in Run : r = runs
    BY <2>2
  <2>4. DOMAIN rows = Run /\ DOMAIN messages = Run
    BY DEF TypeInv, StoreOK
  <2>5. stored \in Seq(MessageUpto(ids)) /\ stored # <<>> /\ stored = messages[r]
    BY <1>3, <1>7, <2>3
  <2>6. /\ ms \in Seq(MessageUpto(ids)) /\ Like(Outline(ms), Outline(stored))
    <3>1. Front(stored) \in Seq(MessageUpto(ids)) /\ Like(Outline(Front(stored)), Outline(stored))
      BY <1>3, <2>5, OutlineFront
    <3>2. Like(Outline(stored), Outline(stored))
      BY LikeItself
    <3> QED BY <2>5, <3>1, <3>2
  <2>7. messages'[r] = ms /\ rows'[r] = left /\ \A q \in Run : q # r => messages'[q] = messages[q] /\ rows'[q] = rows[q]
    BY <2>1, <2>3, <2>4
  <2>8. TableOK(left, ids) /\ (left = rows[r] \/ DOMAIN left = {})
    <3>1. TableOK(<<>>, ids) /\ DOMAIN <<>> = {}
      BY <1>3, EmptyTable
    <3> QED BY <1>3, <2>3, <3>1
  <2> HIDE DEF stored, drop, ms, left
  <2>9. /\ Plan(r)' = Outline(ms) /\ Like(Outline(ms), Plan(r))
        /\ Outline(ms) \in Seq(EntryUpto(ids)) /\ Plan(r) \in Seq(EntryUpto(ids))
    BY <1>1, <1>3, <2>5, <2>6, <2>7, RestartPlans
  <2>10. Once(Outline(ms))
    <3>1. Once(Plan(r))
      BY DEF OnceInv, PlansOnce
    <3> QED BY <2>9, <3>1, OncePart
  <2>11. ~broken => Clean(Listed(left), Outline(ms))
    <3> SUFFICES ASSUME ~broken PROVE Clean(Listed(left), Outline(ms))
      OBVIOUS
    <3>1. ASSUME DOMAIN left = {} PROVE Clean(Listed(left), Outline(ms))
      BY <3>1, ListedNothing, CleanNothing
    <3>2. ASSUME left = rows[r] PROVE Clean(Listed(left), Outline(ms))
      <4>1. Clean(Listed(left), Plan(r))
        BY <3>2 DEF OnceInv, RowsFit
      <4>2. Listed(left) \in Seq(EntryUpto(ids))
        BY <1>3, <2>8, ListedType DEF TableOK
      <4>3. Like(Listed(left), Listed(left))
        BY LikeItself
      <4> QED BY <2>9, <4>1, <4>2, <4>3, CleanPart
    <3> QED BY <2>8, <3>1, <3>2
  <2>12. PlansOnce'
    BY <1>5, <2>7, <2>9, <2>10 DEF PlansOnce
  <2>13. RowsFit'
    BY <1>1, <1>5, <2>7, <2>9, <2>11 DEF RowsFit
  <2>14. UnusedEmpty'
    <3> SUFFICES ASSUME NEW q \in Run, q > runs PROVE messages'[q] = <<>>
      BY <1>1 DEF UnusedEmpty
    <3>1. q # r
      <4>1. runs \in Nat
        BY DEF TypeInv, StoreOK
      <4> QED BY <2>3, <4>1
    <3> QED BY <2>7, <3>1 DEF OnceInv, UnusedEmpty
  <2>15. ~broken => Fits(built, Outline(ms))
    BY <1>3, <2>6, <2>8, <2>10, <2>11, RebuiltFits
  <2>16. built \in Seq(EntryUpto(ids))
    <3>1. Rebuilt(left, ms, TRUE) \in Seq(EntryUpto(ids))
      BY <1>3, <2>6, <2>8, RebuiltType
    <3> QED BY <1>3, <3>1, DropMarkType
  <2> HIDE DEF built
  <2>17. transcript' \o ComingFrom(turn') = built
    <3>1. built \o <<>> = built
      BY <2>16, NothingJoined
    <3> QED BY <1>4, <2>1, <3>1
  <2>18. ShownFits'
    <3> SUFFICES ASSUME ~broken PROVE Fits(transcript' \o ComingFrom(turn'), Plan(run)')
      BY <1>1 DEF ShownFits
    <3>1. Fits(transcript' \o ComingFrom(turn'), Plan(r)')
      BY <2>9, <2>15, <2>17
    <3>2. run' = r
      BY <2>1, <2>3
    <3> QED BY <3>1, <3>2 DEF Plan, Base
  <2> QED BY <1>2, <2>12, <2>13, <2>14, <2>18 DEF OnceInv
<1> QED BY <1>6, <1>7

\* The archive's messages have ids of their own, and its rows are theirs.
LEMMA InitOnce == Init => OnceInv
<1> SUFFICES ASSUME Init PROVE OnceInv
  OBVIOUS
<1>0. TypeInv
  BY InitTyped
<1>1. /\ transcript = <<>> /\ run = NoRun /\ turn = NoTurn /\ writer = NoWriter /\ switch = NoSwitch
      /\ turn.at = "none" /\ writer.by = "none" /\ switch.at = "none"
  BY DEF Init, NoTurn, NoWriter, NoSwitch
<1>2. TurnRuns /\ LoadedOK /\ PassFits /\ BuiltFits
  BY <1>1 DEF TurnRuns, LoadedOK, PassFits, BuiltFits
<1>3. ids \in Nat /\ \A r \in Run : messages[r] \in Seq(MessageUpto(ids))
  BY <1>0 DEF TypeInv, StoreOK, CoreOK
<1>4. OwedBy(turn) = <<>> /\ ComingFrom(turn) = <<>>
  BY <1>1, OwesNothing, NothingComing
<1>5. \A r \in Run : OwnIds(messages[r])
  <2>1. OwnIds(Archive) /\ OwnIds(<<>>)
    BY ArchiveAssumption DEF OwnIds
  <2> QED BY <2>1 DEF Init
<1>6. ASSUME NEW r \in Run
      PROVE  Plan(r) = Outline(messages[r]) /\ Once(Plan(r)) /\ Clean(Listed(rows[r]), Plan(r))
  <2> DEFINE ms == messages[r]
             p == Project(ms)
             table == rows[r]
  <2>1. Plan(r) = Outline(ms)
    BY <1>0, <1>4, PlanIsOutline
  <2>2. table = [i \in 0 .. Len(p) - 1 |-> p[i + 1]]
    BY DEF Init
  <2>3. ms \in Seq(MessageUpto(ids)) /\ OwnIds(ms)
    BY <1>3, <1>5
  <2> HIDE DEF ms, table
  <2>4. p \in Seq(EntryUpto(ids))
    BY <1>3, <2>3, ProjectType
  <2>5. Alike(p, Outline(ms))
    BY <1>3, <2>3, ProjectOutline
  <2>6. Outline(ms) \in Seq(DurableUpto(ids)) /\ Outline(ms) \in Seq(EntryUpto(ids)) /\ AllDurable(Outline(ms))
    BY <1>3, <2>3, OutlineType, DurableUptoType
  <2>7. Once(Outline(ms))
    BY <1>3, <2>3, OutlineOnce
  <2>8. Clean(Outline(ms), Outline(ms))
    BY <2>6, <2>7, CleanItself
  <2> HIDE DEF p
  <2>9. Len(p) \in Nat /\ DOMAIN table = 0 .. Len(p) - 1 /\ DOMAIN p = 1 .. Len(p)
        /\ \A i \in 1 .. Len(p) : table[i - 1] = p[i]
    BY <2>2, <2>4
  <2>10. DOMAIN Listed(table) = 1 .. Len(p) /\ \A i \in 1 .. Len(p) : Listed(table)[i] = table[i - 1]
    BY <2>9, ListedInOrder
  <2>11. Listed(table) \in Seq(EntryUpto(ids))
    <3>1. TableOK(table, ids)
      BY <1>0 DEF TypeInv, StoreOK, table
    <3> QED BY <1>3, <3>1, ListedType DEF TableOK
  <2>12. Like(Listed(table), Outline(ms))
    BY <2>5, <2>9, <2>10 DEF Alike, Like
  <2>13. Like(Outline(ms), Outline(ms))
    BY LikeItself
  <2>14. Clean(Listed(table), Outline(ms))
    BY <2>6, <2>8, <2>11, <2>12, <2>13, CleanPart
  <2> QED BY <2>1, <2>7, <2>14 DEF ms, table
<1>7. PlansOnce /\ RowsFit
  BY <1>6 DEF PlansOnce, RowsFit
<1>8. UnusedEmpty
  <2> SUFFICES ASSUME NEW r \in Run, r > runs PROVE messages[r] = <<>>
    BY DEF UnusedEmpty
  <2>1. r \in Nat /\ r # 0
    BY SyncAssumption DEF Run
  <2> QED BY <2>1 DEF Init
<1>9. ShownFits
  <2>1. Plan(run) = <<>>
    <3>1. Plan(run) = <<>> \o <<>>
      BY <1>1, <1>4 DEF Plan, Base
    <3> QED BY <3>1, NothingJoined
  <2>2. Fits(<<>>, <<>>)
    <3>1. Once(<<>>) /\ <<>> \in Seq({})
      BY DEF Once
    <3> QED BY <3>1, FitsNothing
  <2>3. <<>> \o <<>> = <<>>
    BY NothingJoined
  <2> QED BY <1>1, <1>4, <2>1, <2>2, <2>3 DEF ShownFits
<1> QED BY <1>2, <1>7, <1>8, <1>9 DEF OnceInv

LEMMA NextOnce ==
  ASSUME TypeInv, PlaceInv, FollowInv, OnceInv, [Next]_vars
  PROVE  OnceInv'
<1>1. CASE Submit \/ TurnStep
  BY <1>1, TurnKeepsOnce
<1>2. CASE LoopPass \/ FlushPass
  BY <1>2, StartOnce
<1>3. CASE PassStep
  BY <1>3, PassOnce
<1>4. CASE NewSession \/ Shutdown \/ \E r \in Run : OpenSession(r)
  <2>1. UNCHANGED <<transcript, run, messages, runs, turn, rows, writer, broken>> /\ switch'.at = "flush"
    BY <1>4 DEF NewSession, Shutdown, OpenSession, Begin, core, store, sync, NoSwitch
  <2> QED BY <2>1, SameRows
<1>5. CASE SwitchStep
  BY <1>5, SwitchOnce
<1>6. CASE \E pop \in BOOLEAN : Restart(pop)
  BY <1>6, RestartOnce
<1>7. CASE UNCHANGED vars
  <2>1. UNCHANGED <<transcript, run, messages, runs, turn, rows, writer, broken, switch>>
    BY <1>7 DEF vars, core, store, sync, counters
  <2> QED BY <2>1, SameRows
<1> QED BY <1>1, <1>2, <1>3, <1>4, <1>5, <1>6, <1>7 DEF Next

(* No message is shown twice, whatever was lost in a crash and mended from *)
(* the messages of the run (heal_truncated_tail and rebuild_transcript,    *)
(* transcripts.rs), where open_session is given another run than the       *)
(* current one (runtime.rs).                                               *)
THEOREM EntriesShownOnce == ASSUME ~Reopening PROVE Spec => []ShownOnce
<1> DEFINE IInv == TypeInv /\ PlaceInv /\ FollowInv /\ OnceInv
<1>1. Init => IInv
  BY InitTyped, InitPlaced, InitFollows, InitOnce
<1>2. IInv /\ [Next]_vars => IInv'
  <2> SUFFICES ASSUME TypeInv, PlaceInv, FollowInv, OnceInv, [Next]_vars
               PROVE  TypeInv' /\ PlaceInv' /\ FollowInv' /\ OnceInv'
    OBVIOUS
  <2>1. TypeInv'
    BY NextTyped
  <2>2. PlaceInv' /\ FollowInv'
    BY NextPlaced, NextFollows
  <2>3. OnceInv'
    BY NextOnce
  <2> QED BY <2>1, <2>2, <2>3
<1>3. IInv => ShownOnce
  <2> SUFFICES ASSUME TypeInv, OnceInv, ~broken PROVE Once(transcript) /\ DOMAIN transcript = 1 .. Len(transcript)
    BY DEF ShownOnce, Once
  <2>1. Clean(transcript, Plan(run)) /\ transcript \in Seq(EntryUpto(ids))
    BY ShownPart
  <2> QED BY <2>1 DEF Clean
<1> HIDE DEF IInv
<1> QED BY <1>1, <1>2, <1>3, PTL DEF Spec
=============================================================================
