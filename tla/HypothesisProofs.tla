-------------------------- MODULE HypothesisProofs --------------------------
(***************************************************************************)
(* Proofs about hypotheses: all of a file is compiled before any of it is  *)
(* executed, a partition step separates its groups, the last step has its  *)
(* way, and every line is read back as what was meant.                     *)
(***************************************************************************)
EXTENDS Hypothesis, SequenceTheorems, FiniteSetTheorems, TLAPS

(* The words of a line.                                                    *)
HasWords(line, name, words, S) ==
  /\ line \in Seq(S \cup {name, "c"}) /\ Len(line) = 2 + Len(words)
  /\ line[1] = name /\ line[2] = "c"
  /\ \A i \in 1 .. Len(words) : line[2 + i] = words[i]

LEMMA LineWords ==
  ASSUME NEW name, NEW S, NEW words \in Seq(S)
  PROVE  HasWords(Line(name, words), name, words, S)
<1> DEFINE T == S \cup {name, "c"}
<1> DEFINE s1 == <<name, "c">>
<1>1. s1 \in Seq(T) /\ Len(s1) = 2 /\ s1[1] = name /\ s1[2] = "c"
  OBVIOUS
<1>2. words \in Seq(T) /\ Len(words) \in Nat
  BY SeqMonotonic
<1>3. Line(name, words) = s1 \o words
  BY Zenon DEF Line
<1> HIDE DEF T, s1
<1>4. /\ s1 \o words \in Seq(T)
      /\ Len(s1 \o words) = Len(s1) + Len(words)
      /\ \A i \in 1 .. Len(s1) + Len(words) : (s1 \o words)[i] =
           IF i <= Len(s1) THEN s1[i] ELSE words[i - Len(s1)]
  BY <1>1, <1>2, ConcatProperties, Zenon
<1>5. (s1 \o words)[1] = name /\ (s1 \o words)[2] = "c"
  BY <1>1, <1>2, <1>4
<1>6. ASSUME NEW i \in 1 .. Len(words) PROVE (s1 \o words)[2 + i] = words[i]
  <2>1. 2 + i \in 1 .. Len(s1) + Len(words) /\ ~(2 + i <= Len(s1)) /\ 2 + i - Len(s1) = i
    BY <1>1, <1>2
  <2> QED BY <1>4, <2>1
<1> QED BY <1>1, <1>2, <1>3, <1>4, <1>5, <1>6, Zenon DEF T, HasWords

(* A sequence with one element.                                            *)
LEMMA OneElement ==
  ASSUME NEW S, NEW s \in Seq(S), Len(s) = 1
  PROVE  s = <<s[1]>>
<1>1. s[1] \in S
  BY ElementOfSeq
<1>2. PICK t : t = <<s[1]>>
  BY Zenon
<1>3. t \in Seq(S) /\ Len(t) = 1 /\ t[1] = s[1]
  BY <1>1, <1>2
<1>4. \A i \in 1 .. Len(s) : s[i] = t[i]
  BY <1>3
<1> QED BY <1>2, <1>3, <1>4, SeqEqual, Zenon

(* The words that the compiler's commands need.                            *)
LEMMA CompiledFields ==
  /\ {"fault-partition", "log-lifecycle", "kv-put", "kv-get", "new-cluster",
      "metrics-start", "start-node"} \subseteq Names
  /\ Fields["fault-partition"] = <<"cluster", "node", "peer", "enabled">>
  /\ Fields["log-lifecycle"] = <<"cluster", "node", "event", "value">>
  /\ Fields["kv-put"] = <<"cluster", "node", "key", "value">>
  /\ Fields["kv-get"] = <<"cluster", "node", "key">>
  /\ Fields["new-cluster"] = <<"cluster">>
  /\ Fields["metrics-start"] = <<"cluster">>
  /\ Fields["start-node"] = <<"node", "port">>
BY Zenon DEF Fields, Names, WithoutWords, OfCluster, OfNode

(* A line's words by its fields: each has a field of its own, is there and *)
(* can be read.                                                            *)
Fits(parts, fields) ==
  /\ parts # <<>> /\ Head(parts) \in Names /\ CommandType(Head(parts)) = Head(parts)
  /\ Fields[Head(parts)] = fields
  /\ \A i, j \in DOMAIN fields : fields[i] = fields[j] => i = j
  /\ Len(fields) \in Nat /\ Len(parts) \in Nat /\ Len(fields) < Len(parts)
  /\ \A i \in DOMAIN fields : Readable(fields[i], parts[1 + i])

(* The positional words, by their fields.                                  *)
LEMMA PositionalWords ==
  ASSUME NEW parts, NEW fields, Fits(parts, fields), NEW P, P = Positional(parts)
  PROVE  /\ DOMAIN P = {fields[i] : i \in DOMAIN fields}
         /\ \A i \in DOMAIN fields : P[fields[i]] = parts[1 + i]
<1> DEFINE D == {fields[i] : i \in DOMAIN fields}
<1> DEFINE at(f) == CHOOSE i \in DOMAIN fields : fields[i] = f
<1>1. P = [f \in D |-> parts[1 + at(f)]]
  BY DEF Positional, Fits
<1>2. ASSUME NEW i \in DOMAIN fields PROVE fields[i] \in D /\ at(fields[i]) = i
  BY Zenon DEF Fits
<1> HIDE DEF at, D
<1>3. DOMAIN P = D
  BY <1>1, Zenon
<1>4. ASSUME NEW i \in DOMAIN fields PROVE P[fields[i]] = parts[1 + i]
  BY <1>1, <1>2, Zenon
<1> QED BY <1>3, <1>4, Zenon DEF D

(* A line with enough words that are readable is read.                     *)
LEMMA ReadLine ==
  ASSUME NEW parts, NEW fields, parts # <<>>,
         Head(parts) \in Names, CommandType(Head(parts)) = Head(parts),
         Fields[Head(parts)] = fields, Len(fields) < Len(parts),
         Len(fields) \in Nat, Len(parts) \in Nat,
         \A f \in DOMAIN Positional(parts) : Readable(f, Positional(parts)[f]),
         Optional(parts) # Refused
  PROVE  ReadCommand(parts) = Join([type |-> Head(parts)],
                                   Join(Optional(parts), Positional(parts)))
<1>1. ReadCommand(parts) = Parse(parts)
  <2>1. Head(parts) # "cp"
    BY Zenon DEF Names, WithoutWords, OfCluster, OfNode
  <2> QED BY <2>1, Zenon DEF ReadCommand
<1>2. ~(Len(parts) <= Len(fields))
  OBVIOUS
<1> QED BY <1>1, <1>2, Zenon DEF Parse

(* Which of the commands have further words.                               *)
LEMMA FurtherWords ==
  ASSUME NEW parts, Head(parts) \in {"fault-partition", "kv-put", "kv-get"}
  PROVE  DOMAIN Optional(parts) = {} /\ Optional(parts) # Refused
<1>1. Optional(parts) = <<>>
  BY Zenon DEF Optional
<1>2. DOMAIN <<>> = {} /\ DOMAIN Refused = {"type"}
  BY DEF Refused
<1> QED BY <1>1, <1>2, Zenon

(* A command of a type with further fields o and positional fields q.      *)
Consists(c, t, o, q) ==
  /\ c = [f \in DOMAIN c |-> c[f]]
  /\ DOMAIN c = {"type"} \cup DOMAIN o \cup DOMAIN q
  /\ c["type"] = t
  /\ \A f \in DOMAIN o \ {"type"} : c[f] = o[f]
  /\ \A f \in DOMAIN q \ (DOMAIN o \cup {"type"}) : c[f] = q[f]

LEMMA JoinedFields ==
  ASSUME NEW t, NEW o, NEW q, NEW c, c = Join([type |-> t], Join(o, q))
  PROVE  Consists(c, t, o, q)
<1> DEFINE d == Join(o, q)
<1> DEFINE r == [type |-> t]
<1>1. DOMAIN r = {"type"} /\ r["type"] = t
  BY Zenon
<1>2. /\ DOMAIN d = DOMAIN o \cup DOMAIN q
      /\ \A f \in DOMAIN d : d[f] = IF f \in DOMAIN o THEN o[f] ELSE q[f]
  BY Zenon DEF Join
<1>3. c = Join(r, d)
  BY Zenon
<1> HIDE DEF d, r
<1>4. /\ c = [f \in DOMAIN c |-> c[f]]
      /\ DOMAIN c = DOMAIN r \cup DOMAIN d
      /\ \A f \in DOMAIN c : c[f] = IF f \in DOMAIN r THEN r[f] ELSE d[f]
  BY <1>3, Zenon DEF Join
<1> QED BY <1>1, <1>2, <1>4, Zenon DEF Consists

(* What such a line is read as, field by field.                            *)
IsReadAs(c, parts, fields, o) ==
  /\ c = [f \in DOMAIN c |-> c[f]]
  /\ DOMAIN c = {"type"} \cup DOMAIN o \cup {fields[i] : i \in DOMAIN fields}
  /\ c["type"] = Head(parts)
  /\ \A f \in DOMAIN o \ {"type"} : c[f] = o[f]
  /\ \A i \in DOMAIN fields :
       fields[i] \notin DOMAIN o \cup {"type"} => c[fields[i]] = parts[1 + i]

LEMMA CommandFields ==
  ASSUME NEW parts, NEW fields, Fits(parts, fields), Optional(parts) # Refused
  PROVE  IsReadAs(ReadCommand(parts), parts, fields, Optional(parts))
<1>0. PICK c, o, P : /\ c = ReadCommand(parts) /\ o = Optional(parts)
                     /\ P = Positional(parts)
  BY Zenon
<1>1. /\ DOMAIN P = {fields[i] : i \in DOMAIN fields}
      /\ \A i \in DOMAIN fields : P[fields[i]] = parts[1 + i]
  BY <1>0, PositionalWords
<1>2. \A f \in DOMAIN P : Readable(f, P[f])
  BY <1>1 DEF Fits
<1>3. c = Join([type |-> Head(parts)], Join(o, P))
  <2>1. \A f \in DOMAIN Positional(parts) : Readable(f, Positional(parts)[f])
    BY <1>0, <1>2, Zenon
  <2>2. ReadCommand(parts) =
          Join([type |-> Head(parts)], Join(Optional(parts), Positional(parts)))
    BY <2>1, ReadLine, Zenon DEF Fits
  <2> QED BY <1>0, <2>2, Zenon
<1>4. Consists(c, Head(parts), o, P)
  BY <1>3, JoinedFields, Zenon
<1>5. ASSUME NEW i \in DOMAIN fields, fields[i] \notin DOMAIN o \cup {"type"}
      PROVE  c[fields[i]] = parts[1 + i]
  BY <1>1, <1>4, <1>5, Zenon DEF Consists
<1>6. IsReadAs(c, parts, fields, o)
  BY <1>1, <1>4, <1>5, Zenon DEF Consists, IsReadAs
<1> QED BY <1>0, <1>6, Zenon

(* fault-partition: five words, the last of them a Boolean.                *)
LEMMA PartitionIsRead ==
  ASSUME NEW S, NEW parts \in Seq(S), Len(parts) = 5, parts[1] = "fault-partition",
         parts[5] \in Booleans
  PROVE  ReadCommand(parts) =
           [type |-> "fault-partition", cluster |-> parts[2], node |-> parts[3],
            peer |-> parts[4], enabled |-> parts[5]]
<1> DEFINE fields == <<"cluster", "node", "peer", "enabled">>
<1>1. parts # <<>> /\ Head(parts) = "fault-partition"
  <2>1. Len(parts) # 0
    OBVIOUS
  <2>2. parts # <<>>
    BY <2>1, EmptySeq, Zenon
  <2> QED BY <2>2
<1>2. /\ CommandType(Head(parts)) = Head(parts)
      /\ Head(parts) \in Names /\ Fields[Head(parts)] = fields
  BY <1>1, CompiledFields, Zenon DEF CommandType
<1>3. /\ DOMAIN fields = 1 .. 4 /\ Len(fields) = 4
      /\ fields[1] = "cluster" /\ fields[2] = "node"
      /\ fields[3] = "peer" /\ fields[4] = "enabled"
  OBVIOUS
<1> HIDE DEF fields
<1>4. Fits(parts, fields)
  <2>1. \A i, j \in DOMAIN fields : fields[i] = fields[j] => i = j
    BY <1>3
  <2>2. \A i \in DOMAIN fields : Readable(fields[i], parts[1 + i])
    BY <1>3 DEF Readable
  <2>3. Len(fields) \in Nat /\ Len(parts) \in Nat /\ Len(fields) < Len(parts)
    BY <1>3
  <2> QED BY <1>1, <1>2, <2>1, <2>2, <2>3, Zenon DEF Fits
<1>5. DOMAIN Optional(parts) = {} /\ Optional(parts) # Refused
  BY <1>1, FurtherWords
<1>6. IsReadAs(ReadCommand(parts), parts, fields, Optional(parts))
  BY <1>4, <1>5, CommandFields, Zenon
<1>7. PICK c, o : c = ReadCommand(parts) /\ o = Optional(parts)
  BY Zenon
<1>8. IsReadAs(c, parts, fields, o) /\ DOMAIN o = {}
  BY <1>5, <1>6, <1>7, Zenon
<1>9. /\ c = [f \in DOMAIN c |-> c[f]] /\ c["type"] = "fault-partition"
      /\ DOMAIN c = {"type", "cluster", "node", "peer", "enabled"}
      /\ c["cluster"] = parts[2] /\ c["node"] = parts[3]
      /\ c["peer"] = parts[4] /\ c["enabled"] = parts[5]
  BY <1>1, <1>3, <1>8 DEF IsReadAs
<1> QED BY <1>7, <1>9, Zenon

(* log-lifecycle: five words, the last of them the message.                *)
LEMMA LogIsRead ==
  ASSUME NEW S, NEW parts \in Seq(S), Len(parts) = 5, parts[1] = "log-lifecycle"
  PROVE  ReadCommand(parts) =
           [type |-> "log-lifecycle", cluster |-> parts[2], node |-> parts[3],
            event |-> parts[4], value |-> <<parts[5]>>]
<1> DEFINE fields == <<"cluster", "node", "event", "value">>
<1>1. parts # <<>> /\ Head(parts) = "log-lifecycle"
  <2>1. Len(parts) # 0
    OBVIOUS
  <2>2. parts # <<>>
    BY <2>1, EmptySeq, Zenon
  <2> QED BY <2>2
<1>2. /\ CommandType(Head(parts)) = Head(parts)
      /\ Head(parts) \in Names /\ Fields[Head(parts)] = fields
  BY <1>1, CompiledFields, Zenon DEF CommandType
<1>3. /\ DOMAIN fields = 1 .. 4 /\ Len(fields) = 4
      /\ fields[1] = "cluster" /\ fields[2] = "node"
      /\ fields[3] = "event" /\ fields[4] = "value"
  OBVIOUS
<1> HIDE DEF fields
<1>4. Fits(parts, fields)
  <2>1. \A i, j \in DOMAIN fields : fields[i] = fields[j] => i = j
    BY <1>3
  <2>2. \A i \in DOMAIN fields : Readable(fields[i], parts[1 + i])
    BY <1>3 DEF Readable
  <2>3. Len(fields) \in Nat /\ Len(parts) \in Nat /\ Len(fields) < Len(parts)
    BY <1>3
  <2> QED BY <1>1, <1>2, <2>1, <2>2, <2>3, Zenon DEF Fits
<1>5. PICK c, o : c = ReadCommand(parts) /\ o = Optional(parts)
  BY Zenon
<1>6. DOMAIN o = {"value"} /\ o["value"] = <<parts[5]>> /\ o # Refused
  <2>1. o = [value |-> SubSeq(parts, 5, Len(parts))]
    BY <1>1, <1>5, Zenon DEF Optional
  <2>2. SubSeq(parts, 5, 5) = <<parts[5]>>
    <3>1. PICK s : s = SubSeq(parts, 5, 5)
      BY Zenon
    <3>2. \A i \in 5 .. 5 : parts[i] \in S
      OBVIOUS
    <3>3. s \in Seq(S) /\ Len(s) = 1 /\ \A i \in 1 .. 5 - 5 + 1 : s[i] = parts[5 + i - 1]
      BY <3>1, <3>2, SubSeqProperties
    <3>4. s[1] = parts[5]
      BY <3>3
    <3>5. s = <<s[1]>>
      BY <3>3, OneElement, Zenon
    <3> QED BY <3>1, <3>4, <3>5, Zenon
  <2>3. DOMAIN o = {"value"} /\ o["value"] = <<parts[5]>>
    BY <2>1, <2>2, Zenon
  <2>4. DOMAIN Refused = {"type"}
    BY Zenon DEF Refused
  <2> QED BY <2>3, <2>4, Zenon
<1>7. IsReadAs(c, parts, fields, o)
  BY <1>4, <1>5, <1>6, CommandFields, Zenon
<1>8. /\ c = [f \in DOMAIN c |-> c[f]] /\ c["type"] = "log-lifecycle"
      /\ DOMAIN c = {"type", "cluster", "node", "event", "value"}
      /\ c["cluster"] = parts[2] /\ c["node"] = parts[3]
      /\ c["event"] = parts[4] /\ c["value"] = <<parts[5]>>
  BY <1>1, <1>3, <1>6, <1>7 DEF IsReadAs
<1> QED BY <1>5, <1>8, Zenon

-----------------------------------------------------------------------------
(* The lines of a partition step.                                          *)

PairLine(pair, enabled) == Line("fault-partition", <<pair[1], pair[2], enabled>>)

LogLine(event) == Line("log-lifecycle", <<"SYSTEM", event, "text">>)

IsFiveWords(line, name, a, b, d) ==
  /\ line \in Seq({a, b, d, name, "c"}) /\ Len(line) = 5
  /\ line[1] = name /\ line[2] = "c" /\ line[3] = a /\ line[4] = b /\ line[5] = d

LEMMA ThreeWords ==
  ASSUME NEW name, NEW a, NEW b, NEW d
  PROVE  IsFiveWords(Line(name, <<a, b, d>>), name, a, b, d)
<1> DEFINE words == <<a, b, d>>
<1>1. /\ words \in Seq({a, b, d}) /\ Len(words) = 3
      /\ words[1] = a /\ words[2] = b /\ words[3] = d
  OBVIOUS
<1> HIDE DEF words
<1>2. PICK line, S : line = Line(name, words) /\ S = {a, b, d}
  BY Zenon
<1>3. HasWords(line, name, words, S)
  BY <1>1, <1>2, LineWords, Zenon
<1>4. line[3] = a /\ line[4] = b /\ line[5] = d /\ Len(line) = 5
  <2>1. line[2 + 1] = words[1] /\ line[2 + 2] = words[2] /\ line[2 + 3] = words[3]
    BY <1>1, <1>3 DEF HasWords
  <2> QED BY <1>1, <1>3, <2>1 DEF HasWords
<1>5. S \cup {name, "c"} = {a, b, d, name, "c"}
  BY <1>2, Zenon
<1>6. IsFiveWords(line, name, a, b, d)
  BY <1>3, <1>4, <1>5, Zenon DEF HasWords, IsFiveWords
<1> QED BY <1>2, <1>6, Zenon DEF words

LEMMA PairLineIsRead ==
  ASSUME NEW pair, NEW enabled \in {"true", "false"}
  PROVE  ReadCommand(PairLine(pair, enabled)) =
           [type |-> "fault-partition", cluster |-> "c", node |-> pair[1],
            peer |-> pair[2], enabled |-> enabled]
<1>1. PICK parts : parts = PairLine(pair, enabled)
  BY Zenon
<1> DEFINE S == {pair[1], pair[2], enabled, "fault-partition", "c"}
<1>2. /\ parts \in Seq(S) /\ Len(parts) = 5
      /\ parts[1] = "fault-partition" /\ parts[2] = "c"
      /\ parts[3] = pair[1] /\ parts[4] = pair[2] /\ parts[5] = enabled
  <2>1. IsFiveWords(parts, "fault-partition", pair[1], pair[2], enabled)
    BY <1>1, ThreeWords, Zenon DEF PairLine
  <2> QED BY <2>1, Zenon DEF IsFiveWords
<1> HIDE DEF S
<1>3. parts[5] \in Booleans
  BY <1>2, HypothesisAssumption, Zenon
<1>4. ReadCommand(parts) =
        [type |-> "fault-partition", cluster |-> parts[2], node |-> parts[3],
         peer |-> parts[4], enabled |-> parts[5]]
  BY <1>2, <1>3, PartitionIsRead, Zenon
<1> QED BY <1>1, <1>2, <1>4, Zenon

LEMMA LogLineIsRead ==
  ASSUME NEW event
  PROVE  ReadCommand(LogLine(event)) =
           [type |-> "log-lifecycle", cluster |-> "c", node |-> "SYSTEM",
            event |-> event, value |-> <<"text">>]
<1>1. PICK parts : parts = LogLine(event)
  BY Zenon
<1> DEFINE S == {"SYSTEM", event, "text", "log-lifecycle", "c"}
<1>2. /\ parts \in Seq(S) /\ Len(parts) = 5
      /\ parts[1] = "log-lifecycle" /\ parts[2] = "c"
      /\ parts[3] = "SYSTEM" /\ parts[4] = event /\ parts[5] = "text"
  <2>1. IsFiveWords(parts, "log-lifecycle", "SYSTEM", event, "text")
    BY <1>1, ThreeWords, Zenon DEF LogLine
  <2> QED BY <2>1, Zenon DEF IsFiveWords
<1> HIDE DEF S
<1>3. ReadCommand(parts) =
        [type |-> "log-lifecycle", cluster |-> parts[2], node |-> parts[3],
         event |-> parts[4], value |-> <<parts[5]>>]
  BY <1>2, LogIsRead, Zenon
<1> QED BY <1>1, <1>2, <1>3, Zenon

-----------------------------------------------------------------------------
(* The run of a hypothesis.                                                *)

(* The file has passed the compiler.                                       *)
Begun == phase \in {"running", "failed", "completed"}

(* Until a step begins nothing has happened, and a step begins only when   *)
(* the whole file has been compiled; its lines are the compiler's.         *)
RunInv ==
  /\ \E len \in 1 .. MaxSteps : timeline \in [1 .. len -> Steps]
  /\ missed \in BOOLEAN /\ todo \subseteq DOMAIN timeline
  /\ phase \in {"file", "rejected", "running", "failed", "completed"}
  /\ commands # {} => phase = "running"
  /\ step = 0 => todo = DOMAIN timeline /\ commands = {} /\ cut = {}
  /\ step # 0 => /\ step \in DOMAIN timeline \ todo /\ Begun
                 /\ commands \subseteq batches[step]
  /\ phase = "completed" => todo = {}
  /\ Begun => /\ batches = [i \in DOMAIN timeline |-> compileCommands(timeline[i])]
              /\ \A i \in DOMAIN timeline : Valid(timeline[i]) /\ Compiles(timeline[i])

NoLater(i, j) ==
  \/ timeline[i].at < timeline[j].at
  \/ timeline[i].at = timeline[j].at /\ i <= j

(* The steps are taken in their order.                                     *)
OrderInv ==
  step # 0 => /\ \A i \in DOMAIN timeline \ todo : NoLater(i, step)
              /\ \A j \in todo : NoLater(step, j)

Runs(action) ==
  /\ step # 0 /\ phase \in {"running", "completed"}
  /\ timeline[step].action = action

(* In a partition step a pair has its line still to come, or is cut off.   *)
CutInv ==
  Runs("partition") =>
    \A pair \in GroupPairs(timeline[step]) :
      PairLine(pair, "true") \in commands \/ pair \in cut

Both(pairs) == pairs \cup {<<pair[2], pair[1]>> : pair \in pairs}

Unhealed(pairs, lines) == {pair \in pairs : PairLine(pair, "false") \in lines}

SameGroups ==
  \A j \in DOMAIN timeline :
    /\ timeline[j].action \in {"partition", "heal_partition"}
    /\ timeline[j].groups = timeline[1].groups

(* With the same groups in every step, and every node reached, only pairs  *)
(* of these groups are cut, and in a heal step only those whose line is    *)
(* still to come.                                                          *)
HealInv ==
  SameGroups /\ ~missed =>
    /\ cut \subseteq Both(GroupPairs(timeline[1]))
    /\ Runs("heal_partition") =>
         cut \subseteq Both(Unhealed(GroupPairs(timeline[1]), commands))

LEMMA RunInitially == Init => RunInv /\ OrderInv /\ CutInv /\ HealInv
<1> SUFFICES ASSUME Init PROVE RunInv /\ OrderInv /\ CutInv /\ HealInv
  BY Zenon
<1>1. \E len \in 1 .. MaxSteps : timeline \in [1 .. len -> Steps]
  BY Zenon DEF Init
<1>2. RunInv
  BY <1>1, Zenon DEF Init, RunInv, Begun
<1>3. step = 0 /\ cut = {}
  BY Zenon DEF Init
<1> QED BY <1>2, <1>3, Zenon DEF OrderInv, CutInv, HealInv, Runs

LEMMA RunStep == RunInv /\ [Next]_vars => RunInv'
<1> SUFFICES ASSUME RunInv, [Next]_vars PROVE RunInv'
  BY Zenon
<1> USE DEF RunInv, Begun
<1>1. CASE Compile
  BY <1>1, Zenon DEF Compile
<1>2. CASE BeginBatch
  <2>1. PICK i \in todo : step' = i /\ todo' = todo \ {i} /\ commands' = batches[i]
    BY <1>2, Zenon DEF BeginBatch
  <2>2. /\ UNCHANGED <<timeline, phase, batches, cut, missed>> /\ phase = "running"
    BY <1>2, Zenon DEF BeginBatch
  <2>3. i # 0 /\ i \in DOMAIN timeline
    BY <2>1
  <2> QED BY <2>1, <2>2, <2>3, Zenon
<1>3. CASE \E line \in commands : ExecuteCommand(line)
  <2>1. PICK line \in commands : ExecuteCommand(line)
    BY <1>3, Zenon
  <2>2. /\ commands' = commands \ {line}
        /\ UNCHANGED <<timeline, phase, batches, todo, step>>
    BY <2>1, Zenon DEF ExecuteCommand
  <2>3. missed' \in BOOLEAN
    BY <2>1, Zenon DEF ExecuteCommand, SetPartition
  <2>4. step # 0
    BY Zenon
  <2> QED BY <2>2, <2>3, <2>4, Zenon
<1>4. CASE CommandFails
  BY <1>4, Zenon DEF CommandFails
<1>5. CASE Complete
  BY <1>5, Zenon DEF Complete
<1>6. CASE UNCHANGED vars
  BY <1>6, Zenon DEF vars
<1> QED BY <1>1, <1>2, <1>3, <1>4, <1>5, <1>6, Zenon DEF Next, Ended

(* The first of the steps to come is no earlier than the one before it.    *)
LEMMA OrderStep == RunInv /\ OrderInv /\ [Next]_vars => OrderInv'
<1> SUFFICES ASSUME RunInv, OrderInv, [Next]_vars PROVE OrderInv'
  BY Zenon
<1>1. CASE BeginBatch
  <2>1. PICK i \in todo : First(i) /\ step' = i /\ todo' = todo \ {i}
    BY <1>1, Zenon DEF BeginBatch
  <2>2. timeline' = timeline /\ todo \subseteq DOMAIN timeline
    BY <1>1, Zenon DEF BeginBatch, RunInv
  <2>3. \A j \in DOMAIN timeline : timeline[j].at \in Int /\ j \in Int
    <3>1. PICK len \in 1 .. MaxSteps : timeline \in [1 .. len -> Steps]
      BY Zenon DEF RunInv
    <3>2. \A j \in DOMAIN timeline : timeline[j] \in Steps /\ j \in 1 .. len
      BY <3>1, Zenon
    <3> QED BY <3>2, HypothesisAssumption
  <2>4. ASSUME NEW j \in todo' PROVE NoLater(step, j)'
    BY <2>1, <2>2, <2>4, Zenon DEF First, NoLater
  <2>5. ASSUME NEW j \in DOMAIN timeline' \ todo' PROVE NoLater(j, step)'
    <3>1. CASE j = i
      BY <2>1, <2>2, <2>3, <3>1 DEF NoLater
    <3>2. CASE j # i
      <4>1. j \in DOMAIN timeline \ todo /\ i \in DOMAIN timeline
        BY <2>1, <2>2, <2>5, <3>2, Zenon
      <4>2. step # 0 /\ step \in DOMAIN timeline
        BY <4>1, Zenon DEF RunInv
      <4>3. NoLater(j, step) /\ NoLater(step, i)
        BY <2>1, <4>1, <4>2, Zenon DEF OrderInv
      <4>4. NoLater(j, i)
        BY <2>3, <4>1, <4>2, <4>3 DEF NoLater
      <4> QED BY <2>1, <2>2, <4>4, Zenon DEF NoLater
    <3> QED BY <3>1, <3>2, Zenon
  <2> QED BY <2>4, <2>5, Zenon DEF OrderInv
<1>2. CASE UNCHANGED <<timeline, todo, step>>
  BY <1>2, Zenon DEF OrderInv, NoLater
<1> QED
  BY <1>1, <1>2, Zenon
     DEF Next, vars, Compile, CommandFails, Complete, Ended, ExecuteCommand

(* The two parts of a fault update.                                        *)
Updated(n, p, enabled) ==
  \/ /\ cut' = IF enabled = "true" THEN cut \cup {<<n, p>>, <<p, n>>}
                                   ELSE cut \ {<<n, p>>, <<p, n>>}
     /\ missed' = missed
  \/ /\ cut' = IF enabled = "true" THEN cut \cup {<<n, p>>} ELSE cut \ {<<n, p>>}
     /\ missed' = TRUE

(* What the lines of a partition or heal step do.                          *)
LEMMA PartitionLine ==
  ASSUME NEW s, NEW event, NEW enabled \in {"true", "false"},
         NEW line \in compilePartitionCommands(s, event, enabled),
         ExecuteCommand(line)
  PROVE  \/ /\ line = LogLine(event)
            /\ cut' = cut /\ missed' = missed
         \/ \E pair \in GroupPairs(s) :
              line = PairLine(pair, enabled) /\ Updated(pair[1], pair[2], enabled)
<1>1. CASE line = LogLine(event)
  <2>1. PICK c : c = ReadCommand(line)
    BY Zenon
  <2>2. c.type = "log-lifecycle"
    <3>1. c = [type |-> "log-lifecycle", cluster |-> "c", node |-> "SYSTEM",
               event |-> event, value |-> <<"text">>]
      BY <1>1, <2>1, LogLineIsRead, Zenon
    <3> QED BY <3>1, Zenon
  <2>3. (CASE c.type = "refused" -> FALSE
           [] c.type = "fault-partition" -> SetPartition(c)
           [] OTHER -> UNCHANGED <<cut, missed>>)
    BY <2>1, Zenon DEF ExecuteCommand
  <2>4. UNCHANGED <<cut, missed>>
    BY <2>2, <2>3, Zenon
  <2> QED BY <1>1, <2>4, Zenon
<1>2. ASSUME NEW pair \in GroupPairs(s), line = PairLine(pair, enabled)
      PROVE  Updated(pair[1], pair[2], enabled)
  <2>1. PICK c : c = ReadCommand(line)
    BY Zenon
  <2>2. /\ c.type = "fault-partition" /\ c.node = pair[1] /\ c.peer = pair[2]
        /\ c.enabled = enabled
    <3>1. c = [type |-> "fault-partition", cluster |-> "c", node |-> pair[1],
               peer |-> pair[2], enabled |-> enabled]
      BY <1>2, <2>1, PairLineIsRead, Zenon
    <3> QED BY <3>1, Zenon
  <2>3. (CASE c.type = "refused" -> FALSE
           [] c.type = "fault-partition" -> SetPartition(c)
           [] OTHER -> UNCHANGED <<cut, missed>>)
    BY <2>1, Zenon DEF ExecuteCommand
  <2>4. SetPartition(c)
    BY <2>2, <2>3, Zenon
  <2> QED BY <2>2, <2>4, Zenon DEF SetPartition, Updated
<1>3. line = LogLine(event) \/ \E pair \in GroupPairs(s) : line = PairLine(pair, enabled)
  BY Zenon DEF compilePartitionCommands, LogLine, PairLine
<1> QED BY <1>1, <1>2, <1>3, Zenon

(* A pair has two ids.                                                     *)
LEMMA PairsOfIds ==
  ASSUME NEW s, NEW pair \in GroupPairs(s)
  PROVE  pair = <<pair[1], pair[2]>>
BY DEF GroupPairs

(* Two lines of a step are of different pairs.                             *)
LEMMA LinesDiffer ==
  ASSUME NEW pair, NEW q, NEW enabled, PairLine(pair, enabled) = PairLine(q, enabled)
  PROVE  pair[1] = q[1] /\ pair[2] = q[2]
<1>1. PICK line : line = PairLine(pair, enabled) /\ line = PairLine(q, enabled)
  BY Zenon
<1>2. IsFiveWords(line, "fault-partition", pair[1], pair[2], enabled)
  BY <1>1, ThreeWords, Zenon DEF PairLine
<1>3. IsFiveWords(line, "fault-partition", q[1], q[2], enabled)
  BY <1>1, ThreeWords, Zenon DEF PairLine
<1> QED BY <1>2, <1>3, Zenon DEF IsFiveWords

LEMMA PairIsNoLog ==
  ASSUME NEW pair, NEW enabled, NEW event
  PROVE  PairLine(pair, enabled) # LogLine(event)
<1>1. IsFiveWords(PairLine(pair, enabled), "fault-partition", pair[1], pair[2], enabled)
  BY ThreeWords, Zenon DEF PairLine
<1>2. IsFiveWords(LogLine(event), "log-lifecycle", "SYSTEM", event, "text")
  BY ThreeWords, Zenon DEF LogLine
<1>3. PairLine(pair, enabled)[1] = "fault-partition" /\ LogLine(event)[1] = "log-lifecycle"
  BY <1>1, <1>2, Zenon DEF IsFiveWords
<1> QED BY <1>3, Zenon

(* What a partition or heal step was compiled to.                          *)
LEMMA PartitionBatch ==
  ASSUME RunInv, Begun, NEW i \in DOMAIN timeline
  PROVE  /\ timeline[i].action = "partition" =>
              batches[i] = compilePartitionCommands(timeline[i], "PARTITION", "true")
         /\ timeline[i].action = "heal_partition" =>
              batches[i] = compilePartitionCommands(timeline[i], "HEAL", "false")
<1>1. batches[i] = compileCommands(timeline[i])
  BY Zenon DEF RunInv
<1> QED BY <1>1, Zenon DEF compileCommands

(* A partition step begins with a line for each pair, and a line cuts its  *)
(* pair off and brings none together.                                      *)
LEMMA CutStep == RunInv /\ CutInv /\ [Next]_vars => CutInv'
<1> SUFFICES ASSUME RunInv, CutInv, [Next]_vars PROVE CutInv'
  BY Zenon
<1>1. CASE BeginBatch
  <2>1. PICK i \in todo : step' = i /\ commands' = batches[i] /\ timeline' = timeline
    BY <1>1, Zenon DEF BeginBatch
  <2>2. i \in DOMAIN timeline /\ Begun
    BY <1>1, Zenon DEF BeginBatch, Begun, RunInv
  <2>3. ASSUME timeline[i].action = "partition", NEW pair \in GroupPairs(timeline[i])
        PROVE  PairLine(pair, "true") \in batches[i]
    BY <2>2, <2>3, PartitionBatch, SMTT(30)
       DEF compilePartitionCommands, PairLine
  <2> QED BY <2>1, <2>3, Zenon DEF CutInv, Runs
<1>2. ASSUME NEW line \in commands, ExecuteCommand(line) PROVE CutInv'
  <2> SUFFICES ASSUME Runs("partition")', NEW pair \in GroupPairs(timeline[step])',
                      PairLine(pair, "true") \notin commands'
               PROVE  pair \in cut'
    BY Zenon DEF CutInv
  <2>1. /\ commands' = commands \ {line}
        /\ UNCHANGED <<timeline, phase, batches, todo, step>>
    BY <1>2, Zenon DEF ExecuteCommand
  <2>2. pair \in GroupPairs(timeline[step]) /\ Runs("partition")
    BY <2>1, Zenon DEF Runs
  <2>3. step \in DOMAIN timeline /\ Begun /\ line \in batches[step]
    BY <2>2, Zenon DEF Runs, RunInv
  <2>4. line \in compilePartitionCommands(timeline[step], "PARTITION", "true")
    BY <2>2, <2>3, PartitionBatch, Zenon DEF Runs
  <2>5. PairLine(pair, "true") \in commands \/ pair \in cut
    BY <2>2, Zenon DEF CutInv
  <2>6. CASE line = LogLine("PARTITION") /\ cut' = cut
    BY <2>1, <2>5, <2>6, PairIsNoLog, Zenon
  <2>7. ASSUME NEW q \in GroupPairs(timeline[step]), line = PairLine(q, "true"),
               Updated(q[1], q[2], "true")
        PROVE  pair \in cut'
    <3>1. cut \subseteq cut' /\ <<q[1], q[2]>> \in cut'
      BY <2>7, Zenon DEF Updated
    <3>2. pair = <<pair[1], pair[2]>>
      BY <2>2, PairsOfIds, Zenon
    <3>3. CASE PairLine(pair, "true") = line
      <4>1. pair[1] = q[1] /\ pair[2] = q[2]
        BY <2>7, <3>3, LinesDiffer
      <4> QED BY <3>1, <3>2, <4>1, Zenon
    <3>4. CASE PairLine(pair, "true") # line
      BY <2>1, <2>5, <3>1, <3>4, Zenon
    <3> QED BY <3>3, <3>4, Zenon
  <2>8. \/ line = LogLine("PARTITION") /\ cut' = cut /\ missed' = missed
        \/ \E q \in GroupPairs(timeline[step]) :
             line = PairLine(q, "true") /\ Updated(q[1], q[2], "true")
    BY <1>2, <2>4, PartitionLine, Zenon
  <2> QED BY <2>6, <2>7, <2>8, Zenon
<1>3. CASE Compile
  BY <1>3, Zenon DEF Compile, RunInv, Begun, CutInv, Runs
<1>4. CASE CommandFails
  BY <1>4, Zenon DEF CommandFails, CutInv, Runs
<1>5. CASE Complete
  BY <1>5, Zenon DEF Complete, CutInv, Runs
<1>6. CASE UNCHANGED vars
  BY <1>6, Zenon DEF vars, CutInv, Runs
<1> QED BY <1>1, <1>2, <1>3, <1>4, <1>5, <1>6, Zenon DEF Next, Ended

(* With the same groups in every step a partition line cuts off a pair of  *)
(* theirs, and a heal line brings its own together.                        *)
LEMMA HealLine ==
  ASSUME RunInv, HealInv, SameGroups, ~missed', Begun,
         NEW line \in commands, ExecuteCommand(line)
  PROVE  HealInv'
<1> DEFINE P == GroupPairs(timeline[1])
<1>1. /\ commands' = commands \ {line}
      /\ UNCHANGED <<timeline, phase, batches, todo, step>>
  BY Zenon DEF ExecuteCommand
<1>2. step # 0 /\ step \in DOMAIN timeline /\ line \in batches[step] /\ phase = "running"
  BY Zenon DEF RunInv
<1>3. GroupPairs(timeline[step]) = P
  <2>1. timeline[step].groups = timeline[1].groups
    BY <1>2, Zenon DEF SameGroups
  <2> QED BY <2>1 DEF GroupPairs
<1>4. P' = P
  BY <1>1, Zenon
<1>5. \A q \in P : q = <<q[1], q[2]>>
  BY PairsOfIds, Zenon
<1> HIDE DEF P
<1>6. CASE timeline[step].action = "partition"
  <2>1. line \in compilePartitionCommands(timeline[step], "PARTITION", "true")
    BY <1>2, <1>6, PartitionBatch, Zenon
  <2>2. \/ line = LogLine("PARTITION") /\ cut' = cut /\ missed' = missed
        \/ \E q \in P : line = PairLine(q, "true") /\ Updated(q[1], q[2], "true")
    BY <1>3, <2>1, PartitionLine, Zenon
  <2>3. ~missed
    BY <2>2, Zenon DEF Updated, RunInv
  <2>4. cut \subseteq Both(P)
    BY <2>3, Zenon DEF HealInv, P
  <2>5. cut' \subseteq Both(P)
    <3>1. CASE cut' = cut
      BY <2>4, <3>1, Zenon
    <3>2. ASSUME NEW q \in P, Updated(q[1], q[2], "true") PROVE cut' \subseteq Both(P)
      <4>1. cut' = cut \cup {<<q[1], q[2]>>, <<q[2], q[1]>>}
        BY <3>2, Zenon DEF Updated
      <4>2. <<q[1], q[2]>> \in Both(P) /\ <<q[2], q[1]>> \in Both(P)
        BY <1>5, <3>2, Zenon DEF Both
      <4> QED BY <2>4, <4>1, <4>2, Zenon
    <3> QED BY <2>2, <3>1, <3>2, Zenon
  <2>6. ~Runs("heal_partition")'
    BY <1>1, <1>6, Zenon DEF Runs
  <2> QED BY <1>4, <2>5, <2>6, Zenon DEF HealInv, P
<1>7. CASE timeline[step].action = "heal_partition"
  <2>1. line \in compilePartitionCommands(timeline[step], "HEAL", "false")
    BY <1>2, <1>7, PartitionBatch, Zenon
  <2>2. \/ line = LogLine("HEAL") /\ cut' = cut /\ missed' = missed
        \/ \E q \in P : line = PairLine(q, "false") /\ Updated(q[1], q[2], "false")
    BY <1>3, <2>1, PartitionLine, Zenon
  <2>3. ~missed
    BY <2>2, Zenon DEF Updated, RunInv
  <2>4. Runs("heal_partition")
    BY <1>2, <1>7, Zenon DEF Runs
  <2>5. cut \subseteq Both(P) /\ cut \subseteq Both(Unhealed(P, commands))
    BY <2>3, <2>4, Zenon DEF HealInv, P
  <2>6. cut' \subseteq cut
    BY <2>2, Zenon DEF Updated
  <2>7. ASSUME NEW x \in cut' PROVE x \in Both(Unhealed(P, commands'))
    <3>1. PICK pair \in Unhealed(P, commands) : x = pair \/ x = <<pair[2], pair[1]>>
      BY <2>5, <2>6, <2>7, Zenon DEF Both
    <3>2. pair \in P /\ PairLine(pair, "false") \in commands /\ pair = <<pair[1], pair[2]>>
      BY <1>5, <3>1, Zenon DEF Unhealed
    <3>3. PairLine(pair, "false") # line
      <4>1. CASE line = LogLine("HEAL")
        BY <4>1, PairIsNoLog, Zenon
      <4>2. ASSUME NEW q \in P, line = PairLine(q, "false"), Updated(q[1], q[2], "false"),
                   PairLine(pair, "false") = line
            PROVE  FALSE
        <5>1. pair[1] = q[1] /\ pair[2] = q[2]
          BY <4>2, LinesDiffer
        <5>2. cut' = cut \ {<<q[1], q[2]>>, <<q[2], q[1]>>}
          BY <4>2, Zenon DEF Updated
        <5>3. x = <<q[1], q[2]>> \/ x = <<q[2], q[1]>>
          BY <3>1, <3>2, <5>1, Zenon
        <5> QED BY <2>7, <5>2, <5>3, Zenon
      <4> QED BY <2>2, <4>1, <4>2, Zenon
    <3>4. pair \in Unhealed(P, commands')
      BY <1>1, <3>2, <3>3, Zenon DEF Unhealed
    <3> QED BY <3>1, <3>4, Zenon DEF Both
  <2>8. cut' \subseteq Both(P) /\ cut' \subseteq Both(Unhealed(P, commands'))
    BY <2>5, <2>6, <2>7, Zenon
  <2>9. cut' \subseteq Both(P') /\ cut' \subseteq Both(Unhealed(P', commands'))
    BY <1>4, <2>8, Zenon
  <2> QED BY <2>9, Zenon DEF HealInv, P
<1> QED BY <1>2, <1>6, <1>7, Zenon DEF SameGroups

LEMMA HealStep == RunInv /\ HealInv /\ [Next]_vars => HealInv'
<1> SUFFICES ASSUME RunInv, HealInv, [Next]_vars PROVE HealInv'
  BY Zenon
<1>1. CASE BeginBatch
  <2> SUFFICES ASSUME SameGroups', ~missed' PROVE
                 /\ (cut \subseteq Both(GroupPairs(timeline[1])))'
                 /\ Runs("heal_partition")' =>
                      (cut \subseteq Both(Unhealed(GroupPairs(timeline[1]), commands)))'
    BY Zenon DEF HealInv
  <2>1. PICK i \in todo : step' = i /\ commands' = batches[i]
    BY <1>1, Zenon DEF BeginBatch
  <2>2. UNCHANGED <<timeline, phase, batches, cut, missed>>
    BY <1>1, Zenon DEF BeginBatch
  <2>3. i \in DOMAIN timeline /\ Begun
    BY <1>1, Zenon DEF BeginBatch, Begun, RunInv
  <2>4. SameGroups /\ ~missed
    BY <2>2, Zenon DEF SameGroups
  <2>5. cut \subseteq Both(GroupPairs(timeline[1]))
    BY <2>4, Zenon DEF HealInv
  <2>6. ASSUME timeline[i].action = "heal_partition"
        PROVE  Unhealed(GroupPairs(timeline[1]), batches[i]) = GroupPairs(timeline[1])
    <3>1. batches[i] = compilePartitionCommands(timeline[i], "HEAL", "false")
      BY <2>3, <2>6, PartitionBatch, Zenon
    <3>2. GroupPairs(timeline[i]) = GroupPairs(timeline[1])
      BY <2>3, <2>4, SMTT(30) DEF SameGroups, GroupPairs
    <3>3. \A pair \in GroupPairs(timeline[i]) : PairLine(pair, "false") \in batches[i]
      BY <3>1, Zenon DEF compilePartitionCommands, PairLine
    <3> QED BY <3>2, <3>3, Zenon DEF Unhealed
  <2> QED BY <2>1, <2>2, <2>5, <2>6, Zenon DEF Runs
<1>2. ASSUME NEW line \in commands, ExecuteCommand(line) PROVE HealInv'
  <2>1. CASE SameGroups /\ ~missed'
    <3>1. Begun
      BY Zenon DEF RunInv, Begun
    <3> QED BY <1>2, <2>1, <3>1, HealLine, Zenon
  <2>2. CASE ~SameGroups
    <3>1. timeline' = timeline
      BY <1>2, Zenon DEF ExecuteCommand
    <3> QED BY <2>2, <3>1, Zenon DEF HealInv, SameGroups
  <2>3. CASE missed'
    BY <2>3, Zenon DEF HealInv
  <2> QED BY <2>1, <2>2, <2>3, Zenon
<1>3. CASE Compile
  BY <1>3, Zenon DEF Compile, RunInv, Begun, HealInv, Runs, SameGroups
<1>4. CASE CommandFails
  BY <1>4, Zenon DEF CommandFails, HealInv, Runs, SameGroups
<1>5. CASE Complete
  BY <1>5, Zenon DEF Complete, HealInv, Runs, SameGroups
<1>6. CASE UNCHANGED vars
  BY <1>6, Zenon DEF vars, HealInv, Runs, SameGroups
<1> QED BY <1>1, <1>2, <1>3, <1>4, <1>5, <1>6, Zenon DEF Next, Ended

LEMMA HypothesisRuns == Spec => [](RunInv /\ OrderInv /\ CutInv /\ HealInv)
<1>1. RunInv /\ OrderInv /\ CutInv /\ HealInv /\ [Next]_vars
        => (RunInv /\ OrderInv /\ CutInv /\ HealInv)'
  BY RunStep, OrderStep, CutStep, HealStep, Zenon
<1> QED BY <1>1, RunInitially, PTL DEF Spec

-----------------------------------------------------------------------------

(* No step of a hypothesis begins unless all of its steps are valid and    *)
(* can be compiled, however long it is: executeHypothesis compiles the     *)
(* whole file before the first line is read (actor.go:693-702).            *)
THEOREM NothingOrAll == Spec => []AllOrNothing
<1>1. RunInv => AllOrNothing
  BY Zenon DEF RunInv, AllOrNothing
<1> QED BY <1>1, HypothesisRuns, PTL

(* Two nodes of different groups are a pair.                               *)
LEMMA GroupsApart ==
  ASSUME NEW s, s.groups \in Seq(Seq(STRING)), NEW n, NEW p,
         NEW i \in InGroup(s, n), NEW j \in InGroup(s, p), i # j
  PROVE  <<n, p>> \in GroupPairs(s) \/ <<p, n>> \in GroupPairs(s)
<1>1. /\ DOMAIN s.groups = 1 .. Len(s.groups) /\ Len(s.groups) \in Nat
      /\ i \in DOMAIN s.groups /\ j \in DOMAIN s.groups
      /\ n \in Ids(s.groups[i]) /\ p \in Ids(s.groups[j])
  BY DEF InGroup
<1>2. CASE i < j
  <2>1. j \in i + 1 .. Len(s.groups)
    BY <1>1, <1>2
  <2> QED BY <1>1, <2>1 DEF GroupPairs
<1>3. CASE j < i
  <2>1. i \in j + 1 .. Len(s.groups)
    BY <1>1, <1>3
  <2> QED BY <1>1, <2>1 DEF GroupPairs
<1> QED BY <1>1, <1>2, <1>3

(* A partition step that is carried out keeps the nodes of its groups      *)
(* apart, however many groups and nodes there are: each pair's line was    *)
(* executed, and its first node at least took the update, since its        *)
(* failure would have ended the run (command_parser.go:119-141,            *)
(* actor.go:369-380).                                                      *)
THEOREM GroupsAreSeparated == Spec => []PartitionSeparatesGroups
<1>1. RunInv /\ CutInv => PartitionSeparatesGroups
  <2> SUFFICES ASSUME RunInv, CutInv, Executed("partition"),
                      NEW n \in Members, NEW p \in Members,
                      NEW i \in InGroup(timeline[step], n),
                      NEW j \in InGroup(timeline[step], p), i # j
               PROVE  Separated(n, p)
    BY Zenon DEF PartitionSeparatesGroups
  <2>1. timeline[step].groups \in Seq(Seq(STRING))
    <3>1. step \in DOMAIN timeline
      BY Zenon DEF Executed, RunInv
    <3>2. timeline[step] \in Steps
      BY <3>1, Zenon DEF RunInv
    <3> QED BY <3>2, HypothesisAssumption, Zenon
  <2>2. <<n, p>> \in GroupPairs(timeline[step]) \/ <<p, n>> \in GroupPairs(timeline[step])
    BY <2>1, GroupsApart, Zenon
  <2>3. Runs("partition") /\ commands = {}
    BY Zenon DEF Executed, Runs
  <2>4. \A pair \in GroupPairs(timeline[step]) : pair \in cut
    BY <2>3, Zenon DEF CutInv
  <2> QED BY <2>2, <2>4, Zenon DEF Separated
<1> QED BY <1>1, HypothesisRuns, PTL

(* The last step has its way, by time and then by its place in the file:   *)
(* the steps are taken in that order, a partition step leaves a pair cut   *)
(* off and a heal step of the same groups none (experiment.go:109-118).    *)
THEOREM TheLastStepDecides == Spec => []LastStepDecides
<1>1. RunInv /\ OrderInv /\ CutInv /\ HealInv => LastStepDecides
  <2> SUFFICES ASSUME RunInv, OrderInv, CutInv, HealInv, phase = "completed", ~missed,
                      NEW i \in DOMAIN timeline,
                      \A j \in DOMAIN timeline :
                        /\ timeline[j].action \in {"partition", "heal_partition"}
                        /\ timeline[j].groups = timeline[i].groups
                        /\ NoLater(j, i)
               PROVE  cut = {} <=> timeline[i].action = "heal_partition"
    BY Zenon DEF LastStepDecides, NoLater
  <2>1. PICK len \in 1 .. MaxSteps : timeline \in [1 .. len -> Steps]
    BY Zenon DEF RunInv
  <2>2. /\ DOMAIN timeline = 1 .. len /\ 1 \in DOMAIN timeline
        /\ \A j \in DOMAIN timeline : /\ timeline[j].at \in Int /\ j \in Int
                                      /\ timeline[j].groups \in Seq(Seq(STRING))
    <3>1. DOMAIN timeline = 1 .. len /\ \A j \in 1 .. len : timeline[j] \in Steps
      BY <2>1, Zenon
    <3>2. 1 \in 1 .. len /\ \A j \in 1 .. len : j \in Int
      BY <2>1, HypothesisAssumption
    <3> QED BY <3>1, <3>2, HypothesisAssumption
  <2>3. todo = {} /\ commands = {} /\ step \in DOMAIN timeline /\ step # 0 /\ Begun
    BY <2>2, Zenon DEF RunInv, Begun
  <2>4. step = i
    <3>1. NoLater(i, step) /\ NoLater(step, i)
      BY <2>3, Zenon DEF OrderInv
    <3> QED BY <2>2, <2>3, <3>1 DEF NoLater
  <2>5. SameGroups
    BY <2>2, Zenon DEF SameGroups
  <2>6. CASE timeline[i].action = "heal_partition"
    <3>1. Runs("heal_partition")
      BY <2>3, <2>4, <2>6, Zenon DEF Runs
    <3>2. cut \subseteq Both(Unhealed(GroupPairs(timeline[1]), commands))
      BY <2>5, <3>1, Zenon DEF HealInv
    <3>3. Both(Unhealed(GroupPairs(timeline[1]), commands)) = {}
      BY <2>3, Zenon DEF Both, Unhealed
    <3> QED BY <2>6, <3>2, <3>3, Zenon
  <2>7. CASE timeline[i].action = "partition"
    <3>1. Runs("partition")
      BY <2>3, <2>4, <2>7, Zenon DEF Runs
    <3>2. \A pair \in GroupPairs(timeline[i]) : pair \in cut
      BY <2>3, <2>4, <3>1, Zenon DEF CutInv
    <3>3. PICK s : s = timeline[i]
      BY Zenon
    <3>4. /\ Len(s.groups) >= 2 /\ s.groups \in Seq(Seq(STRING))
          /\ \A k \in DOMAIN s.groups : s.groups[k] # <<>>
      <4>1. Valid(s)
        BY <2>3, <3>3, Zenon DEF RunInv
      <4> QED BY <2>2, <2>7, <3>3, <4>1, Zenon DEF Valid
    <3>5. 1 \in DOMAIN s.groups /\ 2 \in DOMAIN s.groups
      BY <3>4
    <3>6. \A k \in DOMAIN s.groups : 1 \in DOMAIN s.groups[k]
      <4>1. \A k \in DOMAIN s.groups : s.groups[k] \in Seq(STRING) /\ s.groups[k] # <<>>
        BY <3>4
      <4> QED BY <4>1, EmptySeq
    <3>7. PICK n, p : 1 \in InGroup(s, n) /\ 2 \in InGroup(s, p)
      <4>1. s.groups[1][1] \in Ids(s.groups[1]) /\ s.groups[2][1] \in Ids(s.groups[2])
        BY <3>5, <3>6, Zenon DEF Ids
      <4> QED BY <3>5, <4>1, Zenon DEF InGroup
    <3>8. <<n, p>> \in GroupPairs(s) \/ <<p, n>> \in GroupPairs(s)
      BY <3>4, <3>7, GroupsApart
    <3> QED BY <2>7, <3>2, <3>3, <3>8, Zenon
  <2> QED BY <2>6, <2>7, Zenon
<1> QED BY <1>1, HypothesisRuns, PTL

-----------------------------------------------------------------------------
(* The lines of the other steps.                                           *)

(* kv-put: five words.                                                     *)
LEMMA PutIsRead ==
  ASSUME NEW S, NEW parts \in Seq(S), Len(parts) = 5, parts[1] = "kv-put"
  PROVE  ReadCommand(parts) =
           [type |-> "kv-put", cluster |-> parts[2], node |-> parts[3],
            key |-> parts[4], value |-> parts[5]]
<1> DEFINE fields == <<"cluster", "node", "key", "value">>
<1>1. parts # <<>> /\ Head(parts) = "kv-put"
  <2>1. Len(parts) # 0
    OBVIOUS
  <2>2. parts # <<>>
    BY <2>1, EmptySeq, Zenon
  <2> QED BY <2>2
<1>2. /\ CommandType(Head(parts)) = Head(parts)
      /\ Head(parts) \in Names /\ Fields[Head(parts)] = fields
  BY <1>1, CompiledFields, Zenon DEF CommandType
<1>3. /\ DOMAIN fields = 1 .. 4 /\ Len(fields) = 4
      /\ fields[1] = "cluster"
      /\ fields[2] = "node"
      /\ fields[3] = "key"
      /\ fields[4] = "value"
  OBVIOUS
<1> HIDE DEF fields
<1>4. Fits(parts, fields)
  <2>1. \A i, j \in DOMAIN fields : fields[i] = fields[j] => i = j
    BY <1>3
  <2>2. \A i \in DOMAIN fields : Readable(fields[i], parts[1 + i])
    BY <1>3 DEF Readable
  <2>3. Len(fields) \in Nat /\ Len(parts) \in Nat /\ Len(fields) < Len(parts)
    BY <1>3
  <2> QED BY <1>1, <1>2, <2>1, <2>2, <2>3, Zenon DEF Fits
<1>5. DOMAIN Optional(parts) = {} /\ Optional(parts) # Refused
  BY <1>1, FurtherWords
<1>6. IsReadAs(ReadCommand(parts), parts, fields, Optional(parts))
  BY <1>4, <1>5, CommandFields, Zenon
<1>7. PICK c, o : c = ReadCommand(parts) /\ o = Optional(parts)
  BY Zenon
<1>8. IsReadAs(c, parts, fields, o) /\ DOMAIN o = {}
  BY <1>5, <1>6, <1>7, Zenon
<1>9. /\ c = [f \in DOMAIN c |-> c[f]] /\ c["type"] = "kv-put"
      /\ DOMAIN c = {"type", "cluster", "node", "key", "value"}
      /\ c["cluster"] = parts[2]
      /\ c["node"] = parts[3]
      /\ c["key"] = parts[4]
      /\ c["value"] = parts[5]
  BY <1>1, <1>3, <1>8 DEF IsReadAs
<1> QED BY <1>7, <1>9, Zenon

(* kv-get: four words.                                                     *)
LEMMA GetIsRead ==
  ASSUME NEW S, NEW parts \in Seq(S), Len(parts) = 4, parts[1] = "kv-get"
  PROVE  ReadCommand(parts) =
           [type |-> "kv-get", cluster |-> parts[2], node |-> parts[3],
            key |-> parts[4]]
<1> DEFINE fields == <<"cluster", "node", "key">>
<1>1. parts # <<>> /\ Head(parts) = "kv-get"
  <2>1. Len(parts) # 0
    OBVIOUS
  <2>2. parts # <<>>
    BY <2>1, EmptySeq, Zenon
  <2> QED BY <2>2
<1>2. /\ CommandType(Head(parts)) = Head(parts)
      /\ Head(parts) \in Names /\ Fields[Head(parts)] = fields
  BY <1>1, CompiledFields, Zenon DEF CommandType
<1>3. /\ DOMAIN fields = 1 .. 3 /\ Len(fields) = 3
      /\ fields[1] = "cluster"
      /\ fields[2] = "node"
      /\ fields[3] = "key"
  OBVIOUS
<1> HIDE DEF fields
<1>4. Fits(parts, fields)
  <2>1. \A i, j \in DOMAIN fields : fields[i] = fields[j] => i = j
    BY <1>3
  <2>2. \A i \in DOMAIN fields : Readable(fields[i], parts[1 + i])
    BY <1>3 DEF Readable
  <2>3. Len(fields) \in Nat /\ Len(parts) \in Nat /\ Len(fields) < Len(parts)
    BY <1>3
  <2> QED BY <1>1, <1>2, <2>1, <2>2, <2>3, Zenon DEF Fits
<1>5. DOMAIN Optional(parts) = {} /\ Optional(parts) # Refused
  BY <1>1, FurtherWords
<1>6. IsReadAs(ReadCommand(parts), parts, fields, Optional(parts))
  BY <1>4, <1>5, CommandFields, Zenon
<1>7. PICK c, o : c = ReadCommand(parts) /\ o = Optional(parts)
  BY Zenon
<1>8. IsReadAs(c, parts, fields, o) /\ DOMAIN o = {}
  BY <1>5, <1>6, <1>7, Zenon
<1>9. /\ c = [f \in DOMAIN c |-> c[f]] /\ c["type"] = "kv-get"
      /\ DOMAIN c = {"type", "cluster", "node", "key"}
      /\ c["cluster"] = parts[2]
      /\ c["node"] = parts[3]
      /\ c["key"] = parts[4]
  BY <1>1, <1>3, <1>8 DEF IsReadAs
<1> QED BY <1>7, <1>9, Zenon

(* metrics-start without an interval: two words.                           *)
LEMMA StartOfMetricsIsRead ==
  ASSUME NEW S, NEW parts \in Seq(S), Len(parts) = 2, parts[1] = "metrics-start"
  PROVE  ReadCommand(parts) = [type |-> "metrics-start", cluster |-> parts[2]]
<1> DEFINE fields == <<"cluster">>
<1>1. parts # <<>> /\ Head(parts) = "metrics-start"
  <2>1. Len(parts) # 0
    OBVIOUS
  <2>2. parts # <<>>
    BY <2>1, EmptySeq, Zenon
  <2> QED BY <2>2
<1>2. /\ CommandType(Head(parts)) = Head(parts)
      /\ Head(parts) \in Names /\ Fields[Head(parts)] = fields
  BY <1>1, CompiledFields, Zenon DEF CommandType
<1>3. /\ DOMAIN fields = 1 .. 1 /\ Len(fields) = 1
      /\ fields[1] = "cluster"
  OBVIOUS
<1> HIDE DEF fields
<1>4. Fits(parts, fields)
  <2>1. \A i, j \in DOMAIN fields : fields[i] = fields[j] => i = j
    BY <1>3
  <2>2. \A i \in DOMAIN fields : Readable(fields[i], parts[1 + i])
    BY <1>3 DEF Readable
  <2>3. Len(fields) \in Nat /\ Len(parts) \in Nat /\ Len(fields) < Len(parts)
    BY <1>3
  <2> QED BY <1>1, <1>2, <2>1, <2>2, <2>3, Zenon DEF Fits
<1>5. DOMAIN Optional(parts) = {} /\ Optional(parts) # Refused
  <2>1. Optional(parts) = <<>>
    BY <1>1 DEF Optional
  <2>2. DOMAIN Refused = {"type"}
    BY Zenon DEF Refused
  <2>3. DOMAIN <<>> = {}
    OBVIOUS
  <2>4. DOMAIN Optional(parts) # DOMAIN Refused
    BY <2>1, <2>2, <2>3, Zenon
  <2> QED BY <2>1, <2>3, <2>4, Zenon
<1>6. IsReadAs(ReadCommand(parts), parts, fields, Optional(parts))
  BY <1>4, <1>5, CommandFields, Zenon
<1>7. PICK c, o : c = ReadCommand(parts) /\ o = Optional(parts)
  BY Zenon
<1>8. IsReadAs(c, parts, fields, o) /\ DOMAIN o = {}
  BY <1>5, <1>6, <1>7, Zenon
<1>9. /\ c = [f \in DOMAIN c |-> c[f]] /\ c["type"] = "metrics-start"
      /\ DOMAIN c = {"type", "cluster"}
      /\ c["cluster"] = parts[2]
  BY <1>1, <1>3, <1>8 DEF IsReadAs
<1> QED BY <1>7, <1>9, Zenon

(* new-cluster without options: the protocol is gossip.                    *)
LEMMA NewClusterIsRead ==
  ReadCommand(<<"cp", "new-cluster", "c">>) =
    [type |-> "new-cluster", cluster |-> "c", protocol |-> "gossip"]
<1> DEFINE line == <<"cp", "new-cluster", "c">>
<1> DEFINE parts == <<"new-cluster", "c">>
<1> DEFINE fields == <<"cluster">>
<1>1. /\ parts # <<>> /\ Head(parts) = "new-cluster" /\ parts[2] = "c"
      /\ Len(parts) = 2
  <2>1. Head(parts) = "new-cluster" /\ parts[2] = "c"
    OBVIOUS
  <2>2. Len(parts) = 2 /\ Len(<<>>) = 0
    BY Zenon
  <2>3. parts # <<>>
    BY <2>2, Zenon
  <2> QED BY <2>1, <2>2, <2>3, Zenon
<1>2. line # <<>> /\ Head(line) = "cp" /\ Tail(line) = parts
  OBVIOUS
<1>3. /\ CommandType(Head(parts)) = Head(parts)
      /\ Head(parts) \in Names /\ Fields[Head(parts)] = fields
  BY <1>1, CompiledFields, Zenon DEF CommandType
<1>4. DOMAIN fields = {1} /\ Len(fields) = 1 /\ fields[1] = "cluster"
  OBVIOUS
<1> HIDE DEF parts, line, fields
<1>5. ReadCommand(line) = Parse(parts) /\ ReadCommand(parts) = Parse(parts)
  BY <1>1, <1>2, Zenon DEF ReadCommand
<1>6. Fits(parts, fields)
  <2>1. \A i \in DOMAIN fields : Readable(fields[i], parts[1 + i])
    BY <1>4, Zenon DEF Readable
  <2>2. \A i, j \in DOMAIN fields : fields[i] = fields[j] => i = j
    BY <1>4, Zenon
  <2>3. Len(fields) \in Nat /\ Len(parts) \in Nat /\ Len(fields) < Len(parts)
    BY <1>1, <1>4
  <2> QED BY <1>1, <1>3, <2>1, <2>2, <2>3, Zenon DEF Fits
<1>7. PICK c, o : c = ReadCommand(parts) /\ o = Optional(parts)
  BY Zenon
<1>8. DOMAIN o = {"protocol"} /\ o["protocol"] = "gossip" /\ o # Refused
  <2>1. o = NewCluster(parts)
    BY <1>1, <1>7, Zenon DEF Optional
  <2>2. ~(Len(parts) > 2) /\ PairsFrom(parts, 3) = {}
    BY <1>1 DEF PairsFrom
  <2>3. LastOf(parts, {}, "gossip") = "gossip"
    BY Zenon DEF LastOf
  <2>4. o = [protocol |-> "gossip"]
    BY <2>1, <2>2, <2>3, Zenon DEF NewCluster
  <2>5. DOMAIN o = {"protocol"} /\ o["protocol"] = "gossip"
    BY <2>4, Zenon
  <2>6. DOMAIN Refused = {"type"}
    BY Zenon DEF Refused
  <2> QED BY <2>5, <2>6, Zenon
<1>9. IsReadAs(c, parts, fields, o)
  BY <1>6, <1>7, <1>8, CommandFields, Zenon
<1>10. /\ c = [f \in DOMAIN c |-> c[f]] /\ c["type"] = "new-cluster"
       /\ DOMAIN c = {"type", "cluster", "protocol"}
       /\ c["cluster"] = "c" /\ c["protocol"] = "gossip"
  BY <1>1, <1>4, <1>8, <1>9 DEF IsReadAs
<1>11. c = [type |-> "new-cluster", cluster |-> "c", protocol |-> "gossip"]
  BY <1>10, Zenon
<1> QED BY <1>5, <1>7, <1>11, Zenon DEF line

(* The option at the only place of its name.                               *)
LEMMA OnlyPlace ==
  ASSUME NEW parts, NEW i \in Nat, NEW default
  PROVE  LastOf(parts, {i}, default) = parts[i + 1]
<1>1. Max({i}) = i
  BY DEF Max
<1> QED BY <1>1, Zenon DEF LastOf

(* start-node with all of its options.                                     *)
Started(parts) ==
  /\ parts[1] = "start-node" /\ parts[3] \in Numbers
  /\ parts[4] = "--cluster-id" /\ parts[6] = "--host" /\ parts[8] = "--peers"
  /\ parts[10] = "--cp-host" /\ parts[12] = "--cp-port" /\ parts[13] \in Numbers

LEMMA StartOptions ==
  ASSUME NEW parts, Len(parts) = 13, Started(parts)
  PROVE  StartNode(parts) = [cluster |-> parts[5], host |-> parts[7], peers |-> parts[9],
                             cpHost |-> parts[11], cpPort |-> parts[13]]
<1> DEFINE at == PairsFrom(parts, 4)
<1> DEFINE places(option) == {i \in at : parts[i] = option}
<1>1. at = {4, 6, 8, 10, 12}
  <2>1. at = {i \in 4 .. 13 : (i - 4) % 2 = 0}
    BY Zenon DEF PairsFrom
  <2>2. \A i \in 4 .. 13 : (i - 4) % 2 = 0 <=> i \in {4, 6, 8, 10, 12}
    <3>1. \A i \in 4 .. 13 : \/ i \in {4, 6, 8, 10, 12} \/ i \in {5, 7, 9, 11, 13}
      OBVIOUS
    <3>2. \A i \in {4, 6, 8, 10, 12} : i \in 4 .. 13 /\ (i - 4) % 2 = 0
      OBVIOUS
    <3>3. \A i \in {5, 7, 9, 11, 13} : (i - 4) % 2 = 1
      OBVIOUS
    <3> QED BY <3>1, <3>2, <3>3, Zenon
  <2> QED BY <2>1, <2>2
<1>2. \A i \in at : /\ parts[i] \in StartNodeOptions /\ i < Len(parts)
                    /\ (parts[i] = "--cp-port" => Readable("cpPort", parts[i + 1]))
  BY <1>1 DEF Started, StartNodeOptions, Readable
<1>3. /\ places("--cluster-id") = {4} /\ places("--host") = {6} /\ places("--peers") = {8}
      /\ places("--cp-host") = {10} /\ places("--cp-port") = {12}
  BY <1>1, Zenon DEF Started
<1>4. /\ LastOf(parts, {4}, "default") = parts[5]
      /\ LastOf(parts, {6}, "localhost") = parts[7]
      /\ LastOf(parts, {8}, "") = parts[9]
      /\ LastOf(parts, {10}, "") = parts[11]
      /\ LastOf(parts, {12}, "0") = parts[13]
  <2>1. /\ LastOf(parts, {4}, "default") = parts[4 + 1]
        /\ LastOf(parts, {6}, "localhost") = parts[6 + 1]
        /\ LastOf(parts, {8}, "") = parts[8 + 1]
    BY OnlyPlace, Zenon
  <2>2. /\ LastOf(parts, {10}, "") = parts[10 + 1]
        /\ LastOf(parts, {12}, "0") = parts[12 + 1]
    BY OnlyPlace, Zenon
  <2>3. 4 + 1 = 5 /\ 6 + 1 = 7 /\ 8 + 1 = 9 /\ 10 + 1 = 11 /\ 12 + 1 = 13
    OBVIOUS
  <2> QED BY <2>1, <2>2, <2>3, Zenon
<1>5. StartNode(parts) =
        [cluster |-> LastOf(parts, places("--cluster-id"), "default"),
         host |-> LastOf(parts, places("--host"), "localhost"),
         peers |-> LastOf(parts, places("--peers"), ""),
         cpHost |-> LastOf(parts, places("--cp-host"), ""),
         cpPort |-> LastOf(parts, places("--cp-port"), "0")]
  BY <1>2, Zenon DEF StartNode
<1> HIDE DEF at, places
<1> QED BY <1>3, <1>4, <1>5, Zenon

LEMMA StartIsRead ==
  ASSUME NEW S, NEW parts \in Seq(S), Len(parts) = 13, Started(parts)
  PROVE  ReadCommand(parts) =
           [type |-> "start-node", cluster |-> parts[5], node |-> parts[2],
            port |-> parts[3], host |-> parts[7], peers |-> parts[9],
            cpHost |-> parts[11], cpPort |-> parts[13]]
<1> DEFINE fields == <<"node", "port">>
<1>1. parts # <<>> /\ Head(parts) = "start-node"
  <2>1. parts # <<>>
    <3>1. Len(<<>>) # Len(parts)
      OBVIOUS
    <3> QED BY <3>1, Zenon
  <2> QED BY <2>1 DEF Started
<1>2. /\ CommandType(Head(parts)) = Head(parts)
      /\ Head(parts) \in Names /\ Fields[Head(parts)] = fields
  BY <1>1, CompiledFields, Zenon DEF CommandType
<1>3. /\ DOMAIN fields = 1 .. 2 /\ Len(fields) = 2
      /\ fields[1] = "node" /\ fields[2] = "port"
  OBVIOUS
<1> HIDE DEF fields
<1>4. Fits(parts, fields)
  <2>1. \A i, j \in DOMAIN fields : fields[i] = fields[j] => i = j
    BY <1>3
  <2>2. \A i \in DOMAIN fields : Readable(fields[i], parts[1 + i])
    BY <1>3 DEF Readable, Started
  <2>3. Len(fields) \in Nat /\ Len(parts) \in Nat /\ Len(fields) < Len(parts)
    BY <1>3
  <2> QED BY <1>1, <1>2, <2>1, <2>2, <2>3, Zenon DEF Fits
<1>5. PICK c, o : c = ReadCommand(parts) /\ o = Optional(parts)
  BY Zenon
<1>6. /\ DOMAIN o = {"cluster", "host", "peers", "cpHost", "cpPort"} /\ o # Refused
      /\ o["cluster"] = parts[5] /\ o["host"] = parts[7] /\ o["peers"] = parts[9]
      /\ o["cpHost"] = parts[11] /\ o["cpPort"] = parts[13]
  <2>1. o = StartNode(parts)
    BY <1>1, <1>5, Zenon DEF Optional
  <2>2. o = [cluster |-> parts[5], host |-> parts[7], peers |-> parts[9],
             cpHost |-> parts[11], cpPort |-> parts[13]]
    BY <2>1, StartOptions, Zenon
  <2>3. DOMAIN Refused = {"type"}
    BY Zenon DEF Refused
  <2>4. DOMAIN o = {"cluster", "host", "peers", "cpHost", "cpPort"}
    BY <2>2, Zenon
  <2>5. DOMAIN o # DOMAIN Refused
    BY <2>3, <2>4, Zenon
  <2> QED BY <2>2, <2>4, <2>5, Zenon
<1>7. IsReadAs(c, parts, fields, o)
  BY <1>4, <1>5, <1>6, CommandFields, Zenon
<1>8. /\ c = [f \in DOMAIN c |-> c[f]] /\ c["type"] = "start-node"
      /\ DOMAIN c = {"type", "cluster", "node", "port", "host", "peers", "cpHost", "cpPort"}
  BY <1>1, <1>3, <1>6, <1>7 DEF IsReadAs
<1>9. /\ c["node"] = parts[2] /\ c["port"] = parts[3]
      /\ c["cluster"] = parts[5] /\ c["host"] = parts[7] /\ c["peers"] = parts[9]
      /\ c["cpHost"] = parts[11] /\ c["cpPort"] = parts[13]
  BY <1>3, <1>6, <1>7 DEF IsReadAs
<1> QED BY <1>5, <1>8, <1>9, Zenon

(* The lines as they are compiled.                                         *)
IsConcat(t, s, q, S) ==
  /\ t \in Seq(S) /\ Len(t) = Len(s) + Len(q)
  /\ \A i \in 1 .. Len(s) + Len(q) : t[i] = IF i <= Len(s) THEN s[i] ELSE q[i - Len(s)]

LEMMA Concatenated ==
  ASSUME NEW S, NEW s \in Seq(S), NEW q \in Seq(S)
  PROVE  IsConcat(s \o q, s, q, S)
BY ConcatProperties, Zenon DEF IsConcat

LEMMA GetLineIsRead ==
  ASSUME NEW n, NEW key \in Seq(STRING), Len(key) = 1
  PROVE  ReadCommand(Line("kv-get", <<n>> \o key)) =
           [type |-> "kv-get", cluster |-> "c", node |-> n, key |-> Head(key)]
<1> DEFINE S == STRING \cup {n}
<1>1. PICK s, words : s = <<n>> /\ words = s \o key
  BY Zenon
<1>2. s \in Seq(S) /\ Len(s) = 1 /\ s[1] = n /\ key \in Seq(S)
  BY <1>1, SeqMonotonic
<1>3. IsConcat(words, s, key, S)
  BY <1>1, <1>2, Concatenated, Zenon
<1>4. /\ words \in Seq(S) /\ Len(words) = 2 /\ words[1] = n /\ words[2] = key[1]
  BY <1>2, <1>3 DEF IsConcat
<1>5. Head(key) = key[1]
  OBVIOUS
<1> HIDE DEF S
<1>6. PICK parts : parts = Line("kv-get", words)
  BY Zenon
<1>7. HasWords(parts, "kv-get", words, S)
  BY <1>4, <1>6, LineWords, Zenon
<1>8. /\ parts \in Seq(S \cup {"kv-get", "c"}) /\ Len(parts) = 4
      /\ parts[1] = "kv-get" /\ parts[2] = "c"
  BY <1>4, <1>7 DEF HasWords
<1>9. parts[3] = n /\ parts[4] = Head(key)
  <2>1. parts[2 + 1] = words[1] /\ parts[2 + 2] = words[2]
    BY <1>4, <1>7 DEF HasWords
  <2> QED BY <1>4, <1>5, <2>1
<1>10. ReadCommand(parts) =
         [type |-> "kv-get", cluster |-> parts[2], node |-> parts[3], key |-> parts[4]]
  BY <1>8, GetIsRead, Zenon
<1> QED BY <1>1, <1>6, <1>8, <1>9, <1>10, Zenon

LEMMA PutLineIsRead ==
  ASSUME NEW n, NEW key \in Seq(STRING), Len(key) = 1,
         NEW value \in Seq(STRING), Len(value) = 1
  PROVE  ReadCommand(Line("kv-put", <<n>> \o key \o value)) =
           [type |-> "kv-put", cluster |-> "c", node |-> n, key |-> Head(key),
            value |-> Head(value)]
<1> DEFINE S == STRING \cup {n}
<1>1. PICK s, t, words : s = <<n>> /\ t = s \o key /\ words = t \o value
  BY Zenon
<1>2. s \in Seq(S) /\ Len(s) = 1 /\ s[1] = n /\ key \in Seq(S) /\ value \in Seq(S)
  BY <1>1, SeqMonotonic
<1>3. IsConcat(t, s, key, S)
  BY <1>1, <1>2, Concatenated, Zenon
<1>4. t \in Seq(S) /\ Len(t) = 2 /\ t[1] = n /\ t[2] = key[1]
  BY <1>2, <1>3 DEF IsConcat
<1>5. IsConcat(words, t, value, S)
  BY <1>1, <1>2, <1>4, Concatenated, Zenon
<1>6. /\ words \in Seq(S) /\ Len(words) = 3
      /\ words[1] = n /\ words[2] = key[1] /\ words[3] = value[1]
  BY <1>4, <1>5 DEF IsConcat
<1>7. Head(key) = key[1] /\ Head(value) = value[1]
  OBVIOUS
<1> HIDE DEF S
<1>8. PICK parts : parts = Line("kv-put", words)
  BY Zenon
<1>9. HasWords(parts, "kv-put", words, S)
  BY <1>6, <1>8, LineWords, Zenon
<1>10. /\ parts \in Seq(S \cup {"kv-put", "c"}) /\ Len(parts) = 5
       /\ parts[1] = "kv-put" /\ parts[2] = "c"
  BY <1>6, <1>9 DEF HasWords
<1>11. parts[3] = n /\ parts[4] = Head(key) /\ parts[5] = Head(value)
  <2>1. parts[2 + 1] = words[1] /\ parts[2 + 2] = words[2] /\ parts[2 + 3] = words[3]
    BY <1>6, <1>9 DEF HasWords
  <2> QED BY <1>6, <1>7, <2>1
<1>12. ReadCommand(parts) =
         [type |-> "kv-put", cluster |-> parts[2], node |-> parts[3], key |-> parts[4],
          value |-> parts[5]]
  BY <1>10, PutIsRead, Zenon
<1> QED BY <1>1, <1>8, <1>10, <1>11, <1>12, Zenon

LEMMA MetricsLineIsRead ==
  ReadCommand(Line("metrics-start", <<>>)) = [type |-> "metrics-start", cluster |-> "c"]
<1>1. PICK words : words = <<>>
  BY Zenon
<1>2. words \in Seq(STRING) /\ Len(words) = 0
  BY <1>1, EmptySeq, Zenon
<1>3. PICK parts : parts = Line("metrics-start", words)
  BY Zenon
<1>4. HasWords(parts, "metrics-start", words, STRING)
  BY <1>2, <1>3, LineWords, Zenon
<1>5. /\ parts \in Seq(STRING \cup {"metrics-start", "c"}) /\ Len(parts) = 2
      /\ parts[1] = "metrics-start" /\ parts[2] = "c"
  BY <1>2, <1>4 DEF HasWords
<1>6. ReadCommand(parts) = [type |-> "metrics-start", cluster |-> parts[2]]
  BY <1>5, StartOfMetricsIsRead, Zenon
<1> QED BY <1>1, <1>3, <1>5, <1>6, Zenon

LEMMA StartLineIsRead ==
  ASSUME NEW n
  PROVE  ReadCommand(<<"start-node", n, "4001", "--cluster-id", "c", "--host", "host",
                       "--peers">>
                       \o <<"peers">> \o <<"--cp-host", "cp-host", "--cp-port", "9091">>) =
           [type |-> "start-node", cluster |-> "c", node |-> n, port |-> "4001",
            host |-> "host", peers |-> "peers", cpHost |-> "cp-host", cpPort |-> "9091"]
<1> DEFINE S == {n, "start-node", "4001", "--cluster-id", "c", "--host", "host", "--peers",
                 "peers", "--cp-host", "cp-host", "--cp-port", "9091"}
<1> DEFINE a == <<"start-node", n, "4001", "--cluster-id", "c", "--host", "host", "--peers">>
<1> DEFINE b == <<"peers">>
<1> DEFINE d == <<"--cp-host", "cp-host", "--cp-port", "9091">>
<1>1. /\ a \in Seq(S) /\ Len(a) = 8
      /\ a[1] = "start-node" /\ a[2] = n /\ a[3] = "4001" /\ a[4] = "--cluster-id"
      /\ a[5] = "c" /\ a[6] = "--host" /\ a[7] = "host" /\ a[8] = "--peers"
  <2>1. a \in Seq(S)
    OBVIOUS
  <2>2. Len(a) = 8 /\ a[1] = "start-node" /\ a[2] = n /\ a[3] = "4001"
    BY Zenon
  <2>3. /\ a[4] = "--cluster-id" /\ a[5] = "c" /\ a[6] = "--host" /\ a[7] = "host"
        /\ a[8] = "--peers"
    BY Zenon
  <2> QED BY <2>1, <2>2, <2>3, Zenon
<1>2. b \in Seq(S) /\ Len(b) = 1 /\ b[1] = "peers"
  OBVIOUS
<1>3. /\ d \in Seq(S) /\ Len(d) = 4
      /\ d[1] = "--cp-host" /\ d[2] = "cp-host" /\ d[3] = "--cp-port" /\ d[4] = "9091"
  OBVIOUS
<1> HIDE DEF S, a, b, d
<1>4. PICK t, parts : t = a \o b /\ parts = t \o d
  BY Zenon
<1>5. IsConcat(t, a, b, S)
  BY <1>1, <1>2, <1>4, Concatenated, Zenon
<1>6. t \in Seq(S) /\ Len(t) = 9 /\ t[9] = "peers" /\ \A i \in 1 .. 8 : t[i] = a[i]
  BY <1>1, <1>2, <1>5 DEF IsConcat
<1>7. IsConcat(parts, t, d, S)
  BY <1>3, <1>4, <1>6, Concatenated, Zenon
<1>8. parts \in Seq(S) /\ Len(parts) = 13 /\ \A i \in 1 .. 9 : parts[i] = t[i]
  BY <1>3, <1>6, <1>7 DEF IsConcat
<1>9. /\ parts[10] = "--cp-host" /\ parts[11] = "cp-host"
      /\ parts[12] = "--cp-port" /\ parts[13] = "9091"
  BY <1>3, <1>6, <1>7 DEF IsConcat
<1>10. /\ parts[1] = "start-node" /\ parts[2] = n /\ parts[3] = "4001"
       /\ parts[4] = "--cluster-id" /\ parts[5] = "c" /\ parts[6] = "--host"
       /\ parts[7] = "host" /\ parts[8] = "--peers" /\ parts[9] = "peers"
  BY <1>1, <1>6, <1>8
<1>11. Started(parts)
  BY <1>9, <1>10, HypothesisAssumption, Zenon DEF Started
<1>12. ReadCommand(parts) =
         [type |-> "start-node", cluster |-> parts[5], node |-> parts[2],
          port |-> parts[3], host |-> parts[7], peers |-> parts[9],
          cpHost |-> parts[11], cpPort |-> parts[13]]
  BY <1>8, <1>11, StartIsRead, Zenon
<1>13. ReadCommand(parts) =
         [type |-> "start-node", cluster |-> "c", node |-> n, port |-> "4001",
          host |-> "host", peers |-> "peers", cpHost |-> "cp-host", cpPort |-> "9091"]
  BY <1>9, <1>10, <1>12, Zenon
<1> QED BY <1>4, <1>13, Zenon DEF a, b, d

-----------------------------------------------------------------------------
(* What each kind of step is read back as.                                 *)

ReadBack(s) == {ReadCommand(line) : line \in compileCommands(s)} = Asked(s)

LEMMA PartitionReadBack ==
  ASSUME NEW s, s.action \in {"partition", "heal_partition"}
  PROVE  ReadBack(s)
<1>1. PICK event, enabled :
        /\ event = IF s.action = "partition" THEN "PARTITION" ELSE "HEAL"
        /\ enabled = IF s.action = "partition" THEN "true" ELSE "false"
  BY Zenon
<1> DEFINE lines == {LogLine(event)} \cup {PairLine(pair, enabled) : pair \in GroupPairs(s)}
<1> DEFINE asked ==
      {[type |-> "log-lifecycle", cluster |-> "c", node |-> "SYSTEM", event |-> event,
        value |-> <<"text">>]} \cup
      {[type |-> "fault-partition", cluster |-> "c", node |-> pair[1], peer |-> pair[2],
        enabled |-> enabled] : pair \in GroupPairs(s)}
<1>2. compileCommands(s) = lines
  BY <1>1, Zenon DEF compileCommands, compilePartitionCommands, LogLine, PairLine
<1>3. Asked(s) = asked
  BY <1>1 DEF Asked
<1>4. ReadCommand(LogLine(event)) =
        [type |-> "log-lifecycle", cluster |-> "c", node |-> "SYSTEM", event |-> event,
         value |-> <<"text">>]
  BY LogLineIsRead, Zenon
<1>5. \A pair \in GroupPairs(s) :
        ReadCommand(PairLine(pair, enabled)) =
          [type |-> "fault-partition", cluster |-> "c", node |-> pair[1],
           peer |-> pair[2], enabled |-> enabled]
  BY <1>1, PairLineIsRead, Zenon
<1>6. {ReadCommand(line) : line \in lines} = asked
  BY <1>4, <1>5, Zenon
<1> QED BY <1>2, <1>3, <1>6, Zenon DEF ReadBack

LEMMA WriteReadBack ==
  ASSUME NEW s \in Steps, s.action = "write", Len(s.key) = 1, Len(s.value) = 1
  PROVE  ReadBack(s)
<1> DEFINE lines == {Line("kv-put", <<n>> \o s.key \o s.value) : n \in resolveWriteTargets(s)}
<1> DEFINE asked ==
      {[type |-> "kv-put", cluster |-> "c", node |-> n, key |-> Head(s.key),
        value |-> Head(s.value)] : n \in resolveWriteTargets(s)}
<1>1. compileCommands(s) = lines
  BY Zenon DEF compileCommands
<1>2. Asked(s) = asked
  BY Zenon DEF Asked
<1>3. \A n : ReadCommand(Line("kv-put", <<n>> \o s.key \o s.value)) =
               [type |-> "kv-put", cluster |-> "c", node |-> n, key |-> Head(s.key),
                value |-> Head(s.value)]
  BY HypothesisAssumption, PutLineIsRead, Zenon
<1>4. {ReadCommand(line) : line \in lines} = asked
  BY <1>3, Zenon
<1> QED BY <1>1, <1>2, <1>4, Zenon DEF ReadBack

LEMMA ReadAllReadBack ==
  ASSUME NEW s \in Steps, s.action = "read_all", Len(s.key) = 1
  PROVE  ReadBack(s)
<1> DEFINE lines == {Line("kv-get", <<n>> \o s.key) : n \in Members}
<1> DEFINE asked ==
      {[type |-> "kv-get", cluster |-> "c", node |-> n, key |-> Head(s.key)] : n \in Members}
<1>1. compileCommands(s) = lines
  BY Zenon DEF compileCommands
<1>2. Asked(s) = asked
  BY Zenon DEF Asked
<1>3. \A n : ReadCommand(Line("kv-get", <<n>> \o s.key)) =
               [type |-> "kv-get", cluster |-> "c", node |-> n, key |-> Head(s.key)]
  BY HypothesisAssumption, GetLineIsRead, Zenon
<1>4. {ReadCommand(line) : line \in lines} = asked
  BY <1>3, Zenon
<1> QED BY <1>1, <1>2, <1>4, Zenon DEF ReadBack

LEMMA MetricsReadBack ==
  ASSUME NEW s, s.action = "start_metrics_collection"
  PROVE  ReadBack(s)
<1>1. compileCommands(s) = {Line("metrics-start", <<>>)}
  BY Zenon DEF compileCommands
<1>2. Asked(s) = {[type |-> "metrics-start", cluster |-> "c"]}
  BY Zenon DEF Asked
<1>3. PICK line, c : /\ line = Line("metrics-start", <<>>)
                     /\ c = [type |-> "metrics-start", cluster |-> "c"]
  BY Zenon
<1>4. ReadCommand(line) = c
  BY <1>3, MetricsLineIsRead, Zenon
<1>5. {ReadCommand(l) : l \in {line}} = {c}
  BY <1>4, Zenon
<1> QED BY <1>1, <1>2, <1>3, <1>5, Zenon DEF ReadBack

LEMMA StartReadBack ==
  ASSUME NEW s, s.action = "start_cluster", Cardinality(Members) > 1
  PROVE  ReadBack(s)
<1> DEFINE startLine(n) ==
      <<"start-node", n, "4001", "--cluster-id", "c", "--host", "host", "--peers">>
        \o <<"peers">> \o <<"--cp-host", "cp-host", "--cp-port", "9091">>
<1> DEFINE start(n) ==
      [type |-> "start-node", cluster |-> "c", node |-> n, port |-> "4001",
       host |-> "host", peers |-> "peers", cpHost |-> "cp-host", cpPort |-> "9091"]
<1> DEFINE newCluster == [type |-> "new-cluster", cluster |-> "c", protocol |-> "gossip"]
<1> DEFINE joined == [type |-> "log-lifecycle", cluster |-> "c", node |-> "SYSTEM",
                      event |-> "NODE_JOIN", value |-> <<"text">>]
<1> DEFINE lines == {<<"cp", "new-cluster", "c">>, LogLine("NODE_JOIN")}
                      \cup {startLine(n) : n \in Members}
<1> DEFINE asked == {newCluster, joined} \cup {start(n) : n \in Members}
<1>1. \A n \in Members : PeerList(n) = <<"peers">>
  <2>1. ASSUME NEW n, Members = {n} PROVE FALSE
    <3>1. Cardinality({n}) = 1
      BY FS_Singleton, Zenon
    <3> QED BY <2>1, <3>1
  <2> QED BY <2>1, Zenon DEF PeerList
<1>2. compileCommands(s) = compileStartClusterCommands
  BY Zenon DEF compileCommands
<1>3. compileStartClusterCommands = lines
  BY <1>1, Zenon DEF compileStartClusterCommands, LogLine
<1>4. Asked(s) = asked
  BY Zenon DEF Asked
<1>5. \A n : ReadCommand(startLine(n)) = start(n)
  BY StartLineIsRead, Zenon
<1>6. ReadCommand(LogLine("NODE_JOIN")) = joined
  BY LogLineIsRead, Zenon
<1>7. ReadCommand(<<"cp", "new-cluster", "c">>) = newCluster
  BY NewClusterIsRead, Zenon
<1> HIDE DEF startLine, start, newCluster, joined
<1>8. {ReadCommand(line) : line \in lines} = asked
  BY <1>5, <1>6, <1>7, Zenon
<1> QED BY <1>2, <1>3, <1>4, <1>8, Zenon DEF ReadBack

(* What is executed is what the timeline asks for, for every hypothesis:   *)
(* each line that the compiler writes is read back by the parser as the    *)
(* command that was meant, as long as keys and values are single words and *)
(* a cluster to be started has more than one member                        *)
(* (command_parser.go:48-112, parser.go:22-80).                            *)
THEOREM LinesAreReadBack == Spec => []LinesSayWhatIsAsked
<1>1. RunInv => LinesSayWhatIsAsked
  <2> SUFFICES ASSUME RunInv, phase = "running", NEW i \in DOMAIN timeline,
                      NEW s, s = timeline[i], Valid(s),
                      s.action \in {"write", "read_all"} => Len(s.key) = 1 /\ Len(s.value) = 1,
                      s.action = "start_cluster" => Cardinality(Members) > 1
               PROVE  {ReadCommand(line) : line \in batches[i]} = Asked(s)
    BY Zenon DEF LinesSayWhatIsAsked
  <2>1. batches[i] = compileCommands(s) /\ s \in Steps
    BY Zenon DEF RunInv, Begun
  <2>2. \/ s.action \in {"partition", "heal_partition"} \/ s.action = "write"
        \/ s.action = "read_all" \/ s.action = "start_cluster"
        \/ s.action = "start_metrics_collection"
    BY Zenon DEF Valid
  <2>3. ReadBack(s)
    BY <2>1, <2>2, PartitionReadBack, WriteReadBack, ReadAllReadBack, MetricsReadBack,
       StartReadBack
  <2> QED BY <2>1, <2>3, Zenon DEF ReadBack
<1> QED BY <1>1, HypothesisRuns, PTL
====
