--------------------------- MODULE RuntimeProofs ---------------------------
(***************************************************************************)
(* The node runtime implements the gossip protocol: every step of the      *)
(* channels, the reactor, the sends and the fault engine is a step of      *)
(* Gossip or invisible to it.  What GossipProofs establishes about the     *)
(* protocol therefore holds for the protocol as the runtime runs it.       *)
(***************************************************************************)
EXTENDS GossipRuntime, FiniteSetTheorems, TLAPS

Messages == Proto!DigestMsg \cup Proto!StateMsg

(* The envelopes in flight, and the places of the client writes that wait  *)
(* for their reactor, as functions of the channels q and the outboxes o.   *)
Flight(q, o) ==
  UNION {Envelopes(Range(q[n])) \cup Range(o[n]) : n \in Nodes}

Puts(q) ==
  UNION {{<<n, i>> : i \in {j \in DOMAIN q[n] : q[n][j].type = "PUT"}} :
           n \in Nodes}

(* An envelope in a node's channel is addressed to the node, and there is  *)
(* a swap only if the operator swaps protocols.                            *)
Expected(n, e) ==
  /\ e.type \in {"DIGEST", "STATE"} => e.to = n
  /\ e.type = "SWAP" => Swaps

(* The channels hold events, and the client writes that wait fit under the *)
(* bound on writes.                                                        *)
Channels ==
  /\ queue \in [Nodes -> Seq(Event)]
  /\ \A n \in Nodes : Len(queue[n]) <= MaxQueue
  /\ \A n \in Nodes : \A e \in Range(queue[n]) : Expected(n, e)
  /\ Len(writes) + Cardinality(Puts(queue)) <= MaxWrites

(* A reactor has at most two envelopes to send, and a send one in hand.    *)
Sends ==
  /\ outbox \in [Nodes -> Seq(Messages)]
  /\ \A n \in Nodes : Len(outbox[n]) <= 2
  /\ sending \in [Nodes -> {"no", "call", "ack"}]
  /\ \A n \in Nodes : sending[n] # "no" => outbox[n] # <<>>

(* The drivers, the fault engines and the operator's commands are typed.   *)
Engines ==
  /\ driver \in [Nodes -> BOOLEAN] /\ crashed \in [Nodes -> BOOLEAN]
  /\ lossy \in [Nodes -> BOOLEAN]
  /\ cut \in [Nodes -> SUBSET Nodes] /\ asked \in [Nodes -> SUBSET Nodes]
  /\ commands \in 0 .. MaxCommands

(* The inductive invariant: the protocol is typed and its copies are       *)
(* genuine; the channels, the outboxes and the engines are in order.       *)
RuntimeInv == Proto!TypeOK /\ Proto!Integrity /\ Channels /\ Sends /\ Engines

-----------------------------------------------------------------------------
(* The bounds on the queues, the writes and the commands.                  *)
LEMMA QueueBounds == MaxQueue \in Nat /\ MaxWrites \in Nat /\ MaxCommands \in Nat
  BY RuntimeAssumption, Zenon

-----------------------------------------------------------------------------
(* Sequences and the sets of their elements.                               *)

(* The elements of a sequence are what stands at its places.               *)
LEMMA SetOfSeq ==
  ASSUME NEW S, NEW s \in Seq(S)
  PROVE  /\ Range(s) \subseteq S
         /\ \A x : x \in Range(s) <=> \E i \in 1 .. Len(s) : x = s[i]
  BY DEF Range

(* Appending an element adds it to the elements.                           *)
LEMMA SetOfAppend ==
  ASSUME NEW S, NEW s \in Seq(S), NEW e \in S
  PROVE  Range(Append(s, e)) = Range(s) \cup {e}
  <1>1. /\ Append(s, e) \in Seq(S) /\ Len(Append(s, e)) = Len(s) + 1 /\ Len(s) \in Nat
        /\ Append(s, e)[Len(s) + 1] = e
        /\ \A i \in 1 .. Len(s) : Append(s, e)[i] = s[i]
    OBVIOUS
  <1> DEFINE t == Append(s, e)
  <1> HIDE DEF t
  <1>2. /\ \A x : x \in Range(s) <=> \E i \in 1 .. Len(s) : x = s[i]
        /\ \A x : x \in Range(t) <=> \E i \in 1 .. Len(t) : x = t[i]
    BY <1>1, SetOfSeq, Zenon DEF t
  <1>3. /\ Len(t) = Len(s) + 1 /\ Len(s) \in Nat /\ t[Len(s) + 1] = e
        /\ \A i \in 1 .. Len(s) : t[i] = s[i]
    BY <1>1, Zenon DEF t
  <1>4. ASSUME NEW x \in Range(t) PROVE x \in Range(s) \cup {e}
    BY <1>2, <1>3
  <1>5. ASSUME NEW x \in Range(s) PROVE x \in Range(t)
    BY <1>2, <1>3
  <1>6. e \in Range(t)
    BY <1>2, <1>3
  <1> QED BY <1>4, <1>5, <1>6, Zenon DEF t

(* A sequence that is not empty consists of its head and its tail.         *)
LEMMA SetOfTail ==
  ASSUME NEW S, NEW s \in Seq(S), s # <<>>
  PROVE  /\ Head(s) \in S /\ Tail(s) \in Seq(S)
         /\ Len(Tail(s)) = Len(s) - 1
         /\ Head(s) \in Range(s)
         /\ Range(s) = {Head(s)} \cup Range(Tail(s))
  <1>1. /\ Head(s) \in S /\ Tail(s) \in Seq(S)
        /\ Len(Tail(s)) = Len(s) - 1 /\ Len(s) \in Nat \ {0}
        /\ Head(s) = s[1]
        /\ \A i \in 1 .. Len(s) - 1 : Tail(s)[i] = s[i + 1]
    OBVIOUS
  <1>2. ASSUME NEW x \in Range(s)
        PROVE  x \in {Head(s)} \cup Range(Tail(s))
    <2>1. PICK i \in 1 .. Len(s) : x = s[i]
      BY SetOfSeq
    <2>2. CASE i = 1
      BY <1>1, <2>1, <2>2, Zenon
    <2>3. CASE i # 1
      <3>1. i - 1 \in 1 .. Len(Tail(s)) /\ s[i] = Tail(s)[i - 1]
        BY <1>1, <2>1, <2>3
      <3>2. Tail(s)[i - 1] \in Range(Tail(s))
        BY <1>1, <3>1, SetOfSeq, Zenon
      <3> QED BY <2>1, <3>1, <3>2, Zenon
    <2> QED BY <2>2, <2>3, Zenon
  <1>3. Head(s) \in Range(s)
    <2>1. 1 \in 1 .. Len(s)
      BY <1>1
    <2> QED BY <1>1, <2>1, SetOfSeq
  <1>4. ASSUME NEW x \in Range(Tail(s)) PROVE x \in Range(s)
    <2>1. PICK i \in 1 .. Len(Tail(s)) : x = Tail(s)[i]
      BY <1>1, SetOfSeq, Zenon
    <2>2. x = s[i + 1] /\ i + 1 \in 1 .. Len(s)
      BY <1>1, <2>1
    <2> QED BY <2>2, SetOfSeq
  <1> QED BY <1>1, <1>2, <1>3, <1>4, Zenon

(* The elements of two sequences put together.                             *)
LEMMA SetOfConcat ==
  ASSUME NEW S, NEW s \in Seq(S), NEW t \in Seq(S)
  PROVE  /\ s \o t \in Seq(S) /\ Len(s \o t) = Len(s) + Len(t)
         /\ Range(s \o t) = Range(s) \cup Range(t)
  <1> DEFINE u == s \o t
  <1>1. /\ u \in Seq(S) /\ Len(u) = Len(s) + Len(t) /\ Len(s) \in Nat /\ Len(t) \in Nat
        /\ \A i \in 1 .. Len(u) : u[i] = IF i <= Len(s) THEN s[i] ELSE t[i - Len(s)]
    OBVIOUS
  <1> HIDE DEF u
  <1>2. /\ \A x : x \in Range(s) <=> \E i \in 1 .. Len(s) : x = s[i]
        /\ \A x : x \in Range(t) <=> \E i \in 1 .. Len(t) : x = t[i]
        /\ \A x : x \in Range(u) <=> \E i \in 1 .. Len(u) : x = u[i]
    BY <1>1, SetOfSeq, Zenon
  <1>3. ASSUME NEW x \in Range(u) PROVE x \in Range(s) \cup Range(t)
    <2>1. PICK i \in 1 .. Len(u) : x = u[i]
      BY <1>2, Zenon
    <2>2. i <= Len(s) => i \in 1 .. Len(s) /\ x = s[i]
      BY <1>1, <2>1
    <2>3. ~(i <= Len(s)) => i - Len(s) \in 1 .. Len(t) /\ x = t[i - Len(s)]
      BY <1>1, <2>1
    <2> QED BY <1>2, <2>2, <2>3, Zenon
  <1>4. ASSUME NEW x \in Range(s) PROVE x \in Range(u)
    <2>1. PICK i \in 1 .. Len(s) : x = s[i]
      BY <1>2, Zenon
    <2>2. i \in 1 .. Len(u) /\ x = u[i]
      BY <1>1, <2>1
    <2> QED BY <1>2, <2>2, Zenon
  <1>5. ASSUME NEW x \in Range(t) PROVE x \in Range(u)
    <2>1. PICK i \in 1 .. Len(t) : x = t[i]
      BY <1>2, Zenon
    <2>2. /\ i + Len(s) \in 1 .. Len(u) /\ ~(i + Len(s) <= Len(s))
          /\ (i + Len(s)) - Len(s) = i
      BY <1>1, <2>1
    <2>3. x = u[i + Len(s)]
      BY <1>1, <2>1, <2>2, Zenon
    <2> QED BY <1>2, <2>2, <2>3, Zenon
  <1> QED BY <1>1, <1>3, <1>4, <1>5, Zenon DEF u

(* The elements of the sequences of none and of one.                       *)
LEMMA SetOfShort ==
  /\ Range(<<>>) = {}
  /\ \A e : Range(<<e>>) = {e} /\ Len(<<e>>) = 1
  BY DEF Range

(* A reactor writes a set of replies with at most one member as a          *)
(* sequence with at most one element.                                      *)
LEMMA SeqOfAtMostOne ==
  ASSUME NEW S, NEW A \in SUBSET S, \A x, y \in A : x = y
  PROVE  /\ AsOutbox(A) \in Seq(S) /\ Len(AsOutbox(A)) <= 1
         /\ Len(AsOutbox(A)) \in Nat
         /\ Range(AsOutbox(A)) = A
  <1>1. CASE A = {}
    <2>1. <<>> \in Seq(S) /\ Len(<<>>) = 0 /\ 0 <= 1 /\ 0 \in Nat
      OBVIOUS
    <2> QED BY <1>1, <2>1, SetOfShort, Zenon DEF AsOutbox
  <1>2. CASE A # {}
    <2>1. PICK x \in S : A = {x} /\ AsOutbox(A) = <<x>>
      BY <1>2, Zenon DEF AsOutbox
    <2>2. <<x>> \in Seq(S) /\ Len(<<x>>) = 1 /\ 1 <= 1 /\ 1 \in Nat
      OBVIOUS
    <2> QED BY <2>1, <2>2, SetOfShort, Zenon
  <1> QED BY <1>1, <1>2, Zenon

-----------------------------------------------------------------------------
(* What the channels and the outboxes hold together.                       *)

(* An envelope is in flight when it is in a node's channel or in the hands *)
(* of a node's reactor.                                                    *)
LEMMA InFlightMember ==
  ASSUME NEW q, NEW o
  PROVE  \A e : e \in Flight(q, o) <=>
           \E n \in Nodes :
             \/ e \in Range(q[n]) /\ e.type \in {"DIGEST", "STATE"}
             \/ e \in Range(o[n])
  BY DEF Flight, Envelopes

(* There are no more envelopes in flight than places for them, so the      *)
(* bound on envelopes never stops a send of the protocol.                  *)
LEMMA FlightIsBounded ==
  ASSUME NEW q \in [Nodes -> Seq(Event)], NEW o \in [Nodes -> Seq(Messages)],
         \A n \in Nodes : Len(q[n]) <= MaxQueue,
         \A n \in Nodes : Len(o[n]) <= 2
  PROVE  Cardinality(Flight(q, o))
           <= 2 * MaxQueue * Cardinality(Nodes) + 2 * Cardinality(Nodes)
  <1> DEFINE Slots == Nodes \X (1 .. MaxQueue + 2)
             f == [s \in Slots |->
                     IF s[2] <= MaxQueue THEN q[s[1]][s[2]]
                     ELSE o[s[1]][s[2] - MaxQueue]]
             T == {f[s] : s \in Slots}
  <1>1. /\ IsFiniteSet(Slots)
        /\ Cardinality(Slots) = Cardinality(Nodes) * (MaxQueue + 2)
        /\ Cardinality(Nodes) \in Nat
    <2>1. IsFiniteSet(1 .. MaxQueue + 2)
            /\ Cardinality(1 .. MaxQueue + 2) = MaxQueue + 2
      BY QueueBounds, FS_Interval
    <2> QED BY <2>1, RuntimeAssumption, FS_Product, FS_CardinalityType, Zenon
  <1>2. f \in Surjection(Slots, T)
    BY Zenon DEF Surjection
  <1>3. IsFiniteSet(T) /\ Cardinality(T) <= Cardinality(Slots)
    <2> HIDE DEF Slots, f, T
    <2> QED BY <1>1, <1>2, FS_Surjection
  <1>4. ASSUME NEW n \in Nodes, NEW e \in Range(q[n]) PROVE e \in T
    <2>1. PICK i \in 1 .. Len(q[n]) : e = q[n][i]
      BY SetOfSeq
    <2>2. i \in 1 .. MaxQueue + 2 /\ i <= MaxQueue
      BY <2>1, QueueBounds
    <2>3. <<n, i>> \in Slots /\ f[<<n, i>>] = e
      BY <2>1, <2>2
    <2> QED BY <2>3, Zenon
  <1>5. ASSUME NEW n \in Nodes, NEW e \in Range(o[n]) PROVE e \in T
    <2>1. PICK i \in 1 .. Len(o[n]) : e = o[n][i]
      BY SetOfSeq
    <2>2. /\ MaxQueue + i \in 1 .. MaxQueue + 2
          /\ ~(MaxQueue + i <= MaxQueue)
          /\ (MaxQueue + i) - MaxQueue = i
      BY <2>1, QueueBounds
    <2>3. <<n, MaxQueue + i>> \in Slots /\ f[<<n, MaxQueue + i>>] = e
      BY <2>1, <2>2
    <2> QED BY <2>3, Zenon
  <1>6. Flight(q, o) \in SUBSET T
    BY <1>4, <1>5, InFlightMember, Zenon
  <1>7. /\ Cardinality(Flight(q, o)) <= Cardinality(T)
        /\ Cardinality(Flight(q, o)) \in Nat /\ Cardinality(T) \in Nat
        /\ Cardinality(Slots) \in Nat
    <2> HIDE DEF T, Slots
    <2> QED BY <1>1, <1>3, <1>6, FS_Subset, FS_CardinalityType, Zenon
  <1>8. /\ Cardinality(Nodes) * (MaxQueue + 2)
             <= 2 * MaxQueue * Cardinality(Nodes) + 2 * Cardinality(Nodes)
        /\ 2 * MaxQueue * Cardinality(Nodes) + 2 * Cardinality(Nodes) \in Nat
    <2> DEFINE c == Cardinality(Nodes)
    <2>1. c * MaxQueue \in Nat /\ c * (MaxQueue + 2) = c * MaxQueue + 2 * c
            /\ 2 * MaxQueue * c = c * MaxQueue + c * MaxQueue
      <3> HIDE DEF c
      <3> c \in Nat /\ MaxQueue \in Nat
        BY <1>1, RuntimeAssumption, Zenon DEF c
      <3> QED OBVIOUS
    <2> QED BY <2>1, <1>1
  <1> HIDE DEF T, Slots
  <1> QED BY <1>1, <1>3, <1>7, <1>8

(* The client writes that wait, as places in the channels.                 *)
LEMMA PutsMember ==
  ASSUME NEW q \in [Nodes -> Seq(Event)]
  PROVE  /\ Puts(q) \subseteq Nodes \X Nat
         /\ \A n \in Nodes, i \in Nat :
              <<n, i>> \in Puts(q) <=>
                i \in 1 .. Len(q[n]) /\ q[n][i].type = "PUT"
  BY DEF Puts

(* Channels are bounded, so that only finitely many writes wait.           *)
LEMMA PutsAreFinite ==
  ASSUME NEW q \in [Nodes -> Seq(Event)],
         \A n \in Nodes : Len(q[n]) <= MaxQueue
  PROVE  IsFiniteSet(Puts(q)) /\ Cardinality(Puts(q)) \in Nat
  <1>1. IsFiniteSet(Nodes \X (1 .. MaxQueue))
    <2>1. IsFiniteSet(1 .. MaxQueue)
      BY QueueBounds, FS_Interval
    <2> QED BY <2>1, RuntimeAssumption, FS_Product, Zenon
  <1>2. Puts(q) \in SUBSET (Nodes \X (1 .. MaxQueue))
    <2>1. ASSUME NEW x \in Puts(q) PROVE x \in Nodes \X (1 .. MaxQueue)
      <3>1. PICK n \in Nodes, i \in Nat : x = <<n, i>>
        BY PutsMember
      <3>2. i \in 1 .. Len(q[n])
        BY <3>1, PutsMember, Zenon
      <3>3. i \in 1 .. MaxQueue
        BY <3>2, QueueBounds
      <3> QED BY <3>1, <3>3
    <2> QED BY <2>1, Zenon
  <1> QED BY <1>1, <1>2, FS_Subset, FS_CardinalityType, Zenon

(* A new event of a channel is at most one more write that waits.          *)
LEMMA PutsAppend ==
  ASSUME NEW q \in [Nodes -> Seq(Event)], NEW n \in Nodes, NEW e \in Event,
         \A p \in Nodes : Len(q[p]) <= MaxQueue
  PROVE  LET r == [q EXCEPT ![n] = Append(@, e)]
         IN  /\ e.type # "PUT" => Puts(r) = Puts(q)
             /\ Cardinality(Puts(r)) <= Cardinality(Puts(q)) + 1
  <1> DEFINE r == [q EXCEPT ![n] = Append(@, e)]
             l == Len(q[n]) + 1
  <1>1. /\ r \in [Nodes -> Seq(Event)] /\ r[n] = Append(q[n], e)
        /\ \A p \in Nodes \ {n} : r[p] = q[p]
    OBVIOUS
  <1>2. /\ Len(r[n]) = l /\ l \in Nat /\ r[n][l] = e
        /\ \A i \in 1 .. l - 1 : r[n][i] = q[n][i]
    BY <1>1
  <1> HIDE DEF r
  <1>3. ASSUME NEW p \in Nodes, NEW i \in Nat
        PROVE  <<p, i>> \in Puts(r) <=>
                 \/ <<p, i>> \in Puts(q)
                 \/ p = n /\ i = l /\ e.type = "PUT"
    <2>1. <<p, i>> \in Puts(r) <=> i \in 1 .. Len(r[p]) /\ r[p][i].type = "PUT"
      BY <1>1, PutsMember, Zenon
    <2>2. <<p, i>> \in Puts(q) <=> i \in 1 .. Len(q[p]) /\ q[p][i].type = "PUT"
      BY PutsMember, Zenon
    <2>3. CASE p # n
      BY <1>1, <2>1, <2>2, <2>3, Zenon
    <2>4. CASE p = n
      <3>1. i \in 1 .. Len(r[n]) <=> i \in 1 .. Len(q[n]) \/ i = l
        BY <1>2
      <3>2. i \in 1 .. Len(q[n]) => r[n][i] = q[n][i] /\ i # l
        BY <1>2
      <3> QED BY <1>2, <2>1, <2>2, <2>4, <3>1, <3>2, Zenon
    <2> QED BY <2>3, <2>4, Zenon
  <1>4. Puts(r) \subseteq Nodes \X Nat /\ Puts(q) \subseteq Nodes \X Nat
    BY <1>1, PutsMember, Zenon
  <1>5. e.type # "PUT" => Puts(r) = Puts(q)
    <2>1. ASSUME e.type # "PUT", NEW x \in Nodes \X Nat
          PROVE  x \in Puts(r) <=> x \in Puts(q)
      <3>1. PICK p \in Nodes, i \in Nat : x = <<p, i>>
        OBVIOUS
      <3> QED BY <1>3, <2>1, <3>1, Zenon
    <2> QED BY <1>4, <2>1, Zenon
  <1>6. Puts(r) \in SUBSET (Puts(q) \cup {<<n, l>>})
    BY <1>3, <1>4
  <1>7. /\ IsFiniteSet(Puts(q) \cup {<<n, l>>}) /\ Cardinality(Puts(q)) \in Nat
        /\ Cardinality(Puts(q) \cup {<<n, l>>}) =
             IF <<n, l>> \in Puts(q) THEN Cardinality(Puts(q))
             ELSE Cardinality(Puts(q)) + 1
    BY PutsAreFinite, FS_AddElement, Zenon
  <1>8. /\ Cardinality(Puts(r)) <= Cardinality(Puts(q) \cup {<<n, l>>})
        /\ Cardinality(Puts(r)) \in Nat
    BY <1>6, <1>7, FS_Subset, FS_CardinalityType, Zenon
  <1>9. Cardinality(Puts(r)) <= Cardinality(Puts(q)) + 1
    BY <1>7, <1>8
  <1> QED BY <1>5, <1>9, Zenon DEF r

(* The event that a reactor takes is no longer waiting, and the others     *)
(* move up.                                                                *)
LEMMA PutsTail ==
  ASSUME NEW q \in [Nodes -> Seq(Event)], NEW n \in Nodes, q[n] # <<>>,
         \A p \in Nodes : Len(q[p]) <= MaxQueue
  PROVE  LET r == [q EXCEPT ![n] = Tail(@)]
         IN  /\ Cardinality(Puts(r)) <= Cardinality(Puts(q))
             /\ Head(q[n]).type = "PUT"
                  => Cardinality(Puts(r)) + 1 <= Cardinality(Puts(q))
             /\ Cardinality(Puts(r)) \in Nat
  <1> DEFINE r == [q EXCEPT ![n] = Tail(@)]
             f == [x \in Puts(r) |-> IF x[1] = n THEN <<n, x[2] + 1>> ELSE x]
             T == Puts(q) \ {<<n, 1>>}
  <1>1. /\ r \in [Nodes -> Seq(Event)] /\ r[n] = Tail(q[n])
        /\ \A p \in Nodes \ {n} : r[p] = q[p]
    OBVIOUS
  <1>2. /\ Len(q[n]) \in Nat \ {0} /\ Len(r[n]) = Len(q[n]) - 1
        /\ Head(q[n]) = q[n][1]
        /\ \A i \in 1 .. Len(q[n]) - 1 : r[n][i] = q[n][i + 1]
    BY <1>1
  <1>3. Puts(r) \subseteq Nodes \X Nat
    <2> HIDE DEF r
    <2> QED BY <1>1, PutsMember, Zenon
  <1>4. ASSUME NEW p \in Nodes, NEW i \in Nat, <<p, i>> \in Puts(r)
        PROVE  (IF p = n THEN <<n, i + 1>> ELSE <<p, i>>) \in T
    <2> HIDE DEF r
    <2>1. i \in 1 .. Len(r[p]) /\ r[p][i].type = "PUT"
      BY <1>1, <1>4, PutsMember, Zenon
    <2>2. CASE p = n
      <3>1. i + 1 \in 1 .. Len(q[n]) /\ q[n][i + 1].type = "PUT"
              /\ i + 1 \in Nat /\ i + 1 # 1
        BY <1>2, <2>1, <2>2
      <3>2. <<n, i + 1>> \in Puts(q)
        BY <3>1, PutsMember, Zenon
      <3>3. <<n, i + 1>> # <<n, 1>>
        BY <3>1
      <3> QED BY <2>2, <3>2, <3>3, Zenon
    <2>3. CASE p # n
      <3>1. <<p, i>> \in Puts(q)
        BY <1>1, <2>1, <2>3, PutsMember, Zenon
      <3>2. <<p, i>> # <<n, 1>>
        BY <2>3
      <3> QED BY <2>3, <3>1, <3>2, Zenon
    <2> QED BY <2>2, <2>3, Zenon
  <1>5. f \in Injection(Puts(r), T)
    <2> HIDE DEF r, T
    <2>1. ASSUME NEW x \in Puts(r) PROVE f[x] \in T
      <3>1. PICK p \in Nodes, i \in Nat : x = <<p, i>>
        BY <1>3
      <3> QED BY <1>4, <3>1
    <2>2. ASSUME NEW x \in Puts(r), NEW y \in Puts(r), f[x] = f[y]
          PROVE  x = y
      <3>1. PICK p \in Nodes, i \in Nat : x = <<p, i>>
        BY <1>3
      <3>2. PICK s \in Nodes, j \in Nat : y = <<s, j>>
        BY <1>3
      <3> QED BY <2>2, <3>1, <3>2
    <2> QED BY <2>1, <2>2, Zenon DEF Injection, IsInjective
  <1>6. /\ IsFiniteSet(Puts(q)) /\ Cardinality(Puts(q)) \in Nat
        /\ IsFiniteSet(T)
        /\ Cardinality(T) = IF <<n, 1>> \in Puts(q)
                            THEN Cardinality(Puts(q)) - 1
                            ELSE Cardinality(Puts(q))
    BY PutsAreFinite, FS_RemoveElement, Zenon
  <1>7. Head(q[n]).type = "PUT" => <<n, 1>> \in Puts(q)
    <2>1. 1 \in 1 .. Len(q[n]) /\ 1 \in Nat
      BY <1>2
    <2> QED BY <1>2, <2>1, PutsMember, Zenon
  <1>8. /\ Cardinality(Puts(r)) <= Cardinality(T)
        /\ Cardinality(Puts(r)) \in Nat /\ Cardinality(T) \in Nat
    <2> HIDE DEF r, f, T
    <2> QED BY <1>5, <1>6, FS_Injection, FS_CardinalityType, Zenon
  <1> HIDE DEF T, r
  <1>9. /\ Cardinality(Puts(r)) <= Cardinality(Puts(q))
        /\ Head(q[n]).type = "PUT"
             => Cardinality(Puts(r)) + 1 <= Cardinality(Puts(q))
    BY <1>6, <1>7, <1>8
  <1> QED BY <1>8, <1>9, Zenon DEF r

(* Of what a channel takes in, only an envelope that no one else holds     *)
(* would be new in flight.                                                 *)
LEMMA FlightAppend ==
  ASSUME NEW q \in [Nodes -> Seq(Event)], NEW o, NEW n \in Nodes,
         NEW e \in Event,
         e.type \in {"DIGEST", "STATE"} => e \in Flight(q, o)
  PROVE  Flight([q EXCEPT ![n] = Append(@, e)], o) = Flight(q, o)
  <1> DEFINE r == [q EXCEPT ![n] = Append(@, e)]
  <1>1. /\ Range(r[n]) = Range(q[n]) \cup {e}
        /\ \A p \in Nodes \ {n} : r[p] = q[p]
    BY SetOfAppend
  <1> HIDE DEF r
  <1>2. ASSUME NEW x \in Flight(r, o) PROVE x \in Flight(q, o)
    <2>1. PICK p \in Nodes : \/ x \in Range(r[p]) /\ x.type \in {"DIGEST", "STATE"}
                             \/ x \in Range(o[p])
      BY InFlightMember, Zenon
    <2>2. \/ x \in Range(q[p]) /\ x.type \in {"DIGEST", "STATE"}
          \/ x = e /\ x.type \in {"DIGEST", "STATE"}
          \/ x \in Range(o[p])
      BY <1>1, <2>1, Zenon
    <2> QED BY <2>2, InFlightMember, Zenon
  <1>3. ASSUME NEW x \in Flight(q, o) PROVE x \in Flight(r, o)
    <2>1. PICK p \in Nodes : \/ x \in Range(q[p]) /\ x.type \in {"DIGEST", "STATE"}
                             \/ x \in Range(o[p])
      BY InFlightMember, Zenon
    <2>2. \/ x \in Range(r[p]) /\ x.type \in {"DIGEST", "STATE"}
          \/ x \in Range(o[p])
      BY <1>1, <2>1, Zenon
    <2> QED BY <2>2, InFlightMember, Zenon
  <1> QED BY <1>2, <1>3, Zenon DEF r

(* The event a reactor takes leaves its channel; if it is an envelope, the *)
(* sender or a repeated delivery may still hold a copy.                    *)
LEMMA FlightTail ==
  ASSUME NEW q \in [Nodes -> Seq(Event)], NEW o, NEW n \in Nodes,
         q[n] # <<>>
  PROVE  LET rest == Flight([q EXCEPT ![n] = Tail(@)], o)
         IN  /\ rest \in {Flight(q, o), Flight(q, o) \ {Head(q[n])}}
             /\ Head(q[n]).type \notin {"DIGEST", "STATE"} => rest = Flight(q, o)
  <1> DEFINE r == [q EXCEPT ![n] = Tail(@)]
             h == Head(q[n])
  <1>1. /\ Range(q[n]) = {h} \cup Range(r[n])
        /\ \A p \in Nodes \ {n} : r[p] = q[p]
    BY SetOfTail
  <1> HIDE DEF r, h
  <1>2. ASSUME NEW x \in Flight(r, o) PROVE x \in Flight(q, o)
    <2>1. PICK p \in Nodes : \/ x \in Range(r[p]) /\ x.type \in {"DIGEST", "STATE"}
                             \/ x \in Range(o[p])
      BY InFlightMember, Zenon
    <2>2. \/ x \in Range(q[p]) /\ x.type \in {"DIGEST", "STATE"}
          \/ x \in Range(o[p])
      BY <1>1, <2>1, Zenon
    <2> QED BY <2>2, InFlightMember, Zenon
  <1>3. ASSUME NEW x \in Flight(q, o),
               x # h \/ h.type \notin {"DIGEST", "STATE"}
        PROVE  x \in Flight(r, o)
    <2>1. PICK p \in Nodes : \/ x \in Range(q[p]) /\ x.type \in {"DIGEST", "STATE"}
                             \/ x \in Range(o[p])
      BY InFlightMember, Zenon
    <2>2. \/ x \in Range(r[p]) /\ x.type \in {"DIGEST", "STATE"}
          \/ x \in Range(o[p])
      BY <1>1, <1>3, <2>1, Zenon
    <2> QED BY <2>2, InFlightMember, Zenon
  <1>4. Flight(r, o) \in {Flight(q, o), Flight(q, o) \ {h}}
    <2>1. CASE h \in Flight(r, o)
      BY <1>2, <1>3, <2>1, Zenon
    <2>2. CASE h \notin Flight(r, o)
      BY <1>2, <1>3, <2>2, Zenon
    <2> QED BY <2>1, <2>2, Zenon
  <1>5. h.type \notin {"DIGEST", "STATE"} => Flight(r, o) = Flight(q, o)
    BY <1>2, <1>3, Zenon
  <1> QED BY <1>4, <1>5, Zenon DEF r, h

(* What the reactor of a node with an empty outbox sends is in flight.     *)
LEMMA FlightSend ==
  ASSUME NEW q, NEW o, NEW u, NEW n \in Nodes,
         o[n] = <<>>, \A p \in Nodes \ {n} : u[p] = o[p]
  PROVE  Flight(q, u) = Flight(q, o) \cup Range(u[n])
  <1> DEFINE s == u[n]
  <1>1. u[n] = s /\ Range(o[n]) = {} /\ \A p \in Nodes \ {n} : u[p] = o[p]
    BY SetOfShort, Zenon
  <1>2. ASSUME NEW x \in Flight(q, u) PROVE x \in Flight(q, o) \cup Range(s)
    <2>1. PICK p \in Nodes : \/ x \in Range(q[p]) /\ x.type \in {"DIGEST", "STATE"}
                             \/ x \in Range(u[p])
      BY InFlightMember, Zenon
    <2>2. \/ x \in Range(q[p]) /\ x.type \in {"DIGEST", "STATE"}
          \/ x \in Range(o[p])
          \/ x \in Range(s)
      BY <1>1, <2>1, Zenon
    <2> QED BY <2>2, InFlightMember, Zenon
  <1>3. ASSUME NEW x \in Flight(q, o) PROVE x \in Flight(q, u)
    <2>1. PICK p \in Nodes : \/ x \in Range(q[p]) /\ x.type \in {"DIGEST", "STATE"}
                             \/ x \in Range(o[p])
      BY InFlightMember, Zenon
    <2>2. \/ x \in Range(q[p]) /\ x.type \in {"DIGEST", "STATE"}
          \/ x \in Range(u[p])
      BY <1>1, <2>1, Zenon
    <2> QED BY <2>2, InFlightMember, Zenon
  <1>4. Range(s) \subseteq Flight(q, u)
    BY <1>1, InFlightMember, Zenon
  <1> QED BY <1>2, <1>3, <1>4, Zenon

(* A finished send takes the envelope from the outbox; it may have been    *)
(* delivered before.                                                       *)
LEMMA FlightDone ==
  ASSUME NEW q, NEW o \in [Nodes -> Seq(Messages)], NEW n \in Nodes,
         o[n] # <<>>
  PROVE  Flight(q, [o EXCEPT ![n] = Tail(@)])
           \in {Flight(q, o), Flight(q, o) \ {Head(o[n])}}
  <1> DEFINE u == [o EXCEPT ![n] = Tail(@)]
             h == Head(o[n])
  <1>1. /\ Range(o[n]) = {h} \cup Range(u[n])
        /\ \A p \in Nodes \ {n} : u[p] = o[p]
    BY SetOfTail
  <1> HIDE DEF u, h
  <1>2. ASSUME NEW x \in Flight(q, u) PROVE x \in Flight(q, o)
    <2>1. PICK p \in Nodes : \/ x \in Range(q[p]) /\ x.type \in {"DIGEST", "STATE"}
                             \/ x \in Range(u[p])
      BY InFlightMember, Zenon
    <2>2. \/ x \in Range(q[p]) /\ x.type \in {"DIGEST", "STATE"}
          \/ x \in Range(o[p])
      BY <1>1, <2>1, Zenon
    <2> QED BY <2>2, InFlightMember, Zenon
  <1>3. ASSUME NEW x \in Flight(q, o), x # h PROVE x \in Flight(q, u)
    <2>1. PICK p \in Nodes : \/ x \in Range(q[p]) /\ x.type \in {"DIGEST", "STATE"}
                             \/ x \in Range(o[p])
      BY InFlightMember, Zenon
    <2>2. \/ x \in Range(q[p]) /\ x.type \in {"DIGEST", "STATE"}
          \/ x \in Range(u[p])
      BY <1>1, <1>3, <2>1, Zenon
    <2> QED BY <2>2, InFlightMember, Zenon
  <1>4. CASE h \in Flight(q, u)
    BY <1>2, <1>3, <1>4, Zenon DEF u, h
  <1>5. CASE h \notin Flight(q, u)
    BY <1>2, <1>3, <1>5, Zenon DEF u, h
  <1> QED BY <1>4, <1>5, Zenon

-----------------------------------------------------------------------------
(* The steps of the channels and of the outboxes.                          *)

(* The abstract network is the one of the current channels and outboxes.   *)
LEMMA FlightOfState ==
  /\ InFlight = Flight(queue, outbox)
  /\ InFlight' = Flight(queue', outbox')
  BY Zenon DEF InFlight, Flight

(* What a reactor puts into its empty outbox is added to the network       *)
(* (reactor.go:24-34).                                                     *)
LEMMA FlightSent ==
  ASSUME NEW n \in Nodes, outbox[n] = <<>>,
         \A p \in Nodes \ {n} : outbox'[p] = outbox[p]
  PROVE  InFlight' = Flight(queue', outbox) \cup Range(outbox'[n])
  <1>1. Flight(queue', outbox')
          = Flight(queue', outbox) \cup Range(outbox'[n])
    BY FlightSend, SMT
  <1> QED BY <1>1, FlightOfState, Zenon

(* The number of writes is a number.                                       *)
LEMMA CountOfWrites == Proto!TypeOK => Len(writes) \in Nat
  BY DEF Proto!TypeOK

(* Gossip's cardinality is the one used here.                              *)
LEMMA SameCardinality == \A S : Proto!Cardinality(S) = Cardinality(S)
  BY Zenon DEF Proto!Cardinality, Cardinality

(* Channels and outboxes are bounded, so that the abstract network stays   *)
(* within the bound that the mapping gives it.                             *)
LEMMA FlightFits ==
  ASSUME Channels', Sends'
  PROVE  Cardinality(InFlight')
           <= 2 * MaxQueue * Cardinality(Nodes) + 2 * Cardinality(Nodes)
  BY FlightIsBounded, FlightOfState, Zenon DEF Channels, Sends

(* Putting an event into a channel keeps the channels in order             *)
(* (reactor.go:98-110).                                                    *)
LEMMA Enqueued ==
  ASSUME Proto!TypeOK, Channels, NEW n \in Nodes, NEW e \in Event,
         Expected(n, e), Enqueue(n, e), UNCHANGED writes,
         e.type = "PUT" => Len(writes) + Cardinality(Puts(queue)) < MaxWrites
  PROVE  Channels'
  <1>1. /\ queue' = [queue EXCEPT ![n] = Append(@, e)]
        /\ Len(queue[n]) < MaxQueue
        /\ queue \in [Nodes -> Seq(Event)]
        /\ \A p \in Nodes : Len(queue[p]) <= MaxQueue
        /\ \A p \in Nodes : \A x \in Range(queue[p]) : Expected(p, x)
    BY Zenon DEF Enqueue, Channels
  <1>2. /\ queue' \in [Nodes -> Seq(Event)]
        /\ queue'[n] = Append(queue[n], e)
        /\ \A p \in Nodes \ {n} : queue'[p] = queue[p]
    BY <1>1
  <1>3. Len(queue'[n]) <= MaxQueue
    BY <1>1, <1>2, QueueBounds
  <1>4. \A p \in Nodes : Len(queue'[p]) <= MaxQueue
    BY <1>1, <1>2, <1>3, Zenon
  <1>5. Range(queue'[n]) = Range(queue[n]) \cup {e}
    BY <1>1, <1>2, SetOfAppend
  <1>6. \A p \in Nodes : \A x \in Range(queue'[p]) : Expected(p, x)
    BY <1>1, <1>2, <1>5, Zenon
  <1>7. /\ e.type # "PUT" => Puts(queue') = Puts(queue)
        /\ Cardinality(Puts(queue')) <= Cardinality(Puts(queue)) + 1
    BY <1>1, PutsAppend, Zenon
  <1>8. Cardinality(Puts(queue')) \in Nat /\ Cardinality(Puts(queue)) \in Nat
    BY <1>1, <1>2, <1>4, PutsAreFinite, Zenon
  <1>9. Len(writes') + Cardinality(Puts(queue')) <= MaxWrites
    <2>1. Len(writes) + Cardinality(Puts(queue)) <= MaxWrites
      BY Zenon DEF Channels
    <2> QED BY <1>7, <1>8, <2>1, CountOfWrites, QueueBounds
  <1> QED BY <1>2, <1>4, <1>6, <1>9, Zenon DEF Channels, Expected

(* Taking the next event from a channel keeps the channels in order, and   *)
(* the event is one for this node (reactor.go:20-22).                      *)
LEMMA Taken ==
  ASSUME Proto!TypeOK, Channels, NEW n \in Nodes, NEW type, Take(n, type),
         Len(writes') = IF type = "PUT" THEN Len(writes) + 1 ELSE Len(writes)
  PROVE  /\ Head(queue[n]) \in Event /\ Head(queue[n]).type = type
         /\ Expected(n, Head(queue[n]))
         /\ Channels'
  <1>1. /\ queue' = [queue EXCEPT ![n] = Tail(@)]
        /\ queue[n] # <<>> /\ Head(queue[n]).type = type
        /\ queue \in [Nodes -> Seq(Event)]
        /\ \A p \in Nodes : Len(queue[p]) <= MaxQueue
        /\ \A p \in Nodes : \A x \in Range(queue[p]) : Expected(p, x)
    BY Zenon DEF Take, Channels
  <1>2. /\ queue' \in [Nodes -> Seq(Event)]
        /\ queue'[n] = Tail(queue[n])
        /\ \A p \in Nodes \ {n} : queue'[p] = queue[p]
    BY <1>1
  <1>3. /\ Head(queue[n]) \in Event /\ Head(queue[n]) \in Range(queue[n])
        /\ Len(queue'[n]) = Len(queue[n]) - 1
        /\ Range(queue'[n]) \subseteq Range(queue[n])
    <2>1. queue[n] \in Seq(Event)
      BY <1>1, Zenon
    <2>2. /\ Head(queue[n]) \in Event /\ Head(queue[n]) \in Range(queue[n])
          /\ Len(Tail(queue[n])) = Len(queue[n]) - 1
          /\ Range(queue[n]) = {Head(queue[n])} \cup Range(Tail(queue[n]))
      BY <1>1, <2>1, SetOfTail, ZenonT(60)
    <2> QED BY <1>2, <2>2, Zenon
  <1>4. Len(queue'[n]) <= MaxQueue
    <2>1. Len(queue[n]) \in Nat
      BY <1>1
    <2> QED BY <1>1, <1>3, <2>1, QueueBounds
  <1>5. \A p \in Nodes : Len(queue'[p]) <= MaxQueue
    BY <1>1, <1>2, <1>4, Zenon
  <1>6. \A p \in Nodes : \A x \in Range(queue'[p]) : Expected(p, x)
    BY <1>1, <1>2, <1>3, Zenon
  <1>7. /\ Cardinality(Puts(queue')) <= Cardinality(Puts(queue))
        /\ type = "PUT"
             => Cardinality(Puts(queue')) + 1 <= Cardinality(Puts(queue))
        /\ Cardinality(Puts(queue')) \in Nat
    BY <1>1, PutsTail, Zenon
  <1>8. Cardinality(Puts(queue)) \in Nat
    BY <1>1, PutsAreFinite, Zenon
  <1>9. Len(writes') + Cardinality(Puts(queue')) <= MaxWrites
    <2>1. Len(writes) + Cardinality(Puts(queue)) <= MaxWrites
      BY Zenon DEF Channels
    <2> QED BY <1>7, <1>8, <2>1, CountOfWrites, QueueBounds
  <1> QED BY <1>1, <1>2, <1>3, <1>5, <1>6, <1>9, Zenon DEF Channels, Expected

(* A send that ends removes one envelope and keeps the outboxes in order   *)
(* (reactor.go:63-93).                                                     *)
LEMMA Finished ==
  ASSUME Sends, NEW n \in Nodes, outbox[n] # <<>>, Done(n)
  PROVE  Sends'
  <1>1. /\ outbox' = [outbox EXCEPT ![n] = Tail(@)]
        /\ sending' = [sending EXCEPT ![n] = "no"]
        /\ outbox \in [Nodes -> Seq(Messages)]
        /\ \A p \in Nodes : Len(outbox[p]) <= 2
        /\ sending \in [Nodes -> {"no", "call", "ack"}]
        /\ \A p \in Nodes : sending[p] # "no" => outbox[p] # <<>>
    BY Zenon DEF Done, Sends
  <1>2. Tail(outbox[n]) \in Seq(Messages) /\ Len(Tail(outbox[n])) <= 2
    <2>1. outbox[n] \in Seq(Messages) /\ Len(outbox[n]) <= 2
      BY <1>1, Zenon
    <2> QED BY <2>1
  <1> QED BY <1>1, <1>2, Zenon DEF Sends

(* A reactor that handles an event fills its outbox with at most two       *)
(* envelopes (reactor.go:24-34).                                           *)
LEMMA Sent ==
  ASSUME Sends, NEW n \in Nodes, outbox[n] = <<>>, NEW s \in Seq(Messages),
         Len(s) <= 2, outbox' = [outbox EXCEPT ![n] = s], UNCHANGED sending
  PROVE  Sends'
  BY Zenon DEF Sends

-----------------------------------------------------------------------------
(* The envelopes the protocol sends.                                       *)

(* A digest is an envelope.                                                *)
LEMMA DigestIsMessage ==
  ASSUME Proto!TypeOK, NEW n \in Nodes, NEW p \in Nodes
  PROVE  Proto!Digest(n, p) \in Proto!DigestMsg
  <1>1. ASSUME NEW v \in Proto!Value
        PROVE  Proto!valueToDigestEntry(v) \in Proto!DigestEntry
    BY DEF Proto!Value, Proto!valueToDigestEntry, Proto!DigestEntry
  <1>2. \A k \in Keys : store[n][k] \in Proto!Value
    BY Zenon DEF Proto!TypeOK
  <1>3. [k \in Keys |-> Proto!valueToDigestEntry(store[n][k])]
          \in [Keys -> Proto!DigestEntry]
    BY <1>1, <1>2, Zenon
  <1> QED BY <1>3 DEF Proto!Digest, Proto!DigestMsg

(* A digest is answered by at most one request for a reverse sync          *)
(* (propagation.go:153-181).                                               *)
LEMMA SyncRequestIsShort ==
  ASSUME Proto!TypeOK, NEW n \in Nodes, NEW p \in Nodes, NEW d
  PROVE  /\ Proto!SyncRequest(n, p, d) \in SUBSET Messages
         /\ \A x, y \in Proto!SyncRequest(n, p, d) : x = y
  BY DigestIsMessage, Zenon DEF Proto!SyncRequest, Messages

(* A digest is answered by at most one state (propagation.go:117-151).     *)
LEMMA StateReplyIsShort ==
  ASSUME Proto!TypeOK, NEW n \in Nodes, NEW p \in Nodes, NEW d
  PROVE  /\ Proto!StateReply(n, p, d) \in SUBSET Messages
         /\ \A x, y \in Proto!StateReply(n, p, d) : x = y
  <1>1. Proto!NoValue \in Proto!Value
    BY DEF Proto!NoValue, Proto!Value, Proto!ZeroClock, Proto!VectorClock
  <1>2. Proto!Newer(n, d) \in [Keys -> Proto!Value]
    <2>1. ASSUME NEW k \in Keys PROVE store[n][k] \in Proto!Value
      BY Zenon DEF Proto!TypeOK
    <2> QED BY <1>1, <2>1, Zenon DEF Proto!Newer
  <1>3. [type |-> "STATE", from |-> n, to |-> p, state |-> Proto!Newer(n, d)]
          \in Proto!StateMsg
    BY <1>2 DEF Proto!StateMsg
  <1>4. ASSUME NEW x \in Proto!StateReply(n, p, d)
        PROVE  x = [type |-> "STATE", from |-> n, to |-> p,
                    state |-> Proto!Newer(n, d)]
    BY Zenon DEF Proto!StateReply
  <1> QED BY <1>3, <1>4, Zenon DEF Messages

(* What the reactor writes into its outbox after a digest are the          *)
(* protocol's replies.                                                     *)
LEMMA RepliesAreWritten ==
  ASSUME Proto!TypeOK, NEW n \in Nodes, NEW p \in Nodes, NEW d
  PROVE  LET s == AsOutbox(Proto!StateReply(n, p, d))
                    \o AsOutbox(Proto!SyncRequest(n, p, d))
         IN  /\ s \in Seq(Messages) /\ Len(s) <= 2
             /\ Range(s) = Proto!DigestReplies(n, p, d)
  <1> DEFINE a == AsOutbox(Proto!StateReply(n, p, d))
             b == AsOutbox(Proto!SyncRequest(n, p, d))
  <1>1. /\ a \in Seq(Messages) /\ Len(a) <= 1 /\ Len(a) \in Nat
        /\ Range(a) = Proto!StateReply(n, p, d)
    BY StateReplyIsShort, SeqOfAtMostOne, Zenon
  <1>2. /\ b \in Seq(Messages) /\ Len(b) <= 1 /\ Len(b) \in Nat
        /\ Range(b) = Proto!SyncRequest(n, p, d)
    BY SyncRequestIsShort, SeqOfAtMostOne, Zenon
  <1> HIDE DEF a, b
  <1>3. /\ a \o b \in Seq(Messages) /\ Len(a \o b) = Len(a) + Len(b)
        /\ Range(a \o b) = Range(a) \cup Range(b)
    <2>1. a \in Seq(Messages) /\ b \in Seq(Messages)
      BY <1>1, <1>2, Zenon
    <2> QED BY <2>1, SetOfConcat
  <1>4. Len(a \o b) <= 2
    BY <1>1, <1>2, <1>3
  <1> QED BY <1>1, <1>2, <1>3, <1>4, Zenon DEF Proto!DigestReplies, a, b

(* An event's type says what it is.                                        *)
LEMMA EventByType ==
  ASSUME NEW e \in Event
  PROVE  /\ e.type = "DIGEST" => e \in Proto!DigestMsg
         /\ e.type = "STATE" => e \in Proto!StateMsg
         /\ e.type \in {"DIGEST", "STATE"} => e.from \in Nodes /\ e.to \in Nodes
         /\ e.type = "PUT" => e.key \in Keys
  BY DEF Event, Proto!DigestMsg, Proto!StateMsg

(* Envelopes are events of a channel.                                      *)
LEMMA MessageIsEvent ==
  ASSUME NEW e \in Messages
  PROVE  /\ e \in Event /\ e.type \in {"DIGEST", "STATE"}
         /\ e.from \in Nodes /\ e.to \in Nodes
  BY DEF Messages, Event, Proto!DigestMsg, Proto!StateMsg

(* So are ticks, swaps and client writes.                                  *)
LEMMA CommandsAreEvents ==
  /\ [type |-> "TICK"] \in Event
  /\ [type |-> "SWAP"] \in Event
  /\ \A k \in Keys : [type |-> "PUT", key |-> k] \in Event
  BY DEF Event

-----------------------------------------------------------------------------
(* Steps of the tick driver, the handlers and the operator: they fill a    *)
(* channel or set the fault engine, which the protocol does not see.       *)

Kept == Channels' /\ Sends' /\ Engines'

Hidden == UNCHANGED Proto!vars

(* An event that waits in a channel is no step of the protocol, if the     *)
(* network had it already.                                                 *)
LEMMA HiddenEnqueue ==
  ASSUME RuntimeInv, NEW n \in Nodes, NEW e \in Event, Enqueue(n, e),
         e.type \in {"DIGEST", "STATE"} => e \in InFlight,
         UNCHANGED <<protocol, outbox>>
  PROVE  Hidden
  <1>1. /\ queue' = [queue EXCEPT ![n] = Append(@, e)]
        /\ queue \in [Nodes -> Seq(Event)]
    BY Zenon DEF Enqueue, RuntimeInv, Channels
  <1>2. InFlight' = InFlight
    BY <1>1, FlightAppend, FlightOfState, ZenonT(60)
  <1> QED BY <1>2, Zenon DEF Hidden, Proto!vars, protocol

(* The driver's question to the fault engine (protocol_driver.go:41-73) is *)
(* invisible to the protocol.                                              *)
LEMMA StepDriverGate ==
  ASSUME RuntimeInv, NEW n \in Nodes, DriverGate(n)
  PROVE  Kept /\ Hidden
  <1>1. /\ driver' = [driver EXCEPT ![n] = TRUE]
        /\ UNCHANGED <<protocol, queue, outbox, sending, engine, commands>>
    BY Zenon DEF DriverGate
  <1>2. Engines'
    BY <1>1, Zenon DEF RuntimeInv, Engines, engine
  <1>3. Channels' /\ Sends'
    BY <1>1, Zenon DEF RuntimeInv, Channels, Sends, protocol, Expected
  <1>4. Hidden
    BY <1>1, FlightOfState, Zenon DEF Hidden, Proto!vars, protocol
  <1> QED BY <1>2, <1>3, <1>4, Zenon DEF Kept

(* A tick that the driver puts into the channel is invisible too.          *)
LEMMA StepDriverTick ==
  ASSUME RuntimeInv, NEW n \in Nodes, DriverTick(n)
  PROVE  Kept /\ Hidden
  <1> DEFINE e == [type |-> "TICK"]
  <1>1. /\ Enqueue(n, e)
        /\ driver' = [driver EXCEPT ![n] = FALSE]
        /\ UNCHANGED <<protocol, outbox, sending, engine, commands>>
    BY Zenon DEF DriverTick
  <1>2. e.type = "TICK" /\ e \in Event
    BY CommandsAreEvents
  <1> HIDE DEF e
  <1>3. Engines' /\ Sends'
    BY <1>1, Zenon DEF RuntimeInv, Engines, engine, Sends
  <1>4. Channels'
    BY <1>1, <1>2, Enqueued, Zenon DEF RuntimeInv, protocol, Expected
  <1>5. Hidden
    BY <1>1, <1>2, HiddenEnqueue, Zenon
  <1> QED BY <1>3, <1>4, <1>5, Zenon DEF Kept

(* A client's write that waits for the reactor (action.go:82-109) is       *)
(* invisible to the protocol.                                              *)
LEMMA StepExecuteAction ==
  ASSUME RuntimeInv, NEW n \in Nodes, NEW k \in Keys, ExecuteAction(n, k)
  PROVE  Kept /\ Hidden
  <1> DEFINE e == [type |-> "PUT", key |-> k]
  <1>1. /\ Enqueue(n, e)
        /\ Len(writes) + Cardinality(Puts(queue)) < MaxWrites
        /\ UNCHANGED <<protocol, outbox, sending, driver, engine, commands>>
    BY Zenon DEF ExecuteAction, Pending, Puts
  <1>2. e.type = "PUT" /\ e \in Event
    BY CommandsAreEvents
  <1> HIDE DEF e
  <1>3. Engines' /\ Sends'
    BY <1>1, Zenon DEF RuntimeInv, Engines, engine, Sends
  <1>4. Channels'
    BY <1>1, <1>2, Enqueued, Zenon DEF RuntimeInv, protocol, Expected
  <1>5. Hidden
    BY <1>1, <1>2, HiddenEnqueue, Zenon
  <1> QED BY <1>3, <1>4, <1>5, Zenon DEF Kept

(* Commands stay within their bound.                                       *)
LEMMA CommandCounts ==
  ASSUME RuntimeInv, Command PROVE commands' \in 0 .. MaxCommands
  BY RuntimeAssumption DEF RuntimeInv, Engines, Command

(* A swap that waits for the reactor (server.go:160-201) is invisible to   *)
(* the protocol.                                                           *)
LEMMA StepChangeProtocol ==
  ASSUME RuntimeInv, NEW n \in Nodes, ChangeProtocol(n)
  PROVE  Kept /\ Hidden
  <1> DEFINE e == [type |-> "SWAP"]
  <1>1. /\ Enqueue(n, e) /\ Swaps /\ Command
        /\ UNCHANGED <<protocol, outbox, sending, driver, engine>>
    BY Zenon DEF ChangeProtocol
  <1>2. e.type = "SWAP" /\ e \in Event
    BY CommandsAreEvents
  <1> HIDE DEF e
  <1>3. Engines' /\ Sends'
    BY <1>1, CommandCounts, Zenon DEF RuntimeInv, Engines, engine, Sends
  <1>4. Channels'
    BY <1>1, <1>2, Enqueued, Zenon DEF RuntimeInv, protocol, Expected
  <1>5. Hidden
    BY <1>1, <1>2, HiddenEnqueue, Zenon
  <1> QED BY <1>3, <1>4, <1>5, Zenon DEF Kept

(* A change of the fault engine (rpc.go:39-103) is invisible to the        *)
(* protocol.                                                               *)
LEMMA StepSetFaultParams ==
  ASSUME RuntimeInv, NEW n \in Nodes, NEW params \in Requests,
         SetFaultParams(n, params)
  PROVE  Kept /\ Hidden
  <1> DEFINE desired == params.partition \ {n}
  <1>1. /\ Command
        /\ crashed' = [crashed EXCEPT ![n] = params.crashed]
        /\ lossy' = [lossy EXCEPT ![n] = params.drop]
        /\ cut' = [cut EXCEPT ![n] = (cut[n] \ config[n]) \cup desired]
        /\ asked' = [asked EXCEPT ![n] = desired]
        /\ UNCHANGED <<protocol, queue, outbox, sending, driver>>
    BY Zenon DEF SetFaultParams, NewPartition
  <1>2. /\ params.crashed \in BOOLEAN /\ params.drop \in BOOLEAN
        /\ desired \subseteq Nodes
    BY RuntimeAssumption
  <1> HIDE DEF desired
  <1>3. cut[n] \subseteq Nodes
    BY Zenon DEF RuntimeInv, Engines
  <1>4. Engines'
    BY <1>1, <1>2, <1>3, CommandCounts, Zenon DEF RuntimeInv, Engines
  <1>5. Channels' /\ Sends'
    BY <1>1, Zenon DEF RuntimeInv, Channels, Sends, protocol, Expected
  <1>6. Hidden
    BY <1>1, FlightOfState, Zenon DEF Hidden, Proto!vars, protocol
  <1> QED BY <1>4, <1>5, <1>6, Zenon DEF Kept

-----------------------------------------------------------------------------
(* Steps of a send: the protocol sees at most that an envelope is lost.    *)

(* A send that ends without delivery loses the envelope, unless the same   *)
(* envelope is still elsewhere.                                            *)
LEMMA LostOrHidden ==
  ASSUME RuntimeInv, NEW n \in Nodes, outbox[n] # <<>>, Done(n),
         UNCHANGED <<protocol, queue, driver, engine, commands>>
  PROVE  /\ Kept
         /\ Hidden \/ \E m \in InFlight : Proto!Lose(m)
  <1> DEFINE m == Head(outbox[n])
  <1>1. /\ outbox' = [outbox EXCEPT ![n] = Tail(@)]
        /\ outbox \in [Nodes -> Seq(Messages)]
    BY Zenon DEF Done, RuntimeInv, Sends
  <1>2. outbox[n] \in Seq(Messages)
    BY <1>1, Zenon
  <1>3. m \in Range(outbox[n])
    BY <1>2, SetOfTail, ZenonT(60)
  <1>4. m \in InFlight
    BY <1>3, InFlightMember, FlightOfState, Zenon
  <1>5. InFlight' \in {InFlight, InFlight \ {m}}
    BY <1>1, FlightDone, FlightOfState, Zenon
  <1> HIDE DEF m
  <1>6. Hidden \/ Proto!Lose(m)
    BY <1>5, Zenon DEF Hidden, Proto!vars, Proto!Lose, protocol
  <1>7. Channels' /\ Engines'
    BY Zenon DEF RuntimeInv, Channels, Engines, protocol, engine, Expected
  <1>8. Sends'
    BY Finished, Zenon DEF RuntimeInv
  <1> QED BY <1>4, <1>6, <1>7, <1>8, Zenon DEF Kept

(* An envelope that the fault engine lets pass (session/node.go:91-157)    *)
(* stays in flight.                                                        *)
LEMMA StepSendAllowed ==
  ASSUME RuntimeInv, NEW n \in Nodes, SendAllowed(n)
  PROVE  Kept /\ Hidden
  <1>1. /\ outbox[n] # <<>>
        /\ sending' = [sending EXCEPT ![n] = "call"]
        /\ UNCHANGED <<protocol, queue, outbox, driver, engine, commands>>
    BY Zenon DEF SendAllowed
  <1>2. Channels' /\ Engines'
    BY <1>1, Zenon DEF RuntimeInv, Channels, Engines, protocol, engine, Expected
  <1>3. Sends'
    BY <1>1, Zenon DEF RuntimeInv, Sends
  <1>4. Hidden
    BY <1>1, FlightOfState, Zenon DEF Hidden, Proto!vars, protocol
  <1> QED BY <1>2, <1>3, <1>4, Zenon DEF Kept

(* The receiver's handler puts a second copy of the envelope into the      *)
(* channel; the sender keeps its own until the call returns.               *)
LEMMA StepDelivered ==
  ASSUME RuntimeInv, NEW n \in Nodes, outbox[n] # <<>>,
         Enqueue(To(n), Head(outbox[n])),
         sending' = [sending EXCEPT ![n] = "ack"],
         UNCHANGED <<protocol, outbox, driver, engine, commands>>
  PROVE  Kept /\ Hidden
  <1> DEFINE m == Head(outbox[n])
  <1>1. outbox[n] \in Seq(Messages)
    BY Zenon DEF RuntimeInv, Sends
  <1>2. m \in Messages /\ m \in Range(outbox[n])
    BY <1>1, SetOfTail, ZenonT(60)
  <1>3. /\ m \in Event /\ m.type \in {"DIGEST", "STATE"} /\ m.to \in Nodes
        /\ m \in InFlight
    BY <1>2, MessageIsEvent, InFlightMember, FlightOfState, Zenon
  <1>4. Enqueue(m.to, m)
    BY Zenon DEF To
  <1> HIDE DEF m
  <1>5. m.type # "PUT" /\ m.type # "SWAP"
    BY <1>3
  <1>6. Channels'
    BY <1>3, <1>4, <1>5, Enqueued, Zenon DEF RuntimeInv, protocol, Expected
  <1>7. Sends' /\ Engines'
    BY Zenon DEF RuntimeInv, Sends, Engines, engine
  <1>8. Hidden
    BY <1>3, <1>4, HiddenEnqueue, Zenon
  <1> QED BY <1>6, <1>7, <1>8, Zenon DEF Kept

(* A send is invisible to the protocol, or loses its envelope: it is       *)
(* blocked, delivered, refused, answered or timed out                      *)
(* (session/node.go:91-157, server.go:78-108).                             *)
LEMMA StepSender ==
  ASSUME RuntimeInv, NEW n \in Nodes, Sender(n)
  PROVE  Kept /\ (Hidden \/ \E m \in InFlight : Proto!Lose(m))
  <1>1. sending[n] # "no" => outbox[n] # <<>>
    BY Zenon DEF RuntimeInv, Sends
  <1>2. "call" # "no" /\ "ack" # "no"
    OBVIOUS
  <1>3. CASE SendBlocked(n)
    BY <1>3, LostOrHidden, Zenon DEF SendBlocked
  <1>4. CASE SendAllowed(n)
    BY <1>4, StepSendAllowed, Zenon
  <1>5. CASE SendEnvelope(n)
    BY <1>1, <1>2, <1>5, LostOrHidden, StepDelivered, Zenon DEF SendEnvelope
  <1>6. CASE Ack(n)
    BY <1>1, <1>2, <1>6, LostOrHidden, Zenon DEF Ack
  <1>7. CASE Timeout(n)
    BY <1>1, <1>2, <1>7, LostOrHidden, Zenon DEF Timeout
  <1> QED BY <1>3, <1>4, <1>5, <1>6, <1>7, Zenon DEF Sender

-----------------------------------------------------------------------------
(* Steps of the reactor: each is a step of the protocol.                   *)

(* The reactor's handling of a tick without a digest is the protocol's     *)
(* tick (reactor.go:24-28).                                                *)
LEMMA StepReactTick ==
  ASSUME RuntimeInv, NEW n \in Nodes, ReactTick(n)
  PROVE  Kept /\ Proto!Tick(n)
  <1>1. /\ Take(n, "TICK") /\ outbox[n] = <<>> /\ queue[n] # <<>>
        /\ Head(queue[n]).type = "TICK"
        /\ queue' = [queue EXCEPT ![n] = Tail(@)]
        /\ UNCHANGED <<sending, driver, engine, commands>>
        /\ Proto!NextTick(n) # 0 \/ Proto!SyncTargets(n) = {}
        /\ tick' = [tick EXCEPT ![n] = Proto!NextTick(n)]
        /\ UNCHANGED <<store, peers, forceSync, config, writes, seen, outbox>>
    BY Zenon DEF ReactTick, Take
  <1>2. "TICK" \notin {"DIGEST", "STATE"} /\ "TICK" # "PUT"
    OBVIOUS
  <1>3. Channels'
    BY <1>1, <1>2, Taken, Zenon DEF RuntimeInv
  <1>4. Sends' /\ Engines'
    BY <1>1, Zenon DEF RuntimeInv, Sends, Engines, engine
  <1>5. InFlight' = InFlight
    BY <1>1, <1>2, FlightTail, FlightOfState, Zenon DEF RuntimeInv, Channels
  <1>6. Proto!Tick(n)
    BY <1>1, <1>5, Zenon DEF Proto!Tick
  <1> QED BY <1>3, <1>4, <1>6, Zenon DEF Kept

(* The reactor's handling of a tick with a digest to some peer is the      *)
(* protocol's tick.                                                        *)
LEMMA StepReactTickTo ==
  ASSUME RuntimeInv, NEW n \in Nodes, NEW p \in Nodes, ReactTickTo(n, p)
  PROVE  Kept /\ Proto!Tick(n)
  <1> DEFINE m == Proto!Digest(n, p)
  <1>1. /\ Take(n, "TICK") /\ outbox[n] = <<>> /\ queue[n] # <<>>
        /\ Head(queue[n]).type = "TICK"
        /\ queue' = [queue EXCEPT ![n] = Tail(@)]
        /\ UNCHANGED <<sending, driver, engine, commands>>
        /\ Proto!TickTo(n, p)
        /\ tick' = [tick EXCEPT ![n] = Proto!NextTick(n)]
        /\ outbox' = [outbox EXCEPT ![n] = <<m>>]
        /\ UNCHANGED <<store, peers, config, writes, seen>>
    BY Zenon DEF ReactTickTo, Take
  <1>2. "TICK" \notin {"DIGEST", "STATE"} /\ "TICK" # "PUT"
    OBVIOUS
  <1>3. m \in Messages
    BY DigestIsMessage, Zenon DEF RuntimeInv, Messages
  <1> HIDE DEF m
  <1>4. <<m>> \in Seq(Messages) /\ Len(<<m>>) <= 2 /\ Range(<<m>>) = {m}
    BY <1>3, SetOfShort
  <1>5. Channels'
    BY <1>1, <1>2, Taken, Zenon DEF RuntimeInv
  <1>6. Sends'
    BY <1>1, <1>4, Sent, Zenon DEF RuntimeInv
  <1>7. Engines'
    BY <1>1, Zenon DEF RuntimeInv, Engines, engine
  <1>8. InFlight' = InFlight \cup {m}
    <2>1. Flight(queue', outbox) = Flight(queue, outbox)
      BY <1>1, <1>2, FlightTail, Zenon DEF RuntimeInv, Channels
    <2>2. outbox \in [Nodes -> Seq(Messages)]
      BY Zenon DEF RuntimeInv, Sends
    <2>3. outbox'[n] = <<m>> /\ \A r \in Nodes \ {n} : outbox'[r] = outbox[r]
      BY <1>1, <2>2, Zenon
    <2>4. InFlight' = Flight(queue', outbox) \cup Range(outbox'[n])
      BY <1>1, <2>3, FlightSent, Zenon
    <2> QED BY <1>4, <2>1, <2>3, <2>4, FlightOfState, Zenon
  <1>9. Proto!Send(InFlight, {m})
    BY <1>5, <1>6, <1>8, FlightFits, SameCardinality, Zenon DEF Proto!Send
  <1>10. Proto!Tick(n)
    BY <1>1, <1>9, Zenon DEF Proto!Tick, m
  <1> QED BY <1>5, <1>6, <1>7, <1>10, Zenon DEF Kept

(* The reactor's handling of a digest is the protocol's                    *)
(* (reactor.go:30-34).                                                     *)
LEMMA StepReactDigest ==
  ASSUME RuntimeInv, NEW n \in Nodes, ReactDigest(n)
  PROVE  Kept /\ \E m \in InFlight : Proto!OnMessage(m)
  <1> DEFINE m == Head(queue[n])
             s == AsOutbox(Proto!StateReply(n, m.from, m.digest))
                    \o AsOutbox(Proto!SyncRequest(n, m.from, m.digest))
  <1>1. /\ Take(n, "DIGEST") /\ outbox[n] = <<>> /\ queue[n] # <<>>
        /\ queue' = [queue EXCEPT ![n] = Tail(@)]
        /\ UNCHANGED <<sending, driver, engine, commands>>
        /\ Proto!OnPeerDiscovered(n, m.from)
        /\ outbox' = [outbox EXCEPT ![n] = s]
        /\ UNCHANGED <<store, tick, writes, seen>>
    BY Zenon DEF ReactDigest, Take
  <1>2. "DIGEST" \in {"DIGEST", "STATE"} /\ "DIGEST" # "PUT"
    OBVIOUS
  <1>3. /\ Channels' /\ m \in Event /\ m.type = "DIGEST"
        /\ Expected(n, m)
    BY <1>1, <1>2, Taken, Zenon DEF RuntimeInv
  <1>4. m.to = n /\ m.from \in Nodes
    BY <1>2, <1>3, EventByType, Zenon DEF Expected
  <1>5. /\ s \in Seq(Messages) /\ Len(s) <= 2
        /\ Range(s) = Proto!DigestReplies(n, m.from, m.digest)
    BY <1>4, RepliesAreWritten, Zenon DEF RuntimeInv
  <1>6. m \in InFlight
    <2>1. queue[n] \in Seq(Event)
      BY Zenon DEF RuntimeInv, Channels
    <2>2. m \in Range(queue[n])
      BY <1>1, <2>1, SetOfTail, ZenonT(60)
    <2> QED BY <1>2, <1>3, <2>2, InFlightMember, FlightOfState, Zenon
  <1> DEFINE rest == Flight(queue', outbox)
  <1>7. rest \in {InFlight, InFlight \ {m}}
    BY <1>1, FlightTail, FlightOfState, Zenon DEF RuntimeInv, Channels
  <1> HIDE DEF s, m
  <1>8. InFlight' = rest \cup Proto!DigestReplies(n, m.from, m.digest)
    <2>1. outbox \in [Nodes -> Seq(Messages)]
      BY Zenon DEF RuntimeInv, Sends
    <2>2. outbox'[n] = s /\ \A r \in Nodes \ {n} : outbox'[r] = outbox[r]
      BY <1>1, <2>1, Zenon
    <2>3. InFlight' = Flight(queue', outbox) \cup Range(outbox'[n])
      BY <1>1, <2>2, FlightSent, Zenon
    <2> QED BY <1>5, <2>2, <2>3, Zenon
  <1>9. Sends'
    BY <1>1, <1>5, Sent, Zenon DEF RuntimeInv
  <1>10. Engines'
    BY <1>1, Zenon DEF RuntimeInv, Engines, engine
  <1> HIDE DEF rest
  <1>11. Proto!Send(rest, Proto!DigestReplies(n, m.from, m.digest))
    BY <1>3, <1>8, <1>9, FlightFits, SameCardinality, Zenon DEF Proto!Send
  <1>12. Proto!handleDigest(m, rest)
    BY <1>1, <1>4, <1>11, Zenon DEF Proto!handleDigest
  <1>13. Proto!OnMessage(m)
    BY <1>1, <1>3, <1>4, <1>7, <1>12, Zenon DEF Proto!OnMessage
  <1> QED BY <1>3, <1>6, <1>9, <1>10, <1>13, Zenon DEF Kept

(* The reactor's handling of a state is the protocol's (reactor.go:30-34). *)
LEMMA StepReactState ==
  ASSUME RuntimeInv, NEW n \in Nodes, ReactState(n)
  PROVE  Kept /\ \E m \in InFlight : Proto!OnMessage(m)
  <1> DEFINE m == Head(queue[n])
  <1>1. /\ Take(n, "STATE") /\ queue[n] # <<>>
        /\ queue' = [queue EXCEPT ![n] = Tail(@)]
        /\ UNCHANGED <<sending, driver, engine, commands>>
        /\ Proto!OnPeerDiscovered(n, m.from)
        /\ Proto!MergeState(n, m.state)
        /\ UNCHANGED <<tick, writes, outbox>>
    BY Zenon DEF ReactState, Take
  <1>2. "STATE" \in {"DIGEST", "STATE"} /\ "STATE" # "PUT"
    OBVIOUS
  <1>3. /\ Channels' /\ m \in Event /\ m.type = "STATE"
        /\ Expected(n, m)
    BY <1>1, <1>2, Taken, Zenon DEF RuntimeInv
  <1>4. m.to = n
    BY <1>2, <1>3, Zenon DEF Expected
  <1>5. m \in InFlight
    <2>1. queue[n] \in Seq(Event)
      BY Zenon DEF RuntimeInv, Channels
    <2>2. m \in Range(queue[n])
      BY <1>1, <2>1, SetOfTail, ZenonT(60)
    <2> QED BY <1>2, <1>3, <2>2, InFlightMember, FlightOfState, Zenon
  <1>6. InFlight' \in {InFlight, InFlight \ {m}}
    BY <1>1, FlightTail, FlightOfState, Zenon DEF RuntimeInv, Channels
  <1> HIDE DEF m
  <1>7. Sends' /\ Engines'
    BY <1>1, Zenon DEF RuntimeInv, Sends, Engines, engine
  <1>8. Proto!handleState(m, InFlight')
    BY <1>1, <1>4, Zenon DEF Proto!handleState
  <1>9. Proto!OnMessage(m)
    BY <1>1, <1>3, <1>4, <1>6, <1>8, Zenon DEF Proto!OnMessage
  <1> QED BY <1>3, <1>5, <1>7, <1>9, Zenon DEF Kept

(* The reactor's handling of a client's write is the protocol's Put        *)
(* (action.go:14-78).                                                      *)
LEMMA StepHandleAction ==
  ASSUME RuntimeInv, NEW n \in Nodes, handleActionEvent(n)
  PROVE  Kept /\ \E k \in Keys : Proto!Put(n, k, Len(writes) + 1)
  <1> DEFINE k == Head(queue[n]).key
  <1>1. /\ Take(n, "PUT") /\ queue[n] # <<>> /\ Head(queue[n]).type = "PUT"
        /\ queue' = [queue EXCEPT ![n] = Tail(@)]
        /\ UNCHANGED <<sending, driver, engine, commands>>
        /\ Proto!StoreValue(n, k, Len(writes) + 1)
        /\ UNCHANGED <<peers, forceSync, tick, config, outbox>>
    BY Zenon DEF handleActionEvent, Take
  <1>2. "PUT" \notin {"DIGEST", "STATE"}
    OBVIOUS
  <1>3. Len(writes') = Len(writes) + 1
    <2>1. PICK w : writes' = Append(writes, w)
      BY <1>1, Zenon DEF Proto!StoreValue
    <2>2. writes \in Seq(Proto!Write)
      BY Zenon DEF RuntimeInv, Proto!TypeOK
    <2> QED BY <2>1, <2>2
  <1>4. Channels' /\ Head(queue[n]) \in Event
    BY <1>1, <1>3, Taken, Zenon DEF RuntimeInv
  <1>5. k \in Keys
    BY <1>1, <1>4, EventByType, Zenon
  <1> HIDE DEF k
  <1>6. Sends' /\ Engines'
    BY <1>1, Zenon DEF RuntimeInv, Sends, Engines, engine
  <1>7. InFlight' = InFlight
    BY <1>1, <1>2, FlightTail, FlightOfState, Zenon DEF RuntimeInv, Channels
  <1>8. Len(writes) < MaxWrites
    <2>1. Len(writes') + Cardinality(Puts(queue')) <= MaxWrites
      BY <1>4, Zenon DEF Channels
    <2>2. Cardinality(Puts(queue')) \in Nat
      BY <1>4, PutsAreFinite, Zenon DEF Channels
    <2>3. Len(writes) \in Nat
      BY CountOfWrites, Zenon DEF RuntimeInv
    <2> QED BY <1>3, <2>1, <2>2, <2>3, QueueBounds
  <1>9. Proto!Put(n, k, Len(writes) + 1)
    BY <1>1, <1>7, <1>8, Zenon DEF Proto!Put
  <1> QED BY <1>4, <1>5, <1>6, <1>9, Zenon DEF Kept

(* The reactor's handling of a swap is the protocol's (reactor.go:39-53).  *)
LEMMA StepReactSwap ==
  ASSUME RuntimeInv, NEW n \in Nodes, ReactSwap(n)
  PROVE  Kept /\ Swaps /\ Proto!applyProtocolSwap(n)
  <1>1. /\ Take(n, "SWAP") /\ queue[n] # <<>> /\ Head(queue[n]).type = "SWAP"
        /\ queue' = [queue EXCEPT ![n] = Tail(@)]
        /\ UNCHANGED <<sending, driver, engine, commands>>
        /\ Proto!ResetProtocol(n)
        /\ UNCHANGED <<config, writes, outbox>>
    BY Zenon DEF ReactSwap, Take
  <1>2. "SWAP" \notin {"DIGEST", "STATE"} /\ "SWAP" # "PUT"
    OBVIOUS
  <1>3. Channels' /\ Swaps
    BY <1>1, <1>2, Taken, Zenon DEF RuntimeInv, Expected
  <1>4. Sends' /\ Engines'
    BY <1>1, Zenon DEF RuntimeInv, Sends, Engines, engine
  <1>5. InFlight' = InFlight
    BY <1>1, <1>2, FlightTail, FlightOfState, Zenon DEF RuntimeInv, Channels
  <1>6. Proto!applyProtocolSwap(n)
    BY <1>1, <1>5, Zenon DEF Proto!applyProtocolSwap
  <1> QED BY <1>3, <1>4, <1>6, Zenon DEF Kept

(* Every step of the runtime is a step of the protocol or hidden from it,  *)
(* and it is a protocol swap only if the operator swaps protocols.         *)
LEMMA StepOfProtocol ==
  ASSUME RuntimeInv, [Next]_vars
  PROVE  /\ Kept
         /\ \/ Hidden
            \/ Proto!SyncNext
            \/ Swaps /\ \E n \in Nodes : Proto!applyProtocolSwap(n)
  <1>1. ASSUME NEW n \in Nodes, Driver(n) PROVE Kept /\ Hidden
    BY <1>1, StepDriverGate, StepDriverTick, Zenon DEF Driver
  <1>2. ASSUME NEW n \in Nodes, Operator(n) PROVE Kept /\ Hidden
    BY <1>2, StepExecuteAction, StepChangeProtocol, StepSetFaultParams, Zenon
       DEF Operator
  <1>3. ASSUME NEW n \in Nodes, Sender(n)
        PROVE  Kept /\ (Hidden \/ \E m \in InFlight : Proto!Lose(m))
    BY <1>3, StepSender, Zenon
  <1>4. ASSUME NEW n \in Nodes, Reactor(n)
        PROVE  /\ Kept
               /\ \/ Proto!Tick(n)
                  \/ \E m \in InFlight : Proto!OnMessage(m)
                  \/ \E k \in Keys : Proto!Put(n, k, Len(writes) + 1)
                  \/ Swaps /\ Proto!applyProtocolSwap(n)
    BY <1>4, StepReactTick, StepReactTickTo, StepReactDigest, StepReactState,
       StepHandleAction, StepReactSwap, Zenon DEF Reactor
  <1>5. CASE UNCHANGED vars
    <2>1. UNCHANGED <<protocol, queue, outbox, sending, driver, engine, commands>>
      BY <1>5, Zenon DEF vars
    <2>2. Kept
      BY <2>1, Zenon DEF Kept, RuntimeInv, Channels, Sends, Engines, protocol,
         engine, Expected
    <2>3. Hidden
      BY <2>1, FlightOfState, Zenon DEF Hidden, Proto!vars, protocol
    <2> QED BY <2>2, <2>3, Zenon
  <1>6. CASE Next
    <2>1. PICK n \in Nodes : Driver(n) \/ Reactor(n) \/ Sender(n) \/ Operator(n)
      BY <1>6, Zenon DEF Next
    <2> QED BY <1>1, <1>2, <1>3, <1>4, <2>1, Zenon
            DEF Proto!SyncNext, Proto!Protocol
  <1> QED BY <1>5, <1>6, Zenon

(* The invariant implies that the state is well typed.                     *)
LEMMA InvariantIsTyped == RuntimeInv => TypeOK
  <1> SUFFICES ASSUME RuntimeInv PROVE TypeOK
    BY Zenon
  <1>1. ASSUME NEW n \in Nodes
        PROVE  /\ Range(queue[n]) \subseteq Event
               /\ Range(outbox[n]) \subseteq Messages
    <2>1. queue[n] \in Seq(Event) /\ outbox[n] \in Seq(Messages)
      BY Zenon DEF RuntimeInv, Channels, Sends
    <2> QED BY <2>1, SetOfSeq
  <1> QED BY <1>1, Zenon
          DEF RuntimeInv, Channels, Sends, Engines, TypeOK, Messages

(* The runtime starts as the protocol does, with nothing under way.        *)
LEMMA RuntimeStarts == Init => Proto!Init /\ Channels /\ Sends /\ Engines
  <1> SUFFICES ASSUME Init PROVE Proto!Init /\ Channels /\ Sends /\ Engines
    BY Zenon
  <1>1. \A n \in Nodes : queue[n] = <<>> /\ outbox[n] = <<>>
    BY Zenon DEF Init
  <1>2. InFlight = {}
    BY <1>1, SetOfShort, InFlightMember, FlightOfState, Zenon
  <1>3. Proto!Init
    <2>1. NoValue = Proto!NoValue
      BY Zenon DEF NoValue, ZeroClock, Proto!NoValue, Proto!ZeroClock
    <2> QED BY <1>2, <2>1, Zenon DEF Init, Proto!Init
  <1>4. Channels
    <2>1. queue \in [Nodes -> Seq(Event)] /\ \A n \in Nodes : Len(queue[n]) = 0
      BY <1>1 DEF Init
    <2>2. \A n \in Nodes : Len(queue[n]) <= MaxQueue
      <3>1. 0 <= MaxQueue
        BY QueueBounds
      <3> QED BY <2>1, <3>1, Zenon
    <2>3. Puts(queue) = {}
      BY <1>1 DEF Puts
    <2>4. Cardinality(Puts(queue)) = 0 /\ Len(writes) = 0
      BY <2>3, FS_EmptySet, Zenon DEF Init
    <2>5. Len(writes) + Cardinality(Puts(queue)) <= MaxWrites
      BY <2>4, QueueBounds
    <2> QED BY <1>1, <2>1, <2>2, <2>5, SetOfShort, Zenon DEF Channels
  <1>5. Sends
    <2>1. outbox \in [Nodes -> Seq(Messages)] /\ \A n \in Nodes : Len(outbox[n]) <= 2
      BY <1>1 DEF Init
    <2> QED BY <2>1, Zenon DEF Sends, Init
  <1>6. Engines
    BY RuntimeAssumption DEF Engines, Init
  <1> QED BY <1>3, <1>4, <1>5, <1>6, Zenon

(* The assumptions on the constants of the protocol.                       *)
LEMMA ProtocolAssumptions ==
  /\ {0} \subseteq Nat
  /\ GossipInterval \in Nat \ {0}
  /\ InitPeers \in [Nodes -> SUBSET Nodes]
  /\ \A n \in Nodes : n \notin InitPeers[n]
  /\ MaxWrites \in Nat
  /\ 2 * MaxQueue * Cardinality(Nodes) + 2 * Cardinality(Nodes) \in Nat
  <1>1. Cardinality(Nodes) \in Nat
    BY RuntimeAssumption, FS_CardinalityType, Zenon
  <1>2. {0} \subseteq Nat
    OBVIOUS
  <1>3. 2 * MaxQueue * Cardinality(Nodes) + 2 * Cardinality(Nodes) \in Nat
    BY <1>1, QueueBounds
  <1> QED BY <1>2, <1>3, RuntimeAssumption, Zenon

-----------------------------------------------------------------------------
(* The facts GossipProofs establishes about the protocol, for the protocol *)
(* that the runtime runs.  Its definitions are those of Proto.             *)

GP == INSTANCE GossipProofs WITH
  msgs <- InFlight, Times <- {0},
  MaxMsgs <- 2 * MaxQueue * Cardinality(Nodes) + 2 * Cardinality(Nodes)

(* GossipProofs extends Gossip, so that its instance GP repeats the        *)
(* definitions of Proto. They are the same: the data.                      *)
LEMMA SameData ==
  /\ GP!NoValue = Proto!NoValue /\ GP!NoEntry = Proto!NoEntry
  /\ GP!Value = Proto!Value /\ GP!Write = Proto!Write
  /\ GP!DigestMsg = Proto!DigestMsg /\ GP!StateMsg = Proto!StateMsg
  BY Zenon DEF GP!NoValue, GP!NoEntry, GP!Value, GP!Write, GP!DigestMsg,
     GP!StateMsg, GP!ZeroClock, GP!VectorClock, GP!DigestEntry,
     GP!valueToDigestEntry, Proto!NoValue, Proto!NoEntry, Proto!Value,
     Proto!Write, Proto!DigestMsg, Proto!StateMsg, Proto!ZeroClock,
     Proto!VectorClock, Proto!DigestEntry, Proto!valueToDigestEntry

(* The comparisons are the same.                                           *)
LEMMA SameComparisons ==
  /\ \A v, w : GP!compareValueToDigest(v, w) = Proto!compareValueToDigest(v, w)
  /\ \A v, w : GP!isIncomingNewer(v, w) <=> Proto!isIncomingNewer(v, w)
  <1>1. \A v, w : GP!compareValueToDigest(v, w) = Proto!compareValueToDigest(v, w)
    BY Zenon DEF GP!compareValueToDigest, GP!vectorClockCompare, GP!Sign,
       Proto!compareValueToDigest, Proto!vectorClockCompare, Proto!Sign
  <1>2. \A v, w : GP!isIncomingNewer(v, w) <=> Proto!isIncomingNewer(v, w)
    BY Zenon DEF GP!isIncomingNewer, GP!vectorClockCompare, GP!TieBreakNewer,
       Proto!isIncomingNewer, Proto!vectorClockCompare, Proto!TieBreakNewer
  <1> QED BY <1>1, <1>2, Zenon

(* The messages that are sent are the same.                                *)
LEMMA SameSends ==
  /\ \A n, p : GP!Digest(n, p) = Proto!Digest(n, p)
  /\ \A rest, out : GP!Send(rest, out) <=> Proto!Send(rest, out)
  /\ \A n, f, d : GP!DigestReplies(n, f, d) = Proto!DigestReplies(n, f, d)
  <1>1. \A n, p : GP!Digest(n, p) = Proto!Digest(n, p)
    BY Zenon DEF GP!Digest, GP!valueToDigestEntry, Proto!Digest,
       Proto!valueToDigestEntry
  <1>2. \A S : GP!Cardinality(S) = Proto!Cardinality(S)
    BY Zenon DEF GP!Cardinality, Proto!Cardinality
  <1>3. \A rest, out : GP!Send(rest, out) <=> Proto!Send(rest, out)
    BY <1>2, Zenon DEF GP!Send, Proto!Send
  <1>4. \A n, d : GP!Newer(n, d) = Proto!Newer(n, d)
    BY SameData, SameComparisons, Zenon DEF GP!Newer, Proto!Newer
  <1>5. \A n, d : GP!Behind(n, d) <=> Proto!Behind(n, d)
    BY SameData, SameComparisons, Zenon DEF GP!Behind, Proto!Behind
  <1>6. \A n, f, d : GP!DigestReplies(n, f, d) = Proto!DigestReplies(n, f, d)
    BY SameData, <1>1, <1>4, <1>5, ZenonT(60)
       DEF GP!DigestReplies, GP!StateReply, GP!SyncRequest,
           Proto!DigestReplies, Proto!StateReply, Proto!SyncRequest
  <1> QED BY <1>1, <1>3, <1>6, Zenon

(* The handling of messages is the same.                                   *)
LEMMA SameOnMessage == \A m : GP!OnMessage(m) <=> Proto!OnMessage(m)
  <1>1. \A n, k, v : GP!Accepts(n, k, v) <=> Proto!Accepts(n, k, v)
    BY SameData, SameComparisons, Zenon DEF GP!Accepts, Proto!Accepts
  <1>2. \A n, k, v : GP!Merged(n, k, v) = Proto!Merged(n, k, v)
    BY <1>1, Zenon DEF GP!Merged, GP!Resolve, GP!mergedVC,
       Proto!Merged, Proto!Resolve, Proto!mergedVC
  <1>3. \A n, s : GP!MergeState(n, s) <=> Proto!MergeState(n, s)
    BY <1>1, <1>2, Zenon DEF GP!MergeState, Proto!MergeState
  <1>4. \A m, rest : GP!handleState(m, rest) <=> Proto!handleState(m, rest)
    BY <1>3, Zenon DEF GP!handleState, Proto!handleState
  <1>5. \A m, rest : GP!handleDigest(m, rest) <=> Proto!handleDigest(m, rest)
    BY SameSends, Zenon DEF GP!handleDigest, Proto!handleDigest
  <1>6. \A n, p : GP!OnPeerDiscovered(n, p) <=> Proto!OnPeerDiscovered(n, p)
    BY Zenon DEF GP!OnPeerDiscovered, GP!SetPeers,
       Proto!OnPeerDiscovered, Proto!SetPeers
  <1> QED BY <1>4, <1>5, <1>6, Zenon DEF GP!OnMessage, Proto!OnMessage

(* The ticks are the same.                                                 *)
LEMMA SameTick == \A n : GP!Tick(n) <=> Proto!Tick(n)
  <1>1. \A n : /\ GP!NextTick(n) = Proto!NextTick(n)
               /\ GP!SyncTargets(n) = Proto!SyncTargets(n)
    BY Zenon DEF GP!NextTick, GP!SyncTargets, Proto!NextTick, Proto!SyncTargets
  <1>2. \A n, p : GP!TickTo(n, p) <=> Proto!TickTo(n, p)
    BY <1>1, Zenon DEF GP!TickTo, Proto!TickTo
  <1> QED BY <1>1, <1>2, SameSends, Zenon DEF GP!Tick, Proto!Tick

(* The next-state relations are the same.                                  *)
LEMMA SameSteps ==
  /\ GP!SyncNext <=> Proto!SyncNext
  /\ GP!SwapNext <=> Proto!SwapNext
  /\ UNCHANGED GP!vars <=> UNCHANGED Proto!vars
  <1>1. \A n, k, t : GP!Put(n, k, t) <=> Proto!Put(n, k, t)
    BY Zenon DEF GP!Put, GP!StoreValue, GP!PutValue,
       Proto!Put, Proto!StoreValue, Proto!PutValue
  <1>2. GP!SyncNext <=> Proto!SyncNext
    BY <1>1, SameOnMessage, SameTick, Zenon DEF GP!SyncNext, GP!Protocol,
       GP!Lose, Proto!SyncNext, Proto!Protocol, Proto!Lose
  <1>3. \A n : GP!applyProtocolSwap(n) <=> Proto!applyProtocolSwap(n)
    BY SameData, Zenon DEF GP!applyProtocolSwap, GP!ResetProtocol,
       Proto!applyProtocolSwap, Proto!ResetProtocol
  <1>4. UNCHANGED GP!vars <=> UNCHANGED Proto!vars
    BY Zenon DEF GP!vars, Proto!vars
  <1> QED BY <1>2, <1>3, <1>4, Zenon DEF GP!SwapNext, Proto!SwapNext

(* The initial states and the invariants are the same.                     *)
LEMMA SameInvariants ==
  /\ GP!Init <=> Proto!Init
  /\ GP!TypeOK <=> Proto!TypeOK
  /\ GP!Integrity <=> Proto!Integrity
  /\ GP!LastWriteWins <=> Proto!LastWriteWins
  /\ GP!NoSilentDivergence <=> Proto!NoSilentDivergence
  <1>1. GP!Init <=> Proto!Init
    BY SameData, ZenonT(60) DEF GP!Init, Proto!Init
  <1>2. GP!TypeOK <=> Proto!TypeOK
    BY SameData, Zenon DEF GP!TypeOK, Proto!TypeOK
  <1>3. \A k : GP!Copies(k) = Proto!Copies(k)
    BY Zenon DEF GP!Copies, Proto!Copies
  <1>4. \A k, v : GP!Genuine(k, v) <=> Proto!Genuine(k, v)
    BY Zenon DEF GP!Genuine, Proto!Genuine
  <1>5. GP!Integrity <=> Proto!Integrity
    BY SameData, <1>3, <1>4, Zenon DEF GP!Integrity, Proto!Integrity
  <1>6. \A k, vc : GP!Covered(k, vc) = Proto!Covered(k, vc)
    BY Zenon DEF GP!Covered, Proto!Covered
  <1>7. GP!LastWriteWins <=> Proto!LastWriteWins
    BY SameData, <1>3, <1>6, Zenon DEF GP!LastWriteWins, Proto!LastWriteWins
  <1>8. \A v : GP!valueToDigestEntry(v) = Proto!valueToDigestEntry(v)
    BY Zenon DEF GP!valueToDigestEntry, Proto!valueToDigestEntry
  <1>9. GP!NoSilentDivergence <=> Proto!NoSilentDivergence
    BY SameData, SameComparisons, <1>3, <1>8, Zenon
       DEF GP!NoSilentDivergence, Proto!NoSilentDivergence
  <1> QED BY <1>1, <1>2, <1>5, <1>7, <1>9, Zenon

-----------------------------------------------------------------------------
(* The invariant of the runtime, and what follows from it.                 *)

(* The runtime begins in a state in which the protocol may begin.          *)
LEMMA RuntimeInit == Init => RuntimeInv /\ Proto!Init
  <1> SUFFICES ASSUME Init PROVE RuntimeInv /\ Proto!Init
    BY Zenon
  <1>1. Proto!Init /\ Channels /\ Sends /\ Engines
    BY RuntimeStarts, Zenon
  <1>2. GP!TypeOK /\ GP!Integrity
    BY <1>1, SameInvariants, ProtocolAssumptions, NodesAssumption,
       GP!TypeInit, GP!IntegrityInit, ZenonT(60) DEF GP!TypeInit, GP!IntegrityInit
  <1> QED BY <1>1, <1>2, SameInvariants, Zenon DEF RuntimeInv

(* The refinement, step by step: every step keeps the invariant and is a   *)
(* step of the protocol or leaves it alone, and without swaps it is a step *)
(* of the protocol that has none.                                          *)
LEMMA RuntimeStep ==
  RuntimeInv /\ [Next]_vars
    => /\ RuntimeInv'
       /\ [Proto!SwapNext]_Proto!vars
       /\ ~Swaps => [Proto!SyncNext]_Proto!vars
  <1> SUFFICES ASSUME RuntimeInv, [Next]_vars
               PROVE  /\ RuntimeInv'
                      /\ [Proto!SwapNext]_Proto!vars
                      /\ ~Swaps => [Proto!SyncNext]_Proto!vars
    BY Zenon
  <1>1. [Proto!SwapNext]_Proto!vars /\ (~Swaps => [Proto!SyncNext]_Proto!vars)
    BY StepOfProtocol, Zenon DEF Hidden, Proto!SwapNext
  <1>2. [GP!SwapNext]_GP!vars /\ GP!GenuineInv
    BY <1>1, SameSteps, SameInvariants, Zenon DEF RuntimeInv, GP!GenuineInv
  <1>3. GP!GenuineInv'
    BY <1>2, ProtocolAssumptions, NodesAssumption, GP!GenuineStep, ZenonT(60)
       DEF GP!GenuineStep
  <1>4. (GP!TypeOK <=> Proto!TypeOK)' /\ (GP!Integrity <=> Proto!Integrity)'
    BY SameInvariants, PTL
  <1>5. Proto!TypeOK' /\ Proto!Integrity'
    BY <1>3, <1>4, Zenon DEF GP!GenuineInv
  <1> QED BY <1>1, <1>5, StepOfProtocol, Zenon DEF Kept, RuntimeInv

(* The runtime keeps its own state well typed: a reactor never has more    *)
(* than two envelopes to send, and a send in progress has an envelope      *)
(* (reactor.go:24-34, session/node.go:91-157).                             *)
THEOREM RuntimeIsTyped == Spec => []TypeOK
  BY InvariantIsTyped, RuntimeInit, RuntimeStep, PTL DEF Spec

(* Whatever the channels, the timeouts, the fault engine and late          *)
(* deliveries do, every step of the runtime is a step of the gossip        *)
(* protocol or invisible to it (reactor.go:11-110, server.go:78-108,       *)
(* session/node.go:91-157, fault/decision.go:7-72).                        *)
THEOREM RuntimeImplementsGossip == Spec => ImplementsGossip
  BY RuntimeInit, RuntimeStep, PTL DEF Spec, ImplementsGossip, Proto!SwapSpec

(* Every copy of a key that a node stores, has queued or is sending is a   *)
(* copy of a client's write of that key, protocol swaps included           *)
(* (reactor.go:24-60, protocol_swap.go:10-70).                             *)
THEOREM RuntimeCopiesAreWrites == Spec => []Proto!Integrity
  <1>1. RuntimeInv => Proto!Integrity
    BY Zenon DEF RuntimeInv
  <1> QED BY <1>1, RuntimeInit, RuntimeStep, PTL DEF Spec

(* Without protocol swaps the runtime implements the protocol that has     *)
(* none (protocol_swap.go:10-70 is never run).                             *)
LEMMA RuntimeImplementsSync ==
  ASSUME ~Swaps
  PROVE  Spec => GP!SyncSpec
  <1>1. RuntimeInv /\ [Next]_vars => RuntimeInv' /\ [GP!SyncNext]_GP!vars
    BY RuntimeStep, SameSteps, Zenon
  <1>2. Init => RuntimeInv /\ GP!Init
    BY RuntimeInit, SameInvariants, Zenon
  <1> QED BY <1>1, <1>2, PTL DEF Spec, GP!SyncSpec

(* With clocks that agree and without protocol swaps the last write of a   *)
(* key wins in the runtime as in the protocol: a crash, a partition, a     *)
(* timeout or a late delivery never makes a copy miss a write its own      *)
(* clock counts (conflict_resolution.go:86-109 run by reactor.go:24-60).   *)
THEOREM RuntimeLastWriteWins ==
  ASSUME ~Swaps
  PROVE  Spec => []Proto!LastWriteWins
  <1>1. GP!SyncSpec => []GP!LastWriteWins
    BY ProtocolAssumptions, NodesAssumption, GP!LastWriteAlwaysWins, PTL
       DEF GP!LastWriteAlwaysWins
  <1>2. GP!LastWriteWins <=> Proto!LastWriteWins
    BY SameInvariants, Zenon
  <1> QED BY <1>1, <1>2, RuntimeImplementsSync, PTL

(* With clocks that agree and without protocol swaps two nodes whose       *)
(* digests compare as equal hold the same value, so no pair of nodes stays *)
(* apart without knowing it (propagation.go:254-279 run by                 *)
(* reactor.go:24-60).                                                      *)
THEOREM RuntimeHasNoSilentDivergence ==
  ASSUME ~Swaps
  PROVE  Spec => []Proto!NoSilentDivergence
  <1>1. GP!SyncSpec => []GP!NoSilentDivergence
    BY ProtocolAssumptions, NodesAssumption, GP!EqualDigestsEqualValues, PTL
       DEF GP!EqualDigestsEqualValues
  <1>2. GP!NoSilentDivergence <=> Proto!NoSilentDivergence
    BY SameInvariants, Zenon
  <1> QED BY <1>1, <1>2, RuntimeImplementsSync, PTL

(* With clocks that agree and without protocol swaps the whole stack, from *)
(* the channels and the fault engine up, implements the store that the     *)
(* clients see: what a node shows of a key moves only to a later write of  *)
(* it (gossip/crud.go, run by runtime/action.go:14-78 and                  *)
(* reactor.go:24-60).                                                      *)
THEOREM RuntimeImplementsLWWStore ==
  ASSUME ~Swaps
  PROVE  Spec => Proto!ImplementsLWWStore
  <1>1. GP!SyncSpec => GP!ImplementsLWWStore
    BY ProtocolAssumptions, NodesAssumption, GP!GossipImplementsLWWStore, PTL
       DEF GP!GossipImplementsLWWStore
  <1>2. /\ GP!Abstract!Init <=> Proto!Abstract!Init
        /\ GP!Abstract!Next <=> Proto!Abstract!Next
        /\ UNCHANGED <<GP!View, GP!Log>> <=> UNCHANGED <<Proto!View, Proto!Log>>
    BY Zenon DEF GP!View, GP!Log, Proto!View, Proto!Log, GP!Abstract!Init,
       GP!Abstract!Next, GP!Abstract!CatchUp, GP!Abstract!Write,
       Proto!Abstract!Init, Proto!Abstract!Next, Proto!Abstract!CatchUp,
       Proto!Abstract!Write
  <1>3. [GP!Abstract!Next]_<<GP!View, GP!Log>>
          <=> [Proto!Abstract!Next]_<<Proto!View, Proto!Log>>
    BY <1>2, Zenon
  <1> QED BY <1>1, <1>2, <1>3, RuntimeImplementsSync, PTL
          DEF GP!ImplementsLWWStore, Proto!ImplementsLWWStore,
              GP!Abstract!Spec, Proto!Abstract!Spec

=============================================================================
