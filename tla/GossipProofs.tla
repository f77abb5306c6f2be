---------------------------- MODULE GossipProofs ----------------------------
(***************************************************************************)
(* Proofs about Gossip for any set of nodes and keys, any clocks and any   *)
(* behaviour of the network.                                               *)
(*                                                                         *)
(* Under arbitrary clocks (Spec) the inductive invariant is Inv: types,    *)
(* every copy is genuine, and a node's own clock entry is the largest.     *)
(* Under synchronised clocks (SyncSpec) SyncInv adds that timestamps are   *)
(* places in the history, that causes precede their effects, and that a    *)
(* copy is the newest of the writes its clock covers.  The latter is what  *)
(* makes the merge of two copies safe: the accepted value is at least as   *)
(* new as everything either clock covers.                                  *)
(***************************************************************************)
EXTENDS Gossip, TLAPS

(* The value a map lookup returns for a missing key is well typed.         *)
LEMMA NoValueType == NoValue \in Value /\ ZeroClock \in VectorClock
  BY Zenon DEF NoValue, Value, ZeroClock, VectorClock

(* The digest entry of a value is well typed (valueToDigestEntry).         *)
LEMMA EntryType ==
  ASSUME NEW v \in Value
  PROVE  valueToDigestEntry(v) \in DigestEntry
  BY Zenon DEF valueToDigestEntry, Value, DigestEntry

(* The entry-wise maximum of two clocks is a clock (mergedVC).             *)
LEMMA MergedVCType ==
  ASSUME NEW a \in VectorClock, NEW b \in VectorClock
  PROVE  mergedVC(a, b) \in VectorClock
  BY Zenon DEF mergedVC, VectorClock

(* A node's digest is a well-typed envelope.                               *)
LEMMA DigestType ==
  ASSUME TypeOK, NEW n \in Nodes, NEW p \in Nodes
  PROVE  Digest(n, p) \in DigestMsg
  <1>1. \A k \in Keys : valueToDigestEntry(store[n][k]) \in DigestEntry
    BY EntryType, Zenon DEF TypeOK
  <1> QED BY <1>1, Zenon DEF Digest, DigestMsg

(* The replies to a digest are well-typed envelopes (handleDigest).        *)
LEMMA RepliesType ==
  ASSUME TypeOK, NEW n \in Nodes, NEW p \in Nodes, NEW d
  PROVE  DigestReplies(n, p, d) \subseteq DigestMsg \cup StateMsg
  <1>1. Newer(n, d) \in [Keys -> Value]
    BY NoValueType DEF Newer, TypeOK
  <1>2. Digest(n, p) \in DigestMsg
    BY DigestType, Zenon
  <1> QED BY <1>1, <1>2 DEF DigestReplies, StateReply, SyncRequest, StateMsg

(* Merging a value into a store entry gives a value (handleState).         *)
LEMMA MergedType ==
  ASSUME TypeOK, NEW n \in Nodes, NEW k \in Keys, NEW v \in Value
  PROVE  Merged(n, k, v) \in Value
  <1>1. store[n][k] \in Value
    BY DEF TypeOK
  <1>2. mergedVC(store[n][k].vc, v.vc) \in VectorClock
    BY <1>1, MergedVCType, Zenon DEF Value
  <1> QED BY <1>1, <1>2, Zenon DEF Merged, Resolve, Value

(* The value a client's write stores is well typed (Put).                  *)
LEMMA PutValueType ==
  ASSUME TypeOK, NEW n \in Nodes, NEW k \in Keys, NEW t \in Nat
  PROVE  /\ PutValue(n, k, t) \in Value
         /\ store[n][k].vc[n] + 1 \in Nat \ {0}
  <1>1. store[n][k] \in Value /\ Len(writes) \in Nat
    BY DEF TypeOK
  <1>2. store[n][k].vc \in VectorClock /\ store[n][k].version + 1 \in Nat
    BY <1>1 DEF Value
  <1>3. [store[n][k].vc EXCEPT ![n] = @ + 1] \in VectorClock
        /\ store[n][k].vc[n] + 1 \in Nat \ {0}
    BY <1>2 DEF VectorClock
  <1> QED BY <1>1, <1>2, <1>3 DEF PutValue, Value

(* The initial state is well typed.                                        *)
LEMMA TypeInit == Init => TypeOK
  BY NoValueType, GossipAssumption DEF Init, TypeOK

(* A client's write keeps the state well typed.                            *)
LEMMA TypePut ==
  ASSUME TypeOK, NEW n \in Nodes, NEW k \in Keys, NEW t \in Nat, Put(n, k, t)
  PROVE  TypeOK'
  <1>1. store' \in [Nodes -> [Keys -> Value]]
    BY PutValueType, Zenon DEF Put, StoreValue, TypeOK
  <1>2. writes' \in Seq(Write)
    <2>1. seen[n][k] \in SUBSET Nat
      BY Zenon DEF TypeOK
    <2>2. [key |-> k, origin |-> n, ts |-> t, count |-> store[n][k].vc[n] + 1,
           causes |-> seen[n][k]] \in Write
      BY <2>1, PutValueType, Zenon DEF Write
    <2> QED BY <2>2 DEF Put, StoreValue, TypeOK
  <1>3. seen' \in [Nodes -> [Keys -> SUBSET Nat]]
    BY DEF Put, StoreValue, TypeOK
  <1> QED BY <1>1, <1>2, <1>3, Zenon DEF Put, StoreValue, TypeOK

(* A tick keeps the state well typed.                                      *)
LEMMA TypeTick ==
  ASSUME TypeOK, NEW n \in Nodes, Tick(n)
  PROVE  TypeOK'
  <1>1. tick' \in [Nodes -> 0 .. GossipInterval - 1]
    BY GossipAssumption DEF Tick, TickTo, NextTick, TypeOK
  <1>2. forceSync \in [Nodes -> SUBSET Nodes] /\ msgs \subseteq DigestMsg \cup StateMsg
    BY Zenon DEF TypeOK
  <1>3. /\ forceSync' \in [Nodes -> SUBSET Nodes]
        /\ msgs' \subseteq DigestMsg \cup StateMsg
    <2>1. CASE UNCHANGED <<forceSync, msgs>>
      BY <1>2, <2>1, Zenon
    <2>2. ASSUME NEW p \in Nodes, TickTo(n, p), Send(msgs, {Digest(n, p)})
          PROVE  /\ forceSync' \in [Nodes -> SUBSET Nodes]
                 /\ msgs' \subseteq DigestMsg \cup StateMsg
      <3>1. forceSync' \in [Nodes -> SUBSET Nodes]
        <4>1. forceSync' = [forceSync EXCEPT ![n] = forceSync[n] \ {p}]
          BY <2>2, Zenon DEF TickTo
        <4>2. forceSync[n] \ {p} \in SUBSET Nodes
          BY <1>2, Zenon
        <4> QED BY <1>2, <4>1, <4>2, Zenon
      <3>2. msgs' \subseteq DigestMsg \cup StateMsg
        BY <1>2, <2>2, DigestType, Zenon DEF Send
      <3> QED BY <3>1, <3>2, Zenon
    <2> QED BY <2>1, <2>2, Zenon DEF Tick
  <1> QED BY <1>1, <1>3, Zenon DEF Tick, TypeOK

(* Handling an envelope keeps the state well typed (OnMessage).            *)
LEMMA TypeOnMessage ==
  ASSUME TypeOK, Integrity, NEW m \in msgs, OnMessage(m)
  PROVE  TypeOK'
  <1>1. m \in DigestMsg \cup StateMsg /\ m.to \in Nodes /\ m.from \in Nodes
    BY Zenon DEF TypeOK, DigestMsg, StateMsg
  <1>2. /\ peers' \in [Nodes -> SUBSET Nodes]
        /\ forceSync' \in [Nodes -> SUBSET Nodes]
        /\ config' \in [Nodes -> SUBSET Nodes]
    <2>1. CASE m.from \in peers[m.to] \cup {m.to}
      BY <2>1, Zenon DEF OnMessage, OnPeerDiscovered, TypeOK
    <2>2. CASE m.from \notin peers[m.to] \cup {m.to}
      <3>1. config[m.to] \cup {m.from} \in SUBSET Nodes
        BY <1>1, Zenon DEF TypeOK
      <3>2. /\ config' = [config EXCEPT ![m.to] = @ \cup {m.from}]
            /\ SetPeers(m.to, config[m.to] \cup {m.from},
                        peers[m.to] \cup {m.from})
        BY <2>2, Zenon DEF OnMessage, OnPeerDiscovered
      <3> QED BY <1>1, <3>1, <3>2, Zenon DEF SetPeers, TypeOK
    <2> QED BY <2>1, <2>2, Zenon
  <1>3. PICK rest \in {msgs, msgs \ {m}} :
          \/ m.type = "DIGEST" /\ handleDigest(m, rest)
          \/ m.type = "STATE" /\ handleState(m, rest)
    BY Zenon DEF OnMessage
  <1>4. CASE m.type = "DIGEST" /\ handleDigest(m, rest)
    <2>1. msgs' \subseteq DigestMsg \cup StateMsg
      BY <1>1, <1>3, <1>4, RepliesType, Zenon DEF handleDigest, Send, TypeOK
    <2> QED BY <1>2, <1>4, <2>1, Zenon DEF handleDigest, OnMessage, TypeOK
  <1>5. CASE m.type = "STATE" /\ handleState(m, rest)
    <2>1. m.state \in [Keys -> Value]
      BY <1>1, <1>5, Zenon DEF DigestMsg, StateMsg
    <2>2. store' \in [Nodes -> [Keys -> Value]]
      <3>1. \A k \in Keys : Merged(m.to, k, m.state[k]) \in Value
        BY <1>1, <2>1, MergedType, Zenon
      <3> QED BY <1>1, <1>5, <3>1, Zenon DEF handleState, MergeState, TypeOK
    <2>3. msgs' \subseteq DigestMsg \cup StateMsg
      BY <1>3, <1>5, Zenon DEF handleState, MergeState, TypeOK
    <2>4. seen' \in [Nodes -> [Keys -> SUBSET Nat]]
      <3>1. ASSUME NEW k \in Keys, Accepts(m.to, k, m.state[k])
            PROVE  {m.state[k].data} \cup writes[m.state[k].data].causes
                     \subseteq Nat
        <4>1. m.state[k] \in Copies(k) /\ m.state[k] # NoValue
          BY <1>5, <3>1, Zenon DEF Copies, Accepts
        <4>2. m.state[k].data \in DOMAIN writes
          BY <4>1, Zenon DEF Integrity, Genuine
        <4>3. writes[m.state[k].data] \in Write
          BY <4>2 DEF TypeOK
        <4> QED BY <2>1, <4>3, Zenon DEF Write, Value
      <3> QED BY <1>1, <1>5, <3>1 DEF handleState, MergeState, TypeOK
    <2> QED BY <1>2, <1>5, <2>2, <2>3, <2>4, Zenon
    DEF handleState, MergeState, OnMessage, TypeOK
  <1> QED BY <1>3, <1>4, <1>5, Zenon

(* Every copy of a key is a value.                                         *)
LEMMA CopiesType ==
  ASSUME TypeOK, NEW k \in Keys
  PROVE  Copies(k) \subseteq Value
  <1>1. \A m \in msgs : m.type = "STATE" => m.state[k] \in Value
    BY Zenon DEF TypeOK, DigestMsg, StateMsg
  <1> QED BY <1>1 DEF Copies, TypeOK

(* The two ways a copy of a key comes about: a write, or the merge of two  *)
(* copies that exist.                                                      *)
FromMerge(k, v) ==
  \E l, w \in Copies(k) :
    /\ w # NoValue
    /\ l = NoValue \/ isIncomingNewer(l, w)
    /\ v = Resolve(l, w)

(* The only copy a client's write adds is the value it stores.             *)
LEMMA PutCopies ==
  ASSUME TypeOK, NEW n \in Nodes, NEW k \in Keys, NEW t \in Nat, Put(n, k, t),
         NEW j \in Keys, NEW v \in Copies(j)'
  PROVE  v \in Copies(j) \/ (j = k /\ v = PutValue(n, k, t))
  BY Zenon DEF Copies, Put, StoreValue, TypeOK

(* A tick adds no copies: it only sends a digest.                          *)
LEMMA TickCopies ==
  ASSUME TypeOK, NEW n \in Nodes, Tick(n), NEW j \in Keys
  PROVE  Copies(j)' \subseteq Copies(j)
  <1>1. \A p \in Nodes : Digest(n, p).type = "DIGEST"
    BY Zenon DEF Digest
  <1>2. \A m \in msgs' : m.type = "STATE" => m \in msgs
    BY <1>1, Zenon DEF Tick, TickTo, Send, SyncTargets, TypeOK
  <1> QED BY <1>2, Zenon DEF Copies, Tick, TickTo

(* Losing an envelope adds no copies.                                      *)
LEMMA LoseCopies ==
  ASSUME NEW m, Lose(m), NEW j \in Keys
  PROVE  Copies(j)' \subseteq Copies(j)
  BY Zenon DEF Copies, Lose

(* A copy an envelope leads to is an old one or the merge of two.          *)
LEMMA OnMessageCopies ==
  ASSUME TypeOK, NEW m \in msgs, OnMessage(m), NEW j \in Keys,
         NEW v \in Copies(j)'
  PROVE  v \in Copies(j) \cup {NoValue} \/ FromMerge(j, v)
  <1>1. m \in DigestMsg \cup StateMsg /\ m.to \in Nodes /\ m.from \in Nodes
    BY Zenon DEF TypeOK, DigestMsg, StateMsg
  <1>2. PICK rest \in {msgs, msgs \ {m}} :
          \/ m.type = "DIGEST" /\ handleDigest(m, rest)
          \/ m.type = "STATE" /\ handleState(m, rest)
    BY Zenon DEF OnMessage
  <1>3. CASE m.type = "DIGEST" /\ handleDigest(m, rest)
    <2>1. \A x \in DigestReplies(m.to, m.from, m.digest) :
            x.type = "STATE" => x.state[j] \in {store[m.to][j], NoValue}
      <3>1. Newer(m.to, m.digest)[j] \in {store[m.to][j], NoValue}
        BY Zenon DEF Newer
      <3> QED BY <3>1 DEF DigestReplies, StateReply, SyncRequest, Digest
    <2>2. \A x \in msgs' : x.type = "STATE" =>
            x \in msgs \/ x.state[j] \in {store[m.to][j], NoValue}
      BY <1>2, <1>3, <2>1, Zenon DEF handleDigest, Send
    <2>3. store' = store
      BY <1>3, Zenon DEF handleDigest
    <2> QED BY <1>1, <2>2, <2>3, Zenon DEF Copies
  <1>4. CASE m.type = "STATE" /\ handleState(m, rest)
    <2>1. CASE v \in {x.state[j] : x \in {y \in msgs' : y.type = "STATE"}}
      BY <1>2, <1>4, <2>1, Zenon DEF handleState, MergeState, Copies
    <2>2. CASE v \in {store'[n][j] : n \in Nodes}
      <3>1. PICK n \in Nodes : v = store'[n][j]
        BY <2>2, Zenon
      <3>2. CASE n # m.to
        BY <1>1, <1>4, <3>1, <3>2, Zenon DEF handleState, MergeState, Copies, TypeOK
      <3>3. CASE n = m.to
        <4>1. v = Merged(n, j, m.state[j])
          BY <1>1, <1>4, <3>1, <3>3, Zenon DEF handleState, MergeState, TypeOK
        <4>2. store[n][j] \in Copies(j) /\ m.state[j] \in Copies(j)
          BY <1>1, <1>4, Zenon DEF Copies
        <4> QED BY <4>1, <4>2, Zenon DEF Merged, Accepts, FromMerge
      <3> QED BY <3>2, <3>3, Zenon
    <2> QED BY <2>1, <2>2, Zenon DEF Copies
  <1> QED BY <1>2, <1>3, <1>4, Zenon

(* Every protocol step adds only copies that merge two old ones.           *)
LEMMA ProtocolCopies ==
  ASSUME TypeOK, Protocol, NEW j \in Keys, NEW v \in Copies(j)'
  PROVE  v \in Copies(j) \cup {NoValue} \/ FromMerge(j, v)
  BY TickCopies, LoseCopies, OnMessageCopies, Zenon DEF Protocol

(* Every protocol step keeps the state well typed.                         *)
LEMMA ProtocolType ==
  ASSUME TypeOK, Integrity, Protocol
  PROVE  TypeOK' /\ writes' = writes
  <1>1. ASSUME NEW m \in msgs, Lose(m)
        PROVE  TypeOK' /\ writes' = writes
    BY <1>1, Zenon DEF Lose, TypeOK
  <1>2. ASSUME NEW m \in msgs, OnMessage(m)
        PROVE  TypeOK' /\ writes' = writes
    BY <1>2, TypeOnMessage, Zenon DEF OnMessage
  <1>3. ASSUME NEW n \in Nodes, Tick(n)
        PROVE  TypeOK' /\ writes' = writes
    BY <1>3, TypeTick, Zenon DEF Tick, TickTo
  <1> QED BY <1>1, <1>2, <1>3, Zenon DEF Protocol

-----------------------------------------------------------------------------

(* There are no copies at first.                                           *)
LEMMA IntegrityInit == Init => Integrity
  BY DEF Init, Integrity, Copies

(* A client's write keeps every copy genuine.                              *)
LEMMA IntegrityPut ==
  ASSUME TypeOK, Integrity, NEW n \in Nodes, NEW k \in Keys, NEW t \in Nat,
         Put(n, k, t)
  PROVE  Integrity'
  <1>1. SUFFICES ASSUME NEW j \in Keys, NEW v \in Copies(j)', v # NoValue
                 PROVE  Genuine(j, v)'
    BY Zenon DEF Integrity
  <1>2. /\ DOMAIN writes' = 1 .. Len(writes) + 1
        /\ DOMAIN writes = 1 .. Len(writes)
        /\ \A i \in DOMAIN writes : writes'[i] = writes[i]
        /\ writes'[Len(writes) + 1] =
             [key |-> k, origin |-> n, ts |-> t,
              count |-> store[n][k].vc[n] + 1, causes |-> seen[n][k]]
        /\ Len(writes) \in Nat
    BY DEF Put, StoreValue, TypeOK
  <1>3. CASE v \in Copies(j)
    BY <1>1, <1>2, <1>3, SMTT(30) DEF Integrity, Genuine
  <1>4. CASE j = k /\ v = PutValue(n, k, t)
    <2>1. store[n][k].vc \in [Nodes -> Nat]
      <3>1. store[n][k] \in Value
        BY DEF TypeOK
      <3> QED BY <3>1, Zenon DEF Value, VectorClock
    <2>2. v.vc[n] = store[n][k].vc[n] + 1
      BY <1>4, <2>1, Zenon DEF PutValue
    <2> QED BY <1>2, <1>4, <2>1, <2>2 DEF Genuine, PutValue
  <1> QED BY <1>1, <1>3, <1>4, PutCopies, Zenon

(* The protocol keeps every copy genuine: a merge changes only the clock.  *)
LEMMA IntegrityProtocol ==
  ASSUME TypeOK, Integrity, Protocol
  PROVE  Integrity'
  <1>1. SUFFICES ASSUME NEW j \in Keys, NEW v \in Copies(j)', v # NoValue
                 PROVE  Genuine(j, v)'
    BY Zenon DEF Integrity
  <1>2. writes' = writes
    BY ProtocolType, Zenon
  <1>3. CASE v \in Copies(j)
    BY <1>1, <1>2, <1>3, Zenon DEF Integrity, Genuine
  <1>4. CASE FromMerge(j, v)
    <2>1. PICK l, w \in Copies(j) : w # NoValue /\ v = Resolve(l, w)
      BY <1>4, Zenon DEF FromMerge
    <2>2. l \in Value /\ w \in Value
      BY CopiesType, Zenon
    <2>3. Genuine(j, w)
      BY <2>1, Zenon DEF Integrity
    <2>4. w.origin \in Nodes
      <3>1. writes[w.data] \in Write
        BY <2>3 DEF Genuine, TypeOK
      <3> QED BY <2>3, <3>1, Zenon DEF Genuine, Write
    <2>5. /\ v.data = w.data /\ v.origin = w.origin /\ v.ts = w.ts
          /\ v.vc[w.origin] >= w.vc[w.origin]
      BY <2>1, <2>2, <2>4 DEF Resolve, mergedVC, Value, VectorClock
    <2>6. writes[w.data].count \in Nat /\ v.vc[w.origin] \in Nat
      <3>1. writes[w.data] \in Write
        BY <2>3 DEF Genuine, TypeOK
      <3>2. v.vc \in VectorClock
        BY <2>1, <2>2, MergedVCType, Zenon DEF Resolve, Value
      <3> QED BY <2>4, <3>1, <3>2, Zenon DEF Write, VectorClock
    <2>7. w.vc[w.origin] \in Nat
      BY <2>2, <2>4, Zenon DEF Value, VectorClock
    <2> QED BY <1>2, <2>3, <2>5, <2>6, <2>7 DEF Genuine
  <1> QED BY <1>1, <1>3, <1>4, ProtocolCopies, Zenon

-----------------------------------------------------------------------------
(* Clocks only grow: the own entry of a node bounds every copy's.          *)

(* Accepting a value gives it the entry-wise maximum of both clocks.       *)
LEMMA ResolveClock ==
  ASSUME NEW l \in Value, NEW w \in Value
  PROVE  /\ Resolve(l, w) \in Value
         /\ \A n \in Nodes :
              /\ Resolve(l, w).vc[n] \in {l.vc[n], w.vc[n]}
              /\ Resolve(l, w).vc[n] >= l.vc[n]
              /\ Resolve(l, w).vc[n] >= w.vc[n]
  <1>1. mergedVC(l.vc, w.vc) \in VectorClock
    BY MergedVCType, Zenon DEF Value
  <1>2. \A n \in Nodes : l.vc[n] \in Nat /\ w.vc[n] \in Nat
    BY Zenon DEF Value, VectorClock
  <1>3. Resolve(l, w).vc = mergedVC(l.vc, w.vc) /\ Resolve(l, w) \in Value
    BY <1>1, Zenon DEF Resolve, Value
  <1> QED BY <1>2, <1>3 DEF mergedVC

(* In a protocol step a store entry stays or merges a value in flight, and *)
(* its clock does not shrink.                                              *)
LEMMA StoreClockGrows ==
  ASSUME TypeOK, Protocol, NEW n \in Nodes, NEW k \in Keys
  PROVE  \/ store'[n][k] = store[n][k]
         \/ \E w \in Copies(k) :
              /\ Accepts(n, k, w)
              /\ store'[n][k] = Resolve(store[n][k], w)
  <1>1. ASSUME NEW m \in msgs, OnMessage(m)
        PROVE  \/ store'[n][k] = store[n][k]
               \/ \E w \in Copies(k) :
                    /\ Accepts(n, k, w)
                    /\ store'[n][k] = Resolve(store[n][k], w)
    <2>1. m.to \in Nodes
      BY Zenon DEF TypeOK, DigestMsg, StateMsg
    <2>2. PICK rest \in {msgs, msgs \ {m}} :
            \/ m.type = "DIGEST" /\ handleDigest(m, rest)
            \/ m.type = "STATE" /\ handleState(m, rest)
      BY <1>1, Zenon DEF OnMessage
    <2>3. CASE m.type = "DIGEST" /\ handleDigest(m, rest)
      BY <2>3, Zenon DEF handleDigest
    <2>4. CASE m.type = "STATE" /\ handleState(m, rest)
      <3>1. CASE n # m.to
        BY <2>1, <2>4, <3>1, Zenon DEF handleState, MergeState, TypeOK
      <3>2. CASE n = m.to
        <4>1. store'[n][k] = Merged(n, k, m.state[k])
          BY <2>1, <2>4, <3>2, Zenon DEF handleState, MergeState, TypeOK
        <4>2. m.state[k] \in Copies(k)
          BY <2>4, Zenon DEF Copies
        <4> QED BY <4>1, <4>2, Zenon DEF Merged
      <3> QED BY <3>1, <3>2, Zenon
    <2> QED BY <2>2, <2>3, <2>4, Zenon
  <1> QED BY <1>1, Zenon DEF Protocol, Tick, TickTo, Lose

(* At first every clock is zero.                                           *)
LEMMA OwnEntryInit == Init => OwnEntry
  <1>1. Init => /\ \A k \in Keys : Copies(k) \subseteq {NoValue}
                /\ \A n \in Nodes, k \in Keys : store[n][k] = NoValue
    BY DEF Init, Copies
  <1>2. \A n \in Nodes : NoValue.vc[n] = 0
    BY Zenon DEF NoValue, ZeroClock
  <1> QED BY <1>1, <1>2 DEF OwnEntry

(* A client's write increments the one entry that must stay the largest.   *)
LEMMA OwnEntryPut ==
  ASSUME TypeOK, OwnEntry, NEW n \in Nodes, NEW k \in Keys, NEW t \in Nat,
         Put(n, k, t)
  PROVE  OwnEntry'
  <1>1. SUFFICES ASSUME NEW j \in Keys, NEW p \in Nodes, NEW v \in Copies(j)'
                 PROVE  v.vc[p] <= store'[p][j].vc[p]
    BY Zenon DEF OwnEntry
  <1>2. \A q \in Nodes, i \in Keys :
          store[q][i] \in Value /\ store[q][i].vc \in [Nodes -> Nat]
          /\ store[q][i] \in Copies(i)
    <2>1. \A q \in Nodes, i \in Keys : store[q][i] \in Value
      BY Zenon DEF TypeOK
    <2>2. \A q \in Nodes, i \in Keys : store[q][i] \in Copies(i)
      BY Zenon DEF Copies
    <2> QED BY <2>1, <2>2, Zenon DEF Value, VectorClock
  <1>3. store'[n][k] = PutValue(n, k, t)
        /\ \A q \in Nodes, i \in Keys :
             <<q, i>> # <<n, k>> => store'[q][i] = store[q][i]
    BY Zenon DEF Put, StoreValue, TypeOK
  <1>4. PutValue(n, k, t).vc = [store[n][k].vc EXCEPT ![n] = @ + 1]
    BY Zenon DEF PutValue
  <1>5. store[p][j].vc[p] \in Nat /\ store[p][j].vc[p] <= store'[p][j].vc[p]
        /\ store'[p][j].vc[p] \in Nat
    BY <1>2, <1>3, <1>4
  <1>6. CASE v \in Copies(j)
    <2>1. v \in Value
      BY <1>6, CopiesType, Zenon
    <2>2. v.vc[p] \in Nat
      BY <2>1, Zenon DEF Value, VectorClock
    <2> QED BY <1>5, <1>6, <2>2 DEF OwnEntry
  <1>7. CASE j = k /\ v = PutValue(n, k, t)
    <2>1. CASE p = n
      BY <1>2, <1>3, <1>4, <1>7, <2>1, SMTT(30)
    <2>2. CASE p # n
      BY <1>2, <1>3, <1>4, <1>7, <2>2 DEF OwnEntry
    <2> QED BY <2>1, <2>2, Zenon
  <1> QED BY <1>6, <1>7, PutCopies, Zenon

(* Copies made by the protocol never overtake a node's own entry.          *)
LEMMA OwnEntryProtocol ==
  ASSUME TypeOK, OwnEntry, Protocol
  PROVE  OwnEntry'
  <1>1. SUFFICES ASSUME NEW j \in Keys, NEW p \in Nodes, NEW v \in Copies(j)'
                 PROVE  v.vc[p] <= store'[p][j].vc[p]
    BY Zenon DEF OwnEntry
  <1>2. store[p][j] \in Value /\ store[p][j].vc[p] \in Nat
    BY DEF TypeOK, Value, VectorClock
  <1>3. store'[p][j].vc[p] \in Nat /\ store[p][j].vc[p] <= store'[p][j].vc[p]
    <2>1. ASSUME NEW w \in Copies(j), store'[p][j] = Resolve(store[p][j], w)
          PROVE  /\ store'[p][j].vc[p] \in Nat
                 /\ store[p][j].vc[p] <= store'[p][j].vc[p]
      <3>1. w \in Value
        BY CopiesType, Zenon
      <3>2. w.vc[p] \in Nat
        BY <3>1, Zenon DEF Value, VectorClock
      <3> QED BY <1>2, <2>1, <3>1, <3>2, ResolveClock
    <2> QED BY <1>2, <2>1, StoreClockGrows
  <1>4. \A x \in Copies(j) : x \in Value /\ x.vc[p] \in Nat
                             /\ x.vc[p] <= store[p][j].vc[p]
    BY CopiesType, Zenon DEF OwnEntry, Value, VectorClock
  <1>5. CASE v \in Copies(j)
    BY <1>2, <1>3, <1>4, <1>5, SMTT(30)
  <1>6. CASE v = NoValue
    BY <1>3, <1>6 DEF NoValue, ZeroClock
  <1>7. CASE FromMerge(j, v)
    <2>1. PICK l, w \in Copies(j) : v = Resolve(l, w)
      BY <1>7, Zenon DEF FromMerge
    <2>2. v.vc[p] \in {l.vc[p], w.vc[p]}
      BY <1>4, <2>1, ResolveClock, Zenon
    <2> QED BY <1>2, <1>3, <1>4, <2>2
  <1> QED BY <1>5, <1>6, <1>7, ProtocolCopies, Zenon

-----------------------------------------------------------------------------
(* Clock comparison and the order isIncomingNewer decides by.              *)

(* vectorClockCompare decides the product order of clocks.                 *)
LEMMA CompareClocks ==
  ASSUME NEW a \in VectorClock, NEW b \in VectorClock
  PROVE  /\ vectorClockCompare(a, b) \in {-1, 0, 1}
         /\ vectorClockCompare(a, b) < 0 <=>
              (\A n \in Nodes : a[n] <= b[n]) /\ (\E n \in Nodes : a[n] < b[n])
         /\ vectorClockCompare(a, b) > 0 <=>
              (\A n \in Nodes : b[n] <= a[n]) /\ (\E n \in Nodes : b[n] < a[n])
  BY DEF vectorClockCompare, VectorClock

(* Clocks with the same entries are equal.                                 *)
LEMMA ClocksEqual ==
  ASSUME NEW a \in VectorClock, NEW b \in VectorClock,
         \A n \in Nodes : a[n] = b[n]
  PROVE  a = b
  BY SMTT(30) DEF VectorClock

(* The digest comparison and the merge decide alike, from either side.     *)
LEMMA DigestDecidesAlike ==
  ASSUME NEW v \in Value, NEW w \in Value
  PROVE  /\ isIncomingNewer(v, w) <=> compareValueToDigest(w, valueToDigestEntry(v)) > 0
         /\ isIncomingNewer(v, w) <=> compareValueToDigest(v, valueToDigestEntry(w)) < 0
  <1>1. /\ v.vc \in VectorClock /\ v.ts \in Nat /\ v.origin \in Nat /\ v.version \in Nat
        /\ w.vc \in VectorClock /\ w.ts \in Nat /\ w.origin \in Nat /\ w.version \in Nat
    <2>1. /\ v.vc \in VectorClock /\ v.ts \in Nat /\ v.version \in Nat
          /\ w.vc \in VectorClock /\ w.ts \in Nat /\ w.version \in Nat
          /\ v.origin \in Nodes \cup {0} /\ w.origin \in Nodes \cup {0}
      BY Zenon DEF Value
    <2>2. Nodes \cup {0} \subseteq Nat
      BY NodesAssumption
    <2> QED BY <2>1, <2>2, Zenon
  <1>2. /\ vectorClockCompare(v.vc, w.vc) \in {-1, 0, 1}
        /\ vectorClockCompare(w.vc, v.vc) \in {-1, 0, 1}
        /\ vectorClockCompare(v.vc, w.vc) < 0 <=> vectorClockCompare(w.vc, v.vc) > 0
        /\ vectorClockCompare(v.vc, w.vc) > 0 <=> vectorClockCompare(w.vc, v.vc) < 0
    BY <1>1, CompareClocks, Zenon
  <1> QED BY <1>1, <1>2 DEF isIncomingNewer, TieBreakNewer, compareValueToDigest,
                            valueToDigestEntry, Sign

(* The merged value is newer than the value it replaces.                   *)
LEMMA ResolveAdvances ==
  ASSUME NEW l \in Value, NEW w \in Value, isIncomingNewer(l, w)
  PROVE  isIncomingNewer(l, Resolve(l, w))
  <1> DEFINE r == Resolve(l, w)
  <1>1. /\ r \in Value /\ l.vc \in VectorClock /\ w.vc \in VectorClock
        /\ r.vc \in VectorClock
    BY ResolveClock, Zenon DEF Value
  <1>2. \A n \in Nodes : /\ l.vc[n] \in Nat /\ w.vc[n] \in Nat /\ r.vc[n] \in Nat
                         /\ l.vc[n] <= r.vc[n] /\ w.vc[n] <= r.vc[n]
                         /\ r.vc[n] \in {l.vc[n], w.vc[n]}
    BY <1>1, ResolveClock, Zenon DEF VectorClock
  <1>3. CASE \E n \in Nodes : l.vc[n] < r.vc[n]
    <2>1. vectorClockCompare(l.vc, r.vc) < 0
      BY <1>1, <1>2, <1>3, CompareClocks, Zenon
    <2> QED BY <2>1, Zenon DEF isIncomingNewer
  <1>4. CASE ~ \E n \in Nodes : l.vc[n] < r.vc[n]
    <2>1. \A n \in Nodes : l.vc[n] = r.vc[n] /\ w.vc[n] <= l.vc[n]
      <3> SUFFICES ASSUME NEW n \in Nodes
                   PROVE  l.vc[n] = r.vc[n] /\ w.vc[n] <= l.vc[n]
        BY Zenon
      <3> HIDE DEF r
      <3>1. ~ (l.vc[n] < r.vc[n])
        BY <1>4, Zenon
      <3> QED BY <1>2, <3>1
    <2>2. r.vc = l.vc
      BY <1>1, <2>1, ClocksEqual, Zenon
    <2>3. vectorClockCompare(l.vc, w.vc) = 0 /\ TieBreakNewer(l, w)
      BY <1>1, <1>2, <2>1, CompareClocks DEF isIncomingNewer
    <2>4. vectorClockCompare(l.vc, l.vc) = 0
      BY Zenon DEF vectorClockCompare
    <2>5. TieBreakNewer(l, r)
      BY <2>3, Zenon DEF TieBreakNewer, Resolve, Value
    <2> QED BY <2>2, <2>4, <2>5, Zenon DEF isIncomingNewer
  <1> QED BY <1>3, <1>4, Zenon

(* The first value a store gets for a key is newer than no value.          *)
LEMMA FirstValueAdvances ==
  ASSUME TypeOK, Integrity, NEW k \in Keys, NEW w \in Copies(k), w # NoValue
  PROVE  isIncomingNewer(NoValue, Resolve(NoValue, w))
  <1>1. w \in Value /\ NoValue \in Value
    BY CopiesType, NoValueType, Zenon
  <1>2. Genuine(k, w)
    BY Zenon DEF Integrity
  <1>3. writes[w.data] \in Write
    BY <1>2 DEF Genuine, TypeOK
  <1>4. w.origin \in Nodes /\ w.vc[w.origin] \in Nat \ {0}
    BY <1>1, <1>2, <1>3 DEF Genuine, Write, Value, VectorClock
  <1>5. \A n \in Nodes : NoValue.vc[n] = 0
    BY Zenon DEF NoValue, ZeroClock
  <1>6. Resolve(NoValue, w).vc \in VectorClock /\ NoValue.vc \in VectorClock
    BY <1>1, ResolveClock, Zenon DEF Value
  <1>7. \A n \in Nodes : /\ Resolve(NoValue, w).vc[n] \in Nat
                         /\ Resolve(NoValue, w).vc[n] >= w.vc[n]
    BY <1>1, <1>6, ResolveClock, Zenon DEF VectorClock
  <1>8. vectorClockCompare(NoValue.vc, Resolve(NoValue, w).vc) < 0
    BY <1>4, <1>5, <1>6, <1>7, CompareClocks, SMTT(30)
  <1> QED BY <1>8, Zenon DEF isIncomingNewer

(* A client's write is newer than the value it replaces.                   *)
LEMMA PutAdvances ==
  ASSUME TypeOK, NEW n \in Nodes, NEW k \in Keys, NEW t \in Nat
  PROVE  /\ isIncomingNewer(store[n][k], PutValue(n, k, t))
         /\ \A p \in Nodes : PutValue(n, k, t).vc[p] >= store[n][k].vc[p]
  <1>1. store[n][k] \in Value
    BY DEF TypeOK
  <1>2. store[n][k].vc \in VectorClock
    BY <1>1, Zenon DEF Value
  <1>3. PutValue(n, k, t).vc = [store[n][k].vc EXCEPT ![n] = @ + 1]
    BY Zenon DEF PutValue
  <1>4. PutValue(n, k, t).vc \in VectorClock
        /\ \A p \in Nodes : PutValue(n, k, t).vc[p] >= store[n][k].vc[p]
        /\ PutValue(n, k, t).vc[n] > store[n][k].vc[n]
    BY <1>2, <1>3, SMTT(30) DEF VectorClock
  <1>5. vectorClockCompare(store[n][k].vc, PutValue(n, k, t).vc) < 0
    BY <1>2, <1>4, SMTT(30) DEF vectorClockCompare, VectorClock
  <1> QED BY <1>4, <1>5, Zenon DEF isIncomingNewer

Advances ==
  \A n \in Nodes, k \in Keys :
    store'[n][k] # store[n][k] =>
      /\ isIncomingNewer(store[n][k], store'[n][k])
      /\ \A p \in Nodes : store'[n][k].vc[p] >= store[n][k].vc[p]

(* A protocol step only moves store entries forward.                       *)
LEMMA ProtocolAdvances ==
  ASSUME TypeOK, Integrity, Protocol
  PROVE  Advances
  <1>1. SUFFICES ASSUME NEW n \in Nodes, NEW k \in Keys,
                        NEW w \in Copies(k), Accepts(n, k, w),
                        store'[n][k] = Resolve(store[n][k], w)
                 PROVE  /\ isIncomingNewer(store[n][k], store'[n][k])
                        /\ \A p \in Nodes :
                             store'[n][k].vc[p] >= store[n][k].vc[p]
    BY StoreClockGrows, Zenon DEF Advances
  <1>2. store[n][k] \in Value /\ w \in Value
    BY CopiesType, Zenon DEF TypeOK
  <1>3. isIncomingNewer(store[n][k], store'[n][k])
    BY <1>1, <1>2, ResolveAdvances, FirstValueAdvances, Zenon DEF Accepts
  <1> QED BY <1>1, <1>2, <1>3, ResolveClock, Zenon

-----------------------------------------------------------------------------
(* The inductive invariant of the protocol under arbitrary clocks.         *)

Inv == TypeOK /\ Integrity /\ OwnEntry

(* The inductive invariant holds at first.                                 *)
LEMMA InvInit == Init => Inv
  BY TypeInit, IntegrityInit, OwnEntryInit, Zenon DEF Inv

(* A client's write keeps the inductive invariant and moves forward.       *)
LEMMA InvPut ==
  ASSUME Inv, NEW n \in Nodes, NEW k \in Keys, NEW t \in Nat, Put(n, k, t)
  PROVE  Inv' /\ Advances
  <1>1. Inv'
    BY TypePut, IntegrityPut, OwnEntryPut, Zenon DEF Inv
  <1>2. /\ store'[n][k] = PutValue(n, k, t)
        /\ \A p \in Nodes, j \in Keys :
             <<p, j>> # <<n, k>> => store'[p][j] = store[p][j]
    BY Zenon DEF Put, StoreValue, Inv, TypeOK
  <1>3. Advances
    BY <1>2, PutAdvances DEF Advances, Inv
  <1> QED BY <1>1, <1>3, Zenon

(* A protocol step keeps the inductive invariant and moves forward.        *)
LEMMA InvProtocol ==
  ASSUME Inv, Protocol
  PROVE  Inv' /\ Advances
  BY ProtocolType, IntegrityProtocol, OwnEntryProtocol, ProtocolAdvances, Zenon
     DEF Inv

(* So does a step that changes nothing.                                    *)
LEMMA InvStutter ==
  ASSUME Inv, UNCHANGED vars
  PROVE  Inv' /\ Advances
  <1>1. Inv'
    BY DEF Inv, TypeOK, Integrity, Genuine, OwnEntry, Copies, vars
  <1>2. Advances
    BY Zenon DEF vars, Advances
  <1> QED BY <1>1, <1>2, Zenon

(* Every step of Spec keeps the inductive invariant.                       *)
LEMMA InvNext == Inv /\ [Next]_vars => Inv' /\ Advances
  <1>1. Times \subseteq Nat
    BY GossipAssumption, Zenon
  <1> QED BY <1>1, InvPut, InvProtocol, InvStutter, Zenon DEF Next

(* Every step of SyncSpec keeps the inductive invariant.                   *)
LEMMA InvSyncNext == Inv /\ [SyncNext]_vars => Inv' /\ Advances
  <1>1. Inv => Len(writes) + 1 \in Nat
    BY DEF Inv, TypeOK
  <1> QED BY <1>1, InvPut, InvProtocol, InvStutter, Zenon DEF SyncNext

(* Whatever the clocks read, the protocol state stays well typed.          *)
THEOREM TypeCorrect == Spec => []TypeOK
  <1>1. Spec => []Inv
    BY InvInit, InvNext, PTL DEF Spec
  <1>2. Inv => TypeOK
    BY Zenon DEF Inv
  <1> QED BY <1>1, <1>2, PTL

(* Every copy of a key, stored or in flight, is a copy of a client's write *)
(* of that key, whatever is lost, repeated or reordered.                   *)
THEOREM CopiesAreWrites == Spec => []Integrity
  <1>1. Spec => []Inv
    BY InvInit, InvNext, PTL DEF Spec
  <1>2. Inv => Integrity
    BY Zenon DEF Inv
  <1> QED BY <1>1, <1>2, PTL

(* A node's own store has the largest count of its own writes.             *)
THEOREM OwnEntryIsLargest == Spec => []OwnEntry
  <1>1. Spec => []Inv
    BY InvInit, InvNext, PTL DEF Spec
  <1>2. Inv => OwnEntry
    BY Zenon DEF Inv
  <1> QED BY <1>1, <1>2, PTL

(* A stored key only moves forward in the protocol's own order, and its    *)
(* clock never shrinks (handleState, Put).                                 *)
THEOREM StoresAdvance == Spec => StoreAdvances
  <1>1. Inv /\ [Next]_vars => Inv' /\ [Advances]_vars
    BY InvNext, Zenon
  <1> QED BY <1>1, InvInit, PTL DEF Spec, StoreAdvances, Advances

(* A digest calls for exactly the values that the merge then accepts, so   *)
(* that no value is asked for again and again (propagation.go:124-155).    *)
THEOREM DigestsAskForWhatIsAccepted == Spec => []DigestAgreesWithMerge
  <1>1. Spec => []Inv
    BY InvInit, InvNext, PTL DEF Spec
  <1>2. Inv => DigestAgreesWithMerge
    BY CopiesType, DigestDecidesAlike, Zenon DEF Inv, DigestAgreesWithMerge
  <1> QED BY <1>1, <1>2, PTL

-----------------------------------------------------------------------------
(* Synchronised clocks.  A write's timestamp is its place in the history,  *)
(* and the causal past of a write lies before it.                          *)

Stamped == \A i \in DOMAIN writes : writes[i].ts = i

CausesEarlier ==
  /\ \A i \in DOMAIN writes : writes[i].causes \subseteq 1 .. i - 1
  /\ \A n \in Nodes, k \in Keys : seen[n][k] \subseteq 1 .. Len(writes)

SyncInv == Inv /\ Stamped /\ CausesEarlier /\ LastWriteWins

(* With synchronised clocks a copy's timestamp is its place in the         *)
(* history.                                                                *)
LEMMA CopyStamped ==
  ASSUME Inv, Stamped, NEW k \in Keys, NEW v \in Copies(k)
  PROVE  /\ v \in Value /\ v.ts = v.data
         /\ v # NoValue => /\ v.data \in DOMAIN writes /\ writes[v.data] \in Write
                           /\ v.origin \in Nodes /\ writes[v.data].ts = v.ts
                           /\ v.data \in Covered(k, v.vc)
  <1>1. v \in Value
    BY CopiesType, Zenon DEF Inv
  <1>2. ASSUME v # NoValue
        PROVE  /\ v.ts = v.data
               /\ v.data \in DOMAIN writes /\ writes[v.data] \in Write
               /\ v.origin \in Nodes /\ writes[v.data].ts = v.ts
               /\ v.data \in Covered(k, v.vc)
    <2>1. Genuine(k, v)
      BY <1>2, Zenon DEF Inv, Integrity
    <2>2. writes[v.data] \in Write
      BY <2>1 DEF Genuine, Inv, TypeOK
    <2> QED BY <2>1, <2>2, Zenon DEF Genuine, Stamped, Covered, Write
  <1>3. v = NoValue => v.ts = v.data
    BY DEF NoValue
  <1> QED BY <1>1, <1>2, <1>3, Zenon

(* An accepted value is never older than the value it replaces.            *)
LEMMA NewerIsLater ==
  ASSUME SyncInv, NEW k \in Keys, NEW l \in Copies(k), NEW w \in Copies(k),
         l # NoValue, w # NoValue, isIncomingNewer(l, w)
  PROVE  l.ts <= w.ts
  <1>1. /\ l \in Value /\ w \in Value
        /\ l.data \in DOMAIN writes /\ writes[l.data] \in Write
        /\ writes[l.data].ts = l.ts /\ l.origin \in Nodes
        /\ l.data \in Covered(k, l.vc)
    BY CopyStamped, Zenon DEF SyncInv
  <1>2. l.ts \in Nat /\ w.ts \in Nat /\ l.vc \in VectorClock /\ w.vc \in VectorClock
    BY <1>1, Zenon DEF Value
  <1>3. CASE vectorClockCompare(l.vc, w.vc) < 0
    <2>1. \A n \in Nodes : l.vc[n] <= w.vc[n] /\ l.vc[n] \in Nat /\ w.vc[n] \in Nat
      BY <1>2, <1>3, CompareClocks, Zenon DEF VectorClock
    <2>2. l.data \in Covered(k, w.vc)
      BY <1>1, <2>1 DEF Covered, Write
    <2> QED BY <1>1, <2>2, Zenon DEF SyncInv, LastWriteWins
  <1>4. CASE ~ (vectorClockCompare(l.vc, w.vc) < 0)
    <2>1. TieBreakNewer(l, w)
      BY <1>4, Zenon DEF isIncomingNewer
    <2> QED BY <1>2, <2>1 DEF TieBreakNewer
  <1> QED BY <1>3, <1>4, Zenon

(* If two copies are the newest writes their clocks cover, so is their     *)
(* merge.                                                                  *)
LEMMA ResolveLastWrite ==
  ASSUME SyncInv, NEW k \in Keys, NEW l \in Copies(k), NEW w \in Copies(k),
         w # NoValue, l = NoValue \/ isIncomingNewer(l, w),
         NEW i \in Covered(k, Resolve(l, w).vc)
  PROVE  writes[i].ts <= w.ts
  <1>1. l \in Value /\ w \in Value /\ w.ts \in Nat /\ l.ts \in Nat
    BY CopyStamped, Zenon DEF SyncInv, Value
  <1>2. /\ i \in DOMAIN writes /\ writes[i] \in Write /\ writes[i].key = k
        /\ writes[i].count <= Resolve(l, w).vc[writes[i].origin]
    BY DEF Covered, SyncInv, Inv, TypeOK
  <1>3. writes[i].origin \in Nodes /\ writes[i].count \in Nat \ {0}
        /\ writes[i].ts \in Nat
    BY <1>2, Zenon DEF Write
  <1>4. Resolve(l, w).vc[writes[i].origin]
          \in {l.vc[writes[i].origin], w.vc[writes[i].origin]}
    BY <1>1, <1>3, ResolveClock, Zenon
  <1>5. CASE writes[i].count <= w.vc[writes[i].origin]
    BY <1>2, <1>5, Zenon DEF Covered, SyncInv, LastWriteWins
  <1>6. CASE writes[i].count <= l.vc[writes[i].origin]
    <2>1. l # NoValue
      <3>1. NoValue.vc[writes[i].origin] = 0
        BY <1>3, Zenon DEF NoValue, ZeroClock
      <3> QED BY <1>3, <1>6, <3>1, SMTT(30)
    <2>2. writes[i].ts <= l.ts
      BY <1>2, <1>6, <2>1, Zenon DEF Covered, SyncInv, LastWriteWins
    <2>3. l.ts <= w.ts
      BY <2>1, NewerIsLater, Zenon
    <2> QED BY <1>1, <1>3, <2>2, <2>3, SMTT(30)
  <1> QED BY <1>2, <1>4, <1>5, <1>6, Zenon

(* Protocol steps keep every copy the newest of the writes it covers.      *)
LEMMA LastWriteProtocol ==
  ASSUME SyncInv, Protocol
  PROVE  LastWriteWins'
  <1>1. SUFFICES ASSUME NEW k \in Keys, NEW v \in Copies(k)', v # NoValue,
                        NEW i \in Covered(k, v.vc)'
                 PROVE  writes'[i].ts <= v.ts
    BY Zenon DEF LastWriteWins
  <1>2. writes' = writes
    BY ProtocolType, Zenon DEF SyncInv, Inv
  <1>3. i \in Covered(k, v.vc)
    BY <1>2, Zenon DEF Covered
  <1>4. CASE v \in Copies(k)
    BY <1>1, <1>2, <1>3, <1>4, Zenon DEF SyncInv, LastWriteWins
  <1>5. CASE FromMerge(k, v)
    <2>1. PICK l, w \in Copies(k) :
            /\ w # NoValue
            /\ l = NoValue \/ isIncomingNewer(l, w)
            /\ v = Resolve(l, w)
      BY <1>5, Zenon DEF FromMerge
    <2>2. w \in Value
      BY CopyStamped, Zenon DEF SyncInv
    <2>3. v.ts = w.ts
      BY <2>1, <2>2, Zenon DEF Resolve, Value
    <2> QED BY <1>2, <1>3, <2>1, <2>3, ResolveLastWrite, Zenon
  <1> QED BY <1>1, <1>4, <1>5, ProtocolCopies, Zenon DEF SyncInv, Inv

(* What a client's write appends to the history.                           *)
LEMMA PutWrites ==
  ASSUME TypeOK, NEW n \in Nodes, NEW k \in Keys, NEW t \in Nat, Put(n, k, t)
  PROVE  /\ Len(writes) \in Nat
         /\ DOMAIN writes = 1 .. Len(writes)
         /\ DOMAIN writes' = 1 .. Len(writes) + 1
         /\ Len(writes') = Len(writes) + 1
         /\ \A i \in DOMAIN writes : writes'[i] = writes[i]
         /\ writes'[Len(writes) + 1] =
              [key |-> k, origin |-> n, ts |-> t,
               count |-> store[n][k].vc[n] + 1, causes |-> seen[n][k]]
  BY SMTT(30) DEF Put, StoreValue, TypeOK

(* A client's write is newer than every write its clock covers.            *)
LEMMA LastWritePut ==
  ASSUME SyncInv, NEW n \in Nodes, NEW k \in Keys,
         Put(n, k, Len(writes) + 1)
  PROVE  LastWriteWins'
  <1> DEFINE N == Len(writes) + 1
  <1>1. SUFFICES ASSUME NEW j \in Keys, NEW v \in Copies(j)', v # NoValue,
                        NEW i \in Covered(j, v.vc)'
                 PROVE  writes'[i].ts <= v.ts
    BY Zenon DEF LastWriteWins
  <1>2. TypeOK /\ N \in Nat
    BY SMTT(30) DEF SyncInv, Inv, TypeOK
  <1>3. /\ Len(writes) \in Nat
        /\ DOMAIN writes = 1 .. Len(writes)
        /\ DOMAIN writes' = 1 .. Len(writes) + 1
        /\ \A x \in DOMAIN writes : writes'[x] = writes[x]
        /\ writes'[N] = [key |-> k, origin |-> n, ts |-> N,
                         count |-> store[n][k].vc[n] + 1, causes |-> seen[n][k]]
    BY <1>2, PutWrites, Zenon
  <1>4. /\ i \in DOMAIN writes' /\ writes'[i].key = j
        /\ writes'[i].count <= v.vc[writes'[i].origin]
    BY Zenon DEF Covered
  <1>5. CASE v \in Copies(j)
    <2>1. i # N
      <3>1. SUFFICES ASSUME i = N PROVE FALSE
        BY Zenon
      <3>2. j = k /\ store[n][k].vc[n] + 1 <= v.vc[n]
        <4>1. /\ writes'[N].key = k /\ writes'[N].origin = n
              /\ writes'[N].count = store[n][k].vc[n] + 1
          BY <1>3, SMTT(30)
        <4> QED BY <1>4, <3>1, <4>1, Zenon
      <3>3. v \in Value /\ store[n][k] \in Value
        BY <1>2, <1>5, CopiesType, Zenon DEF TypeOK
      <3>4. v.vc[n] \in Nat /\ store[n][k].vc[n] \in Nat
        BY <3>3, Zenon DEF Value, VectorClock
      <3>5. v.vc[n] <= store[n][k].vc[n]
        BY <1>5, <3>2, Zenon DEF SyncInv, Inv, OwnEntry
      <3> QED BY <3>2, <3>4, <3>5
    <2>2. i \in DOMAIN writes /\ writes'[i] = writes[i]
      BY <1>3, <1>4, <2>1
    <2>3. i \in Covered(j, v.vc)
      BY <1>4, <2>2, Zenon DEF Covered
    <2> QED BY <1>1, <1>5, <2>2, <2>3, Zenon DEF SyncInv, LastWriteWins
  <1>6. CASE v = PutValue(n, k, N)
    <2>1. v.ts = N
      BY <1>6, Zenon DEF PutValue
    <2>2. CASE i = N
      BY <1>2, <1>3, <2>1, <2>2, SMTT(30)
    <2>3. CASE i # N
      <3>1. i \in 1 .. Len(writes) /\ i \in DOMAIN writes
        BY <1>3, <1>4, <2>3
      <3>2. writes[i].ts = i
        BY <3>1, Zenon DEF SyncInv, Stamped
      <3>3. writes'[i].ts = i
        BY <1>3, <3>1, <3>2, Zenon
      <3> QED BY <1>3, <2>1, <3>1, <3>3, SMTT(30)
    <2> QED BY <2>2, <2>3, Zenon
  <1> QED BY <1>2, <1>5, <1>6, PutCopies, SMTT(30)

(* A client's write is stamped with its place, and its causes precede it.  *)
LEMMA StampedPut ==
  ASSUME SyncInv, NEW n \in Nodes, NEW k \in Keys,
         Put(n, k, Len(writes) + 1)
  PROVE  Stamped' /\ CausesEarlier'
  <1> DEFINE N == Len(writes) + 1
  <1>1. TypeOK /\ N \in Nat
    BY SMTT(30) DEF SyncInv, Inv, TypeOK
  <1>2. /\ Len(writes) \in Nat
        /\ DOMAIN writes = 1 .. Len(writes)
        /\ DOMAIN writes' = 1 .. Len(writes) + 1
        /\ Len(writes') = Len(writes) + 1
        /\ \A x \in DOMAIN writes : writes'[x] = writes[x]
        /\ writes'[N] = [key |-> k, origin |-> n, ts |-> N,
                         count |-> store[n][k].vc[n] + 1, causes |-> seen[n][k]]
    BY <1>1, PutWrites, Zenon
  <1>3. Stamped'
    BY <1>2, SMTT(30) DEF SyncInv, Stamped
  <1>4. ASSUME NEW i \in DOMAIN writes'
        PROVE  writes'[i].causes \subseteq 1 .. i - 1
    <2>1. CASE i \in DOMAIN writes
      BY <1>2, <2>1, Zenon DEF SyncInv, CausesEarlier
    <2>2. CASE i = N
      BY <1>2, <2>2, SMTT(30) DEF SyncInv, CausesEarlier
    <2> QED BY <1>2, <1>4, <2>1, <2>2, SMTT(30)
  <1>5. ASSUME NEW p \in Nodes, NEW j \in Keys
        PROVE  seen'[p][j] \subseteq 1 .. Len(writes')
    <2>1. seen'[p][j] \subseteq seen[p][j] \cup {N}
      BY <1>1, Zenon DEF Put, StoreValue, TypeOK
    <2>2. seen[p][j] \subseteq 1 .. Len(writes)
      BY Zenon DEF SyncInv, CausesEarlier
    <2> QED BY <1>2, <2>1, <2>2, SMTT(30)
  <1> QED BY <1>3, <1>4, <1>5, Zenon DEF CausesEarlier

(* Protocol steps keep the causes of a write before it.                    *)
LEMMA CausesProtocol ==
  ASSUME SyncInv, Protocol
  PROVE  Stamped' /\ CausesEarlier'
  <1>1. TypeOK /\ Integrity /\ writes' = writes
    BY ProtocolType, Zenon DEF SyncInv, Inv
  <1>2. ASSUME NEW n \in Nodes, NEW k \in Keys
        PROVE  seen'[n][k] \subseteq 1 .. Len(writes)
    <2>1. seen[n][k] \subseteq 1 .. Len(writes)
      BY Zenon DEF SyncInv, CausesEarlier
    <2>2. ASSUME NEW m \in msgs, OnMessage(m)
          PROVE  seen'[n][k] \subseteq 1 .. Len(writes)
      <3>1. m.to \in Nodes
        BY <1>1, Zenon DEF TypeOK, DigestMsg, StateMsg
      <3>2. PICK rest \in {msgs, msgs \ {m}} :
              \/ m.type = "DIGEST" /\ handleDigest(m, rest)
              \/ m.type = "STATE" /\ handleState(m, rest)
        BY <2>2, Zenon DEF OnMessage
      <3>3. CASE m.type = "DIGEST" /\ handleDigest(m, rest)
        BY <2>1, <3>3, Zenon DEF handleDigest
      <3>4. CASE m.type = "STATE" /\ handleState(m, rest)
        <4>1. \/ seen'[n][k] = seen[n][k]
              \/ /\ Accepts(m.to, k, m.state[k])
                 /\ seen'[n][k] = seen[n][k] \cup {m.state[k].data}
                                    \cup writes[m.state[k].data].causes
          BY <1>1, <3>1, <3>4, Zenon DEF handleState, MergeState, TypeOK
        <4>2. ASSUME Accepts(m.to, k, m.state[k])
              PROVE  {m.state[k].data} \cup writes[m.state[k].data].causes
                       \subseteq 1 .. Len(writes)
          <5>1. m.state[k] \in Copies(k) /\ m.state[k] # NoValue
            BY <3>4, <4>2, Zenon DEF Copies, Accepts
          <5>2. m.state[k].data \in DOMAIN writes
            BY <1>1, <5>1, Zenon DEF Integrity, Genuine
          <5>3. writes[m.state[k].data].causes \subseteq 1 .. m.state[k].data - 1
            BY <5>2, Zenon DEF SyncInv, CausesEarlier
          <5>4. DOMAIN writes = 1 .. Len(writes) /\ Len(writes) \in Nat
            BY <1>1 DEF TypeOK
          <5> QED BY <5>2, <5>3, <5>4, SMTT(30)
        <4> QED BY <2>1, <4>1, <4>2, Zenon
      <3> QED BY <3>2, <3>3, <3>4, Zenon
    <2> QED BY <2>1, <2>2, Zenon DEF Protocol, Tick, TickTo, Lose
  <1> QED BY <1>1, <1>2, Zenon DEF SyncInv, Stamped, CausesEarlier

(* The invariant for synchronised clocks holds at first.                   *)
LEMMA SyncInvInit == Init => SyncInv
  <1>1. Init => Stamped /\ CausesEarlier /\ LastWriteWins
    BY DEF Init, Stamped, CausesEarlier, LastWriteWins, Covered
  <1> QED BY <1>1, InvInit, Zenon DEF SyncInv

(* Every step of SyncSpec keeps the invariant for synchronised clocks.     *)
LEMMA SyncInvNext == SyncInv /\ [SyncNext]_vars => SyncInv'
  <1> SUFFICES ASSUME SyncInv, [SyncNext]_vars PROVE SyncInv'
    BY Zenon
  <1>1. Inv'
    BY InvSyncNext, Zenon DEF SyncInv
  <1>2. CASE Protocol
    BY <1>1, <1>2, CausesProtocol, LastWriteProtocol, Zenon DEF SyncInv
  <1>3. ASSUME NEW n \in Nodes, NEW k \in Keys, Put(n, k, Len(writes) + 1)
        PROVE  SyncInv'
    BY <1>1, <1>3, StampedPut, LastWritePut, Zenon DEF SyncInv
  <1>4. CASE UNCHANGED vars
    <2>1. Stamped' /\ CausesEarlier'
      BY <1>4, Zenon DEF SyncInv, Stamped, CausesEarlier, vars
    <2>2. LastWriteWins'
      BY <1>4 DEF SyncInv, LastWriteWins, Covered, Copies, vars
    <2> QED BY <1>1, <2>1, <2>2, Zenon DEF SyncInv
  <1> QED BY <1>2, <1>3, <1>4, Zenon DEF SyncNext

(* With synchronised clocks every copy of a key is the newest of the       *)
(* writes its clock covers, whatever the network does (isIncomingNewer     *)
(* and the merged clock of handleState).                                   *)
THEOREM LastWriteAlwaysWins == SyncSpec => []LastWriteWins
  <1>1. SyncInv => LastWriteWins
    BY Zenon DEF SyncInv
  <1> QED BY <1>1, SyncInvInit, SyncInvNext, PTL DEF SyncSpec

(* With synchronised clocks, replicas whose digests compare as equal hold  *)
(* the same value (compareValueToDigest).                                  *)
THEOREM EqualDigestsEqualValues == SyncSpec => []NoSilentDivergence
  <1>1. SyncInv => NoSilentDivergence
    <2> SUFFICES ASSUME SyncInv, NEW k \in Keys,
                        NEW v \in Copies(k), NEW w \in Copies(k),
                        compareValueToDigest(v, valueToDigestEntry(w)) = 0
                 PROVE  v.data = w.data
      BY Zenon DEF NoSilentDivergence
    <2>1. v.ts = v.data /\ w.ts = w.data /\ v \in Value /\ w \in Value
      BY CopyStamped, Zenon DEF SyncInv
    <2>2. v.ts \in Nat /\ w.ts \in Nat
      BY <2>1, Zenon DEF Value
    <2>3. v.ts = w.ts
      <3>1. v.ts # w.ts => Sign(v.ts, w.ts) # 0
        BY <2>2 DEF Sign
      <3>2. valueToDigestEntry(w).ts = w.ts
        BY Zenon DEF valueToDigestEntry
      <3> QED BY <3>1, <3>2, Zenon DEF compareValueToDigest
    <2> QED BY <2>1, <2>3, Zenon
  <1> QED BY <1>1, SyncInvInit, SyncInvNext, PTL DEF SyncSpec

-----------------------------------------------------------------------------
(* A step of the synchronised protocol never takes a replica's key to an   *)
(* older write.                                                            *)

DataForward ==
  \A n \in Nodes, k \in Keys :
    /\ store'[n][k].data \in Nat /\ store[n][k].data \in Nat
    /\ store'[n][k].data >= store[n][k].data

(* With synchronised clocks a protocol step never brings back an older     *)
(* write.                                                                  *)
LEMMA ProtocolDataForward ==
  ASSUME SyncInv, Protocol
  PROVE  DataForward
  <1> SUFFICES ASSUME NEW n \in Nodes, NEW k \in Keys
               PROVE  /\ store'[n][k].data \in Nat /\ store[n][k].data \in Nat
                      /\ store'[n][k].data >= store[n][k].data
    BY Zenon DEF DataForward
  <1>1. store[n][k] \in Copies(k)
    BY Zenon DEF Copies
  <1>2. store[n][k].data \in Nat /\ store[n][k].ts = store[n][k].data
    BY <1>1, CopyStamped, Zenon DEF SyncInv, Value
  <1>3. ASSUME NEW w \in Copies(k), Accepts(n, k, w),
               store'[n][k] = Resolve(store[n][k], w)
        PROVE  /\ store'[n][k].data \in Nat
               /\ store'[n][k].data >= store[n][k].data
    <2>1. w \in Value /\ w.ts = w.data /\ w.data \in Nat /\ w # NoValue
      <3>1. w \in Value /\ w.ts = w.data
        BY <1>3, CopyStamped, Zenon DEF SyncInv
      <3> QED BY <1>3, <3>1, Zenon DEF Value, Accepts
    <2>2. store'[n][k].data = w.data
      BY <1>3, <2>1, Zenon DEF Resolve, Value
    <2>3. CASE store[n][k] = NoValue
      <3>1. store[n][k].data = 0
        BY <2>3, SMTT(30) DEF NoValue
      <3> QED BY <2>1, <2>2, <3>1, SMTT(30)
    <2>4. CASE store[n][k] # NoValue
      <3>1. store[n][k].ts <= w.ts
        BY <1>1, <1>3, <2>1, <2>4, NewerIsLater, Zenon DEF Accepts
      <3> QED BY <1>2, <2>1, <2>2, <3>1, Zenon
    <2> QED BY <2>3, <2>4, Zenon
  <1>4. \/ store'[n][k] = store[n][k]
        \/ \E w \in Copies(k) : /\ Accepts(n, k, w)
                                /\ store'[n][k] = Resolve(store[n][k], w)
    BY StoreClockGrows, Zenon DEF SyncInv, Inv
  <1>5. CASE store'[n][k] = store[n][k]
    BY <1>2, <1>5, SMTT(30)
  <1> QED BY <1>2, <1>3, <1>4, <1>5, Zenon

(* A client's write is the newest write of all.                            *)
LEMMA PutDataForward ==
  ASSUME SyncInv, NEW n \in Nodes, NEW k \in Keys, Put(n, k, Len(writes) + 1)
  PROVE  DataForward
  <1> SUFFICES ASSUME NEW p \in Nodes, NEW j \in Keys
               PROVE  /\ store'[p][j].data \in Nat /\ store[p][j].data \in Nat
                      /\ store'[p][j].data >= store[p][j].data
    BY Zenon DEF DataForward
  <1>1. store[p][j] \in Copies(j)
    BY Zenon DEF Copies
  <1>2. /\ Len(writes) \in Nat /\ DOMAIN writes = 1 .. Len(writes)
        /\ store \in [Nodes -> [Keys -> Value]]
    BY SMTT(30) DEF SyncInv, Inv, TypeOK
  <1>3. store[p][j].data \in 0 .. Len(writes)
    BY <1>1, <1>2, CopyStamped DEF SyncInv, NoValue
  <1>4. store'[p][j].data \in {store[p][j].data, Len(writes) + 1}
    <2>1. store' = [store EXCEPT ![n][k] = PutValue(n, k, Len(writes) + 1)]
          /\ PutValue(n, k, Len(writes) + 1).data = Len(writes) + 1
      BY Zenon DEF Put, StoreValue, PutValue
    <2> QED BY <1>2, <2>1, Zenon
  <1> QED BY <1>2, <1>3, <1>4, SMTT(30)

(* With synchronised clocks no replica goes back to a value that the one   *)
(* it holds had overwritten (Put, handleState).                            *)
THEOREM CausalOrderKept == SyncSpec => CausalOrderRespected
  <1> DEFINE Kept ==
        \A n \in Nodes, k \in Keys :
          store[n][k] # NoValue =>
            store'[n][k].data \notin writes[store[n][k].data].causes
  <1>1. SyncInv /\ DataForward => Kept
    <2> SUFFICES ASSUME SyncInv, DataForward, NEW n \in Nodes, NEW k \in Keys,
                        store[n][k] # NoValue
                 PROVE  store'[n][k].data \notin writes[store[n][k].data].causes
      BY Zenon
    <2>1. store[n][k] \in Copies(k)
      BY Zenon DEF Copies
    <2>2. store[n][k].data \in DOMAIN writes
      BY <2>1, CopyStamped, Zenon DEF SyncInv
    <2>3. writes[store[n][k].data].causes \subseteq 1 .. store[n][k].data - 1
      BY <2>2, Zenon DEF SyncInv, CausesEarlier
    <2> QED BY <2>3, SMTT(30) DEF DataForward
  <1>2. SyncInv /\ [SyncNext]_vars => SyncInv' /\ [Kept]_vars
    BY <1>1, SyncInvNext, ProtocolDataForward, PutDataForward, Zenon
       DEF SyncNext
  <1> QED BY <1>2, SyncInvInit, PTL DEF SyncSpec, CausalOrderRespected

-----------------------------------------------------------------------------
(* The protocol with synchronised clocks implements LWWStore.              *)

(* Initial states map to initial states of LWWStore.                       *)
LEMMA AbstractInit == Init => Abstract!Init
  BY DEF Init, Abstract!Init, View, Log, NoValue

(* Two sequences with the same elements are the same.                      *)
LEMMA SameElements ==
  ASSUME NEW S, NEW s \in Seq(S), NEW t \in Seq(S), Len(s) = Len(t),
         \A i \in 1 .. Len(t) : s[i] = t[i]
  PROVE  s = t
  OBVIOUS

(* The log of LWWStore is a sequence of keys.                              *)
LEMMA LogType ==
  ASSUME TypeOK
  PROVE  Log \in Seq(Keys) /\ Len(Log) = Len(writes)
  <1>1. writes \in Seq(Write) /\ Len(writes) \in Nat
    BY DEF TypeOK
  <1>2. \A i \in 1 .. Len(writes) : writes[i] \in Write
    BY <1>1
  <1>3. \A i \in 1 .. Len(writes) : writes[i].key \in Keys
    BY <1>2, Zenon DEF Write
  <1> QED BY <1>1, <1>3 DEF Log

(* So is the log after a step.                                             *)
LEMMA LogTypePrimed ==
  ASSUME TypeOK'
  PROVE  Log' \in Seq(Keys) /\ Len(Log') = Len(writes')
  <1>1. writes' \in Seq(Write) /\ Len(writes') \in Nat
    BY DEF TypeOK
  <1>2. \A i \in 1 .. Len(writes') : writes'[i] \in Write
    BY <1>1
  <1>3. \A i \in 1 .. Len(writes') : writes'[i].key \in Keys
    BY <1>2, Zenon DEF Write
  <1> QED BY <1>1, <1>3 DEF Log

(* A client's write is a Write of LWWStore.                                *)
LEMMA AbstractPut ==
  ASSUME SyncInv, NEW n \in Nodes, NEW k \in Keys, Put(n, k, Len(writes) + 1)
  PROVE  Abstract!Write(n, k)
  <1> DEFINE N == Len(writes) + 1
  <1>1. TypeOK /\ N \in Nat
    BY DEF SyncInv, Inv, TypeOK
  <1>2. /\ Len(writes) \in Nat
        /\ DOMAIN writes = 1 .. Len(writes)
        /\ Len(writes') = N
        /\ \A x \in DOMAIN writes : writes'[x] = writes[x]
        /\ writes'[N] = [key |-> k, origin |-> n, ts |-> N,
                         count |-> store[n][k].vc[n] + 1, causes |-> seen[n][k]]
    BY <1>1, PutWrites, Zenon
  <1>3. Log \in Seq(Keys) /\ Len(Log) = Len(writes)
    BY <1>1, LogType, Zenon
  <1>4. Log' = Append(Log, k)
    <2>1. TypeOK'
      BY <1>1, TypePut, Zenon
    <2>2. Log' \in Seq(Keys) /\ Len(Log') = N
      BY <1>2, <2>1, LogTypePrimed, Zenon
    <2>3. /\ Append(Log, k) \in Seq(Keys) /\ Len(Append(Log, k)) = N
          /\ \A i \in 1 .. Len(writes) : Append(Log, k)[i] = Log[i]
          /\ Append(Log, k)[N] = k
      BY <1>3, SMTT(30)
    <2>4. \A i \in 1 .. N : Log'[i] = Append(Log, k)[i]
      <3>1. Log'[N] = k
        BY <1>1, <1>2, SMTT(30) DEF Log
      <3>2. \A i \in 1 .. Len(writes) : Log'[i] = Log[i]
        BY <1>2, SMTT(30) DEF Log
      <3> QED BY <1>2, <2>3, <3>1, <3>2, SMTT(30)
    <2> HIDE DEF N
    <2> QED BY <2>2, <2>3, <2>4, SameElements, Zenon
  <1>5. View' = [View EXCEPT ![n][k] = Len(Log) + 1]
    <2>1. store' = [store EXCEPT ![n][k] = PutValue(n, k, N)]
          /\ PutValue(n, k, N).data = N
      BY Zenon DEF Put, StoreValue, PutValue
    <2> QED BY <1>1, <1>3, <2>1, Zenon DEF View, TypeOK
  <1> QED BY <1>4, <1>5, Zenon DEF Abstract!Write

(* A protocol step is a CatchUp of LWWStore or changes no view.            *)
LEMMA AbstractProtocol ==
  ASSUME SyncInv, Protocol
  PROVE  (\E n \in Nodes : Abstract!CatchUp(n)) \/ UNCHANGED <<View, Log>>
  <1>1. TypeOK /\ TypeOK' /\ Integrity' /\ writes' = writes
    BY ProtocolType, IntegrityProtocol, Zenon DEF SyncInv, Inv
  <1>2. Log' = Log /\ Log \in Seq(Keys) /\ Len(Log) = Len(writes)
        /\ Len(writes) \in Nat /\ DOMAIN writes = 1 .. Len(writes)
    BY <1>1, LogType DEF Log, TypeOK
  <1>3. CASE store' = store
    BY <1>2, <1>3, Zenon DEF View
  <1>4. ASSUME NEW n \in Nodes,
               \A p \in Nodes : p # n => store'[p] = store[p]
        PROVE  Abstract!CatchUp(n)
    <2> DEFINE new == [k \in Keys |-> store'[n][k].data]
    <2>1. \A k \in Keys : store'[n][k].data \in 0 .. Len(Log)
                          /\ (store'[n][k].data # store[n][k].data =>
                                /\ store'[n][k].data > store[n][k].data
                                /\ Log[store'[n][k].data] = k)
      <3> SUFFICES ASSUME NEW k \in Keys
                   PROVE  store'[n][k].data \in 0 .. Len(Log)
                          /\ (store'[n][k].data # store[n][k].data =>
                                /\ store'[n][k].data > store[n][k].data
                                /\ Log[store'[n][k].data] = k)
        BY Zenon
      <3>1. /\ store'[n][k].data \in Nat /\ store[n][k].data \in Nat
            /\ store'[n][k].data >= store[n][k].data
        BY ProtocolDataForward, Zenon DEF DataForward
      <3>2. CASE store'[n][k] = NoValue
        <4>1. store'[n][k].data = 0
          BY <3>2, SMTT(30) DEF NoValue
        <4> QED BY <1>2, <3>1, <4>1
      <3>3. CASE store'[n][k] # NoValue
        <4>1. store'[n][k] \in Copies(k)'
          BY Zenon DEF Copies
        <4>2. /\ store'[n][k].data \in DOMAIN writes
              /\ writes[store'[n][k].data].key = k
          BY <1>1, <3>3, <4>1, Zenon DEF Integrity, Genuine
        <4>3. Log[store'[n][k].data] = k
          BY <4>2 DEF Log
        <4> QED BY <1>2, <3>1, <4>2, <4>3
      <3> QED BY <3>2, <3>3, Zenon
    <2>2. new \in [Keys -> 0 .. Len(Log)]
      BY <2>1, Zenon
    <2>3. View' = [View EXCEPT ![n] = new]
      BY <1>4, Zenon DEF View
    <2>4. \A k \in Keys : new[k] # View[n][k] =>
                            new[k] > View[n][k] /\ Log[new[k]] = k
      BY <2>1, Zenon DEF View
    <2> HIDE DEF new
    <2> QED BY <1>2, <2>2, <2>3, <2>4, Zenon DEF Abstract!CatchUp
  <1>5. ASSUME NEW m \in msgs, OnMessage(m)
        PROVE  \/ store' = store
               \/ \E n \in Nodes : \A p \in Nodes : p # n => store'[p] = store[p]
    <2>1. m.to \in Nodes
      BY <1>1, Zenon DEF TypeOK, DigestMsg, StateMsg
    <2> QED BY <1>1, <1>5, <2>1, Zenon
            DEF OnMessage, handleDigest, handleState, MergeState, TypeOK
  <1> QED BY <1>3, <1>4, <1>5, Zenon DEF Protocol, Tick, TickTo, Lose

(* With synchronised clocks the gossip protocol implements LWWStore.       *)
THEOREM GossipImplementsLWWStore == SyncSpec => ImplementsLWWStore
  <1>1. SyncInv /\ [SyncNext]_vars => [Abstract!Next]_<<View, Log>>
    <2> SUFFICES ASSUME SyncInv, [SyncNext]_vars
                 PROVE  [Abstract!Next]_<<View, Log>>
      BY Zenon
    <2>1. CASE Protocol
      BY <2>1, AbstractProtocol, Zenon DEF Abstract!Next
    <2>2. ASSUME NEW n \in Nodes, NEW k \in Keys, Put(n, k, Len(writes) + 1)
          PROVE  Abstract!Next
      BY <2>2, AbstractPut, Zenon DEF Abstract!Next
    <2>3. CASE UNCHANGED vars
      BY <2>3, Zenon DEF vars, View, Log
    <2> QED BY <2>1, <2>2, <2>3, Zenon DEF SyncNext
  <1> QED BY <1>1, AbstractInit, SyncInvInit, SyncInvNext, PTL
          DEF SyncSpec, ImplementsLWWStore, Abstract!Spec

-----------------------------------------------------------------------------
(* A protocol swap empties a store, which ends OwnEntry and all that rests *)
(* on it.  What is left of the invariant is that copies are genuine.       *)
GenuineInv == TypeOK /\ Integrity

(* The new instance of the protocol starts with the peers of the           *)
(* configuration and without copies of its own.                            *)
LEMMA GenuineSwap ==
  ASSUME GenuineInv, NEW n \in Nodes, applyProtocolSwap(n)
  PROVE  GenuineInv'
  <1>1. [k \in Keys |-> NoValue] \in [Keys -> Value]
    BY NoValueType, Zenon
  <1>2. /\ store' = [store EXCEPT ![n] = [k \in Keys |-> NoValue]]
        /\ seen' = [seen EXCEPT ![n] = [k \in Keys |-> {}]]
        /\ tick' = [tick EXCEPT ![n] = 0]
        /\ peers' = [peers EXCEPT ![n] = config[n]]
        /\ forceSync' = [forceSync EXCEPT ![n] = config[n]]
        /\ UNCHANGED <<config, msgs, writes>>
    BY Zenon DEF applyProtocolSwap, ResetProtocol
  <1>3. 0 \in 0 .. GossipInterval - 1
    BY GossipAssumption
  <1>4. TypeOK'
    <2>1. store' \in [Nodes -> [Keys -> Value]]
      BY <1>1, <1>2, Zenon DEF GenuineInv, TypeOK
    <2>2. seen' \in [Nodes -> [Keys -> SUBSET Nat]]
      BY <1>2, Zenon DEF GenuineInv, TypeOK
    <2>3. /\ peers' \in [Nodes -> SUBSET Nodes]
          /\ forceSync' \in [Nodes -> SUBSET Nodes]
          /\ tick' \in [Nodes -> 0 .. GossipInterval - 1]
      BY <1>2, <1>3, Zenon DEF GenuineInv, TypeOK
    <2> QED BY <1>2, <2>1, <2>2, <2>3, Zenon DEF GenuineInv, TypeOK
  <1>5. \A k \in Keys : Copies(k)' \subseteq Copies(k) \cup {NoValue}
    BY <1>2, Zenon DEF Copies, GenuineInv, TypeOK
  <1>6. Integrity'
    <2>1. ASSUME NEW k \in Keys, NEW v \in Copies(k)', v # NoValue
          PROVE  Genuine(k, v)'
      <3>1. Genuine(k, v)
        BY <1>5, <2>1, Zenon DEF Integrity, GenuineInv
      <3> QED BY <1>2, <3>1, Zenon DEF Genuine
    <2> QED BY <2>1, Zenon DEF Integrity
  <1> QED BY <1>4, <1>6, Zenon DEF GenuineInv

(* Every step keeps copies genuine, swaps included.                        *)
LEMMA GenuineStep == GenuineInv /\ [SwapNext]_vars => GenuineInv'
  <1> SUFFICES ASSUME GenuineInv, [SwapNext]_vars PROVE GenuineInv'
    BY Zenon
  <1>1. CASE Protocol
    BY <1>1, ProtocolType, IntegrityProtocol, Zenon DEF GenuineInv
  <1>2. ASSUME NEW n \in Nodes, NEW k \in Keys, Put(n, k, Len(writes) + 1)
        PROVE  GenuineInv'
    <2>1. Len(writes) + 1 \in Nat
      BY DEF GenuineInv, TypeOK
    <2> QED BY <1>2, <2>1, TypePut, IntegrityPut, Zenon DEF GenuineInv
  <1>3. CASE UNCHANGED vars
    BY <1>3 DEF GenuineInv, TypeOK, Integrity, Genuine, Copies, vars
  <1> QED BY <1>1, <1>2, <1>3, GenuineSwap, Zenon DEF SwapNext, SyncNext

(* Every copy of a key is a copy of a client's write, even when nodes swap *)
(* their protocol and forget their stores while envelopes are in flight    *)
(* (protocol_swap.go:10-70).                                               *)
THEOREM CopiesSurviveSwaps == SwapSpec => []Integrity
  <1>1. Init => GenuineInv
    BY TypeInit, IntegrityInit, Zenon DEF GenuineInv
  <1>2. GenuineInv => Integrity
    BY Zenon DEF GenuineInv
  <1> QED BY <1>1, <1>2, GenuineStep, PTL DEF SwapSpec

=============================================================================
