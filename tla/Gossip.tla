------------------------------- MODULE Gossip -------------------------------
(***************************************************************************)
(* The gossip protocol of internal/node/protocol/gossip: every node keeps  *)
(* a key-value store, every few ticks it sends a digest of the store to    *)
(* one peer, and nodes that hold something newer answer with the values.   *)
(*                                                                         *)
(* One action is one event of a node's reactor (internal/node/runtime/     *)
(* reactor.go), which runs the protocol single-threaded.  The network is   *)
(* the set of envelopes in flight: it may lose, reorder and repeat them,   *)
(* which contains everything the session layer and the fault engine can    *)
(* do to an envelope (GossipRuntime models those and refines this module). *)
(***************************************************************************)
EXTENDS ConflictResolution, Sequences, FiniteSets

CONSTANTS
  Keys,            \* the keys clients write
  Times,           \* the readings of the nodes' wall clocks, in milliseconds
  GossipInterval,  \* ticks between two digests; 3 in the code
  InitPeers,       \* the peers a node learns from the control plane at start
  MaxWrites,       \* bound on the writes of a behaviour
  MaxMsgs          \* bound on the envelopes in flight

ASSUME GossipAssumption ==
  /\ Times \subseteq Nat
  /\ GossipInterval \in Nat \ {0}
  /\ InitPeers \in [Nodes -> SUBSET Nodes]
  /\ \A n \in Nodes : n \notin InitPeers[n]
  /\ MaxWrites \in Nat /\ MaxMsgs \in Nat

VARIABLES
  store,      \* GossipProtocol.store
  peers,      \* GossipProtocol.peers
  forceSync,  \* GossipProtocol.forceSyncPeers
  tick,       \* GossipProtocol.tick, modulo the interval
  config,     \* Runtime.config.Peers
  msgs,       \* envelopes in flight
  writes,     \* history: the client writes, in order
  seen        \* history: the writes in the causal past of a replica's key

vars == <<store, peers, forceSync, tick, config, msgs, writes, seen>>

(***************************************************************************)
(* A write is identified by its position in the history, which is also     *)
(* the data it stores: clients write distinct values.  count is the        *)
(* writer's own clock entry and causes the causal past of the write.       *)
(***************************************************************************)
Write == [key : Keys, origin : Nodes, ts : Nat, count : Nat \ {0},
          causes : SUBSET Nat]

DigestMsg == [type : {"DIGEST"}, from : Nodes, to : Nodes,
              digest : [Keys -> DigestEntry]]

StateMsg == [type : {"STATE"}, from : Nodes, to : Nodes,
             state : [Keys -> Value]]

-----------------------------------------------------------------------------

Init ==
  /\ store = [n \in Nodes |-> [k \in Keys |-> NoValue]]
  /\ peers = InitPeers
  /\ forceSync = InitPeers
  /\ tick = [n \in Nodes |-> 0]
  /\ config = InitPeers
  /\ msgs = {}
  /\ writes = <<>>
  /\ seen = [n \in Nodes |-> [k \in Keys |-> {}]]

Digest(from, to) ==
  [type |-> "DIGEST", from |-> from, to |-> to,
   digest |-> [k \in Keys |-> valueToDigestEntry(store[from][k])]]

Send(rest, out) ==
  /\ msgs' = rest \cup out
  /\ Cardinality(msgs') <= MaxMsgs

-----------------------------------------------------------------------------
(* A KV_PUT action: node n stores a new value of key k, stamped with its   *)
(* wall clock t and its own clock entry incremented.                       *)

PutValue(n, k, t) ==
  [data |-> Len(writes) + 1, version |-> store[n][k].version + 1,
   origin |-> n, ts |-> t,
   vc |-> [store[n][k].vc EXCEPT ![n] = @ + 1]]

StoreValue(n, k, t) ==
  /\ store' = [store EXCEPT ![n][k] = PutValue(n, k, t)]
  /\ writes' = Append(writes, [key |-> k, origin |-> n, ts |-> t,
                               count |-> store[n][k].vc[n] + 1,
                               causes |-> seen[n][k]])
  /\ seen' = [seen EXCEPT ![n][k] = @ \cup {Len(writes) + 1}]

Put(n, k, t) ==
  /\ Len(writes) < MaxWrites
  /\ StoreValue(n, k, t)
  /\ UNCHANGED <<peers, forceSync, tick, config, msgs>>

-----------------------------------------------------------------------------
(* Every GossipInterval-th tick sends a digest of the whole store to one   *)
(* peer: one waiting for an active sync, or else any peer.                 *)

NextTick(n) == (tick[n] + 1) % GossipInterval

SyncTargets(n) == IF forceSync[n] # {} THEN forceSync[n] ELSE peers[n]

TickTo(n, p) ==
  /\ NextTick(n) = 0
  /\ p \in SyncTargets(n)
  /\ forceSync' = [forceSync EXCEPT ![n] = @ \ {p}]

Tick(n) ==
  /\ tick' = [tick EXCEPT ![n] = NextTick(n)]
  /\ \/ /\ NextTick(n) # 0 \/ SyncTargets(n) = {}
        /\ UNCHANGED <<forceSync, msgs>>
     \/ \E p \in Nodes : TickTo(n, p) /\ Send(msgs, {Digest(n, p)})
  /\ UNCHANGED <<store, peers, config, writes, seen>>

-----------------------------------------------------------------------------
(* Envelopes.  rest is what stays in flight: without the envelope, or with *)
(* it when the network repeats it.                                         *)

(* GossipProtocol.SetPeers on node n, whose protocol knows the peers old.  *)
SetPeers(n, ids, old) ==
  /\ peers' = [peers EXCEPT ![n] = ids \ {n}]
  /\ forceSync' = [forceSync EXCEPT ![n] = @ \cup ((ids \ {n}) \ old)]

(* An envelope from an unknown sender makes it a peer: the protocol adds   *)
(* it, and the discovery callback adds it to the runtime's configuration   *)
(* and sets the protocol's peers from that configuration.                  *)
OnPeerDiscovered(n, sender) ==
  IF sender \in peers[n] \cup {n}
  THEN UNCHANGED <<peers, forceSync, config>>
  ELSE /\ config' = [config EXCEPT ![n] = @ \cup {sender}]
       /\ SetPeers(n, config[n] \cup {sender}, peers[n] \cup {sender})

(* The values node n sends back: those the remote digest lacks or has an   *)
(* older version of.  NoValue marks a key that is not in the message.      *)
Newer(n, digest) ==
  [k \in Keys |->
     IF /\ store[n][k] # NoValue
        /\ \/ digest[k] = NoEntry
           \/ compareValueToDigest(store[n][k], digest[k]) > 0
     THEN store[n][k] ELSE NoValue]

Behind(n, digest) ==
  \E k \in Keys :
    /\ digest[k] # NoEntry
    /\ \/ store[n][k] = NoValue
       \/ compareValueToDigest(store[n][k], digest[k]) < 0

StateReply(n, from, digest) ==
  {[type |-> "STATE", from |-> n, to |-> from, state |-> Newer(n, digest)] :
     x \in {k \in Keys : Newer(n, digest)[k] # NoValue}}

SyncRequest(n, from, digest) ==
  IF Behind(n, digest) THEN {Digest(n, from)} ELSE {}

DigestReplies(n, from, digest) ==
  StateReply(n, from, digest) \cup SyncRequest(n, from, digest)

handleDigest(m, rest) ==
  /\ Send(rest, DigestReplies(m.to, m.from, m.digest))
  /\ UNCHANGED <<store, seen>>

Accepts(n, k, v) ==
  /\ v # NoValue
  /\ store[n][k] = NoValue \/ isIncomingNewer(store[n][k], v)

Resolve(local, incoming) ==
  [incoming EXCEPT !.vc = mergedVC(local.vc, incoming.vc)]

Merged(n, k, v) ==
  IF Accepts(n, k, v) THEN Resolve(store[n][k], v) ELSE store[n][k]

MergeState(n, state) ==
  /\ store' = [store EXCEPT ![n] = [k \in Keys |-> Merged(n, k, state[k])]]
  /\ seen' = [seen EXCEPT ![n] =
                [k \in Keys |->
                   IF Accepts(n, k, state[k])
                   THEN seen[n][k] \cup {state[k].data}
                          \cup writes[state[k].data].causes
                   ELSE seen[n][k]]]

handleState(m, rest) == MergeState(m.to, m.state) /\ msgs' = rest

OnMessage(m) ==
  /\ OnPeerDiscovered(m.to, m.from)
  /\ \E rest \in {msgs, msgs \ {m}} :
       \/ m.type = "DIGEST" /\ handleDigest(m, rest)
       \/ m.type = "STATE" /\ handleState(m, rest)
  /\ UNCHANGED <<tick, writes>>

Lose(m) ==
  /\ msgs' = msgs \ {m}
  /\ UNCHANGED <<store, peers, forceSync, tick, config, writes, seen>>

-----------------------------------------------------------------------------
(* A protocol swap: a new instance of the protocol with an empty store     *)
(* takes over (internal/node/runtime/protocol_swap.go).                    *)

ResetProtocol(n) ==
  /\ store' = [store EXCEPT ![n] = [k \in Keys |-> NoValue]]
  /\ seen' = [seen EXCEPT ![n] = [k \in Keys |-> {}]]
  /\ tick' = [tick EXCEPT ![n] = 0]
  /\ peers' = [peers EXCEPT ![n] = config[n]]
  /\ forceSync' = [forceSync EXCEPT ![n] = config[n]]

applyProtocolSwap(n) == ResetProtocol(n) /\ UNCHANGED <<config, msgs, writes>>

-----------------------------------------------------------------------------

Protocol ==
  \/ \E n \in Nodes : Tick(n)
  \/ \E m \in msgs : OnMessage(m)
  \/ \E m \in msgs : Lose(m)

(* Clocks may disagree, stand still between writes and jump.               *)
Next == Protocol \/ \E n \in Nodes, k \in Keys, t \in Times : Put(n, k, t)

(* Clocks are synchronised and advance between any two writes, so that a   *)
(* write's timestamp is its place in the history.                          *)
SyncNext ==
  Protocol \/ \E n \in Nodes, k \in Keys : Put(n, k, Len(writes) + 1)

SwapNext == SyncNext \/ \E n \in Nodes : applyProtocolSwap(n)

Spec == Init /\ [][Next]_vars

SyncSpec == Init /\ [][SyncNext]_vars

SwapSpec == Init /\ [][SwapNext]_vars

-----------------------------------------------------------------------------
(* Type correctness of the protocol state and of the envelopes.            *)
TypeOK ==
  /\ store \in [Nodes -> [Keys -> Value]]
  /\ peers \in [Nodes -> SUBSET Nodes]
  /\ forceSync \in [Nodes -> SUBSET Nodes]
  /\ tick \in [Nodes -> 0 .. GossipInterval - 1]
  /\ config \in [Nodes -> SUBSET Nodes]
  /\ msgs \subseteq DigestMsg \cup StateMsg
  /\ writes \in Seq(Write)
  /\ seen \in [Nodes -> [Keys -> SUBSET Nat]]

(* The copies of key k: one in each store, one in each STATE envelope.     *)
Copies(k) ==
  {store[n][k] : n \in Nodes} \cup
  {m.state[k] : m \in {x \in msgs : x.type = "STATE"}}

(* Every copy of a key is a copy of a client's write of that key: no       *)
(* merge, digest answer or repeated envelope mixes two values up, and the  *)
(* copy's clock counts the write itself (crud.go:23-29,                    *)
(* conflict_resolution.go:33-35).                                          *)
Genuine(k, v) ==
  /\ v.data \in DOMAIN writes
  /\ writes[v.data].key = k
  /\ writes[v.data].origin = v.origin
  /\ writes[v.data].ts = v.ts
  /\ writes[v.data].count <= v.vc[v.origin]

Integrity ==
  \A k \in Keys : \A v \in Copies(k) : v # NoValue => Genuine(k, v)

(* No copy of a key counts more writes of a node than that node's own      *)
(* store does, so that Put, which numbers a write with its own entry plus  *)
(* one, never uses a number twice (crud.go:16, conflict_resolution.go:19). *)
OwnEntry ==
  \A k \in Keys, n \in Nodes : \A v \in Copies(k) :
    v.vc[n] <= store[n][k].vc[n]

(* A sent digest is compared by compareValueToDigest and the answer is     *)
(* merged by isIncomingNewer: for any two copies the two must agree, or a  *)
(* node would ask forever for a value it then rejects (propagation.go:124, *)
(* 155 and conflict_resolution.go:10).                                     *)
DigestAgreesWithMerge ==
  \A k \in Keys : \A v, w \in Copies(k) :
    (v # NoValue /\ w # NoValue) =>
      /\ isIncomingNewer(v, w) <=> compareValueToDigest(w, valueToDigestEntry(v)) > 0
      /\ isIncomingNewer(v, w) <=> compareValueToDigest(v, valueToDigestEntry(w)) < 0

(* A replica's key only ever moves forward in the order the protocol       *)
(* itself compares with, and its clock never loses an entry: two replicas  *)
(* cannot pass two values back and forth for ever (conflict_resolution.go).*)
StoreAdvances ==
  [][\A n \in Nodes, k \in Keys :
       store'[n][k] # store[n][k] =>
         /\ isIncomingNewer(store[n][k], store'[n][k])
         /\ \A p \in Nodes : store'[n][k].vc[p] >= store[n][k].vc[p]]_vars

(* A clock's entries count writes, so a clock covers the writes of key k   *)
(* whose number it has reached.                                            *)
Covered(k, vc) ==
  {i \in DOMAIN writes : /\ writes[i].key = k
                         /\ writes[i].count <= vc[writes[i].origin]}

(* Last write wins: every copy of a key is the newest of all the writes    *)
(* its own clock covers.  Equal clocks therefore mean equal values, and    *)
(* the last write of all wins wherever it arrives                          *)
(* (conflict_resolution.go:86-109 with the merged clock of 19-35).         *)
LastWriteWins ==
  \A k \in Keys : \A v \in Copies(k) :
    v # NoValue => \A i \in Covered(k, v.vc) : writes[i].ts <= v.ts

(* Two replicas whose digest entries compare as equal hold the same value: *)
(* otherwise neither would ever send its own and they would differ for     *)
(* good, the digest carrying no data (propagation.go:254-279).             *)
NoSilentDivergence ==
  \A k \in Keys : \A v, w \in Copies(k) :
    (v # NoValue /\ w # NoValue
       /\ compareValueToDigest(v, valueToDigestEntry(w)) = 0)
      => v.data = w.data

(* A replica never goes back to a value that the value it holds had        *)
(* overwritten: "vector clocks decide causal order".                       *)
CausalOrderRespected ==
  [][\A n \in Nodes, k \in Keys :
       store[n][k] # NoValue =>
         store'[n][k].data \notin writes[store[n][k].data].causes]_vars

(***************************************************************************)
(* With synchronised clocks the protocol implements the abstract store.    *)
(***************************************************************************)
View == [n \in Nodes |-> [k \in Keys |-> store[n][k].data]]

Log == [i \in 1 .. Len(writes) |-> writes[i].key]

Abstract == INSTANCE LWWStore WITH view <- View, log <- Log

(* Every step of the gossip protocol is a client's write, a replica's      *)
(* catching up with later writes, or invisible to clients.                 *)
ImplementsLWWStore == Abstract!Spec

-----------------------------------------------------------------------------
(* What the code does not keep: Gossip_dominance.cfg and Gossip_swap.cfg   *)
(* end in counterexamples, and so does Gossip_skew_causality.cfg, which    *)
(* checks CausalOrderRespected with clocks that are not synchronised.      *)

(* When one clock dominates another, its value "must have happened after"  *)
(* the other's.                                                            *)
DominanceIsCausality ==
  \A k \in Keys : \A v, w \in Copies(k) :
    (/\ v # NoValue /\ w # NoValue /\ v.data # w.data
     /\ vectorClockCompare(v.vc, w.vc) > 0)
      => w.data \in writes[v.data].causes

(* Of two values of a key the merge keeps the one with the highest         *)
(* timestamp.                                                              *)
HighestTimestampChosen ==
  [][\A n \in Nodes, k \in Keys :
       store'[n][k] # NoValue => store'[n][k].ts >= store[n][k].ts]_vars
=============================================================================
