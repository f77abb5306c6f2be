--------------------------- MODULE GossipRuntime ---------------------------
(***************************************************************************)
(* The node runtime around the gossip protocol (internal/node/runtime,     *)
(* internal/node/server.go, internal/node/session, internal/fault).        *)
(*                                                                         *)
(* Each node has a reactor goroutine that takes events from a buffered     *)
(* channel one at a time and sends the protocol's envelopes itself, each   *)
(* one through the fault engine and a remote call that returns when the    *)
(* receiver's handler has put the envelope into the receiver's channel, or *)
(* after two seconds.  A tick driver, the RPC handlers and the operator's  *)
(* fault commands run beside it.                                           *)
(*                                                                         *)
(* A Go channel with blocked senders is one queue: the first Capacity      *)
(* events are in the buffer, the rest belong to goroutines blocked on the  *)
(* send, which Go admits in their order of arrival.                        *)
(***************************************************************************)
EXTENDS ConflictResolution, Sequences, FiniteSets, Functions

CONSTANTS
  Keys, GossipInterval, InitPeers,
  Capacity,     \* of the event channel; 1024 in the code
  MaxQueue,     \* bound on the events and blocked senders of a node
  MaxWrites,    \* bound on the client writes
  Requests,     \* the fault requests the operator sends
  Swaps,        \* whether the operator swaps protocols
  MaxCommands   \* bound on the operator's fault and swap commands

ASSUME RuntimeAssumption ==
  /\ IsFiniteSet(Nodes)
  /\ GossipInterval \in Nat \ {0}
  /\ InitPeers \in [Nodes -> SUBSET Nodes]
  /\ \A n \in Nodes : n \notin InitPeers[n]
  /\ MaxWrites \in Nat
  /\ Capacity \in Nat \ {0}
  /\ MaxQueue \in Nat /\ MaxQueue > Capacity
  /\ Requests \subseteq [crashed : BOOLEAN, drop : BOOLEAN,
                          partition : SUBSET Nodes]
  /\ Swaps \in BOOLEAN
  /\ MaxCommands \in Nat

VARIABLES
  store, peers, forceSync, tick, config, writes, seen,  \* as in Gossip
  queue,     \* eventCh and the goroutines blocked on it
  outbox,    \* envelopes the reactor still has to send
  sending,   \* how far the send of the first of them has come
  driver,    \* the tick driver: a tick passed the gate and is due
  crashed,   \* fault.Engine.crashed
  lossy,     \* fault.Engine.dropRate > 0
  cut,       \* fault.Engine.partitions
  asked,     \* history: the partition set last asked for
  commands   \* commands given so far

protocol == <<store, peers, forceSync, tick, config, writes, seen>>

engine == <<crashed, lossy, cut, asked>>

vars == <<protocol, queue, outbox, sending, driver, engine, commands>>

Envelopes(events) == {e \in events : e.type \in {"DIGEST", "STATE"}}

InFlight ==
  UNION {Envelopes(Range(queue[n])) \cup Range(outbox[n]) : n \in Nodes}

(* The protocol that the reactor runs.                                     *)
Proto == INSTANCE Gossip WITH
  msgs <- InFlight, Times <- {0},
  MaxMsgs <- 2 * MaxQueue * Cardinality(Nodes) + 2 * Cardinality(Nodes)

-----------------------------------------------------------------------------

Init ==
  /\ store = [n \in Nodes |-> [k \in Keys |-> NoValue]]
  /\ peers = InitPeers
  /\ forceSync = InitPeers
  /\ tick = [n \in Nodes |-> 0]
  /\ config = InitPeers
  /\ writes = <<>>
  /\ seen = [n \in Nodes |-> [k \in Keys |-> {}]]
  /\ queue = [n \in Nodes |-> <<>>]
  /\ outbox = [n \in Nodes |-> <<>>]
  /\ sending = [n \in Nodes |-> "no"]
  /\ driver = [n \in Nodes |-> FALSE]
  /\ crashed = [n \in Nodes |-> FALSE]
  /\ lossy = [n \in Nodes |-> FALSE]
  /\ cut = [n \in Nodes |-> {}]
  /\ asked = [n \in Nodes |-> {}]
  /\ commands = 0

Enqueue(n, event) ==
  /\ Len(queue[n]) < MaxQueue
  /\ queue' = [queue EXCEPT ![n] = Append(@, event)]

(* The events whose senders are blocked on n's full channel.               *)
Blocked(n) == {queue[n][i] : i \in Capacity + 1 .. Len(queue[n])}

-----------------------------------------------------------------------------
(* The tick driver: the gate, the delay, and the send on the channel.      *)

BeforeTick(n) == ~crashed[n]

DriverGate(n) ==
  /\ ~driver[n]
  /\ \A e \in Blocked(n) : e.type # "TICK"
  /\ BeforeTick(n)
  /\ driver' = [driver EXCEPT ![n] = TRUE]
  /\ UNCHANGED <<protocol, queue, outbox, sending, engine, commands>>

DriverTick(n) ==
  /\ driver[n]
  /\ Enqueue(n, [type |-> "TICK"])
  /\ driver' = [driver EXCEPT ![n] = FALSE]
  /\ UNCHANGED <<protocol, outbox, sending, engine, commands>>

(* A client's KV_PUT arrives at a node that is not crashed.                *)
Pending == UNION {{<<n, i>> : i \in {j \in DOMAIN queue[n] :
                                       queue[n][j].type = "PUT"}} : n \in Nodes}

ExecuteAction(n, k) ==
  /\ BeforeTick(n)
  /\ Len(writes) + Cardinality(Pending) < MaxWrites
  /\ Enqueue(n, [type |-> "PUT", key |-> k])
  /\ UNCHANGED <<protocol, outbox, sending, driver, engine, commands>>

Command ==
  /\ commands < MaxCommands
  /\ commands' = commands + 1

ChangeProtocol(n) ==
  /\ Swaps
  /\ BeforeTick(n)
  /\ Command
  /\ Enqueue(n, [type |-> "SWAP"])
  /\ UNCHANGED <<protocol, outbox, sending, driver, engine>>

(* Known peers that are not in the desired set are healed.                 *)
NewPartition(n, desired) == (cut[n] \ config[n]) \cup desired

SetFaultParams(n, params) ==
  LET desired == params.partition \ {n}
  IN  /\ Command
      /\ crashed' = [crashed EXCEPT ![n] = params.crashed]
      /\ lossy' = [lossy EXCEPT ![n] = params.drop]
      /\ cut' = [cut EXCEPT ![n] = NewPartition(n, desired)]
      /\ asked' = [asked EXCEPT ![n] = desired]
      /\ UNCHANGED <<protocol, queue, outbox, sending, driver>>

-----------------------------------------------------------------------------
(* The reactor handles the first event once the last one's envelopes are   *)
(* sent.                                                                   *)

Take(n, type) ==
  /\ outbox[n] = <<>>
  /\ queue[n] # <<>>
  /\ Head(queue[n]).type = type
  /\ queue' = [queue EXCEPT ![n] = Tail(@)]
  /\ UNCHANGED <<sending, driver, engine, commands>>

ReactTick(n) ==
  /\ Take(n, "TICK")
  /\ Proto!NextTick(n) # 0 \/ Proto!SyncTargets(n) = {}
  /\ tick' = [tick EXCEPT ![n] = Proto!NextTick(n)]
  /\ UNCHANGED <<store, peers, forceSync, config, writes, seen, outbox>>

ReactTickTo(n, p) ==
  /\ Take(n, "TICK")
  /\ Proto!TickTo(n, p)
  /\ tick' = [tick EXCEPT ![n] = Proto!NextTick(n)]
  /\ outbox' = [outbox EXCEPT ![n] = <<Proto!Digest(n, p)>>]
  /\ UNCHANGED <<store, peers, config, writes, seen>>

(* A reply is appended to the envelopes if there is one.                   *)
AsOutbox(reply) == IF reply = {} THEN <<>> ELSE <<CHOOSE m \in reply : TRUE>>

(* Faulty variant: what the sender lacks is not sent.                      *)
DigestWithoutState(n) ==
  /\ Take(n, "DIGEST")
  /\ LET m == Head(queue[n])
     IN  /\ Proto!OnPeerDiscovered(n, m.from)
         /\ outbox' = [outbox EXCEPT ![n] =
                         AsOutbox(Proto!SyncRequest(n, m.from, m.digest))]
  /\ UNCHANGED <<store, tick, writes, seen>>

ReactDigest(n) ==
  /\ Take(n, "DIGEST")
  /\ LET m == Head(queue[n])
     IN  /\ Proto!OnPeerDiscovered(n, m.from)
         /\ outbox' = [outbox EXCEPT ![n] =
                         AsOutbox(Proto!StateReply(n, m.from, m.digest))
                         \o AsOutbox(Proto!SyncRequest(n, m.from, m.digest))]
  /\ UNCHANGED <<store, tick, writes, seen>>

ReactState(n) ==
  /\ Take(n, "STATE")
  /\ LET m == Head(queue[n])
     IN  /\ Proto!OnPeerDiscovered(n, m.from)
         /\ Proto!MergeState(n, m.state)
  /\ UNCHANGED <<tick, writes, outbox>>

handleActionEvent(n) ==
  /\ Take(n, "PUT")
  /\ Proto!StoreValue(n, Head(queue[n]).key, Len(writes) + 1)
  /\ UNCHANGED <<peers, forceSync, tick, config, outbox>>

(* Faulty variant: the store survives the swap.                            *)
SwapKeepsStore(n) ==
  /\ Take(n, "SWAP")
  /\ tick' = [tick EXCEPT ![n] = 0]
  /\ peers' = [peers EXCEPT ![n] = config[n]]
  /\ forceSync' = [forceSync EXCEPT ![n] = config[n]]
  /\ UNCHANGED <<store, seen, config, writes, outbox>>

ReactSwap(n) ==
  /\ Take(n, "SWAP")
  /\ Proto!ResetProtocol(n)
  /\ UNCHANGED <<config, writes, outbox>>

-----------------------------------------------------------------------------
(* nodeSession.Send: the fault engine's gate, then (after the delay) the   *)
(* receiver's gates and its channel, then the acknowledgement or the       *)
(* timeout of the call.                                                    *)

To(n) == Head(outbox[n]).to

Done(n) ==
  /\ outbox' = [outbox EXCEPT ![n] = Tail(@)]
  /\ sending' = [sending EXCEPT ![n] = "no"]

SendBlocked(n) ==
  /\ outbox[n] # <<>> /\ sending[n] = "no"
  /\ crashed[n] \/ To(n) \in cut[n] \/ lossy[n]
  /\ Done(n)
  /\ UNCHANGED <<protocol, queue, driver, engine, commands>>

SendAllowed(n) ==
  /\ outbox[n] # <<>> /\ sending[n] = "no"
  /\ ~crashed[n] /\ To(n) \notin cut[n]
  /\ sending' = [sending EXCEPT ![n] = "call"]
  /\ UNCHANGED <<protocol, queue, outbox, driver, engine, commands>>

SendEnvelope(n) ==
  /\ sending[n] = "call"
  /\ \/ /\ crashed[To(n)] \/ n \in cut[To(n)]
        /\ Done(n)
        /\ UNCHANGED queue
     \/ /\ ~crashed[To(n)] /\ n \notin cut[To(n)]
        /\ Enqueue(To(n), Head(outbox[n]))
        /\ sending' = [sending EXCEPT ![n] = "ack"]
        /\ UNCHANGED outbox
  /\ UNCHANGED <<protocol, driver, engine, commands>>

HandlerBlocked(n) ==
  \E e \in Blocked(To(n)) : e.type \in {"DIGEST", "STATE"} /\ e.from = n

Ack(n) ==
  /\ sending[n] = "ack"
  /\ ~HandlerBlocked(n)
  /\ Done(n)
  /\ UNCHANGED <<protocol, queue, driver, engine, commands>>

(* Faulty variant: a call waits for its answer for ever.                   *)
NoTimeout(n) == FALSE /\ UNCHANGED vars

(* After two seconds the sender gives up; a blocked handler stays in the   *)
(* queue.  At the bound on the queue the call fails before its handler.    *)
Timeout(n) ==
  /\ \/ sending[n] = "ack" /\ HandlerBlocked(n)
     \/ sending[n] = "call" /\ Len(queue[To(n)]) = MaxQueue
  /\ Done(n)
  /\ UNCHANGED <<protocol, queue, driver, engine, commands>>

-----------------------------------------------------------------------------

Driver(n) == DriverGate(n) \/ DriverTick(n)

Reactor(n) ==
  \/ ReactTick(n)
  \/ \E p \in Nodes : ReactTickTo(n, p)
  \/ ReactDigest(n) \/ ReactState(n)
  \/ handleActionEvent(n) \/ ReactSwap(n)

Sender(n) ==
  SendBlocked(n) \/ SendAllowed(n) \/ SendEnvelope(n) \/ Ack(n) \/ Timeout(n)

Operator(n) ==
  \/ \E k \in Keys : ExecuteAction(n, k)
  \/ ChangeProtocol(n)
  \/ \E params \in Requests : SetFaultParams(n, params)

Next ==
  \E n \in Nodes : Driver(n) \/ Reactor(n) \/ Sender(n) \/ Operator(n)

Spec == Init /\ [][Next]_vars

(***************************************************************************)
(* The goroutines of a node run for ever, so each of them takes a step     *)
(* when one stays possible.  The peer of a digest is drawn at random, so   *)
(* every peer is drawn again and again.                                    *)
(***************************************************************************)
Fairness ==
  \A n \in Nodes :
    /\ WF_vars(Driver(n)) /\ WF_vars(Reactor(n)) /\ WF_vars(Sender(n))
    /\ \A p \in Nodes \ {n} : SF_vars(ReactTickTo(n, p))

FairSpec == Spec /\ Fairness

-----------------------------------------------------------------------------

Event ==
  [type : {"TICK", "SWAP"}] \cup [type : {"PUT"}, key : Keys]
    \cup Proto!DigestMsg \cup Proto!StateMsg

(* Type correctness of the runtime's own state; a reactor has at most two  *)
(* envelopes to send, and a send in progress has an envelope.              *)
TypeOK ==
  /\ Proto!TypeOK
  /\ \A n \in Nodes :
       /\ Len(queue[n]) <= MaxQueue
       /\ Range(queue[n]) \subseteq Event
       /\ Range(outbox[n]) \subseteq Proto!DigestMsg \cup Proto!StateMsg
       /\ Len(outbox[n]) <= 2
       /\ sending[n] \in {"no", "call", "ack"}
       /\ sending[n] # "no" => outbox[n] # <<>>
  /\ driver \in [Nodes -> BOOLEAN] /\ crashed \in [Nodes -> BOOLEAN]
  /\ lossy \in [Nodes -> BOOLEAN]
  /\ cut \in [Nodes -> SUBSET Nodes] /\ asked \in [Nodes -> SUBSET Nodes]
  /\ commands \in 0 .. MaxCommands

(* The runtime implements the protocol's specification: whatever the       *)
(* channel, the fault engine, the delays and late deliveries do, each of   *)
(* its steps is a step of Gossip or invisible to it.                       *)
ImplementsGossip == Proto!SwapSpec

(* A reactor is never in the middle of its sends for good, so it takes its *)
(* next event even when every node waits for the full channel of another:  *)
(* the send times out (session/node.go:137, reactor.go:24-34).             *)
ReactorNeverStuck == \A n \in Nodes : []<>(outbox[n] = <<>>)

Healthy ==
  \A n \in Nodes : ~crashed[n] /\ ~lossy[n] /\ cut[n] = {}

Converged ==
  \A n, p \in Nodes, k \in Keys : store[n][k].data = store[p][k].data

(* Once the faults are over and the calls are answered in time, for good,  *)
(* all replicas eventually agree for good, although nothing in the         *)
(* protocol is told that a fault is over (propagation.go:14-76, 114-194,   *)
(* conflict_resolution.go:6-44).                                           *)
Convergence ==
  <>[]Healthy /\ <>[][\A n \in Nodes : ~Timeout(n)]_vars => <>[]Converged

-----------------------------------------------------------------------------
(* What the code does not keep: Runtime_not_kept.cfg ends in               *)
(* counterexamples.                                                        *)

(* "crash: Simulates a node process dying": the store of a crashed node    *)
(* does not change.                                                        *)
CrashedStoreIsFrozen ==
  [][\A n \in Nodes : crashed[n] /\ crashed'[n] => store'[n] = store[n]]_vars

(* "Treat request.partition as the desired partition set": after a fault   *)
(* command the engine blocks exactly the peers that were asked for.        *)
PartitionIsAsAsked == \A n \in Nodes : cut[n] = asked[n]

=============================================================================
