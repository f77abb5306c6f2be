----------------------------- MODULE NodeProofs -----------------------------
(***************************************************************************)
(* What holds of a node's session with the control plane, whatever the     *)
(* number of goroutines that report at the same time, and of the start of  *)
(* a cluster, for any number of nodes, any protocols and any number of     *)
(* commands.                                                               *)
(***************************************************************************)
EXTENDS NodeStartup, ControlPlaneSession, FiniteSetTheorems, TLAPS

(* The session with the control plane.                                     *)

(* What the lock covers: connection and client are set and cleared         *)
(* together, and until a call of the loop has failed nobody clears them,   *)
(* so that a goroutine past connect finds a client.                        *)
SessionInv ==
  /\ at \in [Callers -> {"idle", "connected", "calling", "failed"}]
  /\ client = cpConn /\ cpOpen = {cpConn} \ {0}
  /\ at["loop"] = "failed" => failed
  /\ ~failed => ~died /\ \A g \in Callers : at[g] = "connected" => client # 0

-----------------------------------------------------------------------------
(* While the session has no connection there is one that nobody holds, for *)
(* a goroutine holds at most one: the model's grpc.NewClient               *)
(* (controlplane.go:57) returns a new one.                                 *)
LEMMA NewConnIsNew == cpOpen = {} => newConn \in Nat \ {0}
<1> SUFFICES ASSUME cpOpen = {} PROVE newConn \in Nat \ {0}
  BY Zenon
<1> DEFINE K == Cardinality(Callers)
<1> DEFINE Used == {held[g] : g \in Callers}
<1>1. IsFiniteSet(Callers) /\ K \in Nat
  <2>1. IsFiniteSet({"loop"})
    BY FS_Singleton, Zenon
  <2>2. IsFiniteSet(Callers)
    BY <2>1, ControlPlaneAssumption, FS_Union, Zenon DEF Callers
  <2> QED BY <2>2, FS_CardinalityType, Zenon
<1>2. IsFiniteSet(Used) /\ Cardinality(Used) \in Nat /\ Cardinality(Used) <= K
  <2> DEFINE h == [g \in Callers |-> held[g]]
  <2>1. h \in Surjection(Callers, Used)
    BY Zenon DEF Surjection
  <2>2. IsFiniteSet(Used) /\ Cardinality(Used) <= K
    <3> HIDE DEF h, Used
    <3> QED BY <1>1, <2>1, FS_Surjection, Zenon
  <2> QED BY <2>2, FS_CardinalityType, Zenon
<1>3. IsFiniteSet(1 .. K + 1) /\ Cardinality(1 .. K + 1) = K + 1
  <2> HIDE DEF K
  <2> QED BY <1>1, FS_Interval
<1>4. \E c \in 1 .. K + 1 : c \notin Used
  <2> SUFFICES ASSUME (1 .. K + 1) \subseteq Used PROVE FALSE
    BY Zenon
  <2> HIDE DEF K, Used
  <2>1. Cardinality(1 .. K + 1) <= Cardinality(Used)
    BY <1>2, FS_Subset, Zenon
  <2> QED BY <1>1, <1>2, <1>3, <2>1
<1>5. \E c \in 1 .. K + 1 : c \notin cpOpen /\ \A g \in Callers : held[g] # c
  BY <1>4, Zenon
<1>6. newConn \in 1 .. K + 1
  BY <1>5, Zenon DEF newConn
<1> HIDE DEF K
<1> QED BY <1>1, <1>6

-----------------------------------------------------------------------------
(* A session starts without a connection (controlplane.go:29-45).          *)
LEMMA InitiallyInv == CPInit => SessionInv
BY Zenon DEF CPInit, SessionInv, Callers

(* Every step of a goroutine or of the control plane keeps what the lock   *)
(* covers (controlplane.go:47-80).                                         *)
LEMMA StepKeepsInv == SessionInv /\ [CPNext]_cpVars => SessionInv'
<1> SUFFICES ASSUME SessionInv, [CPNext]_cpVars PROVE SessionInv'
  BY Zenon
<1> USE DEF SessionInv
<1>0. "loop" \in Callers /\ \A g \in Reporters : g \in Callers /\ g # "loop"
  BY ControlPlaneAssumption, Zenon DEF Callers
<1>1. ASSUME NEW g \in Callers, connect(g) PROVE SessionInv'
  <2>1. CASE cpConn # 0
    BY <1>0, <1>1, <2>1 DEF connect, Move, cpSession
  <2>2. CASE cpConn = 0
    <3>1. newConn # 0
      BY <2>2, NewConnIsNew, Zenon
    <3>2. cpConn' = newConn /\ client' = newConn /\ cpOpen' = {newConn}
      BY <1>1, <2>2, Zenon DEF connect
    <3> QED BY <1>0, <1>1, <3>1, <3>2, Zenon DEF connect, Move
  <2> QED BY <2>1, <2>2, Zenon
<1>2. ASSUME NEW g \in Callers, UseClient(g) PROVE SessionInv'
  BY <1>0, <1>2, Zenon DEF UseClient, Move, cpSession
<1>3. ASSUME NEW g \in Callers, ReportReturns(g) PROVE SessionInv'
  BY <1>0, <1>3, Zenon DEF ReportReturns, Move, cpSession
<1>4. CASE LoopCallReturns
  BY <1>0, <1>4, Zenon DEF LoopCallReturns, Move, cpSession
<1>5. CASE invalidateConn
  BY <1>0, <1>5, Zenon DEF invalidateConn, Move
<1>6. CASE Outage
  BY <1>6, Zenon DEF Outage, cpSession
<1>7. CASE UNCHANGED cpVars
  BY <1>7, Zenon DEF cpVars, cpSession
<1> QED BY <1>0, <1>1, <1>2, <1>3, <1>4, <1>5, <1>6, <1>7, Zenon
DEF CPNext, Loop, Caller

(* However goroutines interleave, the session has one connection at most   *)
(* open, the one its next call uses (controlplane.go:47-80).               *)
THEOREM NoConnectionLeaks == CPSpec => []OneControlConnection
<1>1. SessionInv => OneControlConnection
  BY Zenon DEF SessionInv, OneControlConnection
<1> QED BY <1>1, InitiallyInv, StepKeepsInv, PTL DEF CPSpec

(* Whatever the number of reports under way, a nil client ends the process *)
(* only after a call of the loop has failed (controlplane.go:75-79, 173).  *)
THEOREM ReportsKeepTheClient == CPSpec => []NilClientNeedsFailure
<1>1. SessionInv => NilClientNeedsFailure
  BY Zenon DEF SessionInv, NilClientNeedsFailure
<1> QED BY <1>1, InitiallyInv, StepKeepsInv, PTL DEF CPSpec

-----------------------------------------------------------------------------
Place == {"off", "listening", "registering", "registered", "peered", "loading",
          "refused", "loaded", "up", "dead"}

Event ==
  [type : {"message"}, from : Nodes]
    \cup [type : {"swap"}, key : Key \cup {"none"}, id : Nat]

Call == [node : Nodes, key : Key, id : Nat]

Command ==
  {NoCommand} \cup
  [phase : {"calling"}, key : Key, todo : SUBSET Nodes, waiting : Nodes \cup {0},
   id : Nat]

(* The state that the start of a node and the swaps depend on.             *)
StartType ==
  /\ pc \in [Nodes -> Place]
  /\ assigned \in [Nodes -> Key \cup {"none"}]
  /\ peers \in [Nodes -> SUBSET Nodes] /\ linked \in [Nodes -> SUBSET Nodes]
  /\ proto \in [Nodes -> Loadable \cup {"none"}]
  /\ eventCh \in [Nodes -> Seq(Event)]
  /\ members \subseteq Nodes
  /\ protocol \in Key \cup {"none"}
  /\ cmd \in Command /\ calls \subseteq Call /\ commands \in Nat

-----------------------------------------------------------------------------
(* Nothing is known of a node that has neither registered nor sent.        *)
LEMMA InitType == Init => StartType
BY StartupAssumption DEF Init, StartType, Place, Command, Key

(* A channel takes events at its end.                                      *)
LEMMA EnqueueType ==
  ASSUME eventCh \in [Nodes -> Seq(Event)], NEW n \in Nodes, NEW e \in Event,
         Enqueue(n, e)
  PROVE  eventCh' \in [Nodes -> Seq(Event)]
BY DEF Enqueue

(* A topology with other peers for one node.                               *)
LEMMA PeersType ==
  ASSUME NEW f \in [Nodes -> SUBSET Nodes], NEW n \in Nodes, NEW set \in SUBSET Nodes
  PROVE  [f EXCEPT ![n] = set] \in [Nodes -> SUBSET Nodes]
BY Zenon

(* Every step of a node, of its reactor and of the operator keeps the      *)
(* types.                                                                  *)
LEMMA StepType == StartType /\ [Next]_vars => StartType'
<1> SUFFICES ASSUME StartType, [Next]_vars PROVE StartType'
  BY Zenon
<1> USE DEF StartType
<1>1. ASSUME NEW n \in Nodes, Starting(n) PROVE StartType'
  <2>1. CASE Listen(n)
    BY <2>1, Zenon DEF Listen, Goto, Place, registry, operator, topology
  <2>2. CASE RegisterNode(n)
    BY <2>2, StartupAssumption, Zenon
       DEF RegisterNode, Goto, Place, operator, Key, topology
  <2>3. CASE GetClusterProtocol(n)
    BY <2>3, Zenon DEF GetClusterProtocol, Goto, Place, registry, operator, topology
  <2>4. CASE RegistrationFails(n)
    BY <2>4, Zenon DEF RegistrationFails, Goto, Place, registry, operator, topology
  <2>5. CASE FetchPeers(n)
    <3>1. members \ {n} \in SUBSET Nodes
      BY Zenon
    <3>2. peers' \in [Nodes -> SUBSET Nodes] /\ linked' \in [Nodes -> SUBSET Nodes]
      <4>1. \/ UNCHANGED <<peers, linked>>
            \/ /\ peers' = [peers EXCEPT ![n] = members \ {n}]
               /\ linked' = [linked EXCEPT ![n] = members \ {n}]
        BY <2>5, Zenon DEF FetchPeers, OtherMembers, topology
      <4>2. [peers EXCEPT ![n] = members \ {n}] \in [Nodes -> SUBSET Nodes]
        BY <3>1, PeersType, Zenon
      <4>3. [linked EXCEPT ![n] = members \ {n}] \in [Nodes -> SUBSET Nodes]
        BY <3>1, PeersType, Zenon
      <4> QED BY <4>1, <4>2, <4>3, Zenon
    <3>3. pc' \in [Nodes -> Place]
      BY <2>5, Zenon DEF FetchPeers, Goto, Place
    <3> QED BY <2>5, <3>2, <3>3, Zenon DEF FetchPeers, registry, operator, topology
  <2>6. CASE LoadAssigned(n)
    BY <2>6 DEF LoadAssigned, Goto, Enqueue, Place, Event, registry, operator, topology
  <2>7. CASE Started(n)
    BY <2>7, Zenon DEF Started, Goto, Place, registry, operator, topology
  <2> QED BY <1>1, <2>1, <2>2, <2>3, <2>4, <2>5, <2>6, <2>7, Zenon DEF Starting
<1>2. ASSUME NEW n \in Nodes, React(n) PROVE StartType'
  <2> DEFINE e == Head(eventCh[n])
  <2>1. e \in Event /\ Tail(eventCh[n]) \in Seq(Event)
    BY <1>2 DEF React
  <2>2. eventCh' \in [Nodes -> Seq(Event)]
    BY <1>2, <2>1, Zenon DEF React
  <2>3. CASE e.type = "message"
    <3>1. e.from \in Nodes
      BY <2>1, <2>3, Zenon DEF Event
    <3>2. ReactMessage(n, e.from)
      BY <1>2, <2>3, Zenon DEF React
    <3> HIDE DEF e
    <3>3. pc' \in [Nodes -> Place]
      BY <3>2, Zenon DEF ReactMessage, Goto, Place
    <3>4. peers[n] \cup {e.from} \in SUBSET Nodes
      BY <3>1, Zenon
    <3>5. peers' \in [Nodes -> SUBSET Nodes] /\ linked' \in [Nodes -> SUBSET Nodes]
      <4>1. \/ UNCHANGED <<peers, linked>>
            \/ /\ peers' = [peers EXCEPT ![n] = peers[n] \cup {e.from}]
               /\ linked' = [linked EXCEPT ![n] = peers[n] \cup {e.from}]
        BY <3>2, Zenon DEF ReactMessage, OnPeerDiscovered, topology
      <4>2. [peers EXCEPT ![n] = peers[n] \cup {e.from}] \in [Nodes -> SUBSET Nodes]
        BY <3>4, PeersType, Zenon
      <4>3. [linked EXCEPT ![n] = peers[n] \cup {e.from}] \in [Nodes -> SUBSET Nodes]
        BY <3>4, PeersType, Zenon
      <4> QED BY <4>1, <4>2, <4>3, Zenon
    <3> QED BY <1>2, <2>2, <3>2, <3>3, <3>5, Zenon
    DEF React, ReactMessage, registry, topology
  <2>4. CASE e.type = "swap"
    <3>1. applyProtocolSwap(n, e.key) /\ AnswerSwap(n, e) /\ UNCHANGED topology
      BY <1>2, <2>4, Zenon DEF React
    <3> HIDE DEF e
    <3>2. proto' \in [Nodes -> Loadable \cup {"none"}]
      BY <3>1, Zenon DEF applyProtocolSwap
    <3>3. pc' \in [Nodes -> Place]
      BY <3>1, Zenon DEF AnswerSwap, Goto, Place
    <3>4. cmd' \in Command
      BY <3>1, Zenon DEF AnswerSwap, Command, NoCommand
    <3> QED BY <1>2, <2>2, <3>1, <3>2, <3>3, <3>4, Zenon
    DEF React, registry, topology
  <2> QED BY <1>2, <2>3, <2>4, Zenon DEF React
<1>3. ASSUME NEW n \in Nodes, SwapProtocolCall(n) PROVE StartType'
  <2>1. cmd.key \in Key /\ cmd.id \in Nat /\ cmd.todo \in SUBSET Nodes
    BY <1>3 DEF SwapProtocolCall, Command, NoCommand
  <2>2. calls' \subseteq Call
    BY <1>3, <2>1 DEF SwapProtocolCall, Call
  <2> DEFINE Calling == [phase : {"calling"}, key : Key, todo : SUBSET Nodes,
                         waiting : Nodes \cup {0}, id : Nat]
  <2>3. cmd \in Calling
    BY <1>3 DEF SwapProtocolCall, Command, NoCommand
  <2>4. PICK S \in SUBSET Nodes, w \in Nodes \cup {0} :
          cmd' = [cmd EXCEPT !.todo = S, !.waiting = w]
    <3>1. cmd.todo \ {n} \in SUBSET Nodes /\ cmd.waiting = 0
      BY <1>3, <2>1, Zenon DEF SwapProtocolCall
    <3>2. CASE Reachable(n)
      BY <1>3, <3>1, <3>2, Zenon DEF SwapProtocolCall
    <3>3. CASE ~Reachable(n)
      <4>1. cmd' = [cmd EXCEPT !.todo = cmd.todo \ {n}]
        BY <1>3, <3>3, Zenon DEF SwapProtocolCall
      <4>2. cmd' = [cmd EXCEPT !.todo = cmd.todo \ {n}, !.waiting = 0]
        BY <2>3, <3>1, <4>1, Zenon
      <4> QED BY <3>1, <4>2, Zenon
    <3> QED BY <3>2, <3>3, Zenon
  <2>5. cmd' \in Command
    <3>1. cmd' \in Calling
      BY <2>3, <2>4, Zenon
    <3> QED BY <3>1, Zenon DEF Command
  <2> QED BY <1>3, <2>2, <2>5, Zenon DEF SwapProtocolCall, start, registry, topology
<1>4. ASSUME NEW n \in Nodes, NEW p \in Nodes, Tick(n, p) PROVE StartType'
  <2>1. [type |-> "message", from |-> n] \in Event
    BY Zenon DEF Event
  <2> QED BY <1>4, <2>1 DEF Tick, Enqueue, start, registry, operator, topology
<1>5. ASSUME NEW r \in reports,
             CheckCapabilities(r) \/ ReportCapabilities(r) \/ ReportFails(r)
      PROVE  StartType'
  BY <1>5, Zenon
     DEF CheckCapabilities, ReportCapabilities, ReportFails, start, registry,
              operator, topology
<1>6. ASSUME NEW c \in calls, ChangeProtocol(c) PROVE StartType'
  <2> DEFINE e == [type |-> "swap", key |-> c.key, id |-> c.id]
  <2>1. c.node \in Nodes /\ e \in Event
    BY Zenon DEF Call, Event
  <2>2. eventCh' \in [Nodes -> Seq(Event)]
    <3>1. eventCh' = eventCh \/ Enqueue(c.node, e)
      BY <1>6, Zenon DEF ChangeProtocol
    <3> HIDE DEF e
    <3> QED BY <2>1, <3>1, EnqueueType, Zenon
  <2>3. calls' \subseteq Call
    BY <1>6, Zenon DEF ChangeProtocol
  <2> QED BY <1>6, <2>2, <2>3, Zenon DEF ChangeProtocol, start, registry, topology
<1>7. CASE CreateCluster
  BY <1>7, Zenon DEF CreateCluster, Key, start, operator, topology
<1>8. CASE SetClusterProtocol
  <2>1. commands' \in Nat
    BY <1>8 DEF SetClusterProtocol
  <2>2. cmd' \in Command
    BY <1>8, <2>1 DEF SetClusterProtocol, Command, Key
  <2> QED BY <1>8, <2>1, <2>2, Zenon
  DEF SetClusterProtocol, start, registry, topology
<1>9. CASE Timeout
  <2>1. cmd' \in Command
    BY <1>9, Zenon DEF Timeout, Command, NoCommand
  <2> QED BY <1>9, <2>1, Zenon DEF Timeout, start, registry, topology
<1>10. CASE SwapProtocol
  <2>1. cmd.key \in Key
    BY <1>10 DEF SwapProtocol, Command, NoCommand
  <2> QED BY <1>10, <2>1, Zenon DEF SwapProtocol, Command, start, topology
<1>11. CASE UNCHANGED vars
  BY <1>11, Zenon DEF vars, start, registry, operator, topology
<1> QED
  BY <1>1, <1>2, <1>3, <1>4, <1>5, <1>6, <1>7, <1>8, <1>9, <1>10, <1>11, Zenon DEF Next

-----------------------------------------------------------------------------
(* The swap events in a node's channel that come from Start and those that *)
(* come from calls, by their places.                                       *)
Slots(n) == 1 .. Len(eventCh[n])
StartSwaps(n) ==
  {i \in Slots(n) : eventCh[n][i].type = "swap" /\ eventCh[n][i].id = 0}
CallSwaps(n) ==
  {i \in Slots(n) : eventCh[n][i].type = "swap" /\ eventCh[n][i].id # 0}

Waiting(n) == cmd.phase = "calling" /\ cmd.waiting = n

(* A call to a node that no call was late to is the one that the command   *)
(* waits for, and it is still on its way or in the channel, not in both;   *)
(* the swap of Start is in the channel only until Start is answered.       *)
SwapInv ==
  /\ told \in [Nodes -> Key \cup {"none", "late"}]
  /\ cmd.phase = "calling" => cmd.id # 0
  /\ \A c \in calls : c.id # 0
  /\ \A n \in Nodes : StartSwaps(n) # {} => pc[n] \in {"loading", "dead"}
  /\ \A n \in Nodes : \A i, j \in StartSwaps(n) : i = j
  /\ \A n \in Nodes : told[n] \in Loadable => pc[n] \in {"loaded", "up", "dead"}

OneCall(n) ==
  /\ \A c \in calls :
       c.node = n =>
         Waiting(n) /\ c.key = cmd.key /\ c.id = cmd.id /\ CallSwaps(n) = {}
  /\ \A i \in CallSwaps(n) :
       Waiting(n) /\ eventCh[n][i].key = cmd.key /\ eventCh[n][i].id = cmd.id
  /\ \A i, j \in CallSwaps(n) : i = j
  /\ told[n] \in Loadable =>
       IF Waiting(n) THEN told[n] = cmd.key ELSE proto[n] = told[n]

ToldInv == SwapInv /\ \A n \in Nodes : told[n] # "late" => OneCall(n)

(* What is left in a channel when the reactor has taken the first event,   *)
(* one place further on.                                                   *)
LEMMA TakeSwap ==
  ASSUME StartType, NEW n \in Nodes, eventCh[n] # <<>>,
         eventCh' = [eventCh EXCEPT ![n] = Tail(@)]
  PROVE  /\ \A p \in Nodes \ {n} : eventCh'[p] = eventCh[p]
         /\ 1 \in Slots(n) /\ Head(eventCh[n]) = eventCh[n][1]
         /\ \A i \in StartSwaps(n)' :
              i \in Nat \ {0} /\ i + 1 \in StartSwaps(n)
         /\ \A i \in CallSwaps(n)' :
              /\ i \in Nat \ {0} /\ i + 1 \in CallSwaps(n)
              /\ eventCh'[n][i] = eventCh[n][i + 1]
<1>1. eventCh \in [Nodes -> Seq(Event)]
  BY Zenon DEF StartType
<1>2. \A p \in Nodes \ {n} : eventCh'[p] = eventCh[p]
  BY <1>1, Zenon
<1>3. 1 \in Slots(n) /\ Head(eventCh[n]) = eventCh[n][1]
  BY <1>1 DEF Slots
<1>4. eventCh'[n] = Tail(eventCh[n])
  BY <1>1, Zenon
<1>5. \A i \in Slots(n)' :
        /\ i \in Nat \ {0} /\ i + 1 \in Slots(n)
        /\ eventCh'[n][i] = eventCh[n][i + 1]
  <2>1. \A i \in 1 .. Len(Tail(eventCh[n])) :
          /\ i \in Nat \ {0} /\ i + 1 \in 1 .. Len(eventCh[n])
          /\ Tail(eventCh[n])[i] = eventCh[n][i + 1]
    BY <1>1
  <2> QED BY <1>4, <2>1, Zenon DEF Slots
<1> QED BY <1>2, <1>3, <1>5, Zenon DEF StartSwaps, CallSwaps

(* What is in a channel when an event has been added at its end.           *)
LEMMA PutSwap ==
  ASSUME StartType, NEW n \in Nodes, NEW e \in Event, Enqueue(n, e)
  PROVE  /\ \A p \in Nodes \ {n} : eventCh'[p] = eventCh[p]
         /\ Len(eventCh[n]) \in Nat /\ Len(eventCh[n]) + 1 \notin Slots(n)
         /\ \A i \in StartSwaps(n)' :
              \/ i \in StartSwaps(n)
              \/ i = Len(eventCh[n]) + 1 /\ e.type = "swap" /\ e.id = 0
         /\ \A i \in CallSwaps(n)' :
              \/ i \in CallSwaps(n) /\ eventCh'[n][i] = eventCh[n][i]
              \/ /\ i = Len(eventCh[n]) + 1 /\ e.type = "swap" /\ e.id # 0
                 /\ eventCh'[n][i] = e
<1>1. eventCh \in [Nodes -> Seq(Event)]
  BY Zenon DEF StartType
<1>2. \A p \in Nodes \ {n} : eventCh'[p] = eventCh[p]
  BY <1>1, Zenon DEF Enqueue
<1>3. eventCh'[n] = Append(eventCh[n], e)
  BY <1>1, Zenon DEF Enqueue
<1>4. \A i \in Slots(n)' :
        \/ i \in Slots(n) /\ eventCh'[n][i] = eventCh[n][i]
        \/ i = Len(eventCh[n]) + 1 /\ eventCh'[n][i] = e
  <2>1. \A i \in 1 .. Len(Append(eventCh[n], e)) :
          \/ i \in 1 .. Len(eventCh[n]) /\ Append(eventCh[n], e)[i] = eventCh[n][i]
          \/ i = Len(eventCh[n]) + 1 /\ Append(eventCh[n], e)[i] = e
    BY <1>1
  <2> QED BY <1>3, <2>1, Zenon DEF Slots
<1>5. Len(eventCh[n]) \in Nat /\ Len(eventCh[n]) + 1 \notin Slots(n)
  BY <1>1 DEF Slots
<1> QED BY <1>2, <1>4, <1>5, Zenon DEF StartSwaps, CallSwaps

(* The swaps in a channel that a step leaves alone.                        *)
LEMMA SameSwaps ==
  ASSUME NEW n \in Nodes, eventCh'[n] = eventCh[n]
  PROVE  StartSwaps(n)' = StartSwaps(n) /\ CallSwaps(n)' = CallSwaps(n)
BY Zenon DEF StartSwaps, CallSwaps, Slots

-----------------------------------------------------------------------------
(* A step of Start that neither takes nor adds an event.                   *)
LEMMA ToldFrame ==
  ASSUME ToldInv, UNCHANGED <<told, cmd, calls, eventCh, proto>>,
         \A n \in Nodes :
           /\ pc[n] \in {"loading", "dead"} => pc'[n] \in {"loading", "dead"}
           /\ pc[n] \in {"loaded", "up", "dead"} => pc'[n] \in {"loaded", "up", "dead"}
  PROVE  ToldInv'
<1>1. \A n \in Nodes : StartSwaps(n)' = StartSwaps(n) /\ CallSwaps(n)' = CallSwaps(n)
  BY SameSwaps, Zenon
<1>2. SwapInv'
  BY <1>1, ZenonT(60) DEF ToldInv, SwapInv
<1>3. \A n \in Nodes : OneCall(n) => OneCall(n)'
  BY <1>1, Zenon DEF OneCall, Waiting
<1> QED BY <1>2, <1>3, Zenon DEF ToldInv

(* The steps of Start: its swap is the first and the last of its kind.     *)
LEMMA StartTold ==
  ASSUME StartType, ToldInv, NEW n \in Nodes, Starting(n)
  PROVE  ToldInv'
<1>1. CASE LoadAssigned(n)
  <2> DEFINE e == [type |-> "swap", key |-> assigned[n], id |-> 0]
  <2>1. e \in Event /\ e.id = 0 /\ e.type = "swap"
    BY Zenon DEF Event, StartType
  <2>2. /\ pc[n] = "peered" /\ Enqueue(n, e)
        /\ \A m \in Nodes : pc'[m] = IF m = n THEN "loading" ELSE pc[m]
        /\ UNCHANGED <<told, cmd, calls, proto>>
    BY <1>1, Zenon DEF LoadAssigned, Goto, operator, StartType
  <2> HIDE DEF e
  <2>3. \A m \in Nodes \ {n} :
          StartSwaps(m)' = StartSwaps(m) /\ CallSwaps(m)' = CallSwaps(m)
    BY <2>1, <2>2, PutSwap, SameSwaps
  <2>4. StartSwaps(n) = {}
    BY <2>2, Zenon DEF ToldInv, SwapInv
  <2>5. /\ \A i, j \in StartSwaps(n)' : i = j
        /\ \A i \in CallSwaps(n)' :
             i \in CallSwaps(n) /\ eventCh'[n][i] = eventCh[n][i]
    BY <2>1, <2>2, <2>4, PutSwap
  <2>6. SwapInv'
    BY <2>2, <2>3, <2>5 DEF ToldInv, SwapInv
  <2>7. \A m \in Nodes \ {n} : eventCh'[m] = eventCh[m]
    BY <2>1, <2>2, PutSwap, Zenon
  <2>8. ASSUME NEW m \in Nodes, OneCall(m) PROVE OneCall(m)'
    <3>1. CASE m = n
      BY <2>2, <2>5, <2>8, <3>1 DEF OneCall, Waiting
    <3>2. CASE m # n
      BY <2>2, <2>3, <2>7, <2>8, <3>2 DEF OneCall, Waiting
    <3> QED BY <3>1, <3>2, Zenon
  <2> QED BY <2>2, <2>6, <2>8, Zenon DEF ToldInv
<1>2. CASE ~LoadAssigned(n)
  <2>1. UNCHANGED <<told, cmd, calls, eventCh, proto>>
    BY <1>2, Zenon
       DEF Starting, Listen, RegisterNode, GetClusterProtocol, FetchPeers,
                RegistrationFails, Started, operator
  <2>2. /\ \A m \in Nodes \ {n} : pc'[m] = pc[m]
        /\ \/ pc[n] \in {"loaded", "refused"} /\ pc'[n] \in {"up", "dead"}
           \/ pc[n] \in {"off", "listening", "registering", "registered"}
        /\ pc[n] = "loaded" => pc'[n] = "up"
    BY <1>2, Zenon
       DEF Starting, Listen, RegisterNode, GetClusterProtocol, FetchPeers,
                RegistrationFails, Started, Goto, StartType
  <2> QED BY <2>1, <2>2, ToldFrame, Zenon
<1> QED BY <1>1, <1>2, Zenon

(* The reactor: the swap of Start finds no protocol that was told, and the *)
(* swap of a call that was not late is the last one on its way, and what   *)
(* the node was told.                                                      *)
LEMMA ReactTold ==
  ASSUME StartType, ToldInv, NEW n \in Nodes, React(n)
  PROVE  ToldInv'
<1> DEFINE e == Head(eventCh[n])
<1>1. /\ eventCh[n] # <<>> /\ pc[n] # "dead"
      /\ eventCh' = [eventCh EXCEPT ![n] = Tail(@)]
      /\ UNCHANGED <<told, calls>>
  BY Zenon DEF React
<1>2. /\ \A p \in Nodes \ {n} : eventCh'[p] = eventCh[p]
      /\ 1 \in Slots(n) /\ e = eventCh[n][1]
      /\ \A i \in StartSwaps(n)' : i \in Nat \ {0} /\ i + 1 \in StartSwaps(n)
      /\ \A i \in CallSwaps(n)' :
           /\ i \in Nat \ {0} /\ i + 1 \in CallSwaps(n)
           /\ eventCh'[n][i] = eventCh[n][i + 1]
  BY <1>1, TakeSwap, Zenon
<1>3. \A p \in Nodes \ {n} :
        StartSwaps(p)' = StartSwaps(p) /\ CallSwaps(p)' = CallSwaps(p)
  BY <1>2, SameSwaps, Zenon
<1>4. \A i, j \in StartSwaps(n)' : i = j
  <2>1. \A i, j \in StartSwaps(n)' : i + 1 = j + 1 /\ i \in Nat /\ j \in Nat
    BY <1>2, ZenonT(60) DEF ToldInv, SwapInv
  <2> QED BY <2>1
<1>5. StartSwaps(n)' # {} => StartSwaps(n) # {}
  BY <1>2, Zenon
<1>6. ASSUME OneCall(n) PROVE \A i, j \in CallSwaps(n)' : i = j
  <2>1. \A i, j \in CallSwaps(n)' : i + 1 = j + 1 /\ i \in Nat /\ j \in Nat
    BY <1>2, <1>6, Zenon DEF OneCall
  <2> QED BY <2>1
<1>7. e \in Event
  BY <1>1 DEF StartType
<1>10. ASSUME OneCall(n), cmd' = cmd,
              told[n] \in Loadable => proto'[n] = proto[n]
       PROVE  OneCall(n)'
  <2>1. Waiting(n)' <=> Waiting(n)
    BY <1>10, Zenon DEF Waiting
  <2>2. \A i \in CallSwaps(n)' :
          Waiting(n) /\ eventCh'[n][i].key = cmd.key /\ eventCh'[n][i].id = cmd.id
    BY <1>2, <1>10 DEF OneCall
  <2>3. \A c \in calls :
          c.node = n =>
            Waiting(n) /\ c.key = cmd.key /\ c.id = cmd.id /\ CallSwaps(n)' = {}
    BY <1>2, <1>10, Zenon DEF OneCall
  <2>4. told[n] \in Loadable =>
          IF Waiting(n) THEN told[n] = cmd.key ELSE proto'[n] = told[n]
    BY <1>10, Zenon DEF OneCall
  <2> QED BY <1>1, <1>6, <1>10, <2>1, <2>2, <2>3, <2>4, Zenon DEF OneCall
<1> HIDE DEF e
<1>8. CASE e.type = "message" /\ ReactMessage(n, e.from)
  <2>1. /\ UNCHANGED <<cmd, proto>>
        /\ \A m \in Nodes : pc'[m] = pc[m] \/ pc'[m] = "dead"
    BY <1>8, Zenon DEF ReactMessage, Goto, StartType
  <2>2. SwapInv'
    BY <1>1, <1>3, <1>4, <1>5, <2>1 DEF ToldInv, SwapInv
  <2>3. ASSUME NEW m \in Nodes, OneCall(m) PROVE OneCall(m)'
    <3>1. CASE m = n
      BY <1>10, <2>1, <2>3, <3>1, Zenon
    <3>2. CASE m # n
      BY <1>1, <1>2, <1>3, <2>1, <2>3, <3>2 DEF OneCall, Waiting
    <3> QED BY <3>1, <3>2, Zenon
  <2> QED BY <1>1, <2>2, <2>3, Zenon DEF ToldInv
<1>9. CASE e.type = "swap" /\ applyProtocolSwap(n, e.key) /\ AnswerSwap(n, e)
  <2>1. \A m \in Nodes \ {n} : proto'[m] = proto[m] /\ pc'[m] = pc[m]
    BY <1>9, Zenon DEF applyProtocolSwap, AnswerSwap, Goto, StartType
  <2>2. CASE e.id = 0
    <3>1. 1 \in StartSwaps(n)
      BY <1>2, <1>9, <2>2, Zenon DEF StartSwaps
    <3>2. pc[n] = "loading"
      BY <1>1, <3>1, Zenon DEF ToldInv, SwapInv
    <3>3. cmd' = cmd
      BY <1>9, <2>2, <3>2, Zenon DEF AnswerSwap
    <3>4. StartSwaps(n)' = {}
      <4>1. \A i \in StartSwaps(n)' : i + 1 = 1 /\ i \in Nat \ {0}
        BY <1>2, <3>1, Zenon DEF ToldInv, SwapInv
      <4> QED BY <4>1
    <3>5. told[n] \notin Loadable
      BY <3>2, Zenon DEF ToldInv, SwapInv
    <3>6. SwapInv'
      <4>1. \A m \in Nodes : StartSwaps(m)' # {} => pc'[m] \in {"loading", "dead"}
        BY <1>3, <2>1, <3>4, Zenon DEF ToldInv, SwapInv
      <4>2. \A m \in Nodes : \A i, j \in StartSwaps(m)' : i = j
        BY <1>3, <3>4 DEF ToldInv, SwapInv
      <4>3. \A m \in Nodes : told[m] \in Loadable => pc'[m] \in {"loaded", "up", "dead"}
        BY <2>1, <3>5, Zenon DEF ToldInv, SwapInv
      <4> QED BY <1>1, <3>3, <4>1, <4>2, <4>3, Zenon DEF ToldInv, SwapInv
    <3>7. ASSUME NEW m \in Nodes, OneCall(m) PROVE OneCall(m)'
      <4>1. CASE m = n
        BY <1>10, <3>3, <3>5, <3>7, <4>1, Zenon
      <4>2. CASE m # n
        BY <1>1, <1>2, <1>3, <2>1, <3>3, <3>7, <4>2 DEF OneCall, Waiting
      <4> QED BY <4>1, <4>2, Zenon
    <3> QED BY <1>1, <3>6, <3>7, Zenon DEF ToldInv
  <2>3. CASE e.id # 0
    <3>1. 1 \in CallSwaps(n)
      BY <1>2, <1>9, <2>3, Zenon DEF CallSwaps
    <3>2. /\ pc' = pc
          /\ cmd' = IF cmd.phase = "calling" /\ cmd.waiting = n /\ cmd.id = e.id
                      THEN [cmd EXCEPT !.waiting = 0] ELSE cmd
      BY <1>9, <2>3, Zenon DEF AnswerSwap
    <3>3. /\ cmd'.phase = cmd.phase
          /\ cmd.phase = "calling" =>
               /\ cmd'.key = cmd.key /\ cmd'.id = cmd.id
               /\ cmd'.waiting = IF cmd.waiting = n /\ cmd.id = e.id THEN 0
                                                                     ELSE cmd.waiting
      <4>1. CASE cmd = NoCommand
        BY <3>2, <4>1, Zenon DEF NoCommand
      <4>2. CASE cmd \in [phase : {"calling"}, key : Key, todo : SUBSET Nodes,
                          waiting : Nodes \cup {0}, id : Nat]
        BY <3>2, <4>2, Zenon
      <4> QED BY <4>1, <4>2, Zenon DEF StartType, Command
    <3>4. SwapInv'
      <4>1. \A m \in Nodes : StartSwaps(m)' # {} => pc'[m] \in {"loading", "dead"}
        BY <1>3, <1>5, <3>2, Zenon DEF ToldInv, SwapInv
      <4>2. \A m \in Nodes : \A i, j \in StartSwaps(m)' : i = j
        BY <1>3, <1>4 DEF ToldInv, SwapInv
      <4>3. cmd'.phase = "calling" => cmd'.id # 0
        BY <3>3, Zenon DEF ToldInv, SwapInv
      <4> QED BY <1>1, <3>2, <4>1, <4>2, <4>3, Zenon DEF ToldInv, SwapInv
    <3>5. ASSUME NEW m \in Nodes \ {n}, OneCall(m) PROVE OneCall(m)'
      <4>1. 0 \notin Nodes
        BY StartupAssumption, Zenon
      <4>2. Waiting(m)' <=> Waiting(m)
        BY <3>3, <4>1, Zenon DEF Waiting
      <4>3. Waiting(m) => cmd'.key = cmd.key /\ cmd'.id = cmd.id
        BY <3>3, Zenon DEF Waiting
      <4> QED BY <1>1, <1>2, <1>3, <2>1, <3>5, <4>2, <4>3 DEF OneCall
    <3>6. ASSUME OneCall(n) PROVE OneCall(n)'
      <4>1. Waiting(n) /\ e.key = cmd.key /\ e.id = cmd.id
        BY <1>2, <3>1, <3>6, Zenon DEF OneCall
      <4>2. ~Waiting(n)'
        BY <3>3, <4>1, StartupAssumption, Zenon DEF Waiting
      <4>3. CallSwaps(n)' = {}
        <5>1. \A i \in CallSwaps(n)' : i + 1 = 1 /\ i \in Nat \ {0}
          BY <1>2, <3>1, <3>6, Zenon DEF OneCall
        <5> QED BY <5>1
      <4>4. \A c \in calls : c.node # n
        BY <3>1, <3>6, Zenon DEF OneCall
      <4>5. told[n] \in Loadable => proto'[n] = told[n]
        BY <1>9, <3>6, <4>1, Zenon DEF OneCall, applyProtocolSwap, StartType
      <4> QED BY <1>1, <4>2, <4>3, <4>4, <4>5, Zenon DEF OneCall
    <3> QED BY <1>1, <3>4, <3>5, <3>6, Zenon DEF ToldInv
  <2> QED BY <2>2, <2>3, Zenon
<1> QED BY <1>8, <1>9, Zenon DEF React, e

(* The operator's calls, one at a time, and their handlers: a call is made *)
(* only when the last one was answered or was late.                        *)
LEMMA CommandTold ==
  ASSUME StartType, ToldInv,
         \/ \E n \in Nodes : SwapProtocolCall(n)
         \/ SetClusterProtocol \/ Timeout \/ SwapProtocol
  PROVE  ToldInv'
<1>0. 0 \notin Nodes /\ "none" \notin Loadable /\ "late" \notin Loadable
  BY StartupAssumption, Zenon DEF Key
<1> DEFINE Calling == [phase : {"calling"}, key : Key, todo : SUBSET Nodes,
                       waiting : Nodes \cup {0}, id : Nat]
<1>1. /\ UNCHANGED <<pc, proto, eventCh>>
      /\ \A m \in Nodes : StartSwaps(m)' = StartSwaps(m) /\ CallSwaps(m)' = CallSwaps(m)
  <2>1. UNCHANGED <<pc, proto, eventCh>>
    BY Zenon DEF SwapProtocolCall, SetClusterProtocol, Timeout, SwapProtocol, start
  <2> QED BY <2>1, SameSwaps, Zenon
<1>2. cmd.phase = "calling" => cmd \in Calling
  <2>1. cmd = NoCommand \/ cmd \in Calling
    BY Zenon DEF StartType, Command
  <2> QED BY <2>1 DEF NoCommand
<1>3. ASSUME SetClusterProtocol \/ SwapProtocol PROVE ToldInv'
  <2>1. /\ UNCHANGED <<calls, told>>
        /\ \A m \in Nodes : ~Waiting(m) /\ ~Waiting(m)'
    BY <1>0, <1>3 DEF SetClusterProtocol, SwapProtocol, Waiting, NoCommand
  <2>2. cmd'.phase = "calling" => cmd'.id # 0
    BY <1>3 DEF SetClusterProtocol, SwapProtocol, NoCommand, StartType
  <2>3. SwapInv'
    BY <1>1, <2>1, <2>2, Zenon DEF ToldInv, SwapInv
  <2>4. \A m \in Nodes : OneCall(m) => OneCall(m)'
    BY <1>1, <2>1, Zenon DEF OneCall
  <2> QED BY <2>1, <2>3, <2>4, Zenon DEF ToldInv
<1>4. CASE Timeout
  <2>1. cmd \in Calling /\ cmd.waiting \in Nodes
    BY <1>2, <1>4, Zenon DEF Timeout
  <2>2. /\ cmd'.phase = "calling" /\ cmd'.id = cmd.id /\ cmd'.waiting = 0
        /\ calls' = calls
    BY <1>4, <2>1, Zenon DEF Timeout
  <2>3. /\ told'[cmd.waiting] = "late"
        /\ \A m \in Nodes \ {cmd.waiting} : told'[m] = told[m]
        /\ told' \in [Nodes -> Key \cup {"none", "late"}]
    BY <1>4, <2>1, Zenon DEF Timeout, ToldInv, SwapInv
  <2>4. SwapInv'
    BY <1>0, <1>1, <1>4, <2>2, <2>3 DEF Timeout, ToldInv, SwapInv
  <2>5. ASSUME NEW m \in Nodes \ {cmd.waiting}, OneCall(m) PROVE OneCall(m)'
    <3>1. ~Waiting(m) /\ ~Waiting(m)'
      BY <1>0, <2>2, <2>5, Zenon DEF Waiting
    <3> QED BY <1>1, <2>2, <2>3, <2>5, <3>1, Zenon DEF OneCall
  <2> QED BY <2>3, <2>4, <2>5, Zenon DEF ToldInv
<1>5. ASSUME NEW n \in Nodes, SwapProtocolCall(n), ~Reachable(n) PROVE ToldInv'
  <2>1. cmd \in Calling /\ cmd.waiting = 0
    <3>1. cmd.phase = "calling" /\ cmd.waiting = 0
      BY <1>5, ZenonT(60) DEF SwapProtocolCall
    <3> QED BY <1>2, <3>1, Zenon
  <2>2. /\ UNCHANGED <<calls, told>> /\ cmd'.phase = "calling"
        /\ cmd'.id = cmd.id /\ cmd'.waiting = 0
    BY <1>5, <2>1, Zenon DEF SwapProtocolCall
  <2>3. SwapInv'
    BY <1>1, <2>1, <2>2 DEF ToldInv, SwapInv
  <2>4. \A m \in Nodes : ~Waiting(m) /\ ~Waiting(m)'
    BY <1>0, <2>1, <2>2, Zenon DEF Waiting
  <2>5. \A m \in Nodes : OneCall(m) => OneCall(m)'
    BY <1>1, <2>2, <2>4, Zenon DEF OneCall
  <2> QED BY <2>2, <2>3, <2>5, Zenon DEF ToldInv
<1>6. ASSUME NEW n \in Nodes, SwapProtocolCall(n), Reachable(n) PROVE ToldInv'
  <2> DEFINE c == [node |-> n, key |-> cmd.key, id |-> cmd.id]
  <2>1. cmd \in Calling /\ cmd.waiting = 0
    <3>1. cmd.phase = "calling" /\ cmd.waiting = 0
      BY <1>6, Zenon DEF SwapProtocolCall
    <3> QED BY <1>2, <3>1, Zenon
  <2>2. /\ calls' = calls \cup {c}
        /\ cmd'.phase = "calling" /\ cmd'.id = cmd.id /\ cmd'.key = cmd.key
        /\ cmd'.waiting = n
    BY <1>6, <2>1, ZenonT(60) DEF SwapProtocolCall
  <2>3. /\ \A m \in Nodes \ {n} : told'[m] = told[m]
        /\ told'[n] = IF told[n] = "late" THEN "late"
                      ELSE IF pc[n] \in {"loaded", "up"} THEN cmd.key ELSE "none"
        /\ told' \in [Nodes -> Key \cup {"none", "late"}]
    BY <1>6, <2>1, ZenonT(60) DEF SwapProtocolCall, ToldInv, SwapInv
  <2>4. c.node = n /\ c.key = cmd.key /\ c.id = cmd.id /\ cmd.id # 0
    BY <2>1, Zenon DEF ToldInv, SwapInv
  <2> HIDE DEF c
  <2>5. SwapInv'
    <3>1. \A m \in Nodes : told'[m] \in Loadable => pc'[m] \in {"loaded", "up", "dead"}
      BY <1>0, <1>1, <2>3, Zenon DEF ToldInv, SwapInv
    <3>2. \A d \in calls' : d.id # 0
      BY <2>2, <2>4, Zenon DEF ToldInv, SwapInv
    <3> QED BY <1>1, <2>2, <2>3, <2>4, <3>1, <3>2 DEF ToldInv, SwapInv
  <2>6. \A m \in Nodes : ~Waiting(m) /\ (Waiting(m)' <=> m = n)
    BY <1>0, <2>1, <2>2, Zenon DEF Waiting
  <2>7. ASSUME NEW m \in Nodes \ {n}, OneCall(m) PROVE OneCall(m)'
    BY <1>1, <2>2, <2>3, <2>4, <2>6, <2>7, Zenon DEF OneCall
  <2>8. ASSUME OneCall(n) PROVE OneCall(n)'
    <3>1. CallSwaps(n) = {} /\ \A d \in calls : d.node # n
      BY <2>6, <2>8, Zenon DEF OneCall
    <3> QED BY <1>0, <1>1, <2>2, <2>3, <2>4, <2>6, <3>1, Zenon DEF OneCall
  <2> QED BY <2>3, <2>5, <2>7, <2>8, Zenon DEF ToldInv
<1> QED BY <1>3, <1>4, <1>5, <1>6, Zenon

(* A handler moves its call into the channel, an envelope is no swap, and  *)
(* the rest does not touch the swaps.                                      *)
LEMMA OthersTold ==
  ASSUME StartType, ToldInv,
         \/ \E c \in calls : ChangeProtocol(c)
         \/ \E n, p \in Nodes : Tick(n, p)
         \/ \E r \in reports :
              CheckCapabilities(r) \/ ReportCapabilities(r) \/ ReportFails(r)
         \/ CreateCluster \/ UNCHANGED vars
  PROVE  ToldInv'
<1>1. ASSUME NEW n \in Nodes, NEW p \in Nodes, Tick(n, p) PROVE ToldInv'
  <2> DEFINE e == [type |-> "message", from |-> n]
  <2>1. e \in Event /\ e.type # "swap"
    BY Zenon DEF Event
  <2>2. Enqueue(p, e) /\ UNCHANGED <<pc, told, cmd, calls, proto>>
    BY <1>1, Zenon DEF Tick, start, operator
  <2> HIDE DEF e
  <2>3. /\ \A m \in Nodes : \A i \in StartSwaps(m)' : i \in StartSwaps(m)
        /\ \A m \in Nodes : \A i \in CallSwaps(m)' :
             i \in CallSwaps(m) /\ eventCh'[m][i] = eventCh[m][i]
    BY <2>1, <2>2, PutSwap, SameSwaps
  <2>4. SwapInv'
    BY <2>2, <2>3, ZenonT(60) DEF ToldInv, SwapInv
  <2>5. ASSUME NEW m \in Nodes, OneCall(m) PROVE OneCall(m)'
    BY <2>2, <2>3, <2>5 DEF OneCall, Waiting
  <2> QED BY <2>2, <2>4, <2>5, Zenon DEF ToldInv
<1>2. ASSUME NEW c \in calls, ChangeProtocol(c) PROVE ToldInv'
  <2> DEFINE e == [type |-> "swap", key |-> c.key, id |-> c.id]
  <2> DEFINE n == c.node
  <2>0. c \in Call /\ n \in Nodes
    BY Zenon DEF StartType, Call
  <2>1. /\ e \in Event /\ e.type = "swap" /\ e.key = c.key /\ e.id = c.id /\ c.id # 0
    BY <2>0, Zenon DEF Event, Call, ToldInv, SwapInv
  <2>2. /\ eventCh' = eventCh \/ Enqueue(n, e)
        /\ calls' = calls \ {c}
        /\ UNCHANGED <<pc, told, cmd, proto>>
    BY <1>2, Zenon DEF ChangeProtocol, start
  <2> HIDE DEF e
  <2>3. /\ \A m \in Nodes : \A i \in StartSwaps(m)' : i \in StartSwaps(m)
        /\ \A m \in Nodes \ {n} : \A i \in CallSwaps(m)' :
             i \in CallSwaps(m) /\ eventCh'[m][i] = eventCh[m][i]
        /\ \A i \in CallSwaps(n)' :
             \/ i \in CallSwaps(n) /\ eventCh'[n][i] = eventCh[n][i]
             \/ i = Len(eventCh[n]) + 1 /\ eventCh'[n][i] = e
    <3>1. CASE eventCh' = eventCh
      BY <2>0, <3>1, SameSwaps, Zenon
    <3>2. CASE Enqueue(n, e)
      BY <2>0, <2>1, <3>2, PutSwap, SameSwaps, SMTT(30)
    <3> QED BY <2>2, <3>1, <3>2, Zenon
  <2>4. SwapInv'
    BY <2>2, <2>3, ZenonT(60) DEF ToldInv, SwapInv
  <2>5. ASSUME NEW m \in Nodes \ {n}, OneCall(m) PROVE OneCall(m)'
    BY <2>2, <2>3, <2>5, SMTT(30) DEF OneCall, Waiting
  <2>6. ASSUME OneCall(n) PROVE OneCall(n)'
    <3>1. Waiting(n) /\ c.key = cmd.key /\ c.id = cmd.id /\ CallSwaps(n) = {}
      BY <2>6, Zenon DEF OneCall
    <3>2. \A d \in calls' : d.node # n
      <4> SUFFICES ASSUME NEW d \in calls', d.node = n PROVE FALSE
        BY Zenon
      <4>1. d \in calls /\ d # c /\ d \in Call
        BY <2>2, Zenon DEF StartType
      <4>2. d.key = c.key /\ d.id = c.id
        BY <2>6, <3>1, <4>1, Zenon DEF OneCall
      <4> QED BY <2>0, <4>1, <4>2, SMTT(30) DEF Call
    <3>3. \A i \in CallSwaps(n)' : i = Len(eventCh[n]) + 1 /\ eventCh'[n][i] = e
      BY <2>3, <3>1, Zenon
    <3>4. Waiting(n)' /\ cmd' = cmd
      BY <2>2, <3>1, Zenon DEF Waiting
    <3> QED BY <2>1, <2>2, <2>6, <3>1, <3>2, <3>3, <3>4, Zenon DEF OneCall
  <2> QED BY <2>2, <2>4, <2>5, <2>6, Zenon DEF ToldInv
<1>3. CASE UNCHANGED <<told, cmd, calls, eventCh, proto, pc>>
  BY <1>3, ToldFrame, Zenon
<1> QED
  BY <1>1, <1>2, <1>3, Zenon
     DEF CheckCapabilities, ReportCapabilities, ReportFails,
                          CreateCluster, vars, start, operator

(* A node that had started runs what it was told last once the call is     *)
(* answered (protocol_swap.go:52-70, service.go:466-474), with any number  *)
(* of nodes, commands and protocols: its swaps pass one channel, and the   *)
(* next call waits for the answer to the last.                             *)
THEOREM ToldNodesObey == Spec => []RunsWhatItIsTold
<1>1. Init => ToldInv
  <2> SUFFICES ASSUME Init PROVE ToldInv
    BY Zenon
  <2>1. /\ cmd.phase = "idle" /\ calls = {}
        /\ \A n \in Nodes : told[n] = "none" /\ Slots(n) = {}
        /\ told \in [Nodes -> Key \cup {"none", "late"}]
    BY DEF Init, NoCommand, Slots
  <2>2. "none" \notin Loadable
    BY StartupAssumption, Zenon DEF Key
  <2>3. \A n \in Nodes : StartSwaps(n) = {} /\ CallSwaps(n) = {}
    BY <2>1, Zenon DEF StartSwaps, CallSwaps
  <2> QED BY <2>1, <2>2, <2>3, Zenon DEF ToldInv, SwapInv, OneCall
<1>2. StartType /\ ToldInv /\ [Next]_vars => ToldInv'
  BY StartTold, ReactTold, CommandTold, OthersTold, Zenon DEF Next
<1>3. ToldInv => RunsWhatItIsTold
  <2>1. "late" \notin Loadable
    BY StartupAssumption, Zenon DEF Key
  <2> QED BY <2>1, Zenon DEF ToldInv, OneCall, RunsWhatItIsTold, Waiting
<1> QED BY <1>1, <1>2, <1>3, InitType, StepType, PTL DEF Spec

-----------------------------------------------------------------------------
(* A node registers before it fetches, so that whoever fetches later finds *)
(* it among the members.                                                   *)
MeetInv ==
  /\ PeersMeet
  /\ \A n \in Nodes : linked[n] \subseteq peers[n]
  /\ fetched \subseteq members
  /\ \A n \in Nodes : pc[n] \in {"registering", "registered"} => n \in members

(* Every step keeps it: a fetch takes all members but the node itself, and *)
(* a discovery only adds to what a node knows.                             *)
LEMMA StepMeets == StartType /\ MeetInv /\ [Next]_vars => MeetInv'
<1> SUFFICES ASSUME StartType, MeetInv, [Next]_vars PROVE MeetInv'
  BY Zenon
<1> USE DEF StartType, MeetInv, PeersMeet
<1>1. ASSUME NEW n \in Nodes, Starting(n) PROVE MeetInv'
  <2>1. CASE Listen(n)
    BY <2>1, Zenon DEF Listen, Goto, registry, topology
  <2>2. CASE RegisterNode(n)
    BY <2>2, Zenon DEF RegisterNode, Goto, topology
  <2>3. CASE GetClusterProtocol(n)
    BY <2>3, Zenon DEF GetClusterProtocol, Goto, registry, topology
  <2>4. CASE RegistrationFails(n)
    BY <2>4, Zenon DEF RegistrationFails, Goto, registry, topology
  <2>5. CASE FetchPeers(n)
    <3>1. /\ \A m \in Nodes : pc'[m] \in {"registering", "registered"} => pc[m] = pc'[m]
          /\ n \in members /\ members' = members
      BY <2>5, Zenon DEF FetchPeers, Goto, registry, topology
    <3>2. CASE UNCHANGED <<peers, linked, fetched>>
      BY <3>1, <3>2, Zenon
    <3>3. CASE /\ peers' = [peers EXCEPT ![n] = members \ {n}]
               /\ linked' = [linked EXCEPT ![n] = members \ {n}]
               /\ fetched' = fetched \cup {n}
      BY <3>1, <3>3
    <3> QED BY <2>5, <3>2, <3>3, Zenon DEF FetchPeers, OtherMembers, topology
  <2>6. CASE LoadAssigned(n)
    BY <2>6, Zenon DEF LoadAssigned, Goto, registry, topology
  <2>7. CASE Started(n)
    BY <2>7 DEF Started, Goto, registry, topology
  <2> QED BY <1>1, <2>1, <2>2, <2>3, <2>4, <2>5, <2>6, <2>7, Zenon DEF Starting
<1>2. ASSUME NEW n \in Nodes, React(n) PROVE MeetInv'
  <2> DEFINE e == Head(eventCh[n])
  <2>1. UNCHANGED <<fetched, members>>
    BY <1>2, Zenon DEF React, registry
  <2>2. \A m \in Nodes : /\ pc'[m] \in {"registering", "registered"} => pc[m] = pc'[m]
                         /\ linked[m] \subseteq linked'[m]
                         /\ linked'[m] \subseteq peers'[m]
    <3>1. CASE e.type = "message" /\ ReactMessage(n, e.from)
      <4> HIDE DEF e
      <4>1. CASE proto[n] = "none"
        BY <3>1, <4>1, Zenon DEF ReactMessage, Goto, topology
      <4>2. CASE proto[n] # "none"
        <5>1. /\ pc' = pc
              /\ \/ UNCHANGED <<peers, linked>>
                 \/ /\ peers' = [peers EXCEPT ![n] = peers[n] \cup {e.from}]
                    /\ linked' = [linked EXCEPT ![n] = peers[n] \cup {e.from}]
          BY <3>1, <4>2, Zenon DEF ReactMessage, OnPeerDiscovered, topology
        <5>2. CASE UNCHANGED <<peers, linked>>
          BY <5>1, <5>2, Zenon
        <5>3. ASSUME peers' = [peers EXCEPT ![n] = peers[n] \cup {e.from}],
                     linked' = [linked EXCEPT ![n] = peers[n] \cup {e.from}],
                     NEW m \in Nodes
              PROVE  linked[m] \subseteq linked'[m] /\ linked'[m] \subseteq peers'[m]
          BY <5>3, Zenon
        <5> QED BY <5>1, <5>2, <5>3, Zenon
      <4> QED BY <4>1, <4>2, Zenon
    <3>2. CASE AnswerSwap(n, e) /\ UNCHANGED <<peers, linked>>
      <4> HIDE DEF e
      <4> QED BY <3>2, Zenon DEF AnswerSwap, Goto
    <3> QED BY <1>2, <3>1, <3>2, Zenon DEF React, topology
  <2> QED BY <2>1, <2>2, Zenon
<1>3. ASSUME NEW n \in Nodes, SwapProtocolCall(n) PROVE MeetInv'
  BY <1>3, Zenon DEF SwapProtocolCall, start, registry, topology
<1>4. ASSUME NEW n \in Nodes, NEW p \in Nodes, Tick(n, p) PROVE MeetInv'
  BY <1>4, Zenon DEF Tick, start, registry, topology
<1>5. ASSUME NEW r \in reports,
             CheckCapabilities(r) \/ ReportCapabilities(r) \/ ReportFails(r)
      PROVE  MeetInv'
  BY <1>5, Zenon
     DEF CheckCapabilities, ReportCapabilities, ReportFails, start, registry,
     topology
<1>6. ASSUME NEW c \in calls, ChangeProtocol(c) PROVE MeetInv'
  BY <1>6, Zenon DEF ChangeProtocol, start, registry, topology
<1>7. CASE CreateCluster \/ SetClusterProtocol \/ Timeout \/ SwapProtocol
  BY <1>7, Zenon
     DEF CreateCluster, SetClusterProtocol, Timeout, SwapProtocol, start, registry,
     topology
<1>8. CASE UNCHANGED vars
  BY <1>8, Zenon DEF vars, start, registry, topology
<1> QED BY <1>1, <1>2, <1>3, <1>4, <1>5, <1>6, <1>7, <1>8, Zenon DEF Next

(* For any number of nodes, of two that have fetched their peers one at    *)
(* least sends to the other (runtime.go:80-87).                            *)
THEOREM StartedNodesMeet == Spec => []PeersMeet
<1>1. Init => MeetInv
  BY Zenon DEF Init, MeetInv, PeersMeet
<1>2. MeetInv => PeersMeet
  BY Zenon DEF MeetInv
<1> QED BY <1>1, <1>2, InitType, StepType, StepMeets, PTL DEF Spec

-----------------------------------------------------------------------------
(* The envelopes in a node's channel.                                      *)
Envelopes(n) == {e \in {eventCh[n][i] : i \in 1 .. Len(eventCh[n])} : e.type = "message"}

(* Nobody sends to the node, it has sent nothing and nothing waits for it. *)
Unknown(n) ==
  /\ Envelopes(n) = {}
  /\ \A p \in Nodes : n \notin linked[p] /\ \A e \in Envelopes(p) : e.from # n

(* A node is unknown until it registers and, where starts do not overlap,  *)
(* until it has a protocol: the one node on its way is no member when the  *)
(* others fetch.                                                           *)
QuietInv ==
  /\ \A n \in Nodes : pc[n] \in {"off", "listening"} => n \notin members
  /\ \A n \in Nodes : pc[n] \in {"loaded", "up"} => proto[n] # "none"
  /\ ~overlap => /\ panicked = {}
                 /\ \A n \in Nodes : pc[n] \in {"off", "listening"} => Unknown(n)
                 /\ \A n \in Nodes : Loading(n) => Unknown(n)
                 /\ \A n, p \in Nodes : Loading(n) /\ Loading(p) => n = p

(* What the reactor takes from its channel was in it, and nothing else     *)
(* comes to be.                                                            *)
LEMMA TakeEnvelope ==
  ASSUME StartType, NEW n \in Nodes, eventCh[n] # <<>>,
         eventCh' = [eventCh EXCEPT ![n] = Tail(@)]
  PROVE  /\ \A p \in Nodes : Envelopes(p)' \subseteq Envelopes(p)
         /\ Head(eventCh[n]).type = "message" => Head(eventCh[n]) \in Envelopes(n)
<1>1. eventCh \in [Nodes -> Seq(Event)]
  BY Zenon DEF StartType
<1>2. ASSUME NEW p \in Nodes PROVE Envelopes(p)' \subseteq Envelopes(p)
  <2>1. CASE p = n
    <3>1. eventCh'[p] = Tail(eventCh[n])
      BY <1>1, <2>1, Zenon
    <3>2. \A i \in 1 .. Len(Tail(eventCh[n])) :
            i + 1 \in 1 .. Len(eventCh[n]) /\ Tail(eventCh[n])[i] = eventCh[n][i + 1]
      BY <1>1
    <3> QED BY <2>1, <3>1, <3>2 DEF Envelopes
  <2>2. CASE p # n
    BY <1>1, <2>2, Zenon DEF Envelopes
  <2> QED BY <2>1, <2>2, Zenon
<1>3. 1 \in 1 .. Len(eventCh[n]) /\ Head(eventCh[n]) = eventCh[n][1]
  BY <1>1
<1> QED BY <1>2, <1>3, Zenon DEF Envelopes

(* A channel holds what it held and the event that came.                   *)
LEMMA PutEvent ==
  ASSUME StartType, NEW n \in Nodes, NEW e \in Event, Enqueue(n, e)
  PROVE  \A p \in Nodes : Envelopes(p)' \subseteq
           Envelopes(p) \cup {x \in {e} : p = n /\ e.type = "message"}
<1>1. eventCh \in [Nodes -> Seq(Event)]
  BY Zenon DEF StartType
<1> SUFFICES ASSUME NEW p \in Nodes
             PROVE  Envelopes(p)' \subseteq
                      Envelopes(p) \cup {x \in {e} : p = n /\ e.type = "message"}
  BY Zenon
<1>2. CASE p = n
  <2>1. eventCh'[p] = Append(eventCh[n], e)
    BY <1>1, <1>2, Zenon DEF Enqueue
  <2>2. \A i \in 1 .. Len(Append(eventCh[n], e)) :
          \/ i \in 1 .. Len(eventCh[n]) /\ Append(eventCh[n], e)[i] = eventCh[n][i]
          \/ Append(eventCh[n], e)[i] = e
    BY <1>1
  <2> QED BY <1>2, <2>1, <2>2, Zenon DEF Envelopes
<1>3. CASE p # n
  BY <1>1, <1>3, Zenon DEF Envelopes, Enqueue
<1> QED BY <1>2, <1>3, Zenon

(* A node stays unknown while no envelope and no knowledge of it comes     *)
(* to be.                                                                  *)
LEMMA StillUnknown ==
  ASSUME NEW n \in Nodes, Unknown(n),
         \A p \in Nodes : /\ Envelopes(p)' \subseteq Envelopes(p)
                          /\ n \in linked'[p] => n \in linked[p]
  PROVE  Unknown(n)'
BY Zenon DEF Unknown

(* A step that starts nobody and tells nobody keeps the quiet.             *)
LEMMA QuietFrame ==
  ASSUME QuietInv, UNCHANGED <<pc, linked, members, overlap, panicked, proto>>,
         \A p \in Nodes : Envelopes(p)' \subseteq Envelopes(p)
  PROVE  QuietInv'
<1>1. \A n \in Nodes : Unknown(n) => Unknown(n)'
  BY StillUnknown, Zenon
<1>2. \A n \in Nodes : Loading(n)' <=> Loading(n)
  BY Zenon DEF Loading
<1> QED BY <1>1, <1>2, Zenon DEF QuietInv

(* The steps of Start, each in its node.                                   *)
LEMMA StartQuiet ==
  ASSUME StartType, QuietInv, NEW n \in Nodes, Starting(n)
  PROVE  QuietInv'
<1> USE DEF StartType
<1>0. pc \in [Nodes -> Place]
  BY Zenon
<1>1. CASE Listen(n)
  <2>1. \A m \in Nodes : Unknown(m) => Unknown(m)'
    BY <1>1, StillUnknown, Zenon DEF Listen, Envelopes, topology
  <2>2. /\ \A m \in Nodes : pc'[m] = IF m = n THEN "listening" ELSE pc[m]
        /\ pc[n] = "off"
        /\ UNCHANGED <<members, proto, overlap, panicked>>
    BY <1>0, <1>1, Zenon DEF Listen, Goto, registry, topology
  <2>3. \A m \in Nodes : Loading(m)' <=> Loading(m)
    BY <2>2, Zenon DEF Loading
  <2> QED BY <2>1, <2>2, <2>3, Zenon DEF QuietInv
<1>2. CASE RegisterNode(n)
  <2>1. \A m \in Nodes : Unknown(m) => Unknown(m)'
    BY <1>2, StillUnknown, ZenonT(60) DEF RegisterNode, Envelopes, topology
  <2>2. /\ \A m \in Nodes : pc'[m] = IF m = n THEN "registering" ELSE pc[m]
        /\ pc[n] = "listening" /\ members' = members \cup {n}
        /\ overlap' = (overlap \/ \E p \in Nodes : Loading(p))
        /\ UNCHANGED <<proto, panicked>>
    BY <1>0, <1>2, Zenon DEF RegisterNode, Goto, topology
  <2>3. \A m \in Nodes : Loading(m)' <=> m = n \/ Loading(m)
    BY <2>2, Zenon DEF Loading
  <2> QED BY <2>1, <2>2, <2>3, Zenon DEF QuietInv
<1>3. CASE GetClusterProtocol(n) \/ RegistrationFails(n) \/ Started(n)
  <2>1. \A m \in Nodes : Unknown(m) => Unknown(m)'
    BY <1>3, StillUnknown, Zenon
       DEF GetClusterProtocol, RegistrationFails, Started, Envelopes, topology
  <2>2. /\ UNCHANGED <<members, proto, overlap, panicked>>
        /\ \A m \in Nodes : m # n => pc'[m] = pc[m]
        /\ \/ pc[n] = "registering" /\ pc'[n] = "registered"
           \/ pc[n] = "loaded" /\ pc'[n] = "up"
           \/ pc'[n] = "dead"
    BY <1>0, <1>3, Zenon
       DEF GetClusterProtocol, RegistrationFails, Started, Goto, registry, topology
  <2>3. \A m \in Nodes : Loading(m)' => Loading(m)
    BY <2>2, Zenon DEF Loading
  <2> QED BY <2>1, <2>2, <2>3, Zenon DEF QuietInv
<1>4. CASE FetchPeers(n)
  <2>1. /\ pc[n] = "registered"
        /\ \A m \in Nodes : pc'[m] = IF m = n THEN "peered" ELSE pc[m]
        /\ UNCHANGED <<eventCh, members, proto, overlap, panicked>>
        /\ \A m, p \in Nodes :
             m \in linked'[p] => m \in linked[p] \/ (p = n /\ m \in members \ {n})
    BY <1>0, <1>4, Zenon DEF FetchPeers, Goto, OtherMembers, registry, topology
  <2>2. \A m \in Nodes : (Loading(m)' <=> Loading(m)) /\ Loading(n)
    BY <2>1, Zenon DEF Loading
  <2>3. ASSUME NEW m \in Nodes, Unknown(m), m = n \/ m \notin members PROVE Unknown(m)'
    BY <2>1, <2>3, StillUnknown, Zenon DEF Envelopes
  <2> QED BY <2>1, <2>2, <2>3, ZenonT(60) DEF QuietInv
<1>5. CASE LoadAssigned(n)
  <2> DEFINE e == [type |-> "swap", key |-> assigned[n], id |-> 0]
  <2>1. e \in Event /\ e.type # "message"
    BY Zenon DEF Event
  <2>2. /\ pc[n] = "peered" /\ Enqueue(n, e)
        /\ \A m \in Nodes : pc'[m] = IF m = n THEN "loading" ELSE pc[m]
        /\ UNCHANGED <<linked, members, proto, overlap, panicked>>
    BY <1>0, <1>5, Zenon DEF LoadAssigned, Goto, registry, topology
  <2> HIDE DEF e
  <2>3. \A p \in Nodes : Envelopes(p)' \subseteq Envelopes(p)
    BY <2>1, <2>2, PutEvent, Zenon
  <2>4. \A m \in Nodes : Unknown(m) => Unknown(m)'
    BY <2>2, <2>3, StillUnknown, Zenon
  <2>5. \A m \in Nodes : Loading(m)' <=> Loading(m)
    BY <2>2, Zenon DEF Loading
  <2> QED BY <2>2, <2>4, <2>5, Zenon DEF QuietInv
<1> QED BY <1>1, <1>2, <1>3, <1>4, <1>5, Zenon DEF Starting

(* The reactor: an envelope without a protocol needs overlapping starts,   *)
(* its sender is known to be one, and a swap loads a protocol or leaves    *)
(* what there was.                                                         *)
LEMMA ReactQuiet ==
  ASSUME StartType, QuietInv, NEW n \in Nodes, React(n)
  PROVE  QuietInv'
<1> USE DEF StartType
<1> DEFINE e == Head(eventCh[n])
<1>1. /\ eventCh[n] # <<>> /\ pc[n] # "dead"
      /\ eventCh' = [eventCh EXCEPT ![n] = Tail(@)]
      /\ UNCHANGED members
  BY Zenon DEF React, registry
<1>2. /\ \A p \in Nodes : Envelopes(p)' \subseteq Envelopes(p)
      /\ e.type = "message" => e \in Envelopes(n)
  BY <1>1, TakeEnvelope, Zenon
<1>3. CASE e.type = "message" /\ ReactMessage(n, e.from)
  <2> HIDE DEF e
  <2>1. ASSUME NEW m \in Nodes, Unknown(m) PROVE m # n /\ m # e.from
    BY <1>2, <1>3, <2>1, Zenon DEF Unknown
  <2>2. CASE proto[n] = "none"
    <3>1. /\ panicked' = panicked \cup {n} /\ UNCHANGED <<linked, proto, overlap>>
          /\ \A m \in Nodes : pc'[m] = IF m = n THEN "dead" ELSE pc[m]
      BY <1>3, <2>2, Zenon DEF ReactMessage, Goto, topology
    <3>2. pc[n] \in {"off", "listening"} \/ Loading(n)
      BY <1>1, <2>2, Zenon DEF Loading, Place, QuietInv
    <3>3. overlap
      BY <2>1, <3>2, Zenon DEF QuietInv
    <3> QED BY <1>1, <3>1, <3>3, Zenon DEF QuietInv
  <2>3. CASE proto[n] # "none" /\ UNCHANGED <<linked, overlap>>
    <3>1. UNCHANGED <<pc, panicked, proto>>
      BY <1>3, <2>3, Zenon DEF ReactMessage
    <3> QED BY <1>1, <1>2, <2>3, <3>1, QuietFrame, Zenon
  <2>4. CASE /\ proto[n] # "none"
             /\ linked' = [linked EXCEPT ![n] = peers[n] \cup {e.from}]
             /\ overlap' = (overlap \/ linked[n] # peers[n])
    <3>1. UNCHANGED <<pc, panicked, proto>>
      BY <1>3, <2>4, Zenon DEF ReactMessage
    <3>2. ASSUME NEW m \in Nodes, Unknown(m), ~overlap' PROVE Unknown(m)'
      <4>1. \A p \in Nodes : m \in linked'[p] => m \in linked[p]
        BY <2>1, <2>4, <3>2, Zenon
      <4> QED BY <1>2, <3>2, <4>1, StillUnknown, Zenon
    <3>3. \A m \in Nodes : Loading(m)' <=> Loading(m)
      BY <3>1, Zenon DEF Loading
    <3>4. ~overlap' => ~overlap
      BY <2>4, Zenon
    <3> QED BY <1>1, <3>1, <3>2, <3>3, <3>4, Zenon DEF QuietInv
  <2> QED BY <1>3, <2>2, <2>3, <2>4, Zenon
  DEF ReactMessage, OnPeerDiscovered, topology
<1>4. CASE /\ e.type = "swap" /\ applyProtocolSwap(n, e.key) /\ AnswerSwap(n, e)
           /\ UNCHANGED <<linked, panicked, overlap>>
  <2> HIDE DEF e
  <2>1. \A m \in Nodes : Unknown(m) => Unknown(m)'
    BY <1>2, <1>4, StillUnknown, Zenon
  <2>2. "none" \notin Loadable
    BY StartupAssumption, Zenon DEF Key
  <2>3. /\ \A m \in Nodes : proto[m] # "none" => proto'[m] # "none"
        /\ e.key \in Loadable => proto'[n] # "none"
    BY <1>4, <2>2, Zenon DEF applyProtocolSwap
  <2>4. /\ \A m \in Nodes : m # n => pc'[m] = pc[m]
        /\ \/ pc'[n] = pc[n]
           \/ pc[n] = "loading" /\ pc'[n] = "loaded" /\ e.key \in Loadable
           \/ pc[n] = "loading" /\ pc'[n] = "refused"
    BY <1>4, Zenon DEF AnswerSwap, Goto
  <2>5. \A m \in Nodes : Loading(m)' => Loading(m)
    BY <2>4, Zenon DEF Loading
  <2> QED BY <1>1, <1>4, <2>1, <2>3, <2>4, <2>5, Zenon DEF QuietInv
<1> QED BY <1>3, <1>4, Zenon DEF React, topology

(* Every step keeps the quiet.                                             *)
LEMMA StepQuiet == StartType /\ QuietInv /\ [Next]_vars => QuietInv'
<1> SUFFICES ASSUME StartType, QuietInv, [Next]_vars PROVE QuietInv'
  BY Zenon
<1>1. ASSUME NEW n \in Nodes, NEW p \in Nodes, Tick(n, p) PROVE QuietInv'
  <2> DEFINE e == [type |-> "message", from |-> n]
  <2>1. /\ pc[n] = "up" /\ p \in linked[n] /\ Enqueue(p, e)
        /\ UNCHANGED <<pc, linked, members, overlap, panicked, proto>>
    BY <1>1, Zenon DEF Tick, start, registry, topology
  <2>2. e \in Event /\ e.from = n
    BY Zenon DEF Event
  <2> HIDE DEF e
  <2>3. \A q \in Nodes : Envelopes(q)' \subseteq Envelopes(q) \cup {x \in {e} : q = p}
    BY <2>1, <2>2, PutEvent, Zenon
  <2>4. ASSUME NEW m \in Nodes, Unknown(m), m # n PROVE Unknown(m)'
    BY <2>1, <2>2, <2>3, <2>4, Zenon DEF Unknown
  <2>5. \A m \in Nodes : Loading(m)' <=> Loading(m)
    BY <2>1, Zenon DEF Loading
  <2>6. ~Loading(n) /\ pc[n] \notin {"off", "listening"}
    BY <2>1, Zenon DEF Loading
  <2> QED BY <2>1, <2>4, <2>5, <2>6, Zenon DEF QuietInv
<1>2. ASSUME NEW c \in calls, ChangeProtocol(c) PROVE QuietInv'
  <2> DEFINE e == [type |-> "swap", key |-> c.key, id |-> c.id]
  <2>1. c.node \in Nodes /\ e \in Event /\ e.type # "message"
    BY Zenon DEF StartType, Call, Event
  <2>2. /\ eventCh' = eventCh \/ Enqueue(c.node, e)
        /\ UNCHANGED <<pc, linked, members, overlap, panicked, proto>>
    BY <1>2, Zenon DEF ChangeProtocol, start, registry, topology
  <2> HIDE DEF e
  <2>3. \A q \in Nodes : Envelopes(q)' \subseteq Envelopes(q)
    <3>1. CASE eventCh' = eventCh
      BY <3>1, Zenon DEF Envelopes
    <3>2. CASE Enqueue(c.node, e)
      BY <2>1, <3>2, PutEvent, Zenon
    <3> QED BY <2>2, <3>1, <3>2, Zenon
  <2> QED BY <2>2, <2>3, QuietFrame, Zenon
<1>3. CASE UNCHANGED <<pc, linked, members, overlap, panicked, proto, eventCh>>
  BY <1>3, QuietFrame, Zenon DEF Envelopes
<1>4. ASSUME NEW n \in Nodes, SwapProtocolCall(n) PROVE QuietInv'
  BY <1>3, <1>4, Zenon DEF SwapProtocolCall, start, registry, topology
<1>5. ASSUME NEW r \in reports,
             CheckCapabilities(r) \/ ReportCapabilities(r) \/ ReportFails(r)
      PROVE  QuietInv'
  BY <1>3, <1>5, Zenon
     DEF CheckCapabilities, ReportCapabilities, ReportFails, start, registry,
     topology
<1>6. CASE CreateCluster \/ SetClusterProtocol \/ Timeout \/ SwapProtocol
  BY <1>3, <1>6, Zenon
     DEF CreateCluster, SetClusterProtocol, Timeout, SwapProtocol, start,
                    registry, topology
<1>7. CASE UNCHANGED vars
  BY <1>3, <1>7, Zenon DEF vars, start, registry, topology
<1> QED BY <1>1, <1>2, <1>4, <1>5, <1>6, <1>7, StartQuiet, ReactQuiet, Zenon DEF Next

(* For any number of nodes and any lists of peers, an envelope meets a nil *)
(* protocol only where starts overlap or a node links one it was only      *)
(* given (runtime.go:78-92, protocol_swap.go:10-22).                       *)
THEOREM QuietStartsAreSafe == Spec => []PanicNeedsOverlap
<1>1. Init => QuietInv
  BY DEF Init, QuietInv, Unknown, Envelopes, Loading
<1>2. QuietInv => PanicNeedsOverlap
  BY Zenon DEF QuietInv, PanicNeedsOverlap
<1> QED BY <1>1, <1>2, InitType, StepType, StepQuiet, PTL DEF Spec

-----------------------------------------------------------------------------
(* Nobody swaps the protocol of a node that is not in the registry yet, so *)
(* that its registration wipes no record of a protocol.                    *)
MemberInv ==
  /\ \A n \in Nodes : pc[n] \in {"off", "listening"} => n \notin members
  /\ \A n \in Nodes : pc[n] \in {"registering", "registered", "peered"} => n \in members
  /\ \A n \in Nodes : proto[n] # "none" => n \in members
  /\ \A n \in Nodes : StartSwaps(n) \cup CallSwaps(n) # {} => n \in members
  /\ cmd.phase = "calling" => cmd.todo \subseteq members
  /\ \A c \in calls : c.node \in members

CapsReport == [node : Nodes, key : Loadable, caps : Loadable \cup {"none"}]

(* A report that no other crossed is of the protocol that runs.            *)
RecordInv ==
  /\ reports \subseteq CapsReport
  /\ record \in [Nodes -> [key : Key \cup {"none"}, caps : Key \cup {"none"}]]
  /\ \A r \in reports :
       r.node \notin crossed =>
         /\ r.key = proto[r.node] /\ r.caps \in {"none", proto[r.node]}
         /\ \A s \in reports : s.node = r.node => s = r
  /\ RecordFollowsSwap

(* The swaps come from nodes that have registered and from calls to them.  *)
LEMMA MemberStep == StartType /\ MemberInv /\ [Next]_vars => MemberInv'
<1> SUFFICES ASSUME StartType, MemberInv, [Next]_vars PROVE MemberInv'
  BY Zenon
<1> USE DEF MemberInv
<1>0. ASSUME eventCh' = eventCh
      PROVE  \A m \in Nodes : StartSwaps(m)' = StartSwaps(m) /\ CallSwaps(m)' = CallSwaps(m)
  BY <1>0, SameSwaps, Zenon
<1>1. ASSUME NEW n \in Nodes, Starting(n), ~LoadAssigned(n) PROVE MemberInv'
  <2>1. UNCHANGED <<proto, eventCh, cmd, calls>>
    BY <1>1, Zenon
       DEF Starting, Listen, RegisterNode, GetClusterProtocol, FetchPeers,
                RegistrationFails, Started, operator
  <2>2. /\ \A m \in Nodes \ {n} : pc'[m] = pc[m]
        /\ pc'[n] = "listening" => pc[n] = "off" /\ members' = members
        /\ pc'[n] # "off"
        /\ pc'[n] \in {"registering", "registered", "peered"} => n \in members'
        /\ members' = members \/ (members' = members \cup {n} /\ pc'[n] = "registering")
    <3>1. pc \in [Nodes -> Place]
      BY Zenon DEF StartType
    <3>2. CASE Listen(n)
      BY <3>1, <3>2, Zenon DEF Listen, Goto, registry
    <3>3. CASE RegisterNode(n)
      BY <3>1, <3>3, Zenon DEF RegisterNode, Goto
    <3>4. CASE GetClusterProtocol(n)
      BY <3>1, <3>4, Zenon DEF GetClusterProtocol, Goto, registry
    <3>5. CASE FetchPeers(n)
      BY <3>1, <3>5, Zenon DEF FetchPeers, Goto, registry
    <3>6. CASE RegistrationFails(n) \/ Started(n)
      BY <3>1, <3>6, Zenon DEF RegistrationFails, Started, Goto, registry
    <3> QED BY <1>1, <3>2, <3>3, <3>4, <3>5, <3>6, Zenon DEF Starting
  <2> QED BY <1>0, <2>1, <2>2, Zenon
<1>2. ASSUME NEW n \in Nodes, LoadAssigned(n) PROVE MemberInv'
  <2> DEFINE e == [type |-> "swap", key |-> assigned[n], id |-> 0]
  <2>1. e \in Event
    BY Zenon DEF Event, StartType
  <2>2. /\ pc[n] = "peered" /\ Enqueue(n, e)
        /\ \A m \in Nodes : pc'[m] = IF m = n THEN "loading" ELSE pc[m]
        /\ UNCHANGED <<members, cmd, calls, proto>>
    BY <1>2, Zenon DEF LoadAssigned, Goto, operator, registry, StartType
  <2> HIDE DEF e
  <2>3. \A m \in Nodes \ {n} :
          StartSwaps(m)' = StartSwaps(m) /\ CallSwaps(m)' = CallSwaps(m)
    BY <2>1, <2>2, PutSwap, SameSwaps, SMTT(30)
  <2> QED BY <2>2, <2>3, Zenon
<1>3. ASSUME NEW n \in Nodes, React(n) PROVE MemberInv'
  <2> DEFINE e == Head(eventCh[n])
  <2>1. /\ eventCh[n] # <<>> /\ eventCh' = [eventCh EXCEPT ![n] = Tail(@)]
        /\ UNCHANGED <<members, calls>>
    BY <1>3, Zenon DEF React, registry
  <2>2. /\ \A m \in Nodes \ {n} :
             StartSwaps(m)' = StartSwaps(m) /\ CallSwaps(m)' = CallSwaps(m)
        /\ StartSwaps(n)' # {} => StartSwaps(n) # {}
        /\ CallSwaps(n)' # {} => CallSwaps(n) # {}
        /\ 1 \in Slots(n) /\ e = eventCh[n][1]
    BY <2>1, TakeSwap, SameSwaps, ZenonT(60)
  <2>3. \A m \in Nodes : StartSwaps(m)' \cup CallSwaps(m)' # {} => m \in members
    BY <2>2, Zenon
  <2>4. e.type = "swap" => n \in members
    <3>1. e.type = "swap" => 1 \in StartSwaps(n) \cup CallSwaps(n)
      BY <2>2, Zenon DEF StartSwaps, CallSwaps
    <3> QED BY <3>1, Zenon
  <2> HIDE DEF e
  <2>5. CASE e.type = "message" /\ ReactMessage(n, e.from)
    <3>1. /\ UNCHANGED <<cmd, proto>>
          /\ \A m \in Nodes : pc'[m] = pc[m] \/ pc'[m] = "dead"
      BY <2>5, ZenonT(60) DEF ReactMessage, Goto, StartType
    <3> QED BY <2>1, <2>3, <3>1, Zenon
  <2>6. CASE e.type = "swap" /\ applyProtocolSwap(n, e.key) /\ AnswerSwap(n, e)
    <3>1. \A m \in Nodes : pc'[m] = pc[m] \/ pc'[m] \in {"loaded", "refused"}
      BY <2>6, Zenon DEF AnswerSwap, Goto, StartType
    <3>2. \A m \in Nodes : proto'[m] # "none" => m \in members
      BY <2>4, <2>6 DEF applyProtocolSwap, StartType
    <3>3. cmd'.phase = "calling" => cmd.phase = "calling" /\ cmd'.todo = cmd.todo
      <4>1. cmd' = [cmd EXCEPT !.waiting = 0] \/ cmd' = cmd
        BY <2>6, Zenon DEF AnswerSwap
      <4>2. CASE cmd = NoCommand
        BY <4>1, <4>2, Zenon DEF NoCommand
      <4>3. CASE cmd \in [phase : {"calling"}, key : Key, todo : SUBSET Nodes,
                          waiting : Nodes \cup {0}, id : Nat]
        BY <4>1, <4>3, Zenon
      <4> QED BY <4>2, <4>3, Zenon DEF StartType, Command
    <3> QED BY <2>1, <2>3, <3>1, <3>2, <3>3, Zenon
  <2> QED BY <1>3, <2>5, <2>6, Zenon DEF React, e
<1>4. ASSUME NEW n \in Nodes, NEW p \in Nodes, Tick(n, p) PROVE MemberInv'
  <2> DEFINE e == [type |-> "message", from |-> n]
  <2>1. e \in Event /\ e.type # "swap"
    BY Zenon DEF Event
  <2>2. Enqueue(p, e) /\ UNCHANGED <<pc, members, cmd, calls, proto>>
    BY <1>4, Zenon DEF Tick, start, operator, registry
  <2> HIDE DEF e
  <2>3. \A m \in Nodes : /\ StartSwaps(m)' # {} => StartSwaps(m) # {}
                         /\ CallSwaps(m)' # {} => CallSwaps(m) # {}
    BY <2>1, <2>2, PutSwap, SameSwaps, SMTT(30)
  <2> QED BY <2>2, <2>3, Zenon
<1>5. ASSUME NEW c \in calls, ChangeProtocol(c) PROVE MemberInv'
  <2> DEFINE e == [type |-> "swap", key |-> c.key, id |-> c.id]
  <2> DEFINE n == c.node
  <2>1. n \in Nodes /\ e \in Event
    BY Zenon DEF Event, Call, StartType
  <2>2. /\ eventCh' = eventCh \/ Enqueue(n, e)
        /\ calls' = calls \ {c}
        /\ UNCHANGED <<pc, members, cmd, proto>>
    BY <1>5, Zenon DEF ChangeProtocol, start, registry
  <2> HIDE DEF e
  <2>3. \A m \in Nodes \ {n} :
          StartSwaps(m)' = StartSwaps(m) /\ CallSwaps(m)' = CallSwaps(m)
    BY <2>1, <2>2, PutSwap, SameSwaps
  <2>4. n \in members
    BY Zenon
  <2> QED BY <2>2, <2>3, <2>4, Zenon
<1>6. ASSUME NEW n \in Nodes, SwapProtocolCall(n) PROVE MemberInv'
  <2>1. /\ cmd.phase = "calling" /\ n \in cmd.todo
        /\ cmd \in [phase : {"calling"}, key : Key, todo : SUBSET Nodes,
                    waiting : Nodes \cup {0}, id : Nat]
    BY <1>6 DEF SwapProtocolCall, StartType, Command, NoCommand
  <2>2. cmd'.todo = cmd.todo \ {n}
    BY <1>6, <2>1, Zenon DEF SwapProtocolCall
  <2>3. \A c \in calls' : c \in calls \/ c.node = n
    BY <1>6 DEF SwapProtocolCall
  <2>4. UNCHANGED <<pc, members, proto, eventCh>>
    BY <1>6, Zenon DEF SwapProtocolCall, start, registry
  <2> QED BY <1>0, <2>1, <2>2, <2>3, <2>4, Zenon
<1>7. CASE SetClusterProtocol \/ SwapProtocol \/ Timeout
  <2>1. UNCHANGED <<pc, members, proto, eventCh, calls>>
    BY <1>7, Zenon DEF SetClusterProtocol, SwapProtocol, Timeout, start, registry
  <2>2. cmd'.phase = "calling" => cmd'.todo \subseteq members
    <3>1. CASE SetClusterProtocol \/ SwapProtocol
      BY <3>1 DEF SetClusterProtocol, SwapProtocol, NoCommand
    <3>2. CASE Timeout
      <4>1. cmd \in [phase : {"calling"}, key : Key, todo : SUBSET Nodes,
                     waiting : Nodes \cup {0}, id : Nat]
        BY <3>2 DEF Timeout, StartType, Command, NoCommand
      <4> QED BY <3>2, <4>1, Zenon DEF Timeout
    <3> QED BY <1>7, <3>1, <3>2, ZenonT(60)
  <2> QED BY <1>0, <2>1, <2>2, Zenon
<1>8. CASE UNCHANGED <<pc, members, proto, eventCh, calls, cmd>>
  BY <1>0, <1>8, Zenon
<1> QED
  BY <1>1, <1>2, <1>3, <1>4, <1>5, <1>6, <1>7, <1>8, ZenonT(60)
     DEF Next, CheckCapabilities, ReportCapabilities, ReportFails,
     CreateCluster,
         vars, start, registry, operator

(* A swap is reported, and a report on its own names the protocol that     *)
(* runs until it is recorded.                                              *)
LEMMA RecordStep ==
  StartType /\ MemberInv /\ RecordInv /\ [Next]_vars => RecordInv'
<1> SUFFICES ASSUME StartType, MemberInv, RecordInv, [Next]_vars PROVE RecordInv'
  BY Zenon
<1> USE DEF RecordInv, RecordFollowsSwap
<1>0. Loadable \subseteq Key /\ "none" \notin Loadable
  BY StartupAssumption, Zenon DEF Key
<1>1. ASSUME NEW n \in Nodes, RegisterNode(n) PROVE RecordInv'
  <2>1. proto[n] = "none"
    BY <1>1, Zenon DEF RegisterNode, MemberInv
  <2>2. /\ members' = members \cup {n} /\ UNCHANGED <<proto, reports, crossed>>
        /\ \A m \in Nodes \ {n} : record'[m] = record[m]
        /\ record' \in [Nodes -> [key : Key \cup {"none"}, caps : Key \cup {"none"}]]
    BY <1>1, Zenon DEF RegisterNode, Unreported
  <2> QED BY <2>1, <2>2, StartupAssumption, Zenon
<1>2. ASSUME NEW n \in Nodes, React(n) PROVE RecordInv'
  <2> DEFINE e == Head(eventCh[n])
  <2>1. UNCHANGED <<members, record>>
    BY <1>2, Zenon DEF React, registry
  <2>2. CASE e.type = "message" /\ ReactMessage(n, e.from)
    BY <2>1, <2>2, Zenon DEF ReactMessage
  <2>3. CASE applyProtocolSwap(n, e.key) /\ e.key \notin Loadable
    BY <2>1, <2>3, ZenonT(60) DEF applyProtocolSwap
  <2>4. CASE applyProtocolSwap(n, e.key) /\ e.key \in Loadable
    <3> DEFINE new == {[node |-> m, key |-> e.key, caps |-> "none"] : m \in {n} \cap Watched}
    <3>1. /\ reports' = reports \cup new
          /\ crossed' = crossed \cup {r.node : r \in {x \in reports : x.node = n}}
          /\ \A m \in Nodes : proto'[m] = IF m = n THEN e.key ELSE proto[m]
      BY <2>4, ZenonT(60) DEF applyProtocolSwap, Report, StartType
    <3>2. \A r \in new : r \in CapsReport /\ r.node = n /\ r.key = e.key /\ r.caps = "none"
      BY <2>4, SMTT(30) DEF CapsReport
    <3>3. \A r, s \in new : r = s
      OBVIOUS
    <3>4. n \in Watched => \E r \in new : r.node = n
      <4> SUFFICES ASSUME n \in Watched PROVE \E r \in new : r.node = n
        BY Zenon
      <4> DEFINE w == [node |-> n, key |-> e.key, caps |-> "none"]
      <4>1. w \in new /\ w.node = n
        BY Zenon
      <4> QED BY <4>1, Zenon
    <3>5. (\E r \in reports : r.node = n) => n \in crossed'
      BY <3>1
    <3>6. \A m \in Nodes \ {n} : m \in crossed' <=> m \in crossed
      BY <3>1
    <3> HIDE DEF e, new
    <3>7. reports' \subseteq CapsReport
      BY <3>1, <3>2, Zenon
    <3>8. ASSUME NEW r \in reports', r.node \notin crossed'
          PROVE  /\ r.key = proto'[r.node] /\ r.caps \in {"none", proto'[r.node]}
                 /\ \A s \in reports' : s.node = r.node => s = r
      <4>1. r.node \in Nodes
        BY <3>7, Zenon DEF CapsReport
      <4>2. CASE r \in new
        <5>1. \A s \in reports : s.node # n
          BY <3>2, <3>5, <3>8, <4>2, Zenon
        <5>2. \A s \in reports' : s.node = n => s = r
          BY <3>1, <3>3, <4>2, <5>1, Zenon
        <5>3. r.node = n /\ proto'[n] = r.key /\ r.caps = "none"
          BY <3>1, <3>2, <4>2, Zenon
        <5> QED BY <5>2, <5>3, Zenon
      <4>3. CASE r \in reports
        <5>1. r.node # n /\ r.node \notin crossed
          BY <3>1, <3>5, <3>8, <4>3, ZenonT(60)
        <5>2. \A s \in reports' : s.node = r.node => s \in reports
          BY <3>1, <3>2, <5>1, Zenon
        <5>3. proto'[r.node] = proto[r.node]
          BY <3>1, <4>1, <5>1, Zenon
        <5> QED BY <4>3, <5>1, <5>2, <5>3, Zenon
      <4> QED BY <3>1, <4>2, <4>3, Zenon
    <3>9. ASSUME NEW m \in (members \cap Watched) \ crossed', proto'[m] # "none",
                 \A r \in reports' : r.node # m
          PROVE  record[m] = [key |-> proto'[m], caps |-> proto'[m]]
      <4>1. m # n /\ m \in Nodes
        BY <3>1, <3>4, <3>9, Zenon DEF StartType
      <4>2. /\ proto'[m] = proto[m] /\ m \notin crossed
            /\ \A r \in reports : r.node # m
        BY <3>1, <3>9, <4>1, Zenon
      <4> QED BY <3>9, <4>2, Zenon
    <3> QED BY <2>1, <3>7, <3>8, <3>9, Zenon
  <2> QED BY <1>2, <2>2, <2>3, <2>4, Zenon DEF React
<1>3. ASSUME NEW r \in reports, CheckCapabilities(r) PROVE RecordInv'
  <2> DEFINE q == [r EXCEPT !.caps = proto[r.node]]
  <2>1. /\ reports' = (reports \ {r}) \cup {q}
        /\ UNCHANGED <<members, record, crossed, proto>>
    BY <1>3, Zenon DEF CheckCapabilities, registry
  <2>2. r \in CapsReport /\ r.node \in Nodes
    BY Zenon DEF CapsReport
  <2>3. /\ q \in CapsReport /\ q.node = r.node /\ q.key = r.key
        /\ q.caps = proto[r.node]
    BY <2>2, Zenon DEF CapsReport, StartType
  <2> HIDE DEF q
  <2>4. reports' \subseteq CapsReport
    BY <2>1, <2>3, Zenon
  <2>5. ASSUME NEW x \in reports', x.node \notin crossed
        PROVE  /\ x.key = proto[x.node] /\ x.caps \in {"none", proto[x.node]}
               /\ \A s \in reports' : s.node = x.node => s = x
    <3>1. CASE x = q
      <4>1. r.node \notin crossed /\ r.key = proto[r.node]
        BY <2>3, <2>5, <3>1, Zenon
      <4>2. \A s \in reports : s.node = r.node => s = r
        BY <4>1, Zenon
      <4>3. \A s \in reports' : s.node = r.node => s = q
        BY <2>1, <4>2, Zenon
      <4> QED BY <2>3, <3>1, <4>1, <4>3, Zenon
    <3>2. CASE x # q
      BY <2>1, <2>3, <2>5, <3>2
    <3> QED BY <3>1, <3>2, Zenon
  <2>6. ASSUME NEW m, \A x \in reports' : x.node # m
        PROVE  \A x \in reports : x.node # m
    BY <2>1, <2>3, <2>6, Zenon
  <2> QED BY <2>1, <2>4, <2>5, <2>6
<1>4. ASSUME NEW r \in reports, ReportCapabilities(r) PROVE RecordInv'
  <2>1. /\ reports' = reports \ {r} /\ r.caps # "none"
        /\ UNCHANGED <<members, crossed, proto>>
    BY <1>4, Zenon DEF ReportCapabilities
  <2>2. r \in CapsReport /\ r.node \in Nodes
    BY Zenon DEF CapsReport
  <2>3. /\ record' \in [Nodes -> [key : Key \cup {"none"}, caps : Key \cup {"none"}]]
        /\ \A m \in Nodes \ {r.node} : record'[m] = record[m]
        /\ r.node \in members =>
             record'[r.node] = [key |-> r.key, caps |-> r.caps]
    BY <1>0, <1>4, <2>2, Zenon DEF ReportCapabilities, CapsReport
  <2>4. ASSUME NEW m \in (members \cap Watched) \ crossed, proto[m] # "none",
               \A x \in reports' : x.node # m
        PROVE  record'[m] = [key |-> proto[m], caps |-> proto[m]]
    <3>1. CASE m = r.node
      BY <2>1, <2>3, <2>4, <3>1, ZenonT(60)
    <3>2. CASE m # r.node
      <4>1. \A x \in reports : x.node # m
        BY <2>1, <2>4, <3>2, Zenon
      <4> QED BY <2>3, <2>4, <3>2, <4>1, Zenon DEF StartType
    <3> QED BY <3>1, <3>2, Zenon
  <2> QED BY <2>1, <2>3, <2>4, Zenon
<1>5. ASSUME NEW r \in reports, ReportFails(r) PROVE RecordInv'
  <2>1. /\ reports' = reports \ {r} /\ crossed' = crossed \cup {r.node}
        /\ UNCHANGED <<members, record, proto>>
    BY <1>5, Zenon DEF ReportFails, registry
  <2> QED BY <2>1, ZenonT(60)
<1>6. CASE UNCHANGED <<members, record, crossed, proto, reports>>
  BY <1>6, Zenon
<1>7. ASSUME NEW n \in Nodes, Starting(n), ~RegisterNode(n) PROVE RecordInv'
  BY <1>6, <1>7, Zenon
     DEF Starting, Listen, GetClusterProtocol, FetchPeers, LoadAssigned,
                    RegistrationFails, Started, registry
<1>8. CASE CreateCluster \/ SetClusterProtocol \/ Timeout \/ SwapProtocol
  BY <1>6, <1>8, Zenon
     DEF CreateCluster, SetClusterProtocol, Timeout, SwapProtocol, registry
<1>9. CASE \/ \E n \in Nodes : SwapProtocolCall(n)
           \/ \E n, p \in Nodes : Tick(n, p)
           \/ \E c \in calls : ChangeProtocol(c)
           \/ UNCHANGED vars
  BY <1>6, <1>9, ZenonT(60)
     DEF SwapProtocolCall, Tick, ChangeProtocol, vars, registry
<1> QED
  BY <1>1, <1>2, <1>3, <1>4, <1>5, <1>7, <1>8, <1>9, Zenon DEF Next

(* The registry's record of a node is the protocol that it runs once its   *)
(* reports are in (reactor.go:40-46, manager.go:30-50), with any number of *)
(* nodes, swaps and reports: only a report that was lost, or one that was  *)
(* under way with another, parts them.                                     *)
THEOREM RecordsFollowSwaps == Spec => []RecordFollowsSwap
<1>1. Init => MemberInv /\ RecordInv
  <2> SUFFICES ASSUME Init PROVE MemberInv /\ RecordInv
    BY Zenon
  <2>1. /\ cmd.phase = "idle" /\ calls = {} /\ members = {} /\ reports = {}
        /\ \A n \in Nodes : /\ pc[n] = "off" /\ proto[n] = "none" /\ Slots(n) = {}
        /\ record \in [Nodes -> [key : Key \cup {"none"}, caps : Key \cup {"none"}]]
    BY SMTT(30) DEF Init, NoCommand, Slots, Unreported
  <2>2. \A n \in Nodes : StartSwaps(n) = {} /\ CallSwaps(n) = {}
    BY <2>1, ZenonT(60) DEF StartSwaps, CallSwaps
  <2> QED BY <2>1, <2>2, Zenon DEF MemberInv, RecordInv, RecordFollowsSwap
<1>2. RecordInv => RecordFollowsSwap
  BY Zenon DEF RecordInv
<1> QED BY <1>1, <1>2, InitType, StepType, MemberStep, RecordStep, PTL DEF Spec

=============================================================================
