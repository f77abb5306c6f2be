------------------------- MODULE ControlPlaneProofs -------------------------
(***************************************************************************)
(* Proofs about what the control plane's service knows of a cluster.       *)
(*                                                                         *)
(* The registry is well typed, a running node which is not crashed         *)
(* outlives every cleanup, and the recorded crash flag is the engine's,    *)
(* for every number of nodes, commands and starts and every admissible     *)
(* choice of the timers.                                                   *)
(*                                                                         *)
(* What a convergence check's answer means, for any number of nodes, keys  *)
(* and writes, whatever the nodes do while they are being asked.           *)
(***************************************************************************)
EXTENDS ClusterRegistry, ConvergenceCheck, TLAPS

-----------------------------------------------------------------------------
(* The registry.                                                           *)

(* A node that never crashed has its next heartbeat due before its entry   *)
(* is too old: the time since the last one and the time to the next one    *)
(* never exceed the first interval.                                        *)
BeatInv ==
  /\ \A n \in Nodes : crashed[n] => n \in wasCrashed
  /\ ~panicked =>
       \A n \in Registered \ wasCrashed :
         proc[n] = "up" =>
           nodes[n].seen + nextBeat[n] <= HeartbeatInterval + StartDelay

(* During an update the entry shows what the node is about to be told;     *)
(* the entry of every other running node shows the state of its engine.    *)
EngineInv ==
  \A n \in Registered \ reset :
    /\ Updating(n) => nodes[n].fault = update.fault
    /\ proc[n] = "up" /\ ~Updating(n) => nodes[n].fault.crashed = crashed[n]

-----------------------------------------------------------------------------
(* The fields of an update that is calling a node, of one that has its     *)
(* second half to do, and of a removal.                                    *)
LEMMA UpdateFields ==
  ASSUME NEW u \in Update
  PROVE  /\ u.phase = "call" =>
              /\ u.node \in Nodes /\ u.fault \in Fault
              /\ u.before \in BOOLEAN /\ u.peer \in Nodes \cup {0}
              /\ u.enabled \in BOOLEAN
         /\ u.phase = "second" =>
              u.node \in Nodes /\ u.peer \in Nodes /\ u.enabled \in BOOLEAN
         /\ u.phase = "removing" => u.node \in Nodes
<1>1. CASE u = NoUpdate
  BY <1>1, Zenon DEF NoUpdate
<1>2. CASE u \in [phase : {"removing"}, node : Nodes]
  BY <1>2, Zenon
<1>3. CASE u \in [phase : {"call"}, node : Nodes, fault : Fault,
                  before : BOOLEAN, peer : Nodes \cup {0}, enabled : BOOLEAN]
  BY <1>3, Zenon
<1>4. CASE u \in [phase : {"second"}, node : Nodes, peer : Nodes,
                  enabled : BOOLEAN]
  BY <1>4, Zenon
<1> QED BY <1>1, <1>2, <1>3, <1>4, Zenon DEF Update

(* The updates that the actor makes.                                       *)
LEMMA UpdateMade ==
  /\ NoUpdate \in Update
  /\ \A n \in Nodes : [phase |-> "removing", node |-> n] \in Update
  /\ \A n \in Nodes, f \in Fault, b \in BOOLEAN, p \in Nodes \cup {0},
        e \in BOOLEAN :
       [phase |-> "call", node |-> n, fault |-> f, before |-> b,
        peer |-> p, enabled |-> e] \in Update
  /\ \A n \in Nodes, p \in Nodes, e \in BOOLEAN :
       [phase |-> "second", node |-> n, peer |-> p, enabled |-> e] \in Update
BY Zenon DEF Update

(* What is recorded of an entry: the fields it has after the fault of one  *)
(* node was recorded.                                                      *)
LEMMA Recorded ==
  ASSUME TypeOK, NEW n \in Registered, NEW fault \in Fault,
         RecordFault(n, fault)
  PROVE  /\ DOMAIN nodes' = Registered
         /\ \A m \in Registered : nodes'[m] \in Entry
         /\ nodes'[n].fault = fault /\ nodes'[n].seen = nodes[n].seen
         /\ \A m \in Registered \ {n} : nodes'[m] = nodes[m]
<1>1. nodes[n] \in Entry
  BY Zenon DEF TypeOK
<1>2. /\ DOMAIN nodes' = Registered
      /\ nodes'[n] = [nodes[n] EXCEPT
                        !.fault = fault,
                        !.status = IF fault.crashed THEN "crashed"
                                                    ELSE "active"]
      /\ \A m \in Registered \ {n} : nodes'[m] = nodes[m]
  BY Zenon DEF RecordFault, Registered
<1>3. /\ nodes'[n] \in Entry /\ nodes'[n].fault = fault
      /\ nodes'[n].seen = nodes[n].seen
  BY <1>1, <1>2, Zenon DEF Entry
<1> QED BY <1>2, <1>3, Zenon DEF TypeOK

(* The fault states that the commands record.                              *)
LEMMA FaultsRecorded ==
  ASSUME TypeOK, NEW n \in Registered
  PROVE  /\ nodes[n].fault \in Fault /\ nodes[n].fault.crashed \in BOOLEAN
         /\ \A v \in BOOLEAN : [nodes[n].fault EXCEPT !.crashed = v] \in Fault
         /\ \A p \in Nodes, on \in BOOLEAN : NewPartition(n, p, on) \in Fault
<1>1. nodes[n] \in Entry
  BY Zenon DEF TypeOK
<1>2. nodes[n].fault \in Fault
  BY <1>1, Zenon DEF Entry
<1> QED BY <1>2, Zenon DEF Fault, NewPartition

(* A registration enters one node with a new entry.                        *)
LEMMA Entered ==
  ASSUME TypeOK, NEW n \in Nodes, RegisterNode(n)
  PROVE  /\ DOMAIN nodes' = Registered \cup {n}
         /\ nodes'[n] = NewEntry
         /\ \A m \in Registered \ {n} : nodes'[m] = nodes[m]
         /\ \A m \in Registered \cup {n} : nodes'[m] \in Entry
<1>1. NewEntry \in Entry
  BY RegistryAssumption DEF NewEntry, Entry, Fault, DefaultFaultState
<1>2. /\ DOMAIN nodes' = Registered \cup {n}
      /\ nodes'[n] = NewEntry
      /\ \A m \in Registered \ {n} : nodes'[m] = nodes[m]
  BY Zenon DEF RegisterNode, Put, Registered
<1> QED BY <1>1, <1>2, Zenon DEF TypeOK

(* A heartbeat touches the entry of its sender only, and rejuvenates it.   *)
LEMMA Beaten ==
  ASSUME TypeOK, NEW n \in Nodes, Heartbeat(n)
  PROVE  /\ DOMAIN nodes' = Registered
         /\ \A m \in Registered : nodes'[m] \in Entry
         /\ \A m \in Registered : nodes'[m].fault = nodes[m].fault
         /\ n \in Registered => nodes'[n].seen = 0
         /\ \A m \in Registered \ {n} : nodes'[m] = nodes[m]
<1>1. CASE n \notin Registered
  BY <1>1, Zenon DEF Heartbeat, Registered, TypeOK
<1>2. CASE n \in Registered
  <2>1. nodes[n] \in Entry
    BY <1>2, Zenon DEF TypeOK
  <2>2. /\ DOMAIN nodes' = Registered
        /\ nodes'[n] = [nodes[n] EXCEPT !.seen = 0, !.status = "active"]
        /\ \A m \in Registered \ {n} : nodes'[m] = nodes[m]
    BY <1>2, Zenon DEF Heartbeat, Registered
  <2>3. /\ nodes'[n] \in Entry /\ nodes'[n].seen = 0
        /\ nodes'[n].fault = nodes[n].fault
    <3>1. 0 \in 0 .. CleanupTimeout + 1
      BY RegistryAssumption
    <3> QED BY <2>1, <2>2, <3>1, Zenon DEF Entry
  <2> QED BY <2>2, <2>3, Zenon DEF TypeOK
<1> QED BY <1>1, <1>2, Zenon

(* The cleanup drops old entries that are not recorded as crashed, and     *)
(* changes no fault state.                                                 *)
LEMMA CleanedUp ==
  ASSUME TypeOK, nodes' = Cleaned
  PROVE  /\ DOMAIN nodes' \subseteq Registered
         /\ \A m \in Registered \ DOMAIN nodes' : nodes[m].seen > CleanupTimeout
         /\ \A m \in DOMAIN nodes' :
              /\ nodes'[m] \in Entry
              /\ nodes'[m].fault = nodes[m].fault
              /\ nodes'[m].seen = nodes[m].seen
<1>1. /\ DOMAIN nodes' = Registered \ {m \in Expired : ~nodes[m].fault.crashed}
      /\ \A m \in DOMAIN nodes' :
           nodes'[m] = IF m \in Expired
                       THEN [nodes[m] EXCEPT !.status = "crashed"]
                       ELSE nodes[m]
  BY Zenon DEF Cleaned
<1>2. ASSUME NEW m \in DOMAIN nodes'
      PROVE  /\ nodes'[m] \in Entry
             /\ nodes'[m].fault = nodes[m].fault
             /\ nodes'[m].seen = nodes[m].seen
  <2>1. nodes[m] \in Entry
    BY <1>1, Zenon DEF TypeOK
  <2> QED BY <1>1, <2>1, Zenon DEF Entry
<1> QED BY <1>1, <1>2, Zenon DEF Expired

(* Time ages every entry.                                                  *)
LEMMA Aged ==
  ASSUME TypeOK, Time
  PROVE  /\ DOMAIN nodes' = Registered
         /\ \A m \in Registered :
              /\ nodes'[m] \in Entry
              /\ nodes'[m].fault = nodes[m].fault
              /\ nodes[m].seen \in Nat /\ nodes'[m].seen \in Nat
              /\ nodes'[m].seen <= nodes[m].seen + 1
         /\ \A m \in Nodes : proc[m] = "up" => nextBeat[m] > 0
         /\ \A m \in Nodes :
              nextBeat'[m] = IF proc[m] = "up" THEN nextBeat[m] - 1 ELSE 0
<1>1. /\ DOMAIN nodes' = Registered
      /\ \A m \in Registered :
           nodes'[m] =
             [nodes[m] EXCEPT !.seen = Min(nodes[m].seen + 1, CleanupTimeout + 1)]
      /\ \A m \in Nodes :
           nextBeat'[m] = IF proc[m] = "up" THEN nextBeat[m] - 1 ELSE 0
  BY Zenon DEF Time, Registered
<1>2. ASSUME NEW m \in Registered
      PROVE  /\ nodes'[m] \in Entry
             /\ nodes'[m].fault = nodes[m].fault
             /\ nodes[m].seen \in Nat /\ nodes'[m].seen \in Nat
             /\ nodes'[m].seen <= nodes[m].seen + 1
  <2>1. nodes[m] \in Entry
    BY Zenon DEF TypeOK
  <2>2. nodes[m].seen \in 0 .. CleanupTimeout + 1
    BY <2>1, Zenon DEF Entry
  <2>3. /\ Min(nodes[m].seen + 1, CleanupTimeout + 1) \in 0 .. CleanupTimeout + 1
        /\ Min(nodes[m].seen + 1, CleanupTimeout + 1) <= nodes[m].seen + 1
    BY <2>2, RegistryAssumption DEF Min
  <2> HIDE DEF Min
  <2> QED BY <1>1, <2>1, <2>2, <2>3, RegistryAssumption DEF Entry
<1>3. \A m \in Nodes : proc[m] = "up" => nextBeat[m] > 0
  BY RegistryAssumption DEF Time, Due, TypeOK
<1> QED BY <1>1, <1>2, <1>3, Zenon

(* What a call that reached its node leaves to be done, and what it logs.  *)
LEMMA CallDone ==
  ASSUME TypeOK, update.phase = "call"
  PROVE  /\ Finished \in Update /\ Finished.phase # "call"
         /\ \A old : Lifecycle(update.node, old, update.fault)
                       \subseteq Nodes \X {"CRASH", "RECOVER"}
<1>1. /\ update.node \in Nodes /\ update.peer \in Nodes \cup {0}
      /\ update.enabled \in BOOLEAN
  BY UpdateFields, Zenon DEF TypeOK
<1> QED BY <1>1, UpdateMade DEF Finished, NoUpdate, Lifecycle

-----------------------------------------------------------------------------
(* Every step keeps the registry well typed.                               *)
LEMMA TypeStep == TypeOK /\ [Next]_vars => TypeOK'
<1> SUFFICES ASSUME TypeOK, [Next]_vars PROVE TypeOK'
  BY Zenon
<1> USE DEF Registered, process, history
<1>1. CASE Cleanup
  BY <1>1, CleanedUp, RegistryAssumption DEF Cleanup, TypeOK
<1>2. CASE Time
  <2>1. nextBeat' \in [Nodes -> 0 .. HeartbeatInterval + StartDelay]
    <3>1. \A m \in Nodes : nextBeat'[m] \in 0 .. HeartbeatInterval + StartDelay
      BY <1>2, Aged, RegistryAssumption DEF TypeOK
    <3> QED BY <1>2, <3>1, Zenon DEF Time
  <2>2. nextClean' \in 0 .. CleanupTimeout
    BY <1>2, RegistryAssumption DEF Time, TypeOK
  <2>3. DOMAIN nodes' \subseteq Nodes /\ \A m \in DOMAIN nodes' : nodes'[m] \in Entry
    BY <1>2, Aged, Zenon DEF TypeOK
  <2> QED BY <1>2, <2>1, <2>2, <2>3, Zenon DEF Time, TypeOK
<1>3. ASSUME NEW n \in Nodes, StartProcess(n)
      PROVE  TypeOK'
  BY <1>3, RegistryAssumption DEF StartProcess, TypeOK
<1>4. ASSUME NEW n \in Nodes, Establish(n)
      PROVE  TypeOK'
  <2>1. DOMAIN nodes' \subseteq Nodes /\ \A m \in DOMAIN nodes' : nodes'[m] \in Entry
    <3>1. RegisterNode(n) /\ Registered \subseteq Nodes
      BY <1>4, Zenon DEF Establish, TypeOK
    <3> QED BY <3>1, Entered, Zenon
  <2>2. nextBeat' \in [Nodes -> 0 .. HeartbeatInterval + StartDelay]
    <3>1. PICK d \in 0 .. StartDelay :
                 nextBeat' = [nextBeat EXCEPT ![n] = HeartbeatInterval + d]
      BY <1>4, Zenon DEF Establish
    <3>2. HeartbeatInterval + d \in 0 .. HeartbeatInterval + StartDelay
      BY RegistryAssumption
    <3> QED BY <3>1, <3>2, Zenon DEF TypeOK
  <2>3. wasCrashed' \subseteq Nodes /\ reset' \subseteq Nodes
    BY <1>4, Zenon DEF Establish, RegisterNode, TypeOK
  <2> QED BY <1>4, <2>1, <2>2, <2>3, Zenon DEF Establish, TypeOK
<1>5. ASSUME NEW n \in Nodes, sendHeartbeat(n)
      PROVE  TypeOK'
  BY <1>5, Beaten, RegistryAssumption DEF sendHeartbeat, TypeOK
<1>6. ASSUME NEW n \in Nodes, ExitProcess(n)
      PROVE  TypeOK'
  BY <1>6, Zenon DEF ExitProcess, TypeOK
<1>7. ASSUME NEW n \in Registered, NEW f \in Fault, NEW p \in Nodes \cup {0},
             NEW e \in BOOLEAN, ChangeFault(n, f, p, e),
             commands' \in {commands, commands + 1}, commands' <= MaxCommands,
             UNCHANGED <<process, nextClean, panicked, ledger, history, starts>>
      PROVE  TypeOK'
  <2>1. update' \in Update
    BY <1>7, UpdateMade, FaultsRecorded, Zenon DEF ChangeFault, TypeOK
  <2>2. /\ DOMAIN nodes' = Registered
        /\ \A m \in Registered : nodes'[m] \in Entry
    BY <1>7, Recorded, Zenon DEF ChangeFault
  <2> QED BY <1>7, <2>1, <2>2, RegistryAssumption DEF TypeOK
<1>8. ASSUME NEW n \in Nodes, NEW f \in Fault, SetFaultParams(n, f)
      PROVE  TypeOK'
  <2>1. commands' = commands + 1 /\ commands' <= MaxCommands
    BY <1>8, RegistryAssumption DEF SetFaultParams, Command, TypeOK
  <2> QED BY <1>7, <1>8, <2>1, Zenon DEF SetFaultParams
<1>9. ASSUME NEW n \in Nodes, NEW v \in BOOLEAN, SetCrashed(n, v)
      PROVE  TypeOK'
  <2>1. commands' = commands + 1 /\ commands' <= MaxCommands
    BY <1>9, RegistryAssumption DEF SetCrashed, Command, TypeOK
  <2>2. n \in Registered /\ [nodes[n].fault EXCEPT !.crashed = v] \in Fault
    BY <1>9, FaultsRecorded, Zenon DEF SetCrashed
  <2> QED BY <1>7, <1>9, <2>1, <2>2, Zenon DEF SetCrashed
<1>10. ASSUME NEW n \in Nodes, NEW p \in Nodes, NEW on \in BOOLEAN,
              SetPartition(n, p, on)
       PROVE  TypeOK'
  <2>1. commands' = commands + 1 /\ commands' <= MaxCommands
    BY <1>10, RegistryAssumption DEF SetPartition, Command, TypeOK
  <2>2. n \in Registered /\ NewPartition(n, p, on) \in Fault
    BY <1>10, FaultsRecorded, Zenon DEF SetPartition
  <2> QED BY <1>7, <1>10, <2>1, <2>2, Zenon DEF SetPartition
<1>11. ASSUME NEW n \in Nodes, AddNode(n)
       PROVE  TypeOK'
  <2>1. DOMAIN nodes' \subseteq Nodes /\ \A m \in DOMAIN nodes' : nodes'[m] \in Entry
    BY <1>11, Entered, Zenon DEF AddNode, TypeOK
  <2>2. commands' \in 0 .. MaxCommands
    BY <1>11, RegistryAssumption DEF AddNode, Command, TypeOK
  <2>3. wasCrashed' \subseteq Nodes /\ reset' \subseteq Nodes
    BY <1>11, Zenon DEF AddNode, RegisterNode, TypeOK
  <2> QED BY <1>11, <2>1, <2>2, <2>3, Zenon DEF AddNode, TypeOK
<1>12. ASSUME NEW n \in Nodes, RemoveNode(n)
       PROVE  TypeOK'
  <2>1. commands' \in 0 .. MaxCommands
    BY <1>12, RegistryAssumption DEF RemoveNode, Command, TypeOK
  <2>2. update' \in Update
    BY <1>12, UpdateMade, Zenon DEF RemoveNode, TypeOK
  <2>3. proc' \in [Nodes -> {"down", "starting", "up"}] /\ panicked' \in BOOLEAN
    BY <1>12, Zenon DEF RemoveNode, TypeOK
  <2> QED BY <1>12, <2>1, <2>2, <2>3, Zenon DEF RemoveNode, TypeOK
<1>13. CASE SecondPartition
  <2>1. update.node \in Nodes /\ update.peer \in Nodes /\ update.enabled \in BOOLEAN
    BY <1>13, UpdateFields, Zenon DEF SecondPartition, TypeOK
  <2>2. CASE update.peer \in Registered
    <3>1. NewPartition(update.peer, update.node, update.enabled) \in Fault
      BY <2>1, <2>2, FaultsRecorded, Zenon
    <3>2. commands' = commands /\ commands' <= MaxCommands
      BY <1>13, RegistryAssumption DEF SecondPartition, TypeOK
    <3> QED BY <1>7, <1>13, <2>2, <3>1, <3>2, Zenon DEF SecondPartition
  <2>3. CASE update.peer \notin Registered
    BY <1>13, <2>3, UpdateMade, Zenon DEF SecondPartition, TypeOK
  <2> QED BY <2>2, <2>3, Zenon
<1>14. CASE CallNode
  <2>1. update.node \in Nodes /\ update.fault.crashed \in BOOLEAN
    BY <1>14, UpdateFields, Zenon DEF CallNode, TypeOK, Fault
  <2>2. update' \in Update
    BY <1>14, CallDone, Zenon DEF CallNode
  <2>3. /\ ledger' \subseteq Nodes \X {"CRASH", "RECOVER"}
        /\ applied' \subseteq Nodes \X {"CRASH", "RECOVER"}
    BY <1>14, CallDone, Zenon DEF CallNode, TypeOK
  <2> QED BY <1>14, <2>1, <2>2, <2>3, Zenon DEF CallNode, TypeOK
<1>15. CASE CallFails
  BY <1>15, UpdateMade, Zenon DEF CallFails, TypeOK
<1>16. CASE DropNode
  <2>1. /\ DOMAIN nodes' \subseteq Registered
        /\ \A m \in DOMAIN nodes' : nodes'[m] = nodes[m]
    BY <1>16, Zenon DEF DropNode, Drop
  <2> QED BY <1>16, <2>1, UpdateMade, Zenon DEF DropNode, TypeOK
<1>17. CASE UNCHANGED vars
  BY <1>17, Zenon DEF vars, TypeOK
<1> QED
  BY <1>1, <1>2, <1>3, <1>4, <1>5, <1>6, <1>8, <1>9, <1>10, <1>11, <1>12,
     <1>13, <1>14, <1>15, <1>16, <1>17, Zenon DEF Next, Node, Operator, Actor

(* Every step keeps the heartbeats of a node that never crashed in time.   *)
LEMMA BeatStep == TypeOK /\ BeatInv /\ [Next]_vars => BeatInv'
<1> SUFFICES ASSUME TypeOK, BeatInv, [Next]_vars PROVE BeatInv'
  BY Zenon
<1> USE DEF Registered, process, history
<1>0. /\ Registered \subseteq Nodes
      /\ \A n \in Registered : nodes[n].seen \in Nat
      /\ \A n \in Nodes : nextBeat[n] \in 0 .. HeartbeatInterval + StartDelay
  BY RegistryAssumption DEF TypeOK, Entry
<1>1. CASE Cleanup
  BY <1>1, CleanedUp, Zenon DEF Cleanup, BeatInv
<1>2. CASE Time
  <2>1. /\ proc' = proc /\ crashed' = crashed /\ wasCrashed' = wasCrashed
        /\ panicked' = panicked
    BY <1>2, Zenon DEF Time
  <2>2. ASSUME ~panicked, NEW n \in Registered \ wasCrashed, proc[n] = "up"
        PROVE  nodes'[n].seen + nextBeat'[n] <= HeartbeatInterval + StartDelay
    <3>1. nodes[n].seen + nextBeat[n] <= HeartbeatInterval + StartDelay
      BY <2>2, Zenon DEF BeatInv
    <3>2. /\ nodes'[n].seen \in Nat /\ nodes'[n].seen <= nodes[n].seen + 1
          /\ nextBeat'[n] = nextBeat[n] - 1
      BY <1>0, <1>2, <2>2, Aged, Zenon
    <3> QED BY <1>0, <3>1, <3>2, RegistryAssumption
  <2>3. DOMAIN nodes' = Registered
    BY <1>2, Aged, Zenon
  <2> QED BY <2>1, <2>2, <2>3, Zenon DEF BeatInv
<1>3. ASSUME NEW n \in Nodes, StartProcess(n)
      PROVE  BeatInv'
  <2>1. /\ nodes' = nodes /\ wasCrashed' = wasCrashed /\ panicked' = panicked
        /\ nextBeat' = nextBeat
        /\ \A m \in Nodes : proc'[m] = "up" => proc[m] = "up"
        /\ \A m \in Nodes : crashed'[m] => crashed[m]
    BY <1>3, Zenon DEF StartProcess, TypeOK
  <2> QED BY <1>0, <2>1, Zenon DEF BeatInv
<1>4. ASSUME NEW n \in Nodes, RegisterNode(n), crashed' = crashed,
             panicked' = panicked,
             nextBeat'[n] \in 0 .. HeartbeatInterval + StartDelay,
             \A m \in Nodes \ {n} : proc'[m] = proc[m] /\ nextBeat'[m] = nextBeat[m]
      PROVE  BeatInv'
  <2>1. /\ DOMAIN nodes' = Registered \cup {n}
        /\ nodes'[n].seen = 0
        /\ \A m \in Registered \ {n} : nodes'[m] = nodes[m]
    BY <1>4, Entered DEF NewEntry
  <2>2. /\ \A m \in Nodes : crashed[m] => m \in wasCrashed'
        /\ \A m \in Nodes \ {n} : m \in wasCrashed' <=> m \in wasCrashed
    BY <1>4, Zenon DEF RegisterNode, BeatInv
  <2>3. ASSUME ~panicked, NEW m \in DOMAIN nodes' \ wasCrashed', proc'[m] = "up"
        PROVE  nodes'[m].seen + nextBeat'[m] <= HeartbeatInterval + StartDelay
    <3>1. CASE m = n
      BY <1>4, <2>1, <3>1, RegistryAssumption
    <3>2. CASE m # n
      BY <1>0, <1>4, <2>1, <2>2, <2>3, <3>2, Zenon DEF BeatInv
    <3> QED BY <3>1, <3>2, Zenon
  <2> QED BY <1>4, <2>2, <2>3, Zenon DEF BeatInv
<1>5. ASSUME NEW n \in Nodes, Establish(n)
      PROVE  BeatInv'
  <2>1. nextBeat'[n] \in 0 .. HeartbeatInterval + StartDelay
    BY <1>5, RegistryAssumption DEF Establish, TypeOK
  <2>2. \A m \in Nodes \ {n} : proc'[m] = proc[m] /\ nextBeat'[m] = nextBeat[m]
    BY <1>5, Zenon DEF Establish, TypeOK
  <2> QED BY <1>4, <1>5, <2>1, <2>2, Zenon DEF Establish
<1>6. ASSUME NEW n \in Nodes, AddNode(n)
      PROVE  BeatInv'
  BY <1>0, <1>4, <1>6, Zenon DEF AddNode
<1>7. ASSUME NEW n \in Nodes, sendHeartbeat(n)
      PROVE  BeatInv'
  <2>1. /\ proc' = proc /\ crashed' = crashed /\ wasCrashed' = wasCrashed
        /\ panicked' = panicked /\ nextBeat'[n] = HeartbeatInterval
        /\ \A m \in Nodes \ {n} : nextBeat'[m] = nextBeat[m]
    BY <1>7, Zenon DEF sendHeartbeat, TypeOK
  <2>2. CASE crashed[n] \/ panicked
    <3>1. nodes' = nodes
      BY <1>7, <2>2, Zenon DEF sendHeartbeat
    <3> QED BY <1>0, <2>1, <2>2, <3>1, Zenon DEF BeatInv
  <2>3. CASE ~(crashed[n] \/ panicked)
    <3>1. Heartbeat(n)
      BY <1>7, <2>3, Zenon DEF sendHeartbeat
    <3>2. /\ DOMAIN nodes' = Registered
          /\ n \in Registered => nodes'[n].seen = 0
          /\ \A m \in Registered \ {n} : nodes'[m] = nodes[m]
      BY <3>1, Beaten, Zenon
    <3> QED BY <1>0, <2>1, <3>2, RegistryAssumption DEF BeatInv
  <2> QED BY <2>2, <2>3, Zenon
<1>8. ASSUME NEW n \in Nodes, ExitProcess(n) \/ RemoveNode(n)
      PROVE  BeatInv'
  <2>1. /\ nodes' = nodes /\ wasCrashed' = wasCrashed /\ crashed' = crashed
        /\ nextBeat' = nextBeat /\ (~panicked' => ~panicked)
        /\ \A m \in Nodes : proc'[m] = "up" => proc[m] = "up"
    BY <1>8, Zenon DEF ExitProcess, RemoveNode, TypeOK
  <2> QED BY <1>0, <2>1, Zenon DEF BeatInv
<1>9. ASSUME NEW n \in Registered, NEW f \in Fault, RecordFault(n, f),
             UNCHANGED <<process, panicked, history>>
      PROVE  BeatInv'
  <2>1. /\ DOMAIN nodes' = Registered
        /\ \A m \in Registered : nodes'[m].seen = nodes[m].seen
    BY <1>9, Recorded, Zenon
  <2> QED BY <1>9, <2>1, Zenon DEF BeatInv
<1>10. ASSUME NEW n \in Nodes, NEW f \in Fault, SetFaultParams(n, f)
       PROVE  BeatInv'
  BY <1>9, <1>10, Zenon DEF SetFaultParams, ChangeFault
<1>11. ASSUME NEW n \in Nodes, NEW v \in BOOLEAN, SetCrashed(n, v)
       PROVE  BeatInv'
  BY <1>9, <1>11, FaultsRecorded, Zenon DEF SetCrashed, ChangeFault
<1>12. ASSUME NEW n \in Nodes, NEW p \in Nodes, NEW on \in BOOLEAN,
              SetPartition(n, p, on)
       PROVE  BeatInv'
  BY <1>9, <1>12, FaultsRecorded, Zenon DEF SetPartition, ChangeFault
<1>13. CASE SecondPartition
  <2>1. update.node \in Nodes /\ update.enabled \in BOOLEAN
    BY <1>13, UpdateFields, Zenon DEF SecondPartition, TypeOK
  <2>2. CASE update.peer \in Registered
    BY <1>9, <1>13, <2>1, <2>2, FaultsRecorded, Zenon
       DEF SecondPartition, ChangeFault
  <2>3. CASE update.peer \notin Registered
    BY <1>13, <2>3, Zenon DEF SecondPartition, BeatInv
  <2> QED BY <2>2, <2>3, Zenon
<1>14. CASE CallNode
  <2>1. /\ nodes' = nodes /\ proc' = proc /\ nextBeat' = nextBeat
        /\ panicked' = panicked /\ wasCrashed \subseteq wasCrashed'
    BY <1>14, Zenon DEF CallNode
  <2>2. \A m \in Nodes : crashed'[m] => m \in wasCrashed'
    BY <1>14, Zenon DEF CallNode, TypeOK, BeatInv
  <2> QED BY <2>1, <2>2, Zenon DEF BeatInv
<1>15. CASE CallFails
  BY <1>15, Zenon DEF CallFails, BeatInv
<1>16. CASE DropNode
  <2>1. /\ DOMAIN nodes' \subseteq Registered
        /\ \A m \in DOMAIN nodes' : nodes'[m] = nodes[m]
    BY <1>16, Zenon DEF DropNode, Drop
  <2> QED BY <1>16, <2>1, Zenon DEF DropNode, BeatInv
<1>17. CASE UNCHANGED vars
  BY <1>17, Zenon DEF vars, BeatInv
<1> QED
  BY <1>1, <1>2, <1>3, <1>5, <1>6, <1>7, <1>8, <1>10, <1>11, <1>12, <1>13,
     <1>14, <1>15, <1>16, <1>17, Zenon DEF Next, Node, Operator, Actor

(* Every step keeps entries and engines together.                          *)
LEMMA EngineStep == TypeOK /\ EngineInv /\ [Next]_vars => EngineInv'
<1> SUFFICES ASSUME TypeOK, EngineInv, [Next]_vars PROVE EngineInv'
  BY Zenon
<1> USE DEF Registered, process, history
<1>0. Registered \subseteq Nodes /\ \A n \in Nodes : crashed[n] \in BOOLEAN
  BY Zenon DEF TypeOK
<1>1. ASSUME DOMAIN nodes' \subseteq Registered,
             \A m \in DOMAIN nodes' : nodes'[m].fault = nodes[m].fault,
             UNCHANGED <<proc, crashed, update, reset>>
      PROVE  EngineInv'
  BY <1>1, Zenon DEF EngineInv, Updating
<1>2. CASE Cleanup
  BY <1>1, <1>2, CleanedUp, Zenon DEF Cleanup
<1>3. CASE Time
  BY <1>1, <1>3, Aged, Zenon DEF Time
<1>4. ASSUME NEW n \in Nodes, sendHeartbeat(n)
      PROVE  EngineInv'
  BY <1>1, <1>4, Beaten, Zenon DEF sendHeartbeat
<1>5. ASSUME NEW n \in Nodes, StartProcess(n)
      PROVE  EngineInv'
  <2>1. /\ nodes' = nodes /\ reset' = reset /\ update' = update
        /\ proc'[n] = "starting"
        /\ \A m \in Nodes \ {n} : proc'[m] = proc[m] /\ crashed'[m] = crashed[m]
    BY <1>5, Zenon DEF StartProcess, TypeOK
  <2> QED BY <1>0, <2>1, Zenon DEF EngineInv, Updating
<1>6. ASSUME NEW n \in Nodes, RegisterNode(n),
             UNCHANGED <<crashed, update>>,
             \A m \in Nodes \ {n} : proc'[m] = proc[m]
      PROVE  EngineInv'
  <2>1. /\ DOMAIN nodes' = Registered \cup {n}
        /\ nodes'[n].fault.crashed = FALSE
        /\ \A m \in Registered \ {n} : nodes'[m] = nodes[m]
    BY <1>6, Entered DEF NewEntry, DefaultFaultState
  <2>2. /\ \A m \in Nodes \ {n} : m \in reset' <=> m \in reset
        /\ n \notin reset' => ~crashed[n] /\ ~Updating(n)
    BY <1>6, Zenon DEF RegisterNode
  <2> QED BY <1>0, <1>6, <2>1, <2>2, Zenon DEF EngineInv, Updating
<1>7. ASSUME NEW n \in Nodes, Establish(n)
      PROVE  EngineInv'
  <2>1. \A m \in Nodes \ {n} : proc'[m] = proc[m]
    BY <1>7, Zenon DEF Establish, TypeOK
  <2> QED BY <1>6, <1>7, <2>1, Zenon DEF Establish
<1>8. ASSUME NEW n \in Nodes, AddNode(n)
      PROVE  EngineInv'
  BY <1>6, <1>8, Zenon DEF AddNode
<1>9. ASSUME NEW n \in Nodes, ExitProcess(n)
      PROVE  EngineInv'
  <2>1. /\ nodes' = nodes /\ reset' = reset /\ update' = update
        /\ crashed' = crashed
        /\ \A m \in Nodes : proc'[m] = "up" => proc[m] = "up"
    BY <1>9, Zenon DEF ExitProcess, TypeOK
  <2> QED BY <1>0, <2>1, Zenon DEF EngineInv, Updating
<1>10. ASSUME NEW n \in Nodes, RemoveNode(n)
       PROVE  EngineInv'
  <2>1. /\ nodes' = nodes /\ reset' = reset /\ crashed' = crashed
        /\ update.phase # "call" /\ update'.phase # "call"
        /\ \A m \in Nodes : proc'[m] = "up" => proc[m] = "up"
    BY <1>10 DEF RemoveNode, Command, NoUpdate, TypeOK
  <2> QED BY <1>0, <2>1, Zenon DEF EngineInv, Updating
<1>11. ASSUME NEW n \in Registered, NEW f \in Fault, NEW p, NEW e,
              ChangeFault(n, f, p, e), update.phase # "call",
              UNCHANGED <<process, history>>
       PROVE  EngineInv'
  <2>1. /\ DOMAIN nodes' = Registered
        /\ nodes'[n].fault = f
        /\ \A m \in Registered \ {n} : nodes'[m] = nodes[m]
    BY <1>11, Recorded, Zenon DEF ChangeFault
  <2>2. update'.phase = "call" /\ update'.node = n /\ update'.fault = f
    BY <1>11, Zenon DEF ChangeFault
  <2> QED BY <1>11, <2>1, <2>2, Zenon DEF EngineInv, Updating
<1>12. ASSUME NEW n \in Nodes, NEW f \in Fault, SetFaultParams(n, f)
       PROVE  EngineInv'
  <2>1. update.phase # "call"
    BY <1>12, Zenon DEF SetFaultParams, Command, NoUpdate
  <2> QED BY <1>11, <1>12, <2>1, Zenon DEF SetFaultParams
<1>13. ASSUME NEW n \in Nodes, NEW v \in BOOLEAN, SetCrashed(n, v)
       PROVE  EngineInv'
  <2>1. update.phase # "call"
    BY <1>13, Zenon DEF SetCrashed, Command, NoUpdate
  <2>2. n \in Registered /\ [nodes[n].fault EXCEPT !.crashed = v] \in Fault
    BY <1>13, FaultsRecorded, Zenon DEF SetCrashed
  <2> QED BY <1>11, <1>13, <2>1, <2>2, Zenon DEF SetCrashed
<1>14. ASSUME NEW n \in Nodes, NEW p \in Nodes, NEW on \in BOOLEAN,
              SetPartition(n, p, on)
       PROVE  EngineInv'
  <2>1. update.phase # "call"
    BY <1>14, Zenon DEF SetPartition, Command, NoUpdate
  <2>2. n \in Registered /\ NewPartition(n, p, on) \in Fault
    BY <1>14, FaultsRecorded, Zenon DEF SetPartition
  <2> QED BY <1>11, <1>14, <2>1, <2>2, Zenon DEF SetPartition
<1>15. CASE SecondPartition
  <2>1. /\ update.phase = "second"
        /\ update.node \in Nodes /\ update.enabled \in BOOLEAN
    BY <1>15, UpdateFields, Zenon DEF SecondPartition, TypeOK
  <2>2. CASE update.peer \in Registered
    <3>1. NewPartition(update.peer, update.node, update.enabled) \in Fault
      BY <2>1, <2>2, FaultsRecorded, Zenon
    <3> QED BY <1>11, <1>15, <2>1, <2>2, <3>1, Zenon DEF SecondPartition
  <2>3. CASE update.peer \notin Registered
    <3>1. nodes' = nodes /\ update'.phase # "call"
      BY <1>15, <2>3 DEF SecondPartition, NoUpdate
    <3> QED BY <1>15, <2>1, <3>1, Zenon DEF SecondPartition, EngineInv, Updating
  <2> QED BY <2>2, <2>3, Zenon
<1>16. CASE CallNode
  <2>1. /\ nodes' = nodes /\ proc' = proc /\ reset' = reset
        /\ update.phase = "call" /\ update'.phase # "call"
        /\ update.node \in Nodes
    BY <1>16, CallDone, UpdateFields, Zenon DEF CallNode, TypeOK
  <2>2. /\ crashed'[update.node] = update.fault.crashed
        /\ \A m \in Nodes \ {update.node} : crashed'[m] = crashed[m]
    BY <1>16, <2>1, Zenon DEF CallNode, TypeOK
  <2> QED BY <1>0, <2>1, <2>2, Zenon DEF EngineInv, Updating
<1>17. CASE CallFails
  <2>1. /\ UNCHANGED <<nodes, proc, crashed, reset>>
        /\ update'.phase # "call" /\ proc[update.node] # "up"
    BY <1>17, Zenon DEF CallFails, NoUpdate
  <2> QED BY <2>1, Zenon DEF EngineInv, Updating
<1>18. CASE DropNode
  <2>1. /\ DOMAIN nodes' \subseteq Registered
        /\ \A m \in DOMAIN nodes' : nodes'[m] = nodes[m]
        /\ update.phase # "call" /\ update'.phase # "call"
        /\ UNCHANGED <<proc, crashed, reset>>
    BY <1>18, Zenon DEF DropNode, Drop, NoUpdate
  <2> QED BY <2>1, Zenon DEF EngineInv, Updating
<1>19. CASE UNCHANGED vars
  BY <1>1, <1>19, Zenon DEF vars
<1> QED
  BY <1>2, <1>3, <1>4, <1>5, <1>7, <1>8, <1>9, <1>10, <1>12, <1>13, <1>14,
     <1>15, <1>16, <1>17, <1>18, <1>19, Zenon DEF Next, Node, Operator, Actor

-----------------------------------------------------------------------------
(* The registry starts empty and the processes down.                       *)
LEMMA RegistryInitially == Init => TypeOK /\ BeatInv /\ EngineInv
<1> SUFFICES ASSUME Init PROVE TypeOK /\ BeatInv /\ EngineInv
  BY Zenon
<1>1. Registered = {} /\ \A n \in Nodes : crashed[n] = FALSE
  BY Zenon DEF Init, Registered
<1>2. TypeOK
  <2>1. /\ nextBeat \in [Nodes -> 0 .. HeartbeatInterval + StartDelay]
        /\ nextClean \in 0 .. CleanupTimeout
        /\ commands \in 0 .. MaxCommands /\ starts \in 0 .. MaxStarts
    BY RegistryAssumption DEF Init
  <2>2. update \in Update /\ panicked \in BOOLEAN
    BY UpdateMade, Zenon DEF Init
  <2>3. /\ proc \in [Nodes -> {"down", "starting", "up"}]
        /\ crashed \in [Nodes -> BOOLEAN]
    BY Zenon DEF Init
  <2>4. /\ ledger = {} /\ wasCrashed = {} /\ reset = {} /\ applied = {}
    BY Zenon DEF Init
  <2> QED BY <1>1, <2>1, <2>2, <2>3, <2>4, Zenon DEF TypeOK
<1> QED BY <1>1, <1>2, Zenon DEF BeatInv, EngineInv

(* The registry, the processes and the actor stay well typed: the timers   *)
(* stay within their periods and an update names nodes of the cluster.     *)
THEOREM RegistryIsTyped == Spec => []TypeOK
<1> QED BY RegistryInitially, TypeStep, PTL DEF Spec

(* The recorded crash flag of a node that is up is its engine's whenever   *)
(* the actor is idle (manager.go:62-98), with any number of nodes,         *)
(* commands and restarts: the entry shows what an update under way is      *)
(* about to tell the node, so neither a finished nor a failed call parts   *)
(* the two.                                                                *)
THEOREM RecordsMatchEngines == Spec => []RecordMatchesEngine
<1>1. EngineInv => RecordMatchesEngine
  BY DEF EngineInv, RecordMatchesEngine, Updating, NoUpdate
<1> QED BY <1>1, RegistryInitially, TypeStep, EngineStep, PTL DEF Spec

(* No cleanup drops a running node that never crashed since it registered  *)
(* (heartbeat_manager.go:29-53), for any timers with HeartbeatInterval +   *)
(* StartDelay <= CleanupTimeout: such an entry is never too old.           *)
THEOREM HealthyNodesAreKept == Spec => HealthyNodesStay
<1> DEFINE A == Cleanup => \A n \in Registered :
                  proc[n] = "up" /\ n \notin wasCrashed => n \in DOMAIN nodes'
<1>1. TypeOK /\ BeatInv /\ [Next]_vars => [A]_vars
  <2> SUFFICES ASSUME TypeOK, BeatInv, Cleanup, NEW n \in Registered,
                      proc[n] = "up", n \notin wasCrashed
               PROVE  n \in DOMAIN nodes'
    BY Zenon
  <2>1. nodes[n].seen + nextBeat[n] <= HeartbeatInterval + StartDelay
    BY Zenon DEF BeatInv, Cleanup
  <2>2. /\ nodes[n].seen \in Nat
        /\ nextBeat[n] \in 0 .. HeartbeatInterval + StartDelay
    BY RegistryAssumption DEF TypeOK, Entry
  <2>3. ~(nodes[n].seen > CleanupTimeout)
    BY <2>1, <2>2, RegistryAssumption
  <2> QED BY <2>3, CleanedUp, Zenon DEF Cleanup
<1> QED
  BY <1>1, RegistryInitially, TypeStep, BeatStep, PTL DEF Spec, HealthyNodesStay

-----------------------------------------------------------------------------
(* The convergence check.                                                  *)

Views == [Replicas -> [Keys -> Nat]]

Asking ==
  [phase : {"asking"}, all : SUBSET TrackedKey, keys : SUBSET TrackedKey,
   key : TrackedKey, nodes : SUBSET Replicas, first : Nat, since : Nat, shown : Views]

Result ==
  [answer : {"none", "converged", "diverged", "error"}, keys : SUBSET TrackedKey,
   since : Nat, settled : BOOLEAN]

CheckType ==
  /\ view \in Views /\ log \in Seq(Keys)
  /\ tracked \subseteq TrackedKey
  /\ check \in Asking \cup {Idle}
  /\ result \in Result

(* w is not older than any write of k.                                     *)
Latest(w, k) == \A i \in 1 .. Len(log) : log[i] = k => i <= w

Newest(n, k) == Latest(view[n][k], k)

(* A replica shows writes of the key it is asked for, and of each key some *)
(* replica, its last writer if no other, shows the last write.             *)
StoreInv ==
  /\ \A n \in Replicas, k \in Keys :
       view[n][k] <= Len(log) /\ (view[n][k] # 0 => log[view[n][k]] = k)
  /\ \A k \in Keys : \E n \in Replicas : Newest(n, k)

(* Some replica has the key.                                               *)
Exists(k) == \E n \in Replicas : view[n][k] > 0

TrackedInv == \A k \in tracked \cap Keys : Exists(k)

(* What is known of the key in question: the first answer lies between     *)
(* what some replica showed at the beginning and what it shows now, no     *)
(* replica that was asked has fallen behind it, and if no client wrote     *)
(* meanwhile, it is the last write once a replica that shows the last      *)
(* write was among them.                                                   *)
KeyInv(c) ==
  c.key \in Keys =>
    /\ c.nodes # Replicas => \E m \in Replicas : /\ c.shown[m][c.key] <= c.first
                                                 /\ c.first <= view[m][c.key]
    /\ \A m \in Replicas \ c.nodes : c.first <= view[m][c.key]
    /\ c.since = Len(log) =>
         \E m \in Replicas : /\ Newest(m, c.key)
                             /\ m \notin c.nodes => Latest(c.first, c.key)

(* What is known of a check under way; the keys that are done are settled. *)
CheckInv(c) ==
  /\ c.since <= Len(log)
  /\ c.key \in c.all /\ c.keys \subseteq c.all
  /\ c.nodes # Replicas => c.key \in Keys
  /\ \A k \in c.all \cap Keys : Exists(k)
  /\ \A n \in Replicas, k \in Keys : c.shown[n][k] <= view[n][k]
  /\ KeyInv(c)
  /\ c.since = Len(log) =>
       \A k \in (c.all \cap Keys) \ (c.keys \cup {c.key}) : \A m \in Replicas : Newest(m, k)

ResultInv(r) ==
  /\ r.since <= Len(log)
  /\ r.answer = "converged" /\ r.since = Len(log) =>
       \A k \in r.keys \cap Keys : \A m \in Replicas : Newest(m, k)
  /\ r.answer = "diverged" /\ ClusterKey \notin r.keys => ~r.settled

Inv ==
  /\ StoreInv /\ TrackedInv
  /\ check # Idle => CheckInv(check)
  /\ ResultInv(result)

-----------------------------------------------------------------------------
(* Writes and catching up.                                                 *)

(* The log only grows, and replicas only show later writes.                *)
Grows ==
  /\ \A n \in Replicas, k \in Keys : view[n][k] <= view'[n][k]
  /\ Len(log) <= Len(log')
  /\ Len(log) = Len(log') => log = log'

(* Replacing what one replica shows.                                       *)
LEMMA ViewsType ==
  ASSUME NEW v \in Views, NEW n \in Replicas, NEW new \in [Keys -> Nat]
  PROVE  [v EXCEPT ![n] = new] \in Views
BY Zenon DEF Views

(* A write gives its key a replica that shows the last write, and no       *)
(* replica goes back.                                                      *)
LEMMA WriteStore ==
  ASSUME view \in Views, log \in Seq(Keys), StoreInv, NEW n \in Replicas, NEW k \in Keys,
         Store!Write(n, k)
  PROVE  view' \in Views /\ log' \in Seq(Keys) /\ Grows /\ StoreInv' /\ Exists(k)'
<1>1. /\ log' \in Seq(Keys) /\ Len(log) \in Nat /\ Len(log') = Len(log) + 1
      /\ log'[Len(log) + 1] = k
      /\ \A i \in 1 .. Len(log) : log'[i] = log[i]
  BY DEF Store!Write
<1>2. /\ view' \in Views /\ view'[n][k] = Len(log) + 1
      /\ \A m \in Replicas, q \in Keys : m # n \/ q # k => view'[m][q] = view[m][q]
  <2> DEFINE new == [view[n] EXCEPT ![k] = Len(log) + 1]
  <2>1. view[n] \in [Keys -> Nat] /\ DOMAIN view = Replicas
    BY Zenon DEF Views
  <2>2. new \in [Keys -> Nat] /\ new[k] = Len(log) + 1
        /\ \A q \in Keys : q # k => new[q] = view[n][q]
    BY <1>1, <2>1
  <2>3. view' = [view EXCEPT ![n] = new]
    BY Zenon DEF Store!Write
  <2> HIDE DEF new
  <2>4. view'[n] = new /\ \A m \in Replicas : m # n => view'[m] = view[m]
    BY <2>1, <2>3, Zenon
  <2>5. view' \in Views
    BY <2>2, <2>3, ViewsType, Zenon
  <2> QED BY <2>2, <2>4, <2>5, Zenon
<1>3. \A m \in Replicas, q \in Keys : view[m][q] \in Nat /\ view'[m][q] \in Nat
  BY <1>2, Zenon DEF Views
<1>4. Grows
  BY <1>1, <1>2, <1>3 DEF Grows, StoreInv
<1>5. Exists(k)'
  BY <1>1, <1>2 DEF Exists
<1>6. \A m \in Replicas, q \in Keys :
        view'[m][q] <= Len(log') /\ (view'[m][q] # 0 => log'[view'[m][q]] = q)
  <2> TAKE m \in Replicas, q \in Keys
  <2>1. CASE m = n /\ q = k
    BY <1>1, <1>2, <2>1
  <2>2. CASE ~(m = n /\ q = k)
    <3>1. /\ view'[m][q] = view[m][q] /\ view[m][q] \in Nat
          /\ view[m][q] <= Len(log) /\ (view[m][q] # 0 => log[view[m][q]] = q)
      BY <1>2, <1>3, <2>2, Zenon DEF StoreInv
    <3> QED BY <1>1, <3>1
  <2> QED BY <2>1, <2>2, Zenon
<1>7. ASSUME NEW q \in Keys PROVE \E m \in Replicas : Newest(m, q)'
  <2>1. CASE q = k
    <3>1. Newest(n, q)'
      BY <1>1, <1>2, <2>1 DEF Newest, Latest
    <3> QED BY <3>1, Zenon
  <2>2. CASE q # k
    <3>1. PICK m \in Replicas : Newest(m, q)
      BY Zenon DEF StoreInv
    <3>2. Newest(m, q)'
      BY <1>1, <1>2, <2>2, <3>1 DEF Newest, Latest
    <3> QED BY <3>2, Zenon
  <2> QED BY <2>1, <2>2, Zenon
<1> QED BY <1>1, <1>2, <1>4, <1>5, <1>6, <1>7, Zenon DEF StoreInv

(* The last write of a key stays the last while nobody writes.             *)
LEMMA NewestStays ==
  ASSUME view \in Views, view' \in Views, log \in Seq(Keys), Grows, Len(log') = Len(log),
         NEW n \in Replicas, NEW k \in Keys, Newest(n, k)
  PROVE  Newest(n, k)'
<1>1. view[n][k] \in Nat /\ view'[n][k] \in Nat /\ view[n][k] <= view'[n][k] /\ log' = log
  BY Zenon DEF Views, Grows
<1> QED BY <1>1 DEF Newest, Latest

(* A replica that catches up does not go back either.                      *)
LEMMA CatchUpStore ==
  ASSUME view \in Views, log \in Seq(Keys), StoreInv, NEW n \in Replicas, Store!CatchUp(n)
  PROVE  view' \in Views /\ log' \in Seq(Keys) /\ Grows /\ StoreInv'
<1>1. PICK new \in [Keys -> 0 .. Len(log)] :
        /\ \A k \in Keys : new[k] # view[n][k] => new[k] > view[n][k] /\ log[new[k]] = k
        /\ view' = [view EXCEPT ![n] = new]
  BY Zenon DEF Store!CatchUp
<1>2. log' = log /\ Len(log) \in Nat
  BY DEF Store!CatchUp
<1>3. \A k \in Keys : new[k] \in Nat /\ new[k] <= Len(log)
  BY <1>2
<1>4. /\ view' \in Views /\ \A k \in Keys : view'[n][k] = new[k]
      /\ \A m \in Replicas, k \in Keys : m # n => view'[m][k] = view[m][k]
  <2>1. new \in [Keys -> Nat] /\ DOMAIN view = Replicas
    BY <1>3, Zenon DEF Views
  <2>2. view'[n] = new /\ \A m \in Replicas : m # n => view'[m] = view[m]
    BY <1>1, <2>1, Zenon
  <2>3. view' \in Views
    BY <1>1, <2>1, ViewsType, Zenon
  <2> QED BY <2>2, <2>3, Zenon
<1>5. \A m \in Replicas, k \in Keys : view[m][k] \in Nat /\ view'[m][k] \in Nat
  BY <1>4, Zenon DEF Views
<1>6. Grows
  BY <1>1, <1>2, <1>3, <1>4, <1>5 DEF Grows
<1>7. \A m \in Replicas, k \in Keys :
        view'[m][k] <= Len(log) /\ (view'[m][k] # 0 => log[view'[m][k]] = k)
  BY <1>1, <1>3, <1>4, <1>5 DEF StoreInv
<1>8. \A m \in Replicas, k \in Keys : Newest(m, k) => Newest(m, k)'
  BY <1>2, <1>4, <1>6, NewestStays, Zenon
<1>9. StoreInv'
  BY <1>2, <1>7, <1>8, Zenon DEF StoreInv
<1> QED BY <1>2, <1>4, <1>6, <1>9, Zenon

(* What is known of a check under way and of an answer stays true while    *)
(* the cluster moves on.                                                   *)
LEMMA CheckStays ==
  ASSUME view \in Views, view' \in Views, log \in Seq(Keys), log' \in Seq(Keys), Grows,
         NEW c \in Asking, CheckInv(c)
  PROVE  CheckInv(c)'
<1>1. \A n \in Replicas, k \in Keys :
        view[n][k] \in Nat /\ view'[n][k] \in Nat /\ view[n][k] <= view'[n][k]
  BY Zenon DEF Views, Grows
<1>2. /\ Len(log) \in Nat /\ Len(log') \in Nat /\ Len(log) <= Len(log')
      /\ c.since \in Nat /\ c.first \in Nat /\ c.since <= Len(log)
  BY DEF Grows, Asking, CheckInv
<1>3. c.since <= Len(log') /\ (c.since = Len(log') => Len(log') = Len(log))
  BY <1>2
<1>4. \A k \in Keys : Exists(k) => Exists(k)'
  BY <1>1 DEF Exists
<1>5. \A n \in Replicas, k \in Keys : c.shown[n][k] \in Nat
  BY DEF Asking, Views
<1>6. \A n \in Replicas, k \in Keys : c.shown[n][k] <= view'[n][k]
  BY <1>1, <1>5 DEF CheckInv
<1>7. KeyInv(c)'
  <2> SUFFICES ASSUME c.key \in Keys
               PROVE  /\ c.nodes # Replicas => \E m \in Replicas : /\ c.shown[m][c.key] <= c.first
                                                                   /\ c.first <= view'[m][c.key]
                      /\ \A m \in Replicas \ c.nodes : c.first <= view'[m][c.key]
                      /\ c.since = Len(log') =>
                           \E m \in Replicas : /\ Newest(m, c.key)'
                                               /\ m \notin c.nodes => Latest(c.first, c.key)'
    BY Zenon DEF KeyInv
  <2>1. c.nodes # Replicas => \E m \in Replicas : /\ c.shown[m][c.key] <= c.first
                                                  /\ c.first <= view'[m][c.key]
    BY <1>1, <1>2 DEF CheckInv, KeyInv
  <2>2. \A m \in Replicas \ c.nodes : c.first <= view'[m][c.key]
    BY <1>1, <1>2 DEF CheckInv, KeyInv
  <2>3. ASSUME c.since = Len(log')
        PROVE  \E m \in Replicas : /\ Newest(m, c.key)'
                                   /\ m \notin c.nodes => Latest(c.first, c.key)'
    <3>1. PICK m \in Replicas : /\ Newest(m, c.key)
                                /\ m \notin c.nodes => Latest(c.first, c.key)
      BY <1>3, <2>3, Zenon DEF CheckInv, KeyInv
    <3>2. Newest(m, c.key)'
      BY <1>3, <2>3, <3>1, NewestStays, Zenon
    <3>3. Latest(c.first, c.key) => Latest(c.first, c.key)'
      BY <1>3, <2>3, Zenon DEF Latest, Grows
    <3> QED BY <3>1, <3>2, <3>3, Zenon
  <2> QED BY <2>1, <2>2, <2>3, Zenon
<1>8. ASSUME c.since = Len(log'), NEW m \in Replicas,
             NEW k \in (c.all \cap Keys) \ (c.keys \cup {c.key})
      PROVE  Newest(m, k)'
  BY <1>3, <1>8, NewestStays, Zenon DEF CheckInv
<1> QED BY <1>3, <1>4, <1>6, <1>7, <1>8, Zenon DEF CheckInv

(* What an answer says of the store stays true while replicas only move    *)
(* forward.                                                                *)
LEMMA ResultStays ==
  ASSUME view \in Views, view' \in Views, log \in Seq(Keys), log' \in Seq(Keys), Grows,
         NEW r \in Result, ResultInv(r)
  PROVE  ResultInv(r)'
<1>1. /\ Len(log) \in Nat /\ Len(log') \in Nat /\ Len(log) <= Len(log')
      /\ r.since \in Nat /\ r.since <= Len(log)
  BY DEF Grows, Result, ResultInv
<1>2. r.since <= Len(log') /\ (r.since = Len(log') => Len(log') = Len(log))
  BY <1>1
<1>3. ASSUME r.answer = "converged", r.since = Len(log'), NEW m \in Replicas,
             NEW k \in r.keys \cap Keys
      PROVE  Newest(m, k)'
  BY <1>2, <1>3, NewestStays, Zenon DEF ResultInv
<1> QED BY <1>2, <1>3, Zenon DEF ResultInv

-----------------------------------------------------------------------------
(* The check.                                                              *)

(* A check begins with all it is to know still to be asked.                *)
LEMMA CheckBegins ==
  ASSUME CheckType, StoreInv, TrackedInv, NEW k \in tracked
  PROVE  LET c == [phase |-> "asking", all |-> tracked, keys |-> tracked \ {k},
                   key |-> k, nodes |-> Replicas, first |-> 0, since |-> Len(log),
                   shown |-> view]
         IN  c \in Asking /\ CheckInv(c)
<1> DEFINE c == [phase |-> "asking", all |-> tracked, keys |-> tracked \ {k},
                 key |-> k, nodes |-> Replicas, first |-> 0, since |-> Len(log),
                 shown |-> view]
<1>1. Len(log) \in Nat /\ \A n \in Replicas, q \in Keys : view[n][q] \in Nat
  BY DEF CheckType, Views
<1>2. c \in Asking
  BY <1>1, Zenon DEF CheckType, Asking
<1>3. /\ c.all = tracked /\ c.keys = tracked \ {k} /\ c.key = k /\ c.nodes = Replicas
      /\ c.first = 0 /\ c.since = Len(log) /\ c.shown = view
  BY Zenon
<1> HIDE DEF c
<1>4. KeyInv(c)
  BY <1>3, Zenon DEF KeyInv, StoreInv
<1>5. CheckInv(c)
  BY <1>1, <1>3, <1>4 DEF CheckInv, TrackedInv
<1> QED BY <1>2, <1>5, Zenon DEF c

(* A node that does not differ: its answer is taken for the first one.     *)
Heard(n) ==
  /\ check.key \in Keys
  /\ view[n][check.key] =
       (IF check.nodes = Replicas THEN Observed(n, check.key) ELSE check.first)
  /\ \A m \in Replicas \ (check.nodes \ {n}) : view[n][check.key] <= view[m][check.key]
  /\ check.since = Len(log) =>
       \E m \in Replicas :
         /\ Newest(m, check.key)
         /\ m \notin check.nodes \ {n} => Latest(view[n][check.key], check.key)

(* A node whose answer does not differ shows at least the first answer.    *)
LEMMA NodeIsHeard ==
  ASSUME CheckType, check \in Asking, CheckInv(check), NEW n \in check.nodes, ~Differs(n)
  PROVE  n \in Replicas /\ Heard(n)
<1>1. n \in Replicas /\ check.nodes \subseteq Replicas /\ check.first \in Nat
  BY Zenon DEF Asking
<1>2. check.key \in Keys
  BY Zenon DEF Differs, Observed, CheckInv
<1>3. /\ view[n][check.key] =
           (IF check.nodes = Replicas THEN Observed(n, check.key) ELSE check.first)
      /\ check.nodes # Replicas => view[n][check.key] = check.first
  BY <1>2, Zenon DEF Differs, Observed
<1>4. \A m \in Replicas : view[m][check.key] \in Nat
  BY <1>2, Zenon DEF CheckType, Views
<1>5. \A m \in Replicas \ (check.nodes \ {n}) : view[n][check.key] <= view[m][check.key]
  <2> TAKE m \in Replicas \ (check.nodes \ {n})
  <2>1. CASE m = n
    BY <1>1, <1>4, <2>1
  <2>2. CASE m \notin check.nodes
    BY <1>2, <1>3, <2>2, Zenon DEF CheckInv, KeyInv
  <2> QED BY <2>1, <2>2, Zenon
<1>6. ASSUME check.since = Len(log)
      PROVE  \E m \in Replicas :
               /\ Newest(m, check.key)
               /\ m \notin check.nodes \ {n} => Latest(view[n][check.key], check.key)
  <2>1. PICK m \in Replicas : /\ Newest(m, check.key)
                              /\ m \notin check.nodes => Latest(check.first, check.key)
    BY <1>2, <1>6, Zenon DEF CheckInv, KeyInv
  <2>2. m = n => Latest(view[n][check.key], check.key)
    BY <2>1, Zenon DEF Newest
  <2>3. m \notin check.nodes => Latest(view[n][check.key], check.key)
    BY <1>3, <2>1, Zenon
  <2> QED BY <2>1, <2>2, <2>3, Zenon
<1> QED BY <1>1, <1>2, <1>3, <1>5, <1>6, Zenon DEF Heard

(* Once the last node is heard, all of them show the last write of the     *)
(* key, unless a client wrote since the check began.                       *)
LEMMA KeyIsDone ==
  ASSUME CheckType, check \in Asking, CheckInv(check), NEW n \in Replicas, Heard(n),
         check.nodes \ {n} = {}, check.since = Len(log)
  PROVE  \A m \in Replicas, k \in (check.all \cap Keys) \ check.keys : Newest(m, k)
<1>1. \A m \in Replicas : view[m][check.key] \in Nat
  BY Zenon DEF Heard, CheckType, Views
<1>2. Latest(view[n][check.key], check.key)
  BY Zenon DEF Heard
<1>3. \A m \in Replicas : view[n][check.key] <= view[m][check.key]
  BY Zenon DEF Heard
<1>4. ASSUME NEW m \in Replicas PROVE Newest(m, check.key)
  BY <1>1, <1>2, <1>3 DEF Newest, Latest, CheckType
<1> QED BY <1>4, Zenon DEF CheckInv

(* The rest of the nodes are still to be asked for the key.                *)
LEMMA NextNode ==
  ASSUME CheckType, check \in Asking, CheckInv(check), NEW n \in Replicas, n \in check.nodes,
         Heard(n)
  PROVE  LET c == [check EXCEPT !.nodes = check.nodes \ {n}, !.first = view[n][check.key]]
         IN  c \in Asking /\ CheckInv(c)
<1> DEFINE c == [check EXCEPT !.nodes = check.nodes \ {n}, !.first = view[n][check.key]]
<1>1. check.key \in Keys /\ view[n][check.key] \in Nat
  BY Zenon DEF Heard, CheckType, Views
<1>2. /\ c \in Asking
      /\ c.all = check.all /\ c.keys = check.keys /\ c.key = check.key
      /\ c.nodes = check.nodes \ {n} /\ c.first = view[n][check.key]
      /\ c.since = check.since /\ c.shown = check.shown
  BY <1>1, Zenon DEF Asking
<1> HIDE DEF c
<1>3. KeyInv(c)
  <2>1. \E m \in Replicas : c.shown[m][c.key] <= c.first /\ c.first <= view[m][c.key]
    BY <1>1, <1>2 DEF CheckInv
  <2> QED BY <1>2, <2>1, Zenon DEF KeyInv, Heard
<1>4. CheckInv(c)
  BY <1>1, <1>2, <1>3, Zenon DEF CheckInv
<1> QED BY <1>2, <1>4, Zenon DEF c

(* All nodes are to be asked for the next key.                             *)
LEMMA NextKey ==
  ASSUME CheckType, StoreInv, check \in Asking, CheckInv(check), NEW n \in Replicas, Heard(n),
         check.nodes \ {n} = {}, NEW k \in check.keys
  PROVE  LET c == [check EXCEPT !.keys = @ \ {k}, !.key = k, !.nodes = Replicas, !.first = 0]
         IN  c \in Asking /\ CheckInv(c)
<1> DEFINE c == [check EXCEPT !.keys = @ \ {k}, !.key = k, !.nodes = Replicas, !.first = 0]
<1>1. /\ c \in Asking
      /\ c.all = check.all /\ c.keys = check.keys \ {k} /\ c.key = k
      /\ c.nodes = Replicas /\ c.first = 0
      /\ c.since = check.since /\ c.shown = check.shown
  BY Zenon DEF Asking
<1> HIDE DEF c
<1>2. KeyInv(c)
  BY <1>1, Zenon DEF KeyInv, StoreInv
<1>3. c.since = Len(log) =>
        \A q \in (c.all \cap Keys) \ (c.keys \cup {c.key}) : \A m \in Replicas : Newest(m, q)
  BY <1>1, KeyIsDone, Zenon
<1>4. CheckInv(c)
  BY <1>1, <1>2, <1>3, Zenon DEF CheckInv
<1> QED BY <1>1, <1>4, Zenon DEF c

(* What an answer says: the key is settled, or it differs, or nothing.     *)
LEMMA AnswerMeans ==
  ASSUME CheckType, check \in Asking, CheckInv(check), UNCHANGED <<view, log>>,
         NEW a \in {"converged", "diverged", "error"}, Answer(a),
         a = "converged" => \E n \in Replicas : /\ Heard(n) /\ check.nodes \ {n} = {}
                                                /\ check.keys = {},
         a = "diverged" => \E n \in check.nodes : Differs(n)
  PROVE  result' \in Result /\ ResultInv(result)'
<1> DEFINE settled == /\ view = check.shown
                      /\ \A k \in check.all : Settled(k)
           r == [answer |-> a, keys |-> check.all, since |-> check.since,
                 settled |-> settled]
<1>1. result' = r /\ r \in Result
  BY Zenon DEF Answer, Result, Asking
<1>2. r.answer = a /\ r.keys = check.all /\ r.since = check.since /\ r.settled = settled
  BY Zenon
<1>3. r.since <= Len(log)
  BY <1>2, Zenon DEF CheckInv
<1>4. ASSUME a = "converged", check.since = Len(log), NEW k \in check.all \cap Keys,
             NEW m \in Replicas
      PROVE  Newest(m, k)
  BY <1>4, KeyIsDone, Zenon
<1>5. ASSUME a = "diverged", ClusterKey \notin check.all, settled PROVE FALSE
  <2>1. PICK n \in check.nodes : Differs(n)
    BY <1>5, Zenon
  <2>2. n \in Replicas /\ check.key \in Keys /\ check.first \in Nat
    BY <1>5, Zenon DEF Asking, CheckInv, TrackedKey
  <2>3. \A m \in Replicas : /\ view[m][check.key] = view[n][check.key]
                            /\ view[m][check.key] \in Nat
    BY <1>5, <2>2 DEF Settled, CheckInv, CheckType, Views
  <2>4. view[n][check.key] > 0
    BY <2>2, <2>3, Zenon DEF CheckInv, Exists
  <2>5. check.nodes # Replicas
    BY <2>1, <2>2, <2>4 DEF Differs, Observed
  <2>6. PICK m \in Replicas : /\ check.shown[m][check.key] <= check.first
                              /\ check.first <= view[m][check.key]
    BY <2>2, <2>5, Zenon DEF CheckInv, KeyInv
  <2>7. check.first = view[m][check.key]
    BY <1>5, <2>2, <2>3, <2>6
  <2> QED BY <2>1, <2>2, <2>3, <2>5, <2>7, Zenon DEF Differs, Observed
<1> HIDE DEF r, settled
<1>6. ResultInv(r)
  BY <1>2, <1>3, <1>4, <1>5, Zenon DEF ResultInv
<1>7. PICK q \in Result : result' = q /\ ResultInv(q)
  BY <1>1, <1>6, Zenon
<1>8. \A m \in Replicas, k \in Keys : Newest(m, k)' <=> Newest(m, k)
  BY Zenon DEF Newest, Latest
<1> QED BY <1>7, <1>8, Zenon DEF ResultInv

-----------------------------------------------------------------------------

(* The invariant holds before the first check.                             *)
LEMMA CheckInitially == CheckInit => CheckType /\ Inv
<1> SUFFICES ASSUME CheckInit PROVE CheckType /\ Inv
  BY Zenon
<1>1. /\ view = [n \in Replicas |-> [k \in Keys |-> 0]] /\ log = <<>> /\ tracked = {}
      /\ check = Idle /\ result.answer = "none" /\ result.since = 0 /\ result \in Result
  BY Zenon DEF CheckInit, Store!Init, Result
<1>2. CheckType
  BY <1>1 DEF CheckType, Views
<1>3. StoreInv
  BY <1>1, CheckAssumption DEF StoreInv, Newest, Latest
<1> QED BY <1>1, <1>2, <1>3 DEF Inv, TrackedInv, ResultInv

(* A step of the cluster, or of another command.                           *)
LEMMA OthersStep ==
  ASSUME CheckType, Inv, view' \in Views, log' \in Seq(Keys), Grows, StoreInv',
         check' = check, result' = result, tracked' \subseteq TrackedKey,
         \A k \in (tracked' \ tracked) \cap Keys : Exists(k)'
  PROVE  CheckType' /\ Inv'
<1>1. CheckType'
  BY Zenon DEF CheckType
<1>2. \A k \in Keys : Exists(k) => Exists(k)'
  BY DEF Exists, Grows, Views, CheckType
<1>3. TrackedInv'
  BY <1>2, Zenon DEF Inv, TrackedInv
<1>4. PICK c \in Asking \cup {Idle} : c = check
  BY Zenon DEF CheckType
<1>5. c # Idle => CheckInv(c)'
  BY <1>4, CheckStays, Zenon DEF CheckType, Inv
<1>6. check' # Idle => CheckInv(check)'
  BY <1>4, <1>5, Zenon DEF CheckInv, KeyInv
<1>7. PICK r \in Result : r = result
  BY Zenon DEF CheckType
<1>8. ResultInv(r)'
  BY <1>7, ResultStays, Zenon DEF CheckType, Inv
<1>9. ResultInv(result)'
  BY <1>7, <1>8, Zenon DEF ResultInv
<1> QED BY <1>1, <1>3, <1>6, <1>9, Zenon DEF Inv

(* A step of the check, which leaves the cluster alone.                    *)
LEMMA AskingStep ==
  ASSUME CheckType, Inv, UNCHANGED <<view, log, tracked>>,
         \/ check' = Idle
         \/ \E c \in Asking : c = check' /\ CheckInv(c),
         \/ result' = result
         \/ result' \in Result /\ ResultInv(result)'
  PROVE  CheckType' /\ Inv'
<1>1. CheckType'
  BY Zenon DEF CheckType
<1>2. \A m \in Replicas, k \in Keys : Newest(m, k)' <=> Newest(m, k)
  BY Zenon DEF Newest, Latest
<1>3. StoreInv' /\ TrackedInv'
  BY <1>2, Zenon DEF Inv, StoreInv, TrackedInv, Exists
<1>4. ASSUME check' # Idle PROVE CheckInv(check)'
  <2>1. PICK c \in Asking : c = check' /\ CheckInv(c)
    BY <1>4, Zenon
  <2>2. KeyInv(check)'
    BY <1>2, <2>1, Zenon DEF CheckInv, KeyInv, Latest
  <2> QED BY <1>2, <2>1, <2>2, Zenon DEF CheckInv, Exists
<1>5. ResultInv(result)'
  BY <1>2, Zenon DEF Inv, ResultInv
<1> QED BY <1>1, <1>3, <1>4, <1>5, Zenon DEF Inv

(* Every step of the clients, of the replicas and of the check keeps it.   *)
LEMMA CheckStep == CheckType /\ Inv /\ [CheckNext]_checkVars => (CheckType /\ Inv)'
<1> SUFFICES ASSUME CheckType, Inv, [CheckNext]_checkVars PROVE CheckType' /\ Inv'
  BY Zenon
<1>1. view \in Views /\ log \in Seq(Keys) /\ StoreInv /\ tracked \subseteq TrackedKey
  BY Zenon DEF CheckType, Inv
<1>2. ASSUME UNCHANGED <<view, log>> PROVE Grows /\ StoreInv'
  BY <1>1, <1>2 DEF Grows, Views, StoreInv, Newest, Latest
<1>3. ASSUME NEW n \in Replicas, NEW k \in Keys, KVPut(n, k) PROVE CheckType' /\ Inv'
  <2>1. view' \in Views /\ log' \in Seq(Keys) /\ Grows /\ StoreInv' /\ Exists(k)'
    BY <1>1, <1>3, WriteStore, Zenon DEF KVPut
  <2> QED BY <1>1, <1>3, <2>1, OthersStep, Zenon DEF KVPut, TrackedKey
<1>4. ASSUME NEW n \in Replicas, Gossip(n) PROVE CheckType' /\ Inv'
  BY <1>1, <1>4, CatchUpStore, OthersStep, Zenon DEF Gossip
<1>5. CASE RecordLifecycleEvent
  <2>1. ClusterKey \in TrackedKey /\ ClusterKey \notin Keys
    BY CheckAssumption, Zenon DEF TrackedKey
  <2> QED BY <1>1, <1>2, <1>5, <2>1, OthersStep, Zenon DEF RecordLifecycleEvent
<1>6. CASE UNCHANGED checkVars
  BY <1>1, <1>2, <1>6, OthersStep, Zenon DEF checkVars
<1>7. CASE IsClusterConverged
  <2>1. CASE tracked = {}
    <3>1. result' \in Result /\ ResultInv(result)'
      <4>1. Len(log) \in Nat /\ log' = log
        BY <1>1, <1>7 DEF IsClusterConverged
      <4>2. result' = [answer |-> "converged", keys |-> {}, since |-> Len(log),
                       settled |-> TRUE]
        BY <1>7, <2>1, Zenon DEF IsClusterConverged
      <4>3. /\ result'.answer = "converged" /\ result'.keys = {}
            /\ result'.since = Len(log) /\ result' \in Result
        BY <4>1, <4>2, Zenon DEF Result
      <4> QED BY <4>1, <4>3 DEF ResultInv
    <3> QED BY <1>7, <2>1, <3>1, AskingStep, Zenon DEF IsClusterConverged
  <2>2. CASE tracked # {}
    <3>1. \E c \in Asking : c = check' /\ CheckInv(c)
      BY <1>7, <2>2, CheckBegins, Zenon DEF IsClusterConverged, Inv
    <3> QED BY <1>7, <2>2, <3>1, AskingStep, Zenon DEF IsClusterConverged
  <2> QED BY <2>1, <2>2, Zenon
<1>8. ASSUME check.phase = "asking" PROVE check \in Asking /\ CheckInv(check)
  BY <1>8 DEF Idle, CheckType, Inv
<1>9. CASE AskFails
  <2>1. result' \in Result /\ ResultInv(result)' /\ check' = Idle
    BY <1>8, <1>9, AnswerMeans, Zenon DEF AskFails, Answer
  <2> QED BY <1>9, <2>1, AskingStep, Zenon DEF AskFails
<1>10. ASSUME NEW n \in Replicas, ExecuteKVGetObserved(n) PROVE CheckType' /\ Inv'
  <2>1. check \in Asking /\ CheckInv(check) /\ n \in check.nodes
        /\ UNCHANGED <<view, log, tracked>>
    BY <1>8, <1>10, Zenon DEF ExecuteKVGetObserved
  <2>2. CASE Differs(n)
    <3>1. Answer("diverged") /\ check' = Idle
      BY <1>10, <2>2, Zenon DEF ExecuteKVGetObserved, Answer
    <3>2. result' \in Result /\ ResultInv(result)'
      BY <2>1, <2>2, <3>1, AnswerMeans, Zenon
    <3> QED BY <2>1, <3>1, <3>2, AskingStep, Zenon
  <2>3. CASE ~Differs(n)
    <3>1. AskNext(n) /\ Heard(n)
      BY <1>10, <2>1, <2>3, NodeIsHeard, Zenon DEF ExecuteKVGetObserved
    <3>2. CASE check.nodes \ {n} # {}
      <4>1. /\ check' = [check EXCEPT !.nodes = check.nodes \ {n},
                                      !.first = view[n][check.key]]
            /\ result' = result
        BY <3>1, <3>2, Zenon DEF AskNext, Heard
      <4>2. \E c \in Asking : c = check' /\ CheckInv(c)
        BY <2>1, <3>1, <4>1, NextNode, Zenon
      <4> QED BY <2>1, <4>1, <4>2, AskingStep, Zenon
    <3>3. CASE check.nodes \ {n} = {} /\ check.keys # {}
      <4>1. PICK k \in check.keys :
              check' = [check EXCEPT !.keys = @ \ {k}, !.key = k, !.nodes = Replicas,
                                     !.first = 0]
        BY <3>1, <3>3, Zenon DEF AskNext
      <4>2. \E c \in Asking : c = check' /\ CheckInv(c)
        BY <1>1, <2>1, <3>1, <3>3, <4>1, NextKey, Zenon
      <4>3. result' = result
        BY <3>1, <3>3, Zenon DEF AskNext
      <4> QED BY <2>1, <4>2, <4>3, AskingStep, Zenon
    <3>4. CASE check.nodes \ {n} = {} /\ check.keys = {}
      <4>1. Answer("converged") /\ check' = Idle
        BY <3>1, <3>4, Zenon DEF AskNext, Answer
      <4>2. result' \in Result /\ ResultInv(result)'
        BY <2>1, <3>1, <3>4, <4>1, AnswerMeans, Zenon
      <4> QED BY <2>1, <4>1, <4>2, AskingStep, Zenon
    <3> QED BY <3>2, <3>3, <3>4, Zenon
  <2> QED BY <2>2, <2>3, Zenon
<1> QED BY <1>3, <1>4, <1>5, <1>6, <1>7, <1>9, <1>10, Zenon DEF CheckNext

(* A cluster that is reported as converged is, in every key that was       *)
(* checked, unless a client wrote since the check began, although every    *)
(* answer may be out of date when the next node is asked                   *)
(* (service.go:160-212).                                                   *)
THEOREM ConvergedAnswersAreTrue == CheckSpec => []ConvergedIsTrue
<1>1. CheckType /\ Inv => ConvergedIsTrue
  <2> SUFFICES ASSUME CheckType, Inv, result.answer = "converged",
                      result.since = Len(log), NEW k \in result.keys, k \in Keys,
                      NEW n \in Replicas, NEW p \in Replicas
               PROVE  view[n][k] = view[p][k]
    BY Zenon DEF ConvergedIsTrue, Settled
  <2>1. Newest(n, k) /\ Newest(p, k)
    BY Zenon DEF Inv, ResultInv
  <2>2. /\ view[n][k] \in Nat /\ view[n][k] <= Len(log)
        /\ view[p][k] \in Nat /\ view[p][k] <= Len(log)
        /\ view[n][k] # 0 => log[view[n][k]] = k
        /\ view[p][k] # 0 => log[view[p][k]] = k
        /\ Len(log) \in Nat
    BY DEF Inv, StoreInv, CheckType, Views
  <2>3. view[n][k] <= view[p][k]
    BY <2>1, <2>2 DEF Newest, Latest
  <2>4. view[p][k] <= view[n][k]
    BY <2>1, <2>2 DEF Newest, Latest
  <2> QED BY <2>2, <2>3, <2>4
<1> QED BY <1>1, CheckInitially, CheckStep, PTL DEF CheckSpec

(* A cluster that is reported as diverged is, if nothing moved meanwhile,  *)
(* unless the key of the lifecycle events was among those checked: it is   *)
(* on no node (service.go:178-207).                                        *)
THEOREM DivergedAnswersAreReal == CheckSpec => []DivergedIsReal
<1>1. Inv => DivergedIsReal
  BY Zenon DEF Inv, ResultInv, DivergedIsReal
<1> QED BY <1>1, CheckInitially, CheckStep, PTL DEF CheckSpec

=============================================================================
