-------------------------- MODULE ClusterRegistry --------------------------
(***************************************************************************)
(* The control plane's registry of one cluster and the node processes that *)
(* report to it: internal/cluster/manager, the registry half of            *)
(* internal/controlplane/service, the fault commands of                    *)
(* internal/controlplane/actor.go and the node's registration and          *)
(* heartbeats (internal/node/runtime/controlplane_client.go).              *)
(*                                                                         *)
(* Time advances in units in which HeartbeatInterval and CleanupTimeout    *)
(* are whole numbers, and never past a timer that is due.  The actor       *)
(* executes one command at a time; a fault command first changes the       *)
(* registry under its lock and then calls the node, and heartbeats,        *)
(* registrations and the cleanup goroutine run in between.                 *)
(***************************************************************************)
EXTENDS Integers

CONSTANTS
  Nodes,
  HeartbeatInterval,  \* 3 seconds in the code
  CleanupTimeout,     \* 5 seconds by default
  StartDelay,         \* at most this long from registering to the sync loop
  Operators,          \* the commands the operator uses
  MaxCommands,        \* bound on the commands
  MaxStarts           \* bound on the starts of processes

Commands == {"fault", "crash", "partition", "add", "remove"}

ASSUME RegistryAssumption ==
  /\ HeartbeatInterval \in Nat \ {0} /\ StartDelay \in Nat
  /\ CleanupTimeout \in Nat
  /\ HeartbeatInterval + StartDelay <= CleanupTimeout
  /\ Operators \subseteq Commands
  /\ MaxCommands \in Nat /\ MaxStarts \in Nat

VARIABLES
  nodes,      \* the cluster's entries: a function on the registered nodes
  proc,       \* each node's process: "down", "starting" or "up"
  crashed,    \* fault.Engine.crashed of the running process
  nextBeat,   \* time to a process's next heartbeat
  nextClean,  \* time to the next pass of the cleanup goroutine
  update,     \* the fault update the actor is executing
  panicked,   \* the control plane has died
  ledger,     \* lifecycle events of the metrics session, taken as active
  wasCrashed, \* history: crashed since it was registered
  reset,      \* history: registered under a crash, or under a fault update
  applied,    \* history: the crashes and recoveries the actor carried out
  commands, starts

process == <<proc, crashed, nextBeat>>
history == <<wasCrashed, reset, applied>>

vars == <<nodes, process, nextClean, update, panicked, ledger, history,
          commands, starts>>

Registered == DOMAIN nodes

Fault == [crashed : BOOLEAN, partition : SUBSET Nodes]

DefaultFaultState == [crashed |-> FALSE, partition |-> {}]

(* seen is the time since LastSeen, as far as it matters.                  *)
Entry == [seen : 0 .. CleanupTimeout + 1, status : {"active", "crashed"},
          fault : Fault]

NewEntry == [seen |-> 0, status |-> "active", fault |-> DefaultFaultState]

NoUpdate == [phase |-> "idle"]

(* "call" the node and then, for a partition, do the "second" node;        *)
(* "removing" a node whose process was stopped.  before is a history of    *)
(* the crash state that was replaced.                                      *)
Update ==
  {NoUpdate} \cup [phase : {"removing"}, node : Nodes] \cup
  [phase : {"call"}, node : Nodes, fault : Fault, before : BOOLEAN,
   peer : Nodes \cup {0}, enabled : BOOLEAN] \cup
  [phase : {"second"}, node : Nodes, peer : Nodes, enabled : BOOLEAN]

Put(f, n, e) == [m \in DOMAIN f \cup {n} |-> IF m = n THEN e ELSE f[m]]

Drop(f, S) == [m \in DOMAIN f \ S |-> f[m]]

Init ==
  /\ nodes = [n \in {} |-> NewEntry]
  /\ proc = [n \in Nodes |-> "down"]
  /\ crashed = [n \in Nodes |-> FALSE]
  /\ nextBeat = [n \in Nodes |-> 0]
  /\ nextClean = CleanupTimeout
  /\ update = NoUpdate
  /\ panicked = FALSE
  /\ ledger = {}
  /\ wasCrashed = {}
  /\ reset = {}
  /\ applied = {}
  /\ commands = 0
  /\ starts = 0

-----------------------------------------------------------------------------
(* The node's process.                                                     *)

StartProcess(n) ==
  /\ proc[n] = "down"
  /\ starts < MaxStarts
  /\ starts' = starts + 1
  /\ proc' = [proc EXCEPT ![n] = "starting"]
  /\ crashed' = [crashed EXCEPT ![n] = FALSE]
  /\ UNCHANGED <<nodes, nextBeat, nextClean, update, panicked, ledger,
                 history, commands>>

Updating(n) == update.phase = "call" /\ update.node = n

(* Manager.RegisterNode replaces the entry of a node that is known.        *)
RegisterNode(n) ==
  /\ nodes' = Put(nodes, n, NewEntry)
  /\ reset' = IF crashed[n] \/ Updating(n) THEN reset \cup {n}
                                           ELSE reset \ {n}
  /\ wasCrashed' = IF crashed[n] THEN wasCrashed \cup {n}
                                 ELSE wasCrashed \ {n}

(* The process registers itself; then its sync loop starts.                *)
Establish(n) ==
  /\ proc[n] = "starting"
  /\ ~panicked
  /\ RegisterNode(n)
  /\ proc' = [proc EXCEPT ![n] = "up"]
  /\ \E d \in 0 .. StartDelay :
       nextBeat' = [nextBeat EXCEPT ![n] = HeartbeatInterval + d]
  /\ UNCHANGED <<crashed, nextClean, update, panicked, ledger, applied,
                 commands, starts>>

(* Faulty variant: the heartbeat does not reach LastSeen.                  *)
HeartbeatOnlyActivates(n) ==
  nodes' = IF n \in Registered
           THEN [nodes EXCEPT ![n].status = "active"] ELSE nodes

Heartbeat(n) ==
  nodes' = IF n \in Registered
           THEN [nodes EXCEPT ![n].seen = 0, ![n].status = "active"]
           ELSE nodes

(* The sync loop's ticker: a crashed node skips its heartbeat, and an      *)
(* error is only logged.                                                   *)
sendHeartbeat(n) ==
  /\ proc[n] = "up" /\ nextBeat[n] = 0
  /\ nextBeat' = [nextBeat EXCEPT ![n] = HeartbeatInterval]
  /\ IF crashed[n] \/ panicked THEN UNCHANGED nodes ELSE Heartbeat(n)
  /\ UNCHANGED <<proc, crashed, nextClean, update, panicked, ledger, history,
                 commands, starts>>

ExitProcess(n) ==
  /\ proc[n] # "down"
  /\ proc' = [proc EXCEPT ![n] = "down"]
  /\ UNCHANGED <<nodes, crashed, nextBeat, nextClean, update, panicked,
                 ledger, history, commands, starts>>

-----------------------------------------------------------------------------

Expired == {n \in Registered : nodes[n].seen > CleanupTimeout}

(* Faulty variant: the status of a crashed node is not refreshed.          *)
CleanedSilently == Drop(nodes, {n \in Expired : ~nodes[n].fault.crashed})

(* Faulty variant: the test of the crash flag is inverted.                 *)
CleanedCrashed == Drop(nodes, {n \in Expired : nodes[n].fault.crashed})

Cleaned ==
  [n \in Registered \ {m \in Expired : ~nodes[m].fault.crashed} |->
     IF n \in Expired THEN [nodes[n] EXCEPT !.status = "crashed"]
                      ELSE nodes[n]]

Cleanup ==
  /\ nextClean = 0
  /\ ~panicked
  /\ nodes' = Cleaned
  /\ nextClean' = CleanupTimeout
  /\ UNCHANGED <<process, update, panicked, ledger, history, commands, starts>>

Min(a, b) == IF a < b THEN a ELSE b

Due == \E n \in Nodes : proc[n] = "up" /\ nextBeat[n] = 0

Time ==
  /\ ~Due
  /\ nextClean > 0 \/ panicked
  /\ nextClean' = IF nextClean > 0 THEN nextClean - 1 ELSE 0
  /\ nextBeat' = [n \in Nodes |-> IF proc[n] = "up" THEN nextBeat[n] - 1
                                                    ELSE 0]
  /\ nodes' = [n \in Registered |->
                 [nodes[n] EXCEPT !.seen = Min(@ + 1, CleanupTimeout + 1)]]
  /\ UNCHANGED <<proc, crashed, update, panicked, ledger, history, commands,
                 starts>>

-----------------------------------------------------------------------------
(* The commands of the actor.                                              *)

Command(c) ==
  /\ c \in Operators
  /\ ~panicked /\ update = NoUpdate
  /\ commands < MaxCommands
  /\ commands' = commands + 1

(* Faulty variant: only the status is updated.                             *)
RecordStatusOnly(n, fault) ==
  nodes' = [nodes EXCEPT ![n].status = IF fault.crashed THEN "crashed"
                                                        ELSE "active"]

(* Manager.SetFaultParams up to the unlock.                                *)
RecordFault(n, fault) ==
  nodes' = [nodes EXCEPT ![n].fault = fault,
                         ![n].status = IF fault.crashed THEN "crashed"
                                                        ELSE "active"]

(* Record, then call the node; a partition goes on with the second node.   *)
ChangeFault(n, fault, second, enabled) ==
  /\ RecordFault(n, fault)
  /\ update' = [phase |-> "call", node |-> n, fault |-> fault,
                before |-> nodes[n].fault.crashed,
                peer |-> second, enabled |-> enabled]

(* set-fault replaces all of the fault state.  An unregistered node is an  *)
(* error and changes nothing, here and below.                              *)
SetFaultParams(n, fault) ==
  /\ Command("fault")
  /\ n \in Registered
  /\ ChangeFault(n, fault, 0, FALSE)
  /\ UNCHANGED <<process, nextClean, panicked, ledger, history, starts>>

(* fault-crash and fault-recover change the crash flag of the recorded     *)
(* fault.  fault-drop and fault-delay change rates that are left out, so   *)
(* they are the case that leaves the flag as it is.                        *)
SetCrashed(n, value) ==
  /\ Command("crash")
  /\ n \in Registered
  /\ ChangeFault(n, [nodes[n].fault EXCEPT !.crashed = value], 0, FALSE)
  /\ UNCHANGED <<process, nextClean, panicked, ledger, history, starts>>

(* updateNodePartition of fault-partition.                                 *)
NewPartition(n, p, enabled) ==
  [nodes[n].fault EXCEPT !.partition = IF enabled THEN @ \cup {p}
                                                  ELSE @ \ {p}]

SetPartition(n, p, enabled) ==
  /\ Command("partition")
  /\ n \in Registered
  /\ ChangeFault(n, NewPartition(n, p, enabled), p, enabled)
  /\ UNCHANGED <<process, nextClean, panicked, ledger, history, starts>>

(* An error in the second half is only logged.                             *)
SecondPartition ==
  /\ update.phase = "second"
  /\ ~panicked
  /\ IF update.peer \in Registered
     THEN ChangeFault(update.peer,
                      NewPartition(update.peer, update.node, update.enabled),
                      0, FALSE)
     ELSE update' = NoUpdate /\ UNCHANGED nodes
  /\ UNCHANGED <<process, nextClean, panicked, ledger, history, commands,
                 starts>>

(* What Service.SetFaultParams records of a change from old to new.        *)
Lifecycle(n, old, new) ==
  IF ~old.crashed /\ new.crashed THEN {<<n, "CRASH">>}
  ELSE IF old.crashed /\ ~new.crashed THEN {<<n, "RECOVER">>}
  ELSE {}

Finished ==
  IF update.peer = 0 THEN NoUpdate
  ELSE [phase |-> "second", node |-> update.node, peer |-> update.peer,
        enabled |-> update.enabled]

(* The call reaches any process that listens, registered or not.  oldNode  *)
(* is a pointer to the entry that Manager.SetFaultParams has changed, so   *)
(* its fault is the new one.                                               *)
CallNode ==
  LET n == update.node
  IN  /\ update.phase = "call"
      /\ ~panicked
      /\ proc[n] # "down"
      /\ crashed' = [crashed EXCEPT ![n] = update.fault.crashed]
      /\ wasCrashed' = IF update.fault.crashed THEN wasCrashed \cup {n}
                                               ELSE wasCrashed
      /\ ledger' = ledger \cup Lifecycle(n, update.fault, update.fault)
      /\ applied' = applied \cup
                      Lifecycle(n, [crashed |-> update.before], update.fault)
      /\ update' = Finished
      /\ UNCHANGED <<nodes, proc, nextBeat, nextClean, panicked, reset,
                     commands, starts>>

(* The call fails, as it may while the process is not listening yet: the   *)
(* command ends with an error, and what the registry recorded stays.       *)
CallFails ==
  /\ update.phase = "call"
  /\ ~panicked
  /\ proc[update.node] # "up"
  /\ update' = NoUpdate
  /\ UNCHANGED <<nodes, process, nextClean, panicked, ledger, history,
                 commands, starts>>

(* add-node: the result of the ping is ignored.                            *)
AddNode(n) ==
  /\ Command("add")
  /\ RegisterNode(n)
  /\ UNCHANGED <<process, nextClean, update, panicked, ledger, applied,
                 starts>>

(* remove-node stops the process, and then drops the entry if it is still  *)
(* there.  The error of the lookup is ignored, so an unknown node is a nil *)
(* dereference.                                                            *)
RemoveNode(n) ==
  /\ Command("remove")
  /\ IF n \in Registered
     THEN /\ proc' = [proc EXCEPT ![n] = "down"]
          /\ update' = [phase |-> "removing", node |-> n]
          /\ UNCHANGED panicked
     ELSE panicked' = TRUE /\ UNCHANGED <<proc, update>>
  /\ UNCHANGED <<nodes, crashed, nextBeat, nextClean, ledger, history, starts>>

DropNode ==
  /\ update.phase = "removing"
  /\ nodes' = Drop(nodes, {update.node})
  /\ update' = NoUpdate
  /\ UNCHANGED <<process, nextClean, panicked, ledger, history, commands,
                 starts>>

-----------------------------------------------------------------------------

Node(n) ==
  StartProcess(n) \/ Establish(n) \/ sendHeartbeat(n) \/ ExitProcess(n)

Operator(n) ==
  \/ \E fault \in Fault : n \notin fault.partition /\ SetFaultParams(n, fault)
  \/ \E value \in BOOLEAN : SetCrashed(n, value)
  \/ \E p \in Nodes \ {n}, on \in BOOLEAN : SetPartition(n, p, on)
  \/ AddNode(n) \/ RemoveNode(n)

Actor == SecondPartition \/ CallNode \/ CallFails \/ DropNode

Next ==
  \/ Cleanup \/ Time \/ Actor
  \/ \E n \in Nodes : Node(n) \/ Operator(n)

Spec == Init /\ [][Next]_vars

(* Timers fire, goroutines run and a process that is starting registers;   *)
(* nothing makes an operator act or a process start or die.                *)
Fairness ==
  /\ WF_vars(Time) /\ WF_vars(Cleanup) /\ WF_vars(Actor)
  /\ \A n \in Nodes : WF_vars(sendHeartbeat(n)) /\ WF_vars(Establish(n))

FairSpec == Spec /\ Fairness

-----------------------------------------------------------------------------

(* Type correctness of the registry, the processes and the actor.          *)
TypeOK ==
  /\ Registered \subseteq Nodes
  /\ \A n \in Registered : nodes[n] \in Entry
  /\ proc \in [Nodes -> {"down", "starting", "up"}]
  /\ crashed \in [Nodes -> BOOLEAN]
  /\ nextBeat \in [Nodes -> 0 .. HeartbeatInterval + StartDelay]
  /\ nextClean \in 0 .. CleanupTimeout
  /\ update \in Update
  /\ panicked \in BOOLEAN
  /\ ledger \subseteq Nodes \X {"CRASH", "RECOVER"}
  /\ wasCrashed \subseteq Nodes /\ reset \subseteq Nodes
  /\ applied \subseteq Nodes \X {"CRASH", "RECOVER"}
  /\ commands \in 0 .. MaxCommands
  /\ starts \in 0 .. MaxStarts

(* The cleanup never drops a running node that has sent heartbeats ever    *)
(* since it registered, whatever happens to the others                     *)
(* (heartbeat_manager.go:29-53, controlplane_client.go:14-34).             *)
HealthyNodesStay ==
  [][Cleanup => \A n \in Registered :
                  proc[n] = "up" /\ n \notin wasCrashed => n \in DOMAIN nodes'
    ]_vars

(* A node whose process is gone leaves the registry, unless it was marked  *)
(* as crashed or comes back (heartbeat_manager.go:36-43).                  *)
DeadNodesLeave ==
  \A n \in Nodes :
    n \in Registered /\ proc[n] = "down" ~>
      \/ n \notin Registered \/ proc[n] # "down"
      \/ nodes[n].fault.crashed \/ panicked

(* A crash is shown eventually, although a heartbeat that is under way     *)
(* when the crash is recorded makes the entry active again                 *)
(* (heartbeat_manager.go:23-24, 44-47).                                    *)
CrashIsShown ==
  \A n \in Nodes :
    n \in Registered /\ nodes[n].fault.crashed /\ crashed[n] ~>
      \/ n \notin Registered \/ ~crashed[n] \/ panicked
      \/ ~nodes[n].fault.crashed \/ nodes[n].status = "crashed"

(* Whenever the actor is idle, a node that is up is recorded as crashed    *)
(* exactly when its engine is: neither heartbeats nor the cleanup nor a    *)
(* failed call part the two (manager.go:62-98), restarts included.  Only   *)
(* a registration that replaces the entry under a crash does, or one that  *)
(* comes between the record and the call of an update.                     *)
RecordMatchesEngine ==
  update = NoUpdate =>
    \A n \in Registered \ reset :
      proc[n] = "up" => nodes[n].fault.crashed = crashed[n]

-----------------------------------------------------------------------------
(* What the code does not keep: Registry_not_kept.cfg ends in a            *)
(* counterexample for each of these.                                       *)

(* "If node.Fault.Crashed is false, node is actually dead": the cleanup    *)
(* drops dead nodes only (heartbeat_manager.go:39).                        *)
OnlyDeadNodesDropped ==
  [][Cleanup => \A n \in Registered \ DOMAIN nodes' : proc[n] = "down"]_vars

(* "If node recovers later: Will re-register as new node": a node that is  *)
(* up and not crashed is registered eventually (DATA_FLOWS.md:252-253).    *)
LiveNodesRegister ==
  \A n \in Nodes :
    proc[n] = "up" /\ ~crashed[n] ~>
      n \in Registered \/ proc[n] # "up" \/ crashed[n] \/ panicked

(* "manager.AddNode() is SKIPPED: Node not added to state": a node that    *)
(* cannot be reached is not registered (DATA_FLOWS.md:593-594).            *)
OnlyReachableNodesAdded ==
  [][\A n \in DOMAIN nodes' \ Registered : proc[n] # "down"]_vars

(* "Detect changes for lifecycle logging": a crash or recovery that was    *)
(* carried out is in the ledger (service.go:477-488).                      *)
LifecycleLogged == applied \subseteq ledger

=============================================================================
