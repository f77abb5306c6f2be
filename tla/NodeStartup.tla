---------------------------- MODULE NodeStartup ----------------------------
(***************************************************************************)
(* How the nodes of a cluster start (Runtime.Start in                      *)
(* internal/node/runtime/runtime.go) while others run and the operator     *)
(* changes the cluster's protocol (Service.SetClusterProtocol): a node     *)
(* opens its server, registers with the control plane, fetches its peers   *)
(* and loads the protocol it was assigned through its own event channel,   *)
(* which envelopes and ChangeProtocol calls reach from the beginning.      *)
(*                                                                         *)
(* One cluster whose nodes are neither restarted nor dropped; for these    *)
(* see ControlPlaneActor and ClusterRegistry.                              *)
(***************************************************************************)
EXTENDS Integers, Sequences

CONSTANTS
  Nodes,
  Given,       \* the list of peers each node is started with
  Loadable,    \* the protocols nodes have: gossip and baseline in the code
  Assignable,  \* those the registry accepts: gossip and raft in the code
  Commanded,   \* the protocols the operator asks for
  Watched,     \* bound: the nodes whose capability reports are followed
  MaxCommands  \* bound on the operator's commands

Key == Loadable \cup Assignable \cup Commanded

ASSUME StartupAssumption ==
  /\ "gossip" \in Loadable \cap Assignable
  /\ Key \cap {"none", "late"} = {}
  /\ Given \in [Nodes -> SUBSET Nodes] /\ \A n \in Nodes : n \notin Given[n]
  /\ 0 \notin Nodes /\ Watched \subseteq Nodes /\ MaxCommands \in Nat

VARIABLES
  pc,        \* where Start is in each node
  serving,   \* the nodes whose server got its port
  assigned,  \* the protocol named in the registration's answer
  peers,     \* Runtime.config.Peers, which are the protocol's peers too
  linked,    \* nodeSession.peers, the peers that envelopes are sent to
  proto,     \* Runtime.proto, "none" for nil
  eventCh,   \* Runtime.eventCh
  reports,   \* capability reports under way: [node, key, caps]
  members,   \* the registry: the cluster's nodes,
  protocol,  \* its protocol, "none" while there is no cluster,
  record,    \* and the protocol and capabilities recorded of each node
  cmd,       \* the SetClusterProtocol under way
  calls,     \* its calls that no handler has begun: [node, key, id]
  commands,
  fetched,   \* history: the nodes whose peer fetch succeeded
  overlap,   \* history: a node registered while another had not loaded, or
             \* linked a node that it had only been given
  panicked,  \* history: the nodes that used a nil protocol
  told,      \* history: what a node that had started was last told to run,
             \* "late" once a call to it timed out
  crossed    \* history: the nodes with a report lost, or two under way

start == <<pc, serving, assigned, fetched, overlap, panicked>>
registry == <<members, protocol, record>>
topology == <<peers, linked>>
operator == <<cmd, calls, commands, told>>
vars == <<start, topology, proto, eventCh, reports, registry, operator, crossed>>

NoCommand == [phase |-> "idle"]

Unreported == [key |-> "none", caps |-> "none"]

Init ==
  /\ pc = [n \in Nodes |-> "off"] /\ serving = {}
  /\ assigned = [n \in Nodes |-> "none"]
  /\ peers = Given /\ linked = [n \in Nodes |-> {}]
  /\ proto = [n \in Nodes |-> "none"]
  /\ eventCh = [n \in Nodes |-> <<>>]
  /\ reports = {}
  /\ members = {} /\ protocol = "none"
  /\ record = [n \in Nodes |-> Unreported]
  /\ cmd = NoCommand /\ calls = {} /\ commands = 0
  /\ fetched = {} /\ overlap = FALSE /\ panicked = {}
  /\ told = [n \in Nodes |-> "none"] /\ crossed = {}

Goto(n, place) == pc' = [pc EXCEPT ![n] = place]

Enqueue(n, event) == eventCh' = [eventCh EXCEPT ![n] = Append(@, event)]

Reachable(n) == n \in serving /\ pc[n] # "dead"

(* Registered, and still on its way to its first protocol, or to its end.  *)
Loading(n) ==
  pc[n] \in {"registering", "registered", "peered", "loading", "refused"}

-----------------------------------------------------------------------------
(* Start.                                                                  *)

(* The server is started first; if its port is taken it just returns.      *)
Listen(n) ==
  /\ pc[n] = "off" /\ Goto(n, "listening")
  /\ \/ serving' = serving \cup {n}
     \/ UNCHANGED serving
  /\ UNCHANGED <<assigned, fetched, overlap, panicked, topology, proto, eventCh,
                 reports, registry, operator, crossed>>

(* RegisterNode on the control plane; the ping's result is not used.  A    *)
(* cluster that does not exist is created as a gossip cluster.             *)
RegisterNode(n) ==
  /\ pc[n] = "listening" /\ Goto(n, "registering")
  /\ members' = members \cup {n}
  /\ protocol' = IF protocol = "none" THEN "gossip" ELSE protocol
  /\ record' = [record EXCEPT ![n] = Unreported]
  /\ overlap' = (overlap \/ \E p \in Nodes : Loading(p))
  /\ UNCHANGED <<serving, assigned, fetched, panicked, topology, proto, eventCh,
                 reports, operator, crossed>>

(* GetClusterProtocol, after the registration and under a lock of its own. *)
GetClusterProtocol(n) ==
  /\ pc[n] = "registering" /\ Goto(n, "registered")
  /\ assigned' = [assigned EXCEPT ![n] = protocol]
  /\ UNCHANGED <<serving, fetched, overlap, panicked, topology, proto, eventCh,
                 reports, registry, operator, crossed>>

(* The call fails, before or after it has taken effect: log.Fatalf.        *)
RegistrationFails(n) ==
  /\ pc[n] \in {"listening", "registering"} /\ Goto(n, "dead")
  /\ UNCHANGED <<serving, assigned, fetched, overlap, panicked, topology, proto,
                 eventCh, reports, registry, operator, crossed>>

(* Faulty variant: only nodes that have reported their protocol are named. *)
ReportedPeers(n) == {p \in members : record[p] # Unreported} \ {n}

(* GetPeers, and SetPeers, which drops the node itself.                    *)
OtherMembers(n) == members \ {n}

(* A fetch that fails is logged and not repeated.                          *)
FetchPeers(n) ==
  /\ pc[n] = "registered" /\ Goto(n, "peered")
  /\ \/ /\ peers' = [peers EXCEPT ![n] = OtherMembers(n)]
        /\ linked' = [linked EXCEPT ![n] = OtherMembers(n)]
        /\ fetched' = fetched \cup {n}
     \/ UNCHANGED <<topology, fetched>>
  /\ UNCHANGED <<serving, assigned, overlap, panicked, proto, eventCh, reports,
                 registry, operator, crossed>>

(* ProtocolSwap to the assigned protocol, by way of the event channel.     *)
LoadAssigned(n) ==
  /\ pc[n] = "peered" /\ Goto(n, "loading")
  /\ Enqueue(n, [type |-> "swap", key |-> assigned[n], id |-> 0])
  /\ UNCHANGED <<serving, assigned, fetched, overlap, panicked, topology, proto,
                 reports, registry, operator, crossed>>

(* The swap is answered: the driver is started, or log.Fatalf.             *)
Started(n) ==
  /\ \/ pc[n] = "loaded" /\ Goto(n, "up")
     \/ pc[n] = "refused" /\ Goto(n, "dead")
  /\ UNCHANGED <<serving, assigned, fetched, overlap, panicked, topology, proto,
                 eventCh, reports, registry, operator, crossed>>

-----------------------------------------------------------------------------
(* The reactor, which runs from before the registration.                   *)

(* Faulty variant: the report names the protocol assigned at registration. *)
ReportAssigned(n, key) ==
  /\ reports' = reports \cup
       {[node |-> m, key |-> assigned[m], caps |-> "none"] : m \in {n} \cap Watched}
  /\ crossed' = crossed \cup {r.node : r \in {x \in reports : x.node = n}}

(* A goroutine of its own reports the capabilities after a swap.           *)
Report(n, key) ==
  /\ reports' = reports \cup
       {[node |-> m, key |-> key, caps |-> "none"] : m \in {n} \cap Watched}
  /\ crossed' = crossed \cup {r.node : r \in {x \in reports : x.node = n}}

(* Faulty variant: the old protocol is given up before the new is found.   *)
SwapStopsFirst(n, key) ==
  IF key \in Loadable
  THEN /\ proto' = [proto EXCEPT ![n] = key]
       /\ Report(n, key)
  ELSE proto' = [proto EXCEPT ![n] = "none"] /\ UNCHANGED <<reports, crossed>>

(* Faulty variant: a node that has a protocol keeps it.                    *)
SwapOnlyOnce(n, key) ==
  IF key \in Loadable
  THEN /\ proto' = [proto EXCEPT ![n] = IF @ = "none" THEN key ELSE @]
       /\ Report(n, key)
  ELSE UNCHANGED <<proto, reports, crossed>>

(* A protocol that cannot be loaded leaves the old one in place.           *)
applyProtocolSwap(n, key) ==
  IF key \in Loadable
  THEN /\ proto' = [proto EXCEPT ![n] = key]
       /\ Report(n, key)
  ELSE UNCHANGED <<proto, reports, crossed>>

(* The answer goes to Start or to the ChangeProtocol call that waits; the  *)
(* control plane takes no notice of a refusal.                             *)
AnswerSwap(n, event) ==
  IF event.id = 0 /\ pc[n] = "loading"
  THEN /\ Goto(n, IF event.key \in Loadable THEN "loaded" ELSE "refused")
       /\ UNCHANGED cmd
  ELSE /\ cmd' = IF cmd.phase = "calling" /\ cmd.waiting = n /\ cmd.id = event.id
                   THEN [cmd EXCEPT !.waiting = 0] ELSE cmd
       /\ UNCHANGED pc

(* Faulty variant: an unknown sender stays unknown.                        *)
IgnoreSender(n, from) == UNCHANGED <<topology, overlap>>

(* The protocol discovers a sender that it does not know; the runtime adds *)
(* it and hands all of its peers to the session.                           *)
OnPeerDiscovered(n, from) ==
  IF from \in peers[n] THEN UNCHANGED <<topology, overlap>>
  ELSE /\ peers' = [peers EXCEPT ![n] = @ \cup {from}]
       /\ linked' = [linked EXCEPT ![n] = peers[n] \cup {from}]
       /\ overlap' = (overlap \/ linked[n] # peers[n])

(* Without a protocol an envelope is a nil dereference, which ends the     *)
(* process.                                                                *)
ReactMessage(n, from) ==
  /\ IF proto[n] = "none"
     THEN /\ Goto(n, "dead") /\ panicked' = panicked \cup {n}
          /\ UNCHANGED <<topology, overlap>>
     ELSE OnPeerDiscovered(n, from) /\ UNCHANGED <<pc, panicked>>
  /\ UNCHANGED <<proto, reports, cmd, crossed>>

React(n) ==
  /\ eventCh[n] # <<>> /\ pc[n] # "dead"
  /\ eventCh' = [eventCh EXCEPT ![n] = Tail(@)]
  /\ LET event == Head(eventCh[n])
     IN  \/ event.type = "message" /\ ReactMessage(n, event.from)
         \/ /\ event.type = "swap"
            /\ applyProtocolSwap(n, event.key) /\ AnswerSwap(n, event)
            /\ UNCHANGED <<topology, panicked, overlap>>
  /\ UNCHANGED <<serving, assigned, fetched, registry, calls, commands, told>>

(* A tick of a running node sends an envelope to a peer.  Bound: one from  *)
(* each sender in a channel.                                               *)
Tick(n, p) ==
  /\ pc[n] = "up" /\ p \in linked[n] /\ Reachable(p)
  /\ \A i \in 1 .. Len(eventCh[p]) : eventCh[p][i] # [type |-> "message", from |-> n]
  /\ Enqueue(p, [type |-> "message", from |-> n])
  /\ UNCHANGED <<start, topology, proto, reports, registry, operator, crossed>>

(* The reporting goroutine asks the protocol of now for its capabilities.  *)
CheckCapabilities(r) ==
  /\ r.caps = "none" /\ pc[r.node] # "dead"
  /\ reports' = (reports \ {r}) \cup {[r EXCEPT !.caps = proto[r.node]]}
  /\ UNCHANGED <<start, topology, proto, eventCh, registry, operator, crossed>>

(* SetNodeCapabilities records whatever report comes.                      *)
ReportCapabilities(r) ==
  /\ r.caps # "none"
  /\ reports' = reports \ {r}
  /\ record' = IF r.node \in members
                 THEN [record EXCEPT ![r.node] = [key |-> r.key, caps |-> r.caps]]
                 ELSE record
  /\ UNCHANGED <<start, topology, proto, eventCh, members, protocol, operator, crossed>>

(* A report that fails is only logged, and ends with its process.          *)
ReportFails(r) ==
  /\ reports' = reports \ {r} /\ crossed' = crossed \cup {r.node}
  /\ UNCHANGED <<start, topology, proto, eventCh, registry, operator>>

-----------------------------------------------------------------------------
(* The operator: new-cluster and set-protocol.                             *)

CreateCluster ==
  /\ protocol = "none" /\ protocol' \in Assignable
  /\ UNCHANGED <<start, topology, proto, eventCh, reports, members, record,
                 operator, crossed>>

(* SetClusterProtocol: the nodes of now, one after the other.              *)
SetClusterProtocol ==
  /\ cmd = NoCommand /\ commands < MaxCommands /\ protocol # "none"
  /\ commands' = commands + 1
  /\ \E key \in Commanded :
       cmd' = [phase |-> "calling", key |-> key, todo |-> members, waiting |-> 0,
               id |-> commands']
  /\ UNCHANGED <<start, topology, proto, eventCh, reports, registry, calls, told,
                 crossed>>

(* NodeClient.SwapProtocol; a node that cannot be reached is passed over.  *)
SwapProtocolCall(n) ==
  /\ cmd.phase = "calling" /\ cmd.waiting = 0 /\ n \in cmd.todo
  /\ IF Reachable(n)
     THEN /\ calls' = calls \cup {[node |-> n, key |-> cmd.key, id |-> cmd.id]}
          /\ cmd' = [cmd EXCEPT !.todo = @ \ {n}, !.waiting = n]
          /\ told' = [told EXCEPT ![n] =
                        IF @ = "late" THEN @
                        ELSE IF pc[n] \in {"loaded", "up"} THEN cmd.key ELSE "none"]
     ELSE cmd' = [cmd EXCEPT !.todo = @ \ {n}] /\ UNCHANGED <<calls, told>>
  /\ UNCHANGED <<start, topology, proto, eventCh, reports, registry, commands, crossed>>

(* The node's ChangeProtocol handler, perhaps long after the call.         *)
ChangeProtocol(c) ==
  /\ calls' = calls \ {c}
  /\ IF pc[c.node] = "dead" THEN UNCHANGED eventCh
     ELSE Enqueue(c.node, [type |-> "swap", key |-> c.key, id |-> c.id])
  /\ UNCHANGED <<start, topology, proto, reports, registry, cmd, commands, told, crossed>>

(* The call has taken three seconds, or its node has died.                 *)
Timeout ==
  /\ cmd.phase = "calling" /\ cmd.waiting # 0
  /\ cmd' = [cmd EXCEPT !.waiting = 0]
  /\ told' = [told EXCEPT ![cmd.waiting] = "late"]
  /\ UNCHANGED <<start, topology, proto, eventCh, reports, registry, calls, commands,
                 crossed>>

(* Only now does the registry look at the protocol, and record it.         *)
SwapProtocol ==
  /\ cmd.phase = "calling" /\ cmd.waiting = 0 /\ cmd.todo = {}
  /\ cmd' = NoCommand
  /\ protocol' = IF cmd.key \in Assignable THEN cmd.key ELSE protocol
  /\ UNCHANGED <<start, topology, proto, eventCh, reports, members, record, calls,
                 commands, told, crossed>>

-----------------------------------------------------------------------------

Starting(n) ==
  \/ Listen(n) \/ RegisterNode(n) \/ GetClusterProtocol(n)
  \/ RegistrationFails(n) \/ FetchPeers(n) \/ LoadAssigned(n) \/ Started(n)

Next ==
  \/ \E n \in Nodes : Starting(n) \/ React(n) \/ SwapProtocolCall(n)
  \/ \E n, p \in Nodes : Tick(n, p)
  \/ \E r \in reports :
       CheckCapabilities(r) \/ ReportCapabilities(r) \/ ReportFails(r)
  \/ \E c \in calls : ChangeProtocol(c)
  \/ CreateCluster \/ SetClusterProtocol \/ Timeout \/ SwapProtocol

Spec == Init /\ [][Next]_vars

(* The reactor and the tick driver of a running node go on.                *)
Fairness ==
  /\ \A n \in Nodes : WF_vars(React(n))
  /\ \A n \in Nodes : \A p \in Nodes \ {n} : WF_vars(Tick(n, p))

FairSpec == Spec /\ Fairness

-----------------------------------------------------------------------------
(* Of two nodes that have fetched their peers at least one sends to the    *)
(* other, whatever the order of their starts: a node registers before it   *)
(* fetches (runtime.go:80-87).                                             *)
PeersMeet ==
  \A n, p \in fetched : n # p => n \in linked[p] \/ p \in linked[n]

Meeting(n, p) ==
  pc[n] = "up" /\ pc[p] = "up" /\ p \in serving /\ p \in linked[n]

(* One of them is enough: two nodes that run come to send to each other    *)
(* once one does, because its ticks reach the other, which adds an unknown *)
(* sender.  A failed fetch is made good in this way, unless the node was   *)
(* given its peers (runtime.go:85, propagation.go:85-92, rpc.go:12-34).    *)
KnowledgeIsMutual ==
  \A n \in Nodes : \A p \in Nodes \ {n} :
    Meeting(n, p) /\ (p \in fetched \/ Given[p] = {}) ~> n \in linked[p]

(* The reactor runs before the protocol is loaded, and an envelope that    *)
(* comes first ends the process, but only where starts overlap: a node     *)
(* that registers when no other is on its way is not known to anyone who   *)
(* sends before it has loaded, unless from a list, and a node that has a   *)
(* protocol never loses it, not even to a protocol that does not exist     *)
(* (runtime.go:78-92, protocol_swap.go:10-22).                             *)
PanicNeedsOverlap == panicked # {} => overlap

(* A node that had started runs what it was told last, once the call is    *)
(* answered, as long as no call to it timed out: the swaps of calls go     *)
(* through one channel in order and are answered when they are done        *)
(* (protocol_swap.go:52-70, service.go:466-474).                           *)
RunsWhatItIsTold ==
  \A n \in Nodes :
    told[n] \in Loadable /\ (cmd.phase = "calling" => cmd.waiting # n)
      => proto[n] = told[n]

(* The registry's record of a node is the protocol it runs, with its       *)
(* capabilities, once its reports are in, unless one was lost or two were  *)
(* under way at a time (reactor.go:40-46, manager.go:30-50).               *)
RecordFollowsSwap ==
  \A n \in (members \cap Watched) \ crossed :
    proto[n] # "none" /\ (\A r \in reports : r.node # n)
      => record[n] = [key |-> proto[n], caps |-> proto[n]]

-----------------------------------------------------------------------------
(* What the code does not keep: Startup_not_kept.cfg ends in a             *)
(* counterexample for each of these.                                       *)

(* No envelope ends a process (runtime.go:78, reactor.go:30).              *)
NoPanic == panicked = {}

(* Nodes that run have the protocol that the registry has for the cluster, *)
(* when no command is under way and no call failed (service.go:466-474).   *)
ClusterRunsItsProtocol ==
  cmd = NoCommand =>
    \A n \in members : pc[n] = "up" /\ told[n] # "late" => proto[n] = protocol

(* A node sends to every running node that sends to it.  A node that was   *)
(* given its peers and fails to fetch them knows the sender, discovers     *)
(* nothing, and has no session to send with (rpc.go:12-34).                *)
SendersAreAnswered ==
  \A n \in Nodes : \A p \in Nodes \ {n} : Meeting(n, p) ~> n \in linked[p]

(* The record is right even if reports are lost or overtake each other     *)
(* (reactor.go:42-46).                                                     *)
RecordIsRight ==
  \A n \in members \cap Watched :
    proto[n] # "none" /\ (\A r \in reports : r.node # n)
      => record[n].key = proto[n]
=============================================================================
