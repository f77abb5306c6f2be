--------------------------- MODULE NodeSessions ----------------------------
(***************************************************************************)
(* A node's two sessions in one process: the peer session and the session  *)
(* with the control plane.  The goroutines of the peer session log, and    *)
(* each line is a report on the other session; a nil client there ends the *)
(* process, and with it the probes.                                        *)
(***************************************************************************)
EXTENDS PeerSession, ControlPlaneSession

CONSTANT MaxChanges  \* bound on the changes around the node, of either kind

ASSUME ChangesAssumption == MaxChanges \in Nat

nodeVars == <<vars, cpVars>>

NodeInit == Init /\ CPInit

Peers(g) == ~died /\ Step(g) /\ UNCHANGED cpVars

Changes ==
  /\ flips + outages < MaxChanges /\ ~died
  /\ \/ Environment /\ UNCHANGED cpVars
     \/ Outage /\ UNCHANGED vars

NodeNext ==
  \/ \E g \in goroutine : Peers(g)
  \/ ~died /\ closeAllConnections /\ UNCHANGED cpVars
  \/ Loop /\ UNCHANGED vars
  \/ (\E g \in Reporters : Caller(g)) /\ UNCHANGED vars
  \/ Changes

NodeSpec == NodeInit /\ [][NodeNext]_nodeVars

(* The fairness of each session, while the process lives.                  *)
NodeFairSpec ==
  /\ NodeSpec
  /\ WF_nodeVars(Peers("probe"))
  /\ WF_nodeVars(Peers("send") /\ pc["send"] # "idle")
  /\ WF_nodeVars(Loop /\ UNCHANGED vars)

-----------------------------------------------------------------------------
(* The owner's health of a peer is right in the end: alive for a peer that *)
(* stays up, dead for one that stays down, unless the fault engine, the    *)
(* end of the session or the end of the process keeps the probes back      *)
(* (node.go:202-276).                                                      *)
HealthFollowsPeer ==
  <>[](~blocked /\ ~stopped /\ ~died) =>
    /\ <>[]up => <>[](health = "alive")
    /\ <>[]~up => <>[](health = "dead")
=============================================================================
