------------------------ MODULE MCControlPlaneActor ------------------------
(***************************************************************************)
(* Instances of ControlPlaneActor.                                         *)
(***************************************************************************)
EXTENDS ControlPlaneActor

TheCommand(type) == [type |-> type]

StartStop == [type : {"start-node", "stop-node"}, node : Nodes]

(* What clients submit; new-cluster and the other commands are in Scenario. *)
Everything ==
  StartStop \cup
  {TheCommand(t) : t \in {"metrics-start", "metrics-stop", "kill-cluster",
                          "run-hypothesis"}}

(* start_cluster and then a write, as in the repository's hypotheses.      *)
Scenario ==
  <<<<TheCommand("new-cluster"), TheCommand("other")>>,
    <<TheCommand("other")>>>>
=============================================================================
