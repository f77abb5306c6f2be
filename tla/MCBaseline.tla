----------------------------- MODULE MCBaseline -----------------------------
(***************************************************************************)
(* Instances of Baseline: 2 starts without peers and is discovered by, and *)
(* itself discovers, the nodes that send to it.                            *)
(***************************************************************************)
EXTENDS Baseline

KnownByTheFirst == [n \in Nodes |-> IF n = 2 THEN {} ELSE Nodes \ {n}]

EveryoneKnown == [n \in Nodes |-> Nodes \ {n}]
=============================================================================
