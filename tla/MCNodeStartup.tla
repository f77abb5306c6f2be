--------------------------- MODULE MCNodeStartup ----------------------------
(***************************************************************************)
(* Instances of NodeStartup: the lists that nodes are started with.        *)
(***************************************************************************)
EXTENDS NodeStartup

CONSTANTS n1, n2

(* The first node is started with the second as its peer.                  *)
FirstIsGiven == [n \in Nodes |-> IF n = n1 THEN {n2} ELSE {}]
=============================================================================
