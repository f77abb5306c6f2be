------------------------------ MODULE LWWStore ------------------------------
(***************************************************************************)
(* What the replicated store promises its clients when the clocks of the   *)
(* nodes are synchronised: a replica shows, for every key, nothing or a    *)
(* write of that key, it shows its own client's write at once, and it is   *)
(* only ever replaced by a later write.  No clocks, digests or envelopes.  *)
(***************************************************************************)
EXTENDS Integers, Sequences

CONSTANTS Nodes, Keys

VARIABLES
  view,  \* the write each replica shows for each key, 0 for none
  log    \* the key of every write, in the order of the writes

Init ==
  /\ view = [n \in Nodes |-> [k \in Keys |-> 0]]
  /\ log = <<>>

Write(n, k) ==
  /\ log' = Append(log, k)
  /\ view' = [view EXCEPT ![n][k] = Len(log) + 1]

(* A replica catches up on any number of keys.                             *)
CatchUp(n) ==
  /\ \E new \in [Keys -> 0 .. Len(log)] :
       /\ \A k \in Keys : new[k] # view[n][k] =>
                            new[k] > view[n][k] /\ log[new[k]] = k
       /\ view' = [view EXCEPT ![n] = new]
  /\ UNCHANGED log

Next == \E n \in Nodes : CatchUp(n) \/ \E k \in Keys : Write(n, k)

Spec == Init /\ [][Next]_<<view, log>>

=============================================================================
