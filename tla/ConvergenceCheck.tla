-------------------------- MODULE ConvergenceCheck --------------------------
(***************************************************************************)
(* Service.IsClusterConverged and WaitForConvergence                       *)
(* (internal/controlplane/service/service.go), composed with what the      *)
(* replicated store promises (LWWStore): the check asks every node for     *)
(* every tracked key, one remote call after another, while the nodes go on *)
(* writing and catching up.                                                *)
(*                                                                         *)
(* Two nodes show the same Value, Version and Origin of a key when they    *)
(* show the same write, so a node's answer is the write it shows; 0 is a   *)
(* key it does not have.                                                   *)
(***************************************************************************)
EXTENDS Integers, Sequences

CONSTANTS
  Replicas,    \* the nodes of the cluster
  Keys,
  ClusterKey,  \* "__CLUSTER__", under which lifecycle events are recorded
  MaxWrites,   \* bound on the clients' writes
  LifecycleEvents \* whether lifecycle events are recorded

ASSUME CheckAssumption ==
  /\ ClusterKey \notin Keys
  /\ Replicas # {}
  /\ MaxWrites \in Nat
  /\ LifecycleEvents \in BOOLEAN

VARIABLES
  view, log, \* what the replicas show, and the writes (LWWStore)
  tracked,  \* the keys the metrics session tracks
  check,    \* the check in progress: the keys still to be checked, the key
            \* that is, the nodes still to be asked for it, the first answer;
            \* since and shown are a history of the store when it began
  result    \* the last check's answer; settled is a history: nothing
            \* changed meanwhile and the nodes agreed on its keys

Store == INSTANCE LWWStore WITH Nodes <- Replicas

checkVars == <<view, log, tracked, check, result>>

TrackedKey == Keys \cup {ClusterKey}

Idle == [phase |-> "idle"]

(* Every node shows the same write of the key; none has ClusterKey.        *)
Settled(k) == k \in Keys => \A n, p \in Replicas : view[n][k] = view[p][k]

CheckInit ==
  /\ Store!Init
  /\ tracked = {}
  /\ check = Idle
  /\ result = [answer |-> "none", keys |-> {}, since |-> 0, settled |-> FALSE]

-----------------------------------------------------------------------------
(* The cluster, and the control plane's other commands.                    *)

(* kv-put: the node stores the value, and the key is tracked.              *)
KVPut(n, k) ==
  /\ Len(log) < MaxWrites
  /\ Store!Write(n, k)
  /\ tracked' = tracked \cup {k}
  /\ UNCHANGED <<check, result>>

Gossip(n) == Store!CatchUp(n) /\ UNCHANGED <<tracked, check, result>>

(* RecordLifecycleEvent: the event's key becomes a tracked key.            *)
RecordLifecycleEvent ==
  /\ LifecycleEvents
  /\ tracked' = tracked \cup {ClusterKey}
  /\ UNCHANGED <<view, log, check, result>>

-----------------------------------------------------------------------------

Answer(a) ==
  /\ result' = [answer |-> a, keys |-> check.all, since |-> check.since,
                settled |-> /\ view = check.shown
                            /\ \A k \in check.all : Settled(k)]
  /\ check' = Idle

IsClusterConverged ==
  /\ check = Idle
  /\ IF tracked = {}
     THEN /\ result' = [answer |-> "converged", keys |-> {},
                        since |-> Len(log), settled |-> TRUE]
          /\ UNCHANGED check
     ELSE /\ \E k \in tracked :
               check' = [phase |-> "asking", all |-> tracked,
                         keys |-> tracked \ {k}, key |-> k, nodes |-> Replicas,
                         first |-> 0, since |-> Len(log), shown |-> view]
          /\ UNCHANGED result
  /\ UNCHANGED <<view, log, tracked>>

(* What node n answers to KV_GET: no node has the lifecycle key.           *)
Observed(n, k) == IF k \in Keys THEN view[n][k] ELSE 0

(* Faulty variant: nodes that lack the key are left out of the comparison. *)
DiffersUnlessMissing(n) ==
  LET state == Observed(n, check.key)
  IN  state # 0 /\ check.nodes # Replicas /\ state # check.first

(* Faulty variant: the first node's answer is compared too.                *)
DiffersFromNothing(n) == Observed(n, check.key) # check.first

(* The first node must have the key, the others must answer as it did.     *)
Differs(n) ==
  LET state == Observed(n, check.key)
  IN  IF check.nodes = Replicas THEN state = 0 ELSE state # check.first

(* The rest of the nodes for this key, or all nodes for the next key.      *)
AskNext(n) ==
  LET rest == check.nodes \ {n}
      first == IF check.nodes = Replicas THEN Observed(n, check.key)
                                      ELSE check.first
  IN  IF rest # {}
      THEN /\ check' = [check EXCEPT !.nodes = rest, !.first = first]
           /\ UNCHANGED result
      ELSE IF check.keys # {}
      THEN /\ \E k \in check.keys :
                check' = [check EXCEPT !.keys = @ \ {k}, !.key = k,
                                       !.nodes = Replicas, !.first = 0]
           /\ UNCHANGED result
      ELSE Answer("converged")

ExecuteKVGetObserved(n) ==
  /\ check.phase = "asking"
  /\ n \in check.nodes
  /\ IF Differs(n) THEN Answer("diverged") ELSE AskNext(n)
  /\ UNCHANGED <<view, log, tracked>>

(* A call that fails ends the check; WaitForConvergence tries again.       *)
AskFails ==
  /\ check.phase = "asking"
  /\ Answer("error")
  /\ UNCHANGED <<view, log, tracked>>

CheckNext ==
  \/ RecordLifecycleEvent \/ IsClusterConverged \/ AskFails
  \/ \E n \in Replicas :
       \/ Gossip(n) \/ ExecuteKVGetObserved(n)
       \/ \E k \in Keys : KVPut(n, k)

CheckSpec == CheckInit /\ [][CheckNext]_checkVars

-----------------------------------------------------------------------------
(* "Converged" is never a false alarm: the nodes are asked one after the   *)
(* other and change meanwhile, but if no client wrote after the check      *)
(* began, then all nodes show the same write of every key that was checked *)
(* and go on showing it (service.go:160-212).                              *)
ConvergedIsTrue ==
  result.answer = "converged" /\ result.since = Len(log) =>
    \A k \in result.keys : Settled(k)

(* "Diverged" is no false alarm either, as long as no lifecycle event was  *)
(* recorded: if nothing changed during the check and it answers            *)
(* "diverged", then some nodes show different writes of a tracked key.     *)
(* The key of the lifecycle events is on no node, and so always differs    *)
(* (service.go:178-207).                                                   *)
DivergedIsReal ==
  result.answer = "diverged" /\ ClusterKey \notin result.keys
    => ~result.settled

-----------------------------------------------------------------------------
(* What the code does not keep: Check_complete.cfg ends in a               *)
(* counterexample.                                                         *)

(* "Returns true if convergence was reached", that is when "all nodes have *)
(* reached an identical state for all tracked keys": a check during which  *)
(* nothing changes and no call fails does not answer "diverged" when all   *)
(* nodes show the same of every tracked key.                               *)
DivergedIsTrue == result.answer = "diverged" => ~result.settled

=============================================================================
