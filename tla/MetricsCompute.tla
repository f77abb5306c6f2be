--------------------------- MODULE MetricsCompute ---------------------------
(***************************************************************************)
(* Compute of internal/metrics/metrics.go: the metrics of a sequence of    *)
(* snapshots.  The loop over the snapshots and the inner loop over a       *)
(* snapshot's nodes are steps, because Go iterates over a map in any       *)
(* order, and the most common state must not depend on it.                 *)
(***************************************************************************)
EXTENDS Integers, Sequences, FiniteSets, FiniteSetsExt, Functions

CONSTANTS
  NodeIds,
  States,     \* states of a key that exists, as positive numbers in the
              \* order of lessState; 0 is a key that does not exist
  Times,      \* observation times
  Length      \* number of snapshots

ASSUME ComputeAssumption ==
  /\ IsFiniteSet(NodeIds)
  /\ States \subseteq Nat \ {0} /\ Times \subseteq Nat
  /\ Length \in Nat \ {0}

VARIABLES
  snapshots,  \* the input
  todo,       \* indices of the snapshots that are not processed yet
  now,        \* the snapshot being processed, Absent between two
  left,       \* its nodes that are not counted yet
  counts, topState, topCount,  \* of mostCommonState
  result

computeVars == <<snapshots, todo, now, left, counts, topState, topCount, result>>

Absent == -1

NodeState == States \cup {0}

Nodes(i) == DOMAIN snapshots[i].nodes

Snapshot == [time : Times,
             nodes : UNION {[S -> NodeState] : S \in SUBSET NodeIds}]

ComputeInit ==
  /\ snapshots \in [1 .. Length -> Snapshot]
  /\ todo = 1 .. Length
  /\ now = Absent
  /\ left = {}
  /\ counts = [s \in NodeState |-> 0]
  /\ topState = 0
  /\ topCount = 0
  /\ result = [converged |-> Absent, agreed |-> Absent, final |-> FALSE,
               peak |-> 0, area |-> 0, stale |-> [n \in NodeIds |-> 0]]

(* The stable sort by time, as the choice of the next snapshot.            *)
Earliest ==
  CHOOSE i \in todo :
    \A j \in todo : \/ snapshots[i].time < snapshots[j].time
                    \/ snapshots[i].time = snapshots[j].time /\ i <= j

NextSnapshot ==
  /\ now = Absent /\ todo # {}
  /\ now' = Earliest
  /\ todo' = todo \ {now'}
  /\ left' = Nodes(now')
  /\ counts' = [s \in NodeState |-> 0]
  /\ topState' = 0
  /\ topCount' = 0
  /\ UNCHANGED <<snapshots, result>>

-----------------------------------------------------------------------------
(* Faulty variant: of equally common states the first one counted wins.    *)
FirstIsTop(state, count) == count > topCount

IsTop(state, count) ==
  count > topCount \/ (count = topCount /\ state < topState)

(* One iteration of the loop of mostCommonState.                           *)
CountState(n) ==
  LET state == snapshots[now].nodes[n]
      count == counts[state] + 1
  IN  /\ n \in left
      /\ left' = left \ {n}
      /\ counts' = [counts EXCEPT ![state] = count]
      /\ IF IsTop(state, count)
         THEN topState' = state /\ topCount' = count
         ELSE UNCHANGED <<topState, topCount>>
      /\ UNCHANGED <<snapshots, todo, now, result>>

-----------------------------------------------------------------------------

Divergence == Cardinality(Nodes(now)) - topCount

(* Faulty variant: nodes that all lack the key count as converged.         *)
AnyNodes(i) == Nodes(i) # {}

allNodesExist(i) ==
  Nodes(i) # {} /\ \A n \in Nodes(i) : snapshots[i].nodes[n] # 0

Quorum == Cardinality(Nodes(now)) \div 2 + 1

Delta == IF todo = {} THEN 0 ELSE snapshots[Earliest].time - snapshots[now].time

(* Faulty variant: the time up to the next snapshot is charged to all.     *)
StaleForAll(n) == Delta

StaleTime(n) ==
  IF n \in Nodes(now) /\ snapshots[now].nodes[n] # topState THEN Delta ELSE 0

AddSnapshot(r) ==
  [converged |-> IF /\ Divergence = 0 /\ r.converged = Absent
                    /\ allNodesExist(now)
                 THEN snapshots[now].time ELSE r.converged,
   agreed |-> IF r.agreed = Absent /\ topCount >= Quorum
              THEN snapshots[now].time ELSE r.agreed,
   final |-> todo = {} /\ Divergence = 0 /\ allNodesExist(now),
   peak |-> IF Divergence > r.peak THEN Divergence ELSE r.peak,
   area |-> r.area + Divergence * Delta,
   stale |-> [n \in NodeIds |-> r.stale[n] + StaleTime(n)]]

FinishSnapshot ==
  /\ now # Absent /\ left = {}
  /\ result' = AddSnapshot(result)
  /\ now' = Absent
  /\ UNCHANGED <<snapshots, todo, left, counts, topState, topCount>>

Finished == now = Absent /\ todo = {} /\ UNCHANGED computeVars

ComputeNext ==
  NextSnapshot \/ (\E n \in NodeIds : CountState(n)) \/ FinishSnapshot
    \/ Finished

ComputeSpec == ComputeInit /\ [][ComputeNext]_computeVars

-----------------------------------------------------------------------------

Frequency(i, s) == Cardinality({n \in Nodes(i) : snapshots[i].nodes[n] = s})

(* The state taken as the common one is the least of the most frequent     *)
(* states, in whatever order Go hands out the nodes (metrics.go:141-160).  *)
ModeIsLeast ==
  now # Absent /\ left = {} /\ Nodes(now) # {} =>
    /\ topCount = Frequency(now, topState)
    /\ \A s \in NodeState :
         \/ Frequency(now, s) < topCount
         \/ Frequency(now, s) = topCount /\ s >= topState

Agree(i) ==
  /\ Nodes(i) # {}
  /\ \A n \in Nodes(i) : snapshots[i].nodes[n] # 0
  /\ \A n, p \in Nodes(i) : snapshots[i].nodes[n] = snapshots[i].nodes[p]

Done == now = Absent /\ todo = {}

TimesOf(P(_)) == {snapshots[i].time : i \in {j \in 1 .. Length : P(j)}}

First(T) == IF T = {} THEN Absent ELSE Min(T)

Majority(i) ==
  \E s \in NodeState : 2 * Frequency(i, s) > Cardinality(Nodes(i))

(* The convergence time is the first time all nodes have the key in one    *)
(* state, the agreement time the first time more than half of them have it *)
(* in one state or lack it, whatever the order of the snapshots            *)
(* (metrics.go:82-108).                                                    *)
FirstTimes ==
  Done => /\ result.converged = First(TimesOf(Agree))
          /\ result.agreed = First(TimesOf(Majority))

(* The area under the divergence is the sum of the nodes' stale times: no  *)
(* node is charged twice and none is left out (metrics.go:110-121).        *)
AreaIsStaleTime == result.area = FoldFunction(+, 0, result.stale)

=============================================================================
