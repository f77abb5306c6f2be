------------------------- MODULE ConflictResolution -------------------------
(***************************************************************************)
(* The values of the gossip key-value store and the functions that decide  *)
(* between two versions of a key: internal/node/protocol/gossip/types.go,  *)
(* conflict_resolution.go and the comparison half of propagation.go.       *)
(*                                                                         *)
(* A node identifier is a string in the code and only its order and its    *)
(* identity matter, so nodes are positive naturals and 0 is the empty      *)
(* string.  A vector clock is a Go map in which a missing entry reads as   *)
(* 0, hence a total function from nodes to naturals.                       *)
(***************************************************************************)
EXTENDS Integers

CONSTANT Nodes

ASSUME NodesAssumption == Nodes \subseteq Nat \ {0}

VectorClock == [Nodes -> Nat]

ZeroClock == [n \in Nodes |-> 0]

Value == [data : Nat, version : Nat, origin : Nodes \cup {0}, ts : Nat,
          vc : VectorClock]

(* What a Go map lookup returns for a key that is not in the store.        *)
NoValue == [data |-> 0, version |-> 0, origin |-> 0, ts |-> 0,
            vc |-> ZeroClock]

DigestEntry == [version : Nat, origin : Nodes \cup {0}, ts : Nat,
                vc : VectorClock]

valueToDigestEntry(v) ==
  [version |-> v.version, origin |-> v.origin, ts |-> v.ts, vc |-> v.vc]

NoEntry == valueToDigestEntry(NoValue)

-----------------------------------------------------------------------------

vectorClockCompare(vc1, vc2) ==
  LET vc1Greater == \E n \in Nodes : vc1[n] > vc2[n]
      vc2Greater == \E n \in Nodes : vc2[n] > vc1[n]
  IN  IF vc1Greater /\ ~vc2Greater THEN 1
      ELSE IF vc2Greater /\ ~vc1Greater THEN -1
      ELSE 0

(* The tie-break shared by the merge and the digest comparison:            *)
(* timestamp, then origin, then version.                                   *)
TieBreakNewer(local, incoming) ==
  \/ incoming.ts > local.ts
  \/ /\ incoming.ts = local.ts
     /\ \/ incoming.origin > local.origin
        \/ /\ incoming.origin = local.origin
           /\ incoming.version > local.version

(* Faulty variant: of two concurrent values the older timestamp wins.      *)
OldestConcurrentNewer(local, incoming) ==
  LET vcCmp == vectorClockCompare(local.vc, incoming.vc)
  IN  vcCmp < 0 \/ (vcCmp = 0 /\ TieBreakNewer(incoming, local))

isIncomingNewer(local, incoming) ==
  LET vcCmp == vectorClockCompare(local.vc, incoming.vc)
  IN  vcCmp < 0 \/ (vcCmp = 0 /\ TieBreakNewer(local, incoming))

Sign(a, b) == IF a > b THEN 1 ELSE IF a < b THEN -1 ELSE 0

(* Faulty variant: concurrent values are told apart by version alone.      *)
CompareVersionsOnly(local, remote) ==
  LET vcCmp == vectorClockCompare(local.vc, remote.vc)
  IN  IF vcCmp # 0 THEN vcCmp ELSE Sign(local.version, remote.version)

compareValueToDigest(local, remote) ==
  LET vcCmp == vectorClockCompare(local.vc, remote.vc)
  IN  IF vcCmp # 0 THEN vcCmp
      ELSE IF local.ts # remote.ts THEN Sign(local.ts, remote.ts)
      ELSE IF local.origin # remote.origin
           THEN Sign(local.origin, remote.origin)
      ELSE Sign(local.version, remote.version)

(* The clock stored with an accepted value: the entry-wise maximum.        *)
mergedVC(local, incoming) ==
  [n \in Nodes |-> IF incoming[n] > local[n] THEN incoming[n] ELSE local[n]]

=============================================================================
