--------------------------- MODULE BaselineProofs ---------------------------
(***************************************************************************)
(* Proofs about the baseline protocol for any cluster, any interval, any   *)
(* timeout and any drift that BaselineAssumption admits: death means       *)
(* silence, and without faults nobody is suspected.                        *)
(***************************************************************************)
EXTENDS Baseline, WellFoundedInduction, TLAPS

BaseType ==
  /\ peers \in [Nodes -> SUBSET Nodes]
  /\ phase \in [Nodes -> 0 .. HeartbeatInterval - 1]
  /\ quiet \in [Nodes -> [Nodes -> 0 .. Forever]]
  /\ doubt \in [Nodes -> [Nodes -> 0 .. TimeoutTicks + 1]]
  /\ status \in [Nodes -> [Nodes -> {"alive", "suspect", "dead"}]]
  /\ net \subseteq Envelope
  /\ crashes \in Nat /\ cuts \in Nat

(* A suspect has been silent for one timeout when the doubt began, and     *)
(* silence and doubt grow together.                                        *)
SilentInv ==
  \A n, p \in Nodes :
    /\ status[n][p] = "suspect" => quiet[n][p] >= TimeoutTicks + 1 + doubt[n][p]
    /\ status[n][p] = "dead" => quiet[n][p] = Forever

(* The ticks that a heartbeat which is being sent holds back.              *)
Delay(n, p) == IF <<n, p, "heartbeat">> \in net THEN HeartbeatInterval ELSE 0

(* A node that is not known to its peer has not sent its first heartbeat,  *)
(* or is sending it; of a peer that knows it a node has heard within two   *)
(* intervals, as the peer counts them.                                     *)
HeardInTime(n, p) ==
  IF n \in peers[p]
  THEN quiet[n][p] + lead[p] <=
         lead[n] + phase[p] + Drift + HeartbeatInterval + Delay(p, n)
  ELSE quiet[n][p] <= phase[n] + Delay(n, p)

Calm ==
  /\ crashed = {} /\ cut = {}
  /\ lead \in [Nodes -> 0 .. Drift]
  /\ \A m \in net : m[3] = "heartbeat" /\ m[2] \in peers[m[1]] /\ phase[m[1]] = 0
  /\ \A n \in Nodes : n \notin peers[n]
  /\ \A n, p \in Nodes : status[n][p] = "alive"
  /\ \A n \in Nodes : \A p \in peers[n] : HeardInTime(n, p)

CalmInv == crashes = 0 /\ cuts = 0 => Calm

-----------------------------------------------------------------------------
(* A set of natural numbers has a least element.                           *)
LEMMA MinIsLeast ==
  ASSUME NEW S \in SUBSET Nat, S # {}
  PROVE  Min(S) \in S /\ \A y \in S : Min(S) <= y
<1> DEFINE R == OpToRel(<, Nat)
<1>1. IsWellFoundedOn(R, Nat)
  BY NatLessThanWellFounded, Zenon
<1>2. R = {ss \in Nat \X Nat : ss[1] < ss[2]}
  BY Zenon DEF OpToRel
<1> HIDE DEF R
<1>3. \E x \in S : \A y \in S : ~(<<y, x>> \in R)
  <2>1. S \subseteq Nat /\ S # {}
    BY Zenon
  <2> QED BY <1>1, <2>1, WFMin, Zenon
<1>4. \E x \in S : \A y \in S : x <= y
  <2>1. PICK x \in S : \A y \in S : <<y, x>> \notin R
    BY <1>3, Zenon
  <2>2. ASSUME NEW y \in S PROVE x <= y
    <3>1. x \in Nat /\ y \in Nat /\ <<y, x>> \in Nat \X Nat
      BY Zenon
    <3>2. ~(y < x)
      BY <1>2, <2>1, <3>1, Zenon
    <3> QED BY <3>1, <3>2
  <2> QED BY <2>2, Zenon
<1> QED BY <1>4, Zenon DEF Min

(* The smaller of two.                                                     *)
LEMMA MinOfTwo ==
  ASSUME NEW a \in Int, NEW b \in Int
  PROVE  Min({a, b}) = IF a <= b THEN a ELSE b
BY DEF Min

(* What levelling does to leads that are not negative: it subtracts one    *)
(* number from all, and the leads stay so.                                 *)
LEMMA LevelledLeads ==
  ASSUME NEW ahead \in [Nodes -> Nat], NEW n \in Nodes
  PROVE  \E d \in Nat : \A m \in Nodes :
           d <= ahead[m] /\ Levelled(ahead, Nodes)[m] = ahead[m] - d
<1> DEFINE S == {ahead[m] : m \in Nodes}
<1>1. S \in SUBSET Nat /\ S # {}
  BY Zenon
<1>2. Min(S) \in S /\ \A y \in S : Min(S) <= y
  <2> HIDE DEF S
  <2> QED BY <1>1, MinIsLeast, Zenon
<1>3. S \cup (IF Nodes = {} THEN {0} ELSE {}) = S
  BY Zenon
<1>4. \A m \in Nodes : Levelled(ahead, Nodes)[m] = ahead[m] - Min(S)
  BY <1>3, Zenon DEF Levelled
<1> DEFINE d == Min(S)
<1>5. d \in Nat
  BY <1>1, <1>2, Zenon
<1> QED BY <1>2, <1>4, <1>5, Zenon

(* What a tick does to the counters and statuses of its node.              *)
LEMMA Ticked ==
  ASSUME BaseType, NEW n \in Nodes, Tick(n)
  PROVE  /\ \A m \in Nodes \ {n} :
              /\ phase'[m] = phase[m] /\ quiet'[m] = quiet[m]
              /\ doubt'[m] = doubt[m] /\ status'[m] = status[m]
         /\ \A p \in Nodes :
              /\ quiet'[n][p] = IF quiet[n][p] + 1 <= Forever
                                THEN quiet[n][p] + 1 ELSE Forever
              /\ doubt'[n][p] = IF status[n][p] # "suspect" THEN 0
                                ELSE IF doubt[n][p] + 1 <= TimeoutTicks + 1
                                     THEN doubt[n][p] + 1 ELSE TimeoutTicks + 1
              /\ status'[n][p] = Judged(n, p)
         /\ phase'[n] = IF phase[n] + 1 = HeartbeatInterval THEN 0
                                                            ELSE phase[n] + 1
         /\ phase' \in [Nodes -> 0 .. HeartbeatInterval - 1]
<1>0. TimeoutTicks \in Nat /\ Forever \in Nat
  BY BaselineAssumption DEF Forever
<1>1. \A m \in Nodes \ {n} :
        /\ phase'[m] = phase[m] /\ quiet'[m] = quiet[m]
        /\ doubt'[m] = doubt[m] /\ status'[m] = status[m]
  BY Zenon DEF Tick, BaseType
<1>2. ASSUME NEW p \in Nodes
      PROVE  quiet'[n][p] = IF quiet[n][p] + 1 <= Forever
                            THEN quiet[n][p] + 1 ELSE Forever
  <2>1. quiet'[n][p] = Min({quiet[n][p] + 1, Forever})
    BY Zenon DEF Tick, BaseType
  <2>2. quiet[n][p] + 1 \in Int
    BY DEF BaseType
  <2> QED BY <1>0, <2>1, <2>2, MinOfTwo
<1>3. ASSUME NEW p \in Nodes
      PROVE  doubt'[n][p] = IF status[n][p] # "suspect" THEN 0
                            ELSE IF doubt[n][p] + 1 <= TimeoutTicks + 1
                                 THEN doubt[n][p] + 1 ELSE TimeoutTicks + 1
  <2>1. doubt'[n][p] = IF status[n][p] = "suspect"
                       THEN Min({doubt[n][p] + 1, TimeoutTicks + 1}) ELSE 0
    BY Zenon DEF Tick, BaseType
  <2>2. doubt[n][p] + 1 \in Int /\ TimeoutTicks + 1 \in Int
    BY <1>0 DEF BaseType
  <2> QED BY <2>1, <2>2, MinOfTwo, Zenon
<1>4. \A p \in Nodes : status'[n][p] = Judged(n, p)
  <2>1. status' = [status EXCEPT ![n] = [p \in Nodes |-> Judged(n, p)]]
    BY Zenon DEF Tick
  <2> QED BY <2>1, Zenon DEF BaseType
<1>5. /\ phase'[n] = IF phase[n] + 1 = HeartbeatInterval THEN 0 ELSE phase[n] + 1
      /\ phase' \in [Nodes -> 0 .. HeartbeatInterval - 1]
  <2>1. phase[n] \in 0 .. HeartbeatInterval - 1 /\ HeartbeatInterval \in Nat \ {0}
    BY BaselineAssumption, Zenon DEF BaseType
  <2>2. (phase[n] + 1) % HeartbeatInterval =
          IF phase[n] + 1 = HeartbeatInterval THEN 0 ELSE phase[n] + 1
    BY <2>1
  <2>3. phase' = [phase EXCEPT ![n] = (phase[n] + 1) % HeartbeatInterval]
    BY Zenon DEF Tick
  <2> QED BY <2>1, <2>2, <2>3 DEF BaseType
<1> QED BY <1>1, <1>2, <1>3, <1>4, <1>5, Zenon

(* What a message does to its receiver's view of its sender.               *)
LEMMA Heard ==
  ASSUME BaseType, NEW a \in Nodes, NEW b \in Nodes, NEW k,
         OnMessage(<<a, b, k>>)
  PROVE  /\ \A n, p \in Nodes :
              /\ quiet'[n][p] = IF n = b /\ p = a THEN 0 ELSE quiet[n][p]
              /\ doubt'[n][p] = IF n = b /\ p = a THEN 0 ELSE doubt[n][p]
              /\ status'[n][p] = IF n = b /\ p = a THEN "alive" ELSE status[n][p]
         /\ \A n \in Nodes :
              peers'[n] = IF n = b THEN peers[n] \cup {a} ELSE peers[n]
         /\ quiet' \in [Nodes -> [Nodes -> 0 .. Forever]]
         /\ doubt' \in [Nodes -> [Nodes -> 0 .. TimeoutTicks + 1]]
         /\ status' \in [Nodes -> [Nodes -> {"alive", "suspect", "dead"}]]
         /\ peers' \in [Nodes -> SUBSET Nodes]
<1>0. 0 \in 0 .. Forever /\ 0 \in 0 .. TimeoutTicks + 1
  BY BaselineAssumption DEF Forever
<1>1. /\ quiet' = [quiet EXCEPT ![b] = [quiet[b] EXCEPT ![a] = 0]]
      /\ doubt' = [doubt EXCEPT ![b] = [doubt[b] EXCEPT ![a] = 0]]
      /\ status' = [status EXCEPT ![b] = [status[b] EXCEPT ![a] = "alive"]]
      /\ peers' = [peers EXCEPT ![b] = peers[b] \cup {a}]
  BY Zenon DEF OnMessage, Hear, Revive
<1>2. /\ [quiet[b] EXCEPT ![a] = 0] \in [Nodes -> 0 .. Forever]
      /\ [doubt[b] EXCEPT ![a] = 0] \in [Nodes -> 0 .. TimeoutTicks + 1]
      /\ [status[b] EXCEPT ![a] = "alive"]
            \in [Nodes -> {"alive", "suspect", "dead"}]
      /\ peers[b] \cup {a} \in SUBSET Nodes
  BY <1>0, Zenon DEF BaseType
<1>3. /\ quiet' \in [Nodes -> [Nodes -> 0 .. Forever]]
      /\ doubt' \in [Nodes -> [Nodes -> 0 .. TimeoutTicks + 1]]
      /\ status' \in [Nodes -> [Nodes -> {"alive", "suspect", "dead"}]]
      /\ peers' \in [Nodes -> SUBSET Nodes]
  BY <1>1, <1>2, Zenon DEF BaseType
<1>4. \A n, p \in Nodes :
        /\ quiet'[n][p] = IF n = b /\ p = a THEN 0 ELSE quiet[n][p]
        /\ doubt'[n][p] = IF n = b /\ p = a THEN 0 ELSE doubt[n][p]
        /\ status'[n][p] = IF n = b /\ p = a THEN "alive" ELSE status[n][p]
  BY <1>1, Zenon DEF BaseType
<1>5. \A n \in Nodes : peers'[n] = IF n = b THEN peers[n] \cup {a} ELSE peers[n]
  BY <1>1, Zenon DEF BaseType
<1> QED BY <1>3, <1>4, <1>5, Zenon

(* The parts of an envelope.                                               *)
LEMMA EnvelopeParts ==
  ASSUME BaseType, NEW m \in net
  PROVE  \E a, b \in Nodes, k \in {"heartbeat", "membership"} : m = <<a, b, k>>
BY DEF BaseType, Envelope

-----------------------------------------------------------------------------
(* Every step keeps the counters within their bounds.                      *)
LEMMA BaseStep == BaseType /\ [Next]_vars => BaseType'
<1> SUFFICES ASSUME BaseType, [Next]_vars PROVE BaseType'
  BY Zenon
<1> USE DEF view, faults
<1>1. ASSUME NEW n \in Nodes, Tick(n) PROVE BaseType'
  <2>0. TimeoutTicks \in Nat /\ Forever \in Nat
    BY BaselineAssumption DEF Forever
  <2>1. quiet' \in [Nodes -> [Nodes -> 0 .. Forever]]
    <3>1. ASSUME NEW p \in Nodes PROVE quiet'[n][p] \in 0 .. Forever
      <4>1. quiet[n][p] \in 0 .. Forever
        BY Zenon DEF BaseType
      <4>2. quiet'[n][p] = IF quiet[n][p] + 1 <= Forever
                           THEN quiet[n][p] + 1 ELSE Forever
        BY <1>1, Ticked, Zenon
      <4> QED BY <2>0, <4>1, <4>2
    <3>2. quiet' = [quiet EXCEPT ![n] = [p \in Nodes |-> quiet'[n][p]]]
      BY <1>1, Zenon DEF Tick, BaseType
    <3> QED BY <3>1, <3>2, Zenon DEF BaseType
  <2>2. doubt' \in [Nodes -> [Nodes -> 0 .. TimeoutTicks + 1]]
    <3>1. ASSUME NEW p \in Nodes PROVE doubt'[n][p] \in 0 .. TimeoutTicks + 1
      <4>1. doubt[n][p] \in 0 .. TimeoutTicks + 1
        BY Zenon DEF BaseType
      <4>2. doubt'[n][p] = IF status[n][p] # "suspect" THEN 0
                           ELSE IF doubt[n][p] + 1 <= TimeoutTicks + 1
                                THEN doubt[n][p] + 1 ELSE TimeoutTicks + 1
        BY <1>1, Ticked, Zenon
      <4> QED BY <2>0, <4>1, <4>2
    <3>2. doubt' = [doubt EXCEPT ![n] = [p \in Nodes |-> doubt'[n][p]]]
      BY <1>1, Zenon DEF Tick, BaseType
    <3> QED BY <3>1, <3>2, Zenon DEF BaseType
  <2>3. status' \in [Nodes -> [Nodes -> {"alive", "suspect", "dead"}]]
    <3>1. \A p \in Nodes : status'[n][p] \in {"alive", "suspect", "dead"}
      BY <1>1, Ticked DEF BaseType, Judged
    <3>2. status' = [status EXCEPT ![n] = [p \in Nodes |-> status'[n][p]]]
      BY <1>1, Zenon DEF Tick, BaseType
    <3> QED BY <3>1, <3>2, Zenon DEF BaseType
  <2>4. net' \subseteq Envelope
    BY <1>1 DEF Tick, BaseType, Heartbeats, makeMembershipEnvelope, Envelope
  <2>5. phase' \in [Nodes -> 0 .. HeartbeatInterval - 1]
    BY <1>1, Ticked, Zenon
  <2> QED BY <1>1, <2>1, <2>2, <2>3, <2>4, <2>5, Zenon DEF Tick, BaseType
<1>2. ASSUME NEW m \in net, OnMessage(m) PROVE BaseType'
  <2>1. PICK a \in Nodes, b \in Nodes, k \in {"heartbeat", "membership"} :
               m = <<a, b, k>>
    BY EnvelopeParts, Zenon
  <2>2. OnMessage(<<a, b, k>>)
    BY <1>2, <2>1, Zenon
  <2> QED BY <2>2, Heard, Zenon DEF OnMessage, BaseType
<1>3. ASSUME NEW m \in net, SendFails(m) PROVE BaseType'
  BY <1>3, Zenon DEF SendFails, BaseType
<1>4. ASSUME NEW n \in Nodes, Crash(n) \/ Recover(n) PROVE BaseType'
  BY <1>4 DEF Crash, Recover, BaseType
<1>5. ASSUME NEW n \in Nodes, NEW p \in Nodes, Cut(n, p) \/ Heal(n, p)
      PROVE  BaseType'
  BY <1>5 DEF Cut, Heal, BaseType
<1>6. CASE UNCHANGED vars
  BY <1>6, Zenon DEF vars, BaseType
<1> QED BY <1>1, <1>2, <1>3, <1>4, <1>5, <1>6, Zenon DEF Next

(* Every step keeps silence ahead of doubt.                                *)
LEMMA SilentStep == BaseType /\ SilentInv /\ [Next]_vars => SilentInv'
<1> SUFFICES ASSUME BaseType, SilentInv, [Next]_vars PROVE SilentInv'
  BY Zenon
<1> USE DEF view, faults
<1>0. TimeoutTicks \in Nat /\ Forever = 2 * TimeoutTicks + 2
  BY BaselineAssumption, Zenon DEF Forever
<1>1. ASSUME NEW n \in Nodes, Tick(n) PROVE SilentInv'
  <2> SUFFICES ASSUME NEW m \in Nodes, NEW p \in Nodes
               PROVE  /\ status'[m][p] = "suspect" =>
                           quiet'[m][p] >= TimeoutTicks + 1 + doubt'[m][p]
                      /\ status'[m][p] = "dead" => quiet'[m][p] = Forever
    BY Zenon DEF SilentInv
  <2>1. CASE m # n
    BY <1>1, <2>1, Ticked DEF SilentInv
  <2>2. CASE m = n
    <3> DEFINE q == quiet[n][p]
               d == doubt[n][p]
               t == status[n][p]
    <3>1. /\ q \in 0 .. Forever /\ d \in 0 .. TimeoutTicks + 1
          /\ t \in {"alive", "suspect", "dead"}
      BY Zenon DEF BaseType
    <3>2. /\ t = "suspect" => q >= TimeoutTicks + 1 + d
          /\ t = "dead" => q = Forever
      BY Zenon DEF SilentInv
    <3>3. /\ quiet'[n][p] = IF q + 1 <= Forever THEN q + 1 ELSE Forever
          /\ doubt'[n][p] = IF t # "suspect" THEN 0
                            ELSE IF d + 1 <= TimeoutTicks + 1 THEN d + 1
                                                              ELSE TimeoutTicks + 1
          /\ status'[n][p] = Judged(n, p)
      BY <1>1, Ticked, Zenon
    <3>4. \/ status'[n][p] = t
          \/ t = "alive" /\ status'[n][p] = "suspect" /\ quiet'[n][p] > TimeoutTicks
          \/ t = "suspect" /\ status'[n][p] = "dead" /\ d + 1 > TimeoutTicks
      BY <3>3, Zenon DEF Judged, SilentTooLong, DoubtfulTooLong
    <3> HIDE DEF q, d, t
    <3> QED BY <1>0, <2>2, <3>1, <3>2, <3>3, <3>4
  <2> QED BY <2>1, <2>2, Zenon
<1>2. ASSUME NEW m \in net, OnMessage(m) PROVE SilentInv'
  <2>1. PICK a \in Nodes, b \in Nodes, k \in {"heartbeat", "membership"} :
               m = <<a, b, k>>
    BY EnvelopeParts, Zenon
  <2>2. OnMessage(<<a, b, k>>)
    BY <1>2, <2>1, Zenon
  <2>3. \A n, p \in Nodes :
          /\ quiet'[n][p] = IF n = b /\ p = a THEN 0 ELSE quiet[n][p]
          /\ doubt'[n][p] = IF n = b /\ p = a THEN 0 ELSE doubt[n][p]
          /\ status'[n][p] = IF n = b /\ p = a THEN "alive" ELSE status[n][p]
    BY <2>2, Heard
  <2> QED BY <2>3 DEF SilentInv
<1>3. CASE UNCHANGED <<quiet, doubt, status>>
  BY <1>3, Zenon DEF SilentInv
<1>4. ASSUME NEW m \in net, SendFails(m) PROVE SilentInv'
  BY <1>3, <1>4, Zenon DEF SendFails
<1>5. ASSUME NEW n \in Nodes, Crash(n) \/ Recover(n) PROVE SilentInv'
  BY <1>3, <1>5, Zenon DEF Crash, Recover
<1>6. ASSUME NEW n \in Nodes, NEW p \in Nodes, Cut(n, p) \/ Heal(n, p)
      PROVE  SilentInv'
  BY <1>3, <1>6, Zenon DEF Cut, Heal
<1>7. CASE UNCHANGED vars
  BY <1>3, <1>7, Zenon DEF vars
<1> QED BY <1>1, <1>2, <1>4, <1>5, <1>6, <1>7, Zenon DEF Next

-----------------------------------------------------------------------------
(* The leads after a tick while every node runs: the node's is one more,   *)
(* and all are counted from a new slowest.                                 *)
LEMMA LeadsTicked ==
  ASSUME NEW n \in Nodes, Tick(n), crashed = {}, lead \in [Nodes -> 0 .. Drift]
  PROVE  /\ lead' \in [Nodes -> 0 .. Drift]
         /\ \A m, p \in Nodes :
              lead'[m] - lead'[p] =
                (lead[m] + (IF m = n THEN 1 ELSE 0))
                  - (lead[p] + (IF p = n THEN 1 ELSE 0))
<1> DEFINE ahead == [lead EXCEPT ![n] = @ + 1]
<1>0. Drift \in Nat /\ lead[n] < Drift
  BY BaselineAssumption, Zenon DEF Tick
<1>1. /\ ahead \in [Nodes -> Nat]
      /\ \A m \in Nodes : /\ ahead[m] = lead[m] + (IF m = n THEN 1 ELSE 0)
                          /\ ahead[m] <= Drift
  BY <1>0
<1>2. lead' = Levelled(ahead, Nodes)
  BY Zenon DEF Tick, Running
<1> HIDE DEF ahead
<1>3. PICK d \in Nat : \A m \in Nodes :
             d <= ahead[m] /\ Levelled(ahead, Nodes)[m] = ahead[m] - d
  BY <1>1, LevelledLeads, Zenon
<1>4. \A m \in Nodes : lead'[m] = ahead[m] - d /\ lead'[m] \in 0 .. Drift
  BY <1>0, <1>1, <1>2, <1>3
<1>5. lead' \in [Nodes -> 0 .. Drift]
  <2>1. DOMAIN lead' = Nodes /\ lead' = [m \in DOMAIN lead' |-> lead'[m]]
    BY <1>2, Zenon DEF Levelled
  <2> QED BY <1>4, <2>1, Zenon
<1>6. \A m \in Nodes : lead[m] \in Int /\ ahead[m] \in Int
  BY <1>0, <1>1
<1> QED BY <1>1, <1>4, <1>5, <1>6

(* A tick of a calm cluster finds no peer silent for too long.             *)
LEMMA NobodyTooSilent ==
  ASSUME BaseType, Calm, NEW n \in Nodes, Tick(n), NEW p \in peers[n]
  PROVE  quiet'[n][p] <= quiet[n][p] + 1 /\ ~SilentTooLong(n, p)
<1>0. /\ HeartbeatInterval \in Nat \ {0} /\ TimeoutTicks \in Nat /\ Drift \in Nat
      /\ 2 * (HeartbeatInterval + Drift) <= TimeoutTicks
      /\ Forever \in Nat
  BY BaselineAssumption DEF Forever
<1>1. p \in Nodes /\ HeardInTime(n, p)
  BY Zenon DEF BaseType, Calm
<1>2. /\ quiet[n][p] \in Nat /\ phase[n] \in 0 .. HeartbeatInterval - 1
      /\ phase[p] \in 0 .. HeartbeatInterval - 1
      /\ lead[p] \in 0 .. Drift /\ lead[n] \in 0 .. Drift /\ lead[n] < Drift
  BY <1>0, <1>1 DEF BaseType, Calm, Tick
<1>3. quiet'[n][p] <= quiet[n][p] + 1 /\ quiet'[n][p] \in Int
  BY <1>0, <1>1, <1>2, Ticked
<1>4. Delay(n, p) = 0
  BY Zenon DEF Delay, Tick
<1>5. phase[p] + Delay(p, n) <= HeartbeatInterval /\ Delay(p, n) \in Nat
  <2>1. CASE <<p, n, "heartbeat">> \in net
    <3>1. phase[p] = 0
      BY <2>1, Zenon DEF Calm
    <3> QED BY <1>0, <2>1, <3>1 DEF Delay
  <2>2. CASE <<p, n, "heartbeat">> \notin net
    BY <1>0, <1>2, <2>2 DEF Delay
  <2> QED BY <2>1, <2>2, Zenon
<1>6. quiet[n][p] + 1 <= TimeoutTicks
  <2>1. CASE n \in peers[p]
    BY <1>0, <1>1, <1>2, <1>5, <2>1 DEF HeardInTime
  <2>2. CASE n \notin peers[p]
    BY <1>0, <1>1, <1>2, <1>4, <2>2 DEF HeardInTime
  <2> QED BY <2>1, <2>2, Zenon
<1> QED BY <1>0, <1>2, <1>3, <1>6 DEF SilentTooLong

(* What a tick of a calm cluster sends: a heartbeat to each peer at the    *)
(* end of an interval, and nothing else.                                   *)
LEMMA CalmSends ==
  ASSUME BaseType, Calm, NEW n \in Nodes, Tick(n)
  PROVE  /\ \A m, p \in Nodes : status'[m][p] = "alive"
         /\ net' = net \cup (IF phase'[n] = 0
                             THEN {<<n, p, "heartbeat">> : p \in peers[n]} ELSE {})
         /\ \A m \in net : m[1] # n
         /\ \A m \in Nodes \ {n}, p \in Nodes : Delay(m, p)' = Delay(m, p)
         /\ \A p \in Nodes : Delay(n, p) = 0
         /\ \A p \in peers[n] :
              Delay(n, p)' = IF phase'[n] = 0 THEN HeartbeatInterval ELSE 0
<1>1. \A p \in Nodes : status'[n][p] = Judged(n, p) /\ status[n][p] = "alive"
  BY Ticked, Zenon DEF Calm
<1>2. \A p \in Nodes : status'[n][p] = "alive"
  <2> SUFFICES ASSUME NEW p \in Nodes PROVE Judged(n, p) = "alive"
    BY <1>1, Zenon
  <2>1. status[n][p] = "alive" /\ (p \in peers[n] => ~SilentTooLong(n, p))
    BY <1>1, NobodyTooSilent, Zenon
  <2>2. ~DoubtfulTooLong(n, p)
    BY <2>1, Zenon DEF DoubtfulTooLong
  <2> QED BY <2>1, <2>2, Zenon DEF Judged
<1>3. \A m, p \in Nodes : status'[m][p] = "alive"
  BY <1>2, Ticked DEF Calm
<1>4. makeMembershipEnvelope(n) = {}
  BY <1>2, Zenon DEF makeMembershipEnvelope, BaseType
<1>5. {q \in peers[n] : status[n][q] # "dead"} = peers[n]
  BY <1>1, Zenon DEF BaseType
<1>6. Heartbeats(n) = IF phase'[n] = 0
                      THEN {<<n, p, "heartbeat">> : p \in peers[n]} ELSE {}
  BY <1>5, Zenon DEF Heartbeats
<1>7. net' = net \cup (IF phase'[n] = 0
                       THEN {<<n, p, "heartbeat">> : p \in peers[n]} ELSE {})
  BY <1>4, <1>6, Zenon DEF Tick
<1>8. \A m \in net : m[1] # n
  BY Zenon DEF Tick
<1>9. \A m \in Nodes, p \in Nodes :
        m # n => (<<m, p, "heartbeat">> \in net' <=> <<m, p, "heartbeat">> \in net)
  BY <1>7, Zenon
<1>10. \A p \in Nodes : <<n, p, "heartbeat">> \notin net
  BY <1>8, Zenon
<1>11. \A p \in peers[n] : <<n, p, "heartbeat">> \in net' <=> phase'[n] = 0
  BY <1>7, <1>10, Zenon DEF BaseType
<1> QED BY <1>3, <1>7, <1>8, <1>9, <1>10, <1>11, Zenon DEF Delay

(* A tick of a calm cluster keeps every peer heard in time.                *)
LEMMA CalmTick ==
  ASSUME BaseType, Calm, NEW t \in Nodes, Tick(t)
  PROVE  Calm'
<1>0. HeartbeatInterval \in Nat \ {0} /\ Drift \in Nat /\ Forever \in Nat
  BY BaselineAssumption DEF Forever
<1>1. peers' = peers /\ crashed' = crashed /\ cut' = cut
  BY Zenon DEF Tick, faults
<1>2. /\ lead' \in [Nodes -> 0 .. Drift]
      /\ \A m, p \in Nodes : lead'[m] - lead'[p] =
           (lead[m] + (IF m = t THEN 1 ELSE 0)) - (lead[p] + (IF p = t THEN 1 ELSE 0))
  BY LeadsTicked, Zenon DEF Calm
<1>3. \A m \in net' :
        m[3] = "heartbeat" /\ m[2] \in peers'[m[1]] /\ phase'[m[1]] = 0
  <2> SUFFICES ASSUME NEW m \in net'
               PROVE  m[3] = "heartbeat" /\ m[2] \in peers[m[1]] /\ phase'[m[1]] = 0
    BY <1>1, Zenon
  <2>1. CASE m \in net
    <3>1. m[1] \in Nodes \ {t}
      BY <2>1, CalmSends, Zenon DEF BaseType, Envelope
    <3> QED BY <2>1, <3>1, Ticked DEF Calm
  <2>2. CASE m \notin net
    <3>1. phase'[t] = 0 /\ \E p \in peers[t] : m = <<t, p, "heartbeat">>
      BY <2>2, CalmSends
    <3> QED BY <3>1
  <2> QED BY <2>1, <2>2, Zenon
<1>4. \A n \in Nodes : n \notin peers'[n]
  BY <1>1, Zenon DEF Calm
<1>5. \A n, p \in Nodes : status'[n][p] = "alive"
  BY CalmSends, Zenon
<1>6. ASSUME NEW n \in Nodes, NEW p \in peers[n] PROVE HeardInTime(n, p)'
  <2>1. p \in Nodes /\ HeardInTime(n, p) /\ n # p
    BY Zenon DEF BaseType, Calm
  <2>2. /\ quiet[n][p] \in Nat /\ phase[n] \in Nat /\ phase[p] \in Nat
        /\ lead[n] \in Int /\ lead[p] \in Int
        /\ quiet'[n][p] \in Int /\ phase'[n] \in Nat /\ phase'[p] \in Nat
        /\ lead'[n] \in Int /\ lead'[p] \in Int
    <3>1. quiet'[n][p] \in Int
      BY <1>0, <2>1, Ticked DEF BaseType
    <3>2. phase'[n] \in Nat /\ phase'[p] \in Nat
      BY <1>0, <2>1, Ticked
    <3>3. lead'[n] \in Int /\ lead'[p] \in Int
      BY <1>0, <1>2, <2>1
    <3> QED BY <1>0, <2>1, <3>1, <3>2, <3>3 DEF BaseType, Calm
  <2>3. /\ Delay(n, p) \in Nat /\ Delay(p, n) \in Nat
        /\ Delay(n, p)' \in Nat /\ Delay(p, n)' \in Nat
    BY <1>0, Zenon DEF Delay
  <2>4. lead'[n] - lead'[p] =
          (lead[n] + (IF n = t THEN 1 ELSE 0)) - (lead[p] + (IF p = t THEN 1 ELSE 0))
    BY <1>2, <2>1, Zenon
  <2>5. CASE n = t
    <3>1. quiet'[n][p] <= quiet[n][p] + 1
      BY <2>5, NobodyTooSilent, Zenon
    <3>2. phase'[p] = phase[p] /\ Delay(p, n)' = Delay(p, n)
      BY <2>1, <2>5, Ticked, CalmSends
    <3>3. Delay(n, p) = 0 /\ phase[n] + 1 = phase'[n] + Delay(n, p)'
      <4>1. Delay(n, p) = 0 /\ Delay(n, p)' = IF phase'[n] = 0 THEN HeartbeatInterval ELSE 0
        BY <2>1, <2>5, CalmSends, Zenon
      <4>2. phase'[n] = IF phase[n] + 1 = HeartbeatInterval THEN 0 ELSE phase[n] + 1
        BY <2>5, Ticked, Zenon
      <4> QED BY <1>0, <2>2, <4>1, <4>2
    <3>4. CASE n \in peers[p]
      <4>1. quiet[n][p] + lead[p] <=
              lead[n] + phase[p] + Drift + HeartbeatInterval + Delay(p, n)
        BY <2>1, <3>4, Zenon DEF HeardInTime
      <4>2. quiet'[n][p] + lead'[p] <=
              lead'[n] + phase'[p] + Drift + HeartbeatInterval + Delay(p, n)'
        BY <1>0, <2>1, <2>2, <2>3, <2>4, <2>5, <3>1, <3>2, <4>1
      <4> QED BY <1>1, <3>4, <4>2, Zenon DEF HeardInTime
    <3>5. CASE n \notin peers[p]
      <4>1. quiet[n][p] <= phase[n] + Delay(n, p)
        BY <2>1, <3>5, Zenon DEF HeardInTime
      <4>2. quiet'[n][p] <= phase'[n] + Delay(n, p)'
        BY <2>2, <2>3, <3>1, <3>3, <4>1
      <4> QED BY <1>1, <3>5, <4>2, Zenon DEF HeardInTime
    <3> QED BY <3>4, <3>5, Zenon
  <2>6. CASE n # t
    <3>1. quiet'[n][p] = quiet[n][p] /\ phase'[n] = phase[n]
      BY <2>1, <2>6, Ticked, Zenon
    <3>2. Delay(n, p)' = Delay(n, p)
      BY <2>1, <2>6, CalmSends
    <3>3. CASE n \notin peers[p]
      BY <1>1, <2>1, <3>1, <3>2, <3>3, Zenon DEF HeardInTime
    <3>4. CASE n \in peers[p]
      <4>1. quiet[n][p] + lead[p] <=
              lead[n] + phase[p] + Drift + HeartbeatInterval + Delay(p, n)
        BY <2>1, <3>4, Zenon DEF HeardInTime
      <4>2. phase'[p] + Delay(p, n)' =
              phase[p] + Delay(p, n) + (IF p = t THEN 1 ELSE 0)
        <5>1. CASE p = t
          <6>1. /\ Delay(p, n) = 0
                /\ Delay(p, n)' = IF phase'[p] = 0 THEN HeartbeatInterval ELSE 0
            BY <3>4, <5>1, CalmSends, Zenon
          <6>2. phase'[p] = IF phase[p] + 1 = HeartbeatInterval THEN 0
                                                              ELSE phase[p] + 1
            BY <5>1, Ticked, Zenon
          <6> QED BY <1>0, <2>2, <5>1, <6>1, <6>2
        <5>2. CASE p # t
          <6>1. phase'[p] = phase[p] /\ Delay(p, n)' = Delay(p, n)
            BY <2>1, <5>2, Ticked, CalmSends
          <6> QED BY <2>2, <2>3, <5>2, <6>1
        <5> QED BY <5>1, <5>2, Zenon
      <4>3. quiet'[n][p] + lead'[p] <=
              lead'[n] + phase'[p] + Drift + HeartbeatInterval + Delay(p, n)'
        BY <1>0, <2>2, <2>3, <2>4, <2>6, <3>1, <4>1, <4>2
      <4> QED BY <1>1, <3>4, <4>3, Zenon DEF HeardInTime
    <3> QED BY <3>3, <3>4, Zenon
  <2> QED BY <2>5, <2>6, Zenon
<1>7. \A n \in Nodes : \A p \in peers'[n] : HeardInTime(n, p)'
  BY <1>1, <1>6, Zenon
<1> QED BY <1>1, <1>2, <1>3, <1>4, <1>5, <1>7, Zenon DEF Calm

(* A heartbeat that arrives makes its ends known to each other.            *)
LEMMA CalmMessage ==
  ASSUME BaseType, Calm, NEW m \in net, OnMessage(m)
  PROVE  Calm'
<1>0. HeartbeatInterval \in Nat \ {0} /\ Drift \in Nat /\ Forever \in Nat
  BY BaselineAssumption DEF Forever
<1>1. PICK a \in Nodes, b \in Nodes, k \in {"heartbeat", "membership"} :
        m = <<a, b, k>>
  BY EnvelopeParts, Zenon
<1>2. /\ k = "heartbeat" /\ b \in peers[a] /\ phase[a] = 0 /\ a # b
      /\ <<a, b, "heartbeat">> \in net
  <2>1. m[1] = a /\ m[2] = b /\ m[3] = k
    BY <1>1, Zenon
  <2>2. k = "heartbeat" /\ b \in peers[a] /\ phase[a] = 0
    BY <2>1, Zenon DEF Calm
  <2> QED BY <1>1, <2>2, Zenon DEF Calm
<1>3. OnMessage(<<a, b, "heartbeat">>)
  BY <1>1, <1>2, Zenon
<1>4. /\ net' = net \ {<<a, b, "heartbeat">>}
      /\ phase' = phase /\ lead' = lead /\ crashed' = crashed /\ cut' = cut
      /\ \A n \in Nodes : peers'[n] = IF n = b THEN peers[n] \cup {a} ELSE peers[n]
  BY <1>3, ZenonT(60) DEF OnMessage, BaseType, faults
<1>5. \A n, p \in Nodes :
        /\ quiet'[n][p] = IF n = b /\ p = a THEN 0 ELSE quiet[n][p]
        /\ status'[n][p] = IF n = b /\ p = a THEN "alive" ELSE status[n][p]
  BY <1>3, Heard
<1>6. \A e \in net' :
        e[3] = "heartbeat" /\ e[2] \in peers'[e[1]] /\ phase'[e[1]] = 0
  <2> SUFFICES ASSUME NEW e \in net'
               PROVE  e[3] = "heartbeat" /\ e[2] \in peers'[e[1]] /\ phase[e[1]] = 0
    BY <1>4, Zenon
  <2>1. e \in net /\ e[1] \in Nodes
    BY <1>4, Zenon DEF BaseType, Envelope
  <2> QED BY <1>4, <2>1, Zenon DEF Calm
<1>7. \A n \in Nodes : n \notin peers'[n]
  <2>1. \A n \in Nodes : n \notin peers[n]
    BY Zenon DEF Calm
  <2> QED BY <1>2, <1>4, <2>1, Zenon
<1>8. \A n, p \in Nodes : status'[n][p] = "alive"
  BY <1>5 DEF Calm
<1>9. ASSUME NEW n \in Nodes, NEW p \in peers'[n] PROVE HeardInTime(n, p)'
  <2>1. p \in Nodes
    BY <1>4, Zenon DEF BaseType
  <2>2. /\ quiet[n][p] \in Nat /\ phase[n] \in Nat /\ phase[p] \in Nat
        /\ lead[n] \in 0 .. Drift /\ lead[p] \in 0 .. Drift
    BY <1>0, <2>1 DEF BaseType, Calm
  <2>3. /\ Delay(n, p) \in Nat /\ Delay(p, n) \in Nat
        /\ Delay(n, p)' \in Nat /\ Delay(p, n)' \in Nat
        /\ Delay(a, b) = HeartbeatInterval
    BY <1>0, <1>2, Zenon DEF Delay
  <2>4. \A x, y \in Nodes : <<x, y>> # <<a, b>> => Delay(x, y)' = Delay(x, y)
    BY <1>4, Zenon DEF Delay
  <2>5. CASE n = b /\ p = a
    <3>1. n \in peers'[p] /\ quiet'[n][p] = 0 /\ lead' = lead /\ phase' = phase
      BY <1>2, <1>4, <1>5, <2>1, <2>5, Zenon
    <3>2. quiet'[n][p] + lead'[p] <=
            lead'[n] + phase'[p] + Drift + HeartbeatInterval + Delay(p, n)'
      BY <1>0, <2>2, <2>3, <3>1
    <3> QED BY <3>1, <3>2, Zenon DEF HeardInTime
  <2>6. CASE n = a /\ p = b
    <3>1. /\ n \in peers'[p] /\ quiet'[n][p] = quiet[n][p] /\ lead' = lead
          /\ phase' = phase /\ Delay(p, n)' = Delay(p, n)
      BY <1>2, <1>4, <1>5, <2>1, <2>4, <2>6, Zenon
    <3>2. HeardInTime(n, p)
      BY <1>2, <2>6, Zenon DEF Calm
    <3>3. quiet[n][p] + lead[p] <=
            lead[n] + phase[p] + Drift + HeartbeatInterval + Delay(p, n)
      <4>1. CASE n \in peers[p]
        BY <3>2, <4>1, Zenon DEF HeardInTime
      <4>2. CASE n \notin peers[p]
        <5>1. quiet[n][p] <= HeartbeatInterval
          BY <1>0, <1>2, <2>3, <2>6, <3>2, <4>2 DEF HeardInTime
        <5> QED BY <1>0, <2>2, <2>3, <5>1
      <4> QED BY <4>1, <4>2, Zenon
    <3> QED BY <3>1, <3>3, Zenon DEF HeardInTime
  <2>7. CASE ~(n = b /\ p = a) /\ ~(n = a /\ p = b)
    <3>1. p \in peers[n] /\ (n \in peers'[p] <=> n \in peers[p])
      BY <1>4, <2>1, <2>7, Zenon
    <3>2. HeardInTime(n, p)
      BY <3>1, Zenon DEF Calm
    <3>3. quiet'[n][p] = quiet[n][p]
      BY <1>5, <2>1, <2>7, Zenon
    <3>4. Delay(n, p)' = Delay(n, p) /\ Delay(p, n)' = Delay(p, n)
      BY <2>1, <2>4, <2>7, Zenon
    <3> QED BY <1>4, <3>1, <3>2, <3>3, <3>4, Zenon DEF HeardInTime
  <2> QED BY <2>5, <2>6, <2>7, Zenon
<1> QED BY <1>4, <1>6, <1>7, <1>8, <1>9, Zenon DEF Calm

(* A cluster stays calm until its first fault.                             *)
LEMMA CalmStep == BaseType /\ CalmInv /\ [Next]_vars => CalmInv'
<1> SUFFICES ASSUME BaseType, CalmInv, [Next]_vars, crashes' = 0, cuts' = 0
             PROVE  Calm'
  BY Zenon DEF CalmInv
<1> USE DEF view, faults
<1>0. crashes \in Nat /\ cuts \in Nat
  BY Zenon DEF BaseType
<1>1. ASSUME NEW n \in Nodes, Tick(n) PROVE Calm'
  <2>1. crashes = 0 /\ cuts = 0
    BY <1>1, Zenon DEF Tick
  <2> QED BY <1>1, <2>1, CalmTick, Zenon DEF CalmInv
<1>2. ASSUME NEW m \in net, OnMessage(m) PROVE Calm'
  <2>1. crashes = 0 /\ cuts = 0
    BY <1>2, Zenon DEF OnMessage
  <2> QED BY <1>2, <2>1, CalmMessage, Zenon DEF CalmInv
<1>3. ASSUME NEW m \in net, SendFails(m) PROVE FALSE
  <2>1. Calm
    BY <1>3, Zenon DEF SendFails, CalmInv
  <2> QED BY <1>3, <2>1, Zenon DEF SendFails, Blocked, Calm
<1>4. ASSUME NEW n \in Nodes, Crash(n) PROVE FALSE
  BY <1>0, <1>4 DEF Crash
<1>5. ASSUME NEW n \in Nodes, Recover(n) PROVE FALSE
  <2>1. Calm
    BY <1>5, Zenon DEF Recover, CalmInv
  <2> QED BY <1>5, <2>1, Zenon DEF Recover, Calm
<1>6. ASSUME NEW n \in Nodes, NEW p \in Nodes, Cut(n, p) PROVE FALSE
  BY <1>0, <1>6 DEF Cut
<1>7. ASSUME NEW n \in Nodes, NEW p \in Nodes, Heal(n, p) PROVE FALSE
  <2>1. Calm
    BY <1>7, Zenon DEF Heal, CalmInv
  <2> QED BY <1>7, <2>1, Zenon DEF Heal, Blocked, Calm
<1>8. CASE UNCHANGED vars
  <2>1. Calm /\ UNCHANGED vars
    BY <1>8, Zenon DEF vars, CalmInv
  <2> QED BY <2>1, Zenon DEF vars, Calm, HeardInTime, Delay
<1> QED
  BY <1>1, <1>2, <1>3, <1>4, <1>5, <1>6, <1>7, <1>8, Zenon DEF Next

LEMMA BaselineInitially == Init => BaseType /\ SilentInv /\ CalmInv
<1> SUFFICES ASSUME Init PROVE BaseType /\ SilentInv /\ CalmInv
  BY Zenon
<1>0. /\ HeartbeatInterval \in Nat \ {0} /\ TimeoutTicks \in Nat /\ Drift \in Nat
      /\ Forever \in Nat /\ Known \in [Nodes -> SUBSET Nodes]
      /\ \A n \in Nodes : n \notin Known[n]
  BY BaselineAssumption DEF Forever
<1>1. BaseType
  BY <1>0 DEF Init, BaseType
<1>2. SilentInv
  BY Zenon DEF Init, SilentInv
<1>3. \A n \in Nodes : \A p \in peers[n] : HeardInTime(n, p)
  <2> SUFFICES ASSUME NEW n \in Nodes, NEW p \in peers[n] PROVE HeardInTime(n, p)
    BY Zenon
  <2>1. p \in Nodes
    BY <1>1, Zenon DEF BaseType
  <2>2. /\ quiet[n][p] = 0 /\ lead[n] = 0 /\ lead[p] = 0
        /\ phase[n] = 0 /\ phase[p] = 0
    BY <2>1, Zenon DEF Init
  <2>3. Delay(n, p) \in Nat /\ Delay(p, n) \in Nat
    BY <1>0, Zenon DEF Delay
  <2> QED BY <1>0, <2>2, <2>3 DEF HeardInTime
<1>4. Calm
  BY <1>0, <1>3 DEF Init, Calm
<1> QED BY <1>1, <1>2, <1>4, Zenon DEF CalmInv

(* Tick (baseline.go:124-150) declares a peer dead only after both         *)
(* timeouts in a row without one message from it, whatever crashes and     *)
(* partitions come in between.                                             *)
THEOREM TheDeadAreSilent == Spec => []DeadMeansSilent
<1>1. BaseType /\ SilentInv => DeadMeansSilent
  BY Zenon DEF BaseType, SilentInv, DeadMeansSilent
<1> QED BY <1>1, BaselineInitially, BaseStep, SilentStep, PTL DEF Spec

(* As long as no node has crashed and no pair been partitioned, no peer is *)
(* suspected, in a cluster of any size and shape whose tickers drift by no *)
(* more than the timeout leaves room for (baseline.go:89-153).             *)
THEOREM CalmNodesAreTrusted == Spec => []NoFalseSuspicion
<1>1. BaseType /\ CalmInv => NoFalseSuspicion
  BY Zenon DEF BaseType, CalmInv, Calm, NoFalseSuspicion
<1> QED BY <1>1, BaselineInitially, BaseStep, CalmStep, PTL DEF Spec

=============================================================================
