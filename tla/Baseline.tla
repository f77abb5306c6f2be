------------------------------ MODULE Baseline ------------------------------
(***************************************************************************)
(* The baseline membership protocol (internal/node/protocol/baseline) run  *)
(* by a cluster of reactors: heartbeats, suspicion after TimeoutTicks of   *)
(* silence, death after as many more, and revival by any message.          *)
(*                                                                         *)
(* The code's counters only ever meet in differences with its own tick, so *)
(* the model keeps those differences, cut off where no comparison can tell *)
(* them apart any more; no bound on the length of a behaviour is needed.   *)
(* A send is a blocking call made by the reactor, so a node does not tick  *)
(* again before its messages have arrived or failed.                       *)
(***************************************************************************)
EXTENDS Integers, FiniteSetsExt

CONSTANTS
  Nodes,
  Known,              \* Known[n]: the peers n starts with
  HeartbeatInterval,  \* 5 in the code
  TimeoutTicks,       \* 20 in the code
  Drift,              \* running nodes tick at one rate, up to this many ticks
  MaxCrashes,         \* bound on the crash faults
  MaxCuts             \* bound on the partition faults

ASSUME BaselineAssumption ==
  /\ IsFiniteSet(Nodes) /\ Known \in [Nodes -> SUBSET Nodes]
  /\ \A n \in Nodes : n \notin Known[n]
  /\ HeartbeatInterval \in Nat \ {0} /\ TimeoutTicks \in Nat
  /\ Drift \in Nat \ {0} /\ 2 * (HeartbeatInterval + Drift) <= TimeoutTicks
  /\ MaxCrashes \in Nat /\ MaxCuts \in Nat

VARIABLES
  peers,    \* BaselineProtocol.peers
  phase,    \* tick % heartbeatInterval
  quiet,    \* quiet[n][p]: tick - lastSeen[p], up to Forever
  doubt,    \* doubt[n][p]: tick - suspectSince[p], up to TimeoutTicks + 1
  status,   \* BaselineProtocol.status
  net,      \* the envelopes being sent: <<from, to, kind>>
  crashed,  \* the nodes whose fault engine has crashed set
  cut,      \* the pairs of nodes partitioned from each other
  lead,     \* how many ticks a node is ahead of the slowest running one
  crashes, cuts

view == <<peers, quiet, doubt, status>>
faults == <<crashed, cut, crashes, cuts>>
vars == <<view, phase, net, lead, faults>>

(* The silence after which a peer has been declared dead.                  *)
Forever == 2 * TimeoutTicks + 2

Running == Nodes \ crashed

Blocked(n, p) == {n, p} \in cut

Init ==
  /\ peers = Known
  /\ phase = [n \in Nodes |-> 0]
  /\ quiet = [n \in Nodes |-> [p \in Nodes |-> 0]]
  /\ doubt = [n \in Nodes |-> [p \in Nodes |-> 0]]
  /\ status = [n \in Nodes |-> [p \in Nodes |-> "alive"]]
  /\ net = {}
  /\ crashed = {} /\ cut = {} /\ crashes = 0 /\ cuts = 0
  /\ lead = [n \in Nodes |-> 0]

(* The running nodes' leads, counted from the slowest of them.             *)
Levelled(ahead, running) ==
  LET slowest == Min({ahead[n] : n \in running} \cup
                     (IF running = {} THEN {0} ELSE {}))
  IN [n \in Nodes |-> IF n \in running THEN ahead[n] - slowest ELSE 0]

-----------------------------------------------------------------------------
(* Tick: heartbeats first, by the statuses before the scan; then the scan, *)
(* which declares a suspect dead and tells every peer, the dead included.  *)

SilentTooLong(n, p) == quiet'[n][p] > TimeoutTicks

(* Faulty variant: a suspect is dead at the next tick.                     *)
DoubtfulAtOnce(n, p) == status[n][p] = "suspect"

DoubtfulTooLong(n, p) ==
  status[n][p] = "suspect" /\ doubt[n][p] + 1 > TimeoutTicks

(* Faulty variant: suspects are never looked at again.                     *)
JudgedAliveOnly(n, p) ==
  IF p \in peers[n] /\ status[n][p] = "alive" /\ SilentTooLong(n, p)
    THEN "suspect" ELSE status[n][p]

Judged(n, p) ==
  CASE p \notin peers[n] -> status[n][p]
    [] p \in peers[n] /\ status[n][p] = "alive" /\ SilentTooLong(n, p) -> "suspect"
    [] p \in peers[n] /\ DoubtfulTooLong(n, p) -> "dead"
    [] OTHER -> status[n][p]

Heartbeats(n) ==
  IF phase'[n] = 0
    THEN {<<n, p, "heartbeat">> : p \in {q \in peers[n] : status[n][q] # "dead"}}
    ELSE {}

makeMembershipEnvelope(n) ==
  IF \E p \in peers[n] : status[n][p] # "dead" /\ status'[n][p] = "dead"
    THEN {<<n, p, "membership">> : p \in peers[n]}
    ELSE {}

Tick(n) ==
  /\ n \notin crashed
  /\ \A m \in net : m[1] # n
  /\ lead[n] < Drift
  /\ lead' = Levelled([lead EXCEPT ![n] = @ + 1], Running)
  /\ phase' = [phase EXCEPT ![n] = (@ + 1) % HeartbeatInterval]
  /\ quiet' = [quiet EXCEPT ![n] = [p \in Nodes |-> Min({@[p] + 1, Forever})]]
  /\ doubt' = [doubt EXCEPT ![n] = [p \in Nodes |->
                 IF status[n][p] = "suspect"
                   THEN Min({@[p] + 1, TimeoutTicks + 1}) ELSE 0]]
  /\ status' = [status EXCEPT ![n] = [p \in Nodes |-> Judged(n, p)]]
  /\ net' = net \cup Heartbeats(n) \cup makeMembershipEnvelope(n)
  /\ UNCHANGED <<peers, faults>>

-----------------------------------------------------------------------------
(* OnMessage.  Every incarnation is 0, so a membership event is never newer *)
(* than what the receiver has and says no more than that its sender lives. *)

(* Faulty variant: a message revives the dead but not the suspect.         *)
ReviveDead(n, p) ==
  status' = [status EXCEPT ![n][p] = IF @ = "suspect" THEN @ ELSE "alive"]

Revive(n, p) == status' = [status EXCEPT ![n][p] = "alive"]

(* Faulty variant: only a newly discovered peer's lastSeen is set.         *)
HearNewcomer(n, p) ==
  quiet' = [quiet EXCEPT ![n][p] = IF p \in peers[n] THEN @ ELSE 0]

Hear(n, p) == quiet' = [quiet EXCEPT ![n][p] = 0]

OnMessage(m) ==
  /\ m \in net /\ net' = net \ {m}
  /\ m[2] \notin crashed /\ ~Blocked(m[1], m[2])
  /\ peers' = [peers EXCEPT ![m[2]] = @ \cup {m[1]}]
  /\ Hear(m[2], m[1])
  /\ Revive(m[2], m[1])
  /\ doubt' = [doubt EXCEPT ![m[2]][m[1]] = 0]
  /\ UNCHANGED <<phase, lead, faults>>

(* The fault engine of the sender or of the receiver refuses the envelope. *)
SendFails(m) ==
  /\ m \in net /\ net' = net \ {m}
  /\ m[1] \in crashed \/ m[2] \in crashed \/ Blocked(m[1], m[2])
  /\ UNCHANGED <<view, phase, lead, faults>>

-----------------------------------------------------------------------------
(* The operator's faults.                                                  *)

Crash(n) ==
  /\ n \notin crashed /\ crashes < MaxCrashes
  /\ crashed' = crashed \cup {n} /\ crashes' = crashes + 1
  /\ lead' = Levelled(lead, Running \ {n})
  /\ UNCHANGED <<view, phase, net, cut, cuts>>

Recover(n) ==
  /\ n \in crashed /\ crashed' = crashed \ {n}
  /\ UNCHANGED <<view, phase, net, lead, cut, crashes, cuts>>

Cut(n, p) ==
  /\ n # p /\ ~Blocked(n, p) /\ cuts < MaxCuts
  /\ cut' = cut \cup {{n, p}} /\ cuts' = cuts + 1
  /\ UNCHANGED <<view, phase, net, lead, crashed, crashes>>

Heal(n, p) ==
  /\ Blocked(n, p) /\ cut' = cut \ {{n, p}}
  /\ UNCHANGED <<view, phase, net, lead, crashed, crashes, cuts>>

Envelope == Nodes \X Nodes \X {"heartbeat", "membership"}

Next ==
  \/ \E n \in Nodes : Tick(n) \/ Crash(n) \/ Recover(n)
  \/ \E m \in net : OnMessage(m) \/ SendFails(m)
  \/ \E n, p \in Nodes : Cut(n, p) \/ Heal(n, p)

Spec == Init /\ [][Next]_vars

(* Tickers and calls keep going; crashes, cuts and their ends are choices. *)
Fairness ==
  /\ \A n \in Nodes : WF_vars(Tick(n))
  /\ \A m \in Envelope : WF_vars(OnMessage(m)) /\ WF_vars(SendFails(m))

FairSpec == Spec /\ Fairness

-----------------------------------------------------------------------------
(* No node is suspected while nothing has ever gone wrong: the heartbeat   *)
(* interval leaves room for the drift between tickers within TimeoutTicks. *)
NoFalseSuspicion ==
  crashes = 0 /\ cuts = 0 =>
    \A n \in Nodes : \A p \in peers[n] : status[n][p] = "alive"

(* A peer is declared dead only after both timeouts in a row without one   *)
(* message from it: a message in between starts the count again.           *)
DeadMeansSilent ==
  \A n \in Nodes : \A p \in peers[n] :
    status[n][p] = "dead" => quiet[n][p] = Forever

(* A node that crashes for good is in the end dead to each node that goes  *)
(* on running and knows it.                                                *)
CrashIsNoticed ==
  \A n, p \in Nodes :
    <>[](p \in crashed /\ n \notin crashed /\ p \in peers[n])
      => <>[](status[n][p] = "dead")

(* Once every crash and partition is over, two nodes that know each other  *)
(* are alive to each other again, for any message revives its sender,      *)
(* unless both have declared the other dead and so never send again        *)
(* (baseline.go:96-104, 192-197).                                          *)
AliveAgainOrBothDead ==
  \A n, p \in Nodes :
    <>[](crashed = {} /\ cut = {} /\ n \in peers[p] /\ p \in peers[n]) =>
      \/ <>[](status[n][p] = "alive")
      \/ <>[](status[n][p] = "dead" /\ status[p][n] = "dead")

-----------------------------------------------------------------------------
(* What the code does not keep: Baseline_heal.cfg ends in a counterexample. *)

(* DATA_FLOWS.md:561-563 draws the way from DEAD back to ALIVE as          *)
(* "recovery": once every crash and partition is over, all nodes that know *)
(* each other are alive to each other again.                               *)
AllAliveAgain ==
  <>[](crashed = {} /\ cut = {}) =>
    <>[](\A n \in Nodes : \A p \in peers[n] :
           n \in peers[p] => status[n][p] = "alive")
=============================================================================
