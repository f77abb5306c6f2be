---------------------------- MODULE PeerSession ----------------------------
(***************************************************************************)
(* A node's session with one peer (internal/node/session/node.go).  Two    *)
(* goroutines share its peerState: the reactor, which sends the protocol's *)
(* envelopes, and the probe loop, which pings.  Both dial lazily, without  *)
(* the session's lock, and read ps.conn afresh for every call.             *)
(***************************************************************************)
EXTENDS Integers

CONSTANTS
  Owner,     \* shouldDial(self, peer): self is the smaller id
  MaxDials,  \* bound on the connections
  MaxFlips   \* bound on the changes of the peer and of the fault engine

ASSUME SessionAssumption ==
  Owner \in BOOLEAN /\ MaxDials \in Nat /\ MaxFlips \in Nat

VARIABLES
  up,       \* the peer answers
  blocked,  \* this node's fault engine refuses to call the peer
  conn,     \* ps.conn: a connection, 0 for none
  dialled,  \* how many connections have been made
  open,     \* the connections that are not closed
  greeted,  \* the connections on which the handshake succeeded
  fails,    \* ps.failCount, up to 2
  health,   \* ps.health
  pc,       \* where each goroutine is
  bare,     \* history: an envelope was sent without a handshake
  stopped,  \* the context is done
  flips

goroutine == {"send", "probe"}
connections == <<conn, dialled, open, greeted>>
vars == <<up, blocked, connections, fails, health, pc, bare, stopped, flips>>

Init ==
  /\ up \in BOOLEAN /\ blocked = FALSE
  /\ conn = 0 /\ dialled = 0 /\ open = {} /\ greeted = {}
  /\ fails = 0 /\ health = "suspect"
  /\ pc = [g \in goroutine |-> "idle"]
  /\ bare = FALSE /\ stopped = FALSE /\ flips = 0

Goto(g, place) == pc' = [pc EXCEPT ![g] = place]

-----------------------------------------------------------------------------
(* Faulty variant: the larger id probes.                                   *)
DialIfLarger == ~Owner

shouldDial == Owner

(* Send is called by the reactor; the probe loop comes round.  Past the    *)
(* fault engine, ps.conn decides whether to dial.                          *)
Begin(g) ==
  /\ pc[g] = "idle" /\ ~blocked /\ ~stopped
  /\ g = "probe" => shouldDial
  /\ IF conn = 0 THEN dialled < MaxDials /\ Goto(g, "dial") ELSE Goto(g, "call")
  /\ UNCHANGED <<up, blocked, connections, fails, health, bare, stopped, flips>>

(* grpc.NewClient connects to nothing and does not fail.                   *)
dial(g) ==
  /\ pc[g] = "dial" /\ dialled < MaxDials
  /\ dialled' = dialled + 1
  /\ open' = open \cup {dialled'} /\ conn' = dialled'
  /\ Goto(g, "handshake")
  /\ UNCHANGED <<up, blocked, greeted, fails, health, bare, stopped, flips>>

(* A failed handshake ends Send, but not a probe; the connection stays.    *)
handshake(g) ==
  /\ pc[g] = "handshake"
  /\ IF up
     THEN greeted' = greeted \cup {conn} /\ Goto(g, "call")
     ELSE /\ Goto(g, IF g = "send" THEN "idle" ELSE "call")
          /\ UNCHANGED greeted
  /\ UNCHANGED <<up, blocked, conn, dialled, open, fails, health, bare,
                 stopped, flips>>

(* SendEnvelope or Ping; its outcome is recorded later, under the lock.    *)
Call(g) ==
  /\ pc[g] = "call"
  /\ Goto(g, IF up THEN "succeeded" ELSE "failed")
  /\ bare' = (bare \/ (g = "send" /\ up /\ conn \notin greeted))
  /\ UNCHANGED <<up, blocked, connections, fails, health, stopped, flips>>

updateSuccess(g) ==
  /\ pc[g] = "succeeded" /\ Goto(g, "idle")
  /\ fails' = 0 /\ health' = "alive"
  /\ UNCHANGED <<up, blocked, connections, bare, stopped, flips>>

updateFailure(g) ==
  /\ pc[g] = "failed" /\ Goto(g, "idle")
  /\ fails' = IF fails < 2 THEN fails + 1 ELSE 2
  /\ health' = IF fails' = 1 THEN "suspect" ELSE "dead"
  /\ UNCHANGED <<up, blocked, connections, bare, stopped, flips>>

(* The context is done: the reactor and the probe loop return, the latter  *)
(* closing the connections of the peers.                                   *)
closeAllConnections ==
  /\ ~stopped /\ stopped' = TRUE
  /\ \A g \in goroutine : pc[g] = "idle"
  /\ open' = open \ {conn}
  /\ UNCHANGED <<up, blocked, conn, dialled, greeted, fails, health, pc, bare, flips>>

(* The peer stops or comes back; the operator changes this node's faults.  *)
Environment ==
  /\ flips < MaxFlips /\ flips' = flips + 1
  /\ \/ up' = ~up /\ UNCHANGED blocked
     \/ blocked' = ~blocked /\ UNCHANGED up
  /\ UNCHANGED <<connections, fails, health, pc, bare, stopped>>

Step(g) ==
  \/ Begin(g) \/ dial(g) \/ handshake(g) \/ Call(g)
  \/ updateSuccess(g) \/ updateFailure(g)

Next ==
  \/ \E g \in goroutine : Step(g)
  \/ closeAllConnections
  \/ Environment

Spec == Init /\ [][Next]_vars

(* Calls end, by an answer or a timeout, and the probe loop comes round.   *)
Fairness ==
  /\ WF_vars(Step("probe"))
  /\ WF_vars(Step("send") /\ pc["send"] # "idle")

FairSpec == Spec /\ Fairness

-----------------------------------------------------------------------------
(* What the code does not keep: Session_not_kept.cfg ends in a             *)
(* counterexample for each of these.                                       *)

(* "handshake is used to establish trust and verify that the peer is       *)
(* responsive before adding it to the session" (node.go:313): no envelope  *)
(* goes out on a connection without one.                                   *)
EnvelopeAfterHandshake == ~bare

(* "loops through all active connection and close it all" (node.go:279):   *)
(* the session leaves no connection open behind it.                        *)
NothingLeftOpen == stopped => open = {}
=============================================================================
