------------------------ MODULE ControlPlaneSession ------------------------
(***************************************************************************)
(* A node's session with the control plane                                 *)
(* (internal/node/session/controlplane.go).  One goroutine at a time       *)
(* registers, fetches peers and then sends heartbeats, and clears the      *)
(* connection when a call fails; every log line and every capability       *)
(* report is sent by a goroutine of its own, which does not.  The lock     *)
(* covers connect and invalidateConn, but not the use of the client.       *)
(***************************************************************************)
EXTENDS Integers, FiniteSets

CONSTANTS
  Reporters,  \* the goroutines that report at the same time
  MaxOutages  \* bound on the changes of the control plane

ASSUME ControlPlaneAssumption ==
  /\ "loop" \notin Reporters
  /\ IsFiniteSet(Reporters) /\ MaxOutages \in Nat

VARIABLES
  cpUp,     \* the control plane answers, and takes the node's calls
  cpConn,   \* s.conn, 0 for nil
  client,   \* s.client: the connection it is made of, 0 for nil
  cpOpen,   \* the connections that are not closed
  at,       \* where each goroutine is
  held,     \* the client each goroutine makes its call on
  beat,     \* how the last call of the loop ended
  failed,   \* history: a call of the loop has failed
  died,     \* a goroutine used a nil client, which ended the process
  outages

cpSession == <<cpConn, client, cpOpen>>
cpVars == <<cpUp, cpSession, at, held, beat, failed, died, outages>>

Callers == {"loop"} \cup Reporters

CPInit ==
  /\ cpUp \in BOOLEAN
  /\ cpConn = 0 /\ client = 0 /\ cpOpen = {}
  /\ at = [g \in Callers |-> "idle"]
  /\ held = [g \in Callers |-> 0]
  /\ beat = "none" /\ failed = FALSE /\ died = FALSE /\ outages = 0

Move(g, place) == at' = [at EXCEPT ![g] = place]

-----------------------------------------------------------------------------
(* A cycle of the sync loop, a log line, a report: connect, under the lock.*)

(* A connection that nobody uses any more is not told from a new one.      *)
newConn == CHOOSE c \in 1 .. Cardinality(Callers) + 1 :
             c \notin cpOpen /\ \A g \in Callers : held[g] # c

(* Faulty variant: the client is left to the first user.                   *)
connectOnly(g) ==
  /\ at[g] = "idle" /\ ~died /\ Move(g, "connected")
  /\ IF cpConn # 0 THEN UNCHANGED cpSession
     ELSE cpConn' = newConn /\ cpOpen' = cpOpen \cup {newConn} /\ UNCHANGED client
  /\ UNCHANGED <<cpUp, held, beat, failed, died, outages>>

connect(g) ==
  /\ at[g] = "idle" /\ ~died /\ Move(g, "connected")
  /\ IF cpConn # 0 THEN UNCHANGED cpSession
     ELSE cpConn' = newConn /\ client' = newConn /\ cpOpen' = cpOpen \cup {newConn}
  /\ UNCHANGED <<cpUp, held, beat, failed, died, outages>>

(* The client is read without the lock: a nil one ends the process.        *)
UseClient(g) ==
  /\ at[g] = "connected" /\ ~died
  /\ IF client = 0 THEN died' = TRUE /\ UNCHANGED <<at, held>>
     ELSE held' = [held EXCEPT ![g] = client] /\ Move(g, "calling") /\ UNCHANGED died
  /\ UNCHANGED <<cpUp, cpSession, beat, failed, outages>>

(* A call on a connection that was closed fails like one that times out.   *)
Answered(g) == cpUp /\ held[g] \in cpOpen

(* ReportLog and ReportNodeCapabilities leave the connection alone.        *)
ReportReturns(g) ==
  /\ g \in Reporters /\ at[g] = "calling" /\ ~died
  /\ Move(g, "idle") /\ held' = [held EXCEPT ![g] = 0]
  /\ UNCHANGED <<cpUp, cpSession, beat, failed, died, outages>>

(* Faulty variant: a failed heartbeat ends the loop.                       *)
LoopGivesUp ==
  /\ at["loop"] = "calling" /\ ~died
  /\ IF Answered("loop")
     THEN Move("loop", "idle") /\ beat' = "ok" /\ UNCHANGED failed
     ELSE Move("loop", "returned") /\ beat' = "failed" /\ failed' = TRUE
  /\ held' = [held EXCEPT !["loop"] = 0]
  /\ UNCHANGED <<cpUp, cpSession, died, outages>>

(* Establish, FetchPeers and Heartbeat.                                    *)
LoopCallReturns ==
  /\ at["loop"] = "calling" /\ ~died
  /\ IF Answered("loop")
     THEN Move("loop", "idle") /\ beat' = "ok" /\ UNCHANGED failed
     ELSE Move("loop", "failed") /\ beat' = "failed" /\ failed' = TRUE
  /\ held' = [held EXCEPT !["loop"] = 0]
  /\ UNCHANGED <<cpUp, cpSession, died, outages>>

(* Whatever connection there is now, under the lock.                       *)
invalidateConn ==
  /\ at["loop"] = "failed" /\ ~died /\ Move("loop", "idle")
  /\ cpOpen' = cpOpen \ {cpConn} /\ cpConn' = 0 /\ client' = 0
  /\ UNCHANGED <<cpUp, held, beat, failed, died, outages>>

(* The control plane stops, and comes back.                                *)
Outage ==
  /\ outages < MaxOutages /\ outages' = outages + 1
  /\ cpUp' = ~cpUp
  /\ UNCHANGED <<cpSession, at, held, beat, failed, died>>

-----------------------------------------------------------------------------

Caller(g) == connect(g) \/ UseClient(g) \/ ReportReturns(g)

Loop == Caller("loop") \/ LoopCallReturns \/ invalidateConn

CPNext == Loop \/ (\E g \in Reporters : Caller(g)) \/ Outage

CPSpec == CPInit /\ [][CPNext]_cpVars

(* The loop comes round every three seconds, and its calls time out.       *)
CPFairSpec == CPSpec /\ WF_cpVars(Loop)

-----------------------------------------------------------------------------
(* The session never leaves a connection behind: what is open is the one   *)
(* that the next call will use, however goroutines interleave              *)
(* (controlplane.go:47-80).                                                *)
OneControlConnection == cpOpen = {cpConn} \ {0}

(* A nil client ends the process only after the loop's own call has        *)
(* failed: reporters never take the client from each other, nor do they    *)
(* see a connection without one (controlplane.go:65-66, 75-79, 173).       *)
NilClientNeedsFailure == died => failed

(* Heartbeats are answered again when the control plane is back for good,  *)
(* unless a nil client ended the process meanwhile                         *)
(* (controlplane_client.go:14-34, controlplane.go:120-135).                *)
HeartbeatsResume == <>[]cpUp => <>[](died \/ beat = "ok")

-----------------------------------------------------------------------------
(* What the code does not keep: Session_client.cfg ends in a               *)
(* counterexample.                                                         *)

(* "we don't invalidate connection violently for dropped logs"             *)
(* (controlplane.go:182): no report ends the process.                      *)
ReportsAreHarmless == ~died
=============================================================================
