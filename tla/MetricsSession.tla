--------------------------- MODULE MetricsSession ---------------------------
(***************************************************************************)
(* The metrics sessions of one cluster: internal/metrics/session_manager.go*)
(* and their use by internal/controlplane/service/service.go.              *)
(*                                                                         *)
(* The actor and every running hypothesis are clients: goroutines that     *)
(* start and stop sessions, count writes and track keys, each call taking  *)
(* the service's and the manager's locks several times.  A sampler         *)
(* goroutine per session asks the nodes for the tracked keys and records   *)
(* what it saw.                                                            *)
(***************************************************************************)
EXTENDS Integers, Sequences, FiniteSets

CONSTANTS
  Clients,
  Keys,
  Limit,       \* sessions kept; 50 in the code
  MaxStarts,   \* bound on the sessions started
  MaxWrites    \* bound on the writes

ASSUME SessionAssumption ==
  Limit \in Nat \ {0} /\ MaxStarts \in Nat /\ MaxWrites \in Nat

VARIABLES
  sessions,  \* SessionManager.sessions of the cluster, oldest first
  total,     \* Service.totalWrites
  baseline,  \* Service.sessionBaselines, None when absent
  loop,      \* Service.metricsLoops: the sampler whose cancel is held
  samplers,  \* the sampler goroutines: the keys being asked for
  cancelled, \* the samplers whose context is cancelled
  client,    \* where each client is
  started,   \* history: sessions started so far
  raced      \* history: a start or stop began during another client's

vars == <<sessions, total, baseline, loop, samplers, cancelled, client,
          started, raced>>

None == -1

(* keys and samples are what was tracked and recorded; stats the sealed    *)
(* count of writes; id and from a history of its start.                    *)
Session == [id : Nat, stopped : BOOLEAN, keys : SUBSET Keys,
            samples : SUBSET Keys, stats : Int, from : Nat]

At(step) == [step |-> step]

Last == sessions[Len(sessions)]

IsActive == sessions # <<>> /\ ~Last.stopped

Init ==
  /\ sessions = <<>>
  /\ total = 0
  /\ baseline = None
  /\ loop = None
  /\ samplers = <<>>
  /\ cancelled = {}
  /\ client = [c \in Clients |-> At("idle")]
  /\ started = 0
  /\ raced = FALSE

Quiet(c) == client[c].step \in {"idle", "track"}

Race(c) == raced' = (raced \/ \E d \in Clients \ {c} : ~Quiet(d))

Move(c, from, to) ==
  /\ client[c].step = from
  /\ client' = [client EXCEPT ![c] = to]

-----------------------------------------------------------------------------
(* StartMetricsSession.                                                    *)

Keep(s) == IF Len(s) >= Limit THEN Tail(s) ELSE s

NewSession ==
  [id |-> started, stopped |-> FALSE, keys |-> {}, samples |-> {},
   stats |-> 0, from |-> total]

(* Faulty variant: the active session is not looked at again under the     *)
(* lock, after IsActive was asked without it.                              *)
StartUnchecked(c) ==
  /\ started < MaxStarts
  /\ Race(c)
  /\ started' = started + 1
  /\ Move(c, "idle", At("baseline"))
  /\ sessions' = Append(Keep(sessions), NewSession)
  /\ UNCHANGED <<total, baseline, loop, samplers, cancelled>>

Start(c) ==
  /\ started < MaxStarts
  /\ Race(c)
  /\ ~IsActive
  /\ started' = started + 1
  /\ Move(c, "idle", At("baseline"))
  /\ sessions' = Append(Keep(sessions), NewSession)
  /\ UNCHANGED <<total, baseline, loop, samplers, cancelled>>

SetBaseline(c) ==
  /\ Move(c, "baseline", At("launch"))
  /\ baseline' = total
  /\ UNCHANGED <<sessions, total, loop, samplers, cancelled, started, raced>>

(* The new loop's cancel function replaces the one that was held.          *)
LaunchSampler(c) ==
  /\ Move(c, "launch", At("idle"))
  /\ samplers' = Append(samplers, {})
  /\ loop' = Len(samplers) + 1
  /\ UNCHANGED <<sessions, total, baseline, cancelled, started, raced>>

-----------------------------------------------------------------------------
(* sampleAllTrackedKeys by a sampler and by a client that stops a session: *)
(* the tracked keys are read, the nodes are asked, and what they answered  *)
(* is recorded in whatever session is active then.                         *)

(* Faulty variant: a stopped session still takes snapshots.                *)
RecordAlways(keys) ==
  IF sessions # <<>> /\ keys # {}
  THEN sessions' = [sessions EXCEPT ![Len(sessions)].keys = @ \cup keys,
                                    ![Len(sessions)].samples = @ \cup keys]
  ELSE UNCHANGED sessions

RecordSnapshot(keys) ==
  IF IsActive /\ keys # {}
  THEN sessions' = [sessions EXCEPT ![Len(sessions)].keys = @ \cup keys,
                                    ![Len(sessions)].samples = @ \cup keys]
  ELSE UNCHANGED sessions

SamplerReads(i) ==
  /\ samplers[i] = {}
  /\ i \notin cancelled
  /\ IsActive /\ Last.keys # {}
  /\ samplers' = [samplers EXCEPT ![i] = Last.keys]
  /\ UNCHANGED <<sessions, total, baseline, loop, cancelled, client, started,
                 raced>>

(* A node's answer that came before the cancellation is recorded; a call   *)
(* that fails leaves its key out.                                          *)
SamplerRecords(i) ==
  /\ samplers[i] # {}
  /\ \E keys \in SUBSET samplers[i] : RecordSnapshot(keys)
  /\ samplers' = [samplers EXCEPT ![i] = {}]
  /\ UNCHANGED <<total, baseline, loop, cancelled, client, started, raced>>

-----------------------------------------------------------------------------
(* StopMetricsSession, which metrics-stop calls whatever the session's     *)
(* state and kill-cluster when one is active.                              *)

StopReads(c) ==
  /\ Move(c, "idle", [step |-> "record",
                      keys |-> IF IsActive THEN Last.keys ELSE {}])
  /\ Race(c)
  /\ UNCHANGED <<sessions, total, baseline, loop, samplers, cancelled,
                 started>>

StopRecords(c) ==
  /\ Move(c, "record", At("cancel"))
  /\ \E keys \in SUBSET client[c].keys : RecordSnapshot(keys)
  /\ UNCHANGED <<total, baseline, loop, samplers, cancelled, started, raced>>

(* Faulty variant: the loop is forgotten and goes on.                      *)
ForgetLoop(c) ==
  /\ Move(c, "cancel", At("stats"))
  /\ loop' = None
  /\ UNCHANGED <<sessions, total, baseline, samplers, cancelled, started,
                 raced>>

CancelLoop(c) ==
  /\ Move(c, "cancel", At("stats"))
  /\ cancelled' = cancelled \cup ({loop} \ {None})
  /\ loop' = None
  /\ UNCHANGED <<sessions, total, baseline, samplers, started, raced>>

(* A missing baseline reads as 0.                                          *)
FinalStats(c) ==
  /\ Move(c, "stats",
          [step |-> "update",
           stats |-> total - IF baseline = None THEN 0 ELSE baseline])
  /\ baseline' = None
  /\ UNCHANGED <<sessions, total, loop, samplers, cancelled, started, raced>>

UpdateSessionStats(c) ==
  /\ Move(c, "update", At("seal"))
  /\ sessions' = IF sessions = <<>> THEN sessions
                 ELSE [sessions EXCEPT ![Len(sessions)].stats = client[c].stats]
  /\ UNCHANGED <<total, baseline, loop, samplers, cancelled, started, raced>>

Stop(c) ==
  /\ Move(c, "seal", At("idle"))
  /\ sessions' = IF IsActive
                 THEN [sessions EXCEPT ![Len(sessions)].stopped = TRUE]
                 ELSE sessions
  /\ UNCHANGED <<total, baseline, loop, samplers, cancelled, started, raced>>

-----------------------------------------------------------------------------

(* kv-put: the write is counted, then its key is tracked.                  *)
ExecuteKVPut(c, k) ==
  /\ total < MaxWrites
  /\ total' = total + 1
  /\ Move(c, "idle", [step |-> "track", key |-> k])
  /\ UNCHANGED <<sessions, baseline, loop, samplers, cancelled, started,
                 raced>>

(* metrics-watch-key, and a lifecycle event with its key.                  *)
AddMetricsWatchKey(c, k) ==
  /\ Move(c, "idle", [step |-> "track", key |-> k])
  /\ UNCHANGED <<sessions, total, baseline, loop, samplers, cancelled,
                 started, raced>>

TrackKey(c) ==
  /\ Move(c, "track", At("idle"))
  /\ sessions' = IF IsActive
                 THEN [sessions EXCEPT ![Len(sessions)].keys =
                                         @ \cup {client[c].key}]
                 ELSE sessions
  /\ UNCHANGED <<total, baseline, loop, samplers, cancelled, started, raced>>

Client(c) ==
  \/ Start(c) \/ SetBaseline(c) \/ LaunchSampler(c)
  \/ StopReads(c) \/ StopRecords(c) \/ CancelLoop(c) \/ FinalStats(c)
  \/ UpdateSessionStats(c) \/ Stop(c)
  \/ TrackKey(c)
  \/ \E k \in Keys : ExecuteKVPut(c, k) \/ AddMetricsWatchKey(c, k)

Next ==
  \/ \E c \in Clients : Client(c)
  \/ \E i \in DOMAIN samplers : SamplerReads(i) \/ SamplerRecords(i)

Spec == Init /\ [][Next]_vars

-----------------------------------------------------------------------------

(* Type correctness; the history never exceeds its limit.                  *)
TypeOK ==
  /\ Len(sessions) <= Limit
  /\ \A i \in DOMAIN sessions : sessions[i] \in Session
  /\ total \in 0 .. MaxWrites
  /\ baseline \in 0 .. MaxWrites \cup {None}
  /\ loop \in DOMAIN samplers \cup {None}
  /\ samplers \in Seq(SUBSET Keys)
  /\ cancelled \subseteq DOMAIN samplers
  /\ started \in 0 .. MaxStarts /\ raced \in BOOLEAN

(* All sessions but the latest are stopped, however the clients' starts    *)
(* and stops interleave (session_manager.go:60-66).                        *)
OnlyLatestActive ==
  \A i \in 1 .. Len(sessions) - 1 : sessions[i].stopped

ById(s, id) == CHOOSE i \in DOMAIN s : s[i].id = id

Ids(s) == {s[i].id : i \in DOMAIN s}

(* A stopped session's keys and snapshots never change, although samplers  *)
(* and clients that read them before the stop record afterwards            *)
(* (session_manager.go:200-208).                                           *)
StoppedSessionsFrozen ==
  [][\A id \in Ids(sessions) \cap Ids(sessions') :
       LET old == sessions[ById(sessions, id)]
           new == sessions'[ById(sessions', id)]
       IN  old.stopped => /\ new.stopped
                          /\ new.keys = old.keys
                          /\ new.samples = old.samples]_vars

Running == DOMAIN samplers \ cancelled

(* As long as no two clients' starts and stops have overlapped, exactly    *)
(* the active session has a sampler whenever nobody is starting or         *)
(* stopping one, so no goroutine is left behind (service.go:84-90,         *)
(* 110-115).  A start that overlaps a stop may lose its cancel function.   *)
SamplerMatchesSession ==
  ~raced /\ (\A c \in Clients : Quiet(c)) =>
    Running = IF IsActive THEN {loop} ELSE {}

-----------------------------------------------------------------------------
(* What the code does not keep: Metrics_sealed.cfg ends in a               *)
(* counterexample.                                                         *)

(* "Update the session in SessionManager with sealed stats": the count of  *)
(* a stopped session stays as it was sealed.                               *)
SealedStatsStay ==
  [][\A id \in Ids(sessions) \cap Ids(sessions') :
       LET old == sessions[ById(sessions, id)]
           new == sessions'[ById(sessions', id)]
       IN  old.stopped => new.stats = old.stats]_vars

=============================================================================
