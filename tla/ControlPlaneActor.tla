------------------------- MODULE ControlPlaneActor -------------------------
(***************************************************************************)
(* The control plane's actor (internal/controlplane/actor.go): clients put *)
(* commands in its channel and wait for the reply; it executes them one at *)
(* a time.  Around it run the clients (the REST handlers and the command   *)
(* listener), the hypotheses it has started, whose goroutines are clients  *)
(* themselves, and one goroutine per node process that waits for it to     *)
(* exit and clears its entry in nodeProcs.  A process registers its node   *)
(* with the control plane when it is up, which creates the cluster if need *)
(* be.  The program's end stops the actor.  One cluster.                   *)
(***************************************************************************)
EXTENDS Integers, Sequences

CONSTANTS
  Clients,
  Nodes,
  Capacity,     \* of cmdCh, 32 in the code
  Submitted,    \* the commands the clients use
  Script,       \* a hypothesis: the batches of commands it is compiled to
  MaxCommands,  \* bound on the clients' commands
  MaxProcesses, \* bound on the processes started
  MaxRuns       \* bound on the hypotheses run

Runs == 1 .. MaxRuns
Process == 1 .. MaxProcesses

Command ==
  [type : {"new-cluster", "other", "metrics-start", "metrics-stop",
           "kill-cluster", "run-hypothesis"}]
  \cup [type : {"start-node", "stop-node"}, node : Nodes]

ASSUME ActorAssumption ==
  /\ Capacity \in Nat \ {0} /\ Submitted \subseteq Command
  /\ Clients \cap Runs = {} /\ 0 \notin Nodes
  /\ Script \in Seq(Seq(Command))
  /\ MaxCommands \in Nat /\ MaxProcesses \in Nat /\ MaxRuns \in Nat

VARIABLES
  cmdCh,      \* the commands waiting for the actor: [from, cmd]
  caller,     \* each client or run: "idle", "submitting", "waiting", or
              \* the reply in its reply channel, "ok" or "error"
  wants,      \* the command each caller is submitting
  doing,      \* the command the actor is in the middle of
  nodeProcs,  \* each node's process, 0 for none
  live,       \* the processes that run
  owner,      \* the node of each process started, 0 for none
  awaited,    \* the processes whose Wait has not returned
  erased,     \* history: a Wait has cleared a later process's entry
  cluster,    \* the cluster exists
  active,     \* it has an active metrics session
  runs,       \* the hypotheses
  ending,     \* how far Stop is: "no", "killed", "forgotten", "cancelled",
              \* and "returned" once Run has left its loop
  toStop,     \* the nodes whose entries Stop is to delete
  late,       \* history: the processes that had no entry yet when Stop looked
  commands

mailbox == <<cmdCh, caller, wants, commands>>
processes == <<nodeProcs, live, owner, awaited, erased>>
program == <<ending, toStop, late>>
vars == <<mailbox, doing, processes, cluster, active, runs, program>>

Resting == [phase |-> "idle"]

NoCommand == [type |-> "other"]

NotRun == [pc |-> "off", batch |-> 1, index |-> 1,
           metricsStarted |-> FALSE, completed |-> FALSE]

Init ==
  /\ cmdCh = <<>>
  /\ caller = [c \in Clients \cup Runs |-> "idle"]
  /\ wants = [c \in Clients \cup Runs |-> NoCommand]
  /\ doing = Resting
  /\ nodeProcs = [n \in Nodes |-> 0] /\ live = {}
  /\ owner = [p \in Process |-> 0] /\ awaited = {} /\ erased = FALSE
  /\ cluster = FALSE /\ active = FALSE
  /\ runs = [r \in Runs |-> NotRun]
  /\ ending = "no" /\ toStop = {} /\ late = {}
  /\ commands = 0

-----------------------------------------------------------------------------
(* Submit and MapWait.                                                     *)

(* A REST handler or the command listener makes a command of a request.    *)
Request(c) ==
  /\ caller[c] = "idle" /\ commands < MaxCommands
  /\ commands' = commands + 1
  /\ \E cmd \in Submitted : wants' = [wants EXCEPT ![c] = cmd]
  /\ caller' = [caller EXCEPT ![c] = "submitting"]
  /\ UNCHANGED <<cmdCh, doing, processes, cluster, active, runs, program>>

(* Submit blocks while the channel is full.                                *)
Submit(c) ==
  /\ caller[c] = "submitting" /\ Len(cmdCh) < Capacity
  /\ cmdCh' = Append(cmdCh, [from |-> c, cmd |-> wants[c]])
  /\ caller' = [caller EXCEPT ![c] = "waiting"]
  /\ wants' = [wants EXCEPT ![c] = NoCommand]
  /\ UNCHANGED <<commands, doing, processes, cluster, active, runs, program>>

MapWait(c) ==
  /\ caller[c] \in {"ok", "error"}
  /\ caller' = [caller EXCEPT ![c] = "idle"]
  /\ UNCHANGED <<cmdCh, wants, commands, doing, processes, cluster, active, runs,
                 program>>

(* The reply channel has room for the one reply.                           *)
Reply(c, outcome) == caller' = [caller EXCEPT ![c] = outcome]

-----------------------------------------------------------------------------
(* Run: the actor's commands.                                              *)

CreateCluster(c) ==
  /\ Reply(c, IF cluster THEN "error" ELSE "ok")
  /\ cluster' = TRUE
  /\ UNCHANGED <<doing, processes, active, runs, program>>

(* Commands that only read or that call nodes: see ClusterRegistry.        *)
OtherCommand(c) ==
  /\ \E outcome \in {"ok", "error"} : Reply(c, outcome)
  /\ UNCHANGED <<doing, processes, cluster, active, runs, program>>

StartMetricsSessionIfInactive == active' = (active \/ cluster)

MetricsStart(c) ==
  /\ StartMetricsSessionIfInactive
  /\ Reply(c, IF active' THEN "ok" ELSE "error")
  /\ UNCHANGED <<doing, processes, cluster, runs, program>>

MetricsStop(c) ==
  /\ active' = FALSE
  /\ Reply(c, IF active THEN "ok" ELSE "error")
  /\ UNCHANGED <<doing, processes, cluster, runs, program>>

(* No process is started once the context is cancelled.                    *)
Begin(p, n) ==
  /\ ending \in {"no", "killed", "forgotten"}
  /\ owner[p] = 0 /\ \A q \in 1 .. p - 1 : owner[q] # 0
  /\ owner' = [owner EXCEPT ![p] = n] /\ live' = live \cup {p}
  /\ late' = IF ending = "no" THEN late ELSE late \cup {p}

(* Faulty variant: the entry is not looked up.                             *)
SpawnUnchecked(c, n) ==
  \E p \in Process :
    /\ Begin(p, n)
    /\ doing' = [phase |-> "insert", from |-> c, process |-> p]
    /\ UNCHANGED <<caller, nodeProcs, awaited, erased>>

(* Faulty variant: the reply is made before the entry.                     *)
SpawnRepliesFirst(c, n) ==
  \E p \in Process :
    /\ nodeProcs[n] = 0
    /\ Begin(p, n)
    /\ doing' = [phase |-> "insert", from |-> c, process |-> p]
    /\ Reply(c, "ok")
    /\ UNCHANGED <<nodeProcs, awaited, erased>>

(* Starting a process, which may fail; its entry is made in a later step.  *)
Spawn(c, n) ==
  \E p \in Process :
    /\ nodeProcs[n] = 0
    /\ Begin(p, n)
    /\ doing' = [phase |-> "insert", from |-> c, process |-> p]
    /\ UNCHANGED <<caller, nodeProcs, awaited, erased>>

startNodeProcess(c, n) ==
  /\ \/ Spawn(c, n)
     \/ Reply(c, "error") /\ UNCHANGED <<doing, processes, late>>
  /\ UNCHANGED <<cluster, active, runs, ending, toStop>>

InsertProcess ==
  /\ doing.phase = "insert"
  /\ nodeProcs' = [nodeProcs EXCEPT ![owner[doing.process]] = doing.process]
  /\ awaited' = awaited \cup {doing.process}
  /\ Reply(doing.from, "ok") /\ doing' = Resting
  /\ UNCHANGED <<cmdCh, wants, commands, live, owner, erased, cluster, active,
                 runs, program>>

StopNodeProcess(c, n) ==
  /\ IF nodeProcs[n] = 0
     THEN Reply(c, "error") /\ UNCHANGED <<doing, live>>
     ELSE /\ live' = live \ {nodeProcs[n]}
          /\ doing' = [phase |-> "forget", from |-> c, nodes |-> {n}, kill |-> FALSE]
          /\ UNCHANGED caller
  /\ UNCHANGED <<nodeProcs, owner, awaited, erased, cluster, active, runs, program>>

(* All of the cluster's processes, and then the cluster, with its session. *)
killCluster(c) ==
  LET toKill == {n \in Nodes : nodeProcs[n] # 0}
  IN  /\ active' = FALSE
      /\ live' = live \ {nodeProcs[n] : n \in toKill}
      /\ doing' = [phase |-> "forget", from |-> c, nodes |-> toKill, kill |-> TRUE]
      /\ UNCHANGED <<caller, nodeProcs, owner, awaited, erased, cluster, runs, program>>

ForgetProcesses ==
  /\ doing.phase = "forget"
  /\ nodeProcs' = [n \in Nodes |-> IF n \in doing.nodes THEN 0 ELSE nodeProcs[n]]
  /\ cluster' = (cluster /\ ~doing.kill)
  /\ Reply(doing.from, IF doing.nodes = {} THEN "error" ELSE "ok")
  /\ doing' = Resting
  /\ UNCHANGED <<cmdCh, wants, commands, live, owner, awaited, erased, active,
                 runs, program>>

(* Faulty variant: the actor runs the hypothesis before it replies.        *)
HypothesisInline(c) ==
  /\ \E r \in Runs :
       /\ runs[r].pc = "off"
       /\ runs' = [runs EXCEPT ![r].pc = "batch"]
       /\ doing' = [phase |-> "run", from |-> c, process |-> r]
       /\ UNCHANGED caller
  /\ UNCHANGED <<processes, cluster, active, program>>

(* The file does not load or compile, or the run is left to a goroutine.   *)
runHypothesis(c) ==
  /\ \/ Reply(c, "error") /\ UNCHANGED runs
     \/ \E r \in Runs :
          /\ runs[r].pc = "off"
          /\ runs' = [runs EXCEPT ![r].pc = "batch"]
          /\ Reply(c, "ok")
  /\ UNCHANGED <<doing, processes, cluster, active, program>>

(* After cancel the select may still choose a command.                     *)
Run ==
  /\ doing = Resting /\ cmdCh # <<>> /\ ending # "returned"
  /\ cmdCh' = Tail(cmdCh)
  /\ LET c == Head(cmdCh).from
         cmd == Head(cmdCh).cmd
     IN  \/ cmd.type = "new-cluster" /\ CreateCluster(c)
         \/ cmd.type = "other" /\ OtherCommand(c)
         \/ cmd.type = "metrics-start" /\ MetricsStart(c)
         \/ cmd.type = "metrics-stop" /\ MetricsStop(c)
         \/ cmd.type = "start-node" /\ startNodeProcess(c, cmd.node)
         \/ cmd.type = "stop-node" /\ StopNodeProcess(c, cmd.node)
         \/ cmd.type = "kill-cluster" /\ killCluster(c)
         \/ cmd.type = "run-hypothesis" /\ runHypothesis(c)
  /\ UNCHANGED <<wants, commands>>

-----------------------------------------------------------------------------
(* The node processes, and the goroutines that wait for them.              *)

Exit(p) ==
  /\ p \in live /\ live' = live \ {p}
  /\ UNCHANGED <<mailbox, doing, nodeProcs, owner, awaited, erased, cluster,
                 active, runs, program>>

(* Clears the node's entry, whatever process it now names.  Cancelling the *)
(* context ends the go command that is waited for, not the node under it.  *)
Wait(p) ==
  /\ p \in awaited /\ (p \notin live \/ ending \in {"cancelled", "returned"})
  /\ awaited' = awaited \ {p}
  /\ nodeProcs' = [nodeProcs EXCEPT ![owner[p]] = 0]
  /\ erased' = (erased \/ nodeProcs[owner[p]] \notin {0, p})
  /\ UNCHANGED <<mailbox, doing, live, owner, cluster, active, runs, program>>

(* The registration of a process, which may have ended since it called.    *)
RegisterNode(p) ==
  /\ owner[p] # 0 /\ cluster' = TRUE
  /\ UNCHANGED <<mailbox, doing, processes, active, runs, program>>

-----------------------------------------------------------------------------
(* Stop, on the main goroutine, while the actor goes on.                   *)

(* Faulty variant: Stop kills nothing.                                     *)
CancelOnly ==
  /\ ending = "no" /\ ending' = "killed"
  /\ UNCHANGED <<mailbox, doing, processes, cluster, active, runs, toStop, late>>

stopAllManagedNodeProcesses ==
  /\ ending = "no" /\ ending' = "killed"
  /\ toStop' = {n \in Nodes : nodeProcs[n] # 0}
  /\ live' = live \ {nodeProcs[n] : n \in Nodes}
  /\ late' = IF doing.phase = "insert" THEN {doing.process} ELSE {}
  /\ UNCHANGED <<mailbox, doing, nodeProcs, owner, awaited, erased, cluster, active,
                 runs>>

Stop ==
  /\ \/ /\ ending = "killed" /\ ending' = "forgotten" /\ toStop' = {}
        /\ nodeProcs' = [n \in Nodes |-> IF n \in toStop THEN 0 ELSE nodeProcs[n]]
        /\ erased' = (erased \/ \E n \in toStop : nodeProcs[n] \in late)
     \/ /\ ending = "forgotten" /\ ending' = "cancelled"
        /\ UNCHANGED <<nodeProcs, toStop, erased>>
  /\ UNCHANGED <<mailbox, doing, live, owner, awaited, cluster, active, runs, late>>

(* Run returns; Submit returns too, and its caller waits all the same.     *)
Return ==
  /\ ending = "cancelled" /\ doing = Resting /\ ending' = "returned"
  /\ UNCHANGED <<mailbox, doing, processes, cluster, active, runs, toStop, late>>

SubmitAfterStop(c) ==
  /\ caller[c] = "submitting" /\ ending \in {"cancelled", "returned"}
  /\ caller' = [caller EXCEPT ![c] = "waiting"]
  /\ wants' = [wants EXCEPT ![c] = NoCommand]
  /\ UNCHANGED <<cmdCh, commands, doing, processes, cluster, active, runs,
                 program>>

-----------------------------------------------------------------------------
(* executeHypothesis.                                                      *)

unchangedByRun == <<cmdCh, commands, doing, processes, cluster, program>>

(* Before a batch: the session, unless there is no cluster yet.            *)
BeginBatch(r) ==
  /\ runs[r].pc = "batch"
  /\ IF runs[r].batch > Len(Script)
     THEN /\ runs' = [runs EXCEPT ![r].pc = "defer", ![r].completed = TRUE]
          /\ UNCHANGED active
     ELSE /\ IF runs[r].metricsStarted THEN UNCHANGED active
                                       ELSE StartMetricsSessionIfInactive
          /\ runs' = [runs EXCEPT ![r].pc = "next", ![r].index = 1,
                        ![r].metricsStarted = @ \/ active']
  /\ UNCHANGED <<unchangedByRun, caller, wants>>

NextCommand(r) ==
  /\ runs[r].pc = "next"
  /\ IF runs[r].index > Len(Script[runs[r].batch])
     THEN /\ runs' = [runs EXCEPT ![r].pc = "batch", ![r].batch = @ + 1]
          /\ UNCHANGED <<caller, wants>>
     ELSE /\ wants' = [wants EXCEPT ![r] = Script[runs[r].batch][runs[r].index]]
          /\ caller' = [caller EXCEPT ![r] = "submitting"]
          /\ runs' = [runs EXCEPT ![r].pc = "call", ![r].index = @ + 1]
  /\ UNCHANGED <<unchangedByRun, active>>

(* Faulty variant: a command that fails ends the run there and then.       *)
AbandonOnError(r) ==
  /\ runs[r].pc = "call" /\ caller[r] \in {"ok", "error"}
  /\ caller' = [caller EXCEPT ![r] = "idle"]
  /\ runs' = [runs EXCEPT ![r].pc = IF caller[r] = "ok" THEN "next" ELSE "done"]
  /\ UNCHANGED <<unchangedByRun, wants, active>>

(* A command that fails ends the run, by way of the deferred function.     *)
CommandDone(r) ==
  /\ runs[r].pc = "call" /\ caller[r] \in {"ok", "error"}
  /\ caller' = [caller EXCEPT ![r] = "idle"]
  /\ runs' = [runs EXCEPT ![r].pc = IF caller[r] = "ok" THEN "next" ELSE "defer"]
  /\ UNCHANGED <<unchangedByRun, wants, active>>

(* The deferred function, after WaitForConvergence or the settle window if *)
(* the run was completed (both end): StopMetricsSession.                   *)
FinishRun(r) ==
  /\ runs[r].pc = "defer"
  /\ runs' = [runs EXCEPT ![r].pc = "done"]
  /\ active' = (active /\ ~runs[r].metricsStarted)
  /\ UNCHANGED <<unchangedByRun, caller, wants>>

-----------------------------------------------------------------------------

Actor == Run \/ InsertProcess \/ ForgetProcesses

executeHypothesis(r) ==
  BeginBatch(r) \/ NextCommand(r) \/ CommandDone(r) \/ FinishRun(r)

Next ==
  \/ \E c \in Clients : Request(c) \/ MapWait(c)
  \/ \E c \in Clients \cup Runs : Submit(c) \/ SubmitAfterStop(c)
  \/ Actor
  \/ stopAllManagedNodeProcesses \/ Stop \/ Return
  \/ \E p \in Process : Exit(p) \/ Wait(p) \/ RegisterNode(p)
  \/ \E r \in Runs : executeHypothesis(r)

Spec == Init /\ [][Next]_vars

(* Goroutines that can go on do; requests and exits need not happen.       *)
Fairness ==
  /\ WF_vars(Actor)
  /\ \A c \in Clients : WF_vars(MapWait(c))
  /\ \A c \in Clients \cup Runs : WF_vars(Submit(c))
  /\ \A p \in Process : WF_vars(Wait(p))
  /\ \A r \in Runs : WF_vars(executeHypothesis(r))

FairSpec == Spec /\ Fairness

-----------------------------------------------------------------------------
(* The types of the state.                                                 *)
TypeOK ==
  /\ \A i \in 1 .. Len(cmdCh) :
       cmdCh[i].from \in Clients \cup Runs /\ cmdCh[i].cmd \in Command
  /\ Len(cmdCh) <= Capacity
  /\ caller \in [Clients \cup Runs ->
                   {"idle", "submitting", "waiting", "ok", "error"}]
  /\ doing = Resting \/ doing.from \in Clients \cup Runs
  /\ nodeProcs \in [Nodes -> {0} \cup Process]
  /\ live \cup awaited \subseteq {p \in Process : owner[p] \in Nodes}
  /\ erased \in BOOLEAN /\ cluster \in BOOLEAN /\ active \in BOOLEAN
  /\ \A r \in Runs : runs[r].batch \in 1 .. Len(Script) + 1

(* A caller that waits has its command in the channel or in the actor's    *)
(* hands, exactly once: no reply goes to a caller that does not wait for   *)
(* it, and none is made twice (command.go:72-84).  Only a stopped actor's  *)
(* Submit, which drops the command, leaves a caller without (actor.go:61). *)
OneReplyEach ==
  \A c \in Clients \cup Runs :
    LET queued == {i \in 1 .. Len(cmdCh) : cmdCh[i].from = c}
        held == doing # Resting /\ doing.from = c
    IN  \/ caller[c] = "waiting" /\ held /\ queued = {}
        \/ caller[c] = "waiting" /\ ~held /\ \E i \in queued : queued = {i}
        \/ ~held /\ queued = {}
           /\ (caller[c] = "waiting" => ending \in {"cancelled", "returned"})

(* Two processes of one node never run at the same time (actor.go:524-528, *)
(* 585-593), unless the goroutine that waited for a stopped process was    *)
(* late and cleared the entry of the process started after it, or Stop did *)
(* (actor.go:101-106).                                                     *)
OneProcessUnlessErased ==
  ~erased => \A p, q \in live : owner[p] = owner[q] => p = q

(* Stop leaves no process behind but those whose start it overtook: their  *)
(* entries were made after it had read them (actor.go:77-107, 576-583).    *)
StopSparesOnlyLateStarts ==
  ending # "no" /\ ~erased => live \subseteq late

Stopped == ending \in {"cancelled", "returned"}

(* Every command that is submitted is answered, the commands of hypotheses *)
(* included, unless the actor is stopped: no client or hypothesis holds up *)
(* the actor that it waits for (actor.go:61-67, 121-515, 703-718).         *)
EveryCommandAnswered ==
  \A c \in Clients \cup Runs :
    caller[c] = "submitting" ~> caller[c] \in {"ok", "error"} \/ Stopped

(* A session that a hypothesis measures is stopped, whether the hypothesis *)
(* ends or fails, unless the actor is stopped (actor.go:767-788).          *)
SessionIsSealed ==
  \A r \in Runs :
    runs[r].metricsStarted /\ runs[r].pc # "done" ~> ~active \/ Stopped

-----------------------------------------------------------------------------
(* What the code does not keep: Actor_not_kept.cfg ends in a               *)
(* counterexample for each of these.                                       *)

(* "node process already running": two processes of one node never run at  *)
(* the same time (actor.go:524-528).                                       *)
OneProcessPerNode ==
  \A p, q \in live : owner[p] = owner[q] => p = q

(* No process of the actor's outlives Stop (actor.go:77-107).              *)
NoProcessOutlivesStop ==
  ending = "returned" => live = {}

(* Every command is answered, a stopped actor's too (command.go:72-84).    *)
StoppedActorAnswers ==
  \A c \in Clients \cup Runs :
    caller[c] = "submitting" ~> caller[c] \in {"ok", "error"}

(* While no process runs only new-cluster creates a cluster: kill-cluster  *)
(* is not undone by a node it has killed (actor.go:650-655).               *)
KillClusterIsFinal ==
  [][~cluster /\ cluster' /\ live = {} =>
       cmdCh' # cmdCh /\ Head(cmdCh).cmd.type = "new-cluster"]_vars
=============================================================================
