---------------------- MODULE ControlPlaneActorProofs ----------------------
(***************************************************************************)
(* What the actor and the goroutines around it keep of the node processes, *)
(* whatever the clients, the nodes and the number of commands.             *)
(***************************************************************************)
EXTENDS ControlPlaneActor, SequenceTheorems, TLAPS

Callers == Clients \cup Runs

RunState ==
  [pc : {"off", "batch", "next", "call", "defer", "done"},
   batch : Nat \ {0}, index : Nat \ {0},
   metricsStarted : BOOLEAN, completed : BOOLEAN]

(* The commands under way are commands, and a run is inside its script.    *)
CommandInv ==
  /\ cmdCh \in Seq([from : Callers, cmd : Command])
  /\ wants \in [Callers -> Command] /\ active \in BOOLEAN
  /\ runs \in [Runs -> RunState]
  /\ \A r \in Runs :
       runs[r].pc \in {"next", "call"} => runs[r].batch <= Len(Script)

ProcessType ==
  /\ owner \in [Process -> Nodes \cup {0}]
  /\ nodeProcs \in [Nodes -> Process \cup {0}]
  /\ live \subseteq Process /\ awaited \subseteq Process
  /\ toStop \subseteq Nodes
  /\ \A p \in live \cup awaited : owner[p] # 0
  /\ \A n \in Nodes : nodeProcs[n] # 0 => owner[nodeProcs[n]] = n

(* The process the actor is about to enter has been started, its node has  *)
(* no entry, and Stop counts it as late if it looked before the entry was  *)
(* made; the processes it is about to forget are dead.                     *)
ActorInv ==
  /\ doing.phase = "insert" =>
       /\ doing.process \in Process /\ owner[doing.process] # 0
       /\ nodeProcs[owner[doing.process]] = 0
       /\ ending # "no" => doing.process \in late
  /\ doing.phase = "forget" =>
       /\ doing.nodes \subseteq Nodes
       /\ \A n \in doing.nodes : nodeProcs[n] \notin live

(* Until an entry is erased every live process has one or is to get it.    *)
EntryInv ==
  /\ ~erased /\ ~Stopped =>
       \A p \in live : \/ nodeProcs[owner[p]] = p
                       \/ doing.phase = "insert" /\ doing.process = p
  /\ ending = "killed" =>
       \A n \in toStop : nodeProcs[n] \notin live \/ nodeProcs[n] \in late

ProcessInv ==
  /\ ProcessType /\ ActorInv /\ EntryInv
  /\ OneProcessUnlessErased /\ StopSparesOnlyLateStarts

-----------------------------------------------------------------------------
(* The invariants hold when the control plane starts.                      *)
LEMMA ActorInitially == Init => CommandInv /\ ProcessInv
<1> SUFFICES ASSUME Init PROVE CommandInv /\ ProcessInv
  BY Zenon
<1>1. CommandInv
  <2>1. cmdCh \in Seq([from : Callers, cmd : Command])
    BY DEF Init
  <2>2. wants \in [Callers -> Command]
    BY Zenon DEF Init, Callers, NoCommand, Command
  <2>3. NotRun \in RunState
    BY DEF NotRun, RunState
  <2> QED BY <2>1, <2>2, <2>3, Zenon DEF Init, CommandInv, NotRun
<1>2. ProcessType /\ ActorInv /\ EntryInv
  BY Zenon DEF Init, Resting, ProcessType, ActorInv, EntryInv
<1> QED BY <1>1, <1>2, Zenon DEF ProcessInv, Init, OneProcessUnlessErased,
                           StopSparesOnlyLateStarts

(* A run is its five fields.                                               *)
LEMMA RunFields ==
  ASSUME CommandInv, NEW r \in Runs
  PROVE  \E a \in {"off", "batch", "next", "call", "defer", "done"},
            b \in Nat \ {0}, i \in Nat \ {0}, m \in BOOLEAN, d \in BOOLEAN :
           runs[r] = [pc |-> a, batch |-> b, index |-> i,
                      metricsStarted |-> m, completed |-> d]
BY Zenon DEF CommandInv, RunState

(* Every step keeps the types of the queue, the callers and the run.       *)
LEMMA CommandsAreCommands ==
  CommandInv /\ [Next]_vars => CommandInv'
<1> SUFFICES ASSUME CommandInv, [Next]_vars PROVE CommandInv'
  BY Zenon
<1>1. ASSUME NEW c \in Clients, Request(c) PROVE CommandInv'
  BY <1>1, ActorAssumption, Zenon DEF Request, CommandInv, Callers
<1>2. ASSUME NEW c \in Clients, MapWait(c) PROVE CommandInv'
  BY <1>2, Zenon DEF MapWait, CommandInv
<1>3. ASSUME NEW c \in Callers, Submit(c) PROVE CommandInv'
  BY <1>3 DEF Submit, CommandInv, NoCommand, Command
<1>4. ASSUME NEW c \in Callers, SubmitAfterStop(c) PROVE CommandInv'
  BY <1>4, Zenon DEF SubmitAfterStop, CommandInv, NoCommand, Command
<1>5. CASE Run
  <2>1. cmdCh' \in Seq([from : Callers, cmd : Command])
    BY <1>5 DEF Run, CommandInv
  <2>2. wants' = wants
    BY <1>5, Zenon DEF Run
  <2>3. active' \in BOOLEAN
    BY <1>5, Zenon DEF Run, CommandInv, CreateCluster, OtherCommand, MetricsStart,
                MetricsStop, startNodeProcess, StopNodeProcess, killCluster,
                runHypothesis, StartMetricsSessionIfInactive
  <2>4. runs' = runs \/ \E r \in Runs : runs' = [runs EXCEPT ![r].pc = "batch"]
    BY <1>5, Zenon DEF Run, CreateCluster, OtherCommand, MetricsStart, MetricsStop,
                startNodeProcess, StopNodeProcess, killCluster, runHypothesis
  <2>5. CASE runs' = runs
    BY <2>1, <2>2, <2>3, <2>5, Zenon DEF CommandInv
  <2>6. ASSUME NEW r \in Runs, runs' = [runs EXCEPT ![r].pc = "batch"]
        PROVE  CommandInv'
    <3>1. runs'[r] \in RunState /\ runs'[r].pc = "batch"
      BY <2>6, RunFields, ZenonT(30) DEF RunState, CommandInv
    <3> QED BY <2>1, <2>2, <2>3, <2>6, <3>1, Zenon DEF CommandInv
  <2> QED BY <2>4, <2>5, <2>6, Zenon
<1>6. CASE InsertProcess \/ ForgetProcesses
  BY <1>6, Zenon DEF InsertProcess, ForgetProcesses, CommandInv
<1>7. CASE stopAllManagedNodeProcesses \/ Stop \/ Return
  BY <1>7, Zenon DEF stopAllManagedNodeProcesses, Stop, Return, mailbox, CommandInv
<1>8. ASSUME NEW p \in Process, Exit(p) \/ Wait(p) \/ RegisterNode(p)
      PROVE  CommandInv'
  BY <1>8, Zenon DEF Exit, Wait, RegisterNode, mailbox, CommandInv
<1>9. ASSUME NEW r \in Runs, executeHypothesis(r) PROVE CommandInv'
  <2>0. /\ cmdCh' = cmdCh
        /\ \A q \in Runs \ {r} : runs'[q] = runs[q]
        /\ DOMAIN runs' = Runs /\ runs' = [q \in Runs |-> runs'[q]]
    BY <1>9, Zenon
       DEF executeHypothesis, BeginBatch, NextCommand, CommandDone, FinishRun,
                unchangedByRun, CommandInv
  <2>1. CASE BeginBatch(r)
    <3>1. wants' = wants /\ active' \in BOOLEAN
      BY <2>1, Zenon DEF BeginBatch, CommandInv, StartMetricsSessionIfInactive
    <3>2. runs'[r] \in RunState
      <4>1. PICK a \in RunState : runs[r] = a
        BY Zenon DEF CommandInv
      <4>2. PICK m \in BOOLEAN :
              \/ runs'[r] = [a EXCEPT !.pc = "defer", !.completed = TRUE]
              \/ runs'[r] = [a EXCEPT !.pc = "next", !.index = 1, !.metricsStarted = m]
        BY <2>1, <3>1, <4>1, Zenon DEF BeginBatch, CommandInv, RunState
      <4>3. 1 \in Nat \ {0}
        OBVIOUS
      <4> QED BY <4>2, <4>3, ZenonT(60) DEF RunState
    <3>3. runs'[r].pc \in {"next", "call"} => runs'[r].batch <= Len(Script)
      <4>1. /\ runs'[r].batch = runs[r].batch
            /\ runs[r].batch > Len(Script) => runs'[r].pc = "defer"
        BY <2>1, RunFields DEF BeginBatch, CommandInv
      <4>2. runs[r].batch \in Nat /\ Len(Script) \in Nat
        BY ActorAssumption DEF CommandInv, RunState
      <4> QED BY <4>1, <4>2
    <3> QED BY <2>0, <3>1, <3>2, <3>3, Zenon DEF CommandInv
  <2>2. CASE NextCommand(r)
    <3>1. wants' \in [Callers -> Command] /\ active' \in BOOLEAN
      <4>1. runs[r].index \in 1 .. Len(Script[runs[r].batch])
            => Script[runs[r].batch][runs[r].index] \in Command
        <5>1. runs[r].batch \in 1 .. Len(Script)
          BY <2>2, ActorAssumption DEF NextCommand, CommandInv, RunState
        <5>2. Script[runs[r].batch] \in Seq(Command)
          BY <5>1, ActorAssumption
        <5> QED BY <5>2
      <4>2. runs[r].index \in Nat \ {0} /\ Len(Script[runs[r].batch]) \in Nat
        <5>1. runs[r].batch \in 1 .. Len(Script)
          BY <2>2, ActorAssumption DEF NextCommand, CommandInv, RunState
        <5>2. Script[runs[r].batch] \in Seq(Command)
          BY <5>1, ActorAssumption
        <5> QED BY <5>2 DEF CommandInv, RunState
      <4> QED BY <2>2, <4>1, <4>2, SMTT(30) DEF NextCommand, CommandInv
    <3>2. runs'[r] \in RunState
      BY <2>2, RunFields, SMTT(30) DEF NextCommand, CommandInv, RunState
    <3>3. runs'[r].pc \in {"next", "call"} => runs'[r].batch <= Len(Script)
      <4>1. \/ runs'[r].pc = "batch"
            \/ runs'[r].pc = "call" /\ runs'[r].batch = runs[r].batch
        BY <2>2, RunFields DEF NextCommand, CommandInv
      <4>2. runs[r].batch <= Len(Script)
        BY <2>2, Zenon DEF NextCommand, CommandInv
      <4> QED BY <4>1, <4>2, Zenon
    <3> QED BY <2>0, <3>1, <3>2, <3>3, Zenon DEF CommandInv
  <2>3. CASE CommandDone(r)
    <3>1. wants' = wants /\ active' = active
      BY <2>3, Zenon DEF CommandDone
    <3>2. runs'[r] \in RunState
      BY <2>3, RunFields, ZenonT(30) DEF CommandDone, CommandInv, RunState
    <3>3. runs'[r].pc \in {"next", "call"} => runs'[r].batch <= Len(Script)
      BY <2>3, RunFields, Zenon DEF CommandDone, CommandInv, RunState
    <3> QED BY <2>0, <3>1, <3>2, <3>3, Zenon DEF CommandInv
  <2>4. CASE FinishRun(r)
    <3>1. wants' = wants /\ active' \in BOOLEAN
      BY <2>4, Zenon DEF FinishRun, CommandInv
    <3>2. runs'[r] \in RunState /\ runs'[r].pc = "done"
      BY <2>4, RunFields, ZenonT(60) DEF FinishRun, CommandInv, RunState
    <3> QED BY <2>0, <3>1, <3>2, Zenon DEF CommandInv
  <2> QED BY <1>9, <2>1, <2>2, <2>3, <2>4, Zenon DEF executeHypothesis
<1>10. CASE UNCHANGED vars
  BY <1>10, Zenon DEF vars, mailbox, CommandInv
<1> QED BY <1>1, <1>2, <1>3, <1>4, <1>5, <1>6, <1>7, <1>8, <1>9, <1>10, Zenon
        DEF Next, Actor, Callers

-----------------------------------------------------------------------------
processState == <<processes, doing, program>>

(* A step that touches no process keeps the invariant of processes.        *)
LEMMA NothingStarted ==
  ASSUME ProcessInv, UNCHANGED processState PROVE ProcessInv'
BY Zenon DEF ProcessInv, ProcessType, ActorInv, EntryInv, OneProcessUnlessErased,
       StopSparesOnlyLateStarts, Stopped, processState, processes, program

(* One command of the actor.                                               *)
LEMMA RunKeepsProcesses ==
  ASSUME CommandInv, ProcessInv, Run PROVE ProcessInv'
<1> DEFINE c == Head(cmdCh).from
           cmd == Head(cmdCh).cmd
<1>1. Head(cmdCh) \in [from : Callers, cmd : Command] /\ doing = Resting
  <2>1. cmdCh \in Seq([from : Callers, cmd : Command])
    BY Zenon DEF CommandInv
  <2>2. cmdCh # <<>> /\ doing = Resting
    BY Zenon DEF Run
  <2> QED BY <2>1, <2>2, HeadTailProperties, Zenon
<1> USE DEF ProcessInv, ProcessType, ActorInv, EntryInv, OneProcessUnlessErased,
            StopSparesOnlyLateStarts, Stopped
<1>2. cmd.type \in {"start-node", "stop-node"} => cmd.node \in Nodes
  BY <1>1, Zenon DEF Command
<1>3. CASE \/ CreateCluster(c) \/ OtherCommand(c) \/ MetricsStart(c)
           \/ MetricsStop(c) \/ runHypothesis(c)
  BY <1>3, NothingStarted, Zenon
     DEF CreateCluster, OtherCommand, MetricsStart, MetricsStop,
       runHypothesis, processState
<1>4. ASSUME NEW n \in Nodes, startNodeProcess(c, n) PROVE ProcessInv'
  <2>1. CASE UNCHANGED processState
    BY <2>1, NothingStarted, Zenon
  <2>2. ASSUME ~ UNCHANGED processState PROVE Spawn(c, n)
    BY <1>4, <2>2, Zenon DEF startNodeProcess, processState, program
  <2>3. ASSUME NEW p \in Process, nodeProcs[n] = 0, Begin(p, n),
               doing' = [phase |-> "insert", from |-> c, process |-> p],
               UNCHANGED <<nodeProcs, awaited, erased, ending, toStop>>
        PROVE  ProcessInv'
    <3>1. /\ owner[p] = 0 /\ owner' = [owner EXCEPT ![p] = n]
          /\ live' = live \cup {p} /\ p \notin live /\ n # 0
          /\ \A m \in Nodes : nodeProcs[m] # p
      BY <2>3, ActorAssumption DEF Begin
    <3>2. ~erased => \A q \in live : owner[q] # n
      <4>1. 0 \notin Process
        BY ActorAssumption DEF Process
      <4>2. doing.phase # "insert" /\ ~Stopped
        BY <1>1, <2>3, Zenon DEF Begin, Resting
      <4> QED BY <2>3, <4>1, <4>2
    <3>3. ProcessType'
      BY <2>3, <3>1
    <3>4. ActorInv'
      BY <2>3, <3>1, Zenon DEF Begin
    <3>5. EntryInv'
      BY <1>1, <2>3, <3>1, Zenon DEF Begin, Resting
    <3>6. OneProcessUnlessErased'
      BY <2>3, <3>1, <3>2
    <3>7. StopSparesOnlyLateStarts'
      BY <2>3, <3>1, Zenon DEF Begin
    <3> QED BY <3>3, <3>4, <3>5, <3>6, <3>7, Zenon
  <2> QED BY <1>4, <2>1, <2>2, <2>3, Zenon DEF startNodeProcess, Spawn
<1>5. ASSUME NEW n \in Nodes, StopNodeProcess(c, n) PROVE ProcessInv'
  <2>1. ProcessType'
    BY <1>1, <1>5, ActorAssumption, Zenon
       DEF StopNodeProcess, Resting, Process, program
  <2>2. ActorInv'
    BY <1>1, <1>5, ActorAssumption DEF StopNodeProcess, Resting, Process, program
  <2>3. EntryInv'
    BY <1>1, <1>5, ActorAssumption, ZenonT(60)
       DEF StopNodeProcess, Resting, Process, program
  <2>4. OneProcessUnlessErased'
    BY <1>1, <1>5, ActorAssumption, Zenon
       DEF StopNodeProcess, Resting, Process, program
  <2>5. StopSparesOnlyLateStarts'
    BY <1>1, <1>5, ActorAssumption, Zenon
       DEF StopNodeProcess, Resting, Process, program
  <2> QED BY <2>1, <2>2, <2>3, <2>4, <2>5, Zenon
<1>6. CASE killCluster(c)
  <2>1. ProcessType'
    BY <1>1, <1>6, ActorAssumption, Zenon DEF killCluster, Resting, Process, program
  <2>2. ActorInv'
    BY <1>1, <1>6, ActorAssumption, Zenon DEF killCluster, Resting, Process, program
  <2>3. EntryInv'
    BY <1>1, <1>6, ActorAssumption, Zenon DEF killCluster, Resting, Process, program
  <2>4. OneProcessUnlessErased'
    BY <1>1, <1>6, ActorAssumption, Zenon DEF killCluster, Resting, Process, program
  <2>5. StopSparesOnlyLateStarts'
    BY <1>1, <1>6, ActorAssumption, Zenon DEF killCluster, Resting, Process, program
  <2> QED BY <2>1, <2>2, <2>3, <2>4, <2>5, Zenon
<1> HIDE DEF c, cmd
<1> QED BY <1>2, <1>3, <1>4, <1>5, <1>6, Zenon DEF Run, c, cmd

(* Every step keeps the invariant of processes: the table of managed nodes *)
(* (actor.go:517-606) names every process that runs, except those that     *)
(* were erased or that a stop has overtaken.                               *)
LEMMA ProcessesStep ==
  ASSUME CommandInv, ProcessInv, [Next]_vars PROVE ProcessInv'
<1>1. CASE UNCHANGED processState
  BY <1>1, NothingStarted, Zenon
<1>2. CASE Run
  BY <1>2, RunKeepsProcesses, Zenon
<1> USE DEF ProcessInv, ProcessType, ActorInv, EntryInv, OneProcessUnlessErased,
            StopSparesOnlyLateStarts, Stopped
<1>3. CASE InsertProcess
  <2>1. ProcessType'
    BY <1>3, ActorAssumption, Zenon DEF InsertProcess, Resting, Process, program
  <2>2. ActorInv'
    BY <1>3, ActorAssumption, Zenon DEF InsertProcess, Resting, Process, program
  <2>3. EntryInv'
    BY <1>3, ActorAssumption DEF InsertProcess, Resting, Process, program
  <2>4. OneProcessUnlessErased'
    BY <1>3, ActorAssumption, Zenon DEF InsertProcess, Resting, Process, program
  <2>5. StopSparesOnlyLateStarts'
    BY <1>3, ActorAssumption, Zenon DEF InsertProcess, Resting, Process, program
  <2> QED BY <2>1, <2>2, <2>3, <2>4, <2>5, Zenon
<1>4. CASE ForgetProcesses
  <2>1. ProcessType'
    BY <1>4, ActorAssumption, Zenon DEF ForgetProcesses, Resting, Process, program
  <2>2. ActorInv'
    BY <1>4, ActorAssumption, Zenon DEF ForgetProcesses, Resting, Process, program
  <2>3. EntryInv'
    BY <1>4, ActorAssumption DEF ForgetProcesses, Resting, Process, program
  <2>4. OneProcessUnlessErased'
    BY <1>4, ActorAssumption, Zenon DEF ForgetProcesses, Resting, Process, program
  <2>5. StopSparesOnlyLateStarts'
    BY <1>4, ActorAssumption, Zenon DEF ForgetProcesses, Resting, Process, program
  <2> QED BY <2>1, <2>2, <2>3, <2>4, <2>5, Zenon
<1>5. CASE stopAllManagedNodeProcesses
  <2>1. ProcessType'
    BY <1>5, ActorAssumption, Zenon DEF stopAllManagedNodeProcesses, Process
  <2>2. ActorInv'
    BY <1>5, ActorAssumption, Zenon DEF stopAllManagedNodeProcesses, Process
  <2>3. EntryInv'
    BY <1>5, ActorAssumption, Zenon DEF stopAllManagedNodeProcesses, Process
  <2>4. OneProcessUnlessErased'
    BY <1>5, ActorAssumption, Zenon DEF stopAllManagedNodeProcesses, Process
  <2>5. StopSparesOnlyLateStarts'
    <3>1. SUFFICES ASSUME ~erased, NEW p \in live, \A n \in Nodes : p # nodeProcs[n]
                   PROVE  doing.phase = "insert" /\ p = doing.process
      BY <1>5 DEF stopAllManagedNodeProcesses
    <3>2. ~Stopped
      BY <1>5, Zenon DEF stopAllManagedNodeProcesses
    <3>3. owner[p] \in Nodes
      BY ActorAssumption, Zenon
    <3> QED BY <3>1, <3>2, <3>3, Zenon
  <2> QED BY <2>1, <2>2, <2>3, <2>4, <2>5, Zenon
<1>6. CASE Stop
  <2>1. ProcessType'
    BY <1>6, ActorAssumption DEF Stop, Process
  <2>2. ActorInv'
    BY <1>6, ActorAssumption DEF Stop, Process
  <2>3. EntryInv'
    <3>1. CASE ending = "forgotten"
      BY <1>6, <3>1, Zenon DEF Stop
    <3>2. CASE ending = "killed"
      <4>1. ending' = "forgotten" /\ doing' = doing /\ live' = live /\ owner' = owner
        BY <1>6, <3>2, Zenon DEF Stop
      <4>2. ASSUME ~erased', NEW p \in live, nodeProcs[owner[p]] = p
            PROVE  nodeProcs'[owner[p]] = p
        <5>1. owner[p] \in Nodes
          BY ActorAssumption, Zenon
        <5>2. owner[p] \notin toStop
          BY <1>6, <3>2, <4>2, ZenonT(60) DEF Stop
        <5> QED BY <1>6, <3>2, <4>2, <5>1, <5>2 DEF Stop
      <4>3. ~erased' => ~erased
        BY <1>6, <3>2, Zenon DEF Stop
      <4> QED BY <3>2, <4>1, <4>2, <4>3, Zenon
    <3> QED BY <1>6, <3>1, <3>2, Zenon DEF Stop
  <2>4. OneProcessUnlessErased'
    BY <1>6, ActorAssumption, Zenon DEF Stop, Process
  <2>5. StopSparesOnlyLateStarts'
    BY <1>6, ActorAssumption, Zenon DEF Stop, Process
  <2> QED BY <2>1, <2>2, <2>3, <2>4, <2>5, Zenon
<1>7. CASE Return
  BY <1>7, Zenon DEF Return, processes
<1>8. ASSUME NEW p \in Process, Exit(p) PROVE ProcessInv'
  <2>1. ProcessType'
    BY <1>8, Zenon DEF Exit, Process, program
  <2>2. ActorInv'
    BY <1>8, Zenon DEF Exit, Process, program
  <2>3. EntryInv'
    BY <1>8, Zenon DEF Exit, Process, program
  <2>4. OneProcessUnlessErased'
    BY <1>8, Zenon DEF Exit, Process, program
  <2>5. StopSparesOnlyLateStarts'
    BY <1>8, Zenon DEF Exit, Process, program
  <2> QED BY <2>1, <2>2, <2>3, <2>4, <2>5, Zenon
<1>9. ASSUME NEW p \in Process, Wait(p) PROVE ProcessInv'
  <2>1. ProcessType'
    BY <1>9, ActorAssumption, Zenon DEF Wait, Process, program
  <2>2. ActorInv'
    BY <1>9, ActorAssumption DEF Wait, Process, program
  <2>3. EntryInv'
    <3>1. /\ live' = live /\ owner' = owner /\ doing' = doing /\ ending' = ending
          /\ toStop' = toStop /\ late' = late /\ owner[p] \in Nodes /\ 0 \notin Process
          /\ nodeProcs' = [nodeProcs EXCEPT ![owner[p]] = 0]
      BY <1>9, ActorAssumption, SMTT(30) DEF Wait, Process, program
    <3>2. ASSUME ~erased', ~Stopped, NEW q \in live, nodeProcs[owner[q]] = q
          PROVE  nodeProcs'[owner[q]] = q
      <4>1. p # q /\ nodeProcs[owner[p]] \in {0, p}
        BY <1>9, <3>2, Zenon DEF Wait
      <4>2. owner[q] # owner[p]
        BY <3>1, <3>2, <4>1, Zenon
      <4> QED BY <3>1, <3>2, <4>2, ActorAssumption, Zenon
    <3>3. ~erased' => ~erased
      BY <1>9, Zenon DEF Wait
    <3>4. ASSUME NEW n \in toStop, ending = "killed"
          PROVE  nodeProcs'[n] \notin live \/ nodeProcs'[n] \in late
      BY <3>1, <3>4, Zenon
    <3> QED BY <3>1, <3>2, <3>3, <3>4, Zenon
  <2>4. OneProcessUnlessErased'
    BY <1>9, ActorAssumption, Zenon DEF Wait, Process, program
  <2>5. StopSparesOnlyLateStarts'
    BY <1>9, ActorAssumption, Zenon DEF Wait, Process, program
  <2> QED BY <2>1, <2>2, <2>3, <2>4, <2>5, Zenon
<1>10. ASSUME ~ UNCHANGED processState
       PROVE  \/ Run \/ InsertProcess \/ ForgetProcesses
              \/ stopAllManagedNodeProcesses \/ Stop \/ Return
              \/ \E p \in Process : Exit(p) \/ Wait(p)
  BY <1>10, Zenon DEF Next, vars, Request, MapWait, Submit, SubmitAfterStop, Actor,
       RegisterNode, executeHypothesis, BeginBatch, NextCommand, CommandDone,
       FinishRun, unchangedByRun, processState
<1> QED BY <1>1, <1>2, <1>3, <1>4, <1>5, <1>6, <1>7, <1>8, <1>9, <1>10, Zenon

(* Two processes of one node never run at the same time, unless a late     *)
(* Wait, or Stop, has cleared the entry of a process that runs             *)
(* (actor.go:524-528, 580-593).                                            *)
THEOREM OneProcessPerEntry == Spec => []OneProcessUnlessErased
<1>1. Init => CommandInv /\ ProcessInv
  BY ActorInitially, Zenon
<1>2. CommandInv /\ ProcessInv /\ [Next]_vars => (CommandInv /\ ProcessInv)'
  BY CommandsAreCommands, ProcessesStep, Zenon
<1>3. ProcessInv => OneProcessUnlessErased
  BY Zenon DEF ProcessInv
<1> QED BY <1>1, <1>2, <1>3, PTL DEF Spec

(* Stop kills every process but those it overtook: the ones started or     *)
(* entered after it had read the entries (actor.go:77-107).                *)
THEOREM StopReachesEveryEntry == Spec => []StopSparesOnlyLateStarts
<1>1. Init => CommandInv /\ ProcessInv
  BY ActorInitially, Zenon
<1>2. CommandInv /\ ProcessInv /\ [Next]_vars => (CommandInv /\ ProcessInv)'
  BY CommandsAreCommands, ProcessesStep, Zenon
<1>3. ProcessInv => StopSparesOnlyLateStarts
  BY Zenon DEF ProcessInv
<1> QED BY <1>1, <1>2, <1>3, PTL DEF Spec

-----------------------------------------------------------------------------
Held(c) == doing # Resting /\ doing.from = c

(* Each caller that waits has one command under way, and only those wait.  *)
ReplyInv ==
  /\ caller \in [Callers -> {"idle", "submitting", "waiting", "ok", "error"}]
  /\ \A r \in Runs : runs[r].pc # "call" => caller[r] = "idle"
  /\ \A c \in Callers : Held(c) => caller[c] = "waiting"
  /\ \A i \in 1 .. Len(cmdCh) :
       caller[cmdCh[i].from] = "waiting" /\ ~Held(cmdCh[i].from)
  /\ \A i, j \in 1 .. Len(cmdCh) : cmdCh[i].from = cmdCh[j].from => i = j
  /\ \A c \in Callers : caller[c] = "waiting" /\ ~Stopped =>
       Held(c) \/ \E i \in 1 .. Len(cmdCh) : cmdCh[i].from = c
  /\ doing # Resting => doing.from \in Callers

(* The actor has replied to c, or goes on with its command.                *)
Answered(c) ==
  \/ /\ \/ caller' = [caller EXCEPT ![c] = "ok"]
        \/ caller' = [caller EXCEPT ![c] = "error"]
     /\ doing' = doing
  \/ caller' = caller /\ doing' # Resting /\ doing'.from = c

(* Every step keeps each caller waiting for exactly one reply.             *)
LEMMA RepliesStep ==
  ASSUME CommandInv, ReplyInv, [Next]_vars PROVE ReplyInv'
<1>0. cmdCh \in Seq([from : Callers, cmd : Command])
  BY Zenon DEF CommandInv
<1>00. \A i \in 1 .. Len(cmdCh) : cmdCh[i].from \in Callers
  <2>1. \A i \in 1 .. Len(cmdCh) : cmdCh[i] \in [from : Callers, cmd : Command]
    BY <1>0, ElementOfSeq, Zenon
  <2> QED BY <2>1, Zenon
<1> USE <1>0 DEF Callers, ReplyInv, Held, Stopped
<1>1. ASSUME NEW c \in Clients, Request(c) PROVE ReplyInv'
  BY <1>1, ActorAssumption, SMTT(20) DEF Request, program
<1>2. ASSUME NEW c \in Clients, MapWait(c) PROVE ReplyInv'
  BY <1>2, ActorAssumption DEF MapWait, program
<1>3. ASSUME NEW c \in Callers, Submit(c) PROVE ReplyInv'
  BY <1>3, SMTT(30) DEF Submit, program
<1>4. ASSUME NEW c \in Callers, SubmitAfterStop(c) PROVE ReplyInv'
  BY <1>4, SMTT(30) DEF SubmitAfterStop, program
<1>5. CASE Run
  <2> DEFINE c == Head(cmdCh).from
  <2>1. /\ cmdCh # <<>> /\ cmdCh' = Tail(cmdCh) /\ doing = Resting
        /\ c \in Callers /\ c = cmdCh[1].from /\ ending' = ending
    <3>1. cmdCh # <<>> /\ cmdCh' = Tail(cmdCh) /\ doing = Resting
      BY <1>5, Zenon DEF Run
    <3>2. Head(cmdCh) \in [from : Callers, cmd : Command]
      BY <3>1, HeadTailProperties, Zenon
    <3>3. ending' = ending
      BY <1>5, Zenon DEF Run, CreateCluster, OtherCommand, MetricsStart, MetricsStop,
           startNodeProcess, StopNodeProcess, killCluster, runHypothesis, program
    <3> QED BY <3>1, <3>2, <3>3, SMTT(30)
  <2>2. Answered(c)
    <3>1. ASSUME NEW n, startNodeProcess(c, n) PROVE Answered(c)
      BY <3>1 DEF startNodeProcess, Spawn, Reply, Resting, Answered
    <3>2. ASSUME NEW n, StopNodeProcess(c, n) PROVE Answered(c)
      BY <3>2, SMTT(30) DEF StopNodeProcess, Reply, Resting, Answered
    <3>3. CASE killCluster(c)
      BY <3>3, Zenon DEF killCluster, Resting, Answered
    <3>4. CASE CreateCluster(c) \/ MetricsStart(c) \/ MetricsStop(c)
      BY <3>4, Zenon DEF CreateCluster, MetricsStart, MetricsStop, Reply, Answered
    <3>5. CASE OtherCommand(c) \/ runHypothesis(c)
      BY <3>5, Zenon DEF OtherCommand, runHypothesis, Reply, Answered
    <3> HIDE DEF c
    <3> QED BY <1>5, <3>1, <3>2, <3>3, <3>4, <3>5, Zenon DEF Run, c
  <2>3. \A r \in Runs : runs'[r] = runs[r] \/ runs[r].pc = "off"
    BY <1>5, RunFields, SMTT(30)
       DEF Run, CreateCluster, OtherCommand, MetricsStart, MetricsStop,
         startNodeProcess, StopNodeProcess, killCluster, runHypothesis,
            CommandInv
  <2>4. /\ Len(cmdCh') = Len(cmdCh) - 1 /\ Len(cmdCh) \in Nat \ {0}
        /\ \A i \in 1 .. Len(cmdCh') : cmdCh'[i] = cmdCh[i + 1]
    BY <2>1
  <2>5. caller[c] = "waiting" /\ \A i \in 1 .. Len(cmdCh') : cmdCh'[i].from # c
    BY <2>1, <2>4, SMTT(30)
  <2>6. \A i \in 2 .. Len(cmdCh) : i - 1 \in 1 .. Len(cmdCh') /\ cmdCh'[i - 1] = cmdCh[i]
    BY <2>4
  <2> HIDE DEF c
  <2> USE DEF Answered
  <2>7. /\ caller' \in [Callers -> {"idle", "submitting", "waiting", "ok", "error"}]
        /\ \A r \in Runs : runs'[r].pc # "call" => caller'[r] = "idle"
    BY <2>2, <2>3, <2>5
  <2>8. /\ \A d \in Callers : Held(d)' => caller'[d] = "waiting"
        /\ doing' # Resting => doing'.from \in Callers
    BY <2>1, <2>2, <2>5, Zenon
  <2>9. \A i \in 1 .. Len(cmdCh') :
          /\ i + 1 \in 1 .. Len(cmdCh) /\ cmdCh'[i].from = cmdCh[i + 1].from
          /\ cmdCh'[i].from \in Callers
    BY <1>00, <2>4, SMTT(30)
  <2>10. \A i \in 1 .. Len(cmdCh') :
           caller'[cmdCh'[i].from] = "waiting" /\ ~Held(cmdCh[i].from)'
    <3> TAKE i \in 1 .. Len(cmdCh')
    <3>1. caller[cmdCh'[i].from] = "waiting" /\ cmdCh'[i].from # c
      BY <2>5, <2>9, SMTT(30)
    <3> QED BY <2>1, <2>2, <2>9, <3>1
  <2>11. \A i, j \in 1 .. Len(cmdCh') : cmdCh'[i].from = cmdCh'[j].from => i = j
    <3> TAKE i, j \in 1 .. Len(cmdCh')
    <3>1. cmdCh'[i].from = cmdCh'[j].from => i + 1 = j + 1
      BY <2>9, SMTT(30)
    <3> QED BY <2>4, <3>1
  <2>12. \A d \in Callers : caller'[d] = "waiting" /\ ~Stopped' =>
           Held(d)' \/ \E i \in 1 .. Len(cmdCh') : cmdCh'[i].from = d
    <3> TAKE d \in Callers
    <3>1. CASE d = c
      BY <2>1, <2>2, <2>5, <3>1, SMTT(30)
    <3>2. CASE d # c
      <4>1. caller'[d] = caller[d]
        BY <2>2, <3>2, Zenon
      <4>2. ASSUME NEW i \in 1 .. Len(cmdCh), cmdCh[i].from = d
            PROVE  \E k \in 1 .. Len(cmdCh') : cmdCh'[k].from = d
        <5>1. i \in 2 .. Len(cmdCh)
          BY <2>1, <2>4, <3>2, <4>2
        <5> QED BY <2>6, <4>2, <5>1
      <4> QED BY <2>1, <4>1, <4>2, Zenon
    <3> QED BY <3>1, <3>2, Zenon
  <2> QED BY <2>7, <2>8, <2>10, <2>11, <2>12, Zenon
<1>6. CASE InsertProcess
  BY <1>6, SMTT(30) DEF InsertProcess, Reply, program, Resting
<1>7. CASE ForgetProcesses
  BY <1>7, SMTT(20) DEF ForgetProcesses, Reply, program, Resting
<1>8. CASE stopAllManagedNodeProcesses \/ Stop \/ Return
  BY <1>8, SMTT(30) DEF stopAllManagedNodeProcesses, Stop, Return, mailbox
<1>9. ASSUME NEW p \in Process, Exit(p) \/ Wait(p) \/ RegisterNode(p)
      PROVE  ReplyInv'
  BY <1>9, SMTT(20) DEF Exit, Wait, RegisterNode, mailbox, program
<1>10. ASSUME NEW r \in Runs, executeHypothesis(r) PROVE ReplyInv'
  <2>1. /\ cmdCh' = cmdCh /\ doing' = doing /\ ending' = ending
        /\ \A q \in Runs \ {r} : runs'[q] = runs[q]
    BY <1>10 DEF executeHypothesis, BeginBatch, NextCommand, CommandDone, FinishRun,
                unchangedByRun, program, CommandInv
  <2>2. CASE BeginBatch(r) \/ FinishRun(r)
    BY <2>1, <2>2 DEF BeginBatch, FinishRun
  <2>3. CASE NextCommand(r)
    BY <2>1, <2>3, RunFields, SMTT(30) DEF NextCommand, CommandInv
  <2>4. CASE CommandDone(r)
    BY <2>1, <2>4 DEF CommandDone
  <2> QED BY <1>10, <2>2, <2>3, <2>4, Zenon DEF executeHypothesis
<1>11. CASE UNCHANGED vars
  BY <1>11, Zenon DEF vars, mailbox, program
<1> QED BY <1>1, <1>2, <1>3, <1>4, <1>5, <1>6, <1>7, <1>8, <1>9, <1>10, <1>11, Zenon
        DEF Next, Actor

(* No reply is lost, misdirected or made twice while the actor runs        *)
(* (command.go:72-84, actor.go:61-67).                                     *)
THEOREM RepliesAreExact == Spec => []OneReplyEach
<1>1. Init => CommandInv /\ ReplyInv
  <2> SUFFICES ASSUME Init PROVE ReplyInv
    BY ActorInitially, Zenon
  <2>1. cmdCh = <<>> /\ doing = Resting /\ caller = [c \in Callers |-> "idle"]
    BY Zenon DEF Init, Callers
  <2>2. 1 .. Len(cmdCh) = {}
    BY <2>1
  <2>3. \A c \in Callers : caller[c] = "idle" /\ ~Held(c)
    BY <2>1, Zenon DEF Held
  <2>4. caller \in [Callers -> {"idle", "submitting", "waiting", "ok", "error"}]
    BY <2>1, Zenon
  <2>5. Runs \subseteq Callers
    BY Zenon DEF Callers
  <2> QED BY <2>1, <2>2, <2>3, <2>4, <2>5, Zenon DEF ReplyInv
<1>2. CommandInv /\ ReplyInv /\ [Next]_vars => (CommandInv /\ ReplyInv)'
  BY CommandsAreCommands, RepliesStep, Zenon
<1>3. ReplyInv => OneReplyEach
  BY SMTT(30) DEF ReplyInv, OneReplyEach, Held, Stopped, Callers
<1> QED BY <1>1, <1>2, <1>3, PTL DEF Spec
=============================================================================
