----------------------------- MODULE Hypothesis -----------------------------
(***************************************************************************)
(* A hypothesis (internal/experiment): its timeline is validated, put in   *)
(* order of time and compiled to batches of command lines, and only then   *)
(* are these parsed and executed, one batch after another, until one of    *)
(* them fails (executeHypothesis in internal/controlplane/actor.go).       *)
(*                                                                         *)
(* The commands of one batch are a set: the properties hold in whichever   *)
(* order they are executed.                                                *)
(***************************************************************************)
EXTENDS CommandParser

CONSTANTS
  Members,   \* the ids of cluster.members
  Steps,     \* the timeline steps a hypothesis file is made of
  MaxSteps   \* bound on the length of the timeline

ASSUME HypothesisAssumption ==
  /\ MaxSteps \in Nat \ {0} /\ IsFiniteSet(Members)
  /\ \A s \in Steps : /\ s.at \in Nat /\ s.groups \in Seq(Seq(STRING))
                       /\ s.key \in Seq(STRING) /\ s.value \in Seq(STRING)
  /\ {"4001", "9091"} \subseteq Numbers /\ {"true", "false"} \subseteq Booleans

VARIABLES
  timeline,  \* the steps as they are in the file
  phase,     \* "file", "running", "rejected", "failed" or "completed"
  batches,   \* the lines that each step was compiled to
  todo,      \* the steps not begun, by their place in the file
  step,      \* the step being executed, 0 for none
  commands,  \* the lines of that step still to be executed
  cut,       \* <<n, p>>: n's fault engine cuts it off from p
  missed     \* history: some peer has missed a fault update

vars == <<timeline, phase, batches, todo, step, commands, cut, missed>>

Ids(group) == {group[i] : i \in DOMAIN group}

Init ==
  /\ timeline \in UNION {[1 .. len -> Steps] : len \in 1 .. MaxSteps}
  /\ phase = "file" /\ batches = <<>>
  /\ todo = DOMAIN timeline /\ step = 0 /\ commands = {}
  /\ cut = {} /\ missed = FALSE

-----------------------------------------------------------------------------
(* Validate: a partition or a heal needs two groups, none of them empty; a *)
(* write needs a key and a value, and groups if it is to a group.  Key and *)
(* value are sequences of words.                                           *)
Valid(s) ==
  CASE s.action \in {"partition", "heal_partition"} ->
         Len(s.groups) >= 2 /\ \A i \in DOMAIN s.groups : s.groups[i] # <<>>
    [] s.action = "write" ->
         s.key # <<>> /\ s.value # <<>> /\ (s.target = "group" => s.groups # <<>>)
    [] s.action = "read_all" -> s.key # <<>>
    [] OTHER -> s.action \in {"start_cluster", "start_metrics_collection"}

(* The members a write goes to; none if its target is not resolved: the    *)
(* first of the group, every member, or the node named.                    *)
resolveWriteTargets(s) ==
  CASE s.target = "all" -> Members
    [] s.target = "group" ->
         IF s.index \in DOMAIN s.groups THEN {Head(s.groups[s.index])} \cap Members
                                        ELSE {}
    [] OTHER -> {s.target} \cap Members

(* Faulty variant: only neighbouring groups are set against each other.    *)
NeighbouringPairs(s) ==
  UNION {Ids(s.groups[i]) \X Ids(s.groups[i + 1]) : i \in 1 .. Len(s.groups) - 1}

(* Every pair of nodes of two different groups, the earlier group's first. *)
GroupPairs(s) ==
  UNION {UNION {Ids(s.groups[i]) \X Ids(s.groups[j]) : j \in i + 1 .. Len(s.groups)} :
         i \in DOMAIN s.groups}

Compiles(s) ==
  CASE s.action \in {"partition", "heal_partition"} ->
         UNION {Ids(s.groups[i]) : i \in DOMAIN s.groups} \subseteq Members
    [] s.action = "write" -> resolveWriteTargets(s) # {}
    [] OTHER -> TRUE

(* The lines, with "c" for the id of the cluster and one word for each port*)
(* and list of peers; what is logged is one word too.                      *)
Line(name, words) == <<name, "c">> \o words

compilePartitionCommands(s, event, enabled) ==
  {Line("log-lifecycle", <<"SYSTEM", event, "text">>)} \cup
  {Line("fault-partition", <<pair[1], pair[2], enabled>>) : pair \in GroupPairs(s)}

(* buildPeerList: nothing at all for the only member.                      *)
PeerList(n) == IF Members = {n} THEN <<>> ELSE <<"peers">>

compileStartClusterCommands ==
  {<<"cp", "new-cluster", "c">>, Line("log-lifecycle", <<"SYSTEM", "NODE_JOIN", "text">>)}
  \cup {<<"start-node", n, "4001", "--cluster-id", "c", "--host", "host", "--peers">>
          \o PeerList(n) \o <<"--cp-host", "cp-host", "--cp-port", "9091">> : n \in Members}

compileCommands(s) ==
  CASE s.action = "start_cluster" -> compileStartClusterCommands
    [] s.action = "start_metrics_collection" -> {Line("metrics-start", <<>>)}
    [] s.action = "partition" -> compilePartitionCommands(s, "PARTITION", "true")
    [] s.action = "heal_partition" -> compilePartitionCommands(s, "HEAL", "false")
    [] s.action = "write" ->
         {Line("kv-put", <<n>> \o s.key \o s.value) : n \in resolveWriteTargets(s)}
    [] s.action = "read_all" -> {Line("kv-get", <<n>> \o s.key) : n \in Members}

(* Faulty variant: a step that cannot be compiled is passed over.          *)
CompileSkipping ==
  /\ phase = "file"
  /\ phase' = "running"
  /\ batches' = [i \in DOMAIN timeline |->
                   IF Valid(timeline[i]) /\ Compiles(timeline[i])
                     THEN compileCommands(timeline[i]) ELSE {}]
  /\ UNCHANGED <<timeline, todo, step, commands, cut, missed>>

Compile ==
  /\ phase = "file"
  /\ IF \A i \in DOMAIN timeline : Valid(timeline[i]) /\ Compiles(timeline[i])
     THEN /\ batches' = [i \in DOMAIN timeline |-> compileCommands(timeline[i])]
          /\ phase' = "running"
     ELSE /\ phase' = "rejected"
          /\ UNCHANGED batches
  /\ UNCHANGED <<timeline, todo, step, commands, cut, missed>>

-----------------------------------------------------------------------------
(* executeHypothesis.  Normalize has sorted the steps by time and kept the *)
(* order of the file between steps of the same time.                       *)

AnyFirst(i) == \A j \in todo : timeline[i].at <= timeline[j].at

First(i) ==
  \A j \in todo : \/ timeline[i].at < timeline[j].at
                  \/ timeline[i].at = timeline[j].at /\ i <= j

BeginBatch ==
  /\ phase = "running" /\ commands = {} /\ todo # {}
  /\ \E i \in todo :
       /\ First(i)
       /\ step' = i /\ todo' = todo \ {i} /\ commands' = batches[i]
  /\ UNCHANGED <<timeline, phase, batches, cut, missed>>

(* The actor's fault-partition: first the node, whose failure is reported, *)
(* then its peer, whose failure is not.                                    *)
SetPartition(c) ==
  LET change(from, to) == IF c.enabled = "true" THEN {<<from, to>>} ELSE {}
      kept(pairs) == IF c.enabled = "true" THEN cut ELSE cut \ pairs
      there == <<c.node, c.peer>>
      back == <<c.peer, c.node>>
  IN  \/ /\ cut' = kept({there, back}) \cup change(c.node, c.peer)
                                       \cup change(c.peer, c.node)
         /\ UNCHANGED missed
      \/ /\ cut' = kept({there}) \cup change(c.node, c.peer)
         /\ missed' = TRUE

(* A line that is read is submitted to the actor.                          *)
ExecuteCommand(line) ==
  /\ line \in commands
  /\ commands' = commands \ {line}
  /\ LET c == ReadCommand(line)
     IN  CASE c.type = "refused" -> FALSE
           [] c.type = "fault-partition" -> SetPartition(c)
           [] OTHER -> UNCHANGED <<cut, missed>>
  /\ UNCHANGED <<timeline, phase, batches, todo, step>>

(* A line that is refused, or a command that fails, ends the run, with     *)
(* whatever it has done so far.                                            *)
CommandFails ==
  /\ commands # {}
  /\ phase = "running" /\ phase' = "failed"
  /\ commands' = {}
  /\ UNCHANGED <<timeline, batches, todo, step, cut, missed>>

Complete ==
  /\ phase = "running" /\ commands = {} /\ todo = {}
  /\ phase' = "completed"
  /\ UNCHANGED <<timeline, batches, todo, step, commands, cut, missed>>

Ended == phase \in {"rejected", "failed", "completed"} /\ UNCHANGED vars

Next ==
  \/ Compile \/ BeginBatch \/ CommandFails \/ Complete \/ Ended
  \/ \E line \in commands : ExecuteCommand(line)

Spec == Init /\ [][Next]_vars

-----------------------------------------------------------------------------

Separated(n, p) == <<n, p>> \in cut \/ <<p, n>> \in cut

(* The step just executed, to the end and without a failure.               *)
Executed(action) ==
  /\ step # 0 /\ commands = {} /\ phase \in {"running", "completed"}
  /\ timeline[step].action = action

InGroup(s, n) == {i \in DOMAIN s.groups : n \in Ids(s.groups[i])}

(* A partition step that is carried out keeps every two nodes of different *)
(* groups apart, even when only one of them took the fault update          *)
(* (command_parser.go:119-141, actor.go:369-380).                          *)
PartitionSeparatesGroups ==
  Executed("partition") =>
    \A n, p \in Members :
      (\E i \in InGroup(timeline[step], n), j \in InGroup(timeline[step], p) : i # j)
        => Separated(n, p)

(* No command of a hypothesis is executed unless all of its steps can be:  *)
(* an error in a later step is found before the first (actor.go:693-702).  *)
AllOrNothing ==
  step # 0 => \A i \in DOMAIN timeline : Valid(timeline[i]) /\ Compiles(timeline[i])

(* Of two steps at the same time the later in the file has its way:        *)
(* Normalize keeps their order, so that a hypothesis that only changes     *)
(* partitions of the same groups ends as its last step, by time and then   *)
(* by place, says, if every node took every update (experiment.go:109-118).*)
LastStepDecides ==
  phase = "completed" /\ ~missed =>
    \A i \in DOMAIN timeline :
      (\A j \in DOMAIN timeline :
         /\ timeline[j].action \in {"partition", "heal_partition"}
         /\ timeline[j].groups = timeline[i].groups
         /\ \/ timeline[j].at < timeline[i].at
            \/ timeline[j].at = timeline[i].at /\ j <= i)
      => (cut = {} <=> timeline[i].action = "heal_partition")

(* What a step asks for, command by command.                               *)
Asked(s) ==
  LET logged(event) ==
        [type |-> "log-lifecycle", cluster |-> "c", node |-> "SYSTEM",
         event |-> event, value |-> <<"text">>]
      split(event, enabled) ==
        {logged(event)} \cup
        {[type |-> "fault-partition", cluster |-> "c", node |-> pair[1],
          peer |-> pair[2], enabled |-> enabled] : pair \in GroupPairs(s)}
  IN  CASE s.action = "start_cluster" ->
             {[type |-> "new-cluster", cluster |-> "c", protocol |-> "gossip"],
              logged("NODE_JOIN")}
             \cup {[type |-> "start-node", cluster |-> "c", node |-> n, port |-> "4001",
                    host |-> "host", peers |-> "peers", cpHost |-> "cp-host",
                    cpPort |-> "9091"] : n \in Members}
        [] s.action = "start_metrics_collection" ->
             {[type |-> "metrics-start", cluster |-> "c"]}
        [] s.action = "partition" -> split("PARTITION", "true")
        [] s.action = "heal_partition" -> split("HEAL", "false")
        [] s.action = "write" ->
             {[type |-> "kv-put", cluster |-> "c", node |-> n, key |-> Head(s.key),
               value |-> Head(s.value)] : n \in resolveWriteTargets(s)}
        [] s.action = "read_all" ->
             {[type |-> "kv-get", cluster |-> "c", node |-> n, key |-> Head(s.key)] :
              n \in Members}

(* What is executed is what the timeline asks for: the parser reads every  *)
(* line that the compiler writes back to the command that was meant, as    *)
(* long as keys and values are single words and a cluster to be started    *)
(* has more than one member (command_parser.go:48-112, parser.go:22-80).   *)
LinesSayWhatIsAsked ==
  phase = "running" /\ step = 0 =>
    \A i \in DOMAIN timeline :
      /\ Valid(timeline[i]) /\ Compiles(timeline[i])
      /\ timeline[i].action \in {"write", "read_all"} =>
           Len(timeline[i].key) = 1 /\ Len(timeline[i].value) = 1
      /\ timeline[i].action = "start_cluster" => Cardinality(Members) > 1
      => {ReadCommand(line) : line \in batches[i]} = Asked(timeline[i])

-----------------------------------------------------------------------------
(* What the code does not keep: Hypothesis_not_kept.cfg and                *)
(* Hypothesis_single.cfg end in counterexamples.                           *)

(* "`heal_partition`: Restores full network mesh connectivity."            *)
(* (docs/hypothesis-engine.md:54)                                          *)
HealRestoresMesh == Executed("heal_partition") /\ ~missed => cut = {}

(* A write writes the value of its step, however many words it has.        *)
WholeValueIsWritten ==
  phase = "running" => \A i \in DOMAIN timeline : timeline[i].action = "write" =>
    \A line \in batches[i] : ReadCommand(line).value = timeline[i].value[Len(timeline[i].value)]

(* No line that was compiled is refused.                                   *)
NoLineIsRefused ==
  \A i \in DOMAIN batches : \A line \in batches[i] : ReadCommand(line) # Refused
=============================================================================
