--------------------------- MODULE CommandParser ---------------------------
(***************************************************************************)
(* The control plane's command language (internal/controlplane/parser.go). *)
(* A line is the sequence of its words, as strings.Fields gives them; a    *)
(* command is a function from its fields to words.                         *)
(***************************************************************************)
EXTENDS Integers, Sequences, FiniteSetsExt

CONSTANTS
  Numbers,   \* the words that strconv reads as numbers
  Booleans   \* the words that strconv.ParseBool reads

Refused == [type |-> "refused"]

(* The words a command needs after its name; more of them are ignored.     *)
WithoutWords == {"help", "list-node-procs", "list-clusters"}

OfCluster == {"new-cluster", "list-nodes", "kill-cluster", "metrics-start",
              "metrics-stop", "metrics-show"}

OfNode == {"remove-node", "fault-crash", "fault-recover"}

Names ==
  WithoutWords \cup OfCluster \cup OfNode \cup
  {"start-node", "stop-node", "run-hypothesis", "add-node", "set-fault", "fault-drop",
   "fault-delay", "fault-partition", "kv-put", "kv-get", "set-protocol",
   "metrics-watch-key", "log-lifecycle"}

Fields == [name \in Names |->
  CASE name \in WithoutWords -> <<>>
    [] name \in OfCluster -> <<"cluster">>
    [] name \in OfNode -> <<"cluster", "node">>
    [] name = "start-node" -> <<"node", "port">>
    [] name = "stop-node" -> <<"node">>
    [] name = "run-hypothesis" -> <<"file">>
    [] name = "add-node" -> <<"cluster", "node", "host", "port">>
    [] name = "set-fault" -> <<"cluster", "node", "crashed", "dropRate", "delay">>
    [] name = "fault-drop" -> <<"cluster", "node", "dropRate">>
    [] name = "fault-delay" -> <<"cluster", "node", "delay">>
    [] name = "fault-partition" -> <<"cluster", "node", "peer", "enabled">>
    [] name = "kv-put" -> <<"cluster", "node", "key", "value">>
    [] name = "kv-get" -> <<"cluster", "node", "key">>
    [] name = "set-protocol" -> <<"cluster", "protocol">>
    [] name = "metrics-watch-key" -> <<"cluster", "key">>
    [] name = "log-lifecycle" -> <<"cluster", "node", "event", "value">>]

(* The fields of two commands in one; the first one's count.               *)
Join(c, d) == [f \in DOMAIN c \cup DOMAIN d |-> IF f \in DOMAIN c THEN c[f] ELSE d[f]]

(* Two commands have a second name.                                        *)
CommandType(name) ==
  CASE name = "run-experiment" -> "run-hypothesis"
    [] name = "stop-cluster" -> "kill-cluster"
    [] OTHER -> name

(* strconv.Atoi, ParseFloat and ParseBool.                                 *)
Readable(field, word) ==
  CASE field \in {"port", "cpPort", "delay", "dropRate", "interval"} -> word \in Numbers
    [] field \in {"crashed", "enabled"} -> word \in Booleans
    [] OTHER -> TRUE

(* The fields that are at their places, as a function.                     *)
Positional(parts) ==
  LET fields == Fields[CommandType(Head(parts))]
  IN  [f \in {fields[i] : i \in DOMAIN fields} |->
         parts[1 + CHOOSE i \in DOMAIN fields : fields[i] = f]]

(* Options come in pairs from a place on; each must be known and have a    *)
(* value, and the last of its name counts.                                 *)
PairsFrom(parts, from) == {i \in from .. Len(parts) : (i - from) % 2 = 0}

LastOf(parts, places, default) ==
  IF places = {} THEN default ELSE parts[Max(places) + 1]

StartNodeOptions == {"--cluster-id", "--host", "--peers", "--cp-host", "--cp-port"}

(* Faulty variant: the value of an option is taken for the next option.    *)
StartNodeSingles(parts) ==
  LET at == 4 .. Len(parts)
      places(option) == {i \in at : parts[i] = option}
  IN  IF \A i \in at :
           /\ parts[i] \in StartNodeOptions /\ i < Len(parts)
           /\ (parts[i] = "--cp-port" => Readable("cpPort", parts[i + 1]))
      THEN [cluster |-> LastOf(parts, places("--cluster-id"), "default"),
            host |-> LastOf(parts, places("--host"), "localhost"),
            peers |-> LastOf(parts, places("--peers"), ""),
            cpHost |-> LastOf(parts, places("--cp-host"), ""),
            cpPort |-> LastOf(parts, places("--cp-port"), "0")]
      ELSE Refused

StartNode(parts) ==
  LET at == PairsFrom(parts, 4)
      places(option) == {i \in at : parts[i] = option}
  IN  IF \A i \in at :
           /\ parts[i] \in StartNodeOptions /\ i < Len(parts)
           /\ (parts[i] = "--cp-port" => Readable("cpPort", parts[i + 1]))
      THEN [cluster |-> LastOf(parts, places("--cluster-id"), "default"),
            host |-> LastOf(parts, places("--host"), "localhost"),
            peers |-> LastOf(parts, places("--peers"), ""),
            cpHost |-> LastOf(parts, places("--cp-host"), ""),
            cpPort |-> LastOf(parts, places("--cp-port"), "0")]
      ELSE Refused

ProtocolOptions == {"--protocol", "-protocol", "-p"}

(* The words that begin with a dash.                                       *)
Dashed == ProtocolOptions \cup StartNodeOptions

(* The old form names the protocol right after the cluster.                *)
NewCluster(parts) ==
  LET old == Len(parts) > 2 /\ parts[3] \notin Dashed
      at == PairsFrom(parts, IF old THEN 4 ELSE 3)
  IN  IF \A i \in at : parts[i] \in ProtocolOptions /\ i < Len(parts)
      THEN [protocol |-> LastOf(parts, at, IF old THEN parts[3] ELSE "gossip")]
      ELSE Refused

(* The further words of a command, if it takes any.                        *)
Optional(parts) ==
  CASE Head(parts) = "start-node" -> StartNode(parts)
    [] Head(parts) = "new-cluster" -> NewCluster(parts)
    [] Head(parts) = "metrics-start" /\ Len(parts) > 2 ->
         IF Readable("interval", parts[3]) THEN [interval |-> parts[3]] ELSE Refused
    [] Head(parts) = "set-fault" /\ Len(parts) > 6 -> [partition |-> parts[7]]
    [] Head(parts) = "log-lifecycle" -> [value |-> SubSeq(parts, 5, Len(parts))]
    [] OTHER -> <<>>

Parse(parts) ==
  IF \/ parts = <<>>
     \/ CommandType(Head(parts)) \notin Names
     \/ Len(parts) <= Len(Fields[CommandType(Head(parts))])
  THEN Refused
  ELSE IF \/ \E f \in DOMAIN Positional(parts) : ~Readable(f, Positional(parts)[f])
          \/ Optional(parts) = Refused
       THEN Refused
       ELSE Join([type |-> CommandType(Head(parts))],
                 Join(Optional(parts), Positional(parts)))

(* ExecuteRuntimeCommand: an empty line is nothing, cp in front is dropped.*)
ReadCommand(parts) ==
  CASE parts = <<>> -> [type |-> "nothing"]
    [] parts # <<>> /\ Head(parts) = "cp" -> Parse(Tail(parts))
    [] OTHER -> Parse(parts)
=============================================================================
