--------------------------- MODULE MetricsProofs ----------------------------
(***************************************************************************)
(* What the metrics sessions of a cluster keep for any number of clients,  *)
(* sessions and keys, and what Compute makes of any number of snapshots of *)
(* any number of nodes.                                                    *)
(***************************************************************************)
EXTENDS MetricsSession, MetricsCompute, SequenceTheorems, FiniteSetTheorems,
        TLAPS

(* The types of the sessions and of what clients carry from step to step.  *)
SessionsType ==
  /\ sessions \in Seq(Session) /\ total \in Nat /\ started \in Nat
  /\ baseline \in Int
  /\ samplers \in Seq(SUBSET Keys)
  /\ DOMAIN client = Clients
  /\ \A c \in Clients :
       /\ client[c].step = "record" => client[c].keys \subseteq Keys
       /\ client[c].step = "update" => client[c].stats \in Int
       /\ client[c].step = "track" => client[c].key \in Keys

-----------------------------------------------------------------------------
(* One session, with the fields that a step may set.                       *)
LEMMA StoppedFields ==
  ASSUME NEW s \in Session
  PROVE  [s EXCEPT !.stopped = TRUE] \in Session /\ [s EXCEPT !.stopped = TRUE].stopped
BY Zenon DEF Session

(* Storing the statistics leaves a session as stopped as it was.           *)
LEMMA StatsFields ==
  ASSUME NEW s \in Session, NEW stats \in Int
  PROVE  /\ [s EXCEPT !.stats = stats] \in Session
         /\ [s EXCEPT !.stats = stats].stopped = s.stopped
BY Zenon DEF Session

(* So does tracking further keys.                                          *)
LEMMA KeysFields ==
  ASSUME NEW s \in Session, NEW keys \in SUBSET Keys
  PROVE  /\ [s EXCEPT !.keys = @ \cup keys] \in Session
         /\ [s EXCEPT !.keys = @ \cup keys].stopped = s.stopped
BY Zenon DEF Session

(* So does recording a snapshot of some keys.                              *)
LEMMA RecordedFields ==
  ASSUME NEW s \in Session, NEW keys \in SUBSET Keys
  PROVE  /\ [s EXCEPT !.keys = @ \cup keys, !.samples = @ \cup keys] \in Session
         /\ [s EXCEPT !.keys = @ \cup keys, !.samples = @ \cup keys].stopped = s.stopped
BY Zenon DEF Session

-----------------------------------------------------------------------------
(* A step leaves the sessions alone, changes the last one, or adds one     *)
(* when none is active.                                                    *)
SameStopped == sessions' = sessions \/
  \E s \in Session :
    /\ sessions # <<>> /\ s.stopped = Last.stopped
    /\ sessions' = [sessions EXCEPT ![Len(sessions)] = s]

Stops == \E s \in Session :
  /\ sessions # <<>> /\ s.stopped
  /\ sessions' = [sessions EXCEPT ![Len(sessions)] = s]

Starts == ~IsActive /\ sessions' = Append(Keep(sessions), NewSession)

(* The latest session is a session when there is one.                      *)
LEMMA LastType ==
  ASSUME SessionsType, sessions # <<>> PROVE Last \in Session
BY ElementOfSeq DEF SessionsType, Last

(* A snapshot, like any change of the last session but Stop's, leaves it   *)
(* as active as it was.                                                    *)
LEMMA RecordKeepsStopped ==
  ASSUME SessionsType, NEW keys \in SUBSET Keys, RecordSnapshot(keys)
  PROVE  SameStopped
<1>1. CASE ~IsActive \/ keys = {}
  BY <1>1, Zenon DEF RecordSnapshot, SameStopped
<1>2. CASE IsActive /\ keys # {}
  <2> DEFINE s == [Last EXCEPT !.keys = @ \cup keys, !.samples = @ \cup keys]
  <2>1. sessions # <<>> /\ Last \in Session
    BY <1>2, LastType, Zenon DEF IsActive
  <2>2. s \in Session /\ s.stopped = Last.stopped
    BY <2>1, RecordedFields, Zenon
  <2>3. sessions' = [sessions EXCEPT ![Len(sessions)] = s]
    BY <1>2, <2>1, Zenon DEF RecordSnapshot, Last, SessionsType
  <2> QED BY <2>1, <2>2, <2>3, Zenon DEF SameStopped
<1> QED BY <1>1, <1>2, Zenon

(* What each operation on the latest session does to it: only Stop seals   *)
(* it, and only when it is active (session_manager.go:85-108).             *)
LEMMA ActionsTouch ==
  ASSUME SessionsType
  PROVE  /\ \A c \in Clients : StopRecords(c) => SameStopped
         /\ \A c \in Clients : UpdateSessionStats(c) => SameStopped
         /\ \A c \in Clients : TrackKey(c) => SameStopped
         /\ \A c \in Clients : Stop(c) => IF IsActive THEN Stops ELSE sessions' = sessions
         /\ \A i \in DOMAIN samplers : SamplerRecords(i) => SameStopped
<1>1. ASSUME NEW c \in Clients, StopRecords(c) PROVE SameStopped
  BY <1>1, RecordKeepsStopped, Zenon DEF StopRecords, Move, SessionsType
<1>2. ASSUME NEW i \in DOMAIN samplers, SamplerRecords(i) PROVE SameStopped
  <2>1. samplers[i] \subseteq Keys
    BY DEF SessionsType
  <2> QED BY <1>2, <2>1, RecordKeepsStopped, Zenon DEF SamplerRecords
<1>3. ASSUME NEW c \in Clients, UpdateSessionStats(c), sessions # <<>>
      PROVE  SameStopped
  <2> DEFINE s == [Last EXCEPT !.stats = client[c].stats]
  <2>1. Last \in Session /\ client[c].stats \in Int
    BY <1>3, LastType, Zenon DEF UpdateSessionStats, Move, SessionsType
  <2>2. s \in Session /\ s.stopped = Last.stopped
    BY <2>1, StatsFields, Zenon
  <2>3. sessions' = [sessions EXCEPT ![Len(sessions)] = s]
    BY <1>3, Zenon DEF UpdateSessionStats, Last, SessionsType
  <2> QED BY <1>3, <2>2, <2>3, Zenon DEF SameStopped
<1>4. ASSUME NEW c \in Clients, TrackKey(c), IsActive PROVE SameStopped
  <2> DEFINE s == [Last EXCEPT !.keys = @ \cup {client[c].key}]
  <2>1. sessions # <<>> /\ Last \in Session /\ {client[c].key} \subseteq Keys
    BY <1>4, LastType, Zenon DEF TrackKey, Move, SessionsType, IsActive
  <2>2. s \in Session /\ s.stopped = Last.stopped
    BY <2>1, KeysFields, Zenon
  <2>3. sessions' = [sessions EXCEPT ![Len(sessions)] = s]
    BY <1>4, Zenon DEF TrackKey, Last, SessionsType
  <2> QED BY <2>1, <2>2, <2>3, Zenon DEF SameStopped
<1>5. ASSUME NEW c \in Clients, Stop(c), IsActive PROVE Stops
  <2> DEFINE s == [Last EXCEPT !.stopped = TRUE]
  <2>1. sessions # <<>> /\ Last \in Session
    BY <1>5, LastType, Zenon DEF IsActive
  <2>2. s \in Session /\ s.stopped
    BY <2>1, StoppedFields, Zenon
  <2>3. sessions' = [sessions EXCEPT ![Len(sessions)] = s]
    BY <1>5, Zenon DEF Stop, Last, SessionsType
  <2> QED BY <2>1, <2>2, <2>3, Zenon DEF Stops
<1>6. ASSUME NEW c \in Clients
      PROVE  /\ UpdateSessionStats(c) => SameStopped
             /\ TrackKey(c) => SameStopped
             /\ Stop(c) => IF IsActive THEN Stops ELSE sessions' = sessions
  BY <1>3, <1>4, <1>5, Zenon DEF UpdateSessionStats, TrackKey, Stop, SameStopped
<1> QED BY <1>1, <1>2, <1>6, Zenon

(* So every step leaves the history alone, changes its latest session or   *)
(* starts one when none is active (session_manager.go:60-66).              *)
LEMMA SessionsChange ==
  ASSUME SessionsType, [Next]_vars
  PROVE  SameStopped \/ Starts \/ Stops
<1>1. ASSUME sessions' # sessions
      PROVE  \/ \E c \in Clients : \/ Start(c) \/ StopRecords(c) \/ TrackKey(c)
                                   \/ UpdateSessionStats(c) \/ Stop(c)
             \/ \E i \in DOMAIN samplers : SamplerRecords(i)
  BY <1>1, Zenon
     DEF Next, Client, vars, SetBaseline, LaunchSampler, StopReads, CancelLoop,
       FinalStats, ExecuteKVPut, AddMetricsWatchKey, SamplerReads
<1>2. ASSUME NEW c \in Clients, Start(c) PROVE Starts
  BY <1>2, Zenon DEF Start, Starts
<1>3. sessions' = sessions => SameStopped
  BY Zenon DEF SameStopped
<1> QED BY <1>1, <1>2, <1>3, ActionsTouch, Zenon

-----------------------------------------------------------------------------
(* The types hold and every step keeps them.                               *)
LEMMA TypeInitially == Init => SessionsType
BY DEF Init, SessionsType, At, None

(* A start drops at most the oldest session of the history                 *)
(* (session_manager.go:60-82).                                             *)
LEMMA KeepType ==
  ASSUME SessionsType
  PROVE  /\ Keep(sessions) \in Seq(Session)
         /\ Len(sessions) = 0 => Keep(sessions) = sessions
         /\ \/ Keep(sessions) = sessions
            \/ /\ Len(Keep(sessions)) = Len(sessions) - 1
               /\ \A i \in 1 .. Len(Keep(sessions)) : Keep(sessions)[i] = sessions[i + 1]
<1>1. sessions \in Seq(Session) /\ Len(sessions) \in Nat
  BY DEF SessionsType
<1>2. CASE Len(sessions) < Limit
  BY <1>1, <1>2, SessionAssumption DEF Keep
<1>3. CASE Len(sessions) >= Limit
  <2>1. sessions # <<>> /\ Keep(sessions) = Tail(sessions) /\ Len(sessions) # 0
    BY <1>1, <1>3, SessionAssumption DEF Keep
  <2> QED BY <1>1, <2>1
<1> QED BY <1>1, <1>2, <1>3, SessionAssumption

(* The history stays a sequence of sessions.                               *)
LEMMA SessionsSeq ==
  ASSUME SessionsType, [Next]_vars PROVE sessions' \in Seq(Session)
<1>1. CASE SameStopped \/ Stops
  BY <1>1 DEF SameStopped, Stops, SessionsType
<1>2. CASE Starts
  <2>1. NewSession \in Session
    BY DEF NewSession, Session, SessionsType
  <2> QED BY <1>2, <2>1, KeepType DEF Starts
<1> QED BY <1>1, <1>2, SessionsChange, Zenon

(* Every step keeps the types.                                             *)
LEMMA TypeStep == SessionsType /\ [Next]_vars => SessionsType'
<1> SUFFICES ASSUME SessionsType, [Next]_vars PROVE SessionsType'
  BY Zenon
<1>0. sessions' \in Seq(Session)
  BY SessionsSeq, Zenon
<1>1. CASE UNCHANGED vars
  BY <1>0, <1>1, Zenon DEF SessionsType, vars
<1>2. ASSUME NEW i \in DOMAIN samplers, SamplerReads(i) \/ SamplerRecords(i)
      PROVE  SessionsType'
  <2>1. IsActive => Last.keys \subseteq Keys
    BY LastType, Zenon DEF IsActive, Session
  <2>2. \E x \in SUBSET Keys : samplers' = [samplers EXCEPT ![i] = x]
    BY <1>2, <2>1, Zenon DEF SamplerReads, SamplerRecords
  <2>3. samplers' \in Seq(SUBSET Keys)
    BY <2>2 DEF SessionsType
  <2>4. UNCHANGED <<total, baseline, client, started>>
    BY <1>2, Zenon DEF SamplerReads, SamplerRecords
  <2> QED BY <1>0, <2>3, <2>4, Zenon DEF SessionsType
<1>3. ASSUME NEW c \in Clients, Client(c) PROVE SessionsType'
  <2> USE <1>0 DEF SessionsType, Move, At
  <2>1. CASE Start(c)
    BY <2>1 DEF Start
  <2>2. CASE SetBaseline(c)
    BY <2>2 DEF SetBaseline
  <2>3. CASE LaunchSampler(c)
    BY <2>3 DEF LaunchSampler
  <2>4. CASE StopReads(c)
    <3>1. IsActive => Last.keys \subseteq Keys
      BY LastType, Zenon DEF IsActive, Session
    <3> QED BY <2>4, <3>1, Zenon DEF StopReads
  <2>5. CASE StopRecords(c)
    BY <2>5, Zenon DEF StopRecords
  <2>6. CASE CancelLoop(c)
    BY <2>6, Zenon DEF CancelLoop
  <2>7. CASE FinalStats(c)
    BY <2>7 DEF FinalStats, None
  <2>8. CASE UpdateSessionStats(c) \/ Stop(c) \/ TrackKey(c)
    BY <2>8 DEF UpdateSessionStats, Stop, TrackKey
  <2>9. ASSUME NEW k \in Keys, ExecuteKVPut(c, k) \/ AddMetricsWatchKey(c, k)
        PROVE  SessionsType'
    BY <2>9 DEF ExecuteKVPut, AddMetricsWatchKey
  <2> QED BY <1>3, <2>1, <2>2, <2>3, <2>4, <2>5, <2>6, <2>7, <2>8, <2>9, Zenon
  DEF Client
<1> QED BY <1>1, <1>2, <1>3, Zenon DEF Next

-----------------------------------------------------------------------------
(* What becomes of the latest session.                                     *)
LEMMA ActiveAfter ==
  ASSUME SessionsType, [Next]_vars
  PROVE  /\ SameStopped => (IsActive' <=> IsActive)
         /\ Stops => ~IsActive'
         /\ Starts => IsActive'
<1>1. /\ sessions \in Seq(Session) /\ Len(sessions) \in Nat
      /\ sessions # <<>> => Len(sessions) \in 1 .. Len(sessions)
  BY DEF SessionsType
<1>2. ASSUME NEW s \in Session, sessions # <<>>,
             sessions' = [sessions EXCEPT ![Len(sessions)] = s]
      PROVE  sessions' # <<>> /\ Last' = s
  <2>1. Len(sessions') = Len(sessions) /\ sessions'[Len(sessions)] = s
    BY <1>1, <1>2
  <2> QED BY <1>1, <1>2, <2>1 DEF Last
<1>3. SameStopped => (IsActive' <=> IsActive)
  BY <1>2, Zenon DEF SameStopped, IsActive, Last
<1>4. Stops => ~IsActive'
  BY <1>2, Zenon DEF Stops, IsActive
<1>5. Starts => IsActive'
  <2>1. ASSUME Starts PROVE sessions' # <<>> /\ Last' = NewSession
    <3>1. Keep(sessions) \in Seq(Session)
      BY KeepType, Zenon
    <3> HIDE DEF NewSession
    <3> QED BY <2>1, <3>1 DEF Starts, Last
  <2> QED BY <2>1 DEF IsActive, NewSession
<1> QED BY <1>3, <1>4, <1>5, Zenon

(* Every step keeps all sessions but the latest stopped.                   *)
LEMMA LatestStep ==
  ASSUME SessionsType, OnlyLatestActive, [Next]_vars
  PROVE  OnlyLatestActive'
<1>1. sessions \in Seq(Session) /\ Len(sessions) \in Nat
  BY DEF SessionsType
<1>2. CASE SameStopped \/ Stops
  <2>1. CASE sessions' = sessions
    BY <2>1, Zenon DEF OnlyLatestActive
  <2>2. ASSUME NEW s, sessions # <<>>,
               sessions' = [sessions EXCEPT ![Len(sessions)] = s]
        PROVE  OnlyLatestActive'
    BY <1>1, <2>2 DEF OnlyLatestActive
  <2> QED BY <1>2, <2>1, <2>2, Zenon DEF SameStopped, Stops
<1>3. CASE Starts
  <2> DEFINE kept == Keep(sessions)
  <2>1. \A i \in 1 .. Len(sessions) : sessions[i].stopped
    BY <1>1, <1>3 DEF Starts, IsActive, Last, OnlyLatestActive
  <2>2. kept \in Seq(Session) /\ Len(kept) \in Nat
    BY KeepType
  <2>3. \A i \in 1 .. Len(kept) : kept[i].stopped
    <3> HIDE DEF kept
    <3>1. \/ kept = sessions
          \/ /\ Len(kept) = Len(sessions) - 1
             /\ \A i \in 1 .. Len(kept) : kept[i] = sessions[i + 1]
      BY KeepType, Zenon DEF kept
    <3> QED BY <1>1, <2>1, <2>2, <3>1
  <2>4. sessions' = Append(kept, NewSession)
    BY <1>3, Zenon DEF Starts
  <2> HIDE DEF kept
  <2>5. Len(sessions') = Len(kept) + 1 /\ \A i \in 1 .. Len(kept) : sessions'[i] = kept[i]
    BY <2>2, <2>4
  <2> QED BY <2>2, <2>3, <2>5 DEF OnlyLatestActive
<1> QED BY <1>2, <1>3, SessionsChange, Zenon

(* At most the latest session is active, however many clients start and    *)
(* stop sessions at once (session_manager.go:60-66, 85-108).               *)
THEOREM LatestOnlyActive == Spec => []OnlyLatestActive
<1>1. Init => OnlyLatestActive
  BY DEF Init, OnlyLatestActive
<1>2. SessionsType /\ OnlyLatestActive /\ [Next]_vars
      => (SessionsType /\ OnlyLatestActive)'
  BY TypeStep, LatestStep, Zenon
<1> QED BY <1>1, <1>2, TypeInitially, PTL DEF Spec

-----------------------------------------------------------------------------
(* Samplers.  Until two starts or stops have overlapped at most one client *)
(* is inside one, and how far it is says which samplers run.               *)
SamplerInv ==
  /\ loop \in DOMAIN samplers \cup {None} /\ cancelled \subseteq DOMAIN samplers
  /\ ~raced =>
       /\ \A c, d \in Clients : c = d \/ Quiet(c) \/ Quiet(d)
       /\ (\A c \in Clients : Quiet(c) \/ client[c].step \in {"record", "cancel"})
            => Running = IF IsActive THEN {loop} ELSE {}
       /\ \A c \in Clients :
            /\ client[c].step \in {"baseline", "launch"} => IsActive /\ Running = {}
            /\ client[c].step \in {"stats", "update", "seal"} => Running = {}

(* Every step keeps the samplers in line with how far the one client       *)
(* inside a start or a stop is.                                            *)
LEMMA SamplerStep ==
  ASSUME SessionsType, SamplerInv, [Next]_vars PROVE SamplerInv'
<1> USE DEF SamplerInv, Running, Quiet, SessionsType, Move, At
<1>1. CASE UNCHANGED vars
  BY <1>1, Zenon DEF vars, IsActive, Last
<1>2. ASSUME NEW i \in DOMAIN samplers, SamplerReads(i) \/ SamplerRecords(i)
      PROVE  SamplerInv'
  <2>1. IsActive' <=> IsActive
    BY <1>2, ActiveAfter, ActionsTouch, Zenon DEF SamplerReads, SameStopped
  <2>2. DOMAIN samplers' = DOMAIN samplers
    BY <1>2, ZenonT(60) DEF SamplerReads, SamplerRecords
  <2> QED BY <1>2, <2>1, <2>2, Zenon DEF SamplerReads, SamplerRecords
<1>3. ASSUME NEW c \in Clients, Client(c) PROVE SamplerInv'
  <2>1. CASE Start(c)
    <3>1. IsActive' /\ ~IsActive
      BY <2>1, ActiveAfter, Zenon DEF Start, Starts
    <3> QED BY <2>1, <3>1, Zenon DEF Start, Race
  <2>2. CASE Stop(c)
    <3>1. ~IsActive'
      <4>1. CASE IsActive
        BY <2>2, <4>1, ActiveAfter, ActionsTouch, Zenon
      <4>2. CASE ~IsActive
        BY <2>2, <4>2, Zenon DEF Stop, IsActive, Last
      <4> QED BY <4>1, <4>2, Zenon
    <3> QED BY <2>2, <3>1 DEF Stop
  <2>3. ASSUME StopRecords(c) \/ UpdateSessionStats(c) \/ TrackKey(c)
        PROVE  IsActive' <=> IsActive
    BY <2>3, ActiveAfter, ActionsTouch, Zenon
  <2>4. CASE SetBaseline(c)
    BY <2>4 DEF SetBaseline, IsActive, Last
  <2>5. CASE LaunchSampler(c)
    BY <2>5, SMTT(30) DEF LaunchSampler, IsActive, Last
  <2>6. CASE StopReads(c)
    BY <2>6, ZenonT(60) DEF StopReads, Race, IsActive, Last
  <2>7. CASE StopRecords(c)
    BY <2>3, <2>7 DEF StopRecords
  <2>8. CASE CancelLoop(c)
    <3>1. /\ IsActive' <=> IsActive
          /\ samplers' = samplers /\ raced' = raced /\ loop' = None
          /\ cancelled' = cancelled \cup ({loop} \ {None})
      BY <2>8, Zenon DEF CancelLoop, IsActive, Last
    <3>2. /\ client[c].step = "cancel" /\ client'[c].step = "stats"
          /\ \A d \in Clients \ {c} : client'[d] = client[d]
      BY <2>8, Zenon DEF CancelLoop
    <3>3. ~raced => Running \subseteq {loop}
      BY <3>2, Zenon
    <3>4. None \notin DOMAIN samplers
      <4>1. DOMAIN samplers = 1 .. Len(samplers) /\ Len(samplers) \in Nat
        OBVIOUS
      <4> QED BY <4>1 DEF None
    <3>5. ~raced => Running' = {}
      BY <3>1, <3>3, <3>4, Zenon
    <3> QED BY <3>1, <3>2, <3>5
  <2>9. CASE FinalStats(c)
    BY <2>9 DEF FinalStats, IsActive, Last
  <2>10. CASE UpdateSessionStats(c)
    BY <2>3, <2>10 DEF UpdateSessionStats
  <2>11. CASE TrackKey(c)
    BY <2>3, <2>11, Zenon DEF TrackKey
  <2>12. ASSUME NEW k \in Keys, ExecuteKVPut(c, k) \/ AddMetricsWatchKey(c, k)
         PROVE  SamplerInv'
    BY <2>12 DEF ExecuteKVPut, AddMetricsWatchKey, IsActive, Last
  <2> QED BY <1>3, <2>1, <2>2, <2>4, <2>5, <2>6, <2>7, <2>8, <2>9, <2>10, <2>11, <2>12
          DEF Client
<1> QED BY <1>1, <1>2, <1>3, Zenon DEF Next

(* Until starts and stops overlap, the active session and nothing else has *)
(* a running sampler once nobody is inside a start or a stop               *)
(* (service.go:84-90, 110-115).                                            *)
THEOREM SamplersMatchSessions == Spec => []SamplerMatchesSession
<1>1. Init => SamplerInv
  BY DEF Init, SamplerInv, Running, Quiet, IsActive, At
<1>2. SessionsType /\ SamplerInv /\ [Next]_vars => (SessionsType /\ SamplerInv)'
  BY TypeStep, SamplerStep, Zenon
<1>3. SamplerInv => SamplerMatchesSession
  BY Zenon DEF SamplerInv, SamplerMatchesSession
<1> QED BY <1>1, <1>2, <1>3, TypeInitially, PTL DEF Spec

-----------------------------------------------------------------------------
(* What is stopped is frozen.  Sessions are known by their numbers, which  *)
(* no two of the history share and which are all below the next one.       *)
IdInv ==
  /\ \A i, j \in 1 .. Len(sessions) : sessions[i].id = sessions[j].id => i = j
  /\ \A i \in 1 .. Len(sessions) : sessions[i].id < started

(* t is the session s later on.                                            *)
Follows(s, t) ==
  /\ t.id = s.id
  /\ s.stopped => t.stopped /\ t.keys = s.keys /\ t.samples = s.samples

LatestFollows ==
  \E t \in Session :
    /\ sessions # <<>> /\ Follows(Last, t)
    /\ sessions' = [sessions EXCEPT ![Len(sessions)] = t]

(* A session with other fields is the same session, if it is active or     *)
(* only its statistics change.                                             *)
LEMMA FieldsFollow ==
  ASSUME NEW s \in Session
  PROVE  /\ \A stats \in Int : Follows(s, [s EXCEPT !.stats = stats])
         /\ ~s.stopped =>
              /\ Follows(s, [s EXCEPT !.stopped = TRUE])
              /\ \A keys \in SUBSET Keys :
                   /\ Follows(s, [s EXCEPT !.keys = @ \cup keys])
                   /\ Follows(s, [s EXCEPT !.keys = @ \cup keys,
                                           !.samples = @ \cup keys])
BY Zenon DEF Follows, Session

(* A snapshot goes to the active session only (session_manager.go:200-208).*)
LEMMA RecordFollows ==
  ASSUME SessionsType, NEW keys \in SUBSET Keys, RecordSnapshot(keys)
  PROVE  sessions' = sessions \/ LatestFollows
<1>1. CASE ~(IsActive /\ keys # {})
  BY <1>1, Zenon DEF RecordSnapshot
<1>2. CASE IsActive /\ keys # {}
  <2> DEFINE t == [Last EXCEPT !.keys = @ \cup keys, !.samples = @ \cup keys]
  <2>1. sessions # <<>> /\ Last \in Session /\ ~Last.stopped
    BY <1>2, LastType, Zenon DEF IsActive
  <2>2. t \in Session /\ Follows(Last, t)
    BY <2>1, RecordedFields, FieldsFollow, Zenon
  <2>3. sessions' = [sessions EXCEPT ![Len(sessions)] = t]
    BY <1>2, <2>1, Zenon DEF RecordSnapshot, Last, SessionsType
  <2> QED BY <2>1, <2>2, <2>3, Zenon DEF LatestFollows
<1> QED BY <1>1, <1>2, Zenon

(* The operations on the latest session.                                   *)
LEMMA ActionsFollow ==
  ASSUME SessionsType
  PROVE  /\ \A c \in Clients : StopRecords(c) => sessions' = sessions \/ LatestFollows
         /\ \A c \in Clients : UpdateSessionStats(c) => sessions' = sessions \/ LatestFollows
         /\ \A c \in Clients : TrackKey(c) => sessions' = sessions \/ LatestFollows
         /\ \A c \in Clients : Stop(c) => sessions' = sessions \/ LatestFollows
         /\ \A i \in DOMAIN samplers :
              SamplerRecords(i) => sessions' = sessions \/ LatestFollows
<1>1. ASSUME NEW c \in Clients, StopRecords(c)
      PROVE  sessions' = sessions \/ LatestFollows
  BY <1>1, RecordFollows, Zenon DEF StopRecords, Move, SessionsType
<1>2. ASSUME NEW i \in DOMAIN samplers, SamplerRecords(i)
      PROVE  sessions' = sessions \/ LatestFollows
  <2>1. samplers[i] \subseteq Keys
    BY DEF SessionsType
  <2> QED BY <1>2, <2>1, RecordFollows, Zenon DEF SamplerRecords
<1>3. ASSUME NEW c \in Clients, UpdateSessionStats(c), sessions # <<>>
      PROVE  LatestFollows
  <2> DEFINE t == [Last EXCEPT !.stats = client[c].stats]
  <2>1. Last \in Session /\ client[c].stats \in Int
    BY <1>3, LastType, Zenon DEF UpdateSessionStats, Move, SessionsType
  <2>2. t \in Session /\ Follows(Last, t)
    BY <2>1, StatsFields, FieldsFollow, Zenon
  <2>3. sessions' = [sessions EXCEPT ![Len(sessions)] = t]
    BY <1>3, Zenon DEF UpdateSessionStats, Last, SessionsType
  <2> QED BY <1>3, <2>2, <2>3, Zenon DEF LatestFollows
<1>4. ASSUME NEW c \in Clients, TrackKey(c), IsActive PROVE LatestFollows
  <2> DEFINE t == [Last EXCEPT !.keys = @ \cup {client[c].key}]
  <2>1. sessions # <<>> /\ Last \in Session /\ ~Last.stopped
        /\ {client[c].key} \in SUBSET Keys
    BY <1>4, LastType, Zenon DEF TrackKey, Move, SessionsType, IsActive
  <2>2. t \in Session /\ Follows(Last, t)
    BY <2>1, KeysFields, FieldsFollow, Zenon
  <2>3. sessions' = [sessions EXCEPT ![Len(sessions)] = t]
    BY <1>4, Zenon DEF TrackKey, Last, SessionsType
  <2> QED BY <2>1, <2>2, <2>3, Zenon DEF LatestFollows
<1>5. ASSUME NEW c \in Clients, Stop(c), IsActive PROVE LatestFollows
  <2> DEFINE t == [Last EXCEPT !.stopped = TRUE]
  <2>1. sessions # <<>> /\ Last \in Session /\ ~Last.stopped
    BY <1>5, LastType, Zenon DEF IsActive
  <2>2. t \in Session /\ Follows(Last, t)
    BY <2>1, StoppedFields, FieldsFollow, Zenon
  <2>3. sessions' = [sessions EXCEPT ![Len(sessions)] = t]
    BY <1>5, Zenon DEF Stop, Last, SessionsType
  <2> QED BY <2>1, <2>2, <2>3, Zenon DEF LatestFollows
<1>6. ASSUME NEW c \in Clients
      PROVE  /\ UpdateSessionStats(c) => sessions' = sessions \/ LatestFollows
             /\ TrackKey(c) => sessions' = sessions \/ LatestFollows
             /\ Stop(c) => sessions' = sessions \/ LatestFollows
  BY <1>3, <1>4, <1>5, Zenon DEF UpdateSessionStats, TrackKey, Stop
<1> QED BY <1>1, <1>2, <1>6, Zenon

(* A step leaves the history alone, changes its latest session to one that *)
(* follows it, or adds a session with the next number.                     *)
LEMMA HistoryFollows ==
  ASSUME SessionsType, [Next]_vars
  PROVE  /\ sessions' = sessions \/ LatestFollows \/ (Starts /\ started' = started + 1)
         /\ started' >= started
<1>1. ASSUME sessions' # sessions
      PROVE  \/ \E c \in Clients : \/ Start(c) \/ StopRecords(c) \/ TrackKey(c)
                                   \/ UpdateSessionStats(c) \/ Stop(c)
             \/ \E i \in DOMAIN samplers : SamplerRecords(i)
  BY <1>1, Zenon
     DEF Next, Client, vars, SetBaseline, LaunchSampler, StopReads, CancelLoop,
       FinalStats, ExecuteKVPut, AddMetricsWatchKey, SamplerReads
<1>2. ASSUME NEW c \in Clients, Start(c) PROVE Starts /\ started' = started + 1
  BY <1>2, Zenon DEF Start, Starts
<1>3. started' = started \/ started' = started + 1
  BY Zenon DEF Next, Client, vars, Start, SetBaseline, LaunchSampler, StopReads,
     StopRecords, CancelLoop, FinalStats, UpdateSessionStats, Stop, TrackKey,
     ExecuteKVPut, AddMetricsWatchKey, SamplerReads, SamplerRecords
<1>4. started' >= started
  BY <1>3 DEF SessionsType
<1> QED BY <1>1, <1>2, <1>4, ActionsFollow, Zenon

(* The session at j was started by this step.                              *)
NewAt(j) ==
  /\ j = Len(sessions') /\ sessions'[j].id = started /\ started' = started + 1

(* After a step the sessions of the history are at their places, or all of *)
(* them one place earlier, and a new one has a new number.                 *)
Moved(d) ==
  \A j \in 1 .. Len(sessions') :
    \/ j + d \in 1 .. Len(sessions) /\ Follows(sessions[j + d], sessions'[j])
    \/ NewAt(j)

(* Every step leaves the sessions where they are in the history or moves   *)
(* them by one, when the oldest is dropped.                                *)
LEMMA HistoryMoves ==
  ASSUME SessionsType, [Next]_vars
  PROVE  \E d \in {0, 1} : Moved(d)
<1>1. sessions \in Seq(Session) /\ Len(sessions) \in Nat /\ started \in Nat
  BY DEF SessionsType
<1>2. CASE sessions' = sessions
  <2>1. \A j \in 1 .. Len(sessions) : j + 0 = j /\ Follows(sessions[j], sessions'[j])
    BY <1>1, <1>2 DEF Follows
  <2>2. Moved(0)
    BY <1>2, <2>1, Zenon DEF Moved
  <2> QED BY <2>2, Zenon
<1>3. CASE LatestFollows
  <2>1. PICK t \in Session : /\ sessions # <<>> /\ Follows(Last, t)
                             /\ sessions' = [sessions EXCEPT ![Len(sessions)] = t]
    BY <1>3, Zenon DEF LatestFollows
  <2>2. Len(sessions') = Len(sessions)
        /\ \A j \in 1 .. Len(sessions) :
             sessions'[j] = IF j = Len(sessions) THEN t ELSE sessions[j]
    BY <1>1, <2>1
  <2>3. \A j \in 1 .. Len(sessions) : j + 0 = j /\ Follows(sessions[j], sessions'[j])
    <3>1. \A s : Follows(s, s)
      BY Zenon DEF Follows
    <3>2. Follows(sessions[Len(sessions)], t)
      BY <2>1, Zenon DEF Last
    <3> QED BY <1>1, <2>2, <3>1, <3>2
  <2>4. Moved(0)
    BY <2>2, <2>3, Zenon DEF Moved
  <2> QED BY <2>4, Zenon
<1>4. CASE Starts /\ started' = started + 1
  <2> DEFINE kept == Keep(sessions)
  <2>1. kept \in Seq(Session) /\ Len(kept) \in Nat
    BY KeepType
  <2>2. \/ kept = sessions
        \/ /\ Len(kept) = Len(sessions) - 1
           /\ \A i \in 1 .. Len(kept) : kept[i] = sessions[i + 1]
    BY KeepType, Zenon
  <2>3. sessions' = Append(kept, NewSession) /\ NewSession.id = started
    BY <1>4, Zenon DEF Starts, NewSession
  <2> HIDE DEF kept
  <2>4. /\ Len(sessions') = Len(kept) + 1 /\ sessions'[Len(kept) + 1] = NewSession
        /\ \A j \in 1 .. Len(kept) : sessions'[j] = kept[j]
    BY <2>1, <2>3
  <2>5. \A j \in 1 .. Len(sessions') : j \in 1 .. Len(kept) \/ NewAt(j)
    BY <1>4, <2>1, <2>3, <2>4 DEF NewAt
  <2>6. \A s : Follows(s, s)
    BY Zenon DEF Follows
  <2>7. CASE kept = sessions
    <3>1. \A j \in 1 .. Len(kept) : j + 0 = j /\ Follows(sessions[j], sessions'[j])
      BY <2>1, <2>4, <2>6, <2>7
    <3>2. Moved(0)
      BY <2>5, <2>7, <3>1, Zenon DEF Moved
    <3> QED BY <3>2, Zenon
  <2>8. CASE /\ Len(kept) = Len(sessions) - 1
             /\ \A i \in 1 .. Len(kept) : kept[i] = sessions[i + 1]
    <3>1. \A j \in 1 .. Len(kept) : /\ j + 1 \in 1 .. Len(sessions)
                                    /\ Follows(sessions[j + 1], sessions'[j])
      BY <1>1, <2>1, <2>4, <2>6, <2>8
    <3>2. Moved(1)
      BY <2>5, <3>1, Zenon DEF Moved
    <3> QED BY <3>2, Zenon
  <2> QED BY <2>2, <2>7, <2>8, Zenon
<1> QED BY <1>2, <1>3, <1>4, HistoryFollows, Zenon

(* The numbers given so far are naturals below the next one.               *)
LEMMA IdsBelow ==
  ASSUME SessionsType, IdInv, NEW i \in 1 .. Len(sessions)
  PROVE  sessions[i].id \in Nat /\ sessions[i].id < started
<1>1. sessions[i] \in Session
  BY DEF SessionsType
<1>2. sessions[i].id \in Nat
  BY <1>1, Zenon DEF Session
<1> QED BY <1>2, Zenon DEF IdInv

(* Every step keeps the numbers apart.                                     *)
LEMMA IdStep ==
  ASSUME SessionsType, IdInv, [Next]_vars PROVE IdInv'
<1>1. SessionsType'
  BY TypeStep, Zenon
<1>2. /\ Len(sessions') \in Nat /\ started \in Nat /\ started' \in Nat
      /\ started' >= started
  BY <1>1, HistoryFollows DEF SessionsType
<1>3. \A i \in 1 .. Len(sessions) : sessions[i].id \in Nat /\ sessions[i].id < started
  BY IdsBelow, Zenon
<1>4. PICK d \in {0, 1} : Moved(d)
  BY HistoryMoves, Zenon
<1>5. \A j \in 1 .. Len(sessions') :
        \/ /\ j + d \in 1 .. Len(sessions)
           /\ sessions'[j].id = sessions[j + d].id
        \/ NewAt(j)
  BY <1>4, Zenon DEF Moved, Follows
<1>6. \A j \in 1 .. Len(sessions') : sessions'[j].id < started'
  BY <1>2, <1>3, <1>5, SMTT(30) DEF NewAt
<1>7. ASSUME NEW j \in 1 .. Len(sessions'), NEW k \in 1 .. Len(sessions'),
             sessions'[j].id = sessions'[k].id
      PROVE  j = k
  <2>1. CASE NewAt(j) /\ NewAt(k)
    BY <2>1, Zenon DEF NewAt
  <2>2. CASE ~NewAt(j) /\ ~NewAt(k)
    <3>1. j + d = k + d
      BY <1>5, <1>7, <2>2, Zenon DEF IdInv
    <3> QED BY <1>2, <3>1
  <2>3. CASE NewAt(j) /\ ~NewAt(k)
    <3>1. sessions'[k].id \in Nat /\ sessions'[k].id < started
      BY <1>3, <1>5, <2>3, Zenon
    <3>2. sessions'[j].id = started
      BY <2>3, Zenon DEF NewAt
    <3> QED BY <1>2, <1>7, <3>1, <3>2
  <2>4. CASE ~NewAt(j) /\ NewAt(k)
    <3>1. sessions'[j].id \in Nat /\ sessions'[j].id < started
      BY <1>3, <1>5, <2>4, Zenon
    <3>2. sessions'[k].id = started
      BY <2>4, Zenon DEF NewAt
    <3> QED BY <1>2, <1>7, <3>1, <3>2
  <2> QED BY <2>1, <2>2, <2>3, <2>4, Zenon
<1> QED BY <1>6, <1>7, Zenon DEF IdInv

(* A step that meets a stopped session again finds it as it was.           *)
LEMMA FrozenStep ==
  ASSUME SessionsType, IdInv, [Next]_vars,
         NEW id \in Ids(sessions) \cap Ids(sessions')
  PROVE  Follows(sessions[ById(sessions, id)], sessions'[ById(sessions', id)])
<1> DEFINE a == ById(sessions, id)
           b == ById(sessions', id)
<1>1. DOMAIN sessions = 1 .. Len(sessions) /\ DOMAIN sessions' = 1 .. Len(sessions')
  BY TypeStep DEF SessionsType
<1>2. a \in DOMAIN sessions /\ sessions[a].id = id
  BY Zenon DEF Ids, ById
<1>3. b \in DOMAIN sessions' /\ sessions'[b].id = id
  BY Zenon DEF Ids, ById
<1> HIDE DEF a, b
<1>4. PICK d \in {0, 1} : Moved(d)
  BY HistoryMoves, Zenon
<1>5. ~NewAt(b)
  <2>1. sessions[a].id \in Nat /\ sessions[a].id < started /\ started \in Nat
    BY <1>1, <1>2, IdsBelow, Zenon DEF SessionsType
  <2> QED BY <1>2, <1>3, <2>1 DEF NewAt
<1>6. b + d \in 1 .. Len(sessions) /\ Follows(sessions[b + d], sessions'[b])
  BY <1>1, <1>3, <1>4, <1>5, Zenon DEF Moved
<1>7. b + d = a
  BY <1>1, <1>2, <1>3, <1>6, Zenon DEF IdInv, Follows
<1> QED BY <1>6, <1>7, Zenon DEF a, b

(* A stopped session's keys and snapshots never change, whatever samplers  *)
(* and clients record after the stop and whatever the history drops        *)
(* (session_manager.go:200-208).                                           *)
THEOREM StoppedStayFrozen == Spec => StoppedSessionsFrozen
<1>1. Init => SessionsType /\ IdInv
  BY TypeInitially DEF Init, IdInv
<1>2. SessionsType /\ IdInv /\ [Next]_vars => (SessionsType /\ IdInv)'
  BY TypeStep, IdStep, Zenon
<1>3. SessionsType /\ IdInv /\ [Next]_vars =>
        [\A id \in Ids(sessions) \cap Ids(sessions') :
           LET old == sessions[ById(sessions, id)]
               new == sessions'[ById(sessions', id)]
           IN  old.stopped => /\ new.stopped
                              /\ new.keys = old.keys
                              /\ new.samples = old.samples]_vars
  BY FrozenStep, Zenon DEF Follows
<1> QED BY <1>1, <1>2, <1>3, PTL DEF Spec, StoppedSessionsFrozen


-----------------------------------------------------------------------------
(* Compute: the loop over the snapshots and the loop over one's nodes.     *)

ComputeType ==
  /\ snapshots \in [1 .. Length -> Snapshot]
  /\ todo \subseteq 1 .. Length
  /\ now \in {Absent} \cup ((1 .. Length) \ todo)
  /\ left \subseteq (IF now = Absent THEN {} ELSE Nodes(now))
  /\ counts \in [NodeState -> Nat] /\ topState \in NodeState /\ topCount \in Nat
  /\ \A field \in {"converged", "agreed"} : result[field] \in Times \cup {Absent}

(* The nodes counted so far that are in a state.                           *)
Counted(s) == {n \in Nodes(now) \ left : snapshots[now].nodes[n] = s}

(* The least of the states that are most frequent so far.                  *)
TopInv ==
  now # Absent =>
    /\ \A s \in NodeState : counts[s] = Cardinality(Counted(s))
    /\ topCount = counts[topState]
    /\ \A s \in NodeState :
         counts[s] < topCount \/ (counts[s] = topCount /\ s >= topState)

-----------------------------------------------------------------------------
(* A set of natural numbers has a least element.                           *)
LEMMA LeastNat ==
  ASSUME NEW S \in SUBSET Nat, S # {}
  PROVE  \E x \in S : \A y \in S : x <= y
<1> DEFINE R == OpToRel(<, Nat)
<1>1. IsWellFoundedOn(R, Nat)
  BY NatLessThanWellFounded, Zenon
<1>2. R = {ss \in Nat \X Nat : ss[1] < ss[2]}
  BY Zenon DEF OpToRel
<1> HIDE DEF R
<1>3. S \subseteq Nat /\ S # {}
  BY Zenon
<1>4. \E x \in S : \A y \in S : ~(<<y, x>> \in R)
  BY <1>1, <1>3, WFMin, Zenon
<1>5. PICK x \in S : \A y \in S : <<y, x>> \notin R
  BY <1>4, Zenon
<1>6. ASSUME NEW y \in S PROVE x <= y
  <2>1. x \in Nat /\ y \in Nat /\ <<y, x>> \in Nat \X Nat
    BY Zenon
  <2>2. ~(y < x)
    BY <1>2, <1>5, <2>1, Zenon
  <2> QED BY <2>1, <2>2
<1> QED BY <1>6, Zenon

(* A snapshot: its time and the nodes that it saw.                         *)
LEMMA SnapshotParts ==
  ASSUME NEW ss \in [1 .. Length -> Snapshot], NEW i \in 1 .. Length
  PROVE  /\ ss[i].time \in Times /\ ss[i].time \in Nat
         /\ DOMAIN ss[i].nodes \subseteq NodeIds
         /\ IsFiniteSet(DOMAIN ss[i].nodes)
         /\ \A n \in DOMAIN ss[i].nodes : ss[i].nodes[n] \in NodeState
<1>1. ss[i] \in Snapshot
  BY Zenon
<1>2. /\ ss[i].time \in Times
      /\ ss[i].nodes \in UNION {[S -> NodeState] : S \in SUBSET NodeIds}
  BY <1>1, Zenon DEF Snapshot
<1>3. PICK S \in SUBSET NodeIds : ss[i].nodes \in [S -> NodeState]
  BY <1>2, Zenon
<1>4. DOMAIN ss[i].nodes \subseteq NodeIds /\ IsFiniteSet(NodeIds)
  BY <1>3, ComputeAssumption, Zenon
<1>5. IsFiniteSet(DOMAIN ss[i].nodes)
  BY <1>4, FS_Subset, Zenon
<1> QED BY <1>2, <1>3, <1>4, <1>5, ComputeAssumption, Zenon

(* The sort finds a first snapshot as long as there are snapshots left.    *)
LEMMA EarliestIsFirst ==
  ASSUME snapshots \in [1 .. Length -> Snapshot], todo \subseteq 1 .. Length,
         todo # {}
  PROVE  /\ Earliest \in todo
         /\ \A j \in todo : snapshots[Earliest].time <= snapshots[j].time
<1> DEFINE T == {snapshots[i].time : i \in todo}
<1>1. \A i \in todo : i \in Nat /\ snapshots[i].time \in Nat
  BY SnapshotParts, ComputeAssumption
<1>2. T \in SUBSET Nat /\ T # {}
  BY <1>1, Zenon
<1>3. PICK t \in T : \A u \in T : t <= u
  <2> HIDE DEF T
  <2> QED BY <1>2, LeastNat, Zenon
<1> DEFINE I == {i \in todo : snapshots[i].time = t}
<1>4. I \in SUBSET Nat /\ I # {}
  BY <1>1, <1>3, Zenon
<1>5. PICK i \in I : \A j \in I : i <= j
  <2> HIDE DEF I
  <2> QED BY <1>4, LeastNat, Zenon
<1> DEFINE Precedes(x) ==
      \A j \in todo : \/ snapshots[x].time < snapshots[j].time
                      \/ snapshots[x].time = snapshots[j].time /\ x <= j
<1>6. i \in todo /\ Precedes(i)
  <2>1. i \in todo /\ snapshots[i].time = t
    BY Zenon
  <2>2. ASSUME NEW j \in todo
        PROVE  \/ snapshots[i].time < snapshots[j].time
               \/ snapshots[i].time = snapshots[j].time /\ i <= j
    <3>1. t <= snapshots[j].time /\ t \in Nat /\ snapshots[j].time \in Nat
      BY <1>1, <1>3, <2>1, Zenon
    <3>2. snapshots[j].time = t => i <= j
      BY <1>5, Zenon
    <3> QED BY <2>1, <3>1, <3>2
  <2> QED BY <2>1, <2>2, Zenon
<1>7. Earliest \in todo /\ Precedes(Earliest)
  BY <1>6, Zenon DEF Earliest
<1>8. ASSUME NEW j \in todo PROVE snapshots[Earliest].time <= snapshots[j].time
  BY <1>1, <1>7
<1> QED BY <1>7, <1>8, Zenon

(* The loops keep the types.                                               *)
LEMMA ComputeTypeStep ==
  ASSUME ComputeType, [ComputeNext]_computeVars PROVE ComputeType'
<1>0. Absent \notin 1 .. Length /\ 0 \in NodeState /\ NodeState \subseteq Nat
  BY ComputeAssumption DEF Absent, NodeState
<1>1. CASE NextSnapshot
  <2>1. Earliest \in todo
    BY <1>1, EarliestIsFirst, Zenon DEF ComputeType, NextSnapshot
  <2>2. now' = Earliest /\ todo' = todo \ {Earliest} /\ snapshots' = snapshots
        /\ result' = result
    BY <1>1, Zenon DEF NextSnapshot
  <2>3. now' \in (1 .. Length) \ todo' /\ now' # Absent /\ todo' \subseteq 1 .. Length
    BY <1>0, <2>1, <2>2, Zenon DEF ComputeType
  <2>4. left' = Nodes(now)'
    BY <1>1, <2>2, Zenon DEF NextSnapshot, Nodes
  <2>5. counts' \in [NodeState -> Nat] /\ topState' \in NodeState /\ topCount' \in Nat
    BY <1>0, <1>1, Zenon DEF NextSnapshot
  <2> QED BY <2>2, <2>3, <2>4, <2>5, Zenon DEF ComputeType
<1>2. ASSUME NEW n \in NodeIds, CountState(n) PROVE ComputeType'
  <2>1. now # Absent /\ n \in Nodes(now) /\ now \in 1 .. Length
    BY <1>2, Zenon DEF ComputeType, CountState
  <2>2. snapshots[now].nodes[n] \in NodeState
    BY <2>1, SnapshotParts, Zenon DEF ComputeType, Nodes
  <2>3. /\ snapshots' = snapshots /\ todo' = todo /\ now' = now /\ result' = result
        /\ left' \subseteq left
    BY <1>2, Zenon DEF CountState
  <2>4. left' \subseteq (IF now' = Absent THEN {} ELSE Nodes(now)')
    BY <2>3, Zenon DEF ComputeType, Nodes
  <2> DEFINE state == snapshots[now].nodes[n]
  <2> DEFINE count == counts[state] + 1
  <2>5. state \in NodeState /\ count \in Nat
    BY <2>2 DEF ComputeType
  <2>6. /\ counts' = [counts EXCEPT ![state] = count]
        /\ \/ topState' = state /\ topCount' = count
           \/ topState' = topState /\ topCount' = topCount
    BY <1>2, Zenon DEF CountState
  <2>7. counts' \in [NodeState -> Nat] /\ topState' \in NodeState /\ topCount' \in Nat
    <3> HIDE DEF state, count
    <3> QED BY <2>5, <2>6, Zenon DEF ComputeType
  <2> QED BY <2>3, <2>4, <2>7, Zenon DEF ComputeType
<1>3. CASE FinishSnapshot
  <2>1. now \in 1 .. Length
    BY <1>3, Zenon DEF ComputeType, FinishSnapshot
  <2>2. snapshots[now].time \in Times
    BY <2>1, SnapshotParts, Zenon DEF ComputeType
  <2>3. /\ result'.converged \in {snapshots[now].time, result.converged}
        /\ result'.agreed \in {snapshots[now].time, result.agreed}
    BY <1>3, Zenon DEF FinishSnapshot, AddSnapshot
  <2>4. result.converged \in Times \cup {Absent} /\ result.agreed \in Times \cup {Absent}
    BY Zenon DEF ComputeType
  <2>5. \A field \in {"converged", "agreed"} : result'[field] \in Times \cup {Absent}
    BY <2>2, <2>3, <2>4, Zenon
  <2> QED BY <1>3, <2>5, Zenon DEF FinishSnapshot, ComputeType
<1>4. CASE UNCHANGED computeVars
  BY <1>4, Zenon DEF computeVars, ComputeType, Nodes
<1> QED BY <1>1, <1>2, <1>3, <1>4, Zenon DEF ComputeNext, Finished

(* Counting one more node keeps the least of the most frequent states on   *)
(* top, whichever node it is.                                              *)
LEMMA TopStep ==
  ASSUME ComputeType, TopInv, [ComputeNext]_computeVars PROVE TopInv'
<1>0. Absent \notin 1 .. Length /\ 0 \in NodeState /\ NodeState \subseteq Nat
  BY ComputeAssumption DEF Absent, NodeState
<1>1. CASE NextSnapshot
  <2>1. left' = Nodes(now)' /\ topState' = 0 /\ topCount' = 0
        /\ counts' = [s \in NodeState |-> 0]
    BY <1>1, Zenon DEF NextSnapshot, Nodes
  <2>2. ASSUME NEW s \in NodeState PROVE Cardinality(Counted(s)') = 0
    <3>1. Counted(s)' = {}
      BY <2>1, Zenon DEF Counted
    <3> QED BY <3>1, FS_EmptySet, Zenon
  <2> QED BY <1>0, <2>1, <2>2 DEF TopInv
<1>2. ASSUME NEW n \in NodeIds, CountState(n) PROVE TopInv'
  <2>1. now # Absent /\ n \in Nodes(now) /\ n \in left /\ now \in 1 .. Length
    BY <1>2, Zenon DEF ComputeType, CountState
  <2> DEFINE state == snapshots[now].nodes[n]
  <2> DEFINE count == counts[state] + 1
  <2>2. state \in NodeState /\ counts[state] \in Nat /\ count = counts[state] + 1
    BY <2>1, SnapshotParts, Zenon DEF ComputeType, Nodes
  <2>3. /\ snapshots' = snapshots /\ now' = now /\ left' = left \ {n}
        /\ counts' = [counts EXCEPT ![state] = count]
        /\ IF IsTop(state, count) THEN topState' = state /\ topCount' = count
                                  ELSE topState' = topState /\ topCount' = topCount
    BY <1>2, Zenon DEF CountState
  <2>4. state = snapshots[now].nodes[n]
    BY Zenon
  <2> HIDE DEF state, count
  <2>5. \A s \in NodeState : counts'[s] = IF s = state THEN count ELSE counts[s]
    BY <2>3, Zenon DEF ComputeType
  <2>6. ASSUME NEW s \in NodeState PROVE counts'[s] = Cardinality(Counted(s)')
    <3>1. Counted(s)' = IF s = state THEN Counted(s) \cup {n} ELSE Counted(s)
      BY <2>1, <2>3, <2>4, Zenon DEF Counted, Nodes
    <3>2. IsFiniteSet(Nodes(now)) /\ Counted(s) \subseteq Nodes(now)
      BY <2>1, SnapshotParts, Zenon DEF ComputeType, Nodes, Counted
    <3>3. IsFiniteSet(Counted(s)) /\ n \notin Counted(s)
      BY <2>1, <3>2, FS_Subset, Zenon DEF Counted
    <3>4. Cardinality(Counted(s) \cup {n}) = Cardinality(Counted(s)) + 1
      BY <3>3, FS_AddElement, Zenon
    <3>5. counts[s] = Cardinality(Counted(s))
      BY <2>1, Zenon DEF TopInv
    <3> QED BY <2>2, <2>5, <3>1, <3>4, <3>5, Zenon
  <2>7. /\ \A s \in NodeState : counts[s] \in Nat /\ s \in Nat
        /\ topState \in NodeState /\ topCount \in Nat
    BY <1>0, Zenon DEF ComputeType
  <2>8. /\ topCount = counts[topState]
        /\ \A s \in NodeState :
             counts[s] < topCount \/ (counts[s] = topCount /\ s >= topState)
    BY <2>1, Zenon DEF TopInv
  <2>9. /\ topCount' = counts'[topState']
        /\ \A s \in NodeState :
             counts'[s] < topCount' \/ (counts'[s] = topCount' /\ s >= topState')
    <3>1. CASE IsTop(state, count)
      <4>1. topState' = state /\ topCount' = count
        BY <2>3, <3>1, Zenon
      <4>2. count > topCount \/ (count = topCount /\ state < topState)
        BY <3>1, Zenon DEF IsTop
      <4>3. topCount' = counts'[topState']
        BY <2>2, <2>5, <4>1, Zenon
      <4>4. ASSUME NEW s \in NodeState
            PROVE  counts'[s] < topCount' \/ (counts'[s] = topCount' /\ s >= topState')
        <5>1. CASE s = state
          BY <2>2, <2>5, <2>7, <4>1, <5>1
        <5>2. CASE s # state
          <6>1. counts'[s] = counts[s] /\ counts[s] \in Nat /\ s \in Nat
            BY <2>5, <2>7, <5>2, Zenon
          <6>2. counts[s] < topCount \/ (counts[s] = topCount /\ s >= topState)
            BY <2>8, Zenon
          <6>3. /\ topCount \in Nat /\ topState \in Nat /\ state \in Nat
                /\ count \in Nat
            BY <2>2, <2>7
          <6> QED BY <4>1, <4>2, <6>1, <6>2, <6>3
        <5> QED BY <5>1, <5>2, Zenon
      <4> QED BY <4>3, <4>4, Zenon
    <3>2. CASE ~IsTop(state, count)
      <4>1. topState' = topState /\ topCount' = topCount
        BY <2>3, <3>2, Zenon
      <4>2. ~(count > topCount) /\ ~(count = topCount /\ state < topState)
        BY <3>2, Zenon DEF IsTop
      <4>3. state # topState
        BY <2>2, <2>7, <2>8, <4>2
      <4> QED BY <2>2, <2>5, <2>7, <2>8, <4>1, <4>2, <4>3
    <3> QED BY <3>1, <3>2, Zenon
  <2> QED BY <2>6, <2>9, Zenon DEF TopInv
<1>3. CASE FinishSnapshot
  BY <1>3, Zenon DEF FinishSnapshot, TopInv
<1>4. CASE UNCHANGED computeVars
  BY <1>4, Zenon DEF computeVars, TopInv, Counted, Nodes
<1> QED BY <1>1, <1>2, <1>3, <1>4, Zenon DEF ComputeNext, Finished

(* What Compute reads off a snapshot that is counted is what its metrics   *)
(* mean.                                                                   *)
LEMMA CountedSnapshot ==
  ASSUME ComputeType, TopInv, now # Absent, left = {}
  PROVE  /\ \A s \in NodeState : Frequency(now, s) = counts[s]
         /\ Majority(now) <=> topCount >= Quorum
         /\ Agree(now) <=> Divergence = 0 /\ allNodesExist(now)
<1> DEFINE value(n) == snapshots[now].nodes[n]
<1>0. now \in 1 .. Length
  BY Zenon DEF ComputeType
<1>1. /\ IsFiniteSet(Nodes(now))
      /\ \A n \in Nodes(now) : value(n) \in NodeState
  BY <1>0, SnapshotParts, Zenon DEF ComputeType, Nodes
<1> DEFINE all == Cardinality(Nodes(now))
<1>2. all \in Nat
  BY <1>1, FS_CardinalityType, Zenon
<1>3. \A s \in NodeState : Counted(s) = {n \in Nodes(now) : value(n) = s}
  BY Zenon DEF Counted
<1>4. \A s \in NodeState : Frequency(now, s) = counts[s]
  BY <1>3, Zenon DEF Frequency, TopInv
<1>5. \A s \in NodeState : Frequency(now, s) \in Nat /\ Frequency(now, s) <= topCount
  BY <1>4 DEF ComputeType, TopInv
<1>6. /\ topState \in NodeState /\ topCount = Frequency(now, topState)
      /\ topCount \in Nat
  BY <1>4, Zenon DEF ComputeType, TopInv
<1>7. Majority(now) <=> 2 * topCount > all
  <2>1. ASSUME NEW s \in NodeState, 2 * Frequency(now, s) > all
        PROVE  2 * topCount > all
    <3> HIDE DEF all
    <3> QED BY <1>2, <1>5, <1>6, <2>1
  <2> QED BY <1>6, <2>1, Zenon DEF Majority
<1>8. Majority(now) <=> topCount >= Quorum
  <2> HIDE DEF all
  <2>1. Quorum = all \div 2 + 1
    BY Zenon DEF Quorum, all
  <2>2. 2 * topCount > all <=> topCount >= all \div 2 + 1
    BY <1>2, <1>6
  <2> QED BY <1>7, <2>1, <2>2, Zenon
<1>9. ASSUME Agree(now) PROVE Divergence = 0 /\ allNodesExist(now)
  <2>1. PICK n \in Nodes(now) : TRUE
    BY <1>9, Zenon DEF Agree
  <2>2. {p \in Nodes(now) : value(p) = value(n)} = Nodes(now)
    BY <1>9, Zenon DEF Agree
  <2>3. Frequency(now, value(n)) = all
    BY <2>2, Zenon DEF Frequency
  <2>4. all <= topCount
    <3> HIDE DEF all, value
    <3> QED BY <1>1, <1>5, <2>1, <2>3, Zenon
  <2>5. topCount <= all
    <3>1. Counted(topState) \subseteq Nodes(now)
      BY Zenon DEF Counted
    <3>2. Cardinality(Counted(topState)) <= all
      BY <1>1, <3>1, FS_Subset, Zenon
    <3> QED BY <1>6, <3>2, Zenon DEF TopInv
  <2>6. Divergence = all - topCount
    BY Zenon DEF Divergence
  <2>7. Divergence = 0
    <3> HIDE DEF all
    <3> QED BY <1>2, <1>6, <2>4, <2>5, <2>6
  <2> QED BY <1>9, <2>7, Zenon DEF Agree, allNodesExist
<1>10. ASSUME Divergence = 0, allNodesExist(now) PROVE Agree(now)
  <2>1. topCount = all
    <3>1. Divergence = all - topCount
      BY Zenon DEF Divergence
    <3> HIDE DEF all
    <3> QED BY <1>2, <1>6, <1>10, <3>1
  <2>2. /\ Counted(topState) \subseteq Nodes(now)
        /\ Cardinality(Counted(topState)) = Cardinality(Nodes(now))
    BY <1>6, <2>1, Zenon DEF Counted, TopInv
  <2>3. Counted(topState) = Nodes(now)
    BY <1>1, <2>2, FS_Subset, Zenon
  <2>4. \A n \in Nodes(now) : value(n) = topState
    BY <2>3, Zenon DEF Counted
  <2> QED BY <1>10, <2>4, Zenon DEF allNodesExist, Agree
<1> QED BY <1>4, <1>8, <1>9, <1>10, Zenon

-----------------------------------------------------------------------------
(* The earliest time of a set of snapshots.                                *)
IsFirstTime(t, I) ==
  IF I = {} THEN t = Absent
  ELSE \E i \in I : /\ t = snapshots[i].time
                    /\ \A j \in I : snapshots[i].time <= snapshots[j].time

Processed == (1 .. Length) \ (todo \cup {now})

(* Snapshots are processed in the order of their times, and the result has *)
(* the first times of those that are.                                      *)
FirstInv ==
  /\ \A i \in (1 .. Length) \ todo, j \in todo : snapshots[i].time <= snapshots[j].time
  /\ now # Absent => \A i \in Processed : snapshots[i].time <= snapshots[now].time
  /\ IsFirstTime(result.converged, {i \in Processed : Agree(i)})
  /\ IsFirstTime(result.agreed, {i \in Processed : Majority(i)})

(* One more snapshot, not earlier than the others: its time is the first   *)
(* only if there was none.                                                 *)
LEMMA FirstOfMore ==
  ASSUME snapshots \in [1 .. Length -> Snapshot], NEW I \in SUBSET (1 .. Length),
         NEW i \in 1 .. Length, NEW t, IsFirstTime(t, I),
         \A j \in I : snapshots[j].time <= snapshots[i].time
  PROVE  IsFirstTime(IF t = Absent THEN snapshots[i].time ELSE t, I \cup {i})
<1>1. \A j \in 1 .. Length : snapshots[j].time \in Nat
  BY SnapshotParts, Zenon
<1>2. CASE I = {}
  <2>1. t = Absent /\ I \cup {i} = {i}
    BY <1>2, Zenon DEF IsFirstTime
  <2> QED BY <1>1, <2>1 DEF IsFirstTime
<1>3. CASE I # {}
  <2>1. PICK k \in I : /\ t = snapshots[k].time
                       /\ \A j \in I : snapshots[k].time <= snapshots[j].time
    BY <1>3, Zenon DEF IsFirstTime
  <2>2. t # Absent
    BY <1>1, <2>1 DEF Absent
  <2>3. \A j \in I \cup {i} : snapshots[k].time <= snapshots[j].time
    BY <2>1, Zenon
  <2> QED BY <2>1, <2>2, <2>3, Zenon DEF IsFirstTime
<1> QED BY <1>2, <1>3, Zenon

(* Each snapshot's time is taken when it is the first of its kind.         *)
LEMMA FirstStep ==
  ASSUME ComputeType, TopInv, FirstInv, [ComputeNext]_computeVars
  PROVE  FirstInv'
<1>0. Absent \notin 1 .. Length /\ snapshots \in [1 .. Length -> Snapshot]
  BY ComputeAssumption DEF Absent, ComputeType
<1>1. snapshots' = snapshots
  BY Zenon DEF ComputeNext, NextSnapshot, CountState, FinishSnapshot, Finished,
         computeVars
<1>2. \A i \in 1 .. Length : /\ Agree(i)' <=> Agree(i)
                             /\ Majority(i)' <=> Majority(i)
  BY <1>1, Zenon DEF Agree, Majority, Frequency, Nodes
<1>3. ASSUME Processed' = Processed, result' = result
      PROVE  /\ IsFirstTime(result.converged, {i \in Processed : Agree(i)})'
             /\ IsFirstTime(result.agreed, {i \in Processed : Majority(i)})'
  <2> DEFINE C == {i \in Processed : Agree(i)}
  <2> DEFINE M == {i \in Processed : Majority(i)}
  <2>1. C' = C /\ M' = M
    BY <1>2, <1>3, Zenon DEF Processed
  <2>2. IsFirstTime(result.converged, C) /\ IsFirstTime(result.agreed, M)
    BY Zenon DEF FirstInv
  <2> QED BY <1>1, <1>3, <2>1, <2>2, Zenon DEF IsFirstTime
<1>4. CASE NextSnapshot
  <2>1. /\ now = Absent /\ now' = Earliest /\ todo' = todo \ {Earliest}
        /\ result' = result /\ todo # {} /\ todo \subseteq 1 .. Length
    BY <1>4, Zenon DEF NextSnapshot, ComputeType
  <2>2. /\ Earliest \in todo
        /\ \A j \in todo : snapshots[Earliest].time <= snapshots[j].time
    BY <1>0, <2>1, EarliestIsFirst, Zenon
  <2>3. Processed' = Processed
    BY <1>0, <2>1, <2>2, Zenon DEF Processed
  <2>4. /\ IsFirstTime(result.converged, {i \in Processed : Agree(i)})'
        /\ IsFirstTime(result.agreed, {i \in Processed : Majority(i)})'
    BY <1>3, <2>1, <2>3, Zenon
  <2>5. \A i \in (1 .. Length) \ todo, j \in todo :
          snapshots[i].time <= snapshots[j].time
    BY Zenon DEF FirstInv
  <2>6. \A i \in (1 .. Length) \ todo', j \in todo' :
          snapshots[i].time <= snapshots[j].time
    BY <2>1, <2>2, <2>5, Zenon
  <2>7. \A i \in Processed : snapshots[i].time <= snapshots[Earliest].time
    BY <2>2, <2>5, Zenon DEF Processed
  <2> QED BY <1>1, <2>1, <2>3, <2>4, <2>6, <2>7, Zenon DEF FirstInv
<1>5. ASSUME NEW n \in NodeIds, CountState(n) PROVE FirstInv'
  <2>1. todo' = todo /\ now' = now /\ result' = result
    BY <1>5, Zenon DEF CountState
  <2>2. Processed' = Processed
    BY <2>1, Zenon DEF Processed
  <2>3. /\ IsFirstTime(result.converged, {i \in Processed : Agree(i)})'
        /\ IsFirstTime(result.agreed, {i \in Processed : Majority(i)})'
    BY <1>3, <2>1, <2>2, Zenon
  <2> QED BY <1>1, <2>1, <2>2, <2>3, Zenon DEF FirstInv
<1>6. CASE FinishSnapshot
  <2>1. /\ now # Absent /\ left = {} /\ now' = Absent /\ todo' = todo
        /\ now \in 1 .. Length /\ now \notin todo
    BY <1>6, Zenon DEF FinishSnapshot, ComputeType
  <2>2. Processed' = Processed \cup {now}
    BY <1>0, <2>1, Zenon DEF Processed
  <2>3. /\ Majority(now) <=> topCount >= Quorum
        /\ Agree(now) <=> Divergence = 0 /\ allNodesExist(now)
    BY <2>1, CountedSnapshot, Zenon
  <2>4. /\ result'.converged = IF result.converged = Absent /\ Agree(now)
                               THEN snapshots[now].time ELSE result.converged
        /\ result'.agreed = IF result.agreed = Absent /\ Majority(now)
                            THEN snapshots[now].time ELSE result.agreed
    BY <1>6, <2>3, Zenon DEF FinishSnapshot, AddSnapshot
  <2>5. \A i \in Processed : snapshots[i].time <= snapshots[now].time
    BY <2>1, Zenon DEF FirstInv
  <2>6. IsFirstTime(result.converged, {i \in Processed : Agree(i)})'
    <3> DEFINE C == {i \in Processed : Agree(i)}
    <3>1. C' = IF Agree(now) THEN C \cup {now} ELSE C
      BY <1>2, <2>1, <2>2, Zenon DEF Processed
    <3>2. C \in SUBSET (1 .. Length) /\ IsFirstTime(result.converged, C)
      BY Zenon DEF FirstInv, Processed
    <3>3. \A j \in C : snapshots[j].time <= snapshots[now].time
      BY <2>5, Zenon
    <3> HIDE DEF C
    <3>4. CASE Agree(now)
      <4>1. IsFirstTime(IF result.converged = Absent THEN snapshots[now].time
                        ELSE result.converged, C \cup {now})
        BY <1>0, <2>1, <3>2, <3>3, FirstOfMore, Zenon
      <4>2. IsFirstTime(result'.converged, C \cup {now})
        BY <2>4, <3>4, <4>1, Zenon
      <4> QED BY <1>1, <3>1, <3>4, <4>2, Zenon DEF IsFirstTime, C
    <3>5. CASE ~Agree(now)
      <4>1. result'.converged = result.converged /\ C' = C
        BY <2>4, <3>1, <3>5, Zenon
      <4> QED BY <1>1, <3>2, <4>1, Zenon DEF IsFirstTime, C
    <3> QED BY <3>4, <3>5, Zenon
  <2>7. IsFirstTime(result.agreed, {i \in Processed : Majority(i)})'
    <3> DEFINE M == {i \in Processed : Majority(i)}
    <3>1. M' = IF Majority(now) THEN M \cup {now} ELSE M
      BY <1>2, <2>1, <2>2, Zenon DEF Processed
    <3>2. M \in SUBSET (1 .. Length) /\ IsFirstTime(result.agreed, M)
      BY Zenon DEF FirstInv, Processed
    <3>3. \A j \in M : snapshots[j].time <= snapshots[now].time
      BY <2>5, Zenon
    <3> HIDE DEF M
    <3>4. CASE Majority(now)
      <4>1. IsFirstTime(IF result.agreed = Absent THEN snapshots[now].time
                        ELSE result.agreed, M \cup {now})
        BY <1>0, <2>1, <3>2, <3>3, FirstOfMore, Zenon
      <4>2. IsFirstTime(result'.agreed, M \cup {now})
        BY <2>4, <3>4, <4>1, Zenon
      <4> QED BY <1>1, <3>1, <3>4, <4>2, Zenon DEF IsFirstTime, M
    <3>5. CASE ~Majority(now)
      <4>1. result'.agreed = result.agreed /\ M' = M
        BY <2>4, <3>1, <3>5, Zenon
      <4> QED BY <1>1, <3>2, <4>1, Zenon DEF IsFirstTime, M
    <3> QED BY <3>4, <3>5, Zenon
  <2> QED BY <1>1, <2>1, <2>6, <2>7, Zenon DEF FirstInv
<1>7. CASE UNCHANGED computeVars
  <2>1. todo' = todo /\ now' = now /\ result' = result
    BY <1>7, Zenon DEF computeVars
  <2>2. Processed' = Processed
    BY <2>1, Zenon DEF Processed
  <2>3. /\ IsFirstTime(result.converged, {i \in Processed : Agree(i)})'
        /\ IsFirstTime(result.agreed, {i \in Processed : Majority(i)})'
    BY <1>3, <2>1, <2>2, Zenon
  <2> QED BY <1>1, <2>1, <2>2, <2>3, Zenon DEF FirstInv
<1> QED BY <1>4, <1>5, <1>6, <1>7, Zenon DEF ComputeNext, Finished

(* The invariants of Compute hold before its first snapshot.               *)
LEMMA ComputeInitially == ComputeInit => ComputeType /\ TopInv /\ FirstInv
<1> SUFFICES ASSUME ComputeInit PROVE ComputeType /\ TopInv /\ FirstInv
  BY Zenon
<1>1. ComputeType
  BY DEF ComputeInit, ComputeType, NodeState
<1>2. TopInv
  BY Zenon DEF ComputeInit, TopInv
<1>3. Processed = {} /\ now = Absent /\ todo = 1 .. Length
  BY Zenon DEF ComputeInit, Processed
<1>4. result.converged = Absent /\ result.agreed = Absent
  BY Zenon DEF ComputeInit
<1> QED BY <1>1, <1>2, <1>3, <1>4, Zenon DEF FirstInv, IsFirstTime

(* When all snapshots are processed the first time is the least.           *)
LEMMA LeastOfTimes ==
  ASSUME snapshots \in [1 .. Length -> Snapshot], NEW I \in SUBSET (1 .. Length),
         NEW t, IsFirstTime(t, I)
  PROVE  t = First({snapshots[i].time : i \in I})
<1> DEFINE T == {snapshots[i].time : i \in I}
<1>1. CASE I = {}
  <2>1. t = Absent /\ T = {}
    BY <1>1, Zenon DEF IsFirstTime
  <2> QED BY <2>1, Zenon DEF First
<1>2. CASE I # {}
  <2>1. PICK i \in I : /\ t = snapshots[i].time
                       /\ \A j \in I : snapshots[i].time <= snapshots[j].time
    BY <1>2, Zenon DEF IsFirstTime
  <2>2. T # {} /\ T \subseteq Nat /\ t \in T /\ \A u \in T : t <= u
    BY <2>1, SnapshotParts, Zenon
  <2> HIDE DEF T
  <2>3. ASSUME NEW x \in T, \A u \in T : x <= u PROVE x = t
    BY <2>2, <2>3
  <2>4. Min(T) = t
    BY <2>2, <2>3, Zenon DEF Min
  <2> QED BY <2>2, <2>4, Zenon DEF First, T
<1> QED BY <1>1, <1>2, Zenon

-----------------------------------------------------------------------------
(* The sum of the stale times.                                             *)

(* The unit intervals of the values of f on s: as many as their sum.       *)
Units(f, s) == UNION {{x} \X (1 .. f[x]) : x \in s}

Pick(s) == CHOOSE x \in s : TRUE

(* it sums up f over every set of arguments, one argument after the other. *)
SumsUp(f, it) ==
  it = [s \in SUBSET DOMAIN f |->
          IF s = {} THEN 0 ELSE f[Pick(s)] + it[s \ {Pick(s)}]]

(* There are finitely many units.                                         *)
LEMMA UnitsAreFinite ==
  ASSUME NEW D, IsFiniteSet(D), NEW f \in [D -> Nat], NEW s \in SUBSET D
  PROVE  IsFiniteSet(Units(f, s)) /\ Cardinality(Units(f, s)) \in Nat
<1> DEFINE row(x) == {x} \X (1 .. f[x])
           rows == {row(x) : x \in s}
<1>1. ASSUME NEW x \in s
      PROVE  IsFiniteSet(row(x))
  <2>1. IsFiniteSet({x})
    BY FS_Singleton, Zenon
  <2>2. IsFiniteSet(1 .. f[x])
    BY FS_Interval
  <2> QED BY <2>1, <2>2, FS_Product, Zenon
<1>2. IsFiniteSet(rows)
  <2> DEFINE g == [x \in s |-> row(x)]
  <2>1. g \in Surjection(s, rows)
    BY Zenon DEF Surjection
  <2>2. IsFiniteSet(s)
    BY FS_Subset, Zenon
  <2> QED BY <2>1, <2>2, FS_Surjection, Zenon
<1>3. \A r \in rows : IsFiniteSet(r)
  BY <1>1, Zenon
<1>4. IsFiniteSet(UNION rows)
  <2> HIDE DEF rows
  <2> QED BY <1>2, <1>3, FS_UNION, Zenon
<1>5. IsFiniteSet(Units(f, s))
  BY <1>4, Zenon DEF Units
<1> QED BY <1>5, FS_CardinalityType, Zenon

(* The elements of two sets that have none in common.                      *)
LEMMA DisjointUnion ==
  ASSUME NEW S, NEW T, IsFiniteSet(S), IsFiniteSet(T), S \cap T = {}
  PROVE  Cardinality(S \cup T) = Cardinality(S) + Cardinality(T)
<1>1. Cardinality(S \cup T) = Cardinality(S) + Cardinality(T) - Cardinality(S \cap T)
  BY FS_Union, Zenon
<1>2. Cardinality(S \cap T) = 0 /\ Cardinality(S) \in Nat /\ Cardinality(T) \in Nat
  BY FS_EmptySet, FS_CardinalityType, Zenon
<1> QED BY <1>1, <1>2

(* One argument more adds as many units as its value says.                 *)
LEMMA UnitsOfOneMore ==
  ASSUME NEW D, IsFiniteSet(D), NEW f \in [D -> Nat], NEW s \in SUBSET D, NEW x \in s
  PROVE  Cardinality(Units(f, s)) = f[x] + Cardinality(Units(f, s \ {x}))
<1> DEFINE row == {x} \X (1 .. f[x])
           rest == Units(f, s \ {x})
<1>1. Units(f, s) = row \cup rest
  BY Zenon DEF Units
<1>2. row \cap rest = {}
  <2>1. \A u \in row : u[1] = x
    BY Zenon
  <2>2. ASSUME NEW u \in rest PROVE u[1] # x
    <3>1. PICK y \in s \ {x} : u \in {y} \X (1 .. f[y])
      BY Zenon DEF Units
    <3> QED BY <3>1, Zenon
  <2> QED BY <2>1, <2>2, Zenon
<1>3. f[x] \in Nat
  BY Zenon
<1>4. IsFiniteSet({x}) /\ Cardinality({x}) = 1
  BY FS_Singleton, Zenon
<1>5. IsFiniteSet(1 .. f[x]) /\ Cardinality(1 .. f[x]) = f[x]
  BY <1>3, FS_Interval
<1>6. IsFiniteSet(row) /\ Cardinality(row) = 1 * f[x]
  BY <1>4, <1>5, FS_Product
<1>7. s \ {x} \in SUBSET D
  BY Zenon
<1>8. IsFiniteSet(rest) /\ Cardinality(rest) \in Nat
  BY <1>7, UnitsAreFinite, Zenon
<1> HIDE DEF row, rest
<1>9. Cardinality(row \cup rest) = Cardinality(row) + Cardinality(rest)
  BY <1>2, <1>6, <1>8, DisjointUnion, Zenon
<1>10. Cardinality(row) = f[x]
  BY <1>3, <1>6
<1> QED BY <1>1, <1>9, <1>10, Zenon DEF rest

(* So counting units sums the function up,                                 *)
LEMMA UnitsSumUp ==
  ASSUME NEW D, IsFiniteSet(D), NEW f \in [D -> Nat]
  PROVE  SumsUp(f, [s \in SUBSET D |-> Cardinality(Units(f, s))])
<1> DEFINE size == [s \in SUBSET D |-> Cardinality(Units(f, s))]
<1>1. ASSUME NEW s \in SUBSET D
      PROVE  Cardinality(Units(f, s)) =
               IF s = {} THEN 0 ELSE f[Pick(s)] + size[s \ {Pick(s)}]
  <2>1. CASE s = {}
    <3>1. Units(f, s) = {}
      BY <2>1, Zenon DEF Units
    <3> QED BY <2>1, <3>1, FS_EmptySet, Zenon
  <2>2. CASE s # {}
    <3>1. Pick(s) \in s
      BY <2>2, Zenon DEF Pick
    <3>2. size[s \ {Pick(s)}] = Cardinality(Units(f, s \ {Pick(s)}))
      BY Zenon
    <3>3. Cardinality(Units(f, s)) = f[Pick(s)] + Cardinality(Units(f, s \ {Pick(s)}))
      BY <3>1, UnitsOfOneMore
    <3> QED BY <2>2, <3>2, <3>3, Zenon
  <2> QED BY <2>1, <2>2, Zenon
<1>2. DOMAIN f = D
  BY Zenon
<1>3. size = [s \in SUBSET D |-> IF s = {} THEN 0 ELSE f[Pick(s)] + size[s \ {Pick(s)}]]
  BY <1>1, Zenon
<1> HIDE DEF size
<1>4. SumsUp(f, size)
  BY <1>2, <1>3, Zenon DEF SumsUp
<1> QED BY <1>4, Zenon DEF size

(* and nothing else does: in a smallest set whose sum is not the number of *)
(* its units there is an argument to take away.                            *)
LEMMA SumIsUnique ==
  ASSUME NEW D, IsFiniteSet(D), NEW f \in [D -> Nat], NEW g, SumsUp(f, g)
  PROVE  g[D] = Cardinality(Units(f, D))
<1> DEFINE Bad == {s \in SUBSET D : g[s] # Cardinality(Units(f, s))}
           Sizes == {Cardinality(s) : s \in Bad}
<1>1. ASSUME NEW s \in Bad PROVE IsFiniteSet(s) /\ Cardinality(s) \in Nat
  <2>1. IsFiniteSet(s)
    BY FS_Subset, Zenon
  <2> QED BY <2>1, FS_CardinalityType, Zenon
<1>2. SUFFICES ASSUME Bad # {} PROVE FALSE
  BY Zenon
<1>3. Sizes \in SUBSET Nat /\ Sizes # {}
  BY <1>1, <1>2, Zenon
<1>4. PICK k \in Sizes : \A j \in Sizes : k <= j
  <2> HIDE DEF Sizes
  <2> QED BY <1>3, LeastNat, Zenon
<1>5. PICK s \in Bad : k = Cardinality(s)
  BY <1>4, Zenon
<1>6. s \in SUBSET D /\ DOMAIN f = D
  BY Zenon
<1>7. g[s] = IF s = {} THEN 0 ELSE f[Pick(s)] + g[s \ {Pick(s)}]
  BY <1>6, Zenon DEF SumsUp
<1>8. s # {}
  <2>1. s = {} => Units(f, s) = {}
    BY Zenon DEF Units
  <2> QED BY <1>5, <1>7, <2>1, FS_EmptySet, Zenon
<1>9. Pick(s) \in s /\ s \ {Pick(s)} \in SUBSET D
  BY <1>6, <1>8, Zenon DEF Pick
<1>10. Cardinality(s \ {Pick(s)}) = Cardinality(s) - 1
  BY <1>1, <1>5, <1>9, FS_RemoveElement, Zenon
<1>11. s \ {Pick(s)} \notin Bad
  <2>1. SUFFICES ASSUME s \ {Pick(s)} \in Bad PROVE FALSE
    BY Zenon
  <2>2. k <= Cardinality(s \ {Pick(s)}) /\ Cardinality(s) \in Nat
    BY <1>1, <1>4, <1>5, <2>1, Zenon
  <2> HIDE DEF Bad, Sizes
  <2> QED BY <1>5, <1>10, <2>2
<1>12. g[s \ {Pick(s)}] = Cardinality(Units(f, s \ {Pick(s)}))
  BY <1>9, <1>11, Zenon
<1>13. Cardinality(Units(f, s)) = f[Pick(s)] + Cardinality(Units(f, s \ {Pick(s)}))
  BY <1>6, <1>9, UnitsOfOneMore
<1> QED BY <1>5, <1>7, <1>8, <1>12, <1>13, Zenon

(* The sum of a function's values is the number of its units.              *)
LEMMA FoldIsUnits ==
  ASSUME NEW D, IsFiniteSet(D), NEW f \in [D -> Nat]
  PROVE  FoldFunction(+, 0, f) = Cardinality(Units(f, D))
<1> DEFINE G == CHOOSE g : g = [s \in SUBSET DOMAIN f |->
                                  IF s = {} THEN 0
                                  ELSE f[CHOOSE x \in s : TRUE] +
                                         g[s \ {CHOOSE x \in s : TRUE}]]
<1>1. FoldFunction(+, 0, f) = G[DOMAIN f]
  BY Zenon DEF FoldFunction, FoldFunctionOnSet, MapThenFoldSet
<1>2. G = CHOOSE g : SumsUp(f, g)
  BY Zenon DEF SumsUp, Pick
<1> HIDE DEF G
<1>3. \E g : SumsUp(f, g)
  BY UnitsSumUp, Zenon
<1>4. SumsUp(f, G) /\ DOMAIN f = D
  BY <1>2, <1>3, Zenon
<1> QED BY <1>1, <1>4, SumIsUnique, Zenon

(* Adding d to the values of the arguments in C adds d units to each.      *)
LEMMA UnitsGrow ==
  ASSUME NEW D, IsFiniteSet(D), NEW f \in [D -> Nat], NEW C \in SUBSET D, NEW d \in Nat,
         NEW h, h = [x \in D |-> f[x] + (IF x \in C THEN d ELSE 0)]
  PROVE  h \in [D -> Nat]
         /\ Cardinality(Units(h, D)) = Cardinality(Units(f, D)) + Cardinality(C) * d
<1> DEFINE more == UNION {{x} \X (f[x] + 1 .. f[x] + d) : x \in C}
           box == C \X (1 .. d)
<1>1. /\ h \in [D -> Nat]
      /\ \A x \in D : f[x] \in Nat /\ h[x] \in Nat
      /\ \A x \in C : 1 .. h[x] = (1 .. f[x]) \cup (f[x] + 1 .. f[x] + d)
      /\ \A x \in D \ C : h[x] = f[x]
  OBVIOUS
<1>2. Units(h, D) = Units(f, D) \cup more
  <2>1. \A u : u \in Units(h, D) <=> \E x \in D : u \in {x} \X (1 .. h[x])
    BY Zenon DEF Units
  <2>2. \A u : u \in Units(f, D) <=> \E x \in D : u \in {x} \X (1 .. f[x])
    BY Zenon DEF Units
  <2>3. \A u : u \in more <=> \E x \in C : u \in {x} \X (f[x] + 1 .. f[x] + d)
    BY Zenon
  <2>4. ASSUME NEW x \in C
        PROVE  {x} \X (1 .. h[x]) = ({x} \X (1 .. f[x])) \cup ({x} \X (f[x] + 1 .. f[x] + d))
    <3>1. \A A, B : {x} \X (A \cup B) = ({x} \X A) \cup ({x} \X B)
      BY Zenon
    <3> QED BY <1>1, <3>1, Zenon
  <2>5. C \subseteq D /\ \A x \in D : x \notin C => 1 .. h[x] = 1 .. f[x]
    BY <1>1, Zenon
  <2> HIDE DEF more
  <2>6. ASSUME NEW u \in Units(h, D) PROVE u \in Units(f, D) \cup more
    <3>1. PICK x \in D : u \in {x} \X (1 .. h[x])
      BY <2>1, Zenon
    <3> QED BY <2>2, <2>3, <2>4, <2>5, <3>1, Zenon
  <2>7. ASSUME NEW u \in Units(f, D) PROVE u \in Units(h, D)
    <3>1. PICK x \in D : u \in {x} \X (1 .. f[x])
      BY <2>2, Zenon
    <3> QED BY <2>1, <2>4, <2>5, <3>1, Zenon
  <2>8. ASSUME NEW u \in more PROVE u \in Units(h, D)
    <3>1. PICK x \in C : u \in {x} \X (f[x] + 1 .. f[x] + d)
      BY <2>3, Zenon
    <3> QED BY <2>1, <2>4, <2>5, <3>1, Zenon
  <2> QED BY <2>6, <2>7, <2>8, Zenon
<1>3. Units(f, D) \cap more = {}
  <2> SUFFICES ASSUME NEW u \in Units(f, D), u \in more PROVE FALSE
    BY Zenon
  <2>1. PICK x \in D : u \in {x} \X (1 .. f[x])
    BY Zenon DEF Units
  <2>2. PICK y \in C : u \in {y} \X (f[y] + 1 .. f[y] + d)
    BY Zenon
  <2>3. u[1] = x /\ u[1] = y /\ u[2] \in 1 .. f[x] /\ u[2] \in f[y] + 1 .. f[y] + d
    BY <2>1, <2>2, Zenon
  <2> HIDE DEF more
  <2> QED BY <1>1, <2>3
<1>4. IsFiniteSet(Units(f, D)) /\ Cardinality(Units(f, D)) \in Nat
  BY UnitsAreFinite, Zenon
<1>5. IsFiniteSet(box) /\ Cardinality(box) = Cardinality(C) * d
  <2>1. IsFiniteSet(C)
    BY FS_Subset, Zenon
  <2>2. IsFiniteSet(1 .. d) /\ Cardinality(1 .. d) = d
    BY FS_Interval
  <2> QED BY <2>1, <2>2, FS_Product, Zenon
<1>6. IsFiniteSet(more) /\ Cardinality(more) = Cardinality(box)
  <2> DEFINE g == [u \in box |-> <<u[1], f[u[1]] + u[2]>>]
  <2>1. ASSUME NEW u \in box
        PROVE  /\ u[1] \in C /\ f[u[1]] \in Nat /\ u[2] \in 1 .. d /\ u = <<u[1], u[2]>>
               /\ f[u[1]] + u[2] \in f[u[1]] + 1 .. f[u[1]] + d
    <3>1. u[1] \in C /\ u[2] \in 1 .. d /\ u = <<u[1], u[2]>>
      OBVIOUS
    <3>2. f[u[1]] \in Nat
      BY <1>1, <3>1, Zenon
    <3> HIDE DEF box
    <3> QED BY <3>1, <3>2
  <2>2. ASSUME NEW u \in box PROVE g[u] \in more
    <3>1. g[u] \in {u[1]} \X (f[u[1]] + 1 .. f[u[1]] + d)
      BY <2>1, Zenon
    <3> HIDE DEF g
    <3> QED BY <2>1, <3>1, Zenon
  <2>3. ASSUME NEW u \in box, NEW v \in box, g[u] = g[v] PROVE u = v
    <3>1. u[1] = v[1] /\ f[u[1]] + u[2] = f[v[1]] + v[2]
      BY <2>3, Zenon
    <3>2. u[2] = v[2]
      <4> HIDE DEF box
      <4> QED BY <2>1, <3>1
    <3> QED BY <2>1, <3>1, <3>2, Zenon
  <2>4. ASSUME NEW w \in more PROVE \E u \in box : g[u] = w
    <3>1. PICK x \in C : w \in {x} \X (f[x] + 1 .. f[x] + d)
      BY Zenon
    <3>2. w = <<x, w[2]>> /\ w[2] \in f[x] + 1 .. f[x] + d
      BY <3>1
    <3>3. w[2] - f[x] \in 1 .. d /\ f[x] + (w[2] - f[x]) = w[2]
      <4> HIDE DEF box, more
      <4> QED BY <1>1, <3>2
    <3> DEFINE u == <<x, w[2] - f[x]>>
    <3>4. u \in box /\ u[1] = x /\ u[2] = w[2] - f[x]
      BY <3>3, Zenon
    <3>5. g[u] = <<x, f[x] + (w[2] - f[x])>>
      BY <3>4, Zenon
    <3> QED BY <3>2, <3>3, <3>4, <3>5, Zenon
  <2>5. g \in Bijection(box, more)
    <3> DEFINE B == box
               M == more
    <3>1. g \in [B -> M] /\ \A u, v \in B : g[u] = g[v] => u = v
      BY <2>2, <2>3, Zenon
    <3>2. \A w \in M : \E u \in B : g[u] = w
      BY <2>4, Zenon
    <3> HIDE DEF B, M, g
    <3>3. g \in Bijection(B, M)
      BY <3>1, <3>2, Zenon DEF Bijection, Injection, Surjection, IsInjective
    <3> QED BY <3>3, Zenon DEF B, M
  <2> HIDE DEF g, box, more
  <2>6. ExistsBijection(box, more)
    BY <2>5, Zenon DEF ExistsBijection
  <2> QED BY <1>5, <2>6, FS_Bijection, Zenon
<1> HIDE DEF more, box
<1>7. Cardinality(Units(h, D)) = Cardinality(Units(f, D)) + Cardinality(more)
  BY <1>2, <1>3, <1>4, <1>6, DisjointUnion, Zenon
<1> QED BY <1>1, <1>5, <1>6, <1>7, Zenon

(* The area is the sum of the stale times.                                 *)
AreaInv ==
  /\ result.stale \in [NodeIds -> Nat]
  /\ result.area = Cardinality(Units(result.stale, NodeIds))

(* The nodes that are charged for a snapshot: as many as diverge from the  *)
(* common state.                                                           *)
Charged == {n \in Nodes(now) : snapshots[now].nodes[n] # topState}

(* The nodes charged for a snapshot are as many as diverge in it.          *)
LEMMA ChargedDiverge ==
  ASSUME ComputeType, TopInv, now # Absent, left = {}
  PROVE  Charged \in SUBSET NodeIds /\ Divergence = Cardinality(Charged)
<1> DEFINE same == {n \in Nodes(now) : snapshots[now].nodes[n] = topState}
<1>1. now \in 1 .. Length /\ topState \in NodeState
  BY Zenon DEF ComputeType
<1>2. Nodes(now) \subseteq NodeIds /\ IsFiniteSet(Nodes(now))
  BY <1>1, SnapshotParts, Zenon DEF ComputeType, Nodes
<1>3. Charged = Nodes(now) \ same /\ Nodes(now) \cap same = same
  BY Zenon DEF Charged
<1>4. Cardinality(Charged) = Cardinality(Nodes(now)) - Cardinality(same)
  <2> HIDE DEF same
  <2>1. Cardinality(Nodes(now) \ same) =
          Cardinality(Nodes(now)) - Cardinality(Nodes(now) \cap same)
    BY <1>2, FS_Difference
  <2> QED BY <1>3, <2>1, Zenon
<1>5. Cardinality(same) = topCount
  BY <1>1, CountedSnapshot, Zenon DEF Frequency, TopInv
<1>6. Divergence = Cardinality(Charged)
  BY <1>4, <1>5, Zenon DEF Divergence
<1> QED BY <1>2, <1>3, <1>6, Zenon

(* The snapshots are processed in the order of their times.                *)
LEMMA TimeGoesOn ==
  ASSUME ComputeType, FirstInv, now # Absent
  PROVE  Delta \in Nat
<1>1. now \in (1 .. Length) \ todo /\ todo \subseteq 1 .. Length
      /\ snapshots \in [1 .. Length -> Snapshot]
  BY Zenon DEF ComputeType
<1>2. CASE todo = {}
  BY <1>2 DEF Delta
<1>3. CASE todo # {}
  <2>1. Earliest \in todo
    BY <1>1, <1>3, EarliestIsFirst, Zenon
  <2>2. snapshots[now].time <= snapshots[Earliest].time
    BY <1>1, <2>1, Zenon DEF FirstInv
  <2>3. snapshots[now].time \in Nat /\ snapshots[Earliest].time \in Nat
    BY <1>1, <2>1, SnapshotParts, Zenon
  <2>4. Delta = snapshots[Earliest].time - snapshots[now].time
    BY <1>3, Zenon DEF Delta
  <2> QED BY <2>2, <2>3, <2>4
<1> QED BY <1>2, <1>3, Zenon

(* A snapshot adds the same to the area and to the stale times.            *)
LEMMA AreaStep ==
  ASSUME ComputeType, TopInv, FirstInv, AreaInv, [ComputeNext]_computeVars
  PROVE  AreaInv'
<1>1. CASE result' = result
  BY <1>1, Zenon DEF AreaInv
<1>2. CASE FinishSnapshot
  <2>1. now # Absent /\ left = {}
    BY <1>2, Zenon DEF FinishSnapshot
  <2>2. Charged \in SUBSET NodeIds /\ Divergence = Cardinality(Charged) /\ Delta \in Nat
    BY <2>1, ChargedDiverge, TimeGoesOn, Zenon
  <2>3. /\ result'.area = result.area + Divergence * Delta
        /\ result'.stale = [n \in NodeIds |-> result.stale[n] + StaleTime(n)]
    BY <1>2, Zenon DEF FinishSnapshot, AddSnapshot
  <2>4. \A n \in NodeIds : StaleTime(n) = IF n \in Charged THEN Delta ELSE 0
    BY Zenon DEF StaleTime, Charged
  <2>5. result'.stale =
          [n \in NodeIds |-> result.stale[n] + (IF n \in Charged THEN Delta ELSE 0)]
    BY <2>3, <2>4, Zenon
  <2>6. result.stale \in [NodeIds -> Nat]
        /\ result.area = Cardinality(Units(result.stale, NodeIds))
    BY Zenon DEF AreaInv
  <2>7. /\ result'.stale \in [NodeIds -> Nat]
        /\ Cardinality(Units(result'.stale, NodeIds)) =
             Cardinality(Units(result.stale, NodeIds)) + Cardinality(Charged) * Delta
    BY <2>2, <2>5, <2>6, ComputeAssumption, UnitsGrow
  <2>8. result'.area = Cardinality(Units(result'.stale, NodeIds))
    BY <2>2, <2>3, <2>6, <2>7, Zenon
  <2> QED BY <2>7, <2>8, Zenon DEF AreaInv
<1> QED BY <1>1, <1>2, Zenon DEF ComputeNext, NextSnapshot, CountState, Finished,
         computeVars

(* So does the invariant of the area.                                      *)
LEMMA AreaInitially == ComputeInit => AreaInv
<1> SUFFICES ASSUME ComputeInit PROVE AreaInv
  BY Zenon
<1>1. result.area = 0 /\ result.stale = [n \in NodeIds |-> 0]
  BY Zenon DEF ComputeInit
<1>2. result.stale \in [NodeIds -> Nat] /\ \A n \in NodeIds : 1 .. result.stale[n] = {}
  BY <1>1
<1>3. ASSUME NEW u \in Units(result.stale, NodeIds) PROVE FALSE
  <2>1. PICK n \in NodeIds : u \in {n} \X (1 .. result.stale[n])
    BY Zenon DEF Units
  <2> QED BY <1>2, <2>1, Zenon
<1>4. Units(result.stale, NodeIds) = {}
  BY <1>3, Zenon
<1> QED BY <1>1, <1>2, <1>4, FS_EmptySet, Zenon DEF AreaInv

-----------------------------------------------------------------------------
(* For any number of nodes and in any order of Go's map, the state taken   *)
(* as the common one is the least of the most frequent                     *)
(* (metrics.go:141-160).                                                   *)
THEOREM CommonStateIsLeast == ComputeSpec => []ModeIsLeast
<1>1. ComputeType /\ TopInv => ModeIsLeast
  <2> SUFFICES ASSUME ComputeType, TopInv, now # Absent, left = {}
               PROVE  /\ topCount = Frequency(now, topState)
                      /\ \A s \in NodeState :
                           \/ Frequency(now, s) < topCount
                           \/ Frequency(now, s) = topCount /\ s >= topState
    BY Zenon DEF ModeIsLeast
  <2>1. \A s \in NodeState : Frequency(now, s) = counts[s]
    BY CountedSnapshot, Zenon
  <2>2. topState \in NodeState
    BY Zenon DEF ComputeType
  <2> QED BY <2>1, <2>2, Zenon DEF TopInv
<1> QED BY <1>1, ComputeInitially, ComputeTypeStep, TopStep, PTL DEF ComputeSpec

(* For any number of snapshots in any order, the convergence time is the   *)
(* first time all nodes have the key in one state, and the agreement time  *)
(* the first time more than half of them agree (metrics.go:76-108).        *)
THEOREM TimesAreFirst == ComputeSpec => []FirstTimes
<1>1. ComputeType /\ FirstInv => FirstTimes
  <2> SUFFICES ASSUME ComputeType, FirstInv, Done
               PROVE  /\ result.converged = First(TimesOf(Agree))
                      /\ result.agreed = First(TimesOf(Majority))
    BY Zenon DEF FirstTimes
  <2> DEFINE C == {i \in 1 .. Length : Agree(i)}
  <2> DEFINE M == {i \in 1 .. Length : Majority(i)}
  <2>1. Processed = 1 .. Length
    BY ComputeAssumption DEF Done, Processed, Absent
  <2>2. IsFirstTime(result.converged, C) /\ IsFirstTime(result.agreed, M)
    BY <2>1, Zenon DEF FirstInv
  <2>3. /\ TimesOf(Agree) = {snapshots[i].time : i \in C}
        /\ TimesOf(Majority) = {snapshots[i].time : i \in M}
    BY Zenon DEF TimesOf
  <2>4. C \in SUBSET (1 .. Length) /\ M \in SUBSET (1 .. Length)
    BY Zenon
  <2>5. snapshots \in [1 .. Length -> Snapshot]
    BY Zenon DEF ComputeType
  <2> HIDE DEF C, M
  <2> QED BY <2>2, <2>3, <2>4, <2>5, LeastOfTimes, Zenon
<1> QED BY <1>1, ComputeInitially, ComputeTypeStep, TopStep, FirstStep, PTL
        DEF ComputeSpec

(* For any number of snapshots of any number of nodes, the area under the  *)
(* divergence is the sum of the nodes' stale times: no node is charged     *)
(* twice for a snapshot, and none is left out (metrics.go:110-121).        *)
THEOREM AreaIsSumOfStaleTimes == ComputeSpec => []AreaIsStaleTime
<1>1. AreaInv => AreaIsStaleTime
  BY FoldIsUnits, ComputeAssumption, Zenon DEF AreaInv, AreaIsStaleTime
<1> QED BY <1>1, AreaInitially, AreaStep, ComputeInitially, ComputeTypeStep, TopStep,
        FirstStep, PTL DEF ComputeSpec

=============================================================================
