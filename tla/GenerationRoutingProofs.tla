---------------------- MODULE GenerationRoutingProofs ----------------------
(***************************************************************************)
(* Proofs about GenerationRouting, for every set of prompt lengths and     *)
(* model contexts, every token budget and any number of model loads.       *)
(***************************************************************************)
EXTENDS GenerationRouting, TLAPS

\* generationMutex is the worker's exactly while it stands inside generateCode,
\* and a run does not end, nor the next one begin, while a call is under way.
MutexInv ==
  /\ pc \notin {"idle", "waiting"} <=> owner = "worker"
  /\ pc # "idle" => running

\* Outside of a load, a model that counts as ready is whole; Stop sets the
\* manager's flag first.
EngineInv ==
  /\ localReady => whole /\ contextCapacity \in Capacities
  /\ stopping => generationCancelled

\* A call under way has no outcome, and until it is routed it has done nothing.
FreshInv ==
  /\ pc # "idle" => outcome = "none"
  /\ pc \in {"waiting", "routing"} =>
       sent = 0 /\ ~online /\ ~published /\ drawn = 0 /\ text = "empty"

\* What routing a call to the native model means for it
NativeInv ==
  /\ pc \in Native =>
       ~call.forced /\ mode \in {"auto", "local"} /\ sent = 0 /\ ~online
  /\ pc = "forward" => drawn > 0
  /\ pc = "decoded" => drawn > 0 \/ generationCancelled

\* ... and to the online model
MayGoOnline ==
  /\ remote /\ mode \in {"auto", "online"}
  /\ mode = "online" \/ call.forced \/ call.size > routedBy \/ (drawn > 0 /\ ~published)

OnlineInv ==
  pc \in Online =>
    /\ MayGoOnline /\ online
    /\ sent = IF pc = "receiving" THEN 1 ELSE 0

RInv ==
  /\ TypeOK
  /\ SnapshotAgrees /\ OnlineIsLastResort /\ ReportedBackend /\ NoStaleCancel
  /\ MutexInv /\ EngineInv /\ FreshInv /\ NativeInv /\ OnlineInv

-----------------------------------------------------------------------------
LEMMA InitRInv == Init => RInv
  <1> SUFFICES ASSUME Init PROVE RInv
    OBVIOUS
  <1> USE RoutingConstants DEF Init, Native, Online
  <1>1. TypeOK
    <2>1. /\ running \in BOOLEAN /\ stopping \in BOOLEAN /\ generationCancelled \in BOOLEAN
          /\ cancelRequested \in BOOLEAN /\ published \in BOOLEAN /\ online \in BOOLEAN
          /\ localReady \in BOOLEAN /\ whole \in BOOLEAN
      BY Zenon
    <2>2. loads \in 0 .. MaxLoads /\ drawn \in 0 .. MaxTokens /\ sent \in Nat /\ late \in Nat
      OBVIOUS
    <2>3. contextCapacity \in Capacities \cup {0} /\ routedBy \in Capacities \cup {0}
      OBVIOUS
    <2>4. QED
      BY <2>1, <2>2, <2>3 DEF TypeOK
  <1>2. SnapshotAgrees /\ OnlineIsLastResort /\ ReportedBackend /\ NoStaleCancel
    BY DEF SnapshotAgrees, OnlineIsLastResort, ReportedBackend, NoStaleCancel
  <1>3. MutexInv /\ EngineInv /\ FreshInv /\ NativeInv /\ OnlineInv
    BY DEF MutexInv, EngineInv, FreshInv, NativeInv, OnlineInv
  <1>4. QED
    BY <1>1, <1>2, <1>3 DEF RInv

LEMMA StepRInv == RInv /\ [Next]_vars => RInv'
  <1> SUFFICES ASSUME RInv, [Next]_vars PROVE RInv'
    OBVIOUS
  <1> USE RoutingConstants DEF RInv, Native, Online, config, flags, engine, stream, Leave, Goto
  <1>1. CASE BeginGeneration
    <2>1. TypeOK'
      <3>1. running' \in BOOLEAN /\ generationCancelled' \in BOOLEAN
        BY <1>1, Zenon DEF TypeOK, BeginGeneration
      <3>2. QED
        BY <1>1, <3>1 DEF TypeOK, BeginGeneration
    <2>2. SnapshotAgrees' /\ OnlineIsLastResort' /\ ReportedBackend' /\ NoStaleCancel'
      BY <1>1 DEF TypeOK, BeginGeneration,
         SnapshotAgrees, OnlineIsLastResort, ReportedBackend, NoStaleCancel,
         MutexInv, EngineInv, FreshInv, NativeInv, OnlineInv, MayGoOnline
    <2>3. MutexInv' /\ EngineInv' /\ FreshInv' /\ NativeInv' /\ OnlineInv'
      BY <1>1 DEF TypeOK, BeginGeneration,
         SnapshotAgrees, OnlineIsLastResort, ReportedBackend, NoStaleCancel,
         MutexInv, EngineInv, FreshInv, NativeInv, OnlineInv, MayGoOnline
    <2>4. QED
      BY <2>1, <2>2, <2>3
  <1>2. CASE StopBegins
    <2>1. TypeOK'
      <3>1. stopping' \in BOOLEAN /\ generationCancelled' \in BOOLEAN
        BY <1>2, Zenon DEF TypeOK, StopBegins
      <3>2. QED
        BY <1>2, <3>1 DEF TypeOK, StopBegins
    <2>2. SnapshotAgrees' /\ OnlineIsLastResort' /\ ReportedBackend' /\ NoStaleCancel'
      BY <1>2 DEF TypeOK, StopBegins,
         SnapshotAgrees, OnlineIsLastResort, ReportedBackend, NoStaleCancel,
         MutexInv, EngineInv, FreshInv, NativeInv, OnlineInv, MayGoOnline
    <2>3. MutexInv' /\ EngineInv' /\ FreshInv' /\ NativeInv' /\ OnlineInv'
      BY <1>2 DEF TypeOK, StopBegins,
         SnapshotAgrees, OnlineIsLastResort, ReportedBackend, NoStaleCancel,
         MutexInv, EngineInv, FreshInv, NativeInv, OnlineInv, MayGoOnline
    <2>4. QED
      BY <2>1, <2>2, <2>3
  <1>3. CASE StopEnds
    <2>1. TypeOK'
      <3>1. stopping' \in BOOLEAN /\ cancelRequested' \in BOOLEAN
        BY <1>3, Zenon DEF TypeOK, StopEnds
      <3>2. QED
        BY <1>3, <3>1 DEF TypeOK, StopEnds
    <2>2. SnapshotAgrees' /\ OnlineIsLastResort' /\ ReportedBackend' /\ NoStaleCancel'
      BY <1>3 DEF TypeOK, StopEnds,
         SnapshotAgrees, OnlineIsLastResort, ReportedBackend, NoStaleCancel,
         MutexInv, EngineInv, FreshInv, NativeInv, OnlineInv, MayGoOnline
    <2>3. MutexInv' /\ EngineInv' /\ FreshInv' /\ NativeInv' /\ OnlineInv'
      BY <1>3 DEF TypeOK, StopEnds,
         SnapshotAgrees, OnlineIsLastResort, ReportedBackend, NoStaleCancel,
         MutexInv, EngineInv, FreshInv, NativeInv, OnlineInv, MayGoOnline
    <2>4. QED
      BY <2>1, <2>2, <2>3
  <1>4. CASE StartLoad
    <2>1. TypeOK'
      BY <1>4 DEF TypeOK, StartLoad
    <2>2. SnapshotAgrees' /\ OnlineIsLastResort' /\ ReportedBackend' /\ NoStaleCancel'
      BY <1>4 DEF TypeOK, StartLoad,
         SnapshotAgrees, OnlineIsLastResort, ReportedBackend, NoStaleCancel,
         MutexInv, EngineInv, FreshInv, NativeInv, OnlineInv, MayGoOnline
    <2>3. MutexInv' /\ EngineInv' /\ FreshInv' /\ NativeInv' /\ OnlineInv'
      BY <1>4 DEF TypeOK, StartLoad,
         SnapshotAgrees, OnlineIsLastResort, ReportedBackend, NoStaleCancel,
         MutexInv, EngineInv, FreshInv, NativeInv, OnlineInv, MayGoOnline
    <2>4. QED
      BY <2>1, <2>2, <2>3
  <1>5. CASE EndLoad
    <2>1. TypeOK'
      <3>1. localReady' \in BOOLEAN /\ whole' \in BOOLEAN
        BY <1>5, Zenon DEF TypeOK, EndLoad
      <3>2. QED
        BY <1>5, <3>1 DEF TypeOK, EndLoad
    <2>2. SnapshotAgrees' /\ OnlineIsLastResort' /\ ReportedBackend' /\ NoStaleCancel'
      BY <1>5 DEF TypeOK, EndLoad,
         SnapshotAgrees, OnlineIsLastResort, ReportedBackend, NoStaleCancel,
         MutexInv, EngineInv, FreshInv, NativeInv, OnlineInv, MayGoOnline
    <2>3. MutexInv' /\ EngineInv' /\ FreshInv' /\ NativeInv' /\ OnlineInv'
      BY <1>5 DEF TypeOK, EndLoad,
         SnapshotAgrees, OnlineIsLastResort, ReportedBackend, NoStaleCancel,
         MutexInv, EngineInv, FreshInv, NativeInv, OnlineInv, MayGoOnline
    <2>4. QED
      BY <2>1, <2>2, <2>3
  <1>6. CASE RunEnds
    <2>1. TypeOK'
      <3>1. running' \in BOOLEAN
        BY <1>6, Zenon DEF TypeOK, RunEnds
      <3>2. QED
        BY <1>6, <3>1 DEF TypeOK, RunEnds
    <2>2. SnapshotAgrees' /\ OnlineIsLastResort' /\ ReportedBackend' /\ NoStaleCancel'
      BY <1>6 DEF TypeOK, RunEnds,
         SnapshotAgrees, OnlineIsLastResort, ReportedBackend, NoStaleCancel,
         MutexInv, EngineInv, FreshInv, NativeInv, OnlineInv, MayGoOnline
    <2>3. MutexInv' /\ EngineInv' /\ FreshInv' /\ NativeInv' /\ OnlineInv'
      BY <1>6 DEF TypeOK, RunEnds,
         SnapshotAgrees, OnlineIsLastResort, ReportedBackend, NoStaleCancel,
         MutexInv, EngineInv, FreshInv, NativeInv, OnlineInv, MayGoOnline
    <2>4. QED
      BY <2>1, <2>2, <2>3
  <1>7. CASE Enter
    <2>1. TypeOK'
      BY <1>7 DEF TypeOK, Enter
    <2>2. SnapshotAgrees' /\ OnlineIsLastResort' /\ ReportedBackend' /\ NoStaleCancel'
      BY <1>7 DEF TypeOK, Enter,
         SnapshotAgrees, OnlineIsLastResort, ReportedBackend, NoStaleCancel,
         MutexInv, EngineInv, FreshInv, NativeInv, OnlineInv, MayGoOnline
    <2>3. MutexInv' /\ EngineInv' /\ FreshInv' /\ NativeInv' /\ OnlineInv'
      BY <1>7 DEF TypeOK, Enter,
         SnapshotAgrees, OnlineIsLastResort, ReportedBackend, NoStaleCancel,
         MutexInv, EngineInv, FreshInv, NativeInv, OnlineInv, MayGoOnline
    <2>4. QED
      BY <2>1, <2>2, <2>3
  <1>8. CASE Route
    <2>1. TypeOK'
      <3>1. online' \in BOOLEAN
        BY <1>8, Zenon DEF TypeOK, Route, Select, Refused, Modes
      <3>2. QED
        BY <1>8, <3>1 DEF TypeOK, Route, Select, Refused, Modes
    <2>2. SnapshotAgrees' /\ OnlineIsLastResort' /\ ReportedBackend' /\ NoStaleCancel'
      BY <1>8 DEF TypeOK, Route, Select, Refused, Modes,
         SnapshotAgrees, OnlineIsLastResort, ReportedBackend, NoStaleCancel,
         MutexInv, EngineInv, FreshInv, NativeInv, OnlineInv, MayGoOnline
    <2>3. CASE Refused \/ Select = "unavailable"
      BY <1>8, <2>1, <2>2, <2>3 DEF TypeOK, Route, MutexInv, EngineInv, FreshInv, NativeInv, OnlineInv
    <2>4. CASE ~Refused /\ Select = "local"
      <3>1. pc' = "arming" /\ ~online'
        BY <1>8, <2>4 DEF Route
      <3>2. ~call.forced /\ mode \in {"auto", "local"}
        BY <2>4 DEF TypeOK, Select, Refused, Modes
      <3>3. QED
        BY <1>8, <2>1, <2>2, <2>4, <3>1, <3>2
        DEF Route, MutexInv, EngineInv, FreshInv, NativeInv, OnlineInv
    <2>5. CASE ~Refused /\ Select = "online"
      <3>1. pc' = "connecting" /\ online' /\ routedBy' = IF localReady THEN contextCapacity ELSE 0
        BY <1>8, <2>5 DEF Route
      <3>2. remote /\ mode \in {"auto", "online"}
        BY <2>5 DEF TypeOK, Select, Refused, Modes
      <3>3. mode = "online" \/ call.forced \/ call.size > routedBy'
        <4>1. call.size \in Nat \ {0} /\ contextCapacity \in Nat
          <5>1. call \in Call /\ contextCapacity \in Capacities \cup {0}
            BY DEF TypeOK
          <5>2. call.size \in Sizes
            BY <5>1 DEF Call
          <5>3. contextCapacity \in Nat
            BY <5>1
          <5>4. QED
            BY <5>2, <5>3
        <4>2. ~(localReady /\ contextCapacity > 0 /\ call.size <= contextCapacity)
              \/ mode = "online" \/ call.forced
          BY <2>5 DEF Select
        <4>3. CASE ~localReady
          BY <3>1, <4>1, <4>3
        <4>4. CASE localReady
          BY <3>1, <4>1, <4>2, <4>4 DEF EngineInv
        <4>5. QED
          BY <4>3, <4>4
      <3>4. MayGoOnline'
        BY <1>8, <3>2, <3>3 DEF Route, MayGoOnline
      <3>5. QED
        BY <1>8, <2>1, <2>2, <3>1, <3>4
        DEF Route, MutexInv, EngineInv, FreshInv, NativeInv, OnlineInv
    <2>6. QED
      BY <2>3, <2>4, <2>5 DEF Select
  <1>9. CASE Arm
    <2>1. TypeOK'
      <3>1. cancelRequested' \in BOOLEAN
        BY <1>9, Zenon DEF TypeOK, Arm
      <3>2. QED
        BY <1>9, <3>1 DEF TypeOK, Arm
    <2>2. SnapshotAgrees' /\ OnlineIsLastResort' /\ ReportedBackend' /\ NoStaleCancel'
      BY <1>9 DEF TypeOK, Arm,
         SnapshotAgrees, OnlineIsLastResort, ReportedBackend, NoStaleCancel,
         MutexInv, EngineInv, FreshInv, NativeInv, OnlineInv, MayGoOnline
    <2>3. MutexInv' /\ EngineInv' /\ FreshInv' /\ NativeInv' /\ OnlineInv'
      BY <1>9 DEF TypeOK, Arm,
         SnapshotAgrees, OnlineIsLastResort, ReportedBackend, NoStaleCancel,
         MutexInv, EngineInv, FreshInv, NativeInv, OnlineInv, MayGoOnline
    <2>4. QED
      BY <2>1, <2>2, <2>3
  <1>10. CASE Forward
    <2>1. TypeOK'
      BY <1>10 DEF TypeOK, Forward, Stopped
    <2>2. SnapshotAgrees' /\ OnlineIsLastResort' /\ ReportedBackend' /\ NoStaleCancel'
      BY <1>10 DEF TypeOK, Forward, Stopped,
         SnapshotAgrees, OnlineIsLastResort, ReportedBackend, NoStaleCancel,
         MutexInv, EngineInv, FreshInv, NativeInv, OnlineInv, MayGoOnline
    <2>3. MutexInv' /\ EngineInv' /\ FreshInv' /\ NativeInv' /\ OnlineInv'
      BY <1>10 DEF TypeOK, Forward, Stopped,
         SnapshotAgrees, OnlineIsLastResort, ReportedBackend, NoStaleCancel,
         MutexInv, EngineInv, FreshInv, NativeInv, OnlineInv, MayGoOnline
    <2>4. QED
      BY <2>1, <2>2, <2>3
  <1>11. CASE Token
    <2>1. TypeOK'
      <3>1. published' \in BOOLEAN
        BY <1>11, Zenon DEF TypeOK, Token
      <3>2. text' \in {"empty", "code"} /\ pc' \in {"decoding", "decoded"}
        BY <1>11 DEF TypeOK, Token
      <3>3. QED
        BY <1>11, <3>1, <3>2 DEF TypeOK, Token
    <2>2. SnapshotAgrees' /\ OnlineIsLastResort' /\ ReportedBackend' /\ NoStaleCancel'
      BY <1>11 DEF TypeOK, Token,
         SnapshotAgrees, OnlineIsLastResort, ReportedBackend, NoStaleCancel,
         MutexInv, EngineInv, FreshInv, NativeInv, OnlineInv, MayGoOnline
    <2>3. MutexInv' /\ EngineInv' /\ FreshInv' /\ NativeInv' /\ OnlineInv'
      BY <1>11 DEF TypeOK, Token,
         SnapshotAgrees, OnlineIsLastResort, ReportedBackend, NoStaleCancel,
         MutexInv, EngineInv, FreshInv, NativeInv, OnlineInv, MayGoOnline
    <2>4. QED
      BY <2>1, <2>2, <2>3
  <1>12. CASE Decoded
    <2>1. TypeOK'
      <3>1. online' \in BOOLEAN
        BY <1>12, Zenon DEF TypeOK, Decoded
      <3>2. QED
        BY <1>12, <3>1 DEF TypeOK, Decoded
    <2>2. SnapshotAgrees' /\ OnlineIsLastResort' /\ ReportedBackend' /\ NoStaleCancel'
      BY <1>12 DEF TypeOK, Decoded,
         SnapshotAgrees, OnlineIsLastResort, ReportedBackend, NoStaleCancel,
         MutexInv, EngineInv, FreshInv, NativeInv, OnlineInv, MayGoOnline
    <2>3. MutexInv' /\ EngineInv' /\ FreshInv' /\ NativeInv' /\ OnlineInv'
      BY <1>12 DEF TypeOK, Decoded,
         SnapshotAgrees, OnlineIsLastResort, ReportedBackend, NoStaleCancel,
         MutexInv, EngineInv, FreshInv, NativeInv, OnlineInv, MayGoOnline
    <2>4. QED
      BY <2>1, <2>2, <2>3
  <1>13. CASE Connect
    <2>1. TypeOK'
      BY <1>13 DEF TypeOK, Connect
    <2>2. SnapshotAgrees' /\ OnlineIsLastResort' /\ ReportedBackend' /\ NoStaleCancel'
      BY <1>13 DEF TypeOK, Connect,
         SnapshotAgrees, OnlineIsLastResort, ReportedBackend, NoStaleCancel,
         MutexInv, EngineInv, FreshInv, NativeInv, OnlineInv, MayGoOnline
    <2>3. MutexInv' /\ EngineInv' /\ FreshInv' /\ NativeInv' /\ OnlineInv'
      BY <1>13 DEF TypeOK, Connect,
         SnapshotAgrees, OnlineIsLastResort, ReportedBackend, NoStaleCancel,
         MutexInv, EngineInv, FreshInv, NativeInv, OnlineInv, MayGoOnline
    <2>4. QED
      BY <2>1, <2>2, <2>3
  <1>14. CASE Send
    <2>1. TypeOK'
      BY <1>14 DEF TypeOK, Send
    <2>2. SnapshotAgrees' /\ ReportedBackend' /\ NoStaleCancel'
      BY <1>14 DEF Send, SnapshotAgrees, ReportedBackend, NoStaleCancel
    <2>3. OnlineIsLastResort'
      <3>1. sent = 0 /\ sent' \in {0, 1} /\ MayGoOnline
        BY <1>14 DEF Send, OnlineInv
      <3>2. QED
        BY <1>14, <3>1 DEF Send, OnlineIsLastResort, MayGoOnline
    <2>4. MutexInv' /\ EngineInv' /\ FreshInv' /\ NativeInv' /\ OnlineInv'
      BY <1>14 DEF TypeOK, Send,
         SnapshotAgrees, OnlineIsLastResort, ReportedBackend, NoStaleCancel,
         MutexInv, EngineInv, FreshInv, NativeInv, OnlineInv, MayGoOnline
    <2>5. QED
      BY <2>1, <2>2, <2>3, <2>4
  <1>15. CASE Receive
    <2>1. TypeOK'
      BY <1>15 DEF TypeOK, Receive
    <2>2. SnapshotAgrees' /\ OnlineIsLastResort' /\ ReportedBackend' /\ NoStaleCancel'
      BY <1>15 DEF TypeOK, Receive,
         SnapshotAgrees, OnlineIsLastResort, ReportedBackend, NoStaleCancel,
         MutexInv, EngineInv, FreshInv, NativeInv, OnlineInv, MayGoOnline
    <2>3. MutexInv' /\ EngineInv' /\ FreshInv' /\ NativeInv' /\ OnlineInv'
      BY <1>15 DEF TypeOK, Receive,
         SnapshotAgrees, OnlineIsLastResort, ReportedBackend, NoStaleCancel,
         MutexInv, EngineInv, FreshInv, NativeInv, OnlineInv, MayGoOnline
    <2>4. QED
      BY <2>1, <2>2, <2>3
  <1>16. CASE \E c \in Call : RequestCandidate(c)
    <2>1. TypeOK'
      <3>1. published' \in BOOLEAN /\ online' \in BOOLEAN
        BY <1>16, Zenon DEF TypeOK, RequestCandidate
      <3>2. drawn' \in 0 .. MaxTokens /\ sent' \in Nat /\ routedBy' \in Capacities \cup {0}
        BY <1>16 DEF TypeOK, RequestCandidate
      <3>3. QED
        BY <1>16, <3>1, <3>2 DEF TypeOK, RequestCandidate
    <2>2. SnapshotAgrees' /\ OnlineIsLastResort' /\ ReportedBackend' /\ NoStaleCancel'
      BY <1>16 DEF TypeOK, RequestCandidate,
         SnapshotAgrees, OnlineIsLastResort, ReportedBackend, NoStaleCancel,
         MutexInv, EngineInv, FreshInv, NativeInv, OnlineInv, MayGoOnline
    <2>3. MutexInv' /\ EngineInv' /\ FreshInv' /\ NativeInv' /\ OnlineInv'
      BY <1>16 DEF TypeOK, RequestCandidate,
         SnapshotAgrees, OnlineIsLastResort, ReportedBackend, NoStaleCancel,
         MutexInv, EngineInv, FreshInv, NativeInv, OnlineInv, MayGoOnline
    <2>4. QED
      BY <2>1, <2>2, <2>3
  <1>17. CASE UNCHANGED vars
    BY <1>17 DEF vars, TypeOK, SnapshotAgrees, OnlineIsLastResort, ReportedBackend, NoStaleCancel,
       MutexInv, EngineInv, FreshInv, NativeInv, OnlineInv, MayGoOnline
  <1>18. QED
    BY <1>1, <1>2, <1>3, <1>4, <1>5, <1>6, <1>7, <1>8, <1>9, <1>10, <1>11, <1>12, <1>13, <1>14, <1>15, <1>16, <1>17 DEF Next, GenerateCode

LEMMA RInvHolds == Spec => []RInv
  BY InitRInv, StepRInv, PTL DEF Spec

-----------------------------------------------------------------------------
\* generateCode and loadModel keep every variable in its type, and a call stays
\* within its budget of tokens.
THEOREM RoutingTypeCorrect == Spec => []TypeOK
  <1>1. RInv => TypeOK
    BY DEF RInv
  <1>2. QED
    BY <1>1, RInvHolds, PTL

\* loadModel never changes the model between the routing of a call and its decoding.
THEOREM SnapshotAlwaysAgrees == Spec => []SnapshotAgrees
  <1>1. RInv => SnapshotAgrees
    BY DEF RInv
  <1>2. QED
    BY <1>1, RInvHolds, PTL

\* generateCode goes online at most once, with permission, and only where the
\* local model was not to be used, could not be, or had published nothing.
THEOREM OnlineOnlyAsLastResort == Spec => []OnlineIsLastResort
  <1>1. RInv => OnlineIsLastResort
    BY DEF RInv
  <1>2. QED
    BY <1>1, RInvHolds, PTL

\* The backend a call reports last is the one its text comes from.
THEOREM BackendAlwaysReported == Spec => []ReportedBackend
  <1>1. RInv => ReportedBackend
    BY DEF RInv
  <1>2. QED
    BY <1>1, RInvHolds, PTL

\* No call decodes under the cancellation of an earlier run.
THEOREM CancelNeverStale == Spec => []NoStaleCancel
  <1>1. RInv => NoStaleCancel
    BY DEF RInv
  <1>2. QED
    BY <1>1, RInvHolds, PTL

\* One step that discards
DiscardStep ==
  generationCancelled /\ outcome' # outcome => outcome' \in {"none", "threw"}

LEMMA NextDiscards == [Next]_vars => [DiscardStep]_vars
  <1> SUFFICES ASSUME [Next]_vars, generationCancelled, outcome' # outcome
               PROVE  outcome' \in {"none", "threw"}
    BY DEF DiscardStep
  <1> USE DEF config, flags, engine, stream, Leave, Goto
  <1>1. CASE \/ BeginGeneration \/ StopBegins \/ StopEnds \/ StartLoad \/ EndLoad \/ RunEnds
    BY <1>1 DEF BeginGeneration, StopBegins, StopEnds, StartLoad, EndLoad, RunEnds
  <1>2. CASE \E c \in Call : RequestCandidate(c)
    BY <1>2 DEF RequestCandidate
  <1>3. CASE Enter \/ Route \/ Arm \/ Forward \/ Token
    BY <1>3 DEF Enter, Route, Arm, Forward, Token
  <1>4. CASE Decoded \/ Connect \/ Send \/ Receive
    BY <1>4 DEF Decoded, Connect, Send, Receive
  <1>5. CASE UNCHANGED vars
    BY <1>5 DEF vars
  <1>6. QED
    BY <1>1, <1>2, <1>3, <1>4, <1>5 DEF Next, GenerateCode

\* Once Stop has set the manager's flag, no call of that run comes back with a text.
THEOREM StoppedAlwaysDiscarded == Spec => StoppedIsDiscarded
  BY NextDiscards, PTL DEF Spec, StoppedIsDiscarded, DiscardStep

=============================================================================
