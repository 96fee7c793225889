------------------------- MODULE GenerationRouting -------------------------
(***************************************************************************)
(* AIManager::generateCode: which backend serves a candidate, the decoding *)
(* loop of the native engine, the fallback to the online model, and the    *)
(* two cancellation flags, one in AIManager and one in the engine, that    *)
(* Stop sets one after the other.  Threads: the user interface, the worker *)
(* of the panel's one run at a time (GenerationPanel!OneWorker), and       *)
(* threads that load a model file.                                         *)
(*                                                                         *)
(* A step of the worker ends with its last look at shared state: what it   *)
(* does next, up to the following look, cannot be told apart by others.    *)
(* engineMutex is not modelled: whoever takes it holds generationMutex.    *)
(* A prompt is its length, a model the length of its context.  Generated   *)
(* text is only whether any code is left in it.                            *)
(***************************************************************************)
EXTENDS Naturals

CONSTANTS
  Sizes,       \* lengths of formatted prompts
  Capacities,  \* context lengths of model files
  MaxTokens,   \* 512 in the code
  MaxLoads     \* bound: model files loaded while the plugin runs

ASSUME RoutingConstants ==
  /\ Sizes \subseteq Nat \ {0}
  /\ Capacities \subseteq Nat \ {0}
  /\ MaxTokens \in Nat \ {0} /\ MaxLoads \in Nat

VARIABLES
  mode, remote,         \* the environment: NPPAI_PLUGIN_MODE; permission, URL and key
  running,              \* a run of the panel is under way
  stopping,             \* stopGeneration stands between its two stores
  generationCancelled, cancelRequested,
  owner,                \* generationMutex
  localReady, contextCapacity,
  whole,                \* the engine's tensors are all of one file
  loads,
  pc,                   \* where generateCode stands
  call,                 \* its arguments
  routedBy,             \* capacity the routing was based on
  sent,                 \* requests sent online by this call
  published, drawn, text,
  online,               \* GeneratedCandidate::online, taken from the last status
  outcome,              \* of the last call that ended
  late                  \* history: forward passes begun in this run after Stop returned

config == <<mode, remote>>
flags  == <<running, stopping, generationCancelled, cancelRequested>>
engine == <<localReady, contextCapacity, whole, loads>>
stream == <<published, drawn, text>>
vars == <<config, flags, owner, engine, pc, call, routedBy, sent, stream, online, outcome, late>>

Modes == {"auto", "local", "online", "invalid"}
Call  == [size : Sizes, forced : BOOLEAN, valid : BOOLEAN]

Init ==
  /\ mode \in Modes /\ remote \in BOOLEAN
  /\ running = FALSE /\ stopping = FALSE
  /\ generationCancelled = FALSE /\ cancelRequested = FALSE
  /\ owner = "none"
  /\ \/ localReady = FALSE /\ contextCapacity = 0 /\ whole = FALSE
     \/ localReady = TRUE /\ contextCapacity \in Capacities /\ whole = TRUE
  /\ loads = 0
  /\ pc = "idle" /\ call \in Call /\ routedBy = 0 /\ sent = 0
  /\ published = FALSE /\ drawn = 0 /\ text = "empty"
  /\ online = FALSE /\ outcome = "none" /\ late = 0

-----------------------------------------------------------------------------
\* The user-interface thread

BeginGeneration ==
  /\ ~running /\ ~stopping
  /\ running' = TRUE
  /\ generationCancelled' = FALSE
  /\ late' = 0
  /\ UNCHANGED <<config, stopping, cancelRequested, owner, engine, pc, call, routedBy, sent,
                 stream, online, outcome>>

\* stopGeneration, on Stop and on WM_DESTROY: the manager's flag first ...
StopBegins ==
  /\ ~stopping
  /\ generationCancelled' = TRUE
  /\ stopping' = TRUE
  /\ UNCHANGED <<config, running, cancelRequested, owner, engine, pc, call, routedBy, sent,
                 stream, online, outcome, late>>

\* ... then the engine's
StopEnds ==
  /\ stopping
  /\ cancelRequested' = TRUE
  /\ stopping' = FALSE
  /\ UNCHANGED <<config, running, generationCancelled, owner, engine, pc, call, routedBy, sent,
                 stream, online, outcome, late>>

Stopped == generationCancelled /\ ~stopping

-----------------------------------------------------------------------------
\* loadModel, on the thread of an updater

\* (bug variant) the load does not wait for a generation
StartLoadUnlocked ==
  /\ loads < MaxLoads
  /\ owner' = "loader"
  /\ loads' = loads + 1
  /\ UNCHANGED <<config, flags, localReady, contextCapacity, whole, pc, call, routedBy, sent,
                 stream, online, outcome, late>>

StartLoad ==
  /\ owner = "none" /\ loads < MaxLoads
  /\ owner' = "loader"
  /\ loads' = loads + 1
  /\ UNCHANGED <<config, flags, localReady, contextCapacity, whole, pc, call, routedBy, sent,
                 stream, online, outcome, late>>

\* The file is good; or it is refused by its header, size or hash before the
\* engine is touched; or reading fails after the dimensions were replaced.
EndLoad ==
  /\ owner = "loader"
  /\ owner' = "none"
  /\ \/ contextCapacity' \in Capacities /\ whole' = TRUE /\ localReady' = TRUE
     \/ UNCHANGED <<contextCapacity, whole>> /\ localReady' = FALSE
     \/ contextCapacity' \in Capacities /\ whole' = FALSE /\ localReady' = FALSE
  /\ UNCHANGED <<config, flags, loads, pc, call, routedBy, sent, stream, online, outcome, late>>

-----------------------------------------------------------------------------
\* generateCode, on the worker thread.  It leaves with a text or an exception.

Leave(result) ==
  /\ pc' = "idle"
  /\ owner' = "none"
  /\ outcome' = result

Goto(label) == pc' = label /\ UNCHANGED <<owner, outcome>>

RequestCandidate(c) ==
  /\ running /\ pc = "idle"
  /\ call' = c
  /\ pc' = "waiting"
  /\ routedBy' = 0 /\ sent' = 0
  /\ published' = FALSE /\ drawn' = 0 /\ text' = "empty" /\ online' = FALSE
  /\ outcome' = "none"
  /\ UNCHANGED <<config, flags, owner, engine, late>>

RunEnds ==
  /\ running /\ pc = "idle"
  /\ running' = FALSE
  /\ UNCHANGED <<config, stopping, generationCancelled, cancelRequested, owner, engine, pc,
                 call, routedBy, sent, stream, online, outcome, late>>

\* (bug variant) the mutex is not released on the way out
EnterKeepsLock ==
  /\ pc = "waiting" /\ owner = "none"
  /\ owner' = "worker"
  /\ IF generationCancelled
     THEN pc' = "idle" /\ outcome' = "threw"
     ELSE pc' = "routing" /\ UNCHANGED outcome
  /\ UNCHANGED <<config, flags, engine, call, routedBy, sent, stream, online, late>>

\* The mutex is taken and generationCancelled is read.
Enter ==
  /\ pc = "waiting" /\ owner = "none"
  /\ IF generationCancelled
     THEN Leave("threw")
     ELSE pc' = "routing" /\ owner' = "worker" /\ UNCHANGED outcome
  /\ UNCHANGED <<config, flags, engine, call, routedBy, sent, stream, online, late>>

\* AutomaticModelRouting::select
Select ==
  LET fits == localReady /\ contextCapacity > 0 /\ call.size <= contextCapacity IN
  IF call.forced \/ mode = "online"
  THEN IF remote THEN "online" ELSE "unavailable"
  ELSE IF fits THEN "local"
  ELSE IF mode = "auto" /\ remote THEN "online" ELSE "unavailable"

Refused ==
  \/ mode = "invalid"
  \/ ~call.valid
  \/ call.forced /\ (mode # "auto" \/ ~remote)

\* The environment and the prompt are examined, a backend chosen and reported.
Route ==
  /\ pc = "routing"
  /\ IF Refused
     THEN UNCHANGED <<routedBy, online>> /\ Leave("threw")
     ELSE /\ routedBy' = IF localReady THEN contextCapacity ELSE 0
          /\ online' = (Select = "online")
          /\ IF Select = "unavailable" THEN Leave("threw")
             ELSE IF Select = "online" THEN Goto("connecting") ELSE Goto("arming")
  /\ UNCHANGED <<config, flags, engine, call, sent, stream, late>>

\* (bug variant) the flag of an earlier Stop is left standing
ArmKeepsFlag ==
  /\ pc = "arming"
  /\ Goto("decoding")
  /\ UNCHANGED <<config, flags, engine, call, routedBy, sent, stream, online, late>>

\* NppAIEngine::generate clears the engine's flag ...
Arm ==
  /\ pc = "arming"
  /\ cancelRequested' = FALSE
  /\ Goto("decoding")
  /\ UNCHANGED <<config, running, stopping, generationCancelled, engine, call, routedBy, sent,
                 stream, online, late>>

\* (bug variant) the budget is off by one
ForwardOnceMore ==
  /\ pc = "decoding"
  /\ IF drawn > MaxTokens \/ cancelRequested
     THEN Goto("decoded") /\ UNCHANGED <<drawn, late>>
     ELSE /\ Goto("forward")
          /\ drawn' = drawn + 1
          /\ late' = IF Stopped THEN late + 1 ELSE late
  /\ UNCHANGED <<config, flags, engine, call, routedBy, sent, published, text, online>>

\* ... and reads it before each of its forward passes.
Forward ==
  /\ pc = "decoding"
  /\ IF drawn = MaxTokens \/ cancelRequested
     THEN Goto("decoded") /\ UNCHANGED <<drawn, late>>
     ELSE /\ Goto("forward")
          /\ drawn' = drawn + 1
          /\ late' = IF Stopped THEN late + 1 ELSE late
  /\ UNCHANGED <<config, flags, engine, call, routedBy, sent, published, text, online>>

\* The token drawn: a byte of code, which is published unless the run was
\* cancelled; text that is never published (a thought, a token above 255);
\* white space; the last byte of a role marker, whose tokens are taken back; or
\* nothing more, at end of text or when no logit is finite.
Token ==
  /\ pc = "forward"
  /\ \/ /\ text' = "code"
        /\ published' = (published \/ ~generationCancelled)
        /\ Goto("decoding")
     \/ text' = "code" /\ UNCHANGED published /\ Goto("decoding")
     \/ UNCHANGED <<text, published>> /\ Goto("decoding")
     \/ text = "code" /\ text' \in {"empty", "code"} /\ UNCHANGED published /\ Goto("decoded")
     \/ UNCHANGED <<text, published>> /\ Goto("decoded")
  /\ UNCHANGED <<config, flags, engine, call, routedBy, sent, drawn, online, late>>

\* (bug variant) an empty text is retried online whatever was published
DecodedRetrying ==
  /\ pc = "decoded"
  /\ IF generationCancelled THEN Leave("threw") /\ UNCHANGED online
     ELSE IF text = "code" THEN Leave("local") /\ UNCHANGED online
     ELSE IF mode = "auto" /\ remote THEN Goto("connecting") /\ online' = TRUE
     ELSE Leave("threw") /\ UNCHANGED online
  /\ UNCHANGED <<config, flags, engine, call, routedBy, sent, stream, late>>

\* (bug variant) the fallback does not report the new backend
DecodedUnreported ==
  /\ pc = "decoded"
  /\ IF generationCancelled THEN Leave("threw")
     ELSE IF text = "code" THEN Leave("local")
     ELSE IF ~published /\ mode = "auto" /\ remote THEN Goto("connecting")
     ELSE Leave("threw")
  /\ UNCHANGED <<config, flags, engine, call, routedBy, sent, stream, online, late>>

\* The native model is done; nothing but white space may be asked for online.
Decoded ==
  /\ pc = "decoded"
  /\ IF generationCancelled THEN Leave("threw") /\ UNCHANGED online
     ELSE IF text = "code" THEN Leave("local") /\ UNCHANGED online
     ELSE IF ~published /\ mode = "auto" /\ remote THEN Goto("connecting") /\ online' = TRUE
     ELSE Leave("threw") /\ UNCHANGED online
  /\ UNCHANGED <<config, flags, engine, call, routedBy, sent, stream, late>>

\* RemoteModelClient::generate refuses the URL or the key, or sees the
\* cancellation ...
Connect ==
  /\ pc = "connecting"
  /\ (~generationCancelled /\ Goto("sending")) \/ Leave("threw")
  /\ UNCHANGED <<config, flags, engine, call, routedBy, sent, stream, online, late>>

\* ... cannot connect, or sends the request.
Send ==
  /\ pc = "sending"
  /\ \/ Goto("receiving") /\ sent' = sent + 1
     \/ Leave("threw") /\ UNCHANGED sent
  /\ UNCHANGED <<config, flags, engine, call, routedBy, stream, online, late>>

\* (bug variant) the answer is not dropped when the run was cancelled meanwhile
ReceiveUnchecked ==
  /\ pc = "receiving"
  /\ Leave("online") \/ Leave("threw")
  /\ UNCHANGED <<config, flags, engine, call, routedBy, sent, stream, online, late>>

\* The answer arrives, and is dropped when the run was cancelled meanwhile; or
\* it is an HTTP error, breaks the protocol, misses the prefix or has no code.
Receive ==
  /\ pc = "receiving"
  /\ (~generationCancelled /\ Leave("online")) \/ Leave("threw")
  /\ UNCHANGED <<config, flags, engine, call, routedBy, sent, stream, online, late>>

-----------------------------------------------------------------------------
GenerateCode ==
  \/ Enter \/ Route \/ Arm \/ Forward \/ Token \/ Decoded
  \/ Connect \/ Send \/ Receive

Next ==
  \/ BeginGeneration \/ StopBegins \/ StopEnds
  \/ StartLoad \/ EndLoad
  \/ \E c \in Call : RequestCandidate(c)
  \/ RunEnds
  \/ GenerateCode

\* The worker is scheduled, network operations time out, a load comes to an end.
Fairness == WF_vars(GenerateCode) /\ WF_vars(EndLoad)

Spec == Init /\ [][Next]_vars /\ Fairness

-----------------------------------------------------------------------------
Native == {"arming", "decoding", "forward", "decoded"}
Online == {"connecting", "sending", "receiving"}

\* Every variable keeps its type; no call draws more tokens than its budget.
TypeOK ==
  /\ mode \in Modes /\ remote \in BOOLEAN
  /\ running \in BOOLEAN /\ stopping \in BOOLEAN
  /\ generationCancelled \in BOOLEAN /\ cancelRequested \in BOOLEAN
  /\ owner \in {"none", "worker", "loader"}
  /\ localReady \in BOOLEAN /\ contextCapacity \in Capacities \cup {0} /\ whole \in BOOLEAN
  /\ loads \in 0 .. MaxLoads
  /\ pc \in {"idle", "waiting", "routing"} \cup Native \cup Online
  /\ call \in Call /\ routedBy \in Capacities \cup {0} /\ sent \in Nat
  /\ published \in BOOLEAN /\ drawn \in 0 .. MaxTokens /\ text \in {"empty", "code"}
  /\ online \in BOOLEAN /\ outcome \in {"none", "threw", "local", "online"}
  /\ late \in Nat

\* The native model decodes with the very model file the routing looked at: all
\* its tensors are loaded, and the prompt fits its context.  No load comes between.
SnapshotAgrees ==
  pc \in Native =>
    /\ owner = "worker"
    /\ localReady /\ whole
    /\ contextCapacity = routedBy /\ call.size <= contextCapacity

\* Nothing leaves the machine without permission, in local mode, or where the
\* local model could serve: only by choice, by escalation, because the prompt
\* does not fit, or once, after a local attempt that published nothing.
OnlineIsLastResort ==
  sent > 0 =>
    /\ remote /\ mode \in {"auto", "online"} /\ sent = 1
    /\ \/ mode = "online" \/ call.forced
       \/ call.size > routedBy
       \/ drawn > 0 /\ ~published

\* The backend that run() counts escalations by is the one the text came from,
\* and a forced call never comes back with a local text.
ReportedBackend ==
  outcome \in {"local", "online"} =>
    /\ online = (outcome = "online")
    /\ call.forced => outcome = "online"

\* The engine never stops because of an earlier run's Stop: a text cut short by
\* cancelRequested always belongs to a run that is cancelled.
NoStaleCancel ==
  pc \in Native \ {"arming"} /\ cancelRequested => generationCancelled

\* Once Stop was pressed, no call of the run comes back with a text, from
\* whatever backend, however long it was under way.
StoppedIsDiscarded ==
  [][generationCancelled /\ outcome' # outcome => outcome' \in {"none", "threw"}]_vars

\* Every call ends, whatever Stop and the loads do meanwhile.
CallsEnd == pc # "idle" ~> pc = "idle"

\* docs/automatic-plugin-mode.md: "Stop requests cancel native inference".  At
\* most the forward pass that was about to begin is still made.
StopHaltsInference == late <= 1
=============================================================================
