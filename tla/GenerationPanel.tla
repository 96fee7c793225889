-------------------------- MODULE GenerationPanel --------------------------
(***************************************************************************)
(* The review panel of PluginDefinition.cpp: the user-interface thread,    *)
(* which owns the documents, the buttons and the message queue, and the    *)
(* detached worker thread of each run, which hands its result over through *)
(* a mailbox and a posted message.  What a run does between its start and  *)
(* its verdict is ValidatedGeneration; here it answers anything.           *)
(*                                                                         *)
(* A document stands for the (editor, document pointer, buffer id) triple  *)
(* captured with a request.  Message handlers of the user-interface thread *)
(* run to completion, so each is one action, except WM_DESTROY: a worker   *)
(* may run between its unlocked ++generationEpoch and its critical section.*)
(***************************************************************************)
EXTENDS Naturals, Sequences, FiniteSets

CONSTANTS
  Docs, Texts,
  Pathless,   \* untitled documents, which are never tracked
  NoDoc, NoResult,
  MaxRuns,    \* bound: runs the user starts
  QueueLimit  \* messages the window's queue holds before PostMessage fails

Runs   == 1 .. MaxRuns
Result == [epoch : Runs, doc : Docs, original : Texts, proposed : Texts, ready : BOOLEAN]
Offer  == [id : Runs, doc : Docs, original : Texts, proposed : Texts]

ASSUME PanelConstants ==
  /\ Pathless \subseteq Docs
  /\ NoDoc \notin Docs
  /\ NoResult \notin Result /\ NoResult \notin Offer
  /\ MaxRuns \in Nat /\ QueueLimit \in Nat

VARIABLES
  text, active, writable,                           \* the editor
  panel,                                            \* "open", "closing" or "closed"
  isGenerating, generationEpoch, generationCancelled,
  stage, held,                                      \* each run's worker, its request and result
  mailbox,                                          \* who holds generationMailbox, 0 if free
  completedGeneration, pendingGeneration,
  latestStatusEpoch, queue,                         \* messages posted to the panel
  button, shown,        \* caption; the run whose progress the status label shows, or 0
  applyEnabled, rejectEnabled,
  tracked,              \* document AIManager::startTracking last saw
  applied, stopped      \* history: runs whose proposal was written; runs Stop was pressed in

editor   == <<text, active, writable>>
workers  == <<stage, held, mailbox>>
buttons  == <<button, applyEnabled, rejectEnabled>>
history  == <<applied, stopped>>
vars == <<editor, panel, isGenerating, generationEpoch, generationCancelled, workers,
          completedGeneration, pendingGeneration, latestStatusEpoch, queue, buttons, shown,
          tracked, history>>

Stages == {"none", "working", "finished", "posting"}

Live(e) == stage[e] # "none"

Init ==
  /\ text \in [Docs -> Texts] /\ active \in Docs /\ writable = Docs
  /\ panel = "open"
  /\ isGenerating = FALSE /\ generationEpoch = 0 /\ generationCancelled = FALSE
  /\ stage = [e \in Runs |-> "none"] /\ held = [e \in Runs |-> NoResult] /\ mailbox = 0
  /\ completedGeneration = NoResult /\ pendingGeneration = NoResult
  /\ latestStatusEpoch = 0 /\ queue = <<>>
  /\ button = "generate" /\ shown = 0 /\ applyEnabled = FALSE /\ rejectEnabled = FALSE
  /\ tracked = NoDoc
  /\ applied = {} /\ stopped = {}

-----------------------------------------------------------------------------
\* The editor: whoever else changes documents does it on the same thread.

EditDocument(d, t) ==
  /\ panel # "closing"
  /\ t # text[d]
  /\ text' = [text EXCEPT ![d] = t]
  /\ UNCHANGED <<active, writable, panel, isGenerating, generationEpoch, generationCancelled,
                 workers, completedGeneration, pendingGeneration, latestStatusEpoch, queue,
                 buttons, shown, tracked, history>>

SwitchDocument(d) ==
  /\ panel # "closing"
  /\ active' = d
  /\ UNCHANGED <<text, writable, panel, isGenerating, generationEpoch, generationCancelled,
                 workers, completedGeneration, pendingGeneration, latestStatusEpoch, queue,
                 buttons, shown, tracked, history>>

ToggleReadOnly ==
  /\ panel # "closing"
  /\ writable' = IF active \in writable THEN writable \ {active} ELSE writable \cup {active}
  /\ UNCHANGED <<text, active, panel, isGenerating, generationEpoch, generationCancelled,
                 workers, completedGeneration, pendingGeneration, latestStatusEpoch, queue,
                 buttons, shown, tracked, history>>

-----------------------------------------------------------------------------
\* ExecuteAIGeneration: the button is Stop while a run is under way.

\* (bug variant) Stop opens a new epoch
PressStopNewEpoch ==
  /\ panel = "open" /\ isGenerating
  /\ generationCancelled' = TRUE
  /\ generationEpoch' = generationEpoch + 1
  /\ button' = "stopping"
  /\ stopped' = stopped \cup {generationEpoch}
  /\ UNCHANGED <<editor, panel, isGenerating, workers, completedGeneration,
                 pendingGeneration, latestStatusEpoch, queue, shown, applyEnabled,
                 rejectEnabled, tracked, applied>>

\* (bug variant) Stop does not wait for the worker
PressStopAtOnce ==
  /\ panel = "open" /\ isGenerating
  /\ generationCancelled' = TRUE
  /\ isGenerating' = FALSE
  /\ button' = "generate"
  /\ stopped' = stopped \cup {generationEpoch}
  /\ UNCHANGED <<editor, panel, generationEpoch, workers, completedGeneration,
                 pendingGeneration, latestStatusEpoch, queue, shown, applyEnabled,
                 rejectEnabled, tracked, applied>>

PressStop ==
  /\ panel = "open" /\ isGenerating
  /\ generationCancelled' = TRUE
  /\ button' = "stopping"
  /\ stopped' = stopped \cup {generationEpoch}
  /\ UNCHANGED <<editor, panel, isGenerating, generationEpoch, workers, completedGeneration,
                 pendingGeneration, latestStatusEpoch, queue, shown, applyEnabled,
                 rejectEnabled, tracked, applied>>

\* (bug variant) only the buttons are reset
DropButtons ==
  /\ UNCHANGED pendingGeneration
  /\ applyEnabled' = FALSE /\ rejectEnabled' = FALSE

DropReview ==
  /\ pendingGeneration' = NoResult
  /\ applyEnabled' = FALSE /\ rejectEnabled' = FALSE

\* The request is refused after the old review was dropped: not UTF-8, not
\* Python, too large, no editor.
PressGenerateRefused ==
  /\ panel = "open" /\ ~isGenerating
  /\ DropReview
  /\ isGenerating' = FALSE /\ button' = "generate" /\ shown' = 0
  /\ UNCHANGED <<editor, panel, generationEpoch, generationCancelled, workers,
                 completedGeneration, latestStatusEpoch, queue, tracked, history>>

\* The document is captured and a worker started; std::thread may throw, after
\* the epoch and the flags have changed.
PressGenerate(started) ==
  LET e == generationEpoch + 1 IN
  /\ panel = "open" /\ ~isGenerating
  /\ generationEpoch < MaxRuns
  /\ DropReview
  /\ generationEpoch' = e
  /\ generationCancelled' = FALSE
  /\ isGenerating' = started
  /\ button' = IF started THEN "stop" ELSE "generate"
  /\ shown' = IF started THEN shown ELSE 0
  /\ stage' = IF started THEN [stage EXCEPT ![e] = "working"] ELSE stage
  /\ held' = IF ~started THEN held ELSE
       [held EXCEPT ![e] = [epoch |-> e, doc |-> active, original |-> text[active],
                            proposed |-> text[active], ready |-> FALSE]]
  /\ UNCHANGED <<editor, panel, mailbox, completedGeneration, latestStatusEpoch, queue,
                 tracked, history>>

-----------------------------------------------------------------------------
\* The worker thread of run e

Cancelled(e) == generationEpoch # e \/ generationCancelled

Post(message) == Len(queue) < QueueLimit /\ queue' = Append(queue, message)

\* postGenerationStatus, at any moment of the run; a failed post goes unnoticed
WorkerStatus(e) ==
  /\ stage[e] = "working" /\ mailbox = 0
  /\ generationEpoch = e
  /\ latestStatusEpoch' = e
  /\ Post("status") \/ UNCHANGED queue
  /\ UNCHANGED <<editor, panel, isGenerating, generationEpoch, generationCancelled, workers,
                 completedGeneration, pendingGeneration, buttons, shown, tracked, history>>

\* ValidatedGeneration::run ends.  A ready result needs a last cancelled() that
\* answered no; a result that is not ready may come at any time.
WorkerFinishes(e, proposal, ready) ==
  /\ stage[e] = "working"
  /\ ready => ~Cancelled(e) /\ proposal # held[e].original
  /\ ~ready => proposal = held[e].original
  /\ stage' = [stage EXCEPT ![e] = "finished"]
  /\ held' = [held EXCEPT ![e].proposed = proposal, ![e].ready = ready]
  /\ UNCHANGED <<editor, panel, isGenerating, generationEpoch, generationCancelled, mailbox,
                 completedGeneration, pendingGeneration, latestStatusEpoch, queue, buttons,
                 shown, tracked, history>>

\* (bug variant) the epoch is not compared
WorkerLocksUnchecked(e) ==
  /\ stage[e] = "finished" /\ mailbox = 0
  /\ stage' = [stage EXCEPT ![e] = "posting"]
  /\ mailbox' = e
  /\ UNCHANGED <<editor, panel, isGenerating, generationEpoch, generationCancelled, held,
                 completedGeneration, pendingGeneration, latestStatusEpoch, queue, buttons,
                 shown, tracked, history>>

\* (bug variant) a stale worker just returns
WorkerLocksSilently(e) ==
  /\ stage[e] = "finished" /\ mailbox = 0
  /\ IF generationEpoch # e
     THEN /\ stage' = [stage EXCEPT ![e] = "none"]
          /\ held' = [held EXCEPT ![e] = NoResult]
          /\ UNCHANGED mailbox
     ELSE /\ stage' = [stage EXCEPT ![e] = "posting"]
          /\ mailbox' = e
          /\ UNCHANGED held
  /\ UNCHANGED <<editor, panel, isGenerating, generationEpoch, generationCancelled,
                 completedGeneration, pendingGeneration, latestStatusEpoch, queue, buttons,
                 shown, tracked, history>>

\* The critical section: the epoch is compared ...
WorkerLocks(e) ==
  /\ stage[e] = "finished" /\ mailbox = 0
  /\ IF generationEpoch # e
     THEN /\ isGenerating' = FALSE
          /\ stage' = [stage EXCEPT ![e] = "none"]
          /\ held' = [held EXCEPT ![e] = NoResult]
          /\ UNCHANGED mailbox
     ELSE /\ stage' = [stage EXCEPT ![e] = "posting"]
          /\ mailbox' = e
          /\ UNCHANGED <<isGenerating, held>>
  /\ UNCHANGED <<editor, panel, generationEpoch, generationCancelled, completedGeneration,
                 pendingGeneration, latestStatusEpoch, queue, buttons, shown, tracked, history>>

\* ... and the result is handed over, or dropped when the message cannot be posted
WorkerPosts(e) ==
  /\ stage[e] = "posting"
  /\ \/ /\ Post("ready")
        /\ completedGeneration' = held[e]
        /\ UNCHANGED isGenerating
     \/ /\ completedGeneration' = NoResult
        /\ isGenerating' = FALSE
        /\ UNCHANGED queue
  /\ stage' = [stage EXCEPT ![e] = "none"]
  /\ held' = [held EXCEPT ![e] = NoResult]
  /\ mailbox' = 0
  /\ UNCHANGED <<editor, panel, generationEpoch, generationCancelled, pendingGeneration,
                 latestStatusEpoch, buttons, shown, tracked, history>>

-----------------------------------------------------------------------------
\* AIPanelProc

Receive(message) ==
  /\ panel = "open" /\ mailbox = 0
  /\ queue # <<>> /\ Head(queue) = message
  /\ queue' = Tail(queue)

\* (bug variant) the status is not compared with the current epoch
ReceiveStatusLate ==
  /\ Receive("status")
  /\ shown' = IF isGenerating THEN latestStatusEpoch ELSE shown
  /\ UNCHANGED <<editor, panel, isGenerating, generationEpoch, generationCancelled, workers,
                 completedGeneration, pendingGeneration, latestStatusEpoch, buttons, tracked,
                 history>>

ReceiveStatus ==
  /\ Receive("status")
  /\ shown' = IF latestStatusEpoch = generationEpoch /\ isGenerating
              THEN latestStatusEpoch ELSE shown
  /\ UNCHANGED <<editor, panel, isGenerating, generationEpoch, generationCancelled, workers,
                 completedGeneration, pendingGeneration, latestStatusEpoch, buttons, tracked,
                 history>>

\* (bug variant) every result enables Apply
ReceiveReadyAlways ==
  /\ Receive("ready")
  /\ IF completedGeneration = NoResult
     THEN UNCHANGED <<isGenerating, completedGeneration, pendingGeneration, buttons, shown>>
     ELSE /\ pendingGeneration' = completedGeneration
          /\ completedGeneration' = NoResult
          /\ isGenerating' = FALSE
          /\ button' = "generate" /\ shown' = 0
          /\ applyEnabled' = TRUE /\ rejectEnabled' = TRUE
  /\ UNCHANGED <<editor, panel, generationEpoch, generationCancelled, workers,
                 latestStatusEpoch, tracked, history>>

ReceiveReady ==
  /\ Receive("ready")
  /\ IF completedGeneration = NoResult
     THEN UNCHANGED <<isGenerating, completedGeneration, pendingGeneration, buttons, shown>>
     ELSE IF completedGeneration.epoch # generationEpoch
     THEN UNCHANGED <<isGenerating, completedGeneration, pendingGeneration, buttons, shown>>
     ELSE /\ pendingGeneration' = completedGeneration
          /\ completedGeneration' = NoResult
          /\ isGenerating' = FALSE
          /\ button' = "generate" /\ shown' = 0
          /\ applyEnabled' = completedGeneration.ready
          /\ rejectEnabled' = TRUE
  /\ UNCHANGED <<editor, panel, generationEpoch, generationCancelled, workers,
                 latestStatusEpoch, tracked, history>>

\* What applyPendingGeneration asks before it looks at the document
MayApply ==
  /\ panel = "open" /\ applyEnabled
  /\ pendingGeneration # NoResult /\ ~isGenerating /\ pendingGeneration.ready

RightDocument ==
  active = pendingGeneration.doc /\ active \in writable

\* Another document, or a read-only one: the offer stands.
ApplyElsewhere ==
  /\ MayApply /\ ~RightDocument
  /\ shown' = 0
  /\ UNCHANGED <<editor, panel, isGenerating, generationEpoch, generationCancelled, workers,
                 completedGeneration, pendingGeneration, latestStatusEpoch, queue, buttons,
                 tracked, history>>

\* The text was edited (checkBuffer), or the editor inserted another length than
\* the proposal's: Apply is disabled, the review stays on display.
ApplyFails ==
  /\ MayApply /\ RightDocument
  /\ applyEnabled' = FALSE
  /\ shown' = 0
  /\ UNCHANGED <<editor, panel, isGenerating, generationEpoch, generationCancelled, workers,
                 completedGeneration, pendingGeneration, latestStatusEpoch, queue, button,
                 rejectEnabled, tracked, history>>

\* (bug variant) the text is not compared with the captured one
ApplyUnchecked ==
  /\ MayApply /\ RightDocument
  /\ text' = [text EXCEPT ![active] = pendingGeneration.proposed]
  /\ applied' = applied \cup {pendingGeneration.epoch}
  /\ tracked' = IF active \in Pathless THEN tracked ELSE active
  /\ shown' = 0
  /\ DropReview
  /\ UNCHANGED <<active, writable, panel, isGenerating, generationEpoch, generationCancelled,
                 workers, completedGeneration, latestStatusEpoch, queue, button, stopped>>

ApplySucceeds ==
  /\ MayApply /\ RightDocument
  /\ text[active] = pendingGeneration.original
  /\ text' = [text EXCEPT ![active] = pendingGeneration.proposed]
  /\ applied' = applied \cup {pendingGeneration.epoch}
  /\ tracked' = IF active \in Pathless THEN tracked ELSE active
  /\ shown' = 0
  /\ DropReview
  /\ UNCHANGED <<active, writable, panel, isGenerating, generationEpoch, generationCancelled,
                 workers, completedGeneration, latestStatusEpoch, queue, button, stopped>>

PressReject ==
  /\ panel = "open" /\ rejectEnabled /\ ~isGenerating
  /\ DropReview
  /\ UNCHANGED <<editor, panel, isGenerating, generationEpoch, generationCancelled, workers,
                 completedGeneration, latestStatusEpoch, queue, button, shown, tracked, history>>

\* NPPN_NATIVELANGCHANGED rewrites the captions (UpdateLocalization).
UpdateLocalization ==
  /\ panel = "open"
  /\ button' = IF isGenerating THEN "stop" ELSE "generate"
  /\ shown' = 0
  /\ UNCHANGED <<editor, panel, isGenerating, generationEpoch, generationCancelled, workers,
                 completedGeneration, pendingGeneration, latestStatusEpoch, queue,
                 applyEnabled, rejectEnabled, tracked, history>>

\* WM_DESTROY up to its critical section
DestroyBegins ==
  /\ panel = "open"
  /\ panel' = "closing"
  /\ generationCancelled' = TRUE
  /\ generationEpoch' = generationEpoch + 1
  /\ UNCHANGED <<editor, isGenerating, workers, completedGeneration, pendingGeneration,
                 latestStatusEpoch, queue, buttons, shown, tracked, history>>

\* ... and the rest; the buttons and the queue go with the window, which is
\* never created again because isPanelRegistered stays true.
DestroyEnds ==
  /\ panel = "closing" /\ mailbox = 0
  /\ panel' = "closed"
  /\ isGenerating' = IF completedGeneration # NoResult THEN FALSE ELSE isGenerating
  /\ completedGeneration' = NoResult
  /\ DropReview
  /\ queue' = <<>>
  /\ UNCHANGED <<editor, generationEpoch, generationCancelled, workers, latestStatusEpoch,
                 button, shown, tracked, history>>

-----------------------------------------------------------------------------
Deliver == ReceiveStatus \/ ReceiveReady

Finish(e) == \E t \in Texts, ready \in BOOLEAN : WorkerFinishes(e, t, ready)

User ==
  \/ \E d \in Docs, t \in Texts : EditDocument(d, t)
  \/ \E d \in Docs : SwitchDocument(d)
  \/ ToggleReadOnly
  \/ PressStop \/ PressGenerateRefused
  \/ \E started \in BOOLEAN : PressGenerate(started)
  \/ ApplyElsewhere \/ ApplyFails \/ ApplySucceeds \/ PressReject
  \/ UpdateLocalization
  \/ DestroyBegins

Worker(e) == WorkerStatus(e) \/ Finish(e) \/ WorkerLocks(e) \/ WorkerPosts(e)

Next == User \/ Deliver \/ DestroyEnds \/ \E e \in Runs : Worker(e)

\* A run ends by itself (ValidatedGeneration terminates), a mutex is handed on,
\* and the message loop keeps dispatching.  Nothing obliges the user.
Fairness ==
  /\ \A e \in Runs : WF_vars(Finish(e)) /\ WF_vars(WorkerLocks(e)) /\ WF_vars(WorkerPosts(e))
  /\ WF_vars(Deliver)
  /\ WF_vars(DestroyEnds)

Spec == Init /\ [][Next]_vars /\ Fairness

-----------------------------------------------------------------------------
\* Every variable keeps its type; the message queue stays within its limit.
TypeOK ==
  /\ text \in [Docs -> Texts] /\ active \in Docs /\ writable \subseteq Docs
  /\ panel \in {"open", "closing", "closed"}
  /\ isGenerating \in BOOLEAN /\ generationCancelled \in BOOLEAN
  /\ generationEpoch \in 0 .. (MaxRuns + 1)
  /\ stage \in [Runs -> Stages] /\ held \in [Runs -> Result \cup {NoResult}]
  /\ mailbox \in 0 .. MaxRuns
  /\ completedGeneration \in Result \cup {NoResult}
  /\ pendingGeneration \in Result \cup {NoResult}
  /\ latestStatusEpoch \in 0 .. MaxRuns
  /\ queue \in Seq({"status", "ready"}) /\ Len(queue) <= QueueLimit
  /\ button \in {"generate", "stop", "stopping"} /\ shown \in 0 .. MaxRuns
  /\ applyEnabled \in BOOLEAN /\ rejectEnabled \in BOOLEAN
  /\ tracked \in Docs \cup {NoDoc}
  /\ applied \subseteq Runs /\ stopped \subseteq Runs

\* Requests never overlap: there is at most one worker, and while it lives the
\* panel counts as generating, through stops, failed posts and closing.
OneWorker ==
  \A e \in Runs : Live(e) => isGenerating /\ \A f \in Runs : Live(f) => f = e

\* In an open panel the review on display belongs to the latest run, and there
\* is none while another run is under way.
ReviewIsLatest ==
  pendingGeneration # NoResult =>
    /\ ~isGenerating
    /\ panel = "open" => pendingGeneration.epoch = generationEpoch

\* A click on Apply always finds a validated proposal that changes something.
ApplyMeansReady ==
  applyEnabled =>
    /\ pendingGeneration # NoResult
    /\ pendingGeneration.ready
    /\ pendingGeneration.proposed # pendingGeneration.original
    /\ pendingGeneration.epoch \notin applied

\* Nothing is left behind by a closed panel, nor put there by a worker that
\* ends after it.
ClosedKeepsNothing ==
  panel = "closed" => completedGeneration = NoResult /\ pendingGeneration = NoResult

\* Progress text is only ever put on the label for the run that is under way.
UnderWay(e) ==
  \/ Live(e)
  \/ completedGeneration # NoResult /\ completedGeneration.epoch = e

ProgressIsLive ==
  [][shown' # shown /\ shown' # 0 => UnderWay(shown')]_vars

\* The panel never stays in its generating state: whatever the run's end meets,
\* a stop, a full queue or a closed panel.
RunEnds == isGenerating ~> ~isGenerating

Document == INSTANCE GuardedDocument WITH
  Ids     <- Runs,
  NoOffer <- NoResult,
  offer   <- IF applyEnabled /\ pendingGeneration # NoResult
             THEN [id       |-> pendingGeneration.epoch,
                   doc      |-> pendingGeneration.doc,
                   original |-> pendingGeneration.original,
                   proposed |-> pendingGeneration.proposed]
             ELSE NoResult

\* The plugin writes to a document only by an offer that is on display, into the
\* captured document, over the captured text, and once.
GuardsDocument == Document!Spec

\* docs/validated-generation.md: "Closing the panel or stopping a task prevents
\* its pending proposal from being applied."  Stop is not seen any more once the
\* run has asked cancelled() for the last time.
StoppedNeverApplied == applied \cap stopped = {}

\* docs/automatic-plugin-mode.md: "The button stays in its stopping state until
\* the worker finishes".  A language change rewrites the caption.
StoppingIsShown ==
  \A e \in stopped : Live(e) /\ panel = "open" => button = "stopping"
=============================================================================
