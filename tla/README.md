# A verification project for NppAI

NppAI is a Notepad++ plugin that asks a small native model, or an online one, for Python code, validates each proposal
in a container, shows it for review, and writes it into the document only when the user presses Apply. A server offers
the model over HTTP, trains it and hands out new versions; research scripts train, measure and audit models. This
directory holds TLA+ modules that model the program's control, TLC configurations that check them on small instances,
and proofs that TLAPS checks for every value of the constants. Paths below are relative to the repository.

## Inventory

| part | code | state | operations | hard behaviour |
|---|---|---|---|---|
| review panel | `src/PluginDefinition.cpp` | `isGenerating`, `generationEpoch`, the mailbox `completedGeneration`, `pendingGeneration`, the buttons | Generate/Stop, Apply, Reject, two posted messages, `WM_DESTROY` | one detached worker thread per run against the user-interface thread; results that outlive their run, their document or their panel |
| validated generation | `src/ValidatedGeneration.cpp`, `src/BoundedRepairLoop.cpp`, `src/AgentFeedbackLoop.cpp` | candidate, snapshot, attempt counts, result | draw, syntax check, tests, repair | callbacks that fail in every way at every point; a stop request between any two steps |
| generation routing | `src/AIManager.cpp`, `src/AutomaticModelRouting.cpp`, `src/RemoteModelClient.cpp`, `src/AIPromptPipeline.cpp` | `generationMutex`, `generationCancelled`, `localReady`, the engine's `cancelRequested` | `generateCode`, `stopGeneration`, `loadModel` | two cancellation flags in two objects; fallback to the network after partial streaming |
| native engine | `src/NppAIEngine.cpp` | weights, tokenizer, `engineMutex` | `generate`, `loadModel`, expert routing | numerical; stop conditions; capacity routing |
| validation helper | `src/PythonValidationProcess.cpp`, `sandbox_validate.py` | job, helper process, docker command line, container, supervisor, cancel file | run, poll, judge, kill, clean up | a deadline of its own in every layer; a container that is created after its command line was killed; output against exit code |
| backend service | `server_backend.py`, `model_backends.py` | inference slot, request times, pinned checkpoint, training flag, data file, model file, version cache | generate, health, submit knowledge, check for and download a model, train | a slot released by a job that may outlive its client; a rate limit in whole seconds; threads that share a cache |
| session launcher | `scripts/start_nppai.py` | server process, deadline, session key | start, poll, attach an editor, take down | its own abandoned polls, which the server may read much later; interrupts; a file that changes behind its name |
| training and model format | `train_nppai.py`, `model_format.py` | data, tokenizer file, model file | read, learn, export | files written in place, a process killed in between |
| model update | `src/AIManager.cpp` | version file, model file, temporary file | timer, download, replace, reload | crash between delete and move; either may fail unnoticed; a file that is rewritten while it is hashed or sent |
| staged generation and Python decoding | `staged_generation.py`, `experimental_stage_router.py`, `python_function_decoding.py`, `scripts/sequential_copy_model.py`, `scripts/protected_sequential.py` | stage outputs, pinned identities, copy cursor, beam | run stages, copy bytes, search, audit a record | checkpoints replaced behind a name; a decoder and an auditor that reason separately; an early stop |
| research scripts | `scripts/*.py` | checkpoints, training record, report | train, measure, retain, audit | processes that crash, are repeated or run in another order while inputs change |
| portable editor smoke | `scripts/portable_notepad_smoke.py` | samples of the panel, bound proposal, report | controls, generate, apply, undo | sampling a plugin that goes on meanwhile |
| correction tracking | `src/AIManager.cpp`, `src/NppAI_Core.cpp` | `isTracking` and the tracked region, `isDebounceThreadRunning` | `startTracking`, `onEditorModified`, debounce thread | unsynchronised flags shared by detached threads |
| retrieval store | `src/RAGManager.cpp` | `knowledgeBase` under `knowledgeMutex`, one file | add, update, retrieve, save, load | two-section updates, one base for many files, crash while saving |
| workspace patches | `src/StructuredPatch.cpp`, `src/PatchReview.cpp`, `src/PatchRollback.cpp` | files, snapshot | build a diff, apply, restore | check-then-write; a diff that hides line endings |
| telemetry, prompts, indexing, host glue | other files of `src/` | little | formatting, redaction, DLL entry points | sequential |

How they interact: the panel starts a worker, which runs validated generation; its two callbacks are
`AIManager::generateCode` (generation routing, then the engine or the network) and `PythonValidationProcess::run`
(validation helper). The worker asks `cancelled()`, which reads the epoch and the cancel flag that the user-interface
thread sets. It hands its result back through a mailbox under a mutex and a posted message. Apply starts correction
tracking, whose debounce thread submits the user's correction to the backend service and to the retrieval store. The
service trains a model on the corrections in a process of its own; a timer in the plugin starts the updater, which
fetches that model and calls `loadModel` under the mutex that `generateCode` holds. The launcher starts the service and
an editor that shares its session key. The smoke starts both and drives the panel from outside; scripts use the
validation helper directly. The hazards of each part are in `PROJECT.json`, each at the line where it bites.

## The modules

Definitions whose comment begins "(bug variant)" are faults a property must catch; the specifications do not use them.
The `MC` modules give the constants values and, in `MCInferenceTools`, put three specifications side by side.

### The plugin

`ProposalContract` is what one run promises its caller: a bounded number of draws, and "ready" only for a text that was
drawn and then proven. `GuardedDocument` is what the panel promises whoever is editing: the plugin changes a document
only through an offer on display, made against one exact text, while the document still holds that text, and once.

`ValidatedGeneration` models `ValidatedGeneration::run` with the two loops it drives. `pc` is the place in the run;
"generating", "checking" and "testing" mean that a callback is running. The variables `proposed`, `validSnapshot`,
`online`, `failures`, `validations`, `localFailures` are the code's; `attempt` and `history` are the repair loop's own,
and `result` is what `run` returns. `log` is history: one entry per reply, with the backend it came from, whether it was
forced online, and how it fared. A thrown `Stop` or exception is `Abort`. A reply is named by the document it produces,
because the text around the selection is fixed for a run; some replies are too big for review, some equal the original
line by line. `RequestStop` may come between any two steps. Callbacks answer anything the code can meet: an exit code of
0, 1, 3, any other, or an exception.

`GenerationPanel` models the panel. Window messages are handled on one thread and run to completion, so a handler is one
action; `WM_DESTROY` is two, because it raises the epoch before it takes the mailbox mutex and a worker may run between.
Worker steps interleave with everything: a status post at any moment, the end of the run, the comparison of the epoch
under the mutex, the posting. The queue is bounded, and a post fails when it is full or by the host's choice. A document
stands for the captured triple of editor, document pointer and buffer id. Pressing Generate is one action although
workers may run meanwhile: `OneWorker` shows that none is alive then. `applied` and `stopped` are history. A refused
request still drops the old review, as the code does; a thread that cannot be started leaves the new epoch behind.
`ApplyFails` covers the edited text and a host that inserts nothing.

`GenerationRouting` models what happens below the generate callback of a run: `AIManager::generateCode`, the control of
`NppAIEngine::generate`, `RemoteModelClient::generate`, the two stores of `stopGeneration` and `loadModel`. `pc` is the
place in the call: "arming", "decoding", "forward" and "decoded" are in the engine, "connecting", "sending" and
"receiving" in the network client. A step of the worker ends with its last look at shared state, so a Stop may come
between any two of them, and between Stop's own two stores. `owner` is `generationMutex`. `routedBy`, `sent`, `drawn` and
`late` are history: the capacity a call was routed by, its requests, its forward passes, and the passes begun after
`stopGeneration` returned. `Token` covers all that one forward pass can lead to: a byte of code, published unless the run
is cancelled; text that is not published; white space; a role marker whose bytes are taken back; the end. `EndLoad` has
the three outcomes of `loadModel`: loaded, refused before the engine is touched, broken off half-way. `running` stands
for the panel's worker; that there is at most one is `OneWorker` of `GenerationPanel`, and the run's use of the callback
is `ValidatedGeneration`'s.

`ValidationDriver` models one validation through all its layers: the wrapper `PythonValidationProcess::run` with its job
object, the helper's `main` and `validate`, the docker command line, the container, and the supervisor that runs the
authored cases. A deadline may strike at any moment, so times are left out. The command line's output is a sequence of
pieces; the receipt counts only as the whole of it. Docker creates the container and starts it in two steps, and a
creation under way outlives the command line. Names and directories are of one call, so a new call starts with nothing
of the last one; what a killed helper left running is out of every later call's sight. With the command line gone, the
supervisor's further work is of no account; with the process gone, the reader thread soon sees the end of the output.

### The server and its surroundings

`InferenceAdmission` models the endpoints of `server_backend.py` that take part in inference: one event loop, handlers
interrupted only where they await, jobs in executor threads. `inference_lock` is taken by the handler without blocking
and released in the job's finally clause. The checks come in the code's order: size, key, rate limit, payload, slot. Time
is in ticks because `Retry-After` is truncated to seconds. A client may go away at any point. If the server has read its
request, the job goes on for nobody (`Disconnect`). If it has not, the request stays in the socket (`Abandon`, counted in
`late`), and the server comes to it whenever it likes: it takes its hit then, and perhaps the slot (`ServeLate`). Uvicorn may
also notice the disconnect first and drop the request, which is the other alternative there. `LocalSession` composes it
with `start_nppai.py`: the launcher's polls are requests to that server, a poll that times out is abandoned in one of these
two ways, the server may crash at any time, the file may change, and Ctrl-C may come anywhere.

`ModelDelivery` follows a correction into the editor's model: `submit_knowledge` and its trigger, `train_nppai.py` as
others see it, `model_version` with its cache in several threads, `download_model`, and the plugin's updater with its
delete, move, version file and reload. A model is the number of samples it was trained on, or `Torn`. Trainer and plugin
may be killed between any two steps, a connection may break, and the delete, the move and the writing of the version may
fail, which the updater never looks at: it goes on with the files as they are (`Unnoticed`). `cut` and `kept` are history:
the last download broke off, the last file was not put in place. Updaters do not overlap: the timer is taken to be
slower than an update.

### Tools that generate

`StagedGeneration` has both stage drivers: `run_staged`, whose calls go through a `BackendRouter`, and `run_routed` with a
planner and a coder whose identities are pinned at the start. Checkpoints may be replaced behind every name at any time.
`CopyDecoding` has the copying decoder, and beside it the auditor `audit_events`, which sees only the record.
`BeamDecoding` has the greedy attempt and the beam search; the model lets the search run on after its early stop and
remembers what that answered. The network is a choice in all three.

### The research scripts

`ExperimentSteps` names the kinds of steps the scripts under `scripts/` consist of: pin an input, train, write a model,
check, note in the report, save, compare with what training recorded. `BodyExperiments`, `CopyExperiments`,
`NameExperiments`, `StageExperiments` and `DiagnosticExperiments` translate 34 scripts into plans, sequences of such steps in
program order, and `Experiments` is their catalogue. `ExperimentDiscipline` states in which order the plans take their
steps, such as "what a report names was fitted, written and entered in this order" or "a report that is read again while
unfinished is refused". They are finite facts about the translated scripts, one `ASSUME` that TLC evaluates for all 34,
and all that the proofs know of any single plan. `ExperimentRun` carries the plans out: processes start in any
order on one output directory, raise, crash and are started again, inputs are edited, hosts change, and the work of a
step may go wrong in the ways the scripts have checks for. Assumptions: an edit replaces an input's declared bytes by
others, once; reading a file and hashing it, or two reads with no work between, is one step; the directories of a
repeated training are one file; training is deterministic; files nothing reads again are left out; parameters that
change in an evaluation include the checkpoint's file.

`PortableSmoke` extends `ValidationDriver` with `portable_notepad_smoke.py` and the plugin as that script sees it. The
plugin may have one of five flaws, which comes out at the latest when it displays a review: it shows an older reply or
another text, applies another text, keeps the text it should undo, touches the buffer, or offers Apply unproven. The
script samples the panel in several reads while the plugin goes on, and the editor may exit at any time. A call of the
plugin may fail while its job goes on in the server, whose observer then appends a row for nobody (`RecordLate`). `controls`
is history: with which exit code each of the two controls came back, and whether the supervisor was through.

## The runs

`ValidatedGeneration` (attempts as in the code, 3; four replies: two ordinary, one too big, one that changes nothing)
covers a whole run with every combination of replies, verdicts and stop times. Three attempts are what the code allows;
two ordinary replies are enough to tell a snapshot of one attempt from another. A finished run stops, so deadlock is not
checked. Its properties:

- `ReadyIsProven`: the text Apply would write is the last reply, and that text compiled and passed the tests.
- `OnlyFailuresAreRepaired`: no infrastructure error and no cancellation ever buys another model call.
- `EscalationIsEarned`: a forced online call needs permission and two failed local candidates.
- `ReportAgrees`: the loop's account and `run`'s own give the same report on every path, except that a failure which
  comes back after the stop request is not reported.
- `StopIsFinal`: after a stop request no callback starts and no ready result appears.
- `Terminates`, `ImplementsContract`.

`GenerationPanel` (two documents of which one is untitled, two contents, two runs, a queue of two messages) covers every
interleaving of two runs; two runs are needed for anything stale to exist, and the second text for an edit to be seen.
Deadlock is checked. Its properties:

- `OneWorker`: requests never overlap, through stops, failed posts and closing.
- `ReviewIsLatest`, `ApplyMeansReady`: what is on display belongs to the latest run, and Apply is enabled only for a
  ready proposal not applied before.
- `ClosedKeepsNothing`: closing races with the hand-over and nothing is left behind.
- `ProgressIsLive`: a status message dispatched late never shows a run that is over.
- `RunEnds`: the panel never stays in its generating state.
- `GuardsDocument`: the panel implements `GuardedDocument`.

`GenerationRouting` (prompts of length 1 to 3 against contexts of 1 and 2, two tokens for the code's 512, one model
load; any number of runs and calls) has lengths below, at and beyond the context. Two tokens allow text that is begun
and then taken back, and a pass after a pass. One load is enough to fall into any phase of a call. Deadlock is checked.
Its properties:

- `SnapshotAgrees`: the model that decodes is the one the routing looked at, whole, and the prompt fits.
- `OnlineIsLastResort`: at most one request per call, with permission, and none where the local model could serve or has
  published code.
- `ReportedBackend`: the backend by which `run` counts escalations is the one that served.
- `NoStaleCancel`: the engine never stops a run because of an earlier run's Stop.
- `StoppedIsDiscarded`: after Stop no call comes back with a text, also when an answer is outstanding.
- `CallsEnd`: every call ends and lets go of the mutex.

`LocalSession` (a launcher and one other client, which asks for generation only; two checkpoints; a limit of 2 requests in
2 seconds for the code's 60 in 60, two ticks a second; 3 seconds of polling, 1 second a poll; 5 requests; the clock stops
at tick 5 except to end what the launcher waits for). Half seconds let a request fall between whole ones, and 3 seconds of
polling let a second poll meet the slot that the abandoned first one still holds. The earliest `Retry-After` ends at tick
5, so a client that was refused does come back: it is let through in some behaviours and, where others used the room,
refused again in others. Five requests are a full window, a refusal, a request of somebody else and a retry. A session
ends, so deadlock is not checked. Its properties:

- `SlotIsOneJob`: the lock is held exactly while one admitted job lives, through disconnects, refusals of the executor,
  failures to load and crashes.
- `RateHolds`: no window of time lets more than the limit through, measured against a history of its own.
- `RetryHonoured`: whoever waits the announced seconds is let through, unless others used the room, requests whose
  clients have gone included.
- `EditorHasItsModel`: the checkpoint that was announced is the one that serves, whatever happens to the file.
- `NoSelfInflictedRefusal`: the launcher's polls never bring it to the rate limit, also when a server that stalled reads
  all those it had given up on at once. The run sits on the boundary of what the theorem assumes, 3 seconds of polling for
  a limit of 2 and 1 second a poll; with 4 seconds TLC finds the refusal. (Its own slot it may meet: it is told that the
  server is busy, and polls again.)
- `SessionDecides`: the launcher always comes to a decision and leaves no server behind.

`ModelDelivery` (threshold 1 for the code's 5, two samples that fill a training window, one fault, one visitor besides the
plugin). Two samples give trainings on one sample and on two, so that versions differ; one fault may be a killed
trainer, a killed plugin, a broken download or a failed delete, move or version write, at any step. Samples run out, so deadlock is not checked. Its properties:

- `KnowledgeGrows`: the engine runs a whole model or none, and never one that was trained on fewer samples than a model it
  has run before.
- `UpdateConverges`: once the server's model stays whole, the engine ends up with it, crashes between the updater's steps and
  a version that could not be written included. The premise names the three cases in which the code gives no such
  promise. In the first two the files get the new version's name all the same, later checks find them up to date, and
  the engine stays without that model until the server has yet another one; an update to that one heals it. They are: the
  last download broke off (`cut`; the updater takes the broken connection for the end of the file), and the last file was
  not put in place of the old one (`kept`; `src/AIManager.cpp:404` and the line after it ignore what `DeleteFileA` and
  `MoveFileA` answer, as with a file that is open elsewhere). Without `~kept` in the premise TLC finds that behaviour. The
  third is two threads that hashed at once (`raced`), which is `StaleVersion` below.

`InferenceTools` checks three specifications, one behaviour belonging to one of them. `StagedGeneration`: two checkpoints,
a budget of one token, so that a reply can be within it and beyond it. `CopyDecoding`: three bytes, a trigger of one for
the four of "def ", a prompt of two, a window of five and a budget of five, so that the window moves past the prompt
while the cursor is in it. `BeamDecoding`: three tokens, costs 0 and 1, beam 2, three steps, so that an open entry can
still catch up. Its properties:

- `CompletedWork`: a completed run is the work of one checkpoint, or of the two that were pinned, through all replacements.
- `AuditAccepts`: the decoder's record always passes the auditor, although both work the window out by themselves.
- `EarlyStopIsSound`: the search that goes on to its budget gives the answer of the early stop.

`Experiments` (34 scripts; three starts, one crash, two edits or changed hosts, two flaws). Three starts are a training, a
repetition and an audit; two flaws can be one in the training and one in the measurement. Its properties:

- `ReportHidesNothing`: a process that ends well leaves no flaw untold that its script is written to notice, neither its
  own nor one of the training it rests on; and it rests on one version of every input. One script takes a digest
  after the training that used the file (`DigestsLate`) and is exempt from the second part.
- `ReportDescribesFiles`: the models a report names are the files in the directory.
- `RaisedForCause`: a process that raises had a flaw of its own or met an edited input, unless it came after the
  training; and as long as nothing at all went wrong, only a file that its script had yet to write was missing.

`PortableSmoke` (two authored cases, two replies: the candidate and one repair for the code's three). Two cases let a
supervisor stop half-way; two replies let the script look at an older one. Its properties:

- `VerdictIsEarned`: a validation passes only if its own supervisor ran every case, "cancelled" is said only if somebody
  cancelled, and after a cleanup that was carried out the candidate does not run.
- `SmokeReportIsTrue`: with each of the five flaws, a report is about the last reply the plugin got, although the capture
  may hold later rows. If it is of a validated generation, the supervisor had run the right control through all cases, and
  the wrong one was answered as a failed candidate, not as a missing or cancelled validator; the buffer went from empty
  to that reply and back; and the reply had passed its tests. Two limits of the script are part of the statement. The
  failure of the wrong control does not say that a case failed, because a deadline, too much output or a lack of memory
  has the same exit code (`sandbox_validate.py:129` to `:141`). And a plugin that offers Apply unproven cannot be told from
  a good one by its window: `docs/stable-readiness.md:12` asks for an actual successful validation, which the script infers
  from Apply being enabled, so that for this flaw the report claims a success that nobody measured. Two mutants
  test it, a looser binding of the proposal and a wrong control that only has to be kept from passing.

Four runs expect a violation and show where a document and the code disagree:

- `StoppedReview`: `docs/validated-generation.md:120` says that stopping a task prevents its proposal from being applied.
  Stop changes the cancel flag only, and the worker compares only the epoch once the run has asked `cancelled()` for
  the last time. A Stop in between is lost, Apply is enabled, and the proposal can be applied.
- `StoppingCaption`: `docs/automatic-plugin-mode.md:75` says that the button stays in its stopping state until the
  worker finishes. A change of the host's language rewrites the caption from `isGenerating` alone.
- `LostStop`: `docs/automatic-plugin-mode.md:73` says that a stop request cancels native inference. `generate` clears the
  engine's flag when it begins; a Stop between `generateCode`'s check and that point is lost to the engine, which draws
  all its tokens before the text is discarded. `StopHaltsInference` allows the one pass that was about to begin, and
  the run shows two.
- `StaleVersion`: `CHANGELOG.md:329` says that model versions are cached by file metadata. `model_version` runs in a thread
  for each request and assigns the key and the value one after the other. Two threads that hashed different states of
  the file can leave the newer key beside the older version, which is then answered until the file changes again.

## Fairness

`ValidatedGeneration` assumes weak fairness of the run's own steps: the thread is scheduled, and both callbacks return,
because the native model stops after 512 tokens, the HTTP client has timeouts, and the validator has a deadline.
`GenerationPanel` assumes weak fairness of a run's end, of each of a worker's two mutex steps, of message delivery and
of the second half of `WM_DESTROY`. Nothing obliges the user or the editor. `GenerationRouting` assumes weak fairness
of a call's own steps and of the end of a load: the thread is scheduled, network operations time out and a file has an
end. Weak fairness suffices for taking the mutex because loads are bounded; whether endless loads could starve a call
depends on the mutex of the platform. `LocalSession` assumes weak fairness of the launcher, which is one thread, and of
time; the server is owed nothing. `ModelDelivery` assumes weak fairness of the updater's steps, since the timer fires
again as long as the panel is open, and of the stores of a thread that has begun to hash; nobody has to submit, train or
ask. The other specifications state safety only.

## The proofs

`ValidatedGenerationProofs` assumes `ConstantsAssumption` only: the kinds of replies are kinds of replies, and there is
at least one attempt. The inductive invariant `IInv` adds to the properties what each place in the run knows:
`PositionInv` ties `attempt`, `validations`, `failures`, `history` and the length of `log` to `pc`; `CandidateInv` says
what the last entry of `log` has been through and that the snapshot is that entry's text; `EscalationInv` counts failed
local entries against `localFailures`. Without them `ReadyIsProven` is not inductive: a state at "testing" whose
snapshot belongs to another attempt satisfies it and steps out of it. From `IInv` follow the theorems `TypeCorrect`,
`ReadyMeansProven`, `FailuresOnlyAreRepaired`, `EscalationAlwaysEarned`, `StopHolds` (an action property) and
`KeepsContract` (the refinement, one step of the contract or a stutter for each action). `ReportAlwaysAgrees` adds
`AccountInv`: both lists of failures are the numbers 1, 2, ... of attempts, and at each place `run`'s counter of
validations is the attempt's number while its list of failures has as many entries or one less. So both accounts count
the same sets of attempts, whichever of them the report takes.

`GenerationPanelProofs` assumes `PanelConstants` only; it holds for any number of documents, texts and runs and any
queue limit. The invariant `PInv` adds to the properties: `WorkerInv` (a worker's stage, its held result and the mailbox
agree), `CompletedInv` and `PendingInv` (what a result in either place satisfies), `EpochInv` (the epoch against the
closing of the panel) and `BusyInv` (when `isGenerating` holds, there is a worker or a result on its way). The theorems are
`PanelTypeCorrect`, `RequestsNeverOverlap`, `ReviewAlwaysLatest`, `ApplyAlwaysReady`, `ClosedAlwaysEmpty`,
`ProgressAlwaysLive` and `DocumentIsGuarded` (the refinement).

`GenerationRoutingProofs` assumes `RoutingConstants` only: lengths, contexts and the token budget are positive. It holds
for every set of lengths, every budget and any number of loads. The invariant `RInv` adds to the properties: `MutexInv`
(the worker owns the mutex exactly inside a call), `EngineInv` (a ready model is whole), `FreshInv` (a call that is not
routed yet has done nothing), `NativeInv` and `OnlineInv` (what a routing decision means further on). Without `OnlineInv`
the step `Send` leaves `OnlineIsLastResort`, since the reason for going online is decided several steps earlier; without
`MutexInv` a load may replace the model under a call. The theorems are `RoutingTypeCorrect`, `SnapshotAlwaysAgrees`,
`OnlineOnlyAsLastResort`, `BackendAlwaysReported`, `CancelNeverStale` and, as an action property, `StoppedAlwaysDiscarded`.

`LocalSessionProofs` assumes `AdmissionConstants` and `SessionConstants` and proves `SlotAlwaysOneJob` and
`EditorAlwaysHasItsModel` for any clients, limits and times. The invariant `SInv` adds `LoadedInv` (a job that runs or has
ended well left a checkpoint pinned), `QuietInv` (before the server listens there is no job and no answer) and
`AnsweredInv` (a good answer from a live server means a pinned checkpoint). Without the last two the step `LearnReady`
could announce "none". The server's steps are proved once, with what they may do to the pinned checkpoint and to the
launcher's answer, and then used for the session's.

Three more invariants are about time. `RInv` proves `RateAlwaysHolds` and `RetryAlwaysHonoured`: `LimitInv` says that the queue
the server keeps is the younger end of the history of requests let through, and that what is missing of it has left the
window (so a span with too many requests would have been seen by the check that keeps only the queue); `RefusalInv` says
that since a refusal either somebody was let through, or the queue is the one that was full then. `TInv` bounds the clock by
what the launcher may wait for, which gives `SessionAlwaysTyped`. `PollInv` gives `NeverSelfInflicted`: as long as nobody
else asks, the hits, the abandoned polls that the server has still to read, and the poll under way are together no more
than the polls sent so far; every poll after the first has cost a second, and the first was waited for `ReadTimeout` + 1
seconds, since nobody but an earlier poll can hold the slot. So the server may read all of them at the worst moment and
still has room for the last. The theorem has a hypothesis of its own, `Timeout <= Limit + ReadTimeout`, which the code's 60
against 60 and 2 satisfies; the window does not matter. The server takes its limit from its environment, and under a
lower one the launcher's polls do run into it.

`ModelDeliveryProofs` assumes `DeliveryConstants` and proves `DeliveryAlwaysTyped` and, as an action property,
`KnowledgeAlwaysGrows`, for any numbers of samples, faults and visitors. The type invariant needs `StampsArePaid`: every
opening and every completion of the model file belongs to a scheduled training, and every training to a sample.
`DownstreamInv` orders the places a model passes, from the dataset over the trainer, the server's file and the download to
the engine; because a torn file in between says nothing, each place is compared with all those before it. `AtLeast(n)`
then says that no place on the way holds a whole model of fewer than n samples.

`InferenceToolsProofs` has the three tools. From `StagedConstants` it proves `WorkAlwaysComplete` for any checkpoints and budget;
`GInv` adds what holds on the way: every call so far was accepted at its place in the order, by the identity fixed in the
first call or pinned, and the tokens are the sum so far. From `CopyConstants` it proves `AuditAlwaysAccepts` for any vocabulary,
trigger, prompt, window and budget; `CInv` adds `CursorInv`, which ties the cursor to the last event (one position and one
byte further), and `Recorded`, by which an event's byte is in the response or ended it. `AuditAccepts` alone is not
inductive: a cursor that points elsewhere satisfies it and the next copy breaks the auditor's order. From `BeamConstants` it
proves `EarlyStopAlwaysSound` for any vocabulary, costs, beam width and budget. `StopInv` says that no open entry is cheaper
than the answer of the early stop; an entry that is extended gets no cheaper, and sorting brings the first of the cheapest
entries to the front, so the search that goes on never finds a better function.

`PortableSmokeProofs` assumes `CasesAreConfigured` and `SomeReplies` and proves `VerdictAlwaysEarned` and `ReportAlwaysTrue`. `DInv`
is about the driver, whoever calls it: a receipt on its way or in the text means that this call's supervisor was
through (`ReceiptInv`), a call begins with nothing of the last one (`FreshInv`), and once the command line is killed
nobody starts the container (`GoneInv`). `JInv` is about the script: while it watches, the buffer is empty or was touched
by the flaw, Reject comes last and Apply only for a ready last reply (`WatchInv`); from the bound proposal on, plugin and
buffer do only what was asked (`ApplyInv`). `CInv` is about the controls: which of them has been judged at each place of the
script, what a call under way may still answer for it, and that the supervisor never gets the wrong one through the last
case, so that it leaves no receipt. `ReportAlwaysTrue` needs all three: that a ready reply is proven is `DInv`'s.

`ExperimentRunProofs` assumes `ExperimentConstants` and `ScriptsKeepOrder`, and knows nothing else of any plan: the theorems hold
for every script of the catalogue and any number of starts, crashes, edits and flaws, and would hold for a new script that
keeps the order. Each invariant says, for each place in a plan, what the steps behind it have established ("of the steps
before k, one of these is not followed by one of those"). `FilesAlwaysDescribed` rests on `ModelsInv`, which compares for each arm
what was fitted, what is on disk, and what the documents say. `NothingEverHidden` rests on `FlawsInv` (a flaw the document does not
tell of is still to be checked, or the document is not finished and whoever reads it refuses it) and `ReadsInv` (which
versions of an input the documents have seen). `RefusedForCauseOnly` rests on `CauseInv`, the largest: `DocKnows` and
`ReportKnows` say that what a step will compare is there, put by this process or by the one whose report it read; `Record` and
`Made` are the record and the models that every undisturbed training leaves, because training is deterministic, and
`RecordInv` and `HeldInv` keep the files equal to them; `LeftInv` says that a budget which is whole at the end was whole all
along.

The invariants were checked with TLC on the instances above, or follow from ones that were, before they were proved. Every
invariant and every action property of the passing runs, and both refinements, are theorems. Only model-checked are the
liveness properties `Terminates`, `RunEnds`, `CallsEnd`, `SessionDecides` and `UpdateConverges`, because the prover does not treat
fairness. Where a proof needs an induction over a sequence or over the numbers, it takes a least counterexample from the
library's theorem on well-founded sets instead, since no prover here instantiates the induction rules.

## Not modelled

- Correction tracking: its threads share strings and flags without a lock, so that what a build can produce has no
  outcomes a model could enumerate.
- The retrieval store: its operations are atomic under one mutex, ranking and text are what is hard about it, and what
  concurrent callers may rely on is stated nowhere. A crash while its file is written, and sources that are missing
  between the two sections of an update, are listed as hazards.
- Two updaters at a time, on one temporary file: nothing can be promised of the result.
- Workspace patches: no caller in the plugin besides tests; another program may write between any two system calls.
- Of the engine: tensors, expert routing with capacity, the tokenizer's merges, the stream against the returned text.
- Of the panel and routing: the texts of prompts, streams, diagnostics and reports, the JSON of the online protocol,
  selection arithmetic, clones of one document in two views, test-only exports, layout and dark mode. A closed panel
  stays closed because the code never clears `isPanelRegistered`.
- Of the server: the other backends' bounds in `model_backends.py`; the training checkpoint, which only warms the next
  training up.
- Task outcome and progress events (`src/AgentTaskOutcome.cpp`, `src/GenerationStreamRouter.cpp`): a report is formatted, events
  are forwarded; both without state of their own.
- Telemetry, host glue, evaluation helpers, benchmarks, recorded evidence, scripts that only generate or score data, and
  all numerics.
