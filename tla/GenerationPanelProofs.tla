----------------------- MODULE GenerationPanelProofs -----------------------
(***************************************************************************)
(* Proofs about GenerationPanel for any documents, texts, number of runs   *)
(* and queue limit.  The invariant follows one token: while isGenerating   *)
(* holds, the run is in its worker or in completedGeneration, and a review *)
(* is on display only while it holds no longer.                            *)
(***************************************************************************)
EXTENDS GenerationPanel, TLAPS

\* Workers: only of the current epoch in an open panel, only of earlier ones after it.
WorkerInv ==
  \A e \in Runs :
    /\ Live(e) => /\ held[e] \in Result /\ held[e].epoch = e
                  /\ held[e].ready => held[e].proposed # held[e].original
                  /\ e \notin applied
                  /\ panel = "open" => e = generationEpoch
                  /\ panel # "open" => e < generationEpoch
    /\ mailbox = e <=> stage[e] = "posting"

\* A result in the mailbox: the run's worker is gone, the panel still generating.
CompletedInv ==
  completedGeneration # NoResult =>
    /\ isGenerating
    /\ \A e \in Runs : ~Live(e)
    /\ panel # "closed"
    /\ panel = "open" => completedGeneration.epoch = generationEpoch
    /\ completedGeneration.ready => completedGeneration.proposed # completedGeneration.original
    /\ completedGeneration.epoch \notin applied

\* A review on display.
PendingInv ==
  /\ pendingGeneration # NoResult =>
       /\ panel # "closed"
       /\ pendingGeneration.ready => pendingGeneration.proposed # pendingGeneration.original
       /\ pendingGeneration.epoch \notin applied
  /\ applyEnabled => pendingGeneration # NoResult /\ pendingGeneration.ready

\* Epochs only grow, so a new run's is unused.
EpochInv ==
  /\ panel = "open" => generationEpoch <= MaxRuns
  /\ \A e \in applied : e <= generationEpoch
  /\ panel = "closed" => mailbox = 0

\* While the panel generates, the current run is in its worker or in the mailbox.
BusyInv ==
  panel = "open" /\ isGenerating =>
    /\ generationEpoch \in Runs
    /\ UnderWay(generationEpoch)

PInv ==
  /\ TypeOK
  /\ OneWorker
  /\ ReviewIsLatest
  /\ WorkerInv
  /\ CompletedInv
  /\ PendingInv
  /\ EpochInv
  /\ BusyInv

Flow == <<panel, isGenerating, generationEpoch, stage, held, mailbox, completedGeneration,
          pendingGeneration, applyEnabled, applied>>

\* The invariant holds when the panel is created.
LEMMA InitPInv == Init => PInv
  <1> SUFFICES ASSUME Init PROVE PInv
    OBVIOUS
  <1> USE PanelConstants DEF Init, Runs
  <1>1. TypeOK
    <2>1. stage \in [Runs -> Stages] /\ held \in [Runs -> Result \cup {NoResult}]
      BY DEF Stages
    <2>2. queue \in Seq({"status", "ready"}) /\ Len(queue) <= QueueLimit
      OBVIOUS
    <2>3. /\ generationEpoch \in 0 .. (MaxRuns + 1) /\ mailbox \in 0 .. MaxRuns
          /\ latestStatusEpoch \in 0 .. MaxRuns /\ shown \in 0 .. MaxRuns
      OBVIOUS
    <2>4. QED
      BY <2>1, <2>2, <2>3, Zenon DEF TypeOK
  <1>2. \A e \in Runs : ~Live(e)
    BY DEF Live
  <1>3. OneWorker /\ ReviewIsLatest
    BY <1>2 DEF OneWorker, ReviewIsLatest
  <1>4. WorkerInv
    BY <1>2 DEF WorkerInv
  <1>5. CompletedInv /\ PendingInv /\ EpochInv /\ BusyInv
    BY <1>2 DEF CompletedInv, PendingInv, EpochInv, BusyInv
  <1>6. QED
    BY <1>1, <1>3, <1>4, <1>5 DEF PInv

\* Steps that touch neither the run nor the review keep the invariant.
LEMMA CalmStep ==
  ASSUME PInv, TypeOK', UNCHANGED Flow
  PROVE  PInv'
  <1> USE DEF PInv, Flow
  <1>1. \A e : Live(e)' <=> Live(e)
    BY DEF Live
  <1>2. OneWorker' /\ ReviewIsLatest'
    BY <1>1 DEF OneWorker, ReviewIsLatest
  <1>3. WorkerInv' /\ CompletedInv'
    BY <1>1 DEF WorkerInv, CompletedInv
  <1>4. PendingInv' /\ EpochInv'
    BY DEF PendingInv, EpochInv
  <1>5. BusyInv'
    BY <1>1 DEF BusyInv, UnderWay
  <1>6. QED
    BY <1>2, <1>3, <1>4, <1>5

LEMMA EditorStep ==
  ASSUME PInv,
         \/ \E d \in Docs, t \in Texts : EditDocument(d, t)
         \/ \E d \in Docs : SwitchDocument(d)
         \/ ToggleReadOnly
  PROVE  PInv'
  <1>1. UNCHANGED Flow
    BY DEF Flow, EditDocument, SwitchDocument, ToggleReadOnly, workers, buttons, history
  <1>2. text' \in [Docs -> Texts] /\ active' \in Docs /\ writable' \subseteq Docs
    BY DEF EditDocument, SwitchDocument, ToggleReadOnly, PInv, TypeOK
  <1>3. TypeOK'
    BY <1>2 DEF PInv, TypeOK, EditDocument, SwitchDocument, ToggleReadOnly, workers, buttons,
       history
  <1>4. QED
    BY <1>1, <1>3, CalmStep

LEMMA CaptionStep ==
  ASSUME PInv, UpdateLocalization \/ ApplyElsewhere
  PROVE  PInv'
  <1>1. UNCHANGED Flow
    BY DEF Flow, UpdateLocalization, ApplyElsewhere, workers, buttons, history
  <1>2. shown' \in 0 .. MaxRuns /\ button' \in {"generate", "stop", "stopping"}
    BY PanelConstants DEF UpdateLocalization, ApplyElsewhere, buttons, PInv, TypeOK
  <1>3. TypeOK'
    BY <1>2 DEF PInv, TypeOK, UpdateLocalization, ApplyElsewhere, editor, workers, buttons, history
  <1>4. QED
    BY <1>1, <1>3, CalmStep

\* A posted message keeps the queue within its limit; so does taking one off.
LEMMA QueueBound ==
  ASSUME TypeOK, NEW m \in {"status", "ready"}
  PROVE  /\ Post(m) => queue' \in Seq({"status", "ready"}) /\ Len(queue') <= QueueLimit
         /\ Receive(m) => queue' \in Seq({"status", "ready"}) /\ Len(queue') <= QueueLimit
  <1> USE PanelConstants DEF TypeOK
  <1>1. ASSUME Post(m)
        PROVE  queue' \in Seq({"status", "ready"}) /\ Len(queue') <= QueueLimit
    BY <1>1 DEF Post
  <1>2. ASSUME Receive(m)
        PROVE  queue' \in Seq({"status", "ready"}) /\ Len(queue') <= QueueLimit
    BY <1>2 DEF Receive
  <1>3. QED
    BY <1>1, <1>2

LEMMA StatusStep ==
  ASSUME PInv, ReceiveStatus \/ \E e \in Runs : WorkerStatus(e)
  PROVE  PInv'
  <1>1. UNCHANGED Flow
    BY DEF Flow, ReceiveStatus, WorkerStatus, workers, buttons, history
  <1>2. queue' \in Seq({"status", "ready"}) /\ Len(queue') <= QueueLimit
    BY QueueBound DEF ReceiveStatus, WorkerStatus, PInv, TypeOK
  <1>3. shown' \in 0 .. MaxRuns /\ latestStatusEpoch' \in 0 .. MaxRuns
    BY PanelConstants DEF ReceiveStatus, WorkerStatus, PInv, TypeOK, Runs
  <1>4. TypeOK'
    BY <1>2, <1>3 DEF PInv, TypeOK, ReceiveStatus, WorkerStatus, editor, workers, buttons, history
  <1>5. QED
    BY <1>1, <1>4, CalmStep

LEMMA StopPressed == PInv /\ PressStop => PInv'
  <1> SUFFICES ASSUME PInv, PressStop PROVE PInv'
    OBVIOUS
  <1>1. UNCHANGED Flow
    BY DEF Flow, PressStop, workers
  <1>2. stopped' \subseteq Runs
    BY DEF PressStop, PInv, BusyInv, TypeOK
  <1>3. TypeOK'
    BY <1>2 DEF PInv, TypeOK, PressStop, editor, workers
  <1>4. QED
    BY <1>1, <1>3, CalmStep

\* Steps that take the review, or only the offer, off display.
LEMMA DropStep ==
  ASSUME PInv, TypeOK', pendingGeneration' \in {pendingGeneration, NoResult},
         ~applyEnabled', isGenerating' <=> isGenerating,
         UNCHANGED <<panel, generationEpoch, stage, held, mailbox, completedGeneration, applied>>
  PROVE  PInv'
  <1> USE DEF PInv
  <1>1. \A e : Live(e)' <=> Live(e)
    BY DEF Live
  <1>2. OneWorker' /\ ReviewIsLatest'
    BY <1>1 DEF OneWorker, ReviewIsLatest
  <1>3. WorkerInv' /\ CompletedInv'
    BY <1>1 DEF WorkerInv, CompletedInv
  <1>4. PendingInv' /\ EpochInv'
    BY DEF PendingInv, EpochInv
  <1>5. BusyInv'
    BY <1>1 DEF BusyInv, UnderWay
  <1>6. QED
    BY <1>2, <1>3, <1>4, <1>5

LEMMA ReviewDropped ==
  ASSUME PInv, PressGenerateRefused \/ PressReject \/ ApplyFails
  PROVE  PInv'
  <1>1. /\ pendingGeneration' \in {pendingGeneration, NoResult} /\ ~applyEnabled'
        /\ isGenerating' <=> isGenerating
        /\ UNCHANGED <<panel, generationEpoch, stage, held, mailbox, completedGeneration, applied>>
    BY DEF PressGenerateRefused, PressReject, ApplyFails, DropReview, workers, history
  <1>2. /\ shown' \in 0 .. MaxRuns /\ button' \in {"generate", "stop", "stopping"}
        /\ rejectEnabled' \in BOOLEAN /\ applyEnabled' \in BOOLEAN /\ isGenerating' \in BOOLEAN
    <2>1. 0 \in 0 .. MaxRuns
      BY PanelConstants
    <2>2. /\ shown \in 0 .. MaxRuns /\ button \in {"generate", "stop", "stopping"}
          /\ rejectEnabled \in BOOLEAN /\ isGenerating \in BOOLEAN
      BY DEF PInv, TypeOK
    <2>3. QED
      BY <2>1, <2>2, Zenon DEF PressGenerateRefused, PressReject, ApplyFails, DropReview
  <1>3. pendingGeneration' \in Result \cup {NoResult}
    BY <1>1 DEF PInv, TypeOK
  <1>4. TypeOK'
    BY <1>1, <1>2, <1>3
    DEF PInv, TypeOK, PressGenerateRefused, PressReject, ApplyFails, editor, workers, history
  <1>5. QED
    BY <1>1, <1>4, DropStep

\* A new run: no worker is left, and its epoch was never used.
LEMMA GeneratePressed ==
  ASSUME PInv, NEW started \in BOOLEAN, PressGenerate(started)
  PROVE  PInv'
  <1> DEFINE e == generationEpoch + 1
             r == [epoch |-> e, doc |-> active, original |-> text[active],
                   proposed |-> text[active], ready |-> FALSE]
  <1>1. /\ panel = "open" /\ panel' = "open" /\ ~isGenerating /\ generationEpoch' = e
        /\ generationEpoch < MaxRuns /\ pendingGeneration' = NoResult /\ ~applyEnabled'
        /\ (isGenerating' <=> started)
        /\ UNCHANGED <<mailbox, completedGeneration, applied>>
        /\ stage' = IF started THEN [stage EXCEPT ![e] = "working"] ELSE stage
        /\ held' = IF started THEN [held EXCEPT ![e] = r] ELSE held
    BY DEF PressGenerate, DropReview, workers, history
  <1>2. e \in Runs /\ e \notin applied /\ generationEpoch \in Nat
    BY <1>1, PanelConstants DEF PInv, TypeOK, EpochInv, Runs
  <1>3. r \in Result
    BY <1>2 DEF PInv, TypeOK, Result
  <1>4. completedGeneration = NoResult /\ \A f \in Runs : ~Live(f)
    BY <1>1 DEF PInv, CompletedInv, OneWorker
  <1>5. stage \in [Runs -> Stages] /\ held \in [Runs -> Result \cup {NoResult}]
    BY DEF PInv, TypeOK
  <1>6. \A f \in Runs : /\ Live(f)' <=> started /\ f = e
                        /\ started => held'[e] = r
                        /\ stage[f] = "none"
                        /\ stage'[f] \in {"none", "working"}
    BY <1>1, <1>2, <1>4, <1>5 DEF Live
  <1> HIDE DEF r
  <1>7. TypeOK'
    <2>1. stage' \in [Runs -> Stages] /\ held' \in [Runs -> Result \cup {NoResult}]
      BY <1>1, <1>2, <1>3, <1>5 DEF Stages
    <2>2. generationEpoch' \in 0 .. (MaxRuns + 1)
      BY <1>1, <1>2, PanelConstants
    <2>3. /\ shown' \in 0 .. MaxRuns /\ button' \in {"generate", "stop", "stopping"}
          /\ rejectEnabled' \in BOOLEAN /\ applyEnabled' \in BOOLEAN
          /\ isGenerating' \in BOOLEAN /\ generationCancelled' \in BOOLEAN
      <3>1. 0 \in 0 .. MaxRuns
        BY PanelConstants
      <3>2. shown \in 0 .. MaxRuns
        BY DEF PInv, TypeOK
      <3>3. QED
        BY <3>1, <3>2, Zenon DEF PressGenerate, DropReview
    <2>4. QED
      BY <1>1, <2>1, <2>2, <2>3 DEF PInv, TypeOK, PressGenerate, editor, history
  <1>8. OneWorker' /\ ReviewIsLatest'
    BY <1>1, <1>6 DEF OneWorker, ReviewIsLatest
  <1>9. WorkerInv'
    <2>1. mailbox = 0 \/ mailbox \notin Runs
      BY <1>6 DEF PInv, WorkerInv
    <2>2. \A f \in Runs : ~(mailbox' = f) /\ stage'[f] # "posting"
      BY <1>1, <1>6, <2>1, PanelConstants DEF Runs
    <2>3. r.epoch = e /\ ~r.ready
      BY DEF r
    <2>4. QED
      BY <1>1, <1>2, <1>3, <1>6, <2>2, <2>3 DEF WorkerInv
  <1>10. CompletedInv' /\ PendingInv'
    BY <1>1, <1>4 DEF CompletedInv, PendingInv
  <1>11. EpochInv'
    BY <1>1, <1>2, PanelConstants DEF PInv, TypeOK, EpochInv, Runs
  <1>12. BusyInv'
    BY <1>1, <1>2, <1>6 DEF BusyInv, UnderWay
  <1>13. QED
    BY <1>7, <1>8, <1>9, <1>10, <1>11, <1>12 DEF PInv

LEMMA WorkerFinished ==
  ASSUME PInv, NEW e \in Runs, Finish(e)
  PROVE  PInv'
  <1> PICK t \in Texts, ready \in BOOLEAN : WorkerFinishes(e, t, ready)
    BY DEF Finish
  <1>1. /\ stage[e] = "working" /\ stage' = [stage EXCEPT ![e] = "finished"]
        /\ held' = [held EXCEPT ![e].proposed = t, ![e].ready = ready]
        /\ ready => t # held[e].original
        /\ UNCHANGED <<editor, panel, isGenerating, generationEpoch, generationCancelled, mailbox,
                       completedGeneration, pendingGeneration, latestStatusEpoch, queue, buttons,
                       shown, tracked, history>>
    BY DEF WorkerFinishes
  <1>2. stage \in [Runs -> Stages] /\ held \in [Runs -> Result \cup {NoResult}]
    BY DEF PInv, TypeOK
  <1>3. Live(e) /\ held[e] \in Result /\ held[e].epoch = e
    BY <1>1 DEF Live, PInv, WorkerInv
  <1> DEFINE r == [held[e] EXCEPT !.proposed = t, !.ready = ready]
  <1>4. r \in Result /\ r.epoch = e /\ (r.ready => r.proposed # r.original)
    BY <1>1, <1>3 DEF Result
  <1>5. held' = [held EXCEPT ![e] = r]
    BY <1>1, <1>2
  <1> HIDE DEF r
  <1>6. \A f \in Runs : /\ Live(f)' <=> Live(f)
                        /\ held'[f] = IF f = e THEN r ELSE held[f]
                        /\ stage'[f] = IF f = e THEN "finished" ELSE stage[f]
    BY <1>1, <1>2, <1>5 DEF Live
  <1>7. TypeOK'
    <2>1. stage' \in [Runs -> Stages]
      BY <1>1, <1>2 DEF Stages
    <2>2. held' \in [Runs -> Result \cup {NoResult}]
      BY <1>2, <1>4, <1>5
    <2>3. QED
      BY <1>1, <2>1, <2>2 DEF PInv, TypeOK, editor, buttons, history
  <1>8. OneWorker' /\ ReviewIsLatest'
    BY <1>1, <1>6 DEF PInv, OneWorker, ReviewIsLatest
  <1>9. WorkerInv'
    <2>1. \A f \in Runs : mailbox' = f <=> stage'[f] = "posting"
      BY <1>1, <1>6 DEF PInv, WorkerInv
    <2>2. \A f \in Runs : Live(f)' => f = e
      BY <1>3, <1>6 DEF PInv, OneWorker
    <2>3. /\ e \notin applied' /\ (panel' = "open" => e = generationEpoch')
          /\ (panel' # "open" => e < generationEpoch')
      BY <1>1, <1>3 DEF PInv, WorkerInv, history
    <2>4. QED
      BY <1>4, <1>6, <2>1, <2>2, <2>3 DEF WorkerInv
  <1>10. CompletedInv' /\ PendingInv'
    BY <1>1, <1>6 DEF PInv, CompletedInv, PendingInv, buttons, history
  <1>11. EpochInv'
    BY <1>1 DEF PInv, EpochInv, history
  <1>12. BusyInv'
    BY <1>1, <1>6 DEF PInv, BusyInv, UnderWay
  <1>13. QED
    BY <1>7, <1>8, <1>9, <1>10, <1>11, <1>12 DEF PInv

\* The worker leaves because its epoch is over; the panel stops generating with it.
LEMMA WorkerIsStale ==
  ASSUME PInv, NEW e \in Runs, WorkerLocks(e), generationEpoch # e
  PROVE  PInv'
  <1>1. /\ stage[e] = "finished" /\ ~isGenerating'
        /\ stage' = [stage EXCEPT ![e] = "none"] /\ held' = [held EXCEPT ![e] = NoResult]
        /\ UNCHANGED <<editor, panel, generationEpoch, generationCancelled, mailbox,
                       completedGeneration, pendingGeneration, latestStatusEpoch, queue, buttons,
                       shown, tracked, history>>
    BY DEF WorkerLocks
  <1>2. stage \in [Runs -> Stages] /\ held \in [Runs -> Result \cup {NoResult}]
    BY DEF PInv, TypeOK
  <1>3. /\ Live(e) /\ panel # "open" /\ completedGeneration = NoResult
        /\ \A f \in Runs : Live(f) => f = e
    BY <1>1 DEF Live, PInv, WorkerInv, OneWorker, CompletedInv
  <1>4. \A f \in Runs : /\ ~Live(f)'
                        /\ stage'[f] = IF f = e THEN "none" ELSE stage[f]
    BY <1>1, <1>2, <1>3 DEF Live
  <1>5. TypeOK'
    <2>1. stage' \in [Runs -> Stages] /\ held' \in [Runs -> Result \cup {NoResult}]
      BY <1>1, <1>2 DEF Stages
    <2>2. isGenerating' \in BOOLEAN
      BY DEF WorkerLocks, PInv, TypeOK
    <2>3. QED
      BY <1>1, <2>1, <2>2 DEF PInv, TypeOK, editor, buttons, history
  <1>6. OneWorker' /\ ReviewIsLatest'
    BY <1>1, <1>3, <1>4 DEF PInv, OneWorker, ReviewIsLatest
  <1>7. WorkerInv'
    BY <1>1, <1>4 DEF PInv, WorkerInv
  <1>8. CompletedInv' /\ PendingInv'
    BY <1>1, <1>3 DEF PInv, CompletedInv, PendingInv, buttons, history
  <1>9. EpochInv' /\ BusyInv'
    BY <1>1, <1>3 DEF PInv, EpochInv, BusyInv, history
  <1>10. QED
    BY <1>5, <1>6, <1>7, <1>8, <1>9 DEF PInv

LEMMA WorkerIsCurrent ==
  ASSUME PInv, NEW e \in Runs, WorkerLocks(e), generationEpoch = e
  PROVE  PInv'
  <1>1. /\ stage[e] = "finished" /\ mailbox = 0 /\ mailbox' = e
        /\ stage' = [stage EXCEPT ![e] = "posting"]
        /\ UNCHANGED <<editor, panel, isGenerating, generationEpoch, generationCancelled, held,
                       completedGeneration, pendingGeneration, latestStatusEpoch, queue, buttons,
                       shown, tracked, history>>
    BY DEF WorkerLocks
  <1>2. stage \in [Runs -> Stages]
    BY DEF PInv, TypeOK
  <1>3. Live(e) /\ panel = "open"
    BY <1>1, PanelConstants DEF Live, PInv, WorkerInv, Runs
  <1>4. \A f \in Runs : /\ Live(f)' <=> Live(f)
                        /\ stage'[f] = IF f = e THEN "posting" ELSE stage[f]
    BY <1>1, <1>2 DEF Live
  <1>5. TypeOK'
    <2>1. stage' \in [Runs -> Stages] /\ mailbox' \in 0 .. MaxRuns
      BY <1>1, <1>2, PanelConstants DEF Stages, Runs
    <2>2. QED
      BY <1>1, <2>1 DEF PInv, TypeOK, editor, buttons, history
  <1>6. OneWorker' /\ ReviewIsLatest'
    BY <1>1, <1>4 DEF PInv, OneWorker, ReviewIsLatest
  <1>7. WorkerInv'
    <2>1. \A f \in Runs : mailbox' = f <=> stage'[f] = "posting"
      <3>1. \A f \in Runs : stage[f] # "posting"
        BY <1>1, PanelConstants DEF PInv, WorkerInv, Runs
      <3>2. QED
        BY <1>1, <1>4, <3>1
    <2>2. QED
      BY <1>1, <1>4, <2>1 DEF PInv, WorkerInv, history
  <1>8. CompletedInv' /\ PendingInv'
    BY <1>1, <1>4 DEF PInv, CompletedInv, PendingInv, buttons, history
  <1>9. EpochInv' /\ BusyInv'
    BY <1>1, <1>3, <1>4 DEF PInv, EpochInv, BusyInv, UnderWay, history
  <1>10. QED
    BY <1>5, <1>6, <1>7, <1>8, <1>9 DEF PInv

\* The token moves from the worker to the mailbox, or is given up.
LEMMA WorkerPosted ==
  ASSUME PInv, NEW e \in Runs, WorkerPosts(e)
  PROVE  PInv'
  <1>1. /\ stage[e] = "posting" /\ mailbox' = 0
        /\ stage' = [stage EXCEPT ![e] = "none"] /\ held' = [held EXCEPT ![e] = NoResult]
        /\ \/ /\ completedGeneration' = held[e] /\ (isGenerating' <=> isGenerating)
           \/ /\ completedGeneration' = NoResult /\ ~isGenerating'
        /\ UNCHANGED <<editor, panel, generationEpoch, generationCancelled, pendingGeneration,
                       latestStatusEpoch, buttons, shown, tracked, history>>
    BY DEF WorkerPosts
  <1>2. stage \in [Runs -> Stages] /\ held \in [Runs -> Result \cup {NoResult}]
    BY DEF PInv, TypeOK
  <1>3. /\ Live(e) /\ mailbox = e /\ isGenerating /\ held[e] \in Result
        /\ held[e].epoch = e /\ e \notin applied
        /\ held[e].ready => held[e].proposed # held[e].original
        /\ panel = "open" => e = generationEpoch
        /\ \A f \in Runs : Live(f) => f = e
    BY <1>1 DEF Live, PInv, WorkerInv, OneWorker
  <1>4. panel # "closed"
    BY <1>3, PanelConstants DEF PInv, EpochInv, Runs
  <1>5. \A f \in Runs : /\ ~Live(f)' /\ stage'[f] = "none"
    BY <1>1, <1>2, <1>3 DEF Live
  <1>6. TypeOK'
    <2>1. stage' \in [Runs -> Stages] /\ held' \in [Runs -> Result \cup {NoResult}]
      BY <1>1, <1>2 DEF Stages
    <2>2. queue' \in Seq({"status", "ready"}) /\ Len(queue') <= QueueLimit
      BY QueueBound DEF WorkerPosts, PInv, TypeOK
    <2>3. isGenerating' \in BOOLEAN
      BY DEF WorkerPosts, PInv, TypeOK
    <2>4. mailbox' \in 0 .. MaxRuns
      BY <1>1, PanelConstants
    <2>5. QED
      BY <1>1, <1>3, <2>1, <2>2, <2>3, <2>4 DEF PInv, TypeOK, editor, buttons, history
  <1>7. OneWorker' /\ ReviewIsLatest'
    BY <1>1, <1>3, <1>5 DEF PInv, OneWorker, ReviewIsLatest
  <1>8. WorkerInv'
    BY <1>1, <1>5, PanelConstants DEF WorkerInv, Runs
  <1>9. CompletedInv'
    BY <1>1, <1>3, <1>4, <1>5 DEF CompletedInv, history
  <1>10. PendingInv' /\ EpochInv'
    BY <1>1, <1>4 DEF PInv, PendingInv, EpochInv, buttons, history
  <1>11. BusyInv'
    <2>1. held[e] # NoResult
      BY <1>3, PanelConstants
    <2>2. QED
      BY <1>1, <1>3, <2>1 DEF BusyInv, UnderWay
  <1>12. QED
    BY <1>6, <1>7, <1>8, <1>9, <1>10, <1>11 DEF PInv

\* The token leaves the mailbox: the panel stops generating and shows the review.
LEMMA ReadyReceived == PInv /\ ReceiveReady => PInv'
  <1> SUFFICES ASSUME PInv, ReceiveReady PROVE PInv'
    OBVIOUS
  <1>1. queue' \in Seq({"status", "ready"}) /\ Len(queue') <= QueueLimit
    BY QueueBound DEF ReceiveReady, PInv, TypeOK
  <1>2. CASE UNCHANGED <<isGenerating, completedGeneration, pendingGeneration, buttons, shown>>
    <2>1. UNCHANGED Flow
      BY <1>2 DEF Flow, ReceiveReady, Receive, workers, buttons, history
    <2>2. TypeOK'
      BY <1>1, <1>2, <2>1
      DEF PInv, TypeOK, ReceiveReady, Receive, Flow, editor, workers, buttons, history
    <2>3. QED
      BY <2>1, <2>2, CalmStep
  <1>3. CASE /\ completedGeneration # NoResult /\ completedGeneration.epoch = generationEpoch
             /\ pendingGeneration' = completedGeneration
             /\ completedGeneration' = NoResult
             /\ isGenerating' = FALSE
             /\ button' = "generate" /\ shown' = 0
             /\ applyEnabled' = completedGeneration.ready
             /\ rejectEnabled' = TRUE
    <2>1. /\ panel = "open" /\ mailbox = 0
          /\ UNCHANGED <<editor, panel, generationEpoch, generationCancelled, workers,
                         latestStatusEpoch, tracked, history>>
      BY DEF ReceiveReady, Receive
    <2>2. /\ \A f \in Runs : ~Live(f)
          /\ completedGeneration.ready =>
               completedGeneration.proposed # completedGeneration.original
          /\ completedGeneration.epoch \notin applied
          /\ completedGeneration \in Result
      BY <1>3 DEF PInv, CompletedInv, TypeOK
    <2>3. \A f \in Runs : ~Live(f)'
      BY <2>1, <2>2 DEF Live, workers
    <2>4. completedGeneration.ready \in BOOLEAN
      BY <2>2 DEF Result
    <2>5. TypeOK'
      <3>1. 0 \in 0 .. MaxRuns
        BY PanelConstants
      <3>2. TypeOK
        BY DEF PInv
      <3>3. applyEnabled' \in BOOLEAN /\ rejectEnabled' \in BOOLEAN /\ isGenerating' \in BOOLEAN
        BY <1>3, <2>4, Zenon
      <3>4. /\ shown' \in 0 .. MaxRuns /\ button' \in {"generate", "stop", "stopping"}
            /\ completedGeneration' \in Result \cup {NoResult}
            /\ pendingGeneration' \in Result \cup {NoResult}
        BY <1>3, <2>2, <3>1
      <3>5. QED
        BY <1>1, <2>1, <3>2, <3>3, <3>4 DEF TypeOK, editor, workers, history
    <2>6. OneWorker' /\ ReviewIsLatest'
      BY <1>3, <2>1, <2>3 DEF OneWorker, ReviewIsLatest
    <2>7. WorkerInv'
      <3>1. WorkerInv /\ UNCHANGED <<mailbox, stage>>
        BY <2>1 DEF PInv, workers
      <3>2. QED
        BY <2>3, <3>1 DEF WorkerInv
    <2>8. CompletedInv' /\ EpochInv' /\ BusyInv'
      BY <1>3, <2>1 DEF CompletedInv, EpochInv, BusyInv, PInv, workers, history
    <2>9. PendingInv'
      BY <1>3, <2>1, <2>2 DEF PendingInv, history
    <2>10. QED
      BY <2>5, <2>6, <2>7, <2>8, <2>9 DEF PInv
  <1>4. QED
    BY <1>2, <1>3 DEF ReceiveReady

\* The proposal is written and the review is gone with it.
LEMMA ApplySucceeded == PInv /\ ApplySucceeds => PInv'
  <1> SUFFICES ASSUME PInv, ApplySucceeds PROVE PInv'
    OBVIOUS
  <1>1. /\ panel = "open" /\ pendingGeneration # NoResult /\ ~isGenerating
        /\ text' = [text EXCEPT ![active] = pendingGeneration.proposed]
        /\ applied' = applied \cup {pendingGeneration.epoch}
        /\ tracked' = IF active \in Pathless THEN tracked ELSE active
        /\ shown' = 0
        /\ pendingGeneration' = NoResult /\ ~applyEnabled'
        /\ UNCHANGED <<active, writable, panel, isGenerating, generationEpoch,
                       generationCancelled, stage, held, mailbox, completedGeneration,
                       latestStatusEpoch, queue, button, stopped>>
    BY DEF ApplySucceeds, MayApply, DropReview, workers
  <1>2. pendingGeneration \in Result /\ pendingGeneration.epoch = generationEpoch
    BY <1>1 DEF PInv, TypeOK, ReviewIsLatest
  <1>3. /\ completedGeneration = NoResult /\ \A f \in Runs : ~Live(f)
    BY <1>1 DEF PInv, CompletedInv, OneWorker
  <1>4. \A f \in Runs : ~Live(f)'
    BY <1>1, <1>3 DEF Live
  <1>5. TypeOK'
    <2>1. /\ text' \in [Docs -> Texts] /\ applied' \subseteq Runs
          /\ tracked' \in Docs \cup {NoDoc}
      BY <1>1, <1>2 DEF PInv, TypeOK, Result
    <2>2. applyEnabled' \in BOOLEAN /\ rejectEnabled' \in BOOLEAN
      BY Zenon DEF ApplySucceeds, DropReview
    <2>3. shown' \in 0 .. MaxRuns
      BY <1>1, PanelConstants
    <2>4. QED
      BY <1>1, <2>1, <2>2, <2>3 DEF PInv, TypeOK
  <1>6. OneWorker' /\ ReviewIsLatest'
    BY <1>1, <1>4 DEF OneWorker, ReviewIsLatest
  <1>7. WorkerInv'
    BY <1>1, <1>4 DEF PInv, WorkerInv
  <1>8. CompletedInv' /\ PendingInv' /\ BusyInv'
    BY <1>1, <1>3 DEF CompletedInv, PendingInv, BusyInv
  <1>9. EpochInv'
    BY <1>1, <1>2 DEF PInv, EpochInv, TypeOK
  <1>10. QED
    BY <1>5, <1>6, <1>7, <1>8, <1>9 DEF PInv

\* From here on every worker is of an earlier epoch.
LEMMA DestroyBegun == PInv /\ DestroyBegins => PInv'
  <1> SUFFICES ASSUME PInv, DestroyBegins PROVE PInv'
    OBVIOUS
  <1>1. /\ panel = "open" /\ panel' = "closing" /\ generationEpoch' = generationEpoch + 1
        /\ UNCHANGED <<editor, isGenerating, stage, held, mailbox, completedGeneration,
                       pendingGeneration, latestStatusEpoch, queue, buttons, shown, tracked,
                       history>>
    BY DEF DestroyBegins, workers
  <1>2. generationEpoch \in Nat /\ generationEpoch <= MaxRuns
    BY <1>1 DEF PInv, TypeOK, EpochInv
  <1>3. \A f \in Runs : Live(f)' <=> Live(f)
    BY <1>1 DEF Live
  <1>4. TypeOK'
    <2>1. generationEpoch' \in 0 .. (MaxRuns + 1)
      BY <1>1, <1>2, PanelConstants
    <2>2. generationCancelled' \in BOOLEAN
      BY DEF DestroyBegins
    <2>3. QED
      BY <1>1, <2>1, <2>2 DEF PInv, TypeOK, editor, buttons, history
  <1>5. OneWorker' /\ ReviewIsLatest'
    BY <1>1, <1>3 DEF PInv, OneWorker, ReviewIsLatest
  <1>6. WorkerInv'
    BY <1>1, <1>2, <1>3 DEF PInv, WorkerInv, Runs, history
  <1>7. CompletedInv' /\ PendingInv' /\ BusyInv'
    BY <1>1, <1>3 DEF PInv, CompletedInv, PendingInv, BusyInv, buttons, history
  <1>8. EpochInv'
    BY <1>1, <1>2, PanelConstants DEF PInv, EpochInv, TypeOK, Runs, history
  <1>9. QED
    BY <1>4, <1>5, <1>6, <1>7, <1>8 DEF PInv

LEMMA DestroyEnded == PInv /\ DestroyEnds => PInv'
  <1> SUFFICES ASSUME PInv, DestroyEnds PROVE PInv'
    OBVIOUS
  <1>1. /\ panel = "closing" /\ mailbox = 0 /\ panel' = "closed"
        /\ completedGeneration' = NoResult /\ pendingGeneration' = NoResult /\ ~applyEnabled'
        /\ queue' = <<>>
        /\ completedGeneration = NoResult => (isGenerating' <=> isGenerating)
        /\ UNCHANGED <<editor, generationEpoch, generationCancelled, stage, held, mailbox,
                       latestStatusEpoch, button, shown, tracked, history>>
    BY DEF DestroyEnds, DropReview, workers
  <1>2. \A f \in Runs : /\ Live(f)' <=> Live(f)
                        /\ Live(f) => completedGeneration = NoResult
    BY <1>1 DEF Live, PInv, CompletedInv
  <1>3. TypeOK'
    <2>1. isGenerating' \in BOOLEAN /\ applyEnabled' \in BOOLEAN /\ rejectEnabled' \in BOOLEAN
      BY DEF DestroyEnds, DropReview, PInv, TypeOK
    <2>2. queue' \in Seq({"status", "ready"}) /\ Len(queue') <= QueueLimit
      BY <1>1, PanelConstants
    <2>3. QED
      BY <1>1, <2>1, <2>2 DEF PInv, TypeOK, editor, history
  <1>4. OneWorker' /\ ReviewIsLatest'
    BY <1>1, <1>2 DEF PInv, OneWorker, ReviewIsLatest
  <1>5. WorkerInv'
    BY <1>1, <1>2 DEF PInv, WorkerInv, history
  <1>6. CompletedInv' /\ PendingInv' /\ BusyInv'
    BY <1>1 DEF CompletedInv, PendingInv, BusyInv
  <1>7. EpochInv'
    BY <1>1 DEF PInv, EpochInv, history
  <1>8. QED
    BY <1>3, <1>4, <1>5, <1>6, <1>7 DEF PInv

LEMMA NextPInv == PInv /\ [Next]_vars => PInv'
  <1> SUFFICES ASSUME PInv, [Next]_vars PROVE PInv'
    OBVIOUS
  <1>1. CASE \/ \E d \in Docs, t \in Texts : EditDocument(d, t)
             \/ \E d \in Docs : SwitchDocument(d)
             \/ ToggleReadOnly
    BY <1>1, EditorStep
  <1>2. CASE PressStop
    BY <1>2, StopPressed
  <1>3. CASE PressGenerateRefused \/ PressReject \/ ApplyFails
    BY <1>3, ReviewDropped
  <1>4. ASSUME NEW started \in BOOLEAN, PressGenerate(started) PROVE PInv'
    BY <1>4, GeneratePressed
  <1>5. CASE UpdateLocalization \/ ApplyElsewhere
    BY <1>5, CaptionStep
  <1>6. CASE ApplySucceeds
    BY <1>6, ApplySucceeded
  <1>7. CASE DestroyBegins
    BY <1>7, DestroyBegun
  <1>8. CASE DestroyEnds
    BY <1>8, DestroyEnded
  <1>9. CASE ReceiveStatus \/ \E e \in Runs : WorkerStatus(e)
    BY <1>9, StatusStep
  <1>10. CASE ReceiveReady
    BY <1>10, ReadyReceived
  <1>11. ASSUME NEW e \in Runs, Finish(e) PROVE PInv'
    BY <1>11, WorkerFinished
  <1>12. ASSUME NEW e \in Runs, WorkerLocks(e) PROVE PInv'
    BY <1>12, WorkerIsStale, WorkerIsCurrent
  <1>13. ASSUME NEW e \in Runs, WorkerPosts(e) PROVE PInv'
    BY <1>13, WorkerPosted
  <1>14. CASE UNCHANGED vars
    <2>1. UNCHANGED Flow /\ TypeOK'
      BY <1>14 DEF vars, Flow, PInv, TypeOK, editor, workers, buttons, history
    <2>2. QED
      BY <2>1, CalmStep
  <1>15. QED
    BY <1>1, <1>2, <1>3, <1>4, <1>5, <1>6, <1>7, <1>8, <1>9, <1>10, <1>11, <1>12, <1>13, <1>14
    DEF Next, User, Deliver, Worker

LEMMA PanelInvariance == Spec => []PInv
  BY InitPInv, NextPInv, PTL DEF Spec

\* Every variable of the panel keeps its type, and its queue its limit.
THEOREM PanelTypeCorrect == Spec => []TypeOK
  <1>1. PInv => TypeOK
    BY DEF PInv
  <1>2. QED
    BY <1>1, PanelInvariance, PTL

\* isGenerating keeps requests from overlapping, for any number of runs.
THEOREM RequestsNeverOverlap == Spec => []OneWorker
  <1>1. PInv => OneWorker
    BY DEF PInv
  <1>2. QED
    BY <1>1, PanelInvariance, PTL

\* The review on display is the latest run's.
THEOREM ReviewAlwaysLatest == Spec => []ReviewIsLatest
  <1>1. PInv => ReviewIsLatest
    BY DEF PInv
  <1>2. QED
    BY <1>1, PanelInvariance, PTL

\* The Apply button always offers a validated, unused proposal.
THEOREM ApplyAlwaysReady == Spec => []ApplyMeansReady
  <1>1. PInv => ApplyMeansReady
    BY DEF PInv, PendingInv, ApplyMeansReady
  <1>2. QED
    BY <1>1, PanelInvariance, PTL

\* No result survives the panel, whenever its worker ends.
THEOREM ClosedAlwaysEmpty == Spec => []ClosedKeepsNothing
  <1>1. PInv => ClosedKeepsNothing
    BY DEF PInv, CompletedInv, PendingInv, ClosedKeepsNothing
  <1>2. QED
    BY <1>1, PanelInvariance, PTL

-----------------------------------------------------------------------------
ProgressStep == shown' # shown /\ shown' # 0 => UnderWay(shown')

LEMMA NextProgress == PInv /\ [Next]_vars => [ProgressStep]_vars
  <1> SUFFICES ASSUME PInv, [Next]_vars, shown' # shown, shown' # 0
               PROVE  UnderWay(shown')
    BY DEF ProgressStep
  <1>1. ReceiveStatus
    BY DEF Next, User, Deliver, Worker, Finish, vars, EditDocument, SwitchDocument,
       ToggleReadOnly, PressStop, PressGenerateRefused, PressGenerate, ApplyElsewhere,
       ApplyFails, ApplySucceeds, PressReject, UpdateLocalization, DestroyBegins,
       DestroyEnds, WorkerStatus, WorkerFinishes, WorkerLocks, WorkerPosts, ReceiveReady
  <1>2. shown' = generationEpoch /\ isGenerating /\ panel = "open"
    BY <1>1 DEF ReceiveStatus, Receive
  <1>3. QED
    BY <1>2 DEF PInv, BusyInv

\* A late status message never shows the progress of a run that is over.
THEOREM ProgressAlwaysLive == Spec => ProgressIsLive
  <1>1. PInv /\ [Next]_vars => [ProgressStep]_vars
    BY NextProgress
  <1>2. QED
    BY <1>1, PanelInvariance, PTL DEF Spec, ProgressIsLive, ProgressStep

-----------------------------------------------------------------------------
\* The offer a click on Apply would carry out
Shown == IF applyEnabled /\ pendingGeneration # NoResult
         THEN [id       |-> pendingGeneration.epoch,
               doc      |-> pendingGeneration.doc,
               original |-> pendingGeneration.original,
               proposed |-> pendingGeneration.proposed]
         ELSE NoResult

LEMMA ShownIsOffer ==
  ASSUME TypeOK
  PROVE  (applyEnabled /\ pendingGeneration # NoResult) => Shown \in Offer /\ Shown # NoResult
  BY PanelConstants DEF TypeOK, Shown, Offer, Result

LEMMA InitDocument == Init => Document!Init
  BY DEF Init, Document!Init

\* Text and offers stand still: at most the offer is withdrawn.
LEMMA QuietDocument ==
  ASSUME TypeOK, UNCHANGED <<text, applied>>, Shown' \in {Shown, NoResult}
  PROVE  [Document!Next]_Document!vars
  <1>1. CASE Shown' = Shown
    BY <1>1 DEF Document!vars, Shown
  <1>2. CASE Shown' = NoResult /\ Shown # NoResult
    BY <1>2 DEF Document!Next, Document!Withdraw, Shown
  <1>3. QED
    BY <1>1, <1>2

LEMMA EditRefines ==
  ASSUME PInv, NEW d \in Docs, NEW t \in Texts, EditDocument(d, t)
  PROVE  [Document!Next]_Document!vars
  <1>1. text' = [text EXCEPT ![d] = t] /\ UNCHANGED <<applied, applyEnabled, pendingGeneration>>
    BY DEF EditDocument, buttons, history
  <1>2. QED
    BY <1>1 DEF Document!Next, Document!Edit

\* A validated result comes on display: a proposal never applied before.
LEMMA ReadyRefines ==
  ASSUME PInv, ReceiveReady
  PROVE  [Document!Next]_Document!vars
  <1>1. UNCHANGED <<text, applied>>
    BY DEF ReceiveReady, editor, history
  <1>2. CASE UNCHANGED <<pendingGeneration, buttons>>
    BY <1>1, <1>2, QuietDocument DEF PInv, Shown, buttons
  <1>3. CASE /\ completedGeneration # NoResult
             /\ pendingGeneration' = completedGeneration
             /\ applyEnabled' = completedGeneration.ready
    <2>1. /\ completedGeneration \in Result
          /\ completedGeneration.epoch \notin applied
          /\ completedGeneration.ready =>
               completedGeneration.proposed # completedGeneration.original
          /\ pendingGeneration = NoResult
      BY <1>3 DEF PInv, CompletedInv, ReviewIsLatest, TypeOK
    <2>2. Shown = NoResult
      BY <2>1 DEF Shown
    <2>3. CASE ~completedGeneration.ready
      <3>1. Shown' = NoResult
        BY <1>3, <2>3 DEF Shown
      <3>2. QED
        BY <1>1, <2>2, <3>1, QuietDocument DEF PInv
    <2>4. CASE completedGeneration.ready
      <3> DEFINE o == [id       |-> completedGeneration.epoch,
                       doc      |-> completedGeneration.doc,
                       original |-> completedGeneration.original,
                       proposed |-> completedGeneration.proposed]
      <3>1. o \in Document!Offers /\ o.id \notin applied /\ o.original # o.proposed
        BY <2>1, <2>4 DEF Document!Offers, Result
      <3>2. Shown' = o
        BY <1>3, <2>4 DEF Shown
      <3> HIDE DEF o
      <3>3. Document!Propose
        BY <1>1, <2>2, <3>1, <3>2 DEF Document!Propose, Shown
      <3>4. QED
        BY <3>3 DEF Document!Next
    <2>5. QED
      BY <2>3, <2>4
  <1>4. QED
    BY <1>2, <1>3 DEF ReceiveReady

LEMMA ApplyRefines ==
  ASSUME PInv, ApplySucceeds
  PROVE  [Document!Next]_Document!vars
  <1>1. /\ applyEnabled /\ pendingGeneration # NoResult
        /\ active = pendingGeneration.doc
        /\ text[active] = pendingGeneration.original
        /\ text' = [text EXCEPT ![active] = pendingGeneration.proposed]
        /\ applied' = applied \cup {pendingGeneration.epoch}
        /\ pendingGeneration' = NoResult
    BY DEF ApplySucceeds, MayApply, RightDocument, DropReview
  <1> DEFINE o == [id       |-> pendingGeneration.epoch,
                   doc      |-> pendingGeneration.doc,
                   original |-> pendingGeneration.original,
                   proposed |-> pendingGeneration.proposed]
  <1>2. Shown = o /\ Shown # NoResult /\ Shown' = NoResult
    BY <1>1, ShownIsOffer DEF PInv, Shown
  <1>3. /\ o.id = pendingGeneration.epoch /\ o.doc = pendingGeneration.doc
        /\ o.original = pendingGeneration.original /\ o.proposed = pendingGeneration.proposed
    OBVIOUS
  <1> HIDE DEF o
  <1>4. /\ text[Shown.doc] = Shown.original
        /\ text' = [text EXCEPT ![Shown.doc] = Shown.proposed]
        /\ applied' = applied \cup {Shown.id}
    BY <1>1, <1>2, <1>3
  <1>5. Document!Apply
    BY <1>2, <1>4 DEF Document!Apply, Shown
  <1>6. QED
    BY <1>5 DEF Document!Next

LEMMA NextDocument == PInv /\ [Next]_vars => [Document!Next]_Document!vars
  <1> SUFFICES ASSUME PInv, [Next]_vars PROVE [Document!Next]_Document!vars
    OBVIOUS
  <1>1. ASSUME NEW d \in Docs, NEW t \in Texts, EditDocument(d, t)
        PROVE  [Document!Next]_Document!vars
    BY <1>1, EditRefines
  <1>2. CASE ReceiveReady
    BY <1>2, ReadyRefines
  <1>3. CASE ApplySucceeds
    BY <1>3, ApplyRefines
  <1>4. ASSUME UNCHANGED <<text, applied, pendingGeneration, applyEnabled>>
        PROVE  [Document!Next]_Document!vars
    BY <1>4, QuietDocument DEF PInv, Shown
  <1>5. ASSUME UNCHANGED <<text, applied>>, ~applyEnabled'
        PROVE  [Document!Next]_Document!vars
    BY <1>5, QuietDocument DEF PInv, Shown
  <1>6. CASE \/ \E d \in Docs : SwitchDocument(d)
             \/ ToggleReadOnly \/ PressStop \/ ApplyElsewhere \/ UpdateLocalization
             \/ DestroyBegins \/ ReceiveStatus
             \/ \E e \in Runs : Worker(e)
             \/ UNCHANGED vars
    BY <1>4, <1>6
    DEF SwitchDocument, ToggleReadOnly, PressStop, ApplyElsewhere, UpdateLocalization,
        DestroyBegins, ReceiveStatus, Worker, WorkerStatus, Finish, WorkerFinishes,
        WorkerLocks, WorkerPosts, vars, editor, buttons, history
  <1>7. CASE \/ PressGenerateRefused \/ \E started \in BOOLEAN : PressGenerate(started)
             \/ ApplyFails \/ PressReject \/ DestroyEnds
    BY <1>5, <1>7
    DEF PressGenerateRefused, PressGenerate, ApplyFails, PressReject, DestroyEnds, DropReview,
        editor, history
  <1>8. QED
    BY <1>1, <1>2, <1>3, <1>6, <1>7 DEF Next, User, Deliver

\* Whatever threads, messages and clicks interleave, the plugin changes a
\* document only by a fresh offer over the captured text.
THEOREM DocumentIsGuarded == Spec => GuardsDocument
  <1>1. PInv /\ [Next]_vars => [Document!Next]_Document!vars
    BY NextDocument
  <1>2. Init => Document!Init
    BY InitDocument
  <1>3. QED
    BY <1>1, <1>2, PanelInvariance, PTL DEF Spec, GuardsDocument, Document!Spec
=============================================================================
