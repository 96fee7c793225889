------------------------- MODULE LocalSessionProofs -------------------------
(* Proofs about LocalSession and the server of InferenceAdmission in it, for *)
(* any number of clients, checkpoints and requests, any limits and times.    *)
EXTENDS LocalSession, SequenceTheorems, WellFoundedInduction, TLAPS

\* The pair of what clients have sent is only a way to write UNCHANGED.
USE DEF wireVars

AnyJob == [id : Nat, client : Clients \cup {Nobody}, kind : Kinds,
           at : {"queued", "running", "done"}, result : Answers]

\* What the server's variables are, as far as the slot and the model depend on it.
ShapeInv ==
  /\ jobs \subseteq AnyJob
  /\ sent \in Nat /\ late \in [Kinds -> Nat]
  /\ request \in [Clients -> [stage : Stages, kind : Kinds]]
  /\ answer \in [Watched -> Answers]
  /\ backend \in {"none"} \cup Models
  /\ file \in {"broken"} \cup Models

\* A job that has begun, or has ended well, left a checkpoint pinned.
LoadedInv ==
  \A j \in jobs : (j.at = "running" \/ (j.at = "done" /\ j.result = "ok")) => backend # "none"

ServerInv == ShapeInv /\ SlotIsOneJob /\ LoadedInv

\* What a step of the server's may do to the pinned checkpoint and to the launcher's answer.
Pinned == backend # "none" => backend' = backend
AnswerEarned == answer'[Launcher] = "ok" => answer[Launcher] = "ok" \/ backend' # "none"

\* Before the server listens there is nothing to serve and nothing was answered.
QuietInv ==
  /\ launcher = "begin" => server = "absent"
  /\ server \in {"absent", "starting"} =>
       /\ jobs = {} /\ answer[Launcher] = "none"
       /\ launcher \notin {"asking", "launching", "attached"}

AnsweredInv == server = "up" /\ answer[Launcher] = "ok" => backend # "none"

SInv == ServerInv /\ QuietInv /\ AnsweredInv /\ EditorHasItsModel

-----------------------------------------------------------------------------
\* The server's steps

\* An answer keeps the clients' records in shape.
LEMMA ReplyShape ==
  ASSUME ShapeInv, NEW c \in Clients, NEW status \in Answers, Reply(c, status)
  PROVE  /\ request' \in [Clients -> [stage : Stages, kind : Kinds]]
         /\ answer' \in [Watched -> Answers]
         /\ answer'[Launcher] = "ok" => answer[Launcher] = "ok" \/ status = "ok"
  BY SessionConstants DEF ShapeInv, Reply, Idle, Stages, Kinds

\* An answer that is no success and touches neither slot nor file.
LEMMA RefusalKeeps ==
  ASSUME ServerInv, NEW c \in Clients, NEW status \in Answers \ {"ok"}, Reply(c, status),
         UNCHANGED <<file, slotVars, wireVars>>
  PROVE  ServerInv' /\ Pinned /\ AnswerEarned
  <1>1. ShapeInv' /\ AnswerEarned
    BY ReplyShape DEF ServerInv, ShapeInv, AnswerEarned, slotVars
  <1>2. SlotIsOneJob' /\ LoadedInv' /\ Pinned
    BY DEF ServerInv, SlotIsOneJob, LoadedInv, Pinned, slotVars
  <1>3. QED
    BY <1>1, <1>2 DEF ServerInv

\* A request that is sent.
LEMMA SendKeeps ==
  ASSUME ServerInv, NEW c \in Clients, NEW kind \in Kinds, Send(c, kind)
  PROVE  ServerInv' /\ Pinned /\ AnswerEarned
  <1>1. ShapeInv'
    BY DEF ServerInv, ShapeInv, Send, slotVars, Stages, Kinds, Answers
  <1>2. AnswerEarned
    BY SessionConstants DEF ServerInv, ShapeInv, AnswerEarned, Send
  <1>3. SlotIsOneJob' /\ LoadedInv' /\ Pinned
    BY DEF ServerInv, SlotIsOneJob, LoadedInv, Pinned, Send, slotVars
  <1>4. QED
    BY <1>1, <1>2, <1>3 DEF ServerInv

\* An admitted job, for a client or for nobody, finds the slot free and no other alive.
LEMMA NewJobKeeps ==
  ASSUME ServerInv, ShapeInv', ~locked, locked' = TRUE,
         NEW new \in AnyJob, new.at = "queued", jobs' = jobs \cup {new},
         UNCHANGED <<backend, answer>>
  PROVE  ServerInv' /\ Pinned /\ AnswerEarned
  <1>1. \A j \in jobs : j.at = "done"
    BY DEF ServerInv, SlotIsOneJob
  <1>2. {j \in jobs' : j.at # "done"} = {new}
    BY <1>1
  <1>3. SlotIsOneJob'
    BY <1>2 DEF SlotIsOneJob
  <1>4. LoadedInv'
    BY DEF ServerInv, LoadedInv
  <1>5. QED
    BY <1>3, <1>4 DEF ServerInv, Pinned, AnswerEarned

LEMMA AdmitKeeps ==
  ASSUME ServerInv, NEW c \in Clients, Admit(c)
  PROVE  ServerInv' /\ Pinned /\ AnswerEarned
  <1> DEFINE new == [id |-> sent, client |-> c, kind |-> request[c].kind,
                     at |-> "queued", result |-> "none"]
  <1>1. /\ ~locked /\ locked' = TRUE /\ jobs' = jobs \cup {new}
        /\ request' = [request EXCEPT ![c].stage = "waiting"]
        /\ UNCHANGED <<file, backend, answer, wireVars>>
    BY DEF Admit
  <1>2. new \in AnyJob /\ new.at = "queued"
    BY DEF ServerInv, ShapeInv, AnyJob, Answers
  <1>3. ShapeInv'
    BY <1>1, <1>2 DEF ServerInv, ShapeInv, Stages
  <1> HIDE DEF new
  <1>4. QED
    BY <1>1, <1>2, <1>3, NewJobKeeps

\* A request that its client gave up on before the server had read it.
LEMMA AbandonKeeps ==
  ASSUME ServerInv, NEW c \in Clients, NEW keyIsRight, Abandon(c, keyIsRight)
  PROVE  ServerInv' /\ Pinned /\ AnswerEarned
  <1>1. /\ Reply(c, "dropped") /\ UNCHANGED <<file, slotVars, sent>>
        /\ late' = IF keyIsRight THEN [late EXCEPT ![request[c].kind] = @ + 1] ELSE late
    BY DEF Abandon
  <1>2. "dropped" \in Answers /\ request[c].kind \in Kinds
    BY DEF Answers, ServerInv, ShapeInv
  <1>3. late' \in [Kinds -> Nat]
    BY <1>1, <1>2 DEF ServerInv, ShapeInv
  <1>4. ShapeInv' /\ AnswerEarned
    BY <1>1, <1>2, <1>3, ReplyShape DEF ServerInv, ShapeInv, AnswerEarned, slotVars
  <1>5. SlotIsOneJob' /\ LoadedInv' /\ Pinned
    BY <1>1 DEF ServerInv, SlotIsOneJob, LoadedInv, Pinned, slotVars
  <1>6. QED
    BY <1>4, <1>5 DEF ServerInv

\* The server comes to it.
LEMMA ServeLateKeeps ==
  ASSUME ServerInv, NEW kind \in Kinds, ServeLate(kind)
  PROVE  ServerInv' /\ Pinned /\ AnswerEarned
  <1>1. /\ late[kind] > 0 /\ late' = [late EXCEPT ![kind] = @ - 1]
        /\ UNCHANGED <<file, request, answer, sent>>
    BY DEF ServeLate
  <1>2. late' \in [Kinds -> Nat]
    BY <1>1 DEF ServerInv, ShapeInv
  <1>3. CASE UNCHANGED slotVars
    BY <1>1, <1>2, <1>3 DEF ServerInv, ShapeInv, SlotIsOneJob, LoadedInv, Pinned, AnswerEarned, slotVars
  <1>4. CASE ~ UNCHANGED slotVars
    <2> DEFINE new == [id |-> sent, client |-> Nobody, kind |-> kind,
                       at |-> "queued", result |-> "none"]
    <2>1. ~locked /\ locked' = TRUE /\ jobs' = jobs \cup {new} /\ UNCHANGED backend
      BY <1>4 DEF ServeLate
    <2>2. new \in AnyJob /\ new.at = "queued"
      BY DEF ServerInv, ShapeInv, AnyJob, Answers
    <2>3. ShapeInv'
      BY <1>1, <1>2, <2>1, <2>2 DEF ServerInv, ShapeInv
    <2> HIDE DEF new
    <2>4. QED
      BY <1>1, <2>1, <2>2, <2>3, NewJobKeeps
  <1>5. QED
    BY <1>3, <1>4

\* The executor's refusal leaves the slot as free as it was.
LEMMA RefusedByExecutorKeeps ==
  ASSUME ServerInv, NEW c \in Clients, ExecutorRefuses(c)
  PROVE  ServerInv' /\ Pinned /\ AnswerEarned
  <1>1. /\ ~locked /\ locked' = FALSE /\ Reply(c, "500")
        /\ UNCHANGED <<file, backend, jobs, wireVars>>
    BY DEF ExecutorRefuses
  <1>2. ShapeInv' /\ AnswerEarned
    BY <1>1, ReplyShape DEF ServerInv, ShapeInv, AnswerEarned, Answers
  <1>3. SlotIsOneJob' /\ LoadedInv' /\ Pinned
    BY <1>1 DEF ServerInv, SlotIsOneJob, LoadedInv, Pinned
  <1>4. QED
    BY <1>2, <1>3 DEF ServerInv

\* The answer of a job that is over.
LEMMA RespondKeeps ==
  ASSUME ServerInv, NEW c \in Clients, Respond(c)
  PROVE  ServerInv' /\ Pinned /\ AnswerEarned
  <1>1. PICK j \in jobs : /\ j.at = "done" /\ jobs' = jobs \ {j} /\ Reply(c, j.result)
                          /\ UNCHANGED <<file, backend, locked, wireVars>>
    BY DEF Respond
  <1>2. j \in AnyJob /\ j.result \in Answers
    BY DEF ServerInv, ShapeInv, AnyJob
  <1>3. ShapeInv'
    BY <1>1, <1>2, ReplyShape DEF ServerInv, ShapeInv
  <1>4. AnswerEarned
    BY <1>1, <1>2, ReplyShape DEF ServerInv, LoadedInv, AnswerEarned
  <1>5. {i \in jobs' : i.at # "done"} = {i \in jobs : i.at # "done"}
    BY <1>1
  <1>6. SlotIsOneJob'
    BY <1>1, <1>5 DEF ServerInv, SlotIsOneJob
  <1>7. LoadedInv' /\ Pinned
    BY <1>1 DEF ServerInv, LoadedInv, Pinned
  <1>8. QED
    BY <1>3, <1>4, <1>6, <1>7 DEF ServerInv

\* A client that leaves takes neither the job nor the slot with it.
LEMMA DisconnectKeeps ==
  ASSUME ServerInv, NEW c \in Clients, Disconnect(c)
  PROVE  ServerInv' /\ Pinned /\ AnswerEarned
  <1> DEFINE kept == {j \in jobs : j.client # c \/ j.at # "done"}
             Orphan(j) == IF j.client = c THEN [j EXCEPT !.client = Nobody] ELSE j
  <1>1. /\ jobs' = {Orphan(j) : j \in kept} /\ Reply(c, "dropped")
        /\ UNCHANGED <<file, backend, locked, wireVars>>
    BY DEF Disconnect, Orphaned
  <1>2. \A j \in jobs : /\ Orphan(j) \in AnyJob
                        /\ Orphan(j).at = j.at /\ Orphan(j).result = j.result
    BY DEF ServerInv, ShapeInv, AnyJob
  <1>3. kept \subseteq jobs /\ \A j \in jobs : j.at # "done" => j \in kept
    OBVIOUS
  <1> HIDE DEF Orphan, kept
  <1>4. ShapeInv' /\ AnswerEarned
    BY <1>1, <1>2, <1>3, ReplyShape DEF ServerInv, ShapeInv, AnswerEarned, Answers
  <1>5. SlotIsOneJob'
    BY <1>1, <1>2, <1>3 DEF ServerInv, SlotIsOneJob
  <1>6. LoadedInv' /\ Pinned
    BY <1>1, <1>2, <1>3 DEF ServerInv, LoadedInv, Pinned
  <1>7. QED
    BY <1>4, <1>5, <1>6 DEF ServerInv

\* A job that ends was the only one alive, and gives the slot back.
LEMMA FinishKeeps ==
  ASSUME ServerInv, NEW j \in jobs, j.at # "done", NEW result \in Answers, Finish(j, result),
         result = "ok" => backend # "none",
         UNCHANGED <<file, backend, request, answer, wireVars>>
  PROVE  ServerInv' /\ Pinned /\ AnswerEarned
  <1> DEFINE over == [j EXCEPT !.at = "done", !.result = result]
  <1>1. jobs' = (jobs \ {j}) \cup (IF j.client = Nobody THEN {} ELSE {over}) /\ locked' = FALSE
    BY DEF Finish
  <1>2. over \in AnyJob /\ over.at = "done" /\ over.result = result
    BY DEF ServerInv, ShapeInv, AnyJob
  <1> HIDE DEF over
  <1>3. ShapeInv'
    BY <1>1, <1>2 DEF ServerInv, ShapeInv
  <1>4. \A i \in jobs : i.at # "done" => i = j
    BY DEF ServerInv, SlotIsOneJob
  <1>5. \A i \in jobs' : i.at = "done"
    BY <1>1, <1>2, <1>4
  <1>6. SlotIsOneJob'
    BY <1>1, <1>5 DEF SlotIsOneJob
  <1>7. LoadedInv'
    BY <1>1, <1>2 DEF ServerInv, LoadedInv
  <1>8. QED
    BY <1>3, <1>6, <1>7 DEF ServerInv, Pinned, AnswerEarned

\* A job pins a checkpoint if none is pinned yet, or ends without one.
LEMMA StartJobKeeps ==
  ASSUME ServerInv, NEW j \in jobs, StartJob(j)
  PROVE  ServerInv' /\ Pinned /\ AnswerEarned
  <1>1. CASE ~Loadable(Configured)
    <2>1. Finish(j, "unavailable") /\ UNCHANGED <<file, backend, request, answer, wireVars>>
      BY <1>1 DEF StartJob
    <2>2. QED
      BY <2>1, FinishKeeps DEF StartJob, Answers
  <1>2. CASE Loadable(Configured)
    <2> DEFINE begun == [j EXCEPT !.at = "running"]
    <2>1. /\ j.at = "queued" /\ backend' = Configured /\ jobs' = (jobs \ {j}) \cup {begun}
          /\ UNCHANGED <<locked, file, request, answer, wireVars>>
      BY <1>2 DEF StartJob
    <2>2. begun \in AnyJob /\ begun.at = "running"
      BY DEF ServerInv, ShapeInv, AnyJob
    <2> HIDE DEF begun
    <2>3. backend' \in Models /\ backend' # "none" /\ Pinned
      BY <1>2, <2>1, AdmissionConstants DEF Loadable, Configured, Pinned
    <2>4. ShapeInv'
      BY <2>1, <2>2, <2>3 DEF ServerInv, ShapeInv
    <2>5. \A i \in jobs : i.at # "done" => i = j
      BY <2>1 DEF ServerInv, SlotIsOneJob
    <2>6. {i \in jobs' : i.at # "done"} = {begun}
      BY <2>1, <2>2, <2>5
    <2>7. locked = TRUE
      BY <2>1 DEF ServerInv, SlotIsOneJob
    <2>8. SlotIsOneJob'
      BY <2>1, <2>6, <2>7 DEF SlotIsOneJob
    <2>9. QED
      BY <2>1, <2>3, <2>4, <2>8 DEF ServerInv, LoadedInv, AnswerEarned
  <1>3. QED
    BY <1>1, <1>2

\* A job that has begun ends with a text or an error.
LEMMA RunKeeps ==
  ASSUME ServerInv, NEW j \in jobs, Run(j)
  PROVE  ServerInv' /\ Pinned /\ AnswerEarned
  <1>1. PICK result \in Outcomes(j.kind) : Finish(j, result)
    BY DEF Run
  <1>2. result \in Answers
    BY DEF Outcomes, Answers
  <1>3. backend # "none"
    BY DEF Run, ServerInv, LoadedInv
  <1>4. QED
    BY <1>1, <1>2, <1>3, FinishKeeps DEF Run

\* The process ends, and with it all that was under way.
LEMMA DyingKeeps ==
  ASSUME ServerInv, ServerDies
  PROVE  ServerInv'
  <1>1. ShapeInv'
    BY DEF ServerInv, ShapeInv, ServerDies, Idle, NoneLate, Stages, Kinds, Answers
  <1>2. SlotIsOneJob' /\ LoadedInv'
    BY DEF ServerDies, SlotIsOneJob, LoadedInv
  <1>3. QED
    BY <1>1, <1>2 DEF ServerInv

\* Whatever the server does next.
LEMMA ServerStepKeeps ==
  ASSUME ServerInv, NEW c \in Clients, NEW keyIsRight \in BOOLEAN, Handler(c, keyIsRight) \/ JobStep
  PROVE  ServerInv' /\ Pinned /\ AnswerEarned
  <1>1. CASE OverSize(c)
    BY <1>1, RefusalKeeps DEF OverSize, Answers
  <1>2. CASE Unauthorised(c)
    BY <1>2, RefusalKeeps DEF Unauthorised, Answers
  <1>3. CASE Throttle(c)
    BY <1>3, RefusalKeeps DEF Throttle, Answers
  <1>4. CASE Malformed(c)
    BY <1>4, RefusalKeeps DEF Malformed, Answers
  <1>5. CASE Busy(c)
    BY <1>5, RefusalKeeps DEF Busy, Answers
  <1>6. CASE Admit(c)
    BY <1>6, AdmitKeeps
  <1>7. CASE ExecutorRefuses(c)
    BY <1>7, RefusedByExecutorKeeps
  <1>8. CASE Respond(c)
    BY <1>8, RespondKeeps
  <1>9. CASE JobStep
    BY <1>9, StartJobKeeps, RunKeeps DEF JobStep
  <1>10. QED
    BY <1>1, <1>2, <1>3, <1>4, <1>5, <1>6, <1>7, <1>8, <1>9 DEF Handler

-----------------------------------------------------------------------------
\* The session

LEMMA SessionStarts == Init => SInv
  <1> SUFFICES ASSUME Init PROVE SInv
    OBVIOUS
  <1>1. ShapeInv
    BY AdmissionConstants DEF Init, ServerInit, ShapeInv, Idle, NoneLate, Stages, Kinds, Answers
  <1>2. SlotIsOneJob /\ LoadedInv
    BY DEF Init, ServerInit, SlotIsOneJob, LoadedInv
  <1>3. QuietInv /\ AnsweredInv /\ EditorHasItsModel
    BY SessionConstants DEF Init, ServerInit, QuietInv, AnsweredInv, EditorHasItsModel
  <1>4. QED
    BY <1>1, <1>2, <1>3 DEF SInv, ServerInv

\* Steps that leave the server's variables alone.
LEMMA SameServer ==
  ASSUME ServerInv, UNCHANGED serverVars
  PROVE  ServerInv'
  BY DEF ServerInv, ShapeInv, SlotIsOneJob, LoadedInv, serverVars, slotVars

\* Steps of the launcher that leave the server alone: only a valid answer gets it to
\* start the editor.
LEMMA LauncherOnly ==
  ASSUME SInv, UNCHANGED <<serverVars, server>>,
         \/ launcher' = "ended" \/ launcher' = "cleaning"
         \/ launcher' = "sleeping" \/ launcher' = "polling"
  PROVE  SInv'
  <1>1. ServerInv'
    BY SameServer DEF SInv
  <1>2. UNCHANGED <<jobs, answer, backend, server>>
    BY DEF serverVars, slotVars
  <1>3. QuietInv'
    <2>1. launcher' # "begin"
      OBVIOUS
    <2>2. QED
      BY <1>2, <2>1 DEF SInv, QuietInv
  <1>4. AnsweredInv' /\ EditorHasItsModel'
    BY <1>2 DEF SInv, AnsweredInv, EditorHasItsModel
  <1>5. QED
    BY <1>1, <1>3, <1>4 DEF SInv

\* The process ends.
LEMMA DyingSession ==
  ASSUME SInv, ServerDies, launcher # "begin", UNCHANGED launcher
  PROVE  SInv'
  <1>1. ServerInv'
    BY DyingKeeps DEF SInv
  <1>2. server' = "exited"
    BY DEF ServerDies
  <1>3. QED
    BY <1>1, <1>2 DEF SInv, QuietInv, AnsweredInv, EditorHasItsModel

\* A step of the running server, while the launcher stays where it is.
LEMMA RunningSession ==
  ASSUME SInv, server = "up", ServerInv', Pinned, AnswerEarned, UNCHANGED sessionVars
  PROVE  SInv'
  <1>1. UNCHANGED <<server, launcher, ready>>
    BY DEF sessionVars
  <1>2. QuietInv'
    BY <1>1 DEF SInv, QuietInv
  <1>3. AnsweredInv'
    BY DEF SInv, AnsweredInv, AnswerEarned, Pinned
  <1>4. EditorHasItsModel'
    BY <1>1, AdmissionConstants DEF SInv, EditorHasItsModel, Pinned
  <1>5. QED
    BY <1>2, <1>3, <1>4 DEF SInv

LEMMA SessionKeeps == SInv /\ [Next]_vars => SInv'
  <1> SUFFICES ASSUME SInv, [Next]_vars PROVE SInv'
    OBVIOUS
  <1>1. CASE Refuse
    BY <1>1, LauncherOnly DEF Refuse
  <1>2. CASE Spawn
    <2>1. ServerInv'
      BY <1>2, SameServer DEF Spawn, SInv
    <2>2. QuietInv'
      BY <1>2 DEF Spawn, SInv, QuietInv, serverVars, slotVars
    <2>3. AnsweredInv' /\ EditorHasItsModel'
      BY <1>2 DEF Spawn, AnsweredInv, EditorHasItsModel
    <2>4. QED
      BY <2>1, <2>2, <2>3 DEF SInv
  <1>3. CASE GiveUp \/ NoticeExit \/ PollTooEarly \/ LearnBusy \/ LearnRefusal \/ PollReset \/ Wake
             \/ ServerStops \/ LeaveSession \/ Interrupt
    BY <1>3, LauncherOnly DEF GiveUp, NoticeExit, PollTooEarly, LearnBusy, LearnRefusal, PollReset,
       Wake, ServerStops, LeaveSession, Interrupt, Clean, SleepOneSecond
  <1>4. CASE Poll
    <2>1. Send(Launcher, "health") /\ Launcher \in Clients /\ "health" \in Kinds
      BY <1>4, SessionConstants, AdmissionConstants DEF Poll, Kinds
    <2>2. ServerInv' /\ Pinned /\ AnswerEarned
      BY <2>1, SendKeeps DEF SInv
    <2>3. /\ server = "up" /\ server' = "up" /\ launcher' = "asking"
      BY <1>4 DEF Poll
    <2>4. QED
      BY <2>2, <2>3 DEF SInv, QuietInv, AnsweredInv, EditorHasItsModel, Pinned, AnswerEarned
  <1>5. CASE LearnReady
    <2>1. ServerInv'
      BY <1>5, SameServer DEF LearnReady, SInv
    <2>2. UNCHANGED <<jobs, answer, backend, server>> /\ ready' = backend /\ launcher' = "launching"
          /\ launcher = "asking" /\ answer[Launcher] = "ok"
      BY <1>5 DEF LearnReady, serverVars, slotVars
    <2>3. QED
      BY <2>1, <2>2 DEF SInv, QuietInv, AnsweredInv, EditorHasItsModel
  <1>6. CASE PollTimesOut
    <2>1. Launcher \in Clients
      BY SessionConstants, AdmissionConstants
    <2>2. ServerInv' /\ Pinned /\ AnswerEarned
      BY <1>6, <2>1, DisconnectKeeps, AbandonKeeps DEF PollTimesOut, SInv
    <2>3. launcher = "asking" /\ launcher' = "sleeping" /\ UNCHANGED server
      BY <1>6 DEF PollTimesOut, SleepOneSecond
    <2>4. QED
      BY <2>2, <2>3 DEF SInv, QuietInv, AnsweredInv, EditorHasItsModel, Pinned, AnswerEarned
  <1>7. CASE Attach
    <2>1. ServerInv'
      BY <1>7, SameServer DEF Attach, SInv
    <2>2. UNCHANGED <<jobs, answer, backend, server, ready>> /\ launcher' = "attached"
          /\ launcher = "launching"
      BY <1>7 DEF Attach, serverVars, slotVars
    <2>3. QED
      BY <2>1, <2>2 DEF SInv, QuietInv, AnsweredInv, EditorHasItsModel
  <1>8. CASE TakeDown
    BY <1>8, DyingSession DEF TakeDown
  <1>9. CASE Crash
    BY <1>9, DyingSession DEF Crash, SInv, QuietInv
  <1>10. CASE Bind
    <2>1. ServerInv'
      BY <1>10, SameServer DEF Bind, SInv
    <2>2. UNCHANGED <<answer, launcher>> /\ server = "starting" /\ server' = "up"
      BY <1>10 DEF Bind, serverVars
    <2>3. QED
      BY <2>1, <2>2 DEF SInv, QuietInv, AnsweredInv, EditorHasItsModel
  <1>11. CASE ServerRuns
    <2>1. server = "up" /\ UNCHANGED sessionVars
      BY <1>11 DEF ServerRuns
    <2>2. ServerInv' /\ Pinned /\ AnswerEarned
      <3>1. HasKey(Launcher) \in BOOLEAN /\ Launcher \in Clients
        BY SessionConstants, AdmissionConstants DEF HasKey
      <3>2. CASE JobStep
        BY <3>1, <3>2, ServerStepKeeps DEF SInv
      <3>3. CASE \E c \in Clients : Handler(c, HasKey(c))
        <4>1. PICK c \in Clients : Handler(c, HasKey(c))
          BY <3>3
        <4>2. HasKey(c) \in BOOLEAN
          BY DEF HasKey
        <4>3. QED
          BY <4>1, <4>2, ServerStepKeeps DEF SInv
      <3>4. CASE \E kind \in Kinds : ServeLate(kind)
        BY <3>4, ServeLateKeeps DEF SInv
      <3>5. QED
        BY <1>11, <3>2, <3>3, <3>4 DEF ServerRuns
    <2>3. QED
      BY <2>1, <2>2, RunningSession
  <1>12. CASE ClientActs
    <2>1. server = "up" /\ UNCHANGED sessionVars
      BY <1>12 DEF ClientActs
    <2>2. ServerInv' /\ Pinned /\ AnswerEarned
      BY <1>12, DisconnectKeeps, AbandonKeeps, SendKeeps, SessionConstants DEF ClientActs, SInv
    <2>3. QED
      BY <2>1, <2>2, RunningSession
  <1>13. CASE ChangeFile
    <2>1. /\ file' \in {"broken"} \cup Models /\ UNCHANGED <<slotVars, request, answer, wireVars>>
          /\ UNCHANGED sessionVars
      BY <1>13 DEF ChangeFile, ReplaceFile
    <2>2. ServerInv'
      BY <2>1 DEF SInv, ServerInv, ShapeInv, SlotIsOneJob, LoadedInv, slotVars
    <2>3. QED
      BY <2>1, <2>2 DEF SInv, QuietInv, AnsweredInv, EditorHasItsModel, slotVars, sessionVars
  <1>14. CASE Tick \/ UNCHANGED vars
    <2>1. UNCHANGED <<serverVars, sessionVars>>
      BY <1>14 DEF Tick, vars
    <2>2. ServerInv'
      BY <2>1, SameServer DEF SInv
    <2>3. QED
      BY <2>1, <2>2 DEF SInv, QuietInv, AnsweredInv, EditorHasItsModel, serverVars, slotVars, sessionVars
  <1>15. QED
    BY <1>1, <1>2, <1>3, <1>4, <1>5, <1>6, <1>7, <1>8, <1>9, <1>10, <1>11, <1>12, <1>13, <1>14
    DEF Next, LauncherStep

LEMMA SessionInvariant == Spec => []SInv
  BY SessionStarts, SessionKeeps, PTL DEF Spec

-----------------------------------------------------------------------------
\* The inference slot of server_backend.py is held by exactly one job from its
\* admission to its own release, for any number of clients that come, leave, are
\* refused or time out, and over crashes of the server.
THEOREM SlotAlwaysOneJob == Spec => []SlotIsOneJob
  <1>1. SInv => SlotIsOneJob
    BY DEF SInv, ServerInv
  <1>2. QED
    BY <1>1, SessionInvariant, PTL

\* The editor that start_nppai.py launches talks to a server that has the announced
\* checkpoint pinned, and keeps it whatever happens to the file.
THEOREM EditorAlwaysHasItsModel == Spec => []EditorHasItsModel
  <1>1. SInv => EditorHasItsModel
    BY DEF SInv
  <1>2. QED
    BY <1>1, SessionInvariant, PTL
-----------------------------------------------------------------------------
\* The rate limit.  The queue of hits is the younger end of the requests let
\* through, and what is missing of them has left the window.

Span == Window * Ticks

LimitInv ==
  /\ now \in Nat
  /\ hits \in Seq(Nat) /\ Len(hits) <= Limit
  /\ through \in Seq(Nat) /\ Len(through) <= Limit + 1 /\ Len(hits) <= Len(through)
  /\ \A i \in 1..Len(hits) : hits[i] <= now /\ hits[i] = through[Len(through) - Len(hits) + i]
  /\ \A i \in 1..(Len(through) - Len(hits)) : through[i] + Span <= now
  /\ RateHolds

\* Since the last refusal either somebody else was let through, or the queue is the
\* one that was full then: its oldest hit was inside the window of that moment,
\* and is outside once Retry-After is over.
RefusalInv ==
  /\ refusal \in [client : Clients \cup {Nobody}, at : Nat, after : Nat]
  /\ refusal.at <= now
  /\ refusal.client # Nobody =>
       \/ \E i \in 1..Len(hits) : hits[i] > refusal.at
       \/ /\ Len(hits) = Limit
          /\ hits[1] > refusal.at - Span
          /\ hits[1] + Span < refusal.at + refusal.after * Ticks

RInv == LimitInv /\ RefusalInv

LEMMA SpanNat == Span \in Nat /\ Span > 0 /\ Limit \in Nat /\ Limit > 0 /\ Ticks \in Nat /\ Ticks > 0
  BY AdmissionConstants DEF Span

\* A set of numbers that is not empty has a least one.
LEMMA Least ==
  ASSUME NEW T \in SUBSET Nat, T # {}
  PROVE  \E m \in T : \A n \in T : m <= n
  <1> DEFINE R == {p \in Nat \X Nat : p[1] < p[2]}
  <1>1. R = OpToRel(<, Nat)
    BY DEF OpToRel
  <1>2. IsWellFoundedOn(R, Nat)
    BY <1>1, NatLessThanWellFounded
  <1>3. PICK m \in T : \A n \in T : ~ (<<n, m>> \in R)
    BY <1>2, WFMin
  <1>4. ASSUME NEW n \in T PROVE m <= n
    <2>1. n \in Nat /\ m \in Nat /\ (n < m => <<n, m>> \in R)
      OBVIOUS
    <2> HIDE DEF R
    <2>2. QED
      BY <1>3, <2>1
  <1>5. QED
    BY <1>3, <1>4

\* The eviction loop drops a prefix, all of it expired, and what it leaves begins
\* with a hit inside the window.
LEMMA RecentIsSuffix ==
  ASSUME hits \in Seq(Nat), now \in Nat
  PROVE  \E n \in 0..Len(hits) :
           /\ Recent \in Seq(Nat) /\ Len(Recent) = Len(hits) - n
           /\ \A i \in 1..Len(Recent) : Recent[i] = hits[n + i]
           /\ \A i \in 1..n : hits[i] + Span <= now
           /\ Len(Recent) > 0 => Recent[1] + Span > now
  <1> DEFINE cutoff == now - Span
             later == {i \in DOMAIN hits : hits[i] > cutoff}
             first == CHOOSE i \in later : \A j \in later : i <= j
  <1>1. /\ DOMAIN hits = 1..Len(hits) /\ Len(hits) \in Nat
        /\ \A i \in 1..Len(hits) : hits[i] \in Nat
    OBVIOUS
  <1>2. Recent = IF later = {} THEN <<>> ELSE SubSeq(hits, first, Len(hits))
    BY DEF Recent, HitsAfter, Span
  <1>3. cutoff \in Int /\ \A h \in Nat : h > cutoff <=> h + Span > now
    BY SpanNat
  <1>4. CASE later = {}
    <2>1. Recent = <<>>
      BY <1>2, <1>4
    <2>2. ASSUME NEW i \in 1..Len(hits) PROVE hits[i] + Span <= now
      <3>1. hits[i] \in Nat /\ ~(hits[i] > cutoff)
        BY <1>1, <1>4
      <3>2. ~(hits[i] + Span > now)
        BY <1>3, <3>1
      <3>3. QED
        BY <3>1, <3>2, SpanNat
    <2>3. /\ Recent \in Seq(Nat) /\ Len(Recent) = 0
      BY <2>1
    <2>4. Len(hits) \in 0..Len(hits) /\ Len(Recent) = Len(hits) - Len(hits)
      BY <1>1, <2>3
    <2> HIDE DEF later
    <2>5. \A i \in 1..Len(Recent) : Recent[i] = hits[Len(hits) + i]
      BY <2>3
    <2>6. QED
      BY <2>2, <2>3, <2>4, <2>5
  <1>5. CASE later # {}
    <2>1. first \in later /\ \A j \in later : first <= j
      <3>1. later \in SUBSET Nat
        BY <1>1
      <3>2. \E i \in later : \A j \in later : i <= j
        BY <1>5, <3>1, Least
      <3>3. QED
        BY <3>2
    <2>2. Recent = SubSeq(hits, first, Len(hits))
      BY <1>2, <1>5
    <2> HIDE DEF first
    <2>3. first \in 1..Len(hits) /\ hits[first] + Span > now
      BY <1>1, <1>3, <2>1
    <2>4. \A i \in 1..(first - 1) : hits[i] + Span <= now
      <3> SUFFICES ASSUME NEW i \in 1..(first - 1) PROVE hits[i] + Span <= now
        OBVIOUS
      <3>1. i \in 1..Len(hits) /\ i < first /\ hits[i] \in Nat
        BY <1>1, <2>3
      <3>2. i \notin later
        BY <2>1, <2>3, <3>1
      <3>3. QED
        BY <1>1, <1>3, <3>1, <3>2, SpanNat
    <2>5. /\ Recent \in Seq(Nat) /\ Len(Recent) = Len(hits) - first + 1
          /\ \A i \in 1..(Len(hits) - first + 1) : Recent[i] = hits[first + i - 1]
      <3>1. \A i \in first..Len(hits) : hits[i] \in Nat
        BY <1>1, <2>3
      <3>2. first \in Int /\ Len(hits) \in Int /\ first <= Len(hits)
        BY <1>1, <2>3
      <3> HIDE DEF later, cutoff
      <3>3. QED
        BY <2>2, <3>1, <3>2, SubSeqProperties
    <2> DEFINE n == first - 1
    <2>6. n \in 0..Len(hits) /\ Len(Recent) = Len(hits) - n
      BY <1>1, <2>3, <2>5
    <2>7. \A i \in 1..Len(Recent) : Recent[i] = hits[n + i]
      BY <1>1, <2>3, <2>5
    <2>8. Recent[1] = hits[first]
      BY <1>1, <2>3, <2>5
    <2>9. QED
      BY <2>3, <2>4, <2>5, <2>6, <2>7, <2>8
  <1>6. QED
    BY <1>4, <1>5

\* A queue that is full inside the window has lost nothing.
LEMMA FullQueue ==
  ASSUME LimitInv, Len(Recent) >= Limit
  PROVE  Recent = hits
  <1>1. PICK n \in 0..Len(hits) :
           /\ Recent \in Seq(Nat) /\ Len(Recent) = Len(hits) - n
           /\ \A i \in 1..Len(Recent) : Recent[i] = hits[n + i]
    BY RecentIsSuffix DEF LimitInv
  <1>2. hits \in Seq(Nat) /\ Len(hits) \in Nat /\ Len(hits) <= Limit
    BY DEF LimitInv
  <1>3. n = 0
    BY <1>1, <1>2, SpanNat
  <1> HIDE DEF Recent
  <1>4. Len(Recent) = Len(hits) /\ \A i \in 1..Len(Recent) : Recent[i] = hits[i]
    BY <1>1, <1>2, <1>3
  <1>5. QED
    BY <1>1, <1>2, <1>4, SeqEqual

\* A step of the session leaves clock and limiter alone, or is one of these.
LimitSteps ==
  \/ UNCHANGED <<now, limitVars>>
  \/ now' = now + 1 /\ UNCHANGED limitVars
  \/ hits' = <<>> /\ through' = <<>> /\ refusal' = NoRefusal /\ UNCHANGED now
  \/ \E c \in Clients : Throttle(c) /\ UNCHANGED now
  \/ CountHit /\ UNCHANGED now

LEMMA OnlyLimitSteps == LimitInv /\ [Next]_vars => LimitSteps
  <1> SUFFICES ASSUME LimitInv, [Next]_vars PROVE LimitSteps
    OBVIOUS
  <1>1. CASE Refuse \/ Spawn \/ Interrupt \/ Bind
    BY <1>1 DEF Refuse, Spawn, Interrupt, Bind, LimitSteps, serverVars
  <1>2. CASE GiveUp \/ NoticeExit \/ PollTooEarly \/ LearnReady \/ LearnBusy \/ LearnRefusal
             \/ PollReset \/ Wake \/ Attach \/ ServerStops \/ LeaveSession
    BY <1>2 DEF GiveUp, NoticeExit, PollTooEarly, LearnReady, LearnBusy, LearnRefusal,
       PollReset, Wake, Attach, ServerStops, LeaveSession, LimitSteps, serverVars
  <1>3. CASE Poll \/ PollTimesOut
    BY <1>3 DEF Poll, PollTimesOut, Send, Disconnect, Abandon, LimitSteps, limitVars
  <1>4. CASE TakeDown \/ Crash
    BY <1>4 DEF TakeDown, Crash, ServerDies, LimitSteps
  <1>5. CASE ServerRuns
    <2>1. server = "up" /\ UNCHANGED now
      BY <1>5 DEF ServerRuns
    <2>2. CASE JobStep
      BY <2>1, <2>2 DEF JobStep, StartJob, Run, LimitSteps
    <2>3. CASE \E c \in Clients : Handler(c, HasKey(c))
      <3>1. PICK c \in Clients : Handler(c, HasKey(c))
        BY <2>3
      <3>2. CASE OverSize(c) \/ Unauthorised(c) \/ Respond(c)
        BY <2>1, <3>2 DEF OverSize, Unauthorised, Respond, LimitSteps
      <3>3. CASE Throttle(c) \/ PassLimit(c)
        BY <2>1, <3>3 DEF LimitSteps, PassLimit
      <3>4. QED
        BY <3>1, <3>2, <3>3 DEF Handler, Malformed, Busy, Admit, ExecutorRefuses
    <2>4. CASE \E kind \in Kinds : ServeLate(kind)
      <3>1. CASE UNCHANGED limitVars \/ CountHit
        BY <2>1, <3>1 DEF LimitSteps
      <3>2. CASE Len(Recent) >= Limit /\ hits' = Recent /\ UNCHANGED <<through, refusal>>
        BY <2>1, <3>2, FullQueue DEF LimitSteps, limitVars
      <3>3. QED
        BY <2>4, <3>1, <3>2 DEF ServeLate
    <2>5. QED
      BY <1>5, <2>2, <2>3, <2>4 DEF ServerRuns
  <1>6. CASE ClientActs
    BY <1>6 DEF ClientActs, Disconnect, Abandon, Send, LimitSteps
  <1>7. CASE ChangeFile
    BY <1>7 DEF ChangeFile, ReplaceFile, LimitSteps
  <1>8. CASE Tick \/ UNCHANGED vars
    BY <1>8 DEF Tick, vars, LimitSteps, serverVars
  <1>9. QED
    BY <1>1, <1>2, <1>3, <1>4, <1>5, <1>6, <1>7, <1>8 DEF Next, LauncherStep

\* The queue after a request that is let through.
LEMMA PassedHits ==
  ASSUME LimitInv, CountHit
  PROVE  /\ hits' \in Seq(Nat) /\ Len(hits') = Len(Recent) + 1 /\ Len(hits') <= Limit
         /\ \A i \in 1..Len(Recent) : hits'[i] = Recent[i]
         /\ hits'[Len(hits')] = now
  <1>1. hits' = Append(Recent, now) /\ Len(Recent) < Limit
    BY DEF CountHit
  <1>2. Recent \in Seq(Nat) /\ now \in Nat /\ Len(Recent) \in Nat
    BY RecentIsSuffix DEF LimitInv
  <1> HIDE DEF Recent
  <1>3. QED
    BY <1>1, <1>2, SpanNat, AppendProperties

\* The history keeps the last Limit + 1 requests let through.
LEMMA PassedThrough ==
  ASSUME LimitInv, CountHit
  PROVE  \E d \in {0, 1} :
           /\ through' \in Seq(Nat) /\ Len(through') = Len(through) + 1 - d
           /\ Len(through') <= Limit + 1
           /\ d = 1 => Len(through) = Limit + 1
           /\ \A i \in 1..(Len(through') - 1) : through'[i] = through[i + d]
           /\ through'[Len(through')] = now
  <1> DEFINE all == Append(through, now)
             n == Limit + 1
             d == IF Len(all) > n THEN 1 ELSE 0
  <1>1. /\ now \in Nat /\ through \in Seq(Nat) /\ Len(through) \in Nat /\ Len(through) <= n
        /\ n \in Nat
    BY SpanNat DEF LimitInv
  <1>2. /\ all \in Seq(Nat) /\ Len(all) = Len(through) + 1 /\ all[Len(through) + 1] = now
        /\ \A i \in 1..Len(through) : all[i] = through[i]
    BY <1>1, AppendProperties
  <1>3. through' = SubSeq(all, IF Len(all) > n THEN Len(all) - n + 1 ELSE 1, Len(all))
    BY DEF CountHit, Latest
  <1> HIDE DEF all
  <1>4. through' = SubSeq(all, 1 + d, Len(all)) /\ d \in {0, 1} /\ (d = 1 => Len(through) = n)
        /\ Len(through) + 1 - d <= n
    <2>1. CASE Len(all) > n
      <3>1. Len(through) = n /\ Len(all) = n + 1 /\ Len(all) - n + 1 = 2
        BY <1>1, <1>2, <2>1
      <3>2. d = 1 /\ 1 + d = 2
        BY <2>1
      <3>3. through' = SubSeq(all, 2, Len(all))
        BY <1>3, <2>1, <3>1
      <3> HIDE DEF d
      <3>4. QED
        BY <1>1, <3>1, <3>2, <3>3
    <2>2. CASE ~(Len(all) > n)
      <3>1. d = 0 /\ 1 + d = 1
        BY <2>2
      <3>2. through' = SubSeq(all, 1, Len(all))
        BY <1>3, <2>2
      <3> HIDE DEF d
      <3>3. QED
        BY <1>1, <1>2, <2>2, <3>1, <3>2
    <2>3. QED
      BY <2>1, <2>2
  <1>5. \A i \in (1 + d)..Len(all) : all[i] \in Nat
    BY <1>1, <1>2, <1>4
  <1> HIDE DEF d
  <1>6. /\ through' \in Seq(Nat) /\ Len(through') = Len(all) - d
        /\ \A i \in 1..(Len(all) - d) : through'[i] = all[d + i]
    BY <1>1, <1>2, <1>4, <1>5, SubSeqProperties
  <1>7. Len(through') = Len(through) + 1 - d /\ Len(through') <= n
    BY <1>1, <1>2, <1>4, <1>6
  <1>8. \A i \in 1..(Len(through') - 1) : through'[i] = through[i + d]
    <2> SUFFICES ASSUME NEW i \in 1..(Len(through') - 1) PROVE through'[i] = through[i + d]
      OBVIOUS
    <2>1. i \in 1..(Len(all) - d) /\ i + d = d + i /\ i + d \in 1..Len(through)
      BY <1>1, <1>2, <1>4, <1>6
    <2>2. QED
      BY <1>2, <1>6, <2>1
  <1>9. through'[Len(through')] = now
    <2>1. Len(all) - d \in 1..(Len(all) - d) /\ d + (Len(all) - d) = Len(through) + 1
      BY <1>1, <1>2, <1>4, SpanNat
    <2>2. QED
      BY <1>2, <1>6, <2>1
  <1>10. QED
    BY <1>4, <1>6, <1>7, <1>8, <1>9

LEMMA LimitKept == LimitInv /\ LimitSteps => LimitInv'
  <1> SUFFICES ASSUME LimitInv, LimitSteps PROVE LimitInv'
    OBVIOUS
  <1>1. CASE UNCHANGED <<now, limitVars>>
    BY <1>1 DEF LimitInv, RateHolds, limitVars
  <1>2. CASE now' = now + 1 /\ UNCHANGED limitVars
    <2>1. now \in Nat /\ now' \in Nat /\ UNCHANGED <<hits, through>>
      BY <1>2 DEF LimitInv, limitVars
    <2>2. \A i \in 1..Len(hits) : hits[i] \in Nat
      BY DEF LimitInv
    <2>3. \A i \in 1..(Len(through) - Len(hits)) : through[i] \in Nat
      BY DEF LimitInv
    <2>4. \A i \in 1..Len(hits) : hits[i] <= now'
      BY <1>2, <2>1, <2>2 DEF LimitInv
    <2>5. ASSUME NEW i \in 1..(Len(through) - Len(hits)) PROVE through[i] + Span <= now'
      <3>1. through[i] \in Nat /\ Span \in Nat
        BY <2>3, SpanNat
      <3>2. through[i] + Span <= now
        BY DEF LimitInv
      <3>3. QED
        BY <1>2, <2>1, <3>1, <3>2
    <2>6. QED
      BY <2>1, <2>4, <2>5 DEF LimitInv, RateHolds
  <1>3. CASE hits' = <<>> /\ through' = <<>> /\ refusal' = NoRefusal /\ UNCHANGED now
    BY <1>3, SpanNat DEF LimitInv, RateHolds
  <1>4. ASSUME NEW c \in Clients, Throttle(c), UNCHANGED now
        PROVE  LimitInv'
    <2>1. hits' = Recent /\ UNCHANGED <<now, through>>
      BY <1>4 DEF Throttle
    <2>2. PICK n \in 0..Len(hits) :
           /\ Recent \in Seq(Nat) /\ Len(Recent) = Len(hits) - n
           /\ \A i \in 1..Len(Recent) : Recent[i] = hits[n + i]
           /\ \A i \in 1..n : hits[i] + Span <= now
      BY RecentIsSuffix DEF LimitInv
    <2> DEFINE t == Len(through)
    <2>3. /\ Len(hits) \in Nat /\ t \in Nat /\ Len(hits) <= t /\ n \in Nat /\ n <= Len(hits)
          /\ Len(hits) <= Limit /\ Limit \in Nat /\ now \in Nat
      BY SpanNat DEF LimitInv
    <2>4. hits' \in Seq(Nat) /\ Len(hits') = Len(hits) - n /\ Len(hits') <= Limit
      BY <2>1, <2>2, <2>3
    <2>5. ASSUME NEW i \in 1..Len(hits')
          PROVE  hits'[i] <= now /\ hits'[i] = through[t - Len(hits') + i]
      <3>1. n + i \in 1..Len(hits) /\ t - Len(hits) + (n + i) = t - Len(hits') + i
        BY <2>3, <2>4
      <3>2. hits'[i] = hits[n + i]
        BY <2>1, <2>2
      <3>3. QED
        BY <3>1, <3>2 DEF LimitInv
    <2>6. ASSUME NEW i \in 1..(t - Len(hits'))
          PROVE  through[i] + Span <= now
      <3>1. CASE i <= t - Len(hits)
        BY <2>3, <3>1 DEF LimitInv
      <3>2. CASE i > t - Len(hits)
        <4> DEFINE k == i - (t - Len(hits))
        <4>1. k \in 1..n /\ k \in 1..Len(hits) /\ t - Len(hits) + k = i
          BY <2>3, <2>4, <3>2
        <4> HIDE DEF k
        <4>2. through[i] = hits[k]
          BY <4>1 DEF LimitInv
        <4>3. QED
          BY <2>2, <4>1, <4>2
      <3>3. QED
        BY <2>3, <3>1, <3>2
    <2>7. Len(hits') <= t
      BY <2>3, <2>4
    <2>8. QED
      BY <2>1, <2>3, <2>4, <2>5, <2>6, <2>7 DEF LimitInv, RateHolds
  <1>5. ASSUME CountHit, UNCHANGED now
        PROVE  LimitInv'
    <2>1. /\ hits' \in Seq(Nat) /\ Len(hits') = Len(Recent) + 1 /\ Len(hits') <= Limit
          /\ \A i \in 1..Len(Recent) : hits'[i] = Recent[i]
          /\ hits'[Len(hits')] = now
      BY <1>5, PassedHits
    <2>2. PICK n \in 0..Len(hits) :
           /\ Recent \in Seq(Nat) /\ Len(Recent) = Len(hits) - n
           /\ \A i \in 1..Len(Recent) : Recent[i] = hits[n + i]
           /\ \A i \in 1..n : hits[i] + Span <= now
      BY RecentIsSuffix DEF LimitInv
    <2>3. PICK d \in {0, 1} :
           /\ through' \in Seq(Nat) /\ Len(through') = Len(through) + 1 - d
           /\ Len(through') <= Limit + 1
           /\ d = 1 => Len(through) = Limit + 1
           /\ \A i \in 1..(Len(through') - 1) : through'[i] = through[i + d]
           /\ through'[Len(through')] = now
      BY <1>5, PassedThrough
    <2> DEFINE t == Len(through)
               h == Len(hits)
               u == Len(through')
               g == Len(hits')
    <2>4. /\ h \in Nat /\ t \in Nat /\ h <= t /\ n \in 0..h /\ h <= Limit /\ Limit \in Nat
          /\ Limit > 0 /\ now \in Nat
      BY SpanNat DEF LimitInv
    <2>5. g = h - n + 1 /\ u = t + 1 - d /\ g <= u /\ g <= Limit /\ u <= Limit + 1 /\ d \in {0, 1}
      <3>1. g = h - n + 1 /\ g <= Limit
        BY <2>1, <2>2
      <3>2. u = t + 1 - d /\ u <= Limit + 1 /\ (d = 1 => t = Limit + 1) /\ d \in {0, 1}
        BY <2>3
      <3> HIDE DEF t, h, u, g
      <3>3. g <= u
        BY <2>4, <3>1, <3>2
      <3>4. QED
        BY <3>1, <3>2, <3>3
    <2>6. /\ \A i \in 1..h : hits[i] <= now /\ hits[i] = through[t - h + i]
          /\ \A i \in 1..(t - h) : through[i] + Span <= now
      BY DEF LimitInv
    <2> HIDE DEF t, h, u, g
    <2>7. ASSUME NEW i \in 1..g
          PROVE  hits'[i] <= now /\ hits'[i] = through'[u - g + i]
      <3>1. CASE i = g
        <4>1. u - g + i = u
          BY <2>4, <2>5, <3>1
        <4>2. hits'[i] = now /\ through'[u] = now
          BY <2>1, <2>3, <3>1 DEF g, u
        <4>3. QED
          BY <2>4, <4>1, <4>2
      <3>2. CASE i < g
        <4>1. i \in 1..Len(Recent) /\ n + i \in 1..h
          BY <2>1, <2>2, <2>4, <2>5, <3>2 DEF g, h
        <4>2. u - g + i \in 1..(u - 1) /\ u - g + i + d = t - h + (n + i)
          BY <2>4, <2>5, <3>2
        <4>3. hits'[i] = hits[n + i]
          BY <2>1, <2>2, <4>1
        <4>4. through'[u - g + i] = through[u - g + i + d]
          BY <2>3, <4>2 DEF u
        <4>5. QED
          BY <2>6, <4>1, <4>2, <4>3, <4>4
      <3>3. QED
        BY <2>4, <2>5, <3>1, <3>2
    <2>8. ASSUME NEW i \in 1..(u - g)
          PROVE  through'[i] + Span <= now
      <3>1. i \in 1..(u - 1) /\ i + d \in 1..(t - h + n)
        BY <2>4, <2>5
      <3>2. through'[i] = through[i + d]
        BY <2>3, <3>1 DEF u
      <3>3. CASE i + d <= t - h
        BY <2>4, <2>5, <2>6, <3>1, <3>2, <3>3
      <3>4. CASE i + d > t - h
        <4> DEFINE k == i + d - (t - h)
        <4>1. k \in 1..n /\ k \in 1..h /\ t - h + k = i + d
          BY <2>4, <2>5, <3>1, <3>4
        <4> HIDE DEF k
        <4>2. through[i + d] = hits[k]
          BY <2>6, <4>1
        <4>3. QED
          BY <2>2, <3>2, <4>1, <4>2
      <3>5. QED
        BY <2>4, <2>5, <3>1, <3>3, <3>4
    <2>9. RateHolds'
      <3>1. SUFFICES ASSUME u = Limit + 1 PROVE through'[u] - through'[1] >= Span
        BY DEF RateHolds, Span, u
      <3>2. 1 \in 1..(u - g)
        BY <2>4, <2>5, <3>1
      <3>3. through'[1] + Span <= now
        BY <2>8, <3>2
      <3>4. through'[1] \in Nat /\ through'[u] = now
        BY <2>3, <2>4, <3>1 DEF u
      <3>5. QED
        BY <2>4, <3>3, <3>4, SpanNat
    <2>10. QED
      BY <1>5, <2>1, <2>3, <2>4, <2>5, <2>7, <2>8, <2>9 DEF LimitInv, g, u
  <1>6. QED
    BY <1>1, <1>2, <1>3, <1>4, <1>5 DEF LimitSteps

\* Retry-After, cut to whole seconds and rounded up, reaches beyond the moment at
\* which the oldest hit leaves the window.
LEMMA RetryReachesFar ==
  ASSUME NEW oldest \in Nat, now \in Nat
  PROVE  RetryAfter(oldest) \in Nat /\ oldest + Span < now + RetryAfter(oldest) * Ticks
  <1> DEFINE left == Span - (now - oldest)
             whole == left \div Ticks + 1
             after == RetryAfter(oldest)
  <1>1. left \in Int
    BY SpanNat
  <1>2. after = IF whole > 1 THEN whole ELSE 1
    BY DEF RetryAfter, Span
  <1> HIDE DEF left, after
  <1>3. whole \in Int /\ left < whole * Ticks
    BY <1>1, SpanNat
  <1> HIDE DEF whole
  <1>4. after \in Nat /\ whole <= after
    BY <1>2, <1>3
  <1>5. whole * Ticks <= after * Ticks /\ after * Ticks \in Int /\ whole * Ticks \in Int
    BY <1>3, <1>4, SpanNat
  <1>6. left < after * Ticks
    BY <1>1, <1>3, <1>5
  <1>7. QED
    BY <1>4, <1>5, <1>6, SpanNat DEF left, after

\* While the window is full nothing is let through.
LEMMA FullWindow ==
  ASSUME LimitInv, Len(hits) = Limit, hits[1] > now - Span
  PROVE  Len(Recent) = Limit
  <1>1. PICK n \in 0..Len(hits) :
           /\ Recent \in Seq(Nat) /\ Len(Recent) = Len(hits) - n
           /\ \A i \in 1..n : hits[i] + Span <= now
    BY RecentIsSuffix DEF LimitInv
  <1>2. n = 0
    <2>1. SUFFICES ASSUME n > 0 PROVE FALSE
      BY <1>1
    <2>2. 1 \in 1..n /\ hits[1] \in Nat /\ now \in Nat
      BY <2>1, SpanNat DEF LimitInv
    <2>3. QED
      BY <1>1, <2>2, SpanNat
  <1>3. QED
    BY <1>1, <1>2, SpanNat

LEMMA RefusalKept == RInv /\ LimitSteps => RefusalInv'
  <1> SUFFICES ASSUME RInv, LimitSteps PROVE RefusalInv'
    OBVIOUS
  <1>1. CASE UNCHANGED <<now, limitVars>>
    BY <1>1 DEF RInv, RefusalInv, limitVars
  <1>2. CASE now' = now + 1 /\ UNCHANGED limitVars
    BY <1>2 DEF RInv, LimitInv, RefusalInv, limitVars
  <1>3. CASE hits' = <<>> /\ through' = <<>> /\ refusal' = NoRefusal /\ UNCHANGED now
    BY <1>3 DEF RInv, LimitInv, RefusalInv, NoRefusal
  <1>4. ASSUME NEW c \in Clients, Throttle(c), UNCHANGED now
        PROVE  RefusalInv'
    <2>1. /\ hits' = Recent /\ Len(Recent) >= Limit
          /\ refusal' = [client |-> c, at |-> now, after |-> RetryAfter(Recent[1])]
      BY <1>4 DEF Throttle
    <2>2. PICK n \in 0..Len(hits) :
           /\ Recent \in Seq(Nat) /\ Len(Recent) = Len(hits) - n
           /\ \A i \in 1..Len(Recent) : Recent[i] = hits[n + i]
           /\ Len(Recent) > 0 => Recent[1] + Span > now
      BY RecentIsSuffix DEF RInv, LimitInv
    <2>3. now \in Nat /\ Len(hits) \in Nat /\ Len(hits) <= Limit
      BY DEF RInv, LimitInv
    <2>4. Len(Recent) = Limit /\ n = 0 /\ Recent[1] \in Nat
      BY <2>1, <2>2, <2>3, SpanNat
    <2> HIDE DEF Recent
    <2> DEFINE after == RetryAfter(Recent[1])
    <2>5. after \in Nat /\ Recent[1] + Span < now + after * Ticks
      BY <2>3, <2>4, RetryReachesFar
    <2>6. /\ hits'[1] = Recent[1] /\ Len(hits') = Limit
          /\ refusal' = [client |-> c, at |-> now, after |-> after]
      BY <2>1, <2>4
    <2> HIDE DEF after
    <2>7. refusal'.at = now /\ refusal'.after = after
          /\ refusal' \in [client : Clients \cup {Nobody}, at : Nat, after : Nat]
      BY <2>3, <2>5, <2>6
    <2>8. hits'[1] > refusal'.at - Span /\ hits'[1] + Span < refusal'.at + refusal'.after * Ticks
      BY <2>2, <2>3, <2>4, <2>5, <2>6, <2>7, SpanNat
    <2>9. now' = now /\ refusal'.at <= now'
      BY <1>4, <2>3, <2>7
    <2>10. QED
      BY <2>6, <2>7, <2>8, <2>9 DEF RefusalInv
  <1>5. ASSUME CountHit, UNCHANGED now
        PROVE  RefusalInv'
    <2>1. /\ hits' \in Seq(Nat) /\ hits'[Len(hits')] = now /\ Len(hits') = Len(Recent) + 1
      BY <1>5, PassedHits DEF RInv
    <2>2. UNCHANGED refusal /\ Len(Recent) < Limit
      BY <1>5 DEF CountHit
    <2>3. Len(Recent) \in Nat /\ now \in Nat
      BY RecentIsSuffix DEF RInv, LimitInv
    <2>4. refusal.client # Nobody => now > refusal.at
      <3>1. SUFFICES ASSUME refusal.client # Nobody, ~ (now > refusal.at) PROVE FALSE
        OBVIOUS
      <3>2. now = refusal.at
        BY <2>3, <3>1 DEF RInv, RefusalInv
      <3>3. ~ \E i \in 1..Len(hits) : hits[i] > refusal.at
        BY <2>3, <3>2 DEF RInv, LimitInv
      <3>4. Len(hits) = Limit /\ hits[1] > now - Span
        BY <3>1, <3>2, <3>3 DEF RInv, RefusalInv
      <3>5. QED
        BY <2>2, <3>4, FullWindow, SpanNat DEF RInv
    <2>5. Len(hits') \in 1..Len(hits')
      BY <2>1, <2>3
    <2>6. refusal.client # Nobody => \E i \in 1..Len(hits') : hits'[i] > refusal.at
      BY <2>1, <2>4, <2>5
    <2>7. QED
      BY <1>5, <2>2, <2>6 DEF RInv, RefusalInv
  <1>6. QED
    BY <1>1, <1>2, <1>3, <1>4, <1>5 DEF LimitSteps

LEMMA RateStarts == Init => RInv
  BY SpanNat DEF Init, ServerInit, RInv, LimitInv, RefusalInv, RateHolds, NoRefusal

LEMMA RateInvariant == Spec => []RInv
  <1>1. RInv /\ [Next]_vars => RInv'
    BY OnlyLimitSteps, LimitKept, RefusalKept DEF RInv
  <1>2. QED
    BY RateStarts, <1>1, PTL DEF Spec

\* enforce_rate_limit lets at most Limit requests through in any span of one window,
\* though it forgets the expired hits: for any limit, window and clock, over crashes.
THEOREM RateAlwaysHolds == Spec => []RateHolds
  <1>1. RInv => RateHolds
    BY DEF RInv, LimitInv
  <1>2. QED
    BY <1>1, RateInvariant, PTL

\* A refused client that comes back after the Retry-After of its 429 is refused again
\* only if somebody was let through in the meantime.
THEOREM RetryAlwaysHonoured == Spec => RetryHonoured
  <1> DEFINE Honoured ==
        \A c \in Clients :
          (Throttle(c) /\ refusal.client = c /\ now >= refusal.at + refusal.after * Ticks)
            => \E i \in DOMAIN hits : hits[i] > refusal.at
  <1>1. ASSUME RInv, NEW c \in Clients, Throttle(c), refusal.client = c,
               now >= refusal.at + refusal.after * Ticks
        PROVE  \E i \in DOMAIN hits : hits[i] > refusal.at
    <2>1. SUFFICES ASSUME ~ \E i \in 1..Len(hits) : hits[i] > refusal.at PROVE FALSE
      BY DEF RInv, LimitInv
    <2>2. c # Nobody
      BY AdmissionConstants
    <2>3. Len(hits) = Limit /\ hits[1] + Span < refusal.at + refusal.after * Ticks
      BY <1>1, <2>1, <2>2 DEF RInv, RefusalInv
    <2>4. Len(Recent) >= Limit
      BY <1>1 DEF Throttle
    <2>5. PICK n \in 0..Len(hits) :
           /\ Recent \in Seq(Nat) /\ Len(Recent) = Len(hits) - n
           /\ \A i \in 1..Len(Recent) : Recent[i] = hits[n + i]
           /\ Len(Recent) > 0 => Recent[1] + Span > now
      BY <1>1, RecentIsSuffix DEF RInv, LimitInv
    <2>6. n = 0 /\ Recent[1] = hits[1] /\ hits[1] + Span > now
      BY <2>3, <2>4, <2>5, SpanNat
    <2>7. hits[1] \in Nat /\ now \in Nat /\ refusal.at \in Nat /\ refusal.after * Ticks \in Nat
      <3>1. hits[1] \in Nat /\ now \in Nat
        BY <1>1, <2>3, SpanNat DEF RInv, LimitInv
      <3>2. refusal.at \in Nat /\ refusal.after \in Nat
        BY <1>1 DEF RInv, RefusalInv
      <3>3. QED
        BY <3>1, <3>2, SpanNat
    <2> HIDE DEF Recent
    <2>8. QED
      BY <1>1, <2>3, <2>6, <2>7, SpanNat
  <1>2. RInv => Honoured
    BY <1>1
  <1>3. RInv /\ [Next]_vars => [Honoured]_<<now, serverVars>>
    BY <1>2
  <1>4. QED
    BY <1>3, RateInvariant, PTL DEF Spec, RetryHonoured

-----------------------------------------------------------------------------
\* The types.  SInv and RInv have most of them; what is left are the clock with
\* the launcher's two deadlines, and the numbers of the requests.

Horizon == IF MaxTime > Timeout * Ticks THEN MaxTime ELSE Timeout * Ticks
Patience == Timeout * Ticks
Reading == ReadTimeout * Ticks

TimeInv ==
  /\ now \in Nat /\ now <= LastTime
  /\ wake \in Nat /\ wake <= LastTime
  /\ deadline \in Nat /\ deadline <= Patience
  /\ launcher = "begin" => now = 0
  /\ launcher = "asking" => now <= Horizon + Reading /\ wake <= Horizon + Reading

PlaceInv ==
  /\ server \in Servers /\ launcher \in Places
  /\ why \in Reasons /\ ready \in {"none"} \cup Models
  /\ editor \in BOOLEAN

SentInv ==
  /\ sent \in 0..MaxRequests
  /\ locked \in BOOLEAN
  /\ \A j \in jobs : j.id \in 1..MaxRequests
  /\ sent = 0 => late = NoneLate /\ \A c \in Clients : request[c].stage = "idle"

TInv == TimeInv /\ PlaceInv /\ SentInv

LEMMA Times ==
  /\ Ticks \in Nat /\ Ticks > 0
  /\ Patience \in Nat /\ Reading \in Nat /\ Horizon \in Nat /\ MaxTime \in Nat
  /\ Patience <= Horizon /\ MaxTime <= Horizon
  /\ LastTime = Horizon + Reading + Ticks
  <1>1. Timeout \in Nat /\ ReadTimeout \in Nat /\ MaxTime \in Nat /\ Ticks \in Nat /\ Ticks > 0
    BY SessionConstants, AdmissionConstants
  <1>2. Timeout * Ticks \in Nat /\ ReadTimeout * Ticks \in Nat
        /\ (ReadTimeout + 1) * Ticks = ReadTimeout * Ticks + Ticks
    BY <1>1
  <1>3. LastTime = Horizon + (ReadTimeout + 1) * Ticks
    BY DEF LastTime, Horizon
  <1>4. Horizon \in Nat /\ Patience <= Horizon /\ MaxTime <= Horizon
    BY <1>1, <1>2 DEF Horizon, Patience
  <1>5. QED
    BY <1>1, <1>2, <1>3, <1>4 DEF Patience, Reading

LEMMA TimeKept == SInv /\ TimeInv /\ [Next]_vars => TimeInv'
  <1> SUFFICES ASSUME SInv, TimeInv, [Next]_vars PROVE TimeInv'
    OBVIOUS
  <1>1. CASE Refuse \/ GiveUp \/ NoticeExit \/ LearnReady \/ LearnRefusal \/ Wake \/ Attach
             \/ ServerStops \/ LeaveSession \/ Interrupt
    <2>1. /\ UNCHANGED <<now, deadline>> /\ launcher' \notin {"begin", "asking"}
          /\ wake' = wake \/ wake' = 0
      BY <1>1 DEF Refuse, GiveUp, NoticeExit, LearnReady, LearnRefusal, Wake, Attach, ServerStops,
         LeaveSession, Interrupt, Clean
    <2>2. QED
      BY <2>1, Times DEF TimeInv
  <1>2. CASE Spawn
    <2>1. now = 0 /\ deadline' = now + Patience /\ UNCHANGED <<now, wake>> /\ launcher' = "polling"
      BY <1>2 DEF Spawn, TimeInv, Patience
    <2>2. QED
      BY <2>1, Times DEF TimeInv
  <1>3. CASE PollTooEarly \/ LearnBusy \/ PollReset \/ PollTimesOut
    <2>1. UNCHANGED <<now, deadline>> /\ launcher' = "sleeping" /\ wake' = now + Ticks
      BY <1>3 DEF PollTooEarly, LearnBusy, PollReset, PollTimesOut, SleepOneSecond
    <2>2. now <= Horizon + Reading
      <3>1. CASE launcher = "asking"
        BY <3>1 DEF TimeInv
      <3>2. CASE launcher = "polling" /\ now < deadline
        BY <3>2, Times DEF TimeInv
      <3>3. QED
        BY <1>3, <3>1, <3>2 DEF PollTooEarly, LearnBusy, PollReset, PollTimesOut
    <2>3. QED
      BY <2>1, <2>2, Times DEF TimeInv
  <1>4. CASE Poll
    <2>1. /\ now < deadline /\ wake' = now + Reading /\ UNCHANGED <<now, deadline>>
          /\ launcher' = "asking"
      BY <1>4 DEF Poll, Reading
    <2>2. QED
      BY <2>1, Times DEF TimeInv
  <1>5. CASE TakeDown \/ Crash \/ Bind \/ ServerRuns \/ ClientActs \/ ChangeFile \/ UNCHANGED vars
    BY <1>5 DEF TakeDown, Crash, ServerDies, Bind, ServerRuns, ClientActs, ChangeFile, vars,
       sessionVars, TimeInv
  <1>6. CASE Tick
    <2>1. /\ now' = now + 1 /\ UNCHANGED <<wake, deadline, launcher, server>> /\ server # "absent"
          /\ \/ now < MaxTime
             \/ launcher \in {"asking", "sleeping"} /\ now < wake
             \/ launcher = "polling" /\ now < deadline
      BY <1>6 DEF Tick, sessionVars
    <2>2. launcher # "begin"
      BY <2>1 DEF SInv, QuietInv
    <2>3. QED
      BY <2>1, <2>2, Times DEF TimeInv
  <1>7. QED
    BY <1>1, <1>2, <1>3, <1>4, <1>5, <1>6 DEF Next, LauncherStep

LEMMA PlaceKept == SInv /\ PlaceInv /\ [Next]_vars => PlaceInv'
  <1> SUFFICES ASSUME SInv, PlaceInv, [Next]_vars PROVE PlaceInv'
    OBVIOUS
  <1> USE DEF PlaceInv, Places, Servers
  <1>1. CASE Refuse \/ Spawn \/ GiveUp \/ NoticeExit \/ PollTooEarly \/ Poll \/ LearnBusy
             \/ PollTimesOut \/ PollReset \/ Wake \/ Attach \/ ServerStops \/ LeaveSession \/ Interrupt
    BY <1>1 DEF Refuse, Spawn, GiveUp, NoticeExit, PollTooEarly, Poll, LearnBusy, PollTimesOut,
       PollReset, Wake, Attach, ServerStops, LeaveSession, Interrupt, Clean, SleepOneSecond, Reasons
  <1>2. CASE LearnReady \/ LearnRefusal
    BY <1>2 DEF LearnReady, LearnRefusal, Clean, Reasons, SInv, ServerInv, ShapeInv
  <1>3. CASE TakeDown \/ Crash \/ Bind \/ ServerRuns \/ ClientActs \/ ChangeFile \/ Tick
             \/ UNCHANGED vars
    BY <1>3 DEF TakeDown, Crash, ServerDies, Bind, ServerRuns, ClientActs, ChangeFile, Tick, vars,
       sessionVars
  <1>4. QED
    BY <1>1, <1>2, <1>3 DEF Next, LauncherStep

\* An answer, and a lost connection, leave every other request where it is.
LEMMA ReplyKeepsSent ==
  ASSUME SInv, SentInv, NEW c \in Clients, NEW status, Reply(c, status), UNCHANGED wireVars
  PROVE  sent' = 0 => late' = NoneLate /\ \A d \in Clients : request'[d].stage = "idle"
  BY DEF SInv, ServerInv, ShapeInv, SentInv, Reply, Idle

LEMMA LostKeepsSent ==
  ASSUME SInv, SentInv, NEW c \in Clients, Disconnect(c)
  PROVE  SentInv'
  <1> DEFINE kept == {j \in jobs : j.client # c \/ j.at # "done"}
             Orphan(j) == IF j.client = c THEN [j EXCEPT !.client = Nobody] ELSE j
  <1>1. jobs' = {Orphan(j) : j \in kept} /\ Reply(c, "dropped") /\ UNCHANGED <<locked, wireVars>>
    BY DEF Disconnect, Orphaned
  <1>2. kept \subseteq jobs /\ \A j \in jobs : Orphan(j).id = j.id
    BY DEF SInv, ServerInv, ShapeInv, AnyJob
  <1> HIDE DEF Orphan, kept
  <1>3. QED
    BY <1>1, <1>2, ReplyKeepsSent DEF SentInv

\* A request that is abandoned, or served for nobody, has been sent.
LEMMA AbandonKeepsSent ==
  ASSUME SInv, SentInv, NEW c \in Clients, NEW keyIsRight, Abandon(c, keyIsRight)
  PROVE  SentInv'
  <1>1. /\ request[c].stage = "sent" /\ UNCHANGED <<locked, jobs, sent>> /\ sent # 0
    BY DEF Abandon, slotVars, SentInv
  <1>2. QED
    BY <1>1 DEF SentInv

LEMMA ServeLateKeepsSent ==
  ASSUME SInv, SentInv, NEW kind \in Kinds, ServeLate(kind)
  PROVE  SentInv'
  <1>1. late[kind] > 0 /\ UNCHANGED sent
    BY DEF ServeLate
  <1>2. sent \in 1..MaxRequests
    BY <1>1, AdmissionConstants DEF SentInv, NoneLate
  <1>3. CASE UNCHANGED slotVars
    BY <1>1, <1>2, <1>3 DEF SentInv, slotVars
  <1>4. CASE ~ UNCHANGED slotVars
    <2>1. locked' = TRUE
          /\ jobs' = jobs \cup {[id |-> sent, client |-> Nobody, kind |-> kind,
                                 at |-> "queued", result |-> "none"]}
      BY <1>4 DEF ServeLate
    <2>2. QED
      BY <1>1, <1>2, <2>1 DEF SentInv
  <1>5. QED
    BY <1>3, <1>4

LEMMA SendKeepsSent ==
  ASSUME SInv, SentInv, NEW c \in Clients, NEW kind, Send(c, kind)
  PROVE  SentInv'
  BY AdmissionConstants DEF Send, SentInv, slotVars

LEMMA HandlerKeepsSent ==
  ASSUME SInv, SentInv, NEW c \in Clients, NEW keyIsRight, Handler(c, keyIsRight)
  PROVE  SentInv'
  <1>1. CASE OverSize(c) \/ Unauthorised(c) \/ Throttle(c) \/ Malformed(c) \/ Busy(c)
    <2>1. UNCHANGED <<wireVars, locked, jobs>> /\ \E status \in Answers : Reply(c, status)
      BY <1>1 DEF OverSize, Unauthorised, Throttle, Malformed, Busy, slotVars, Answers
    <2>2. QED
      BY <2>1, ReplyKeepsSent DEF SentInv
  <1>2. CASE ExecutorRefuses(c)
    <2>1. UNCHANGED <<wireVars, jobs>> /\ locked' = FALSE /\ Reply(c, "500")
      BY <1>2 DEF ExecutorRefuses
    <2>2. QED
      BY <2>1, ReplyKeepsSent DEF SentInv
  <1>3. CASE Respond(c)
    <2>1. PICK j \in jobs : jobs' = jobs \ {j} /\ Reply(c, j.result) /\ UNCHANGED <<locked, wireVars>>
      BY <1>3 DEF Respond
    <2>2. QED
      BY <2>1, ReplyKeepsSent DEF SentInv
  <1>4. CASE Admit(c)
    <2>1. /\ request[c].stage = "sent" /\ locked' = TRUE /\ UNCHANGED wireVars
          /\ jobs' = jobs \cup {[id |-> sent, client |-> c, kind |-> request[c].kind,
                                 at |-> "queued", result |-> "none"]}
      BY <1>4 DEF Admit, PassLimit
    <2>2. sent \in 1..MaxRequests
      BY <2>1, AdmissionConstants DEF SentInv
    <2>3. QED
      BY <2>1, <2>2 DEF SentInv
  <1>5. QED
    BY <1>1, <1>2, <1>3, <1>4 DEF Handler

LEMMA JobKeepsSent == SInv /\ SentInv /\ JobStep => SentInv'
  <1> SUFFICES ASSUME SInv, SentInv, JobStep PROVE SentInv'
    OBVIOUS
  <1>1. PICK j \in jobs : StartJob(j) \/ Run(j)
    BY DEF JobStep
  <1>2. UNCHANGED <<wireVars, request>>
    BY <1>1 DEF StartJob, Run
  <1>3. j \in AnyJob /\ j.id \in 1..MaxRequests
    BY DEF SInv, ServerInv, ShapeInv, SentInv
  <1>4. ASSUME NEW result, Finish(j, result)
        PROVE  SentInv'
    BY <1>2, <1>3, <1>4 DEF Finish, SentInv, AnyJob
  <1>5. CASE Run(j)
    BY <1>4, <1>5 DEF Run
  <1>6. CASE StartJob(j)
    BY <1>2, <1>3, <1>4, <1>6 DEF StartJob, SentInv, AnyJob
  <1>7. QED
    BY <1>1, <1>5, <1>6

LEMMA SentKept == SInv /\ SentInv /\ [Next]_vars => SentInv'
  <1> SUFFICES ASSUME SInv, SentInv, [Next]_vars PROVE SentInv'
    OBVIOUS
  <1> USE DEF serverVars, slotVars
  <1>1. CASE Refuse \/ Spawn \/ GiveUp \/ NoticeExit \/ PollTooEarly \/ LearnReady \/ LearnBusy
             \/ LearnRefusal \/ PollReset \/ Wake \/ Attach \/ ServerStops \/ LeaveSession
             \/ Interrupt \/ Bind \/ Tick \/ UNCHANGED vars
    BY <1>1 DEF Refuse, Spawn, GiveUp, NoticeExit, PollTooEarly, LearnReady, LearnBusy,
       LearnRefusal, PollReset, Wake, Attach, ServerStops, LeaveSession, Interrupt, Bind, Tick,
       vars, SentInv
  <1>2. CASE Poll
    BY <1>2, SendKeepsSent, SessionConstants, AdmissionConstants DEF Poll
  <1>3. CASE PollTimesOut
    <2>1. Launcher \in Clients
      BY SessionConstants, AdmissionConstants
    <2>2. CASE Disconnect(Launcher)
      BY <2>1, <2>2, LostKeepsSent
    <2>3. CASE Abandon(Launcher, TRUE)
      BY <2>1, <2>3, AbandonKeepsSent
    <2>4. QED
      BY <1>3, <2>2, <2>3 DEF PollTimesOut
  <1>4. CASE TakeDown \/ Crash
    <2>1. UNCHANGED sent /\ late' = NoneLate /\ locked' = FALSE /\ jobs' = {}
          /\ request' = [c \in Clients |-> Idle]
      BY <1>4 DEF TakeDown, Crash, ServerDies
    <2>2. \A c \in Clients : request'[c].stage = "idle"
      BY <2>1 DEF Idle
    <2>3. QED
      BY <2>1, <2>2 DEF SentInv
  <1>5. CASE ServerRuns
    BY <1>5, HandlerKeepsSent, JobKeepsSent, ServeLateKeepsSent DEF ServerRuns
  <1>6. CASE ClientActs
    BY <1>6, LostKeepsSent, AbandonKeepsSent, SendKeepsSent DEF ClientActs
  <1>7. CASE ChangeFile
    BY <1>7 DEF ChangeFile, ReplaceFile, SentInv
  <1>8. QED
    BY <1>1, <1>2, <1>3, <1>4, <1>5, <1>6, <1>7 DEF Next, LauncherStep

LEMMA TypeInvariant == Spec => []TInv
  <1>1. Init => TInv
    <2> SUFFICES ASSUME Init PROVE TInv
      OBVIOUS
    <2>1. TimeInv
      BY Times DEF Init, TimeInv
    <2>2. PlaceInv
      BY DEF Init, PlaceInv, Servers, Places, Reasons
    <2>3. sent = 0 /\ late = NoneLate /\ locked = FALSE /\ jobs = {} /\ \A c \in Clients : request[c].stage = "idle"
      BY DEF Init, ServerInit, Idle
    <2>4. SentInv
      <3>1. locked \in BOOLEAN
        BY <2>3
      <3>2. 0 \in 0..MaxRequests
        BY AdmissionConstants
      <3>3. QED
        BY <2>3, <3>1, <3>2 DEF SentInv
    <2>5. QED
      BY <2>1, <2>2, <2>4 DEF TInv
  <1>2. SInv /\ TInv /\ [Next]_vars => TInv'
    BY TimeKept, PlaceKept, SentKept DEF TInv
  <1>3. QED
    BY <1>1, <1>2, SessionInvariant, PTL DEF Spec

\* Every variable of the session keeps its type and its bounds: the queue of hits
\* never exceeds the limit, and the last poll, sleep included, ends by LastTime.
THEOREM SessionAlwaysTyped == Spec => []SessionTypeOK
  <1>1. SInv /\ RInv /\ TInv => SessionTypeOK
    <2> SUFFICES ASSUME SInv, RInv, TInv PROVE SessionTypeOK
      OBVIOUS
    <2>1. jobs \subseteq Job
      BY DEF SInv, ServerInv, ShapeInv, AnyJob, TInv, SentInv, Job
    <2>2. ServerTypeOK
      BY <2>1 DEF SInv, ServerInv, ShapeInv, RInv, LimitInv, RefusalInv, TInv, SentInv, ServerTypeOK
    <2>3. LastTime \in Nat
      BY Times
    <2>4. now \in 0..LastTime /\ wake \in 0..LastTime /\ deadline \in 0..(Timeout * Ticks)
      BY <2>3, Times DEF TInv, TimeInv, Patience
    <2>5. QED
      BY <2>2, <2>4 DEF TInv, PlaceInv, SessionTypeOK
  <1>2. QED
    BY <1>1, SessionInvariant, RateInvariant, TypeInvariant, PTL

-----------------------------------------------------------------------------
\* The launcher's own requests.  Until it starts the editor nobody else has the
\* key, so the hits in the queue are its polls, and so are the abandoned requests.
\* A poll that is not the first was begun a second after the one before it; and
\* between the first and the second a whole poll has timed out, because only a
\* job that an abandoned poll began makes the server busy.

Alone == launcher \in {"begin", "polling", "asking", "sleeping"}

\* The launcher's request that the server has not read yet.
Unread == IF request[Launcher].stage = "sent" THEN 1 ELSE 0

\* Polls the server may still count or read.
Polls == Len(hits) + late["health"] + late["generate"] + Unread

Untouched == hits = <<>> /\ ~locked /\ late = NoneLate

Paid(n, t) == n * Ticks + Reading <= t

AskingInv ==
  /\ wake >= Reading /\ wake <= now + Reading /\ wake < Patience + Reading
  /\ \/ Paid(Polls - 1, wake - Reading)
     \/ /\ Polls <= 1 /\ answer[Launcher] # "busy"
        /\ request[Launcher].stage = "sent" => Untouched
  /\ answer[Launcher] = "dropped" => Untouched

PollInv ==
  /\ Alone => ~editor /\ answer[Launcher] # "429"
  /\ Alone /\ request[Launcher].stage # "idle" => launcher = "asking" /\ answer[Launcher] = "none"
  /\ launcher = "begin" => Untouched
  /\ launcher = "polling" => Untouched \/ Paid(Polls, now)
  /\ launcher = "sleeping" => Untouched \/ Paid(Polls, wake)
  /\ launcher = "asking" => AskingInv
  /\ NoSelfInflictedRefusal

ResultInv == \A j \in jobs : j.result \notin {"429", "busy", "dropped"}

KInv == SInv /\ RInv /\ TInv /\ ResultInv /\ PollInv

\* What the counts are made of.
LEMMA Counts ==
  ASSUME KInv
  PROVE  /\ Len(hits) \in Nat /\ now \in Nat /\ wake \in Nat
         /\ late["health"] \in Nat /\ late["generate"] \in Nat /\ Unread \in {0, 1}
         /\ Polls \in Nat /\ Len(hits) + Unread <= Polls
         /\ Launcher \in Clients /\ Launcher \in Watched
  <1>1. Len(hits) \in Nat /\ now \in Nat /\ wake \in Nat
    BY DEF KInv, RInv, LimitInv, TInv, TimeInv
  <1>2. late["health"] \in Nat /\ late["generate"] \in Nat
    BY DEF KInv, SInv, ServerInv, ShapeInv, Kinds
  <1>3. Unread \in {0, 1}
    BY DEF Unread
  <1>4. QED
    BY <1>1, <1>2, <1>3, SessionConstants, AdmissionConstants DEF Polls

\* Fewer polls, or more time, are no harm; and a second pays for a poll.
LEMMA PaidMore ==
  ASSUME NEW m \in Int, NEW n \in Int, NEW t \in Int, NEW u \in Int, m <= n, t <= u, Paid(n, t)
  PROVE  Paid(m, u)
  <1>1. m * Ticks <= n * Ticks /\ m * Ticks \in Int /\ n * Ticks \in Int /\ Reading \in Nat
    BY Times
  <1>2. QED
    BY <1>1 DEF Paid

LEMMA PaidNext ==
  ASSUME NEW n \in Int, NEW t \in Int, Paid(n, t)
  PROVE  Paid(n + 1, t + Ticks)
  <1>1. (n + 1) * Ticks = n * Ticks + Ticks /\ n * Ticks \in Int /\ Reading \in Nat /\ Ticks \in Nat
    BY Times
  <1>2. QED
    BY <1>1 DEF Paid

\* The eviction loop does not lengthen the queue.
LEMMA RecentShorter ==
  ASSUME KInv
  PROVE  Recent \in Seq(Nat) /\ Len(Recent) \in Nat /\ Len(Recent) <= Len(hits)
  <1>1. PICK n \in 0..Len(hits) : Recent \in Seq(Nat) /\ Len(Recent) = Len(hits) - n
    BY RecentIsSuffix DEF KInv, RInv, LimitInv
  <1> HIDE DEF Recent
  <1>2. QED
    BY <1>1, Counts

\* So the launcher's request finds room in the queue.
LEMMA NotThrottled ==
  ASSUME KInv, Timeout <= Limit + ReadTimeout, launcher = "asking",
         request[Launcher].stage = "sent"
  PROVE  Len(Recent) < Limit
  <1>1. Len(Recent) \in Nat /\ Len(Recent) <= Len(hits) /\ Limit \in Nat /\ Limit > 0
    BY RecentShorter, SpanNat
  <1> HIDE DEF Recent
  <1>2. CASE Untouched
    BY <1>1, <1>2 DEF Untouched
  <1>3. CASE Paid(Polls - 1, wake - Reading)
    <2> DEFINE m == Polls - 1
    <2>1. m \in Nat /\ Len(hits) <= m /\ wake \in Nat
      BY Counts DEF Unread
    <2>2. m * Ticks + Reading <= wake - Reading /\ wake < Patience + Reading
      BY <1>3 DEF KInv, PollInv, AskingInv, Paid
    <2> HIDE DEF m
    <2>3. m * Ticks \in Nat /\ Reading \in Nat /\ Patience \in Nat
      BY <2>1, Times
    <2>4. m * Ticks + ReadTimeout * Ticks < Timeout * Ticks
      BY <2>1, <2>2, <2>3 DEF Reading, Patience
    <2>5. m + ReadTimeout < Timeout
      <3>1. m \in Nat /\ ReadTimeout \in Nat /\ Timeout \in Nat /\ Ticks \in Nat /\ Ticks > 0
        BY <2>1, SessionConstants, AdmissionConstants
      <3>2. SUFFICES ASSUME Timeout <= m + ReadTimeout PROVE FALSE
        BY <3>1
      <3>3. Timeout * Ticks <= (m + ReadTimeout) * Ticks
        BY <3>1, <3>2
      <3>4. (m + ReadTimeout) * Ticks = m * Ticks + ReadTimeout * Ticks
        BY <3>1
      <3>5. QED
        BY <2>3, <2>4, <3>1, <3>3, <3>4 DEF Reading, Patience
    <2>6. QED
      BY <1>1, <2>1, <2>5, SessionConstants
  <1>4. QED
    BY <1>2, <1>3 DEF KInv, PollInv, AskingInv

\* No job ends with an answer of the handlers'.
LEMMA ResultKept == SInv /\ ResultInv /\ [Next]_vars => ResultInv'
  <1> SUFFICES ASSUME SInv, ResultInv, [Next]_vars PROVE ResultInv'
    OBVIOUS
  <1>1. ASSUME NEW c \in Clients, Disconnect(c)
        PROVE  ResultInv'
    <2> DEFINE Orphan(j) == IF j.client = c THEN [j EXCEPT !.client = Nobody] ELSE j
    <2>1. \A j \in jobs : Orphan(j).result = j.result
      BY DEF SInv, ServerInv, ShapeInv, AnyJob
    <2>2. \A i \in jobs' : \E j \in jobs : i = Orphan(j)
      BY <1>1 DEF Disconnect, Orphaned
    <2> HIDE DEF Orphan
    <2>3. QED
      BY <2>1, <2>2 DEF ResultInv
  <1>2. CASE Refuse \/ Spawn \/ GiveUp \/ NoticeExit \/ PollTooEarly \/ LearnReady \/ LearnBusy
             \/ LearnRefusal \/ PollReset \/ Wake \/ Attach \/ ServerStops \/ LeaveSession
             \/ Interrupt \/ Bind \/ Tick \/ Poll \/ ChangeFile \/ UNCHANGED vars
    BY <1>2 DEF Refuse, Spawn, GiveUp, NoticeExit, PollTooEarly, LearnReady, LearnBusy,
       LearnRefusal, PollReset, Wake, Attach, ServerStops, LeaveSession, Interrupt, Bind, Tick,
       Poll, Send, ChangeFile, ReplaceFile, vars, serverVars, slotVars, ResultInv
  <1>3. CASE TakeDown \/ Crash
    BY <1>3 DEF TakeDown, Crash, ServerDies, ResultInv
  <1>4. CASE PollTimesOut
    <2>1. Launcher \in Clients
      BY SessionConstants, AdmissionConstants
    <2>2. QED
      BY <1>1, <1>4, <2>1 DEF PollTimesOut, Abandon, slotVars, ResultInv
  <1>5. CASE ClientActs
    BY <1>1, <1>5 DEF ClientActs, Abandon, Send, slotVars, ResultInv
  <1>6. CASE \E c \in Clients : Handler(c, HasKey(c))
    BY <1>6 DEF Handler, OverSize, Unauthorised, Throttle, Malformed, Busy, Admit, ExecutorRefuses,
       Respond, slotVars, ResultInv
  <1>7. CASE JobStep
    <2>1. PICK j \in jobs : StartJob(j) \/ Run(j)
      BY <1>7 DEF JobStep
    <2>2. ASSUME NEW result \in {"ok", "422", "500", "unavailable"}, Finish(j, result)
          PROVE  ResultInv'
      BY <2>2 DEF Finish, ResultInv, SInv, ServerInv, ShapeInv, AnyJob
    <2>3. CASE Run(j)
      BY <2>2, <2>3 DEF Run, Outcomes
    <2>4. CASE StartJob(j)
      BY <2>2, <2>4 DEF StartJob, ResultInv, SInv, ServerInv, ShapeInv, AnyJob
    <2>5. QED
      BY <2>1, <2>3, <2>4
  <1>8. CASE \E kind \in Kinds : ServeLate(kind)
    BY <1>8 DEF ServeLate, slotVars, ResultInv
  <1>9. QED
    BY <1>2, <1>3, <1>4, <1>5, <1>6, <1>7, <1>8 DEF Next, LauncherStep, ServerRuns

\* What a step of the server may do to the polls: it adds none, an untouched server
\* stays so unless it comes to the launcher's request, and whoever is told that the
\* server is busy found the slot taken.
ServedWell ==
  /\ Polls' <= Polls
  /\ (request[Launcher].stage = "idle" \/ request'[Launcher].stage = "sent") /\ Untouched => Untouched'
  /\ request'[Launcher].stage # "idle" =>
       request[Launcher].stage # "idle" /\ answer'[Launcher] = answer[Launcher]
  /\ request'[Launcher].stage = "sent" => request[Launcher].stage = "sent"
  /\ \/ answer'[Launcher] = answer[Launcher]
     \/ /\ answer'[Launcher] \notin {"429", "dropped"}
        /\ answer'[Launcher] = "busy" => request[Launcher].stage = "sent" /\ locked

LEMMA ServedKeeps ==
  ASSUME KInv, Alone, UNCHANGED <<now, sessionVars>>, Polls' \in Nat, ServedWell
  PROVE  PollInv'
  <1> USE Counts
  <1>1. UNCHANGED <<now, launcher, wake, why, editor>>
    BY DEF sessionVars
  <1>2. ASSUME NEW t \in Nat, Paid(Polls, t) PROVE Paid(Polls', t)
    BY <1>2, PaidMore DEF ServedWell
  <1>3. ASSUME NEW t \in Int, Paid(Polls - 1, t) PROVE Paid(Polls' - 1, t)
    <2>1. Polls' - 1 \in Int /\ Polls - 1 \in Int /\ Polls' - 1 <= Polls - 1
      BY DEF ServedWell
    <2> HIDE DEF Polls
    <2>2. QED
      BY <1>3, <2>1, PaidMore
  <1>4. launcher # "asking" => request[Launcher].stage = "idle"
    BY DEF KInv, PollInv
  <1>5. (Alone /\ request[Launcher].stage # "idle" => launcher = "asking" /\ answer[Launcher] = "none")'
    BY <1>1 DEF KInv, PollInv, Alone, ServedWell
  <1>6. (Alone => ~editor /\ answer[Launcher] # "429")'
    BY <1>1 DEF KInv, PollInv, Alone, ServedWell
  <1>7. (launcher = "begin" => Untouched)'
    BY <1>1, <1>4 DEF KInv, PollInv, ServedWell
  <1>8. (launcher = "polling" => Untouched \/ Paid(Polls, now))'
    <2>1. SUFFICES ASSUME launcher = "polling" PROVE Untouched' \/ Paid(Polls', now)
      BY <1>1 DEF Paid, Reading
    <2>2. QED
      BY <1>2, <1>4, <2>1 DEF KInv, PollInv, ServedWell
  <1>9. (launcher = "sleeping" => Untouched \/ Paid(Polls, wake))'
    <2>1. SUFFICES ASSUME launcher = "sleeping" PROVE Untouched' \/ Paid(Polls', wake)
      BY <1>1 DEF Paid, Reading
    <2>2. QED
      BY <1>2, <1>4, <2>1 DEF KInv, PollInv, ServedWell
  <1>10. (launcher = "asking" => AskingInv)'
    <2>1. SUFFICES ASSUME launcher = "asking" PROVE AskingInv'
      BY <1>1
    <2>2. AskingInv
      BY <2>1 DEF KInv, PollInv
    <2>3. (wake >= Reading /\ wake <= now + Reading /\ wake < Patience + Reading)'
      BY <1>1, <2>2 DEF AskingInv, Reading, Patience
    <2>4. (answer[Launcher] = "dropped" => Untouched)'
      <3>1. SUFFICES ASSUME answer'[Launcher] = "dropped" PROVE Untouched'
        OBVIOUS
      <3>2. answer[Launcher] = "dropped" /\ Untouched
        BY <2>2, <3>1 DEF ServedWell, AskingInv
      <3>3. request[Launcher].stage = "idle"
        BY <2>1, <3>2 DEF KInv, PollInv, Alone
      <3>4. QED
        BY <3>2, <3>3 DEF ServedWell
    <2>5. CASE Paid(Polls - 1, wake - Reading)
      <3>1. wake - Reading \in Int
        BY Times
      <3>2. Paid(Polls' - 1, wake - Reading)
        BY <1>3, <2>5, <3>1
      <3>3. Paid(Polls - 1, wake - Reading)'
        BY <1>1, <3>2 DEF Paid, Reading
      <3>4. QED
        BY <2>3, <2>4, <3>3 DEF AskingInv
    <2>6. CASE /\ Polls <= 1 /\ answer[Launcher] # "busy"
               /\ request[Launcher].stage = "sent" => Untouched
      <3>1. Polls' <= 1
        BY <2>6 DEF ServedWell
      <3>2. answer'[Launcher] # "busy"
        BY <2>6 DEF ServedWell, Untouched
      <3>3. request'[Launcher].stage = "sent" => Untouched'
        BY <2>6 DEF ServedWell
      <3>4. QED
        BY <2>3, <2>4, <3>1, <3>2, <3>3 DEF AskingInv
    <2>7. QED
      BY <2>2, <2>5, <2>6 DEF AskingInv
  <1>11. NoSelfInflictedRefusal'
    BY <1>1 DEF KInv, PollInv, NoSelfInflictedRefusal
  <1>12. QED
    BY <1>5, <1>6, <1>7, <1>8, <1>9, <1>10, <1>11 DEF PollInv

\* The counts after a request that the limit lets through.
LEMMA CountedHit ==
  ASSUME KInv, CountHit
  PROVE  hits' \in Seq(Nat) /\ Len(hits') \in Nat /\ Len(hits') <= Len(hits) + 1
  <1>1. hits' = Append(Recent, now)
    BY DEF CountHit
  <1>2. Recent \in Seq(Nat) /\ Len(Recent) \in Nat /\ Len(Recent) <= Len(hits) /\ now \in Nat
    BY RecentShorter, Counts
  <1> HIDE DEF Recent
  <1>3. QED
    BY <1>1, <1>2, Counts, AppendProperties

\* The handlers of the launcher's request, and of requests without the key.
LEMMA HandlerServes ==
  ASSUME KInv, Timeout <= Limit + ReadTimeout, Alone, NEW c \in Clients, Handler(c, HasKey(c))
  PROVE  Polls' \in Nat /\ ServedWell
  <1> USE Counts
  <1>1. request \in [Clients -> [stage : Stages, kind : Kinds]] /\ answer \in [Watched -> Answers]
    BY DEF KInv, SInv, ServerInv, ShapeInv
  <1>2. ASSUME NEW status, Reply(c, status)
        PROVE  /\ request' \in [Clients -> [stage : Stages, kind : Kinds]]
               /\ request'[c].stage = "idle"
               /\ \A d \in Clients \ {c} : request'[d] = request[d]
               /\ answer'[Launcher] = IF Launcher = c THEN status ELSE answer[Launcher]
    BY <1>1, <1>2 DEF Reply, Idle, Stages, Kinds
  <1>3. ASSUME NEW status, Reply(c, status), UNCHANGED <<hits, late, locked>>,
               c # Launcher \/ status \notin {"429", "dropped", "busy"}
        PROVE  Polls' \in Nat /\ ServedWell
    <2>1. Unread' = Unread \/ Unread' = 0
      BY <1>2, <1>3 DEF Unread
    <2>2. Polls' \in Nat /\ Polls' <= Polls
      BY <1>3, <2>1 DEF Polls
    <2>3. QED
      BY <1>2, <1>3, <2>2 DEF ServedWell, Untouched
  <1>4. CASE OverSize(c)
    BY <1>3, <1>4 DEF OverSize, limitVars, slotVars
  <1>5. CASE ~HasKey(c) /\ Unauthorised(c)
    BY <1>3, <1>5 DEF Unauthorised, HasKey, limitVars, slotVars
  <1>6. CASE Respond(c)
    <2>1. PICK j \in jobs : Reply(c, j.result) /\ UNCHANGED <<locked, limitVars, wireVars>>
      BY <1>6 DEF Respond
    <2>2. j.result \notin {"429", "dropped", "busy"}
      BY DEF KInv, ResultInv
    <2>3. QED
      BY <1>3, <2>1, <2>2 DEF limitVars
  <1>7. CASE HasKey(c) /\ (Throttle(c) \/ Malformed(c) \/ Busy(c) \/ Admit(c) \/ ExecutorRefuses(c))
    <2>1. c = Launcher /\ request[Launcher].stage = "sent" /\ launcher = "asking"
      <3>1. c = Launcher
        BY <1>7 DEF HasKey, KInv, PollInv
      <3>2. request[Launcher].stage = "sent"
        BY <1>7, <3>1 DEF Throttle, Malformed, Busy, Admit, ExecutorRefuses, PassLimit
      <3>3. QED
        BY <3>1, <3>2 DEF KInv, PollInv
    <2>2. ~ Throttle(c)
      BY <2>1, NotThrottled, RecentShorter, SpanNat DEF Throttle
    <2>3. CountHit /\ UNCHANGED late
      BY <1>7, <2>2 DEF Malformed, Busy, Admit, ExecutorRefuses, PassLimit
    <2>4. request' \in [Clients -> [stage : Stages, kind : Kinds]] /\ request'[Launcher].stage # "sent"
      <3>1. CASE Admit(c)
        BY <1>1, <2>1, <3>1 DEF Admit, Stages
      <3>2. CASE Malformed(c) \/ Busy(c) \/ ExecutorRefuses(c)
        BY <1>2, <2>1, <3>2 DEF Malformed, Busy, ExecutorRefuses
      <3>3. QED
        BY <1>7, <2>2, <3>1, <3>2
    <2>5. Unread = 1 /\ Unread' = 0
      BY <2>1, <2>4 DEF Unread
    <2>6. Len(hits') \in Nat /\ Len(hits') <= Len(hits) + 1
      BY <2>3, CountedHit
    <2>7. Polls' \in Nat /\ Polls' <= Polls
      BY <2>3, <2>5, <2>6 DEF Polls
    <2>8. CASE Admit(c)
      BY <2>1, <2>4, <2>7, <2>8 DEF Admit, ServedWell
    <2>9. CASE Malformed(c) \/ Busy(c) \/ ExecutorRefuses(c)
      <3>1. \E status : Reply(c, status) /\ (status \in {"422", "500"} \/ (status = "busy" /\ locked))
        BY <2>9 DEF Malformed, Busy, ExecutorRefuses
      <3>2. PICK status : Reply(c, status) /\ (status \in {"422", "500"} \/ (status = "busy" /\ locked))
        BY <3>1
      <3>3. answer'[Launcher] = status /\ request'[Launcher].stage = "idle"
        BY <1>2, <2>1, <3>2
      <3>4. QED
        BY <2>1, <2>7, <3>2, <3>3 DEF ServedWell
    <2>10. QED
      BY <1>7, <2>2, <2>8, <2>9
  <1>8. QED
    BY <1>4, <1>5, <1>6, <1>7 DEF Handler

\* A job gives the slot back or keeps it.
LEMMA JobServes ==
  ASSUME KInv, JobStep
  PROVE  Polls' \in Nat /\ ServedWell
  <1>1. UNCHANGED <<limitVars, request, answer, wireVars>> /\ (locked' = FALSE \/ UNCHANGED locked)
    BY DEF JobStep, StartJob, Run, Finish
  <1>2. UNCHANGED Unread /\ UNCHANGED Polls
    BY <1>1 DEF Unread, Polls, limitVars
  <1>3. QED
    BY <1>1, <1>2, Counts DEF ServedWell, Untouched, limitVars

\* A poll that was given up on moves from the unread ones to the hits, or is gone.
LEMMA LateServes ==
  ASSUME KInv, NEW kind \in Kinds, ServeLate(kind)
  PROVE  Polls' \in Nat /\ ServedWell
  <1> USE Counts
  <1>1. /\ late[kind] > 0 /\ late' = [late EXCEPT ![kind] = @ - 1]
        /\ UNCHANGED <<request, answer>>
    BY DEF ServeLate
  <1>2. late \in [Kinds -> Nat] /\ kind \in {"health", "generate"}
    BY DEF KInv, SInv, ServerInv, ShapeInv, Kinds
  <1>3. late'["health"] \in Nat /\ late'["generate"] \in Nat
        /\ late'["health"] + late'["generate"] = late["health"] + late["generate"] - 1
    BY <1>1, <1>2 DEF Kinds
  <1>4. Len(hits') \in Nat /\ Len(hits') <= Len(hits) + 1
    <2>1. CASE CountHit
      BY <2>1, CountedHit
    <2>2. CASE UNCHANGED limitVars \/ hits' = Recent
      BY <2>2, RecentShorter DEF limitVars
    <2>3. QED
      BY <2>1, <2>2 DEF ServeLate
  <1>5. UNCHANGED Unread
    BY <1>1 DEF Unread
  <1>6. Polls' \in Nat /\ Polls' <= Polls
    <2>1. Unread' \in {0, 1} /\ Unread' = Unread
      BY <1>5
    <2> DEFINE g == Len(hits')
               h == late'["health"]
               k == late'["generate"]
               old == late["health"] + late["generate"]
    <2>2. Polls' = g + h + k + Unread'
      BY DEF Polls
    <2>3. Polls = Len(hits) + old + Unread /\ old \in Int
      BY DEF Polls
    <2>4. /\ g \in Nat /\ h \in Nat /\ k \in Nat
          /\ g <= Len(hits) + 1 /\ h + k = old - 1
      BY <1>3, <1>4
    <2> HIDE DEF g, h, k, old, Polls
    <2>5. g + h + k + Unread \in Nat
      BY <2>1, <2>4
    <2>6. g + (h + k) <= Len(hits) + old
      BY <2>3, <2>4
    <2>7. g + h + k + Unread <= Polls
      BY <2>3, <2>4, <2>6
    <2>8. QED
      BY <2>1, <2>2, <2>5, <2>7
  <1>7. ~ Untouched
    BY <1>1 DEF Untouched, NoneLate
  <1>8. QED
    BY <1>1, <1>6, <1>7 DEF ServedWell

\* Clients without the key leave nothing behind when they go.
LEMMA StrangerServes ==
  ASSUME KInv, Alone, NEW c \in Clients \ {Launcher},
         \/ Disconnect(c) \/ Abandon(c, HasKey(c)) \/ \E kind \in OtherKinds : Send(c, kind)
  PROVE  Polls' \in Nat /\ ServedWell
  <1>1. ~ HasKey(c)
    BY DEF HasKey, KInv, PollInv
  <1>2. UNCHANGED <<limitVars, late, locked>>
    BY <1>1 DEF Disconnect, Abandon, Send, slotVars
  <1>3. request'[Launcher] = request[Launcher] /\ answer'[Launcher] = answer[Launcher]
    BY Counts DEF Disconnect, Abandon, Send, Reply, KInv, SInv, ServerInv, ShapeInv
  <1>4. UNCHANGED Unread /\ UNCHANGED Polls
    BY <1>2, <1>3 DEF Unread, Polls, limitVars
  <1>5. QED
    BY <1>2, <1>3, <1>4, Counts DEF ServedWell, Untouched, limitVars

\* The server dies, and the next one starts from nothing.
LEMMA DyingClears ==
  ASSUME KInv, ServerDies
  PROVE  /\ Untouched' /\ request'[Launcher].stage = "idle"
         /\ answer'[Launcher] \in {answer[Launcher], "dropped"}
         /\ Polls' = 0 /\ UNCHANGED <<now, wake, why, editor>>
  <1>1. Untouched' /\ request'[Launcher].stage = "idle" /\ UNCHANGED <<now, wake, why, editor>>
    BY Counts DEF ServerDies, Untouched, Idle
  <1>2. answer'[Launcher] \in {answer[Launcher], "dropped"}
    BY Counts DEF ServerDies
  <1>3. Unread' = 0 /\ Len(hits') = 0 /\ late'["health"] = 0 /\ late'["generate"] = 0
    BY <1>1 DEF Unread, Untouched, NoneLate, Kinds
  <1>4. QED
    BY <1>1, <1>2, <1>3 DEF Polls

LEMMA DyingPolls ==
  ASSUME KInv, ServerDies, UNCHANGED launcher
  PROVE  PollInv'
  <1> USE Counts
  <1>1. /\ Untouched' /\ request'[Launcher].stage = "idle"
        /\ answer'[Launcher] \in {answer[Launcher], "dropped"}
        /\ Polls' = 0 /\ UNCHANGED <<now, wake, why, editor>>
    BY DyingClears
  <1>2. CASE launcher # "asking"
    BY <1>1, <1>2 DEF KInv, PollInv, Alone, NoSelfInflictedRefusal
  <1>3. CASE launcher = "asking"
    <2>1. AskingInv
      BY <1>3 DEF KInv, PollInv
    <2>2. AskingInv'
      <3>1. (wake >= Reading /\ wake <= now + Reading /\ wake < Patience + Reading)'
        BY <1>1, <2>1 DEF AskingInv, Reading, Patience
      <3>2. (Paid(Polls - 1, wake - Reading) \/ answer[Launcher] # "busy")'
        <4>1. CASE answer[Launcher] = "busy"
          <5>1. Paid(Polls - 1, wake - Reading)
            BY <2>1, <4>1 DEF AskingInv
          <5>2. Polls - 1 \in Int /\ wake - Reading \in Int /\ -1 <= Polls - 1
            BY Times
          <5> HIDE DEF Polls
          <5>3. Paid(-1, wake - Reading)
            BY <5>1, <5>2, PaidMore
          <5>4. QED
            BY <1>1, <5>3 DEF Paid, Reading
        <4>2. CASE answer[Launcher] # "busy"
          BY <1>1, <4>2
        <4>3. QED
          BY <4>1, <4>2
      <3>3. QED
        BY <1>1, <3>1, <3>2 DEF AskingInv
    <2>3. QED
      BY <1>1, <1>3, <2>2 DEF KInv, PollInv, Alone, NoSelfInflictedRefusal
  <1>4. QED
    BY <1>2, <1>3

\* The launcher sends a poll.
LEMMA AskedPoll ==
  ASSUME KInv, Poll
  PROVE  PollInv'
  <1> USE Counts
  <1>1. /\ launcher = "polling" /\ now < deadline /\ launcher' = "asking"
        /\ wake' = now + Reading /\ UNCHANGED <<now, why, editor, limitVars, locked, late>>
        /\ request[Launcher].stage = "idle"
        /\ request' = [request EXCEPT ![Launcher] = [stage |-> "sent", kind |-> "health"]]
        /\ answer' = [d \in Watched |-> IF d = Launcher THEN "none" ELSE answer[d]]
    BY DEF Poll, Send, Reading, slotVars
  <1>2. request'[Launcher].stage = "sent" /\ answer'[Launcher] = "none"
    BY <1>1 DEF KInv, SInv, ServerInv, ShapeInv
  <1>3. Unread = 0 /\ Unread' = 1
    BY <1>1, <1>2 DEF Unread
  <1>4. Polls' = Polls + 1
    BY <1>1, <1>3 DEF Polls, limitVars
  <1>5. Reading \in Nat /\ Patience \in Nat /\ deadline <= Patience /\ deadline \in Nat
    BY Times DEF KInv, TInv, TimeInv
  <1>6. (wake >= Reading /\ wake <= now + Reading /\ wake < Patience + Reading)'
    BY <1>1, <1>5 DEF Reading, Patience
  <1>7. Paid(Polls - 1, wake - Reading)' \/ (Polls' <= 1 /\ Untouched')
    <2>1. CASE Paid(Polls, now)
      <3>1. wake' - Reading = now /\ Polls' - 1 = Polls
        BY <1>1, <1>4, <1>5
      <3>2. Paid(Polls' - 1, wake' - Reading)
        BY <2>1, <3>1
      <3>3. QED
        BY <3>2 DEF Paid, Reading
    <2>2. CASE Untouched
      <3>1. Untouched'
        BY <1>1, <2>2 DEF Untouched, limitVars
      <3>2. Len(hits) = 0 /\ late["health"] = 0 /\ late["generate"] = 0
        BY <2>2 DEF Untouched, NoneLate, Kinds
      <3>3. Polls = 0
        BY <1>3, <3>2 DEF Polls
      <3>4. QED
        BY <1>4, <3>1, <3>3
    <2>3. QED
      BY <1>1, <2>1, <2>2 DEF KInv, PollInv
  <1>8. AskingInv'
    BY <1>2, <1>6, <1>7 DEF AskingInv
  <1>9. ~editor /\ why # "429"
    BY <1>1 DEF KInv, PollInv, Alone, NoSelfInflictedRefusal
  <1>10. QED
    BY <1>1, <1>2, <1>8, <1>9 DEF PollInv, Alone, NoSelfInflictedRefusal

\* It goes to sleep for a second after a poll.
LEMMA SleptPoll ==
  ASSUME KInv, Alone, SleepOneSecond, UNCHANGED <<now, why, editor>>,
         request'[Launcher].stage = "idle", answer'[Launcher] # "429",
         Untouched' \/ Paid(Polls', now + Ticks)
  PROVE  PollInv'
  <1>1. launcher' = "sleeping" /\ wake' = now + Ticks
    BY DEF SleepOneSecond
  <1>2. Untouched' \/ Paid(Polls, wake)'
    BY <1>1 DEF Paid, Reading
  <1>3. QED
    BY <1>1, <1>2 DEF KInv, PollInv, Alone, NoSelfInflictedRefusal

LEMMA TimedOutPoll ==
  ASSUME KInv, PollTimesOut
  PROVE  PollInv'
  <1> USE Counts
  <1>1. /\ launcher = "asking" /\ request[Launcher].stage # "idle" /\ now >= wake
        /\ Reply(Launcher, "dropped") /\ UNCHANGED <<now, why, editor, limitVars>>
        /\ SleepOneSecond
    BY DEF PollTimesOut, Disconnect, Abandon
  <1>2. request'[Launcher].stage = "idle" /\ answer'[Launcher] = "dropped"
    BY <1>1 DEF Reply, Idle, KInv, SInv, ServerInv, ShapeInv
  <1>3. Unread' = 0
    BY <1>2 DEF Unread
  <1>4. late \in [Kinds -> Nat] /\ request[Launcher].kind \in Kinds
    BY DEF KInv, SInv, ServerInv, ShapeInv
  <1>5. late'["health"] + late'["generate"] = late["health"] + late["generate"] + Unread
        /\ late'["health"] \in Nat /\ late'["generate"] \in Nat
    <2>1. CASE Disconnect(Launcher)
      BY <2>1 DEF Disconnect, Unread
    <2>2. CASE Abandon(Launcher, TRUE)
      <3>1. Unread = 1 /\ late' = [late EXCEPT ![request[Launcher].kind] = @ + 1]
        BY <2>2 DEF Abandon, Unread
      <3>2. QED
        BY <1>4, <3>1 DEF Kinds
    <2>3. QED
      BY <2>1, <2>2 DEF PollTimesOut
  <1>6. Polls' = Polls
    <2>1. Polls = Len(hits) + (late["health"] + late["generate"]) + Unread
      BY DEF Polls
    <2>2. Polls' = Len(hits) + (late'["health"] + late'["generate"]) + Unread'
      BY <1>1, <1>3, <1>5 DEF Polls, limitVars
    <2> HIDE DEF Polls
    <2>3. QED
      BY <1>3, <1>5, <2>1, <2>2
  <1>7. AskingInv /\ answer[Launcher] = "none"
    BY <1>1 DEF KInv, PollInv, Alone
  <1>8. Reading \in Nat /\ Ticks \in Nat
    BY Times
  <1>9. Paid(Polls, now + Ticks)
    <2>1. CASE Paid(Polls - 1, wake - Reading)
      <3>1. wake - Reading \in Int /\ wake - Reading <= now /\ Polls - 1 \in Int
        BY <1>1, <1>8
      <3> HIDE DEF Polls
      <3>2. Paid(Polls - 1, now)
        BY <2>1, <3>1, PaidMore
      <3>3. Paid((Polls - 1) + 1, now + Ticks) /\ (Polls - 1) + 1 = Polls
        BY <3>1, <3>2, PaidNext
      <3>4. QED
        BY <3>3
    <2>2. CASE Polls <= 1
      <3>1. Reading <= now
        BY <1>1, <1>7, <1>8 DEF AskingInv
      <3>2. Paid(0, now)
        BY <3>1, <1>8 DEF Paid
      <3>3. Paid(1, now + Ticks)
        BY <3>2, PaidNext
      <3> HIDE DEF Polls
      <3>4. now + Ticks \in Int
        BY <1>8
      <3>5. QED
        BY <2>2, <3>3, <3>4, PaidMore
    <2>3. QED
      BY <1>7, <2>1, <2>2 DEF AskingInv
  <1>10. QED
    BY <1>1, <1>2, <1>6, <1>9, SleptPoll DEF Alone

LEMMA BusyPoll ==
  ASSUME KInv, LearnBusy
  PROVE  PollInv'
  <1> USE Counts
  <1>1. /\ launcher = "asking" /\ answer[Launcher] = "busy" /\ SleepOneSecond
        /\ UNCHANGED <<now, why, editor, serverVars>>
    BY DEF LearnBusy
  <1>2. UNCHANGED <<request, answer, hits, late>> /\ UNCHANGED Polls
    BY <1>1 DEF serverVars, limitVars, Polls, Unread
  <1>3. AskingInv /\ request[Launcher].stage = "idle"
    BY <1>1 DEF KInv, PollInv, Alone
  <1>4. Paid(Polls - 1, wake - Reading) /\ wake - Reading \in Int /\ wake - Reading <= now
        /\ Polls - 1 \in Int
    BY <1>1, <1>3, Times DEF AskingInv
  <1>5. Paid(Polls - 1, now)
    <2> HIDE DEF Polls
    <2>1. QED
      BY <1>4, PaidMore
  <1>6. Paid(Polls, now + Ticks)
    <2>1. Paid((Polls - 1) + 1, now + Ticks) /\ (Polls - 1) + 1 = Polls
      BY <1>4, <1>5, PaidNext
    <2>2. QED
      BY <2>1
  <1>7. QED
    BY <1>1, <1>2, <1>3, <1>6, SleptPoll DEF Alone

\* A step that leaves the server alone, and the launcher where its wait is over.
LEMMA WaitIsOver ==
  ASSUME KInv, launcher' \notin {"begin", "polling", "asking", "sleeping"}, why' # "429"
  PROVE  PollInv'
  BY DEF PollInv, Alone, NoSelfInflictedRefusal

LEMMA PollKept ==
  ASSUME Timeout <= Limit + ReadTimeout
  PROVE  KInv /\ [Next]_vars => PollInv'
  <1> SUFFICES ASSUME KInv, [Next]_vars PROVE PollInv'
    OBVIOUS
  <1> USE Counts
  <1>1. CASE Refuse \/ GiveUp \/ NoticeExit \/ ServerStops \/ LeaveSession \/ Interrupt
             \/ LearnReady \/ LearnRefusal \/ Attach
    <2>1. KInv => why # "429" /\ (launcher = "asking" => answer[Launcher] # "429")
      BY DEF KInv, PollInv, Alone, NoSelfInflictedRefusal
    <2>2. why' # "429" /\ launcher' \notin {"begin", "polling", "asking", "sleeping"}
      BY <1>1, <2>1 DEF Refuse, GiveUp, NoticeExit, ServerStops, LeaveSession, Interrupt,
         LearnReady, LearnRefusal, Attach, Clean
    <2>3. QED
      BY <2>2, WaitIsOver
  <1>2. CASE Spawn \/ Wake
    <2>1. UNCHANGED <<now, serverVars, why, editor>> /\ launcher' = "polling"
          /\ (launcher = "begin" \/ (launcher = "sleeping" /\ now >= wake))
      BY <1>2 DEF Spawn, Wake
    <2>2. UNCHANGED <<request, answer, hits, late, locked>> /\ UNCHANGED Polls /\ UNCHANGED Untouched
      BY <2>1 DEF serverVars, limitVars, slotVars, Polls, Unread, Untouched
    <2>3. Untouched \/ Paid(Polls, now)
      BY <2>1, PaidMore DEF KInv, PollInv
    <2>4. Untouched' \/ Paid(Polls, now)'
      BY <2>1, <2>2, <2>3 DEF Paid, Reading
    <2>5. request[Launcher].stage = "idle" /\ ~editor /\ answer[Launcher] # "429" /\ why # "429"
      BY <2>1 DEF KInv, PollInv, Alone, NoSelfInflictedRefusal
    <2>6. QED
      BY <2>1, <2>2, <2>4, <2>5 DEF PollInv, Alone, NoSelfInflictedRefusal
  <1>3. CASE PollTooEarly \/ PollReset
    <2>1. SleepOneSecond /\ UNCHANGED <<now, serverVars, why, editor>>
          /\ (launcher = "polling" \/ (launcher = "asking" /\ answer[Launcher] = "dropped"))
      BY <1>3 DEF PollTooEarly, PollReset
    <2>2. UNCHANGED <<request, answer, hits, late, locked>> /\ UNCHANGED Polls /\ UNCHANGED Untouched
      BY <2>1 DEF serverVars, limitVars, slotVars, Polls, Unread, Untouched
    <2>3. Untouched \/ Paid(Polls, now)
      BY <2>1 DEF KInv, PollInv, AskingInv
    <2>4. Untouched' \/ Paid(Polls', now + Ticks)
      BY <2>2, <2>3, Times, PaidMore
    <2>5. Alone /\ request[Launcher].stage = "idle" /\ answer[Launcher] # "429"
      BY <2>1 DEF KInv, PollInv, Alone
    <2>6. QED
      BY <2>1, <2>2, <2>4, <2>5, SleptPoll
  <1>4. CASE Poll
    BY <1>4, AskedPoll
  <1>5. CASE PollTimesOut
    BY <1>5, TimedOutPoll
  <1>6. CASE LearnBusy
    BY <1>6, BusyPoll
  <1>7. CASE TakeDown \/ Crash
    BY <1>7, DyingPolls DEF TakeDown, Crash
  <1>8. CASE ServerRuns \/ ClientActs
    <2>1. UNCHANGED <<now, sessionVars>>
      BY <1>8 DEF ServerRuns, ClientActs
    <2>2. CASE ~Alone
      BY <2>1, <2>2 DEF sessionVars, KInv, PollInv, Alone, NoSelfInflictedRefusal
    <2>3. CASE Alone
      <3>1. Polls' \in Nat /\ ServedWell
        <4>1. CASE \E c \in Clients : Handler(c, HasKey(c))
          BY <2>3, <4>1, HandlerServes
        <4>2. CASE JobStep
          BY <4>2, JobServes
        <4>3. CASE \E kind \in Kinds : ServeLate(kind)
          BY <4>3, LateServes
        <4>4. CASE ClientActs
          BY <2>3, <4>4, StrangerServes DEF ClientActs
        <4>5. QED
          BY <1>8, <4>1, <4>2, <4>3, <4>4 DEF ServerRuns
      <3>2. QED
        BY <2>1, <2>3, <3>1, ServedKeeps
    <2>4. QED
      BY <2>2, <2>3
  <1>9. CASE Bind \/ ChangeFile \/ UNCHANGED vars
    <2>1. UNCHANGED <<now, launcher, wake, why, editor, request, answer, hits, late, locked>>
      BY <1>9 DEF Bind, ChangeFile, ReplaceFile, vars, serverVars, slotVars, limitVars, sessionVars
    <2>2. QED
      BY <2>1 DEF KInv, PollInv, AskingInv, Alone, Polls, Unread, Untouched, Paid, Reading, Patience,
         NoSelfInflictedRefusal
  <1>10. CASE Tick
    <2>1. UNCHANGED <<launcher, wake, why, editor, request, answer, hits, late, locked>>
          /\ now' = now + 1
      BY <1>10 DEF Tick, serverVars, slotVars, limitVars, sessionVars
    <2>2. UNCHANGED Polls /\ UNCHANGED Untouched
      BY <2>1 DEF Polls, Unread, Untouched
    <2>3. launcher = "polling" => Untouched' \/ Paid(Polls', now')
      BY <2>1, <2>2, PaidMore DEF KInv, PollInv
    <2>4. launcher = "sleeping" => Untouched' \/ Paid(Polls', wake')
      BY <2>1, <2>2 DEF KInv, PollInv
    <2>5. launcher = "asking" => AskingInv'
      BY <2>1, <2>2, Times DEF KInv, PollInv, AskingInv, Paid, Reading, Patience
    <2>6. launcher = "begin" => Untouched'
      BY <2>2 DEF KInv, PollInv
    <2>7. QED
      BY <2>1, <2>3, <2>4, <2>5, <2>6 DEF KInv, PollInv, Alone, Paid, Reading, NoSelfInflictedRefusal
  <1>11. QED
    BY <1>1, <1>2, <1>3, <1>4, <1>5, <1>6, <1>7, <1>8, <1>9, <1>10 DEF Next, LauncherStep

\* With room in the limit for the polls of one wait (60 and 60 in the code, where the
\* first takes 3 seconds and the others one each), start_nppai.py never gives up
\* because of a 429: not even when a server that stalled comes to all the polls it had
\* abandoned at once, each of which takes its hit.
THEOREM NeverSelfInflicted ==
  ASSUME Timeout <= Limit + ReadTimeout
  PROVE  Spec => []NoSelfInflictedRefusal
  <1>1. Init => ResultInv /\ PollInv
    <2> SUFFICES ASSUME Init PROVE ResultInv /\ PollInv
      OBVIOUS
    <2>1. /\ hits = <<>> /\ jobs = {} /\ late = NoneLate /\ locked = FALSE
          /\ launcher = "begin" /\ why = "none" /\ editor = FALSE
      BY DEF Init, ServerInit
    <2>2. request[Launcher].stage = "idle" /\ answer[Launcher] = "none"
      BY SessionConstants, AdmissionConstants DEF Init, ServerInit, Idle
    <2>3. QED
      BY <2>1, <2>2 DEF ResultInv, PollInv, Alone, Untouched, NoSelfInflictedRefusal
  <1>2. SInv /\ RInv /\ TInv /\ ResultInv /\ PollInv /\ [Next]_vars => (ResultInv /\ PollInv)'
    BY ResultKept, PollKept DEF KInv
  <1>3. PollInv => NoSelfInflictedRefusal
    BY DEF PollInv
  <1>4. QED
    BY <1>1, <1>2, <1>3, RateInvariant, SessionInvariant, TypeInvariant, PTL DEF Spec

=============================================================================
