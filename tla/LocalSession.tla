---------------------------- MODULE LocalSession ----------------------------
(***************************************************************************)
(* scripts/start_nppai.py: the launcher that starts the inference server   *)
(* under a fresh session key, polls its health endpoint until the model    *)
(* is loaded, starts an editor that inherits the key, and takes the server *)
(* down again; composed with the server of InferenceAdmission.  Requests   *)
(* of the launcher and of the editor carry the session key, requests of    *)
(* strangers do not.                                                       *)
(*                                                                         *)
(* The checks of connection_environment and of the editor's path precede   *)
(* everything else and are one refusal.  The profile that run() compares   *)
(* with the health answer is the one it put in the server's environment,   *)
(* so the comparison cannot fail and is left out.                          *)
(***************************************************************************)
EXTENDS InferenceAdmission

CONSTANTS
  Launcher, Editor,   \* the two clients that have the key
  Timeout,            \* seconds wait_ready polls for, 60 in the code
  ReadTimeout,        \* seconds a poll may take, 2 in the code
  OtherKinds,         \* what clients other than the launcher ask for
  MaxTime             \* bound: the clock stops here, except to end a sleep or what wait_ready does

ASSUME SessionConstants ==
  /\ Launcher \in Watched /\ Editor \in Clients /\ OtherKinds \subseteq Kinds
  /\ Timeout \in Nat \ {0} /\ ReadTimeout \in Nat \ {0} /\ MaxTime \in Nat

VARIABLES
  server,     \* the uvicorn process
  launcher,   \* where run() stands
  wake,       \* when the sleep, or the poll under way, is over; 0 without either
  deadline,   \* of wait_ready
  why,        \* how the session ended
  ready,      \* model_id of the health answer, or "none"
  editor      \* Notepad++ runs with the session's environment

sessionVars == <<server, launcher, wake, deadline, why, ready, editor>>
vars == <<now, serverVars, sessionVars>>

Servers == {"absent", "starting", "up", "exited"}
Places  == {"begin", "polling", "asking", "sleeping", "launching", "attached", "cleaning", "ended"}
Reasons == {"none", "refused", "timeout", "exited", "interrupt", "stopped"} \cup Answers

\* A last poll may begin just before the deadline.
LastTime == (IF MaxTime > Timeout * Ticks THEN MaxTime ELSE Timeout * Ticks) + (ReadTimeout + 1) * Ticks

SessionTypeOK ==
  /\ ServerTypeOK
  /\ now \in 0..LastTime
  /\ server \in Servers /\ launcher \in Places
  /\ wake \in 0..LastTime /\ deadline \in 0..(Timeout * Ticks)
  /\ why \in Reasons /\ ready \in {"none"} \cup Models
  /\ editor \in BOOLEAN

Init ==
  /\ ServerInit
  /\ now = 0
  /\ server = "absent" /\ launcher = "begin"
  /\ wake = 0 /\ deadline = 0 /\ why = "none" /\ ready = "none"
  /\ editor = FALSE

Clean(reason) == launcher' = "cleaning" /\ why' = reason /\ wake' = 0

\* (bug variant) the next poll follows at once.
SleepNot == launcher' = "sleeping" /\ wake' = now

SleepOneSecond == launcher' = "sleeping" /\ wake' = now + Ticks

-----------------------------------------------------------------------------
\* The launcher

\* No such model or editor, a bad port, or a port that answers already.
Refuse ==
  /\ launcher = "begin"
  /\ launcher' = "ended" /\ why' = "refused"
  /\ UNCHANGED <<now, serverVars, server, wake, deadline, ready, editor>>

Spawn ==
  /\ launcher = "begin"
  /\ server' = "starting" /\ launcher' = "polling"
  /\ deadline' = now + Timeout * Ticks
  /\ UNCHANGED <<now, serverVars, wake, why, ready, editor>>

GiveUp ==
  /\ launcher = "polling" /\ now >= deadline
  /\ Clean("timeout")
  /\ UNCHANGED <<now, serverVars, server, deadline, ready, editor>>

\* wait_ready's look at server.poll().
NoticeExit ==
  /\ launcher = "polling" /\ now < deadline /\ server = "exited"
  /\ Clean("exited")
  /\ UNCHANGED <<now, serverVars, server, deadline, ready, editor>>

\* Nothing listens yet: URLError.
PollTooEarly ==
  /\ launcher = "polling" /\ now < deadline /\ server = "starting"
  /\ SleepOneSecond
  /\ UNCHANGED <<now, serverVars, server, deadline, why, ready, editor>>

Poll ==
  /\ launcher = "polling" /\ now < deadline /\ server = "up"
  /\ Send(Launcher, "health")
  /\ launcher' = "asking" /\ wake' = now + ReadTimeout * Ticks
  /\ UNCHANGED <<now, server, deadline, why, ready, editor>>

\* (bug variant) ready is what the environment names, not what the server reports.
LearnConfigured ==
  /\ launcher = "asking" /\ answer[Launcher] = "ok"
  /\ launcher' = "launching" /\ ready' = file /\ wake' = 0
  /\ UNCHANGED <<now, serverVars, server, deadline, why, editor>>

\* readiness() has a valid answer: the model it names is loaded.
LearnReady ==
  /\ launcher = "asking" /\ answer[Launcher] = "ok"
  /\ launcher' = "launching" /\ ready' = backend /\ wake' = 0
  /\ UNCHANGED <<now, serverVars, server, deadline, why, editor>>

\* 503 "Inference is busy": an earlier poll is still loading the model.
LearnBusy ==
  /\ launcher = "asking" /\ answer[Launcher] = "busy"
  /\ SleepOneSecond
  /\ UNCHANGED <<now, serverVars, server, deadline, why, ready, editor>>

\* Any other status ends the wait.
LearnRefusal ==
  /\ launcher = "asking" /\ answer[Launcher] \in Answers \ {"none", "ok", "busy", "dropped"}
  /\ Clean(answer[Launcher])
  /\ UNCHANGED <<now, serverVars, server, deadline, ready, editor>>

\* No answer within ReadTimeout: the launcher closes the connection, but the
\* request stays with the server, read or unread.
PollTimesOut ==
  /\ launcher = "asking" /\ request[Launcher].stage # "idle" /\ now >= wake
  /\ Disconnect(Launcher) \/ Abandon(Launcher, TRUE)
  /\ SleepOneSecond
  /\ UNCHANGED <<now, server, deadline, why, ready, editor>>

\* The connection was reset: the server died with the poll under way.
PollReset ==
  /\ launcher = "asking" /\ answer[Launcher] = "dropped"
  /\ SleepOneSecond
  /\ UNCHANGED <<now, serverVars, server, deadline, why, ready, editor>>

Wake ==
  /\ launcher = "sleeping" /\ now >= wake
  /\ launcher' = "polling" /\ wake' = 0
  /\ UNCHANGED <<now, serverVars, server, deadline, why, ready, editor>>

\* With or without --notepad; then server.wait().
Attach ==
  /\ launcher = "launching"
  /\ launcher' = "attached" /\ editor' \in BOOLEAN
  /\ UNCHANGED <<now, serverVars, server, wake, deadline, why, ready>>

ServerStops ==
  /\ launcher = "attached" /\ server = "exited"
  /\ Clean("stopped")
  /\ UNCHANGED <<now, serverVars, server, deadline, ready, editor>>

Interrupt ==
  /\ launcher \in {"polling", "asking", "sleeping", "launching", "attached"}
  /\ Clean("interrupt")
  /\ UNCHANGED <<now, serverVars, server, deadline, ready, editor>>

\* Every request and job of the process is gone with it.
ServerDies ==
  /\ server' = "exited"
  /\ backend' = "none" /\ locked' = FALSE /\ jobs' = {}
  /\ hits' = <<>> /\ through' = <<>> /\ refusal' = NoRefusal
  /\ request' = [c \in Clients |-> Idle]
  /\ late' = NoneLate
  /\ answer' = [c \in Watched |-> IF request[c].stage = "idle" THEN answer[c] ELSE "dropped"]
  /\ UNCHANGED <<now, file, sent, wake, deadline, why, ready, editor>>

\* (bug variant) only a server that was seen to listen is terminated.
TakeDownListening ==
  /\ launcher = "cleaning" /\ server = "up"
  /\ ServerDies /\ UNCHANGED launcher

\* run()'s finally clause: terminate, and kill after five seconds.
TakeDown ==
  /\ launcher = "cleaning" /\ server # "exited"
  /\ ServerDies /\ UNCHANGED launcher

LeaveSession ==
  /\ launcher = "cleaning" /\ server = "exited"
  /\ launcher' = "ended"
  /\ UNCHANGED <<now, serverVars, server, wake, deadline, why, ready, editor>>

LauncherStep ==
  \/ GiveUp \/ NoticeExit \/ PollTooEarly \/ Poll \/ LearnReady \/ LearnBusy \/ LearnRefusal
  \/ PollTimesOut \/ PollReset \/ Wake \/ Attach \/ ServerStops \/ TakeDown \/ LeaveSession

-----------------------------------------------------------------------------
\* The server process and the rest of the world

Bind ==
  /\ server = "starting" /\ server' = "up"
  /\ UNCHANGED <<now, serverVars, launcher, wake, deadline, why, ready, editor>>

\* A missing dependency, a port lost to another process, a crash.
Crash == server \in {"starting", "up"} /\ ServerDies /\ UNCHANGED launcher

HasKey(c) == c = Launcher \/ (c = Editor /\ editor)

ServerRuns ==
  /\ server = "up"
  /\ \/ \E c \in Clients : Handler(c, HasKey(c))
     \/ JobStep
     \/ \E kind \in Kinds : ServeLate(kind)
  /\ UNCHANGED <<now, sessionVars>>

ClientActs ==
  /\ server = "up"
  /\ \E c \in Clients \ {Launcher} : Disconnect(c) \/ Abandon(c, HasKey(c)) \/ \E kind \in OtherKinds : Send(c, kind)
  /\ UNCHANGED <<now, sessionVars>>

ChangeFile ==
  /\ server \in {"starting", "up"}
  /\ ReplaceFile
  /\ UNCHANGED <<now, sessionVars>>

Tick ==
  /\ server # "absent" /\ launcher # "ended"
  /\ \/ now < MaxTime
     \/ launcher \in {"asking", "sleeping"} /\ now < wake
     \/ launcher = "polling" /\ now < deadline
  /\ now' = now + 1
  /\ UNCHANGED <<serverVars, sessionVars>>

Next == Refuse \/ Spawn \/ LauncherStep \/ Interrupt \/ Bind \/ Crash \/ ServerRuns \/ ClientActs
        \/ ChangeFile \/ Tick

\* The launcher is one thread, and time passes.  The server is owed nothing:
\* it may never come up, and a load may take for ever.
Spec == Init /\ [][Next]_vars /\ WF_vars(LauncherStep) /\ WF_vars(Tick)

-----------------------------------------------------------------------------
\* Properties

\* The editor is started for a server that has the announced checkpoint loaded
\* and, whatever happens to the file, goes on serving that one.
EditorHasItsModel ==
  (launcher \in {"launching", "attached"} /\ server = "up") => ready # "none" /\ backend = ready

\* The launcher's own polls never bring it to the server's rate limit, even if a
\* server that stalled reads all those it had given up on at once: as long as
\* Timeout <= Limit + ReadTimeout (60 <= 62 in the code), no more of them fit into
\* the wait than the limit lets through, because the one that begins the load is
\* waited for before the others are told, a second apart, that the server is busy.
NoSelfInflictedRefusal == why # "429"

\* However slow the server is, the launcher decides, and leaves no server behind.
SessionDecides == launcher = "polling" ~> (launcher = "attached" \/ (launcher = "ended" /\ server = "exited"))
=============================================================================
