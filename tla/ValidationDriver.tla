--------------------------- MODULE ValidationDriver ---------------------------
(***************************************************************************)
(* One validation of a candidate at a time.  The plugin's wrapper          *)
(* (PythonValidationProcess::run) runs the helper sandbox_validate.py in a *)
(* job; the helper's validate() runs a container through the docker        *)
(* command line; a supervisor in the container runs the authored cases.    *)
(* Others call validate() directly.  Each layer has a deadline of its own, *)
(* and a deadline may strike at any moment here.                           *)
(*                                                                         *)
(* What the command line hands out is a sequence of pieces: the receipt,   *)
(* noise (a traceback, a warning) or a flood beyond 16384 bytes.  Docker   *)
(* creates the container at the command line's request, and starts it at   *)
(* another; a request under way outlives the command line.                 *)
(***************************************************************************)
EXTENDS Integers, Sequences

CONSTANTS Cases          \* the number of authored test cases

CaseCounts == 1..100
ASSUME CasesAreConfigured == Cases \in CaseCounts

VARIABLES
  call,        \* who called ("plugin" or "control"), with which candidate, for which phase
  stopAsked,   \* cancelled(), the plugin's flag
  cancelFile,  \* the file that tells the helper to stop
  wrapper,     \* at "idle", "waiting" or "stopping" (byUser: stopped by the user); its result
  helper,      \* where the helper stands, and its exit code
  cli,         \* the docker process: "none", "up", or its exit code: "zero", "one", "docker" (125..127), "other"
  box,         \* the container: "none", "asked", "made", "running", "over", "gone"
  judged,      \* the supervisor's account: the steps done, and its exit code
  pipe, text, overflow,    \* on the way to the helper's reader; what it has kept; Event overflow
  removed      \* history: docker rm was carried out

stopping == <<stopAsked, cancelFile>>
docker   == <<cli, box, judged>>
output   == <<pipe, text, overflow>>
driver   == <<call, stopping, wrapper, helper, docker, output, removed>>

Good == 0  Failed == 1  Unavailable == 2  Cancelled == 3  None == 4     \* exit codes
Codes == {"right", "wrong", "any"}     \* two controls with known answers; a generated candidate
NoCall == [by |-> "nobody", code |-> "any", phase |-> "syntax"]
Unjudged == [done |-> 0, exit |-> "none"]

IdleWrapper == [at |-> "idle", byUser |-> FALSE, result |-> None]
NoHelper == [at |-> "none", exit |-> None]

DriverInit ==
  /\ call = NoCall /\ stopAsked = FALSE /\ cancelFile = FALSE
  /\ wrapper = IdleWrapper /\ helper = NoHelper
  /\ cli = "none" /\ box = "none" /\ judged = Unjudged
  /\ pipe = <<>> /\ text = <<>> /\ overflow = FALSE /\ removed = FALSE

(* -------------------------------- callers ------------------------------ *)
Free == call = NoCall
Answered == ~Free /\ helper.at \in {"none", "ended", "killed"} /\ wrapper.at = "idle"

CallDirectly(code, phase) ==       \* validate() without a cancel file
  /\ Free
  /\ call' = [by |-> "control", code |-> code, phase |-> phase]
  /\ helper' = [NoHelper EXCEPT !.at = "ready"]
  /\ UNCHANGED <<stopping, wrapper, docker, output, removed>>

RunWrapper(code, phase) ==         \* PythonValidationProcess::run
  /\ Free
  /\ call' = [by |-> "plugin", code |-> code, phase |-> phase]
  /\ \/ /\ stopAsked
        /\ wrapper' = [IdleWrapper EXCEPT !.result = Cancelled]
        /\ UNCHANGED helper
     \/ /\ ~stopAsked              \* a pipe, a job or the process cannot be made
        /\ wrapper' = [IdleWrapper EXCEPT !.result = Unavailable]
        /\ UNCHANGED helper
     \/ /\ ~stopAsked
        /\ wrapper' = [IdleWrapper EXCEPT !.at = "waiting"]
        /\ helper' = [NoHelper EXCEPT !.at = "start"]
  /\ UNCHANGED <<stopping, docker, output, removed>>

(* The caller takes the answer.  Names and directories are of one call: what *)
(* it left behind is out of sight.                                         *)
TakeAnswer ==
  /\ Answered
  /\ call' = NoCall /\ cancelFile' = FALSE
  /\ wrapper' = IdleWrapper /\ helper' = NoHelper
  /\ cli' = "none" /\ box' = "none" /\ judged' = Unjudged
  /\ pipe' = <<>> /\ text' = <<>> /\ overflow' = FALSE /\ removed' = FALSE
  /\ UNCHANGED stopAsked

(* -------------------------------- wrapper ------------------------------ *)
Over == helper.at = "ended"

StopHelper ==          \* the user, 35 s or too much output
  /\ wrapper.at = "waiting" /\ ~Over
  /\ wrapper' = [wrapper EXCEPT !.at = "stopping", !.byUser = stopAsked]
  /\ cancelFile' = TRUE
  /\ UNCHANGED <<call, stopAsked, helper, docker, output, removed>>

KillHelper ==          \* 10 s later: the job ends with all its processes, no cleanup runs
  /\ wrapper.at = "stopping" /\ ~Over
  /\ wrapper' = [wrapper EXCEPT !.at = "idle", !.result = IF wrapper.byUser THEN Cancelled ELSE Unavailable]
  /\ helper' = [helper EXCEPT !.at = "killed"]
  /\ cli' = IF cli = "up" THEN "other" ELSE cli
  /\ UNCHANGED <<call, stopping, box, judged, output, removed>>

WrapperResult ==
  IF wrapper.byUser \/ stopAsked THEN Cancelled
  ELSE IF wrapper.at = "stopping" THEN Unavailable ELSE helper.exit

CollectHelper ==
  /\ wrapper.at # "idle" /\ Over
  /\ wrapper' = [wrapper EXCEPT !.at = "idle", !.result = WrapperResult]
  /\ UNCHANGED <<call, stopping, helper, docker, output, removed>>

(* -------------------------------- validate ----------------------------- *)
Ends(code) == helper' = [at |-> "ended", exit |-> code]

ReadRequest ==         \* main(): the source and the cases; ValueError or OSError
  /\ helper.at = "start"
  /\ helper' = [helper EXCEPT !.at = "ready"] \/ Ends(Unavailable)
  /\ UNCHANGED <<call, stopping, wrapper, docker, output, removed>>

RefuseContainer ==     \* an image or a host that is not local, a candidate too large; or no docker
  /\ helper.at = "ready"
  /\ Ends(Unavailable)
  /\ UNCHANGED <<call, stopping, wrapper, docker, output, removed>>

StartContainer ==
  /\ helper.at = "ready"
  /\ \/ /\ cancelFile
        /\ Ends(Cancelled)
        /\ UNCHANGED <<cli, box>>
     \/ /\ ~cancelFile
        /\ cli' = "up" /\ box' = "asked"
        /\ \/ helper' = [helper EXCEPT !.at = "polling"]
           \/ helper' = [at |-> "killing", exit |-> Failed]      \* a thread cannot be started: python exits with 1
  /\ UNCHANGED <<call, stopping, wrapper, judged, output, removed>>

Poll ==
  /\ helper.at = "polling"
  /\ \/ /\ cli # "up"
        /\ helper' = [helper EXCEPT !.at = "judging"]
     \/ /\ cli = "up" /\ cancelFile
        /\ helper' = [at |-> "killing", exit |-> Cancelled]
     \/ /\ cli = "up" /\ ~cancelFile       \* overflow, or the deadline
        /\ helper' = [at |-> "killing", exit |-> Failed]
  /\ UNCHANGED <<call, stopping, wrapper, docker, output, removed>>

ReadOutput ==          \* the reader thread
  /\ pipe # <<>>
  /\ text' = Append(text, IF Head(pipe) = "flood" THEN "noise" ELSE Head(pipe))
  /\ overflow' = (overflow \/ Head(pipe) = "flood")
  /\ pipe' = Tail(pipe)
  /\ UNCHANGED <<call, stopping, wrapper, helper, docker, removed>>

(* (bug variant) The exit code alone decides. *)
VerdictByExitCode ==
  IF cli = "zero" THEN Good ELSE IF cli = "docker" THEN Unavailable ELSE Failed

Verdict ==
  IF cli = "zero" /\ text = <<"receipt">> /\ ~overflow THEN Good
  ELSE IF cli = "docker" THEN Unavailable ELSE Failed

Judge ==               \* after the threads are joined: with the command line gone the reader soon is at the end
  /\ helper.at = "judging" /\ pipe = <<>>
  /\ helper' = [at |-> "killing", exit |-> Verdict]
  /\ UNCHANGED <<call, stopping, wrapper, docker, output, removed>>

KillCli ==
  /\ helper.at = "killing"
  /\ helper' = [helper EXCEPT !.at = "removing"]
  /\ cli' = IF cli = "up" THEN "other" ELSE cli
  /\ UNCHANGED <<call, stopping, wrapper, box, judged, output, removed>>

RemoveContainer ==     \* docker rm -f; whether it works is not looked at
  /\ helper.at = "removing"
  /\ helper' = [helper EXCEPT !.at = "ended"]
  /\ \/ /\ box' = IF box = "asked" THEN box ELSE "gone"
        /\ removed' = TRUE
     \/ UNCHANGED <<box, removed>>
  /\ UNCHANGED <<call, stopping, wrapper, cli, judged, output>>

(* --------------------------------- docker ------------------------------ *)
Emit(pieces) == pipe' = pipe \o pieces

CreateContainer ==
  /\ box = "asked"
  /\ \/ box' = "made" /\ UNCHANGED <<cli, pipe>>
     \/ /\ cli = "up"
        /\ box' = "none" /\ cli' = "docker" /\ Emit(<<"noise">>)
  /\ UNCHANGED <<call, stopping, wrapper, helper, judged, text, overflow, removed>>

RunContainer ==
  /\ box = "made" /\ cli = "up"
  /\ box' = "running"
  /\ UNCHANGED <<call, stopping, wrapper, helper, cli, judged, output, removed>>

LoseDocker ==          \* the command line ends without the container's exit code
  /\ cli = "up"
  /\ cli' \in {"zero", "one", "docker"}
  /\ UNCHANGED <<call, stopping, wrapper, helper, box, judged, output, removed>>

EndCli ==
  /\ cli = "up" /\ box = "over"
  /\ cli' = judged.exit /\ box' = "gone"
  /\ UNCHANGED <<call, stopping, wrapper, helper, judged, output, removed>>

(* ------------------------------ supervisor ----------------------------- *)
Todo == IF call.phase = "syntax" THEN 1 ELSE Cases + 1     \* compile, then the cases
MayPass(code, step) == code = "wrong" => step < Todo       \* it answers some cases right, the last one not
MayFail(code, step) == code = "any" \/ (code = "wrong" /\ step > 1)
Warnings == IF call.code = "any" /\ judged.done = 0 THEN {<<>>, <<"noise">>, <<"flood">>} ELSE {<<>>}

Supervise ==          \* with the command line gone the rest of its work is of no account
  /\ box = "running" /\ cli = "up"
  /\ LET step == judged.done + 1 IN
     \/ /\ step <= Todo /\ MayPass(call.code, step)          \* compiled, or the case has the right answer
        /\ judged' = [judged EXCEPT !.done = step]
        /\ box' = box
        /\ \E said \in Warnings : Emit(said)
     \/ /\ step <= Todo /\ MayFail(call.code, step)          \* a syntax error, another answer, an exception, 2 s
        /\ judged' = [judged EXCEPT !.exit = "one"]
        /\ box' = "over"
        /\ \E said \in {"noise", "flood"} : Emit(<<said>>)
     \/ /\ step > Todo
        /\ judged' = [judged EXCEPT !.exit = "zero"]
        /\ box' = "over"
        /\ Emit(<<"receipt">>)
     \/ /\ judged' = [judged EXCEPT !.exit = "other"]           \* the container is out of memory
        /\ box' = "over" /\ pipe' = pipe
  /\ UNCHANGED <<call, stopping, wrapper, helper, cli, text, overflow, removed>>

AskToStop ==           \* the plugin's worker is told to stop
  /\ call.by = "plugin" /\ ~stopAsked
  /\ stopAsked' = TRUE
  /\ UNCHANGED <<call, cancelFile, wrapper, helper, docker, output, removed>>

(* The plugin's process ends: the job ends with it, and the helper's       *)
(* cleanup does not run.                                                   *)
PluginEnds ==
  /\ helper' = IF call.by = "plugin" /\ ~Over THEN [helper EXCEPT !.at = "killed"] ELSE helper
  /\ cli' = IF call.by = "plugin" /\ cli = "up" THEN "other" ELSE cli
  /\ wrapper' = [wrapper EXCEPT !.at = "idle"]
  /\ UNCHANGED <<call, stopping, box, judged, output, removed>>

DriverNext ==
  \/ StopHelper \/ KillHelper \/ CollectHelper
  \/ ReadRequest \/ RefuseContainer \/ StartContainer \/ Poll \/ ReadOutput \/ Judge \/ KillCli \/ RemoveContainer
  \/ CreateContainer \/ RunContainer \/ LoseDocker \/ EndCli \/ Supervise

(* ------------------------------ properties ----------------------------- *)
Passed == helper.exit = Good \/ wrapper.result = Good
Proven == judged.exit = "zero" /\ judged.done = Todo

(* A validation passes only if the supervisor of this very call has run     *)
(* every case, whatever the candidate printed, and however docker, the     *)
(* deadlines and the stop fell in between; "cancelled" is said only if     *)
(* somebody cancelled; and once the helper has carried out its cleanup the *)
(* candidate no longer runs, nor ever will, even if the container was      *)
(* still being created.                                                    *)
VerdictIsEarned ==
  /\ Passed => Proven
  /\ wrapper.result = Cancelled => stopAsked
  /\ removed /\ helper.at = "ended" => box # "running"
===============================================================================
