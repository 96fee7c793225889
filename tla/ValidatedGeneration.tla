------------------------ MODULE ValidatedGeneration ------------------------
(***************************************************************************)
(* ValidatedGeneration::run with the BoundedRepairLoop and the             *)
(* AgentFeedbackLoop it drives: draw a candidate, check its syntax, run    *)
(* the authored tests, feed a failure back to the model, at most           *)
(* MaxAttempts times.  The model backend and the validator are callbacks   *)
(* that may answer anything; a stop request may arrive between any two     *)
(* steps, because the cancelled() predicate reads flags that another       *)
(* thread sets.                                                            *)
(*                                                                         *)
(* A reply is named by the document text it is spliced into: the text      *)
(* before and after the selection is fixed for the whole run.              *)
(***************************************************************************)
EXTENDS Naturals, Sequences, FiniteSets

CONSTANTS
  Snippets,     \* non-empty replies, named by the text they produce
  TooBig,       \* those whose text exceeds 128 KiB, 512 lines or holds a NUL
  SameAsBefore, \* those whose line diff against the original is empty
  NoCode,       \* the empty reply
  NoText,       \* no proposal, no patch
  MaxAttempts   \* candidates per run: 3 in the code

ASSUME ConstantsAssumption ==
  /\ TooBig \subseteq Snippets
  /\ SameAsBefore \subseteq Snippets
  /\ NoCode \notin Snippets
  /\ NoText \notin Snippets
  /\ MaxAttempts \in Nat \ {0}

VARIABLES
  pc,             \* where run() stands
  request,        \* the captured request
  stopRequested,  \* cancelled() would answer true; it never turns false again
  force,          \* forceOnline of the next candidate
  online,         \* backend of the current candidate
  proposed, validSnapshot,
  attempt, history,                      \* BoundedRepairLoop's own record
  validations, failures, localFailures,  \* what run() counts itself
  result,         \* ValidatedGenerationResult
  log             \* one entry per reply: where it came from, how it fared

vars == <<pc, request, stopRequested, force, online, proposed, validSnapshot,
          attempt, history, validations, failures, localFailures, result, log>>
counters == <<attempt, history, validations, failures, localFailures>>
snapshot == <<online, proposed, validSnapshot>>

Exit    == {"passed", "failed", "unavailable", "cancelled", "threw"}
Backend == {"local", "online"}
Calls   == {"generating", "checking", "testing"}  \* a callback is running

NoResult == [succeeded |-> FALSE, exhausted |-> FALSE, attempts |-> 0,
             history |-> <<>>, blocked |-> FALSE, cancelled |-> FALSE,
             patch |-> NoText]

Ready(r) ==
  /\ r.succeeded /\ ~r.blocked /\ ~r.cancelled
  /\ r.patch # NoText /\ r.patch \notin SameAsBefore

-----------------------------------------------------------------------------
Init ==
  /\ pc = "start"
  /\ request \in [fits : BOOLEAN, selection : BOOLEAN, escalation : BOOLEAN]
  /\ stopRequested = FALSE
  /\ force = FALSE /\ online = FALSE
  /\ proposed = NoText /\ validSnapshot = FALSE
  /\ attempt = 0 /\ history = <<>>
  /\ validations = 0 /\ failures = <<>> /\ localFailures = 0
  /\ result = NoResult
  /\ log = <<>>

\* The patch is built from the last proposal whose size was accepted.
Patch == IF validSnapshot' THEN proposed' ELSE NoText

\* The catch blocks of run(): its own counters replace the loop's.
Abort(cancelled) ==
  /\ pc' = "done"
  /\ result' = [NoResult EXCEPT !.attempts = validations', !.history = failures',
                                !.blocked = ~cancelled, !.cancelled = cancelled,
                                !.patch = Patch]

\* BoundedRepairLoop::run returned: on success, or with its attempts used up.
LoopReturns(succeeded) ==
  /\ pc' = "done"
  /\ result' = [NoResult EXCEPT !.succeeded = succeeded, !.exhausted = ~succeeded,
                                !.attempts = attempt, !.history = history',
                                !.patch = Patch]

Goto(label) == pc' = label /\ UNCHANGED result

-----------------------------------------------------------------------------
\* checkSize(original) and the selection test
Start ==
  /\ pc = "start"
  /\ UNCHANGED <<request, stopRequested, force, snapshot, counters, log>>
  /\ IF request.fits /\ request.selection THEN Goto("generate") ELSE Abort(FALSE)

\* candidate(): stop(), then the model is called
CallGenerate ==
  /\ pc = "generate"
  /\ UNCHANGED <<request, stopRequested, force, snapshot, counters, log>>
  /\ IF stopRequested THEN Abort(TRUE) ELSE Goto("generating")

\* (bug variant) the reply is spliced in before it is tested for emptiness
GenerateReturnsSplicedFirst(reply, backend) ==
  /\ pc = "generating" /\ ~stopRequested
  /\ UNCHANGED <<request, stopRequested, force, counters>>
  /\ online' = (backend = "online")
  /\ log' = Append(log, [text |-> reply, backend |-> backend, forced |-> force,
                         syntax |-> "none", tests |-> "none"])
  /\ proposed' = reply
  /\ validSnapshot' = (reply \notin TooBig)
  /\ IF reply = NoCode \/ reply \in TooBig THEN Abort(FALSE) ELSE Goto("syntax")

\* candidate() after generate(): stop(), record the backend, splice, check the
\* size.  An empty reply leaves the previous snapshot standing.
GenerateReturns(reply, backend) ==
  /\ pc = "generating"
  /\ UNCHANGED <<request, stopRequested, force, counters>>
  /\ IF stopRequested
     THEN UNCHANGED <<snapshot, log>> /\ Abort(TRUE)
     ELSE /\ online' = (backend = "online")
          /\ log' = Append(log, [text |-> reply, backend |-> backend, forced |-> force,
                                 syntax |-> "none", tests |-> "none"])
          /\ proposed' = IF reply = NoCode THEN proposed ELSE reply
          /\ validSnapshot' = IF reply = NoCode THEN validSnapshot ELSE reply \notin TooBig
          /\ IF reply = NoCode \/ reply \in TooBig THEN Abort(FALSE) ELSE Goto("syntax")

\* generateCode throws: no backend, a protocol error, an empty completion...
GenerateThrows ==
  /\ pc = "generating"
  /\ UNCHANGED <<request, stopRequested, force, snapshot, counters, log>>
  /\ Abort(FALSE)

-----------------------------------------------------------------------------
\* The loop counts the attempt, then command(false) runs: stop(), count, validate
CallSyntax ==
  /\ pc = "syntax"
  /\ UNCHANGED <<request, stopRequested, force, snapshot, history, failures, localFailures, log>>
  /\ attempt' = attempt + 1
  /\ IF stopRequested
     THEN UNCHANGED validations /\ Abort(TRUE)
     ELSE validations' = validations + 1 /\ Goto("checking")

\* (bug variant) the test phase counts as a validation of its own
CallTestsCounted ==
  /\ pc = "tests"
  /\ UNCHANGED <<request, stopRequested, force, snapshot, attempt, history, failures,
                 localFailures, log>>
  /\ validations' = validations + 1
  /\ IF stopRequested THEN Abort(TRUE) ELSE Goto("testing")

\* (bug variant) the test phase starts without asking cancelled()
CallTestsUnasked ==
  /\ pc = "tests"
  /\ UNCHANGED <<request, stopRequested, force, snapshot, counters, log>>
  /\ Goto("testing")

\* command(true): stop(), then the validator's test phase
CallTests ==
  /\ pc = "tests"
  /\ UNCHANGED <<request, stopRequested, force, snapshot, counters, log>>
  /\ IF stopRequested THEN Abort(TRUE) ELSE Goto("testing")

\* (bug variant) the attempt limit is off by one
FailAttemptOnceMore ==
  /\ failures' = Append(failures, validations)
  /\ history' = Append(history, attempt)
  /\ IF attempt <= MaxAttempts THEN Goto("repair") ELSE LoopReturns(FALSE)

\* A phase that does not pass ends the attempt: another one while the budget lasts
FailAttempt ==
  /\ failures' = Append(failures, validations)
  /\ history' = Append(history, attempt)
  /\ IF attempt < MaxAttempts THEN Goto("repair") ELSE LoopReturns(FALSE)

\* (bug variant) every exit code but 0 is a failure of the candidate
VerdictNonzeroFails(exit, onPass) ==
  /\ UNCHANGED <<request, stopRequested, force, snapshot, attempt, validations, localFailures>>
  /\ \/ exit \in {"failed", "unavailable"} /\ ~stopRequested /\ FailAttempt
     \/ /\ exit \notin {"failed", "unavailable"} \/ stopRequested
        /\ UNCHANGED <<failures, history>>
        /\ \/ exit = "threw" /\ Abort(FALSE)
           \/ exit # "threw" /\ (stopRequested \/ exit = "cancelled") /\ Abort(TRUE)
           \/ exit = "passed" /\ ~stopRequested /\ onPass

\* command() after validate(): stop(), infrastructure errors throw, 1 is a failure
Verdict(exit, onPass) ==
  /\ UNCHANGED <<request, stopRequested, force, snapshot, attempt, validations, localFailures>>
  /\ \/ exit = "failed" /\ ~stopRequested /\ FailAttempt
     \/ /\ exit # "failed" \/ stopRequested
        /\ UNCHANGED <<failures, history>>
        /\ \/ exit = "threw" /\ Abort(FALSE)
           \/ exit # "threw" /\ stopRequested /\ Abort(TRUE)
           \/ exit = "unavailable" /\ ~stopRequested /\ Abort(FALSE)
           \/ exit = "cancelled" /\ ~stopRequested /\ Abort(TRUE)
           \/ exit = "passed" /\ ~stopRequested /\ onPass

SyntaxReturns(exit) ==
  /\ pc = "checking"
  /\ log' = [log EXCEPT ![Len(log)].syntax = exit]
  /\ Verdict(exit, Goto("tests"))

\* (bug variant) tests that could not run do not stand in the way
TestsReturnLenient(exit) ==
  /\ pc = "testing"
  /\ log' = [log EXCEPT ![Len(log)].tests = exit]
  /\ Verdict(IF exit = "unavailable" THEN "passed" ELSE exit, LoopReturns(TRUE))

\* (bug variant) tests that could not run are started again, without a limit
TestsReturnRetrying(exit) ==
  /\ pc = "testing"
  /\ log' = [log EXCEPT ![Len(log)].tests = exit]
  /\ Verdict(IF exit = "unavailable" THEN "passed" ELSE exit,
             IF exit = "unavailable" THEN Goto("tests") ELSE LoopReturns(TRUE))

TestsReturn(exit) ==
  /\ pc = "testing"
  /\ log' = [log EXCEPT ![Len(log)].tests = exit]
  /\ Verdict(exit, LoopReturns(TRUE))

\* (bug variant) a failed online candidate counts towards escalation too
RepairCountingAll ==
  /\ pc = "repair"
  /\ localFailures' = localFailures + 1
  /\ force' = (request.escalation /\ localFailures' >= 2)
  /\ UNCHANGED <<request, stopRequested, snapshot, attempt, history, validations, failures, log>>
  /\ Goto("generate")

\* The repair callback up to candidate(): two failed local candidates escalate
Repair ==
  /\ pc = "repair"
  /\ localFailures' = IF online THEN localFailures ELSE localFailures + 1
  /\ force' = (request.escalation /\ localFailures' >= 2)
  /\ UNCHANGED <<request, stopRequested, snapshot, attempt, history, validations, failures, log>>
  /\ Goto("generate")

\* Stop is pressed or the panel is closed, on the user-interface thread.
RequestStop ==
  /\ ~stopRequested /\ pc # "done"
  /\ stopRequested' = TRUE
  /\ UNCHANGED <<pc, request, force, snapshot, counters, result, log>>

Run ==
  \/ Start
  \/ CallGenerate
  \/ \E reply \in Snippets \cup {NoCode}, backend \in Backend : GenerateReturns(reply, backend)
  \/ GenerateThrows
  \/ CallSyntax
  \/ \E exit \in Exit : SyntaxReturns(exit)
  \/ CallTests
  \/ \E exit \in Exit : TestsReturn(exit)
  \/ Repair

Next == Run \/ RequestStop

\* The worker thread is scheduled, and both callbacks return: the native model
\* stops after 512 tokens, HTTP and the validator have deadlines.
Spec == Init /\ [][Next]_vars /\ WF_vars(Run)

-----------------------------------------------------------------------------
Entry == [text : Snippets \cup {NoCode}, backend : Backend, forced : BOOLEAN,
          syntax : Exit \cup {"none"}, tests : Exit \cup {"none"}]

Result == [succeeded : BOOLEAN, exhausted : BOOLEAN, attempts : Nat, history : Seq(Nat),
           blocked : BOOLEAN, cancelled : BOOLEAN, patch : Snippets \cup {NoText}]

\* Every variable keeps its type through all branches of run().
TypeOK ==
  /\ pc \in {"start", "generate", "syntax", "tests", "repair", "done"} \cup Calls
  /\ request \in [fits : BOOLEAN, selection : BOOLEAN, escalation : BOOLEAN]
  /\ stopRequested \in BOOLEAN /\ force \in BOOLEAN
  /\ online \in BOOLEAN /\ validSnapshot \in BOOLEAN
  /\ proposed \in Snippets \cup {NoText}
  /\ attempt \in Nat /\ validations \in Nat /\ localFailures \in Nat
  /\ history \in Seq(Nat) /\ failures \in Seq(Nat)
  /\ result \in Result
  /\ log \in Seq(Entry)

Failed(e) == e.syntax = "failed" \/ e.tests = "failed"
Proven(e) == e.syntax = "passed" /\ e.tests = "passed"

\* A result that enables Apply shows exactly the last reply, and that very text
\* passed the syntax check and then the tests: no snapshot of an earlier attempt,
\* no test run on a text that does not compile.
ReadyIsProven ==
  pc = "done" /\ Ready(result) =>
    /\ log # <<>>
    /\ result.patch = log[Len(log)].text
    /\ Proven(log[Len(log)])

\* A reply is superseded only because the candidate itself failed: an unavailable
\* validator, a cancellation or an exception never buys another model call.
OnlyFailuresAreRepaired ==
  \A i \in 1 .. Len(log) : i < Len(log) => Failed(log[i])

\* A candidate is forced online only with permission, and only after two
\* candidates of the local model were validated and failed.
EscalationIsEarned ==
  \A i \in 1 .. Len(log) : log[i].forced =>
    /\ request.escalation
    /\ \E j, k \in 1 .. (i - 1) :
         /\ j # k
         /\ log[j].backend = "local" /\ Failed(log[j])
         /\ log[k].backend = "local" /\ Failed(log[k])

\* The two independent accounts, the loop's and run()'s own, give the panel the
\* same report on every path: how many candidates were validated, which failed.
\* Only a failure that comes back after the stop request goes unreported.
Validated == {i \in 1 .. Len(log) : log[i].syntax # "none"}

ReportAgrees ==
  pc = "done" =>
    /\ result.attempts = Cardinality(Validated)
    /\ LET failed == Cardinality({i \in Validated : Failed(log[i])}) IN
         \/ Len(result.history) = failed
         \/ result.cancelled /\ stopRequested /\ Len(result.history) = failed - 1
    /\ \A n \in DOMAIN result.history : result.history[n] = n

\* Once a stop is requested no model call and no validator run begins any more,
\* and the run cannot end with a result that enables Apply.
StopIsFinal ==
  [][stopRequested /\ pc' # pc => pc' \notin Calls /\ ~Ready(result')]_vars

\* Every run ends, whatever the model and the validator answer.
Terminates == <>(pc = "done")

Contract == INSTANCE ProposalContract WITH
  Texts   <- Snippets,
  Budget  <- MaxAttempts,
  left    <- MaxAttempts - Len(log),
  drawn   <- {log[i].text : i \in DOMAIN log} \ {NoCode},
  proven  <- {log[i].text : i \in {n \in DOMAIN log : Proven(log[n])}},
  outcome <- IF pc # "done" THEN "working" ELSE IF Ready(result) THEN "ready" ELSE "notReady"

\* The run keeps the contract: bounded draws, and "ready" only for a proven text.
ImplementsContract == Contract!Spec
=============================================================================
