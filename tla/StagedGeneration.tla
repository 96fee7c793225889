-------------------------- MODULE StagedGeneration --------------------------
(***************************************************************************)
(* Specification, plan and code in three bounded calls: run_staged to one  *)
(* checkpoint behind a BackendRouter, run_routed to a planner and a coder. *)
(* What was answered so far is context for the next call, and the first    *)
(* thing out of order ends the run with its partial outputs.               *)
(*                                                                         *)
(* Checkpoints may be replaced at any time behind a backend's name.  An    *)
(* output is blank or not; what it says is nobody's concern here.          *)
(***************************************************************************)
EXTENDS Naturals, Sequences

CONSTANTS
  Models,   \* checkpoints, by their SHA-256
  None,     \* no checkpoint: the backend is unavailable
  Budget    \* tokens_per_stage, up to 170 in the code

ASSUME StagedConstants == None \notin Models /\ Models # {} /\ Budget \in Nat \ {0}

Stages == <<"specification", "plan", "code">>
Places == {"local", "remote", "planner", "coder", "any"}

VARIABLES
  driver,      \* "off", "staged" or "routed"
  mode,        \* how run_staged reaches a model: a router's mode, or "any" backend
  served,      \* the checkpoint behind each place
  pinned,      \* run_routed: the identity of each role when the run began
  stage,       \* the state of the run
  calls,       \* result.stages
  modelId,     \* result.model_id
  tokens,      \* result.generated_tokens
  worked       \* history: the checkpoint that worked on each stage

stagedVars == <<driver, mode, served, pinned, stage, calls, modelId, tokens, worked>>

StagedOff ==
  /\ driver = "off" /\ mode = "any" /\ served = [p \in Places |-> None] /\ pinned = served
  /\ stage = "done" /\ calls = <<>> /\ modelId = None /\ tokens = 0 /\ worked = <<>>

\* BackendRouter(mode): without allow_remote and a remote there is only "local".
RouterModes(allowRemote) == IF allowRemote THEN {"local", "online", "hybrid"} ELSE {"local"}

\* RemoteBackend: consent, an endpoint of its own kind and a key, or no backend.
RemoteOffered(allowRemote, endpointFits, key) == allowRemote /\ endpointFits /\ key

\* The places a run can reach.
Reach == IF driver = "routed" THEN {"planner", "coder"}
         ELSE CASE mode = "local" -> {"local"} [] mode = "online" -> {"remote"}
                [] mode = "hybrid" -> {"local", "remote"} [] OTHER -> {"any"}

StagedInit ==
  /\ driver \in {"staged", "routed"}
  /\ mode \in IF driver = "routed" THEN {"any"}
              ELSE {"any"} \cup UNION {RouterModes(RemoteOffered(a, e, k)) : a, e, k \in BOOLEAN}
  /\ \E m \in [Reach -> Models \cup {None}] :
       served = [p \in Places |-> IF p \in Reach THEN m[p] ELSE None]
  /\ driver = "routed" => None \notin {served[p] : p \in Reach}
  /\ pinned = served
  /\ stage = "begin" /\ calls = <<>> /\ modelId = None /\ tokens = 0 /\ worked = <<>>

\* A file is replaced, a server goes or comes back with another checkpoint.
Replace ==
  /\ driver # "off" /\ stage # "done"
  /\ \E p \in Reach, m \in Models \cup {None} : m # served[p] /\ served' = [served EXCEPT ![p] = m]
  /\ UNCHANGED <<driver, mode, pinned, stage, calls, modelId, tokens, worked>>

Ends(as) == stage' = as /\ UNCHANGED <<driver, mode, served, pinned>>

\* The caller's own arguments are checked before anything else happens.
RejectArguments ==
  /\ stage = "begin"
  /\ Ends("raised")
  /\ UNCHANGED <<calls, modelId, tokens, worked>>

AcceptArguments ==
  /\ stage = "begin"
  /\ Ends("calling")
  /\ UNCHANGED <<calls, modelId, tokens, worked>>

-----------------------------------------------------------------------------
\* One call

Here == Stages[Len(calls) + 1]

Failed(s) == [stage |-> s, response |-> None, error |-> TRUE]

Replies(m) == [model : {m}, tokens : 0..(Budget + 1), blank : BOOLEAN, finish : {"eos", "length"}]

\* DenseLocalBackend counts its tokens and stops at the budget.
LocalReplies(m) == {r \in Replies(m) : /\ r.tokens \in 1..Budget
                                       /\ r.finish = "length" => r.tokens = Budget}

\* RemoteBackend refuses an answer over the budget itself.
RemoteReplies(m) == {r \in Replies(m) : r.tokens <= Budget}

\* BackendRouter.generate: only an unavailable local model is made up for.
Route ==
  IF driver = "routed" THEN IF Here = "code" THEN "coder" ELSE "planner"
  ELSE CASE mode = "any" -> "any"
         [] mode = "online" \/ (mode = "hybrid" /\ served["local"] = None) -> "remote"
         [] OTHER -> "local"

RepliesOf(place) ==
  CASE place = "remote" -> RemoteReplies(served[place])
    [] place = "any" -> Replies(served[place])
    [] OTHER -> LocalReplies(served[place])

\* (bug variant) the stages may be answered by different checkpoints
AcceptsAnyModel(r) == r.tokens <= Budget /\ ~r.blank /\ r.finish = "eos"

\* run_staged's checks of a response, in the order of the code.
Accepts(r) ==
  /\ r.tokens <= Budget
  /\ modelId \in {None, r.model}
  /\ ~r.blank
  /\ r.finish = "eos"

\* run_routed's.
AcceptsFor(role, r) ==
  /\ r.model = pinned[role]
  /\ r.tokens <= Budget
  /\ ~r.blank
  /\ r.finish = "eos"

\* The identity is that of the response before its text and its end are looked at.
Identified(r) ==
  IF driver = "staged" /\ r.tokens <= Budget /\ modelId = None THEN r.model ELSE modelId

\* run_routed looks at the backend's identity before it calls.
CheckRole ==
  /\ driver = "routed" /\ stage = "calling"
  /\ IF served[Route] # pinned[Route]
     THEN calls' = Append(calls, Failed(Here)) /\ Ends("failed")
     ELSE Ends("checked") /\ UNCHANGED calls
  /\ UNCHANGED <<modelId, tokens, worked>>

Answer(r, accepted) ==
  /\ calls' = Append(calls, [stage |-> Here, response |-> r, error |-> ~accepted])
  /\ tokens' = tokens + r.tokens
  /\ modelId' = Identified(r)
  /\ worked' = Append(worked, served[Route])
  /\ Ends(IF ~accepted THEN "failed" ELSE IF Here = "code" THEN "completed" ELSE "calling")

StagedAnswer ==
  /\ driver = "staged" /\ stage = "calling" /\ served[Route] # None
  /\ \E r \in RepliesOf(Route) : Answer(r, Accepts(r))

RoutedAnswer ==
  /\ driver = "routed" /\ stage = "checked" /\ served[Route] # None
  /\ \E r \in RepliesOf(Route) : Answer(r, AcceptsFor(Route, r))

\* The backend is unavailable, refuses the request or breaks its protocol.
NoAnswer ==
  /\ stage = IF driver = "routed" THEN "checked" ELSE "calling"
  /\ calls' = Append(calls, Failed(Here))
  /\ Ends("failed")
  /\ UNCHANGED <<modelId, tokens, worked>>

\* With the earlier outputs the request has outgrown its limits: run_staged records
\* that, run_routed builds its request outside the guarded part.
TooLong ==
  /\ stage = "calling"
  /\ IF driver = "staged" THEN calls' = Append(calls, Failed(Here)) /\ Ends("failed")
                          ELSE UNCHANGED calls /\ Ends("raised")
  /\ UNCHANGED <<modelId, tokens, worked>>

\* main: the result is written, complete or not; a refusal is only reported.
Exit ==
  /\ stage \in {"completed", "failed", "raised"}
  /\ stage' = "done"
  /\ UNCHANGED <<driver, mode, served, pinned, calls, modelId, tokens, worked>>

StagedNext ==
  /\ driver # "off"
  /\ \/ Replace \/ RejectArguments \/ AcceptArguments \/ CheckRole \/ StagedAnswer
     \/ RoutedAnswer \/ NoAnswer \/ TooLong \/ Exit

StagedSpec == StagedInit /\ [][StagedNext]_stagedVars

-----------------------------------------------------------------------------
\* Whatever is put behind its names while it runs, a completed run is the work of one
\* checkpoint (of the two that were pinned, for run_routed) in three stages that each
\* came to an end within the budget, and its token count is what they used.
CompletedWork ==
  stage = "completed" =>
    /\ Len(calls) = 3 /\ Len(worked) = 3
    /\ \A i \in 1..3 : /\ calls[i].stage = Stages[i] /\ ~calls[i].error
                       /\ calls[i].response.finish = "eos" /\ calls[i].response.tokens <= Budget
    /\ tokens = calls[1].response.tokens + calls[2].response.tokens + calls[3].response.tokens
    /\ IF driver = "staged" THEN \A i \in 1..3 : worked[i] = modelId
       ELSE worked = <<pinned["planner"], pinned["planner"], pinned["coder"]>>
=============================================================================
