------------------------- MODULE InferenceAdmission -------------------------
(***************************************************************************)
(* server_backend.py: the two inference endpoints.  One event loop runs    *)
(* the handlers; a handler is interrupted only where it awaits.  Inference *)
(* runs in a thread of the default executor.  inference_lock is taken by   *)
(* the handler, without blocking, and released by the job: a request whose *)
(* client has gone keeps the slot until the job is over, and a request     *)
(* whose client has gone before the server read it is served all the same. *)
(*                                                                         *)
(* A checkpoint is a model value; "broken" stands for a variable           *)
(* NPPAI_INFERENCE_MODEL that is unset or names nothing of use.  Times are *)
(* in ticks, several to the second, because Retry-After is in whole        *)
(* seconds.  All clients share one host, hence one rate_limit_hits queue.  *)
(* A request to any other endpoint takes a hit and is answered at once, as *)
(* a malformed one is here.                                                *)
(***************************************************************************)
EXTENDS Integers, Sequences, FiniteSets

CONSTANTS
  Clients,      \* connections, each with at most one request at a time
  Watched,      \* those whose answers matter; the others' are read and forgotten
  Nobody,       \* stands for a client that has disconnected
  Models,       \* identities of valid checkpoints
  Limit,        \* RATE_LIMIT_REQUESTS, 60 in the code
  Window,       \* RATE_LIMIT_WINDOW in seconds, 60 in the code
  Ticks,        \* ticks per second
  MaxRequests   \* bound: requests sent

ASSUME AdmissionConstants ==
  /\ Watched \subseteq Clients /\ Nobody \notin Clients
  /\ {"broken", "none"} \cap Models = {}
  /\ Limit \in Nat \ {0} /\ Window \in Nat \ {0} /\ Ticks \in Nat \ {0}
  /\ MaxRequests \in Nat

VARIABLES
  now,       \* time.monotonic()
  file,      \* what NPPAI_INFERENCE_MODEL names at the moment
  backend,   \* inference_backend
  locked,    \* inference_lock
  jobs,      \* work handed to the executor and not yet answered for
  hits,      \* rate_limit_hits of the host
  request,   \* where each client's request stands
  answer,    \* the last answer each watched client got
  sent,      \* requests sent
  late,      \* requests with the key, abandoned, that the server has not come to yet
  through,   \* history: times of the last Limit + 1 requests let through
  refusal    \* history: the last 429 and the client that got it

slotVars  == <<backend, locked, jobs>>
limitVars == <<hits, through, refusal>>
wireVars  == <<sent, late>>
serverVars == <<file, slotVars, limitVars, request, answer, wireVars>>

Kinds   == {"health", "generate"}
Stages  == {"idle", "sent", "waiting"}
Answers == {"none", "413", "403", "429", "422", "busy", "unavailable", "500", "ok", "dropped"}
Idle    == [stage |-> "idle", kind |-> "health"]
NoneLate == [kind \in Kinds |-> 0]
NoRefusal == [client |-> Nobody, at |-> 0, after |-> 0]
Job == [id : 1..MaxRequests, client : Clients \cup {Nobody}, kind : Kinds,
        at : {"queued", "running", "done"}, result : Answers]

ServerTypeOK ==
  /\ file \in {"broken"} \cup Models
  /\ backend \in {"none"} \cup Models
  /\ locked \in BOOLEAN
  /\ jobs \subseteq Job
  /\ hits \in Seq(Nat) /\ Len(hits) <= Limit
  /\ request \in [Clients -> [stage : Stages, kind : Kinds]]
  /\ answer \in [Watched -> Answers]
  /\ sent \in 0..MaxRequests
  /\ late \in [Kinds -> Nat]
  /\ through \in Seq(Nat) /\ Len(through) <= Limit + 1
  /\ refusal \in [client : Clients \cup {Nobody}, at : Nat, after : Nat]

ServerInit ==
  /\ file \in {"broken"} \cup Models
  /\ backend = "none" /\ locked = FALSE /\ jobs = {}
  /\ hits = <<>> /\ through = <<>> /\ refusal = NoRefusal
  /\ request = [c \in Clients |-> Idle]
  /\ answer = [c \in Watched |-> "none"]
  /\ sent = 0 /\ late = NoneLate

Reply(c, status) ==
  /\ request' = [request EXCEPT ![c] = Idle]
  /\ answer' = [d \in Watched |-> IF d = c THEN status ELSE answer[d]]

-----------------------------------------------------------------------------
\* The event loop

Send(c, kind) ==
  /\ request[c].stage = "idle" /\ sent < MaxRequests
  /\ sent' = sent + 1
  /\ request' = [request EXCEPT ![c] = [stage |-> "sent", kind |-> kind]]
  /\ answer' = [d \in Watched |-> IF d = c THEN "none" ELSE answer[d]]
  /\ UNCHANGED <<file, slotVars, limitVars, late>>

\* request_size_limit: a body that is too large, or whose length is not a number.
OverSize(c) ==
  /\ request[c].stage = "sent" /\ request[c].kind = "generate"
  /\ Reply(c, "413")
  /\ UNCHANGED <<file, slotVars, limitVars, wireVars>>

\* require_api_key: before the rate limiter, so that it costs no hit.
Unauthorised(c) ==
  /\ request[c].stage = "sent"
  /\ Reply(c, "403")
  /\ UNCHANGED <<file, slotVars, limitVars, wireVars>>

\* What the loop over hits[0] leaves: the queue from its first hit after cutoff on.
HitsAfter(cutoff) ==
  LET later == {i \in DOMAIN hits : hits[i] > cutoff}
      first == CHOOSE i \in later : \A j \in later : i <= j
  IN IF later = {} THEN <<>> ELSE SubSeq(hits, first, Len(hits))

\* (bug variant) the window is cut one tick short.
RecentTooShort == HitsAfter(now - Window * Ticks + 1)

\* The hits that are still inside the window.
Recent == HitsAfter(now - Window * Ticks)

\* (bug variant) the truncated seconds are not rounded up.
RetryAfterTruncated(oldest) ==
  LET whole == (Window * Ticks - (now - oldest)) \div Ticks
  IN IF whole > 1 THEN whole ELSE 1

\* Whole seconds until the oldest of them leaves it: int() truncates.
RetryAfter(oldest) ==
  LET whole == (Window * Ticks - (now - oldest)) \div Ticks + 1
  IN IF whole > 1 THEN whole ELSE 1

\* The last n elements of s.
Latest(s, n) == SubSeq(s, IF Len(s) > n THEN Len(s) - n + 1 ELSE 1, Len(s))

\* enforce_rate_limit refuses: a refusal is not counted as a hit.
Throttle(c) ==
  /\ request[c].stage = "sent"
  /\ Len(Recent) >= Limit
  /\ hits' = Recent
  /\ refusal' = [client |-> c, at |-> now, after |-> RetryAfter(Recent[1])]
  /\ Reply(c, "429")
  /\ UNCHANGED <<file, slotVars, through, wireVars>>

\* It lets a request through.
CountHit ==
  /\ Len(Recent) < Limit
  /\ hits' = Append(Recent, now)
  /\ through' = Latest(Append(through, now), Limit + 1)
  /\ UNCHANGED refusal

PassLimit(c) ==
  /\ request[c].stage = "sent"
  /\ CountHit

\* A payload that GenerationRequest rejects has used up a hit.
Malformed(c) ==
  /\ PassLimit(c) /\ request[c].kind = "generate"
  /\ Reply(c, "422")
  /\ UNCHANGED <<file, slotVars, wireVars>>

\* inference_health and generate_code: acquire(blocking=False) fails.
Busy(c) ==
  /\ PassLimit(c) /\ locked
  /\ Reply(c, "busy")
  /\ UNCHANGED <<file, slotVars, wireVars>>

\* It succeeds, and the executor takes the job.
Admit(c) ==
  /\ PassLimit(c) /\ ~locked
  /\ locked' = TRUE
  /\ jobs' = jobs \cup {[id |-> sent, client |-> c, kind |-> request[c].kind,
                         at |-> "queued", result |-> "none"]}
  /\ request' = [request EXCEPT ![c].stage = "waiting"]
  /\ UNCHANGED <<file, backend, answer, wireVars>>

\* It succeeds, but run_in_executor raises: the handler releases the slot.
ExecutorRefuses(c) ==
  /\ PassLimit(c) /\ ~locked
  /\ locked' = FALSE
  /\ Reply(c, "500")
  /\ UNCHANGED <<file, backend, jobs, wireVars>>

\* The shielded future is done and the handler resumes.
Respond(c) ==
  \E j \in jobs :
    /\ j.client = c /\ j.at = "done"
    /\ jobs' = jobs \ {j}
    /\ Reply(c, j.result)
    /\ UNCHANGED <<file, backend, locked, limitVars, wireVars>>

\* The jobs of others, and c's if it is not over yet: that one goes on for nobody.
Orphaned(c) ==
  LET kept == {j \in jobs : j.client # c \/ j.at # "done"}
  IN {IF j.client = c THEN [j EXCEPT !.client = Nobody] ELSE j : j \in kept}

\* (bug variant) without the shield the cancelled handler gives the slot back.
DisconnectFreesSlot(c) ==
  /\ request[c].stage = "waiting"
  /\ jobs' = Orphaned(c)
  /\ locked' = FALSE
  /\ Reply(c, "dropped")
  /\ UNCHANGED <<file, backend, limitVars, wireVars>>

\* The client disconnects: asyncio.shield keeps the job running for nobody.
Disconnect(c) ==
  /\ request[c].stage = "waiting"
  /\ jobs' = Orphaned(c)
  /\ Reply(c, "dropped")
  /\ UNCHANGED <<file, backend, locked, limitVars, wireVars>>

\* It disconnects before the server has read the request, which stays in the
\* socket; without the key it would be refused there and leave no trace.
Abandon(c, keyIsRight) ==
  /\ request[c].stage = "sent"
  /\ late' = IF keyIsRight THEN [late EXCEPT ![request[c].kind] = @ + 1] ELSE late
  /\ Reply(c, "dropped")
  /\ UNCHANGED <<file, slotVars, limitVars, sent>>

\* The server comes to an abandoned request.  If the middleware sees the
\* disconnect while it reads the body, or finds the body too large, that is all.
\* Otherwise the handler runs for nobody: no hit when it is over the limit; a hit
\* alone when it is malformed, finds the slot taken or the executor refuses; or
\* the slot and a job as for anybody.
ServeLate(kind) ==
  /\ late[kind] > 0
  /\ late' = [late EXCEPT ![kind] = @ - 1]
  /\ \/ UNCHANGED <<slotVars, limitVars>>
     \/ /\ Len(Recent) >= Limit /\ hits' = Recent
        /\ UNCHANGED <<slotVars, through, refusal>>
     \/ CountHit /\ UNCHANGED slotVars
     \/ /\ CountHit /\ ~locked
        /\ locked' = TRUE
        /\ jobs' = jobs \cup {[id |-> sent, client |-> Nobody, kind |-> kind,
                               at |-> "queued", result |-> "none"]}
        /\ UNCHANGED backend
  /\ UNCHANGED <<file, request, answer, sent>>

-----------------------------------------------------------------------------
\* The job, in an executor thread: generate_with_configured_model for a
\* generate request, inspect_configured_model for a health request.

\* Both finally clauses release the slot before the future has its result.
Finish(j, result) ==
  /\ jobs' = (jobs \ {j}) \cup
       (IF j.client = Nobody THEN {} ELSE {[j EXCEPT !.at = "done", !.result = result]})
  /\ locked' = FALSE

\* DenseLocalBackend.__init__ reads the file in one go: size, hash, shape, finite
\* weights and the prompt boundary all have to be right.
Loadable(f) == f \in Models

\* (bug variant) whatever the file holds now is loaded for each job.
ConfiguredAnew == IF file \in Models THEN file ELSE backend

\* configured_inference_backend: use the pinned checkpoint, or load and pin the file.
Configured == IF backend = "none" THEN file ELSE backend

StartJob(j) ==
  /\ j.at = "queued"
  /\ IF Loadable(Configured)
     THEN /\ backend' = Configured
          /\ jobs' = (jobs \ {j}) \cup {[j EXCEPT !.at = "running"]}
          /\ UNCHANGED locked
     ELSE /\ Finish(j, "unavailable")
          /\ UNCHANGED backend
  /\ UNCHANGED <<file, limitVars, request, answer, wireVars>>

\* generate: text, a ValueError for a prompt over the context, or any other error.
Outcomes(kind) == IF kind = "health" THEN {"ok"} ELSE {"ok", "422", "500"}

Run(j) ==
  /\ j.at = "running"
  /\ \E result \in Outcomes(j.kind) : Finish(j, result)
  /\ UNCHANGED <<file, backend, limitVars, request, answer, wireVars>>

JobStep == \E j \in jobs : StartJob(j) \/ Run(j)

\* Training or a deployment replaces the file that the variable names.
ReplaceFile ==
  /\ file' \in ({"broken"} \cup Models) \ {file}
  /\ UNCHANGED <<slotVars, limitVars, request, answer, wireVars>>

Handler(c, keyIsRight) ==
  \/ OverSize(c)
  \/ ~keyIsRight /\ Unauthorised(c)
  \/ keyIsRight /\ (Throttle(c) \/ Malformed(c) \/ Busy(c) \/ Admit(c) \/ ExecutorRefuses(c))
  \/ Respond(c)

-----------------------------------------------------------------------------
\* Properties

\* A job holds the slot: from its admission to the release in its own finally
\* clause there is exactly one, whoever has disconnected or failed meanwhile.
SlotIsOneJob ==
  LET live == {j \in jobs : j.at # "done"}
  IN /\ locked <=> live # {}
     /\ \A i, j \in live : i = j

\* No span of one window lets more than Limit requests through.
RateHolds ==
  Len(through) = Limit + 1 => through[Limit + 1] - through[1] >= Window * Ticks

\* A client that comes back after Retry-After seconds is let through, unless
\* others have used up the room since.
RetryHonoured ==
  [][\A c \in Clients :
       (Throttle(c) /\ refusal.client = c /\ now >= refusal.at + refusal.after * Ticks)
         => \E i \in DOMAIN hits : hits[i] > refusal.at]_<<now, serverVars>>
=============================================================================
