------------------------ MODULE InferenceToolsProofs ------------------------
(***************************************************************************)
(* What holds of the three ways a script generates, for all constants:     *)
(* a completed staged generation is the work it claims to be, a decoding   *)
(* with the copy cursor passes the audit of its own record, and stopping   *)
(* the beam search early does not change its answer.                       *)
(***************************************************************************)
EXTENDS StagedGeneration, CopyDecoding, BeamDecoding, FiniteSetTheorems, SequenceTheorems, TLAPS

-----------------------------------------------------------------------------
(* StagedGeneration, for any checkpoints and any token budget *)

Reply == [model : Models \cup {None}, tokens : Nat, blank : BOOLEAN, finish : {"eos", "length"}]

Names == {"specification", "plan", "code"}

\* A call that was accepted, at its place in the order of stages.
Accepted(i) ==
  /\ calls[i].stage = Stages[i] /\ ~calls[i].error
  /\ calls[i].response.finish = "eos" /\ calls[i].response.tokens <= Budget
  /\ calls[i].response.tokens \in Nat

\* The role that run_routed gives a stage to.
Role(i) == IF i = 3 THEN "coder" ELSE "planner"

\* The checkpoint that a stage has to be the work of.
WorkedFor(i) == worked[i] = IF driver = "staged" THEN modelId ELSE pinned[Role(i)]

Used(i) == IF i <= Len(calls) THEN calls[i].response.tokens ELSE 0

ProgressInv ==
  stage \in {"begin", "calling", "checked", "completed"} =>
    /\ IF stage = "completed" THEN Len(calls) = 3 ELSE Len(calls) \in 0..2
    /\ Len(worked) = Len(calls)
    /\ \A i \in 1..Len(calls) : Accepted(i) /\ WorkedFor(i)
    /\ tokens = Used(1) + Used(2) + Used(3)
    /\ driver = "staged" => (modelId = None <=> calls = <<>>)

StagedShape ==
  /\ driver \in {"staged", "routed"}
  /\ stage \in {"begin", "calling", "checked", "completed", "failed", "raised", "done"}
  /\ driver = "staged" => stage # "checked"
  /\ served \in [Places -> Models \cup {None}]
  /\ modelId \in Models \cup {None}
  /\ tokens \in Nat
  /\ calls \in Seq([stage : Names, response : Reply \cup {None}, error : BOOLEAN])
  /\ worked \in Seq(Models \cup {None})

GInv == StagedShape /\ ProgressInv

-----------------------------------------------------------------------------
LEMMA HereIs ==
  ASSUME Len(calls) \in 0..2
  PROVE  Here = Stages[Len(calls) + 1] /\ Here \in Names /\ (Here = "code" <=> Len(calls) = 2)
  <1>1. Stages[1] = "specification" /\ Stages[2] = "plan" /\ Stages[3] = "code"
    BY DEF Stages
  <1>2. Len(calls) = 0 \/ Len(calls) = 1 \/ Len(calls) = 2
    OBVIOUS
  <1>3. CASE Len(calls) = 0
    <2>1. Len(calls) + 1 = 1
      BY <1>3
    <2>2. Here = "specification" /\ Here = Stages[Len(calls) + 1]
      BY <1>1, <2>1 DEF Here
    <2>3. QED
      BY <1>3, <2>2 DEF Names
  <1>4. CASE Len(calls) = 1
    <2>1. Len(calls) + 1 = 2
      BY <1>4
    <2>2. Here = "plan" /\ Here = Stages[Len(calls) + 1]
      BY <1>1, <2>1 DEF Here
    <2>3. QED
      BY <1>4, <2>2 DEF Names
  <1>5. CASE Len(calls) = 2
    <2>1. Len(calls) + 1 = 3
      BY <1>5
    <2>2. Here = "code" /\ Here = Stages[Len(calls) + 1]
      BY <1>1, <2>1 DEF Here
    <2>3. QED
      BY <1>5, <2>2 DEF Names
  <1>6. QED
    BY <1>2, <1>3, <1>4, <1>5

LEMMA StagedStarts == StagedInit => GInv
  <1> SUFFICES ASSUME StagedInit PROVE GInv
    OBVIOUS
  <1>1. PICK m \in [Reach -> Models \cup {None}] : served = [p \in Places |-> IF p \in Reach THEN m[p] ELSE None]
    BY DEF StagedInit
  <1>2. served \in [Places -> Models \cup {None}]
    BY <1>1
  <1>3. StagedShape
    BY <1>2 DEF StagedInit, StagedShape
  <1>4. ProgressInv
    BY DEF StagedInit, ProgressInv, Used
  <1>5. QED
    BY <1>3, <1>4 DEF GInv

\* Ending a run, or entering it, leaves what was accepted as it is.
LEMMA MovesOnly ==
  ASSUME GInv, UNCHANGED <<driver, mode, pinned, calls, modelId, tokens, worked>>,
         served' \in [Places -> Models \cup {None}],
         \/ stage' \in {"failed", "raised", "done"}
         \/ stage' \in {"calling", "checked"} /\ stage \in {"begin", "calling"}
         \/ stage' = stage,
         stage' = "checked" => driver = "routed"
  PROVE  GInv'
  <1>1. StagedShape'
    BY DEF GInv, StagedShape
  <1>2. ProgressInv'
    BY DEF GInv, ProgressInv, Accepted, WorkedFor, Used
  <1>3. QED
    BY <1>1, <1>2 DEF GInv

\* A failed call ends the run.
LEMMA FailureEnds ==
  ASSUME GInv, calls' = Append(calls, Failed(Here)), Ends("failed"), UNCHANGED <<modelId, tokens, worked>>,
         stage \in {"calling", "checked"}
  PROVE  GInv'
  <1>1. Here \in Names
    <2>1. Len(calls) \in 0..2
      BY DEF GInv, ProgressInv
    <2>2. QED
      BY <2>1, HereIs
  <1>2. Failed(Here) \in [stage : Names, response : Reply \cup {None}, error : BOOLEAN]
    BY <1>1 DEF Failed
  <1>3. StagedShape'
    BY <1>2 DEF GInv, StagedShape, Ends
  <1>4. ProgressInv'
    BY DEF ProgressInv, Ends
  <1>5. QED
    BY <1>3, <1>4 DEF GInv

\* What any backend may answer.
LEMMA RepliesAreReplies ==
  ASSUME GInv, NEW r \in RepliesOf(Route), served[Route] # None
  PROVE  r \in Reply /\ r.model = served[Route] /\ r.model \in Models
  <1>1. Route \in Places
    BY DEF Route, Places
  <1>2. r \in Replies(served[Route])
    BY DEF RepliesOf, RemoteReplies, LocalReplies
  <1>3. Budget \in Nat
    BY StagedConstants
  <1>4. QED
    BY <1>1, <1>2, <1>3 DEF Replies, Reply, GInv, StagedShape

\* An answer that is recorded.
LEMMA AnswerKeeps ==
  ASSUME GInv, NEW r \in Reply, r.model = served[Route], r.model \in Models,
         NEW accepted \in BOOLEAN, Answer(r, accepted),
         stage \in {"calling", "checked"},
         accepted => r.tokens <= Budget /\ r.finish = "eos",
         accepted /\ driver = "staged" => modelId \in {None, r.model},
         accepted /\ driver = "routed" => r.model = pinned[Route]
  PROVE  GInv'
  <1> DEFINE new == [stage |-> Here, response |-> r, error |-> ~accepted]
  <1>0. PICK n \in 0..2 : n = Len(calls)
    BY DEF GInv, ProgressInv
  <1>1. n = Len(calls) /\ n \in 0..2 /\ Len(worked) = n
    BY <1>0 DEF GInv, ProgressInv
  <1>2. Here = Stages[n + 1] /\ Here \in Names /\ (Here = "code" <=> n = 2)
    BY <1>1, HereIs
  <1>3. /\ calls' = Append(calls, new) /\ tokens' = tokens + r.tokens /\ modelId' = Identified(r)
        /\ worked' = Append(worked, r.model) /\ UNCHANGED <<driver, mode, served, pinned>>
        /\ stage' = IF ~accepted THEN "failed" ELSE IF n = 2 THEN "completed" ELSE "calling"
    BY <1>2 DEF Answer, Ends
  <1>4. new \in [stage : Names, response : Reply \cup {None}, error : BOOLEAN]
    BY <1>2
  <1>5. modelId' \in Models \cup {None}
    BY <1>3 DEF Identified, GInv, StagedShape
  <1>6. r.tokens \in Nat
    BY DEF Reply
  <1>7. StagedShape'
    BY <1>3, <1>4, <1>5, <1>6 DEF GInv, StagedShape
  <1>8. CASE ~accepted
    BY <1>3, <1>7, <1>8 DEF GInv, ProgressInv
  <1>9. CASE accepted
    <2>0. /\ r.tokens <= Budget /\ r.finish = "eos" /\ stage' = IF n = 2 THEN "completed" ELSE "calling"
          /\ driver = "staged" => modelId \in {None, r.model}
          /\ driver = "routed" => r.model = pinned[Route]
      BY <1>3, <1>9
    <2>1. /\ Len(calls') = n + 1 /\ Len(worked') = n + 1
          /\ calls'[n + 1] = new /\ worked'[n + 1] = r.model
          /\ \A i \in 1..n : calls'[i] = calls[i] /\ worked'[i] = worked[i]
      BY <1>1, <1>3, <1>4 DEF GInv, StagedShape
    <2>2. new.stage = Here /\ new.response = r /\ new.error = FALSE
      BY <1>9
    <2> HIDE DEF new
    <2>3. driver = "staged" => modelId' = r.model /\ (n # 0 => modelId = r.model)
      <3>1. n # 0 => calls # <<>>
        BY <1>1
      <3>2. QED
        BY <1>3, <2>0, <3>1 DEF Identified, GInv, ProgressInv
    <2>4. driver = "routed" => r.model = pinned[Role(n + 1)]
      <3>1. CASE n = 2
        <4>1. Role(n + 1) = "coder"
          BY <3>1 DEF Role
        <4>2. QED
          BY <1>2, <2>0, <3>1, <4>1 DEF Route
      <3>2. CASE n # 2
        <4>1. Role(n + 1) = "planner"
          BY <1>1, <3>2 DEF Role
        <4>2. QED
          BY <1>2, <2>0, <3>2, <4>1 DEF Route
      <3>3. QED
        BY <3>1, <3>2
    <2>5. \A i \in 1..n : Accepted(i)' /\ WorkedFor(i)'
      BY <1>1, <1>3, <2>1, <2>3 DEF GInv, ProgressInv, Accepted, WorkedFor
    <2>6. Accepted(n + 1)' /\ WorkedFor(n + 1)'
      <3>1. Accepted(n + 1)'
        <4>1. calls'[n + 1].stage = Stages[n + 1] /\ calls'[n + 1].response = r
          BY <1>2, <2>1, <2>2
        <4>2. ~calls'[n + 1].error
          BY <2>1, <2>2
        <4>3. QED
          BY <1>6, <2>0, <4>1, <4>2 DEF Accepted
      <3>2. WorkedFor(n + 1)'
        <4>1. CASE driver = "staged"
          BY <1>3, <2>1, <2>3, <4>1 DEF WorkedFor
        <4>2. CASE driver = "routed"
          BY <1>3, <2>1, <2>4, <4>2 DEF WorkedFor
        <4>3. QED
          BY <4>1, <4>2 DEF GInv, StagedShape
      <3>3. QED
        BY <3>1, <3>2
    <2>7. tokens' = Used(1)' + Used(2)' + Used(3)'
      <3>1. \A i \in 1..n : calls[i].response.tokens \in Nat
        BY <1>1 DEF GInv, ProgressInv, Accepted
      <3>2. \A i \in 1..3 : Used(i)' = IF i = n + 1 THEN r.tokens ELSE Used(i)
        BY <1>1, <2>1, <2>2 DEF Used
      <3>3. \A i \in 1..3 : Used(i) \in Nat /\ (i = n + 1 => Used(i) = 0)
        BY <1>1, <3>1 DEF Used
      <3>4. tokens = Used(1) + Used(2) + Used(3)
        BY DEF GInv, ProgressInv
      <3>5. QED
        <4>1. CASE n = 0
          BY <1>3, <1>6, <3>2, <3>3, <3>4, <4>1
        <4>2. CASE n = 1
          BY <1>3, <1>6, <3>2, <3>3, <3>4, <4>2
        <4>3. CASE n = 2
          BY <1>3, <1>6, <3>2, <3>3, <3>4, <4>3
        <4>4. QED
          BY <1>1, <4>1, <4>2, <4>3
    <2>8. driver' = "staged" => (modelId' = None <=> calls' = <<>>)
      <3>1. calls' # <<>>
        BY <1>1, <2>1
      <3>2. QED
        BY <1>3, <2>3, <3>1, StagedConstants
    <2>9. ProgressInv'
      <3>1. IF stage' = "completed" THEN Len(calls') = 3 ELSE Len(calls') \in 0..2
        BY <1>1, <2>0, <2>1
      <3>2. \A i \in 1..Len(calls') : Accepted(i)' /\ WorkedFor(i)'
        <4>1. 1..Len(calls') = 1..n \cup {n + 1}
          BY <1>1, <2>1
        <4>2. QED
          BY <2>5, <2>6, <4>1
      <3>3. Len(worked') = Len(calls')
        BY <2>1
      <3>4. QED
        BY <2>7, <2>8, <3>1, <3>2, <3>3 DEF ProgressInv
    <2>10. QED
      BY <1>7, <2>9 DEF GInv
  <1>10. QED
    BY <1>8, <1>9

LEMMA StagedKeeps == GInv /\ [StagedNext]_stagedVars => GInv'
  <1> SUFFICES ASSUME GInv, [StagedNext]_stagedVars PROVE GInv'
    OBVIOUS
  <1>1. CASE Replace
    <2>1. served' \in [Places -> Models \cup {None}]
      BY <1>1 DEF Replace, GInv, StagedShape
    <2>2. QED
      BY <1>1, <2>1, MovesOnly DEF Replace, GInv, StagedShape
  <1>2. CASE RejectArguments \/ AcceptArguments \/ Exit
    BY <1>2, MovesOnly DEF RejectArguments, AcceptArguments, Exit, Ends, GInv, StagedShape
  <1>3. CASE CheckRole
    BY <1>3, MovesOnly, FailureEnds DEF CheckRole, Ends, GInv, StagedShape
  <1>4. CASE NoAnswer
    BY <1>4, FailureEnds DEF NoAnswer, GInv, StagedShape
  <1>5. CASE TooLong
    BY <1>5, MovesOnly, FailureEnds DEF TooLong, Ends, GInv, StagedShape
  <1>6. CASE StagedAnswer
    <2>1. PICK r \in RepliesOf(Route) : Answer(r, Accepts(r))
      BY <1>6 DEF StagedAnswer
    <2>2. r \in Reply /\ r.model = served[Route] /\ r.model \in Models
      BY <1>6, <2>1, RepliesAreReplies DEF StagedAnswer
    <2>3. Accepts(r) \in BOOLEAN
      BY DEF Accepts
    <2>4. Accepts(r) => r.tokens <= Budget /\ r.finish = "eos" /\ modelId \in {None, r.model}
      BY DEF Accepts
    <2>5. QED
      BY <1>6, <2>1, <2>2, <2>3, <2>4, AnswerKeeps DEF StagedAnswer
  <1>7. CASE RoutedAnswer
    <2>1. PICK r \in RepliesOf(Route) : Answer(r, AcceptsFor(Route, r))
      BY <1>7 DEF RoutedAnswer
    <2>2. r \in Reply /\ r.model = served[Route] /\ r.model \in Models
      BY <1>7, <2>1, RepliesAreReplies DEF RoutedAnswer
    <2>3. AcceptsFor(Route, r) \in BOOLEAN
      BY DEF AcceptsFor
    <2>4. AcceptsFor(Route, r) => r.tokens <= Budget /\ r.finish = "eos" /\ r.model = pinned[Route]
      BY DEF AcceptsFor
    <2>5. QED
      BY <1>7, <2>1, <2>2, <2>3, <2>4, AnswerKeeps DEF RoutedAnswer
  <1>8. CASE UNCHANGED stagedVars
    BY <1>8, MovesOnly DEF stagedVars, GInv, StagedShape
  <1>9. QED
    BY <1>1, <1>2, <1>3, <1>4, <1>5, <1>6, <1>7, <1>8 DEF StagedNext

\* A completed run of run_staged is the work of one checkpoint, one of run_routed that
\* of the two it pinned, with nothing cut off, nothing over the budget and every token
\* counted, whatever is put behind the backends' names meanwhile.
THEOREM WorkAlwaysComplete == StagedSpec => []CompletedWork
  <1>1. GInv => CompletedWork
    <2> SUFFICES ASSUME GInv, stage = "completed" PROVE CompletedWork
      BY DEF CompletedWork
    <2>1. /\ Len(calls) = 3 /\ Len(worked) = 3
          /\ \A i \in 1..3 : Accepted(i) /\ WorkedFor(i)
          /\ tokens = Used(1) + Used(2) + Used(3)
      BY DEF GInv, ProgressInv
    <2>2. tokens = calls[1].response.tokens + calls[2].response.tokens + calls[3].response.tokens
      BY <2>1 DEF Used
    <2>3. CASE driver = "staged"
      BY <2>1, <2>2, <2>3 DEF CompletedWork, Accepted, WorkedFor
    <2>4. CASE driver = "routed"
      <3>1. worked[1] = pinned["planner"] /\ worked[2] = pinned["planner"] /\ worked[3] = pinned["coder"]
        BY <2>1, <2>4 DEF WorkedFor, Role
      <3>2. worked = <<pinned["planner"], pinned["planner"], pinned["coder"]>>
        BY <2>1, <3>1 DEF GInv, StagedShape
      <3>3. QED
        BY <2>1, <2>2, <2>4, <3>2 DEF CompletedWork, Accepted
    <2>5. QED
      BY <2>3, <2>4 DEF GInv, StagedShape
  <1>2. QED
    BY <1>1, StagedStarts, StagedKeeps, PTL DEF StagedSpec

-----------------------------------------------------------------------------
(* CopyDecoding, for any vocabulary, trigger, prompt, context length and budget *)

AnyEvent == [query : Nat, kind : {"boundary", "exit", "copy"}, cursor : Nat, source : Bytes,
             base : Bytes, chosen : Bytes]

\* The response begins with the trigger.
Begun == Len(Trigger) <= Len(output) /\ \A i \in 1..Len(Trigger) : output[i] = Trigger[i]

DecodingShape ==
  /\ copying \in {"decoding", "decoded"}
  /\ frame \in [0..(FrameLen - 1) -> Bytes \ {0}]
  /\ output \in Seq(Bytes \ {0})
  /\ cursor \in [mode : {"waiting", "copy", "ended"}, at : Nat]
  /\ events \in Seq(AnyEvent)

\* An open response has room for a byte.
BudgetInv == Len(output) <= Limit /\ (copying = "decoding" => Len(output) < Limit)

\* What the auditor asks of an event apart from the byte it emitted.
Lawful(e) ==
  /\ e.query \in Len(Trigger)..(Limit - 1)
  /\ e.kind = "boundary" => ~MayCopy(e) /\ e.chosen = e.base
  /\ e.kind = "exit" => MayCopy(e) /\ e.source = frame[e.cursor] /\ e.chosen = e.base
  /\ e.kind = "copy" => MayCopy(e) /\ e.source = frame[e.cursor] /\ e.chosen = frame[e.cursor]

\* An event's byte is in the response, unless it ended it.
Recorded(e) ==
  \/ e.query < Len(output) /\ output[e.query + 1] = e.chosen
  \/ e.query = Len(output) /\ e.chosen = 0 /\ copying = "decoded"

EventsInv ==
  /\ \A i \in 1..Len(events) :
       /\ Lawful(events[i]) /\ Recorded(events[i])
       /\ IF i = 1 THEN events[i].query = Len(Trigger) ELSE FollowsOn(events[i], events[i - 1])
  /\ events # <<>> => Begun

\* The cursor goes on where the last event left it.
CursorInv ==
  copying = "decoding" =>
    /\ cursor.mode = "waiting" => events = <<>>
    /\ cursor.mode = "copy" =>
         /\ events # <<>> /\ events[Len(events)].kind = "copy"
         /\ Len(output) = events[Len(events)].query + 1
         /\ cursor.at = events[Len(events)].cursor + 1

CInv == DecodingShape /\ BudgetInv /\ EventsInv /\ CursorInv

-----------------------------------------------------------------------------
LEMMA Numbers ==
  /\ Left \in Nat /\ Right \in Nat /\ FrameLen \in Nat /\ Left <= Right /\ Right <= FrameLen
  /\ Limit \in Nat \ {0} /\ Width \in Nat \ {0} /\ Trigger \in Seq(Bytes \ {0}) /\ 0 \in Bytes /\ Bytes \subseteq Nat
  BY CopyConstants DEF Right, FrameLen

LEMMA DecodingStarts == CopyInit => CInv
  <1> SUFFICES ASSUME CopyInit PROVE CInv
    OBVIOUS
  <1>1. DecodingShape
    BY DEF CopyInit, DecodingShape, Waiting
  <1>2. output = <<>> /\ events = <<>> /\ cursor.mode = "waiting"
    BY DEF CopyInit, Waiting
  <1>3. BudgetInv /\ EventsInv /\ CursorInv
    BY <1>2, Numbers DEF BudgetInv, EventsInv, CursorInv
  <1>4. QED
    BY <1>1, <1>3 DEF CInv

\* A byte more, or the end: what was written stays.
LEMMA EmitAdds ==
  ASSUME CInv, copying = "decoding", NEW byte \in Bytes, Emit(byte)
  PROVE  /\ copying' \in {"decoding", "decoded"} /\ output' \in Seq(Bytes \ {0})
         /\ BudgetInv'
         /\ Len(output) <= Len(output') /\ \A i \in 1..Len(output) : output'[i] = output[i]
         /\ \/ byte # 0 /\ Len(output') = Len(output) + 1 /\ output'[Len(output) + 1] = byte
            \/ byte = 0 /\ output' = output /\ copying' = "decoded"
  <1>1. output \in Seq(Bytes \ {0}) /\ Len(output) \in Nat /\ Len(output) < Limit
    BY DEF CInv, DecodingShape, BudgetInv
  <1>2. CASE byte = 0
    BY <1>1, <1>2, Numbers DEF Emit, BudgetInv
  <1>3. CASE byte # 0
    <2>1. output' = Append(output, byte)
      BY <1>3 DEF Emit
    <2>2. output' \in Seq(Bytes \ {0}) /\ Len(output') = Len(output) + 1 /\ output'[Len(output) + 1] = byte
          /\ \A i \in 1..Len(output) : output'[i] = output[i]
      BY <1>1, <1>3, <2>1
    <2>3. copying' \in {"decoding", "decoded"} /\ (copying' = "decoding" => Len(output) + 1 # Limit)
      BY DEF Emit
    <2>4. QED
      BY <1>1, <1>3, <2>2, <2>3, Numbers DEF BudgetInv
  <1>4. QED
    BY <1>2, <1>3

\* The old events are as good as before.
LEMMA OldEventKeeps ==
  ASSUME CInv, copying = "decoding", NEW byte \in Bytes, Emit(byte), UNCHANGED frame,
         NEW e \in AnyEvent, Lawful(e), Recorded(e)
  PROVE  Lawful(e)' /\ Recorded(e)' /\ e.query < Len(output)
  <1>1. e.query \in Nat /\ e.query < Len(output) /\ output[e.query + 1] = e.chosen
    BY DEF AnyEvent, Recorded
  <1>2. Lawful(e)'
    BY DEF Lawful, MayCopy, Offset
  <1>3. output \in Seq(Bytes \ {0}) /\ output' \in Seq(Bytes \ {0})
    BY EmitAdds DEF CInv, DecodingShape
  <1>4. e.query + 1 \in 1..Len(output) /\ e.query < Len(output')
    BY <1>1, <1>3, EmitAdds
  <1>5. output'[e.query + 1] = e.chosen
    BY <1>1, <1>4, EmitAdds
  <1>6. QED
    BY <1>1, <1>2, <1>4, <1>5 DEF Recorded

LEMMA BegunKeeps ==
  ASSUME CInv, copying = "decoding", NEW byte \in Bytes, Emit(byte), Begun
  PROVE  Begun'
  <1>1. Len(output) \in Nat /\ Len(output') \in Nat /\ Len(Trigger) \in Nat
    BY EmitAdds, Numbers DEF CInv, DecodingShape
  <1>2. QED
    BY <1>1, EmitAdds DEF Begun

LEMMA PlainKeeps ==
  ASSUME CInv, copying = "decoding", NEW base \in Bytes, Plain(base)
  PROVE  CInv'
  <1>1. Emit(base) /\ cursor.mode \in {"ended", "waiting"} /\ UNCHANGED <<frame, cursor, events>>
    BY DEF Plain
  <1>2. DecodingShape'
    BY <1>1, EmitAdds DEF CInv, DecodingShape
  <1>3. EventsInv'
    <2>1. \A i \in 1..Len(events) : events[i] \in AnyEvent
      BY DEF CInv, DecodingShape
    <2>2. \A i \in 1..Len(events) : Lawful(events[i])' /\ Recorded(events[i])'
      BY <1>1, <2>1, OldEventKeeps DEF CInv, EventsInv
    <2>3. events # <<>> => Begun'
      BY <1>1, BegunKeeps DEF CInv, EventsInv
    <2>4. QED
      BY <1>1, <2>2, <2>3 DEF CInv, EventsInv, FollowsOn
  <1>4. CursorInv'
    BY <1>1 DEF CInv, CursorInv
  <1>5. QED
    BY <1>1, <1>2, <1>3, <1>4, EmitAdds DEF CInv

\* One more event, and a cursor that is through or one position further.
LEMMA EventKeeps ==
  ASSUME CInv, copying = "decoding", NEW byte \in Bytes, Emit(byte), UNCHANGED frame,
         NEW e \in AnyEvent, events' = Append(events, e), e.query = Len(output), e.chosen = byte, Lawful(e),
         Begun, IF events = <<>> THEN e.query = Len(Trigger) ELSE FollowsOn(e, events[Len(events)]),
         cursor' \in [mode : {"waiting", "copy", "ended"}, at : Nat],
         cursor'.mode = "ended" \/ (cursor'.mode = "copy" /\ byte # 0 /\ e.kind = "copy" /\ cursor'.at = e.cursor + 1)
  PROVE  CInv'
  <1> DEFINE n == Len(events)
  <1>1. /\ events \in Seq(AnyEvent) /\ n \in Nat
        /\ events' \in Seq(AnyEvent) /\ Len(events') = n + 1 /\ events'[n + 1] = e
        /\ \A i \in 1..n : events'[i] = events[i] /\ events[i] \in AnyEvent
    BY DEF CInv, DecodingShape
  <1>2. DecodingShape'
    BY <1>1, EmitAdds DEF CInv, DecodingShape
  <1>3. Lawful(e)' /\ Recorded(e)'
    <2>1. Lawful(e)'
      BY DEF Lawful, MayCopy, Offset
    <2>2. Len(output) \in Nat
      BY DEF CInv, DecodingShape
    <2>3. Recorded(e)'
      BY <2>2, EmitAdds DEF Recorded
    <2>4. QED
      BY <2>1, <2>3
  <1>4. \A i \in 1..n : Lawful(events[i])' /\ Recorded(events[i])'
    BY <1>1, OldEventKeeps DEF CInv, EventsInv
  <1>5. EventsInv'
    <2>1. ASSUME NEW i \in 1..n
          PROVE  /\ (Lawful(events[i]) /\ Recorded(events[i]))'
                 /\ IF i = 1 THEN events'[i].query = Len(Trigger) ELSE FollowsOn(events'[i], events'[i - 1])
      <3>1. events'[i] = events[i]
        BY <1>1, <2>1
      <3>2. (Lawful(events[i]) /\ Recorded(events[i]))'
        <4>1. PICK d \in AnyEvent : d = events[i]
          BY <1>1, <2>1
        <4>2. Lawful(d) /\ Recorded(d)
          BY <2>1, <4>1 DEF CInv, EventsInv
        <4>3. Lawful(d)' /\ Recorded(d)'
          BY <4>2, OldEventKeeps
        <4>4. QED
          BY <3>1, <4>1, <4>3 DEF Lawful, Recorded, MayCopy, Offset
      <3>3. i # 1 => events'[i - 1] = events[i - 1]
        BY <1>1, <2>1
      <3>4. QED
        BY <2>1, <3>1, <3>2, <3>3 DEF CInv, EventsInv, FollowsOn
    <2>2. /\ \A i \in 1..Len(events') : i = n + 1 => (Lawful(events[i]) /\ Recorded(events[i]))'
          /\ IF n + 1 = 1 THEN events'[n + 1].query = Len(Trigger) ELSE FollowsOn(events'[n + 1], events'[n])
      <3>1. events = <<>> <=> n = 0
        BY <1>1
      <3>2. ASSUME NEW i \in 1..Len(events'), i = n + 1
            PROVE  (Lawful(events[i]) /\ Recorded(events[i]))'
        <4>1. events'[i] = e
          BY <1>1, <3>2
        <4>2. QED
          BY <1>3, <4>1 DEF Lawful, Recorded, MayCopy, Offset
      <3>3. n # 0 => events'[n] = events[n]
        BY <1>1
      <3>4. QED
        BY <1>1, <3>1, <3>2, <3>3 DEF FollowsOn
    <2>3. Begun'
      BY BegunKeeps
    <2>4. \A i \in 1..Len(events') : i \in 1..n \/ i = n + 1
      BY <1>1
    <2>5. QED
      BY <1>1, <2>1, <2>2, <2>3, <2>4 DEF EventsInv, FollowsOn, Lawful, Recorded, MayCopy, Offset
  <1>6. CursorInv'
    <2>1. events' # <<>> /\ events'[Len(events')] = e
      BY <1>1
    <2>2. byte # 0 => Len(output') = Len(output) + 1
      BY EmitAdds
    <2>3. QED
      BY <2>1, <2>2 DEF CursorInv
  <1>7. QED
    BY <1>2, <1>5, <1>6, EmitAdds DEF CInv

LEMMA CopyFromKeeps ==
  ASSUME CInv, copying = "decoding", NEW base \in Bytes, NEW exit \in BOOLEAN, NEW at \in Nat, at >= Left,
         CopyFrom(at, base, exit), UNCHANGED frame, Begun,
         \A e : e.query = Len(output) /\ e.cursor = at =>
           IF events = <<>> THEN e.query = Len(Trigger) ELSE FollowsOn(e, events[Len(events)])
  PROVE  CInv'
  <1>1. Len(output) \in Nat /\ Len(output) < Limit /\ Len(Trigger) \in Nat /\ Len(Trigger) <= Len(output)
    BY Numbers DEF CInv, DecodingShape, BudgetInv, Begun
  <1>2. at \in Visible => frame[at] \in Bytes \ {0}
    BY Numbers DEF Visible, CInv, DecodingShape
  <1>3. Len(output) \in Len(Trigger)..(Limit - 1)
    BY <1>1, Numbers
  <1>4. Ended \in [mode : {"waiting", "copy", "ended"}, at : Nat] /\ Ended.mode = "ended"
    BY DEF Ended
  <1>5. CASE at \notin Visible
    <2> DEFINE e == Event("boundary", at, 0, base, base)
    <2>1. e \in AnyEvent /\ e.query = Len(output) /\ e.cursor = at /\ e.chosen = base /\ e.base = base
          /\ e.kind = "boundary"
      BY <1>1, Numbers DEF AnyEvent, Event
    <2>2. Lawful(e)
      BY <1>3, <1>5, <2>1 DEF Lawful, MayCopy, Visible
    <2>3. events' = Append(events, e) /\ cursor' = Ended /\ Emit(base)
      BY <1>5 DEF CopyFrom
    <2> HIDE DEF e
    <2>4. QED
      BY <1>4, <2>1, <2>2, <2>3, EventKeeps
  <1>6. CASE at \in Visible /\ exit
    <2> DEFINE e == Event("exit", at, frame[at], base, base)
    <2>1. e \in AnyEvent /\ e.query = Len(output) /\ e.cursor = at /\ e.chosen = base /\ e.base = base
          /\ e.kind = "exit" /\ e.source = frame[at]
      BY <1>1, <1>2, <1>6 DEF AnyEvent, Event
    <2>2. Lawful(e)
      BY <1>2, <1>3, <1>6, <2>1 DEF Lawful, MayCopy, Visible
    <2>3. events' = Append(events, e) /\ cursor' = Ended /\ Emit(base)
      BY <1>6 DEF CopyFrom
    <2> HIDE DEF e
    <2>4. QED
      BY <1>4, <2>1, <2>2, <2>3, EventKeeps
  <1>7. CASE at \in Visible /\ ~exit
    <2> DEFINE e == Event("copy", at, frame[at], base, frame[at])
    <2>1. e \in AnyEvent /\ e.query = Len(output) /\ e.cursor = at /\ e.chosen = frame[at]
          /\ e.kind = "copy" /\ e.source = frame[at]
      BY <1>1, <1>2, <1>7 DEF AnyEvent, Event
    <2>2. Lawful(e)
      BY <1>2, <1>3, <1>7, <2>1 DEF Lawful, MayCopy, Visible
    <2>3. events' = Append(events, e) /\ cursor' = CopyingAt(at + 1) /\ Emit(frame[at])
      BY <1>7 DEF CopyFrom
    <2>4. cursor' \in [mode : {"waiting", "copy", "ended"}, at : Nat] /\ cursor'.mode = "copy" /\ cursor'.at = at + 1
      BY <2>3 DEF CopyingAt
    <2> HIDE DEF e
    <2>5. frame[at] \in Bytes /\ frame[at] # 0
      BY <1>2, <1>7
    <2>6. QED
      BY <2>1, <2>2, <2>3, <2>4, <2>5, EventKeeps
  <1>8. QED
    BY <1>5, <1>6, <1>7

LEMMA OpenKeeps ==
  ASSUME CInv, copying = "decoding", NEW base \in Bytes, NEW exit \in BOOLEAN, NEW peak \in Left..Right,
         Open(base, peak, exit)
  PROVE  CInv'
  <1>1. output = Trigger /\ events = <<>> /\ UNCHANGED frame
    BY DEF Open, CInv, CursorInv
  <1>2. CASE Visible = {}
    <2>1. Emit(base) /\ cursor' = Ended /\ events' = <<>>
      BY <1>1, <1>2 DEF Open
    <2>2. DecodingShape'
      BY <1>1, <2>1, EmitAdds DEF CInv, DecodingShape, Ended
    <2>3. EventsInv' /\ CursorInv'
      BY <2>1 DEF EventsInv, CursorInv, Ended
    <2>4. QED
      BY <2>1, <2>2, <2>3, EmitAdds DEF CInv
  <1>3. CASE Visible # {}
    <2>1. Begun
      BY <1>1, Numbers DEF Begun
    <2>2. peak \in Nat /\ peak >= Left
      BY Numbers
    <2>3. CopyFrom(peak, base, exit)
      BY <1>3 DEF Open
    <2>4. QED
      BY <1>1, <2>1, <2>2, <2>3, CopyFromKeeps
  <1>4. QED
    BY <1>2, <1>3

LEMMA GoOnKeeps ==
  ASSUME CInv, copying = "decoding", NEW base \in Bytes, NEW exit \in BOOLEAN, GoOn(base, exit)
  PROVE  CInv'
  <1> DEFINE last == events[Len(events)]
  <1>1. /\ CopyFrom(cursor.at, base, exit) /\ UNCHANGED frame
        /\ events # <<>> /\ last.kind = "copy" /\ Len(output) = last.query + 1 /\ cursor.at = last.cursor + 1
    BY DEF GoOn, CInv, CursorInv
  <1>2. Len(events) \in 1..Len(events)
    BY <1>1 DEF CInv, DecodingShape
  <1>3. last \in AnyEvent /\ Lawful(last) /\ Begun
    BY <1>1, <1>2 DEF CInv, DecodingShape, EventsInv
  <1>4. cursor.at \in Nat /\ cursor.at >= Left
    BY <1>1, <1>3, Numbers DEF Lawful, MayCopy, AnyEvent
  <1>5. \A e : e.query = Len(output) /\ e.cursor = cursor.at => FollowsOn(e, last)
    BY <1>1 DEF FollowsOn
  <1>6. QED
    BY <1>1, <1>3, <1>4, <1>5, CopyFromKeeps

LEMMA DecodingKeeps == CInv /\ [CopyNext]_copyVars => CInv'
  <1> SUFFICES ASSUME CInv, [CopyNext]_copyVars PROVE CInv'
    OBVIOUS
  <1>1. CASE CopyNext
    BY <1>1, PlainKeeps, OpenKeeps, GoOnKeeps DEF CopyNext
  <1>2. CASE UNCHANGED copyVars
    BY <1>2 DEF copyVars, CInv, DecodingShape, BudgetInv, EventsInv, CursorInv, Begun, Lawful, Recorded, MayCopy,
       Offset, FollowsOn
  <1>3. QED
    BY <1>1, <1>2

\* What the invariant says is what the auditor asks.
LEMMA InvariantAudits == CInv => AuditAccepts
  <1> SUFFICES ASSUME CInv PROVE AuditEvents
    BY DEF AuditAccepts
  <1>1. /\ Len(output) \in Nat /\ Len(output) <= Limit /\ \A i \in 1..Len(output) : output[i] # 0
    BY DEF CInv, DecodingShape, BudgetInv
  <1>2. ASSUME NEW i \in 1..Len(events)
        PROVE  EventAudited(events[i])
    <2>1. events[i] \in AnyEvent /\ Lawful(events[i]) /\ Recorded(events[i])
      BY <1>2 DEF CInv, DecodingShape, EventsInv
    <2>2. events[i].chosen = Emitted(events[i].query) /\ events[i].query <= Len(output)
      BY <1>1, <2>1 DEF Recorded, Emitted, AnyEvent
    <2>3. events[i].base \in Bytes /\ events[i].kind \in {"boundary", "exit", "copy"}
      BY <2>1 DEF AnyEvent
    <2>4. QED
      BY <2>1, <2>2, <2>3 DEF EventAudited, Lawful
  <1>3. ASSUME events # <<>>
        PROVE  IsPrefix(Trigger, output)
    <2>1. Begun
      BY <1>3 DEF CInv, EventsInv
    <2>2. output \in Seq(Bytes \ {0}) /\ Trigger \in Seq(Bytes \ {0})
      BY Numbers DEF CInv, DecodingShape
    <2>3. SubSeq(Trigger, 1, Len(Trigger)) = SubSeq(output, 1, Len(Trigger))
      BY <2>1, <2>2 DEF Begun
    <2>4. QED
      BY <2>1, <2>3 DEF Begun, IsPrefix
  <1>4. QED
    BY <1>1, <1>2, <1>3 DEF AuditEvents, CInv, EventsInv

\* Whatever the network answers and wherever the window stands: the record of a
\* decoding by sequential_copy_model passes audit_events.
THEOREM AuditAlwaysAccepts == CopySpec => []AuditAccepts
  <1>1. QED
    BY DecodingStarts, DecodingKeeps, InvariantAudits, PTL DEF CopySpec

-----------------------------------------------------------------------------
(* BeamDecoding, for any vocabulary, costs, width of the beam and budget *)

-----------------------------------------------------------------------------
\* Ranking

LEMMA IntervalSize ==
  ASSUME NEW m \in Nat
  PROVE  /\ IsFiniteSet(1..m) /\ Cardinality(1..m) = m
         /\ IsFiniteSet(0..(m - 1)) /\ Cardinality(0..(m - 1)) = m
<1>1. 0 \in Int /\ 1 \in Int /\ m \in Int /\ m - 1 \in Int
  OBVIOUS
<1>2. IsFiniteSet(1..m) /\ Cardinality(1..m) = IF 1 > m THEN 0 ELSE m - 1 + 1
  BY <1>1, FS_Interval
<1>3. IsFiniteSet(0..(m - 1)) /\ Cardinality(0..(m - 1)) = IF 0 > m - 1 THEN 0 ELSE (m - 1) - 0 + 1
  BY <1>1, FS_Interval
<1> QED
  BY <1>2, <1>3

\* R orders the elements of S strictly, and any two of them.
Orders(R, S) ==
  /\ \A i \in S : <<i, i>> \notin R
  /\ \A i, j \in S : i # j => <<i, j>> \in R \/ <<j, i>> \in R
  /\ \A i, j, k \in S : <<i, j>> \in R /\ <<j, k>> \in R => <<i, k>> \in R

\* The elements before i.
Before(S, R, i) == {j \in S : <<j, i>> \in R}

\* Every place is taken, because no two elements have the same number before them.
LEMMA PlacesTaken ==
  ASSUME NEW S, IsFiniteSet(S), NEW R, Orders(R, S), NEW k \in 1..Cardinality(S)
  PROVE  \E i \in S : Cardinality(Before(S, R, i)) = k - 1
<1> DEFINE n == Cardinality(S)
           rank == [i \in S |-> Cardinality(Before(S, R, i))]
<1>1. n \in Nat
  BY FS_CardinalityType
<1>2. \A i \in S : /\ IsFiniteSet(Before(S, R, i)) /\ Cardinality(Before(S, R, i)) \in 0..(n - 1)
  <2> SUFFICES ASSUME NEW i \in S
               PROVE  IsFiniteSet(Before(S, R, i)) /\ Cardinality(Before(S, R, i)) \in 0..(n - 1)
    OBVIOUS
  <2>1. Before(S, R, i) \in SUBSET (S \ {i})
    BY DEF Before, Orders
  <2>2. IsFiniteSet(S \ {i}) /\ Cardinality(S \ {i}) = n - 1
    BY FS_RemoveElement
  <2>3. IsFiniteSet(Before(S, R, i)) /\ Cardinality(Before(S, R, i)) <= n - 1
    BY <2>1, <2>2, FS_Subset
  <2>4. Cardinality(Before(S, R, i)) \in Nat
    BY <2>3, FS_CardinalityType
  <2> QED
    BY <1>1, <2>3, <2>4
<1>3. ASSUME NEW i \in S, NEW j \in S, <<i, j>> \in R
      PROVE  Cardinality(Before(S, R, i)) # Cardinality(Before(S, R, j))
  <2>1. Before(S, R, i) \in SUBSET Before(S, R, j)
    BY <1>3 DEF Before, Orders
  <2>2. i \in Before(S, R, j) /\ i \notin Before(S, R, i)
    BY <1>3 DEF Before, Orders
  <2> QED
    BY <1>2, <2>1, <2>2, FS_Subset
<1>4. rank \in Injection(S, 0..(n - 1))
  <2>1. rank \in [S -> 0..(n - 1)]
    BY <1>2
  <2>2. \A i, j \in S : rank[i] = rank[j] => i = j
    BY <1>3 DEF Orders
  <2> QED
    BY <2>1, <2>2 DEF Injection, IsInjective
<1>5. IsFiniteSet(0..(n - 1)) /\ Cardinality(0..(n - 1)) = n
  BY <1>1, IntervalSize
<1>6. rank \in Surjection(S, 0..(n - 1))
  BY <1>4, <1>5, FS_Injection
<1>7. k - 1 \in 0..(n - 1)
  BY <1>1
<1> QED
  BY <1>6, <1>7 DEF Surjection

\* A ranking lists elements, as many as there are, and the first is before all others.
LEMMA RankedProperties ==
  ASSUME NEW S, IsFiniteSet(S), NEW R, Orders(R, S)
  PROVE  /\ Cardinality(S) \in Nat
         /\ \A k \in 1..Cardinality(S) : Ranked(S, R)[k] \in S
         /\ S # {} => /\ Cardinality(S) >= 1
                      /\ \A j \in S : j # Ranked(S, R)[1] => <<Ranked(S, R)[1], j>> \in R
<1>1. Cardinality(S) \in Nat
  BY FS_CardinalityType
<1>2. ASSUME NEW k \in 1..Cardinality(S)
      PROVE  Ranked(S, R)[k] \in S /\ Cardinality(Before(S, R, Ranked(S, R)[k])) = k - 1
  <2>1. Ranked(S, R)[k] = CHOOSE i \in S : Cardinality(Before(S, R, i)) = k - 1
    BY DEF Ranked, Before
  <2>2. \E i \in S : Cardinality(Before(S, R, i)) = k - 1
    BY PlacesTaken
  <2> QED
    BY <2>1, <2>2
<1>3. ASSUME S # {}
      PROVE  /\ Cardinality(S) >= 1
             /\ \A j \in S : j # Ranked(S, R)[1] => <<Ranked(S, R)[1], j>> \in R
  <2>1. Cardinality(S) >= 1
    BY <1>1, <1>3, FS_EmptySet
  <2> DEFINE first == Ranked(S, R)[1]
  <2>2. first \in S /\ Cardinality(Before(S, R, first)) = 0
    BY <1>1, <1>2, <2>1
  <2>3. IsFiniteSet(Before(S, R, first))
    <3>1. Before(S, R, first) \in SUBSET S
      BY DEF Before
    <3> QED
      BY <3>1, FS_Subset
  <2>4. Before(S, R, first) = {}
    BY <2>2, <2>3, FS_EmptySet
  <2>5. \A j \in S : j # first => <<first, j>> \in R
    BY <2>2, <2>4 DEF Before, Orders
  <2> QED
    BY <2>1, <2>5
<1> QED
  BY <1>1, <1>2, <1>3

-----------------------------------------------------------------------------
\* Sorting and filtering

\* The first of the cheapest entries of s stands at i.
FirstCheapest(s, i) ==
  /\ i \in 1..Len(s)
  /\ \A j \in 1..Len(s) : s[i].cost < s[j].cost \/ (s[i].cost = s[j].cost /\ i <= j)

LEMMA CheaperOrders ==
  ASSUME NEW X, NEW s \in Seq(X), \A i \in 1..Len(s) : s[i].cost \in Nat
  PROVE  Orders(Cheaper(s), 1..Len(s)) /\ IsFiniteSet(1..Len(s)) /\ Cardinality(1..Len(s)) = Len(s)
<1>1. Len(s) \in Nat
  OBVIOUS
<1>2. IsFiniteSet(1..Len(s)) /\ Cardinality(1..Len(s)) = Len(s)
  BY <1>1, IntervalSize
<1>3. \A i, j \in 1..Len(s) : <<i, j>> \in Cheaper(s) <=>
        s[i].cost < s[j].cost \/ (s[i].cost = s[j].cost /\ i < j)
  BY DEF Cheaper
<1>4. Orders(Cheaper(s), 1..Len(s))
  BY <1>1, <1>3 DEF Orders
<1> QED
  BY <1>2, <1>4

\* A sorted sequence holds entries of the one it was made of, and the first is the
\* first of the cheapest.
LEMMA CheapestProperties ==
  ASSUME NEW X, NEW s \in Seq(X), \A i \in 1..Len(s) : s[i].cost \in Nat, NEW n \in Nat \ {0}
  PROVE  /\ Cheapest(s, n) \in Seq(X)
         /\ Len(Cheapest(s, n)) = IF Len(s) < n THEN Len(s) ELSE n
         /\ \A k \in 1..Len(Cheapest(s, n)) : \E i \in 1..Len(s) : Cheapest(s, n)[k] = s[i]
         /\ s # <<>> => \E i \in 1..Len(s) : FirstCheapest(s, i) /\ Cheapest(s, n)[1] = s[i]
<1> DEFINE S == 1..Len(s)
           ranked == Ranked(S, Cheaper(s))
           m == IF Len(s) < n THEN Len(s) ELSE n
<1>1. Len(s) \in Nat /\ m \in Nat /\ m <= Len(s)
  OBVIOUS
<1>2. Orders(Cheaper(s), S) /\ IsFiniteSet(S) /\ Cardinality(S) = Len(s)
  BY CheaperOrders
<1>3. /\ \A k \in 1..Len(s) : ranked[k] \in S
      /\ S # {} => \A j \in S : j # ranked[1] => <<ranked[1], j>> \in Cheaper(s)
  BY <1>2, RankedProperties
<1>4. Cheapest(s, n) = [k \in 1..m |-> s[ranked[k]]]
  BY DEF Cheapest
<1>5. \A i \in S : s[i] \in X
  OBVIOUS
<1> HIDE DEF m, ranked
<1>6. Cheapest(s, n) \in Seq(X) /\ Len(Cheapest(s, n)) = m
  BY <1>1, <1>3, <1>4, <1>5
<1>7. \A k \in 1..m : ranked[k] \in S /\ Cheapest(s, n)[k] = s[ranked[k]]
  BY <1>1, <1>3, <1>4
<1>8. ASSUME s # <<>>
      PROVE  \E i \in S : FirstCheapest(s, i) /\ Cheapest(s, n)[1] = s[i]
  <2>1. Len(s) >= 1 /\ 1 \in 1..m /\ S # {}
    BY <1>1, <1>8, EmptySeq DEF m
  <2>2. ranked[1] \in S /\ Cheapest(s, n)[1] = s[ranked[1]]
    BY <1>7, <2>1
  <2>3. \A j \in S : j # ranked[1] => <<ranked[1], j>> \in Cheaper(s)
    BY <1>3, <2>1
  <2>4. \A j \in S : j # ranked[1] =>
          s[ranked[1]].cost < s[j].cost \/ (s[ranked[1]].cost = s[j].cost /\ ranked[1] < j)
    BY <2>3 DEF Cheaper
  <2>5. FirstCheapest(s, ranked[1])
    BY <2>2, <2>4 DEF FirstCheapest
  <2> QED
    BY <2>2, <2>5
<1> QED
  BY <1>6, <1>7, <1>8 DEF m

\* Best is the first of the cheapest.
LEMMA BestProperties ==
  ASSUME NEW X, NEW s \in Seq(X), \A i \in 1..Len(s) : s[i].cost \in Nat, s # <<>>
  PROVE  \E i \in 1..Len(s) : FirstCheapest(s, i) /\ Best(s) = s[i]
BY CheapestProperties DEF Best

\* There is one first of the cheapest.
LEMMA FirstCheapestIsOne ==
  ASSUME NEW s, Len(s) \in Nat, \A i \in 1..Len(s) : s[i].cost \in Nat,
         NEW i, NEW j, FirstCheapest(s, i), FirstCheapest(s, j)
  PROVE  i = j
BY DEF FirstCheapest

\* Later entries that are not cheaper do not change it.
LEMMA BestStays ==
  ASSUME NEW X, NEW s \in Seq(X), NEW t \in Seq(X), s # <<>>,
         \A i \in 1..Len(s) : s[i].cost \in Nat,
         \A i \in 1..Len(t) : t[i].cost \in Nat /\ Best(s).cost <= t[i].cost
  PROVE  Best(s \o t) = Best(s)
<1> DEFINE u == s \o t
<1>1. /\ u \in Seq(X) /\ Len(u) = Len(s) + Len(t)
      /\ Len(s) \in Nat /\ Len(t) \in Nat /\ Len(s) >= 1
      /\ \A i \in 1..Len(s) : u[i] = s[i]
      /\ \A i \in (Len(s) + 1)..Len(u) : u[i] = t[i - Len(s)] /\ i - Len(s) \in 1..Len(t)
  BY ConcatProperties, EmptySeq
<1>2. PICK i \in 1..Len(s) : FirstCheapest(s, i) /\ Best(s) = s[i]
  BY BestProperties
<1> HIDE DEF u
<1>3. ASSUME NEW j \in 1..Len(u) PROVE u[j].cost \in Nat
  <2>1. CASE j <= Len(s)
    BY <1>1, <2>1
  <2>2. CASE j > Len(s)
    <3>1. j \in (Len(s) + 1)..Len(u)
      BY <1>1, <2>2
    <3> QED
      BY <1>1, <3>1
  <2> QED
    BY <1>1, <2>1, <2>2
<1>4. FirstCheapest(u, i)
  <2>1. i \in 1..Len(u) /\ u[i] = s[i] /\ s[i].cost \in Nat
    BY <1>1
  <2>2. ASSUME NEW j \in 1..Len(u), j <= Len(s)
        PROVE  u[i].cost < u[j].cost \/ (u[i].cost = u[j].cost /\ i <= j)
    BY <1>1, <1>2, <2>1, <2>2 DEF FirstCheapest
  <2>3. ASSUME NEW j \in 1..Len(u), j > Len(s)
        PROVE  u[i].cost < u[j].cost \/ (u[i].cost = u[j].cost /\ i <= j)
    <3>1. u[j] = t[j - Len(s)] /\ j - Len(s) \in 1..Len(t)
      <4>1. j \in (Len(s) + 1)..Len(u)
        BY <1>1, <2>3
      <4> QED
        BY <1>1, <4>1
    <3>2. u[i].cost <= u[j].cost /\ u[j].cost \in Nat
      BY <1>2, <2>1, <3>1
    <3> QED
      BY <1>1, <2>1, <2>3, <3>2
  <2> QED
    BY <1>1, <2>1, <2>2, <2>3 DEF FirstCheapest
<1>5. u # <<>>
  BY <1>1, EmptySeq
<1>6. PICK j \in 1..Len(u) : FirstCheapest(u, j) /\ Best(u) = u[j]
  BY <1>1, <1>3, <1>5, BestProperties
<1>7. i = j
  <2>1. Len(u) \in Nat /\ FirstCheapest(u, i) /\ FirstCheapest(u, j)
    BY <1>1, <1>4, <1>6
  <2> QED
    BY <1>3, <2>1, FirstCheapestIsOne
<1> QED
  BY <1>1, <1>2, <1>6, <1>7 DEF u

\* A filtered sequence holds the entries of its kinds, and is empty if there are none.
LEMMA OfProperties ==
  ASSUME NEW X, NEW s \in Seq(X), NEW kinds
  PROVE  /\ Of(s, kinds) \in Seq(X)
         /\ \A k \in 1..Len(Of(s, kinds)) :
              \E i \in 1..Len(s) : Of(s, kinds)[k] = s[i] /\ s[i].kind \in kinds
         /\ (\E i \in 1..Len(s) : s[i].kind \in kinds) => Of(s, kinds) # <<>>
<1> DEFINE chosen == {i \in 1..Len(s) : s[i].kind \in kinds}
           before == {pair \in chosen \X chosen : pair[1] < pair[2]}
           ranked == Ranked(chosen, before)
           m == Cardinality(chosen)
<1>1. Len(s) \in Nat /\ \A i \in 1..Len(s) : s[i] \in X
  OBVIOUS
<1>2. IsFiniteSet(chosen)
  <2>1. IsFiniteSet(1..Len(s))
    BY <1>1, IntervalSize
  <2>2. chosen \in SUBSET (1..Len(s))
    OBVIOUS
  <2> QED
    BY <2>1, <2>2, FS_Subset
<1>3. Orders(before, chosen)
  <2>1. chosen \subseteq Nat
    BY <1>1
  <2>2. \A i, j \in chosen : <<i, j>> \in before <=> i < j
    OBVIOUS
  <2> HIDE DEF chosen, before
  <2> QED
    BY <2>1, <2>2 DEF Orders
<1>4. /\ m \in Nat /\ \A k \in 1..m : ranked[k] \in chosen
      /\ chosen # {} => m >= 1
  <2> HIDE DEF chosen, before
  <2> QED
    BY <1>2, <1>3, RankedProperties
<1>5. Of(s, kinds) = [k \in 1..m |-> s[ranked[k]]]
  BY DEF Of
<1>6. \A i \in chosen : i \in 1..Len(s) /\ s[i] \in X /\ s[i].kind \in kinds
  BY <1>1
<1>7. (\E i \in 1..Len(s) : s[i].kind \in kinds) => chosen # {}
  OBVIOUS
<1> HIDE DEF chosen, ranked, m
<1>8. /\ Of(s, kinds) \in Seq(X) /\ Len(Of(s, kinds)) = m
      /\ \A k \in 1..m : Of(s, kinds)[k] = s[ranked[k]]
  BY <1>4, <1>5, <1>6
<1>9. chosen # {} => Of(s, kinds) # <<>>
  BY <1>4, <1>8, EmptySeq
<1> QED
  BY <1>4, <1>6, <1>7, <1>8, <1>9

-----------------------------------------------------------------------------
\* One depth of the search

\* Entries, those that are still open after n tokens, and ends within the budget.
Entries == [cost : Nat, count : Nat, body : Seq(Nat), kind : {"none", "open", "end", "function"}]
OpenAt(n) == {e \in Entries : e.kind = "open" /\ e.count = n}
EndEntries == {e \in Entries : e.kind \in {"end", "function"} /\ e.count \in 1..MaxNew}
Functions == {e \in EndEntries : e.kind = "function"}
After(n) == {e \in Entries : e.kind \in {"open", "end", "function"} /\ e.count = n}

LEMMA Bounds ==
  /\ Vocabulary \in Nat /\ Costs \subseteq Nat /\ Top \in Nat \ {0} /\ Top <= Vocabulary
  /\ Beam \in Nat \ {0} /\ MaxNew \in Nat \ {0}
BY BeamConstants

\* As many tokens are tried as may be.
LEMMA TriedProperties ==
  ASSUME NEW costs \in [Tokens -> Costs]
  PROVE  Tried(costs) \in Seq([token : Nat, cost : Nat]) /\ Len(Tried(costs)) = Top
<1> DEFINE all == [t \in 1..Vocabulary |-> [token |-> t - 1, cost |-> costs[t - 1]]]
<1>1. \A t \in 1..Vocabulary : t - 1 \in Nat /\ costs[t - 1] \in Nat
  <2> SUFFICES ASSUME NEW t \in 1..Vocabulary PROVE t - 1 \in Nat /\ costs[t - 1] \in Nat
    OBVIOUS
  <2>1. t - 1 \in Nat /\ t - 1 \in Tokens
    BY Bounds DEF Tokens
  <2>2. costs[t - 1] \in Costs
    BY <2>1
  <2> QED
    BY <2>1, <2>2, Bounds
<1>2. /\ all \in Seq([token : Nat, cost : Nat]) /\ Len(all) = Vocabulary
      /\ \A i \in 1..Len(all) : all[i].cost \in Nat
  BY <1>1, Bounds
<1>3. Tried(costs) = Cheapest(all, Top)
  BY DEF Tried
<1> HIDE DEF all
<1>4. /\ Cheapest(all, Top) \in Seq([token : Nat, cost : Nat])
      /\ Len(Cheapest(all, Top)) = IF Len(all) < Top THEN Len(all) ELSE Top
  BY <1>2, Bounds, CheapestProperties
<1> QED
  BY <1>2, <1>3, <1>4, Bounds

\* Position p of n rows of t stands in a row, at a place of it.
LEMMA Row ==
  ASSUME NEW n \in Nat, NEW t \in Nat \ {0}, NEW p \in 1..(n * t)
  PROVE  ((p - 1) \div t) + 1 \in 1..n /\ ((p - 1) % t) + 1 \in 1..t
<1> DEFINE q == (p - 1) \div t
<1>1. n * t \in Nat /\ p - 1 \in Nat /\ p - 1 < n * t
  OBVIOUS
<1>2. q \in Nat /\ q * t <= p - 1 /\ (p - 1) % t \in 0..(t - 1)
  BY <1>1
<1>3. q < n
  <2> SUFFICES ASSUME q >= n PROVE FALSE
    BY <1>2
  <2> DEFINE d == q - n
  <2>1. d \in Nat /\ q = n + d
    BY <1>2
  <2> HIDE DEF d, q
  <2>2. q * t = n * t + d * t /\ d * t \in Nat
    BY <2>1
  <2> QED
    BY <1>1, <1>2, <2>2
<1> QED
  BY <1>2, <1>3

\* An entry with one more token is no cheaper.
LEMMA ExtendedProperties ==
  ASSUME NEW n \in Nat, NEW e \in OpenAt(n), NEW t \in [token : Nat, cost : Nat], NEW ok \in BOOLEAN
  PROVE  Extended(e, t, ok) \in After(n + 1) /\ e.cost <= Extended(e, t, ok).cost
<1>1. /\ e.cost \in Nat /\ e.count = n /\ e.body \in Seq(Nat)
      /\ t.cost \in Nat /\ t.token \in Nat
  BY DEF OpenAt, Entries
<1>2. e.cost + t.cost \in Nat /\ e.cost <= e.cost + t.cost
  BY <1>1
<1>3. Append(e.body, t.token) \in Seq(Nat)
  BY <1>1
<1> DEFINE body == IF t.token = 0 THEN e.body ELSE Append(e.body, t.token)
           kind == IF t.token # 0 THEN "open" ELSE IF ok THEN "function" ELSE "end"
<1>4. body \in Seq(Nat) /\ kind \in {"open", "end", "function"}
  BY <1>1, <1>3
<1>5. Extended(e, t, ok) = [cost |-> e.cost + t.cost, count |-> n + 1, body |-> body, kind |-> kind]
  BY <1>1 DEF Extended
<1> HIDE DEF body, kind
<1> QED
  BY <1>2, <1>4, <1>5 DEF After, Entries

\* Every candidate extends an open entry, and there is one if there is an open entry.
LEMMA ExpandedProperties ==
  ASSUME NEW n \in Nat, beam \in Seq(OpenAt(n)),
         NEW costs \in [1..Len(beam) -> [Tokens -> Costs]], NEW good
  PROVE  /\ Expanded(costs, good) \in Seq(After(n + 1))
         /\ \A p \in 1..Len(Expanded(costs, good)) :
              \E i \in 1..Len(beam) : beam[i].cost <= Expanded(costs, good)[p].cost
         /\ beam # <<>> => Len(Expanded(costs, good)) >= 1
<1> DEFINE tried == [i \in 1..Len(beam) |-> Tried(costs[i])]
           Entry(i, k) == Extended(beam[i], tried[i][k], i \in good)
           size == Len(beam) * Top
           all == [p \in 1..size |-> Entry(((p - 1) \div Top) + 1, ((p - 1) % Top) + 1)]
<1>1. Len(beam) \in Nat /\ \A i \in 1..Len(beam) : beam[i] \in OpenAt(n)
  OBVIOUS
<1>2. size \in Nat /\ (beam # <<>> => size >= 1)
  <2>1. size \in Nat
    BY <1>1, Bounds
  <2>2. ASSUME NEW a \in Nat \ {0}, NEW b \in Nat \ {0} PROVE a * b >= 1
    OBVIOUS
  <2>3. beam # <<>> => Len(beam) \in Nat \ {0}
    BY EmptySeq
  <2> QED
    BY <2>1, <2>2, <2>3, Bounds
<1>3. \A i \in 1..Len(beam) : tried[i] \in Seq([token : Nat, cost : Nat]) /\ Len(tried[i]) = Top
  BY TriedProperties
<1>4. ASSUME NEW i \in 1..Len(beam), NEW k \in 1..Top
      PROVE  Entry(i, k) \in After(n + 1) /\ beam[i].cost <= Entry(i, k).cost
  <2>1. tried[i][k] \in [token : Nat, cost : Nat]
    <3> DEFINE s == tried[i]
    <3>1. s \in Seq([token : Nat, cost : Nat]) /\ k \in 1..Len(s)
      BY <1>3
    <3> HIDE DEF s
    <3>2. s[k] \in [token : Nat, cost : Nat]
      BY <3>1, ElementOfSeq
    <3> QED
      BY <3>2 DEF s
  <2>2. beam[i] \in OpenAt(n) /\ (i \in good) \in BOOLEAN
    BY <1>1
  <2> HIDE DEF tried
  <2> QED
    BY <2>1, <2>2, ExtendedProperties
<1>5. Expanded(costs, good) = all
  BY DEF Expanded
<1>6. ASSUME NEW p \in 1..size
      PROVE  /\ all[p] \in After(n + 1)
             /\ \E i \in 1..Len(beam) : beam[i].cost <= all[p].cost
  <2>1. ((p - 1) \div Top) + 1 \in 1..Len(beam) /\ ((p - 1) % Top) + 1 \in 1..Top
    BY <1>1, Bounds, Row
  <2>2. all[p] = Entry(((p - 1) \div Top) + 1, ((p - 1) % Top) + 1)
    OBVIOUS
  <2> HIDE DEF Entry, all
  <2> QED
    BY <1>4, <2>1, <2>2
<1>7. all \in Seq(After(n + 1)) /\ Len(all) = size
  <2>1. \A p \in 1..size : all[p] \in After(n + 1)
    BY <1>6
  <2>2. all = [p \in 1..size |-> all[p]]
    OBVIOUS
  <2> HIDE DEF all, size
  <2> QED
    BY <1>2, <2>1, <2>2
<1> HIDE DEF all, size
<1> QED
  BY <1>2, <1>5, <1>6, <1>7

-----------------------------------------------------------------------------
\* The early stop

\* What an early stop answered is the first of the best functions, and no open entry
\* is cheaper.  An entry that is extended gets no cheaper, so none ever will be.
StopInv ==
  stopped # Nothing =>
    /\ finished # <<>> /\ Best(finished) = stopped
    /\ \A i \in 1..Len(beam) : stopped.cost <= beam[i].cost

\* The search has found an end or can go on.
BeamShape ==
  /\ beam \in Seq(OpenAt(step)) /\ finished \in Seq(Functions)
  /\ fallback \in EndEntries \cup {Nothing}
  /\ beam # <<>> \/ finished # <<>> \/ fallback # Nothing

BeamInv ==
  /\ step \in 0..MaxNew
  /\ search \in {"legacy", "beam", "error", "done"}
  /\ search = "legacy" =>
       /\ step < MaxNew /\ beam = <<Empty>> /\ finished = <<>>
       /\ fallback = Nothing /\ stopped = Nothing
  /\ search = "beam" => BeamShape /\ StopInv
  /\ EarlyStopIsSound

\* An empty entry is open after no token.
LEMMA EmptyIsOpen == <<Empty>> \in Seq(OpenAt(0)) /\ <<Empty>> # <<>>
<1>1. Empty \in OpenAt(0)
  <2>1. Empty = [cost |-> 0, body |-> <<>>, count |-> 0, kind |-> "open"]
    BY DEF Empty, Nothing
  <2>2. <<>> \in Seq(Nat)
    OBVIOUS
  <2>3. [cost |-> 0, body |-> <<>>, count |-> 0, kind |-> "open"] \in Entries
    BY <2>2 DEF Entries
  <2> QED
    BY <2>1, <2>3 DEF OpenAt
<1> QED
  BY <1>1

LEMMA BeamStarts == BeamInit => BeamInv
<1> SUFFICES ASSUME BeamInit PROVE BeamInv
  OBVIOUS
<1>1. <<>> \in Seq(Functions)
  OBVIOUS
<1>2. BeamShape /\ StopInv
  BY <1>1, EmptyIsOpen DEF BeamInit, BeamShape, StopInv
<1> QED
  BY <1>2, Bounds DEF BeamInit, BeamInv, EarlyStopIsSound

\* The greedy attempt answers, or leaves the beam search as it begins.
LEMMA LegacyKept ==
  ASSUME BeamInv, LegacyToken
  PROVE  BeamInv'
<1>1. /\ search = "legacy" /\ step \in Nat /\ step < MaxNew /\ MaxNew \in Nat
      /\ beam = <<Empty>> /\ finished = <<>> /\ fallback = Nothing /\ stopped = Nothing
      /\ UNCHANGED <<beam, finished, fallback, stopped>>
  BY Bounds DEF BeamInv, LegacyToken
<1>2. CASE search' = "done" /\ step' = 0 /\ answer' = [Nothing EXCEPT !.count = step + 1, !.kind = "function"]
  <2>1. answer'.count = step + 1
    BY <1>2 DEF Nothing
  <2>2. answer'.count \in 1..MaxNew
    BY <1>1, <2>1
  <2> QED
    BY <1>1, <1>2, <2>2 DEF BeamInv, EarlyStopIsSound, Response
<1>3. CASE search' = "beam" /\ step' = 0
  <2>1. <<>> \in Seq(Functions)
    OBVIOUS
  <2>2. BeamShape' /\ StopInv'
    BY <1>1, <1>3, <2>1, EmptyIsOpen DEF BeamShape, StopInv
  <2> QED
    BY <1>1, <1>3, <2>2 DEF BeamInv, EarlyStopIsSound
<1>4. CASE search' = "legacy" /\ step' = step + 1 /\ step + 1 # MaxNew
  <2>1. step' \in 0..MaxNew /\ step' < MaxNew
    BY <1>1, <1>4
  <2> QED
    BY <1>1, <1>4, <2>1 DEF BeamInv, EarlyStopIsSound
<1> QED
  BY <1>1, <1>2, <1>3, <1>4 DEF LegacyToken, LegacyEnds

LEMMA ErrorKept ==
  ASSUME BeamInv, BeamError
  PROVE  BeamInv'
BY DEF BeamInv, BeamError, EarlyStopIsSound

\* Entries of any kind have a cost.
LEMMA Costed ==
  ASSUME NEW X, X \subseteq Entries, NEW s \in Seq(X)
  PROVE  \A i \in 1..Len(s) : s[i] \in X /\ s[i].cost \in Nat
BY ElementOfSeq DEF Entries

\* The best of some entries is one of them.
LEMMA BestIsOne ==
  ASSUME NEW X, X \subseteq Entries, NEW s \in Seq(X), s # <<>>
  PROVE  Best(s) \in X
BY Costed, BestProperties

\* The answer at the end is a function if one was found, the early one if there was
\* one, and within the budget.
LEMMA FinishKept ==
  ASSUME BeamInv, Finish
  PROVE  BeamInv'
<1>1. /\ search = "beam" /\ BeamShape /\ StopInv
      /\ step = MaxNew \/ beam = <<>>
      /\ search' = "done" /\ answer' = Choice(finished, fallback, beam)
      /\ UNCHANGED <<step, beam, finished, fallback, stopped>>
      /\ MaxNew \in Nat \ {0}
  BY Bounds DEF BeamInv, Finish
<1>2. /\ EndEntries \subseteq Entries /\ Functions \subseteq EndEntries
      /\ \A e \in EndEntries : e.count \in 1..MaxNew
      /\ Nothing \notin EndEntries
  BY DEF EndEntries, Functions, Nothing
<1>3. CASE finished # <<>>
  <2>1. answer' = Best(finished) /\ Best(finished) \in Functions
    BY <1>1, <1>2, <1>3, BestIsOne DEF Choice, BeamShape
  <2>2. stopped # Nothing => stopped = Best(finished)
    BY <1>1 DEF StopInv
  <2>3. Response' = Best(finished)
    BY <1>1, <2>1, <2>2 DEF Response
  <2>4. Best(finished).kind = "function" /\ Best(finished).count \in 1..MaxNew
    BY <1>2, <2>1 DEF Functions
  <2> QED
    BY <1>1, <2>1, <2>2, <2>3, <2>4 DEF BeamInv, EarlyStopIsSound
<1>4. CASE finished = <<>>
  <2>1. stopped = Nothing /\ Response' = answer'
    BY <1>1, <1>4 DEF StopInv, Response
  <2>2. answer'.count \in 1..MaxNew
    <3>1. CASE beam = <<>>
      BY <1>1, <1>2, <1>4, <3>1 DEF Choice, BeamShape
    <3>2. CASE beam # <<>>
      <4> DEFINE Offered == EndEntries \cup OpenAt(step)
                 first == IF fallback = Nothing THEN <<>> ELSE <<fallback>>
      <4>1. step = MaxNew
        BY <1>1, <3>2
      <4>2. Offered \subseteq Entries /\ \A e \in Offered : e.count \in 1..MaxNew
        BY <1>1, <1>2, <4>1 DEF OpenAt
      <4>3. first \in Seq(Offered) /\ beam \in Seq(Offered)
        <5>1. beam \in Seq(OpenAt(step)) /\ OpenAt(step) \subseteq Offered
          BY <1>1 DEF BeamShape
        <5>2. fallback # Nothing => fallback \in Offered
          BY <1>1 DEF BeamShape
        <5> HIDE DEF Offered
        <5> QED
          BY <5>1, <5>2
      <4>4. Choice(finished, fallback, beam) = Best(first \o beam)
        BY <1>4, <3>2 DEF Choice
      <4> HIDE DEF Offered, first
      <4>5. first \o beam \in Seq(Offered) /\ first \o beam # <<>>
        BY <3>2, <4>3, ConcatProperties, EmptySeq
      <4>6. Best(first \o beam) \in Offered
        BY <4>2, <4>5, BestIsOne
      <4> QED
        BY <1>1, <4>2, <4>4, <4>6
    <3> QED
      BY <3>1, <3>2
  <2> QED
    BY <1>1, <1>4, <2>1, <2>2 DEF BeamInv, EarlyStopIsSound
<1> QED
  BY <1>3, <1>4

\* A sequence is one of whatever its elements are.
LEMMA Retyped ==
  ASSUME NEW X, NEW Y, NEW s \in Seq(X), \A i \in 1..Len(s) : s[i] \in Y
  PROVE  s \in Seq(Y)
<1>1. Len(s) \in Nat /\ s = [i \in 1..Len(s) |-> s[i]]
  BY LenProperties
<1> QED
  BY <1>1

\* One depth: every candidate extends an open entry, so what a stop answered stays the
\* best, and ends, functions and the open entries kept are candidates.
LEMMA DeepenKept ==
  ASSUME BeamInv,
         NEW costs \in [1..Len(beam) -> [Tokens -> Costs]], NEW good \in SUBSET (1..Len(beam)),
         Deepen(costs, good)
  PROVE  BeamInv'
<1> DEFINE all == Expanded(costs, good)
           ends == Of(all, {"end", "function"})
           new == Of(all, {"function"})
           done == finished \o new
           left == Of(all, {"open"})
           open == Cheapest(left, Beam)
           first == IF fallback = Nothing THEN <<>> ELSE <<fallback>>
           best == Best(first \o ends)
<1>1. /\ search = "beam" /\ step \in Nat /\ step < MaxNew /\ MaxNew \in Nat /\ beam # <<>>
      /\ step' = step + 1 /\ search' = search
      /\ beam' = open /\ finished' = done
      /\ fallback' = IF ends = <<>> THEN fallback ELSE best
      /\ stopped' = IF stopped = Nothing /\ NothingOpenCanWin(done, open) THEN Best(done) ELSE stopped
      /\ BeamShape /\ StopInv
  BY Bounds DEF BeamInv, Deepen
<1>2. /\ After(step + 1) \subseteq Entries /\ EndEntries \subseteq Entries /\ Functions \subseteq EndEntries
      /\ \A e \in After(step + 1) : e.kind \in {"end", "function"} => e \in EndEntries
      /\ \A e \in After(step + 1) : e.kind = "function" => e \in Functions
      /\ \A e \in After(step + 1) : e.kind = "open" => e \in OpenAt(step + 1)
      /\ \A e \in After(step + 1) : e.kind \in {"open", "end", "function"}
      /\ OpenAt(step + 1) \subseteq Entries /\ Nothing \notin EndEntries
  BY <1>1 DEF After, EndEntries, Functions, OpenAt, Nothing
<1>3. /\ all \in Seq(After(step + 1)) /\ Len(all) >= 1 /\ Len(all) \in Nat
      /\ \A p \in 1..Len(all) : \E i \in 1..Len(beam) : beam[i].cost <= all[p].cost
  BY <1>1, ExpandedProperties, LenProperties DEF BeamShape
<1> HIDE DEF all
<1>4. \A p \in 1..Len(all) : all[p] \in After(step + 1) /\ all[p].cost \in Nat
  BY <1>2, <1>3, Costed
<1>5. ends \in Seq(EndEntries) /\ ((\E p \in 1..Len(all) : all[p].kind \in {"end", "function"}) => ends # <<>>)
  <2>1. /\ ends \in Seq(After(step + 1))
        /\ \A k \in 1..Len(ends) :
             \E p \in 1..Len(all) : ends[k] = all[p] /\ all[p].kind \in {"end", "function"}
        /\ (\E p \in 1..Len(all) : all[p].kind \in {"end", "function"}) => ends # <<>>
    BY <1>3, OfProperties
  <2> HIDE DEF ends
  <2>2. \A k \in 1..Len(ends) : ends[k] \in EndEntries
    BY <1>2, <1>4, <2>1
  <2> QED
    BY <2>1, <2>2, Retyped
<1>6. /\ new \in Seq(Functions)
      /\ \A k \in 1..Len(new) : \E p \in 1..Len(all) : new[k] = all[p]
  <2>1. /\ new \in Seq(After(step + 1))
        /\ \A k \in 1..Len(new) :
             \E p \in 1..Len(all) : new[k] = all[p] /\ all[p].kind \in {"function"}
    BY <1>3, OfProperties
  <2> HIDE DEF new
  <2>2. \A k \in 1..Len(new) : new[k] \in Functions
    BY <1>2, <1>4, <2>1
  <2> QED
    BY <2>1, <2>2, Retyped
<1>7. /\ left \in Seq(OpenAt(step + 1))
      /\ \A k \in 1..Len(left) : \E p \in 1..Len(all) : left[k] = all[p]
      /\ (\E p \in 1..Len(all) : all[p].kind = "open") => left # <<>>
  <2>1. /\ left \in Seq(After(step + 1))
        /\ \A k \in 1..Len(left) :
             \E p \in 1..Len(all) : left[k] = all[p] /\ all[p].kind \in {"open"}
        /\ (\E p \in 1..Len(all) : all[p].kind \in {"open"}) => left # <<>>
    BY <1>3, OfProperties
  <2> HIDE DEF left
  <2>2. \A k \in 1..Len(left) : left[k] \in OpenAt(step + 1)
    BY <1>2, <1>4, <2>1
  <2> QED
    BY <2>1, <2>2, Retyped
<1> HIDE DEF ends, new, left
<1>8. \A i \in 1..Len(left) : left[i] \in OpenAt(step + 1) /\ left[i].cost \in Nat
  BY <1>2, <1>7, Costed
<1>9. /\ open \in Seq(OpenAt(step + 1))
      /\ Len(open) = IF Len(left) < Beam THEN Len(left) ELSE Beam
      /\ \A k \in 1..Len(open) : \E i \in 1..Len(left) : open[k] = left[i]
      /\ left # <<>> => \E i \in 1..Len(left) : FirstCheapest(left, i) /\ open[1] = left[i]
  BY <1>7, <1>8, Bounds, CheapestProperties
<1> HIDE DEF open
<1>10. left # <<>> => open # <<>>
  <2>1. left # <<>> => Len(left) \in Nat \ {0}
    BY <1>7, EmptySeq
  <2> QED
    BY <1>9, <2>1, Bounds, EmptySeq
<1>11. \A k \in 1..Len(open) : open[k].cost \in Nat /\ open[1].cost <= open[k].cost
  <2> SUFFICES ASSUME NEW k \in 1..Len(open)
               PROVE  open[k].cost \in Nat /\ open[1].cost <= open[k].cost
    OBVIOUS
  <2>1. PICK j \in 1..Len(left) : open[k] = left[j]
    BY <1>9
  <2>2. left # <<>>
    BY <2>1, EmptySeq
  <2>3. PICK i \in 1..Len(left) : FirstCheapest(left, i) /\ open[1] = left[i]
    BY <1>9, <2>2
  <2> QED
    BY <1>8, <2>1, <2>3 DEF FirstCheapest
<1>12. done \in Seq(Functions) /\ (finished # <<>> => done # <<>>)
  BY <1>1, <1>6, ConcatProperties, EmptySeq DEF BeamShape
<1>13. first \in Seq(EndEntries)
  BY <1>1 DEF BeamShape
<1>14. ends # <<>> => best \in EndEntries
  <2> HIDE DEF first
  <2>1. first \o ends \in Seq(EndEntries) /\ (ends # <<>> => first \o ends # <<>>)
    BY <1>5, <1>13, ConcatProperties, EmptySeq
  <2> QED
    BY <1>2, <2>1, BestIsOne
<1> HIDE DEF first, best
<1>15. BeamShape'
  <2>1. beam' # <<>> \/ fallback' # Nothing
    <3>1. all[1].kind \in {"open", "end", "function"} /\ 1 \in 1..Len(all)
      BY <1>2, <1>3, <1>4
    <3>2. CASE all[1].kind = "open"
      BY <1>1, <1>7, <1>10, <3>1, <3>2
    <3>3. CASE all[1].kind \in {"end", "function"}
      <4>1. ends # <<>>
        BY <1>5, <3>1, <3>3
      <4> QED
        BY <1>1, <1>2, <1>14, <4>1
    <3> QED
      BY <3>1, <3>2, <3>3
  <2>2. fallback' \in EndEntries \cup {Nothing}
    BY <1>1, <1>14 DEF BeamShape
  <2> QED
    BY <1>1, <1>9, <1>12, <2>1, <2>2 DEF BeamShape
<1>16. StopInv'
  <2>1. CASE stopped # Nothing
    <3>1. /\ stopped' = stopped /\ finished # <<>> /\ Best(finished) = stopped
          /\ \A i \in 1..Len(beam) : stopped.cost <= beam[i].cost
      BY <1>1, <2>1 DEF StopInv
    <3>2. stopped.cost \in Nat /\ \A i \in 1..Len(beam) : beam[i].cost \in Nat
      <4>1. Best(finished) \in Functions
        BY <1>1, <1>2, <3>1, BestIsOne DEF BeamShape
      <4>2. OpenAt(step) \subseteq Entries
        BY DEF OpenAt
      <4>3. \A i \in 1..Len(beam) : beam[i].cost \in Nat
        BY <1>1, <4>2, Costed DEF BeamShape
      <4> QED
        BY <1>2, <3>1, <4>1, <4>3 DEF Entries
    <3>3. \A p \in 1..Len(all) : stopped.cost <= all[p].cost
      <4> SUFFICES ASSUME NEW p \in 1..Len(all) PROVE stopped.cost <= all[p].cost
        OBVIOUS
      <4>1. PICK i \in 1..Len(beam) : beam[i].cost <= all[p].cost
        BY <1>3
      <4>2. stopped.cost <= beam[i].cost
        BY <3>1
      <4>3. stopped.cost \in Nat /\ beam[i].cost \in Nat /\ all[p].cost \in Nat
        BY <1>4, <3>2
      <4> QED
        BY <4>1, <4>2, <4>3
    <3>4. Best(done) = stopped
      <4>1. \A i \in 1..Len(finished) : finished[i].cost \in Nat
        BY <1>1, <1>2, Costed DEF BeamShape
      <4>2. \A i \in 1..Len(new) : new[i].cost \in Nat /\ Best(finished).cost <= new[i].cost
        BY <1>4, <1>6, <3>1, <3>3
      <4>3. finished \in Seq(Functions) /\ new \in Seq(Functions) /\ finished # <<>>
        BY <1>1, <1>6, <3>1 DEF BeamShape
      <4>4. Best(finished \o new) = Best(finished)
        BY <4>1, <4>2, <4>3, BestStays
      <4> QED
        BY <3>1, <4>4
    <3>5. \A k \in 1..Len(open) : stopped.cost <= open[k].cost
      <4> SUFFICES ASSUME NEW k \in 1..Len(open) PROVE stopped.cost <= open[k].cost
        OBVIOUS
      <4>1. PICK i \in 1..Len(left) : open[k] = left[i]
        BY <1>9
      <4>2. PICK p \in 1..Len(all) : left[i] = all[p]
        BY <1>7
      <4> QED
        BY <3>3, <4>1, <4>2
    <3> QED
      BY <1>1, <1>12, <3>1, <3>4, <3>5 DEF StopInv
  <2>2. CASE stopped = Nothing /\ NothingOpenCanWin(done, open)
    <3>1. /\ stopped' = Best(done) /\ done # <<>>
          /\ open = <<>> \/ Best(done).cost <= open[1].cost
      BY <1>1, <2>2 DEF NothingOpenCanWin
    <3>2. Best(done).cost \in Nat
      <4>1. Best(done) \in Functions
        BY <1>2, <1>12, <3>1, BestIsOne
      <4> QED
        BY <1>2, <4>1 DEF Entries
    <3>3. \A k \in 1..Len(open) : Best(done).cost <= open[k].cost
      <4> SUFFICES ASSUME NEW k \in 1..Len(open) PROVE Best(done).cost <= open[k].cost
        OBVIOUS
      <4>1. open # <<>>
        BY EmptySeq
      <4>2. Best(done).cost <= open[1].cost
        BY <3>1, <4>1
      <4>3. 1 \in 1..Len(open)
        BY <1>9, LenProperties
      <4>4. open[1].cost \in Nat /\ open[k].cost \in Nat /\ open[1].cost <= open[k].cost
        BY <1>11, <4>3
      <4> QED
        BY <3>2, <4>2, <4>4
    <3> QED
      BY <1>1, <3>1, <3>3 DEF StopInv
  <2>3. CASE stopped = Nothing /\ ~NothingOpenCanWin(done, open)
    BY <1>1, <2>3 DEF StopInv
  <2> QED
    BY <2>1, <2>2, <2>3
<1>17. step' \in 0..MaxNew
  BY <1>1
<1> QED
  BY <1>1, <1>15, <1>16, <1>17 DEF BeamInv, EarlyStopIsSound

LEMMA BeamKept == BeamInv /\ [BeamNext]_beamVars => BeamInv'
<1> SUFFICES ASSUME BeamInv, [BeamNext]_beamVars PROVE BeamInv'
  OBVIOUS
<1>1. CASE UNCHANGED beamVars
  BY <1>1 DEF beamVars, BeamInv, BeamShape, StopInv, EarlyStopIsSound, Response
<1>2. CASE BeamNext
  BY <1>2, ErrorKept, LegacyKept, FinishKept, DeepenKept DEF BeamNext
<1> QED
  BY <1>1, <1>2

\* Stopping the search early gives the answer of the search that goes on, an acceptable
\* function that was found is never passed over, and the answer is within its budget:
\* for any vocabulary, costs, width of the beam and budget.
THEOREM EarlyStopAlwaysSound == BeamSpec => []EarlyStopIsSound
<1>1. BeamInv => EarlyStopIsSound
  BY DEF BeamInv
<1> QED
  BY <1>1, BeamStarts, BeamKept, PTL DEF BeamSpec
=============================================================================
