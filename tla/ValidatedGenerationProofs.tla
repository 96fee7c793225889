--------------------- MODULE ValidatedGenerationProofs ---------------------
(***************************************************************************)
(* Proofs about ValidatedGeneration for every set of replies and every     *)
(* number of attempts.  IInv ties the reply log to the program counter: it *)
(* says which replies have been judged, which the repair callback has      *)
(* counted, and that the current candidate is the last reply.              *)
(***************************************************************************)
EXTENDS ValidatedGeneration, FiniteSetTheorems, TLAPS

Judging == {"syntax", "checking", "tests", "testing"}  \* a candidate is under validation
Asking  == {"generate", "generating"}                  \* the next one is being drawn

\* How many replies there are, and that all judged ones failed.
PositionInv ==
  /\ pc # "done" => result = NoResult
  /\ pc = "start" => log = <<>> /\ attempt = 0 /\ localFailures = 0 /\ ~force
  /\ pc \in Asking => Len(log) = attempt /\ attempt < MaxAttempts
  /\ pc = "syntax" => Len(log) = attempt + 1 /\ attempt < MaxAttempts
  /\ pc \in {"checking", "tests", "testing"} =>
       Len(log) = attempt /\ attempt <= MaxAttempts /\ 0 < attempt
  /\ pc = "repair" => Len(log) = attempt /\ attempt < MaxAttempts /\ 0 < attempt
  /\ pc = "done" => Len(log) <= MaxAttempts
  /\ pc \in Asking => \A i \in 1 .. Len(log) : Failed(log[i])

\* The candidate under validation is the last reply, and this is what is known of it.
CandidateInv ==
  /\ pc \in Judging =>
       /\ log[Len(log)].text = proposed
       /\ proposed \in Snippets
       /\ validSnapshot
  /\ pc \in {"syntax", "checking", "tests", "testing"} => log[Len(log)].tests = "none"
  /\ pc \in {"tests", "testing"} => log[Len(log)].syntax = "passed"
  /\ pc = "repair" => Failed(log[Len(log)])
  /\ pc \in Judging \cup {"repair"} => (online <=> log[Len(log)].backend = "online")

Spent(i) == log[i].backend = "local" /\ Failed(log[i])

\* The replies the repair callback has been through.
Counted == IF pc \in Asking THEN 1 .. Len(log) ELSE 1 .. (Len(log) - 1)

\* Every unit of localFailures is a failed local candidate of its own.
EscalationInv ==
  /\ pc # "done" /\ localFailures >= 1 => \E j \in Counted : Spent(j)
  /\ pc # "done" /\ localFailures >= 2 =>
       \E j, k \in Counted : j # k /\ Spent(j) /\ Spent(k)
  /\ pc # "done" /\ force => request.escalation /\ localFailures >= 2

IInv ==
  /\ TypeOK
  /\ PositionInv
  /\ CandidateInv
  /\ EscalationInv
  /\ OnlyFailuresAreRepaired
  /\ EscalationIsEarned
  /\ ReadyIsProven

-----------------------------------------------------------------------------
\* Appending a reply leaves the earlier entries alone.
LEMMA AppendEntry ==
  ASSUME NEW s \in Seq(Entry), NEW e \in Entry
  PROVE  /\ Append(s, e) \in Seq(Entry)
         /\ Len(Append(s, e)) = Len(s) + 1
         /\ \A i \in 1 .. Len(s) : Append(s, e)[i] = s[i]
         /\ Append(s, e)[Len(s) + 1] = e
  OBVIOUS

\* Recording the syntax verdict changes that field of the last entry only.
LEMMA RecordSyntax ==
  ASSUME NEW s \in Seq(Entry), Len(s) > 0, NEW x \in Exit
  PROVE  LET t == [s EXCEPT ![Len(s)].syntax = x] IN
         /\ t \in Seq(Entry)
         /\ Len(t) = Len(s)
         /\ \A i \in 1 .. Len(s) : i < Len(s) => t[i] = s[i]
         /\ t[Len(s)] = [s[Len(s)] EXCEPT !.syntax = x]
  <1> DEFINE e == [s[Len(s)] EXCEPT !.syntax = x]
  <1>1. s[Len(s)] \in Entry
    OBVIOUS
  <1>2. e \in Entry
    BY <1>1 DEF Entry
  <1>3. [s EXCEPT ![Len(s)].syntax = x] = [s EXCEPT ![Len(s)] = e]
    OBVIOUS
  <1> HIDE DEF e
  <1>4. /\ [s EXCEPT ![Len(s)] = e] \in Seq(Entry)
        /\ Len([s EXCEPT ![Len(s)] = e]) = Len(s)
        /\ \A i \in 1 .. Len(s) : i < Len(s) => [s EXCEPT ![Len(s)] = e][i] = s[i]
        /\ [s EXCEPT ![Len(s)] = e][Len(s)] = e
    BY <1>2
  <1>5. QED
    BY <1>3, <1>4 DEF e

\* Recording the test verdict changes that field of the last entry only.
LEMMA RecordTests ==
  ASSUME NEW s \in Seq(Entry), Len(s) > 0, NEW x \in Exit
  PROVE  LET t == [s EXCEPT ![Len(s)].tests = x] IN
         /\ t \in Seq(Entry)
         /\ Len(t) = Len(s)
         /\ \A i \in 1 .. Len(s) : i < Len(s) => t[i] = s[i]
         /\ t[Len(s)] = [s[Len(s)] EXCEPT !.tests = x]
  <1> DEFINE e == [s[Len(s)] EXCEPT !.tests = x]
  <1>1. s[Len(s)] \in Entry
    OBVIOUS
  <1>2. e \in Entry
    BY <1>1 DEF Entry
  <1>3. [s EXCEPT ![Len(s)].tests = x] = [s EXCEPT ![Len(s)] = e]
    OBVIOUS
  <1> HIDE DEF e
  <1>4. /\ [s EXCEPT ![Len(s)] = e] \in Seq(Entry)
        /\ Len([s EXCEPT ![Len(s)] = e]) = Len(s)
        /\ \A i \in 1 .. Len(s) : i < Len(s) => [s EXCEPT ![Len(s)] = e][i] = s[i]
        /\ [s EXCEPT ![Len(s)] = e][Len(s)] = e
    BY <1>2
  <1>5. QED
    BY <1>3, <1>4 DEF e

\* A catch block ends the run with a well-typed result that is not ready.
LEMMA AbortIsNotReady ==
  ASSUME NEW c \in BOOLEAN, Abort(c), validations' \in Nat, failures' \in Seq(Nat),
         proposed' \in Snippets \cup {NoText}
  PROVE  pc' = "done" /\ result' \in Result /\ ~Ready(result')
  BY DEF Abort, Patch, Result, NoResult, Ready

\* A loop that used up its attempts ends the run without a ready result.
LEMMA LoopResult ==
  ASSUME NEW b \in BOOLEAN, LoopReturns(b), attempt \in Nat, history' \in Seq(Nat),
         proposed' \in Snippets \cup {NoText}
  PROVE  /\ pc' = "done" /\ result' \in Result
         /\ Ready(result') => b /\ result'.patch = Patch
  BY DEF LoopReturns, Patch, Result, NoResult, Ready

\* The invariant holds when the worker enters run().
LEMMA InitIInv == Init => IInv
  <1> SUFFICES ASSUME Init PROVE IInv
    OBVIOUS
  <1>1. TypeOK
    <2>1. NoResult \in Result
      BY DEF NoResult, Result
    <2>2. <<>> \in Seq(Nat) /\ <<>> \in Seq(Entry)
      OBVIOUS
    <2>3. QED
      BY <2>1, <2>2, Zenon DEF Init, TypeOK
  <1>2. PositionInv
    BY DEF Init, PositionInv, Asking
  <1>3. CandidateInv /\ EscalationInv
    BY DEF Init, CandidateInv, EscalationInv, Judging
  <1>4. OnlyFailuresAreRepaired /\ EscalationIsEarned /\ ReadyIsProven
    BY DEF Init, OnlyFailuresAreRepaired, EscalationIsEarned, ReadyIsProven
  <1>5. QED
    BY <1>1, <1>2, <1>3, <1>4 DEF IInv

-----------------------------------------------------------------------------
\* Actions that leave the reply log alone and keep every fact the log carries:
\* it is enough to look at where they go.
LEMMA QuietStep ==
  ASSUME IInv, UNCHANGED <<request, log, proposed, validSnapshot, online>>, TypeOK',
         PositionInv', CandidateInv', EscalationInv',
         pc' = "done" => ~Ready(result')
  PROVE  IInv'
  BY DEF IInv, OnlyFailuresAreRepaired, EscalationIsEarned, ReadyIsProven, Failed

LEMMA StartStep == IInv /\ Start => IInv'
  <1> SUFFICES ASSUME IInv, Start PROVE IInv'
    OBVIOUS
  <1> USE DEF IInv, Start, snapshot, counters
  <1>1. CASE request.fits /\ request.selection
    <2>1. pc' = "generate" /\ result' = result
      BY <1>1 DEF Goto
    <2>2. TypeOK'
      BY <2>1 DEF TypeOK
    <2>3. PositionInv'
      BY <2>1, ConstantsAssumption DEF PositionInv, Asking
    <2>4. CandidateInv' /\ EscalationInv'
      BY <2>1 DEF CandidateInv, EscalationInv, PositionInv, Judging
    <2>5. QED
      BY <2>1, <2>2, <2>3, <2>4, QuietStep
  <1>2. CASE ~(request.fits /\ request.selection)
    <2>1. pc' = "done" /\ result' \in Result /\ ~Ready(result')
      BY <1>2, AbortIsNotReady DEF TypeOK
    <2>2. TypeOK'
      BY <2>1 DEF TypeOK
    <2>3. PositionInv' /\ CandidateInv' /\ EscalationInv'
      BY <2>1, ConstantsAssumption
      DEF PositionInv, CandidateInv, EscalationInv, Asking, Judging
    <2>4. QED
      BY <2>1, <2>2, <2>3, QuietStep
  <1>3. QED
    BY <1>1, <1>2

LEMMA CallGenerateStep == IInv /\ CallGenerate => IInv'
  <1> SUFFICES ASSUME IInv, CallGenerate PROVE IInv'
    OBVIOUS
  <1> USE DEF IInv, CallGenerate, snapshot, counters
  <1>1. CASE stopRequested
    <2>1. pc' = "done" /\ result' \in Result /\ ~Ready(result')
      BY <1>1, AbortIsNotReady DEF TypeOK
    <2>2. TypeOK' /\ PositionInv' /\ CandidateInv' /\ EscalationInv'
      BY <2>1, ConstantsAssumption
      DEF TypeOK, PositionInv, CandidateInv, EscalationInv, Asking, Judging
    <2>3. QED
      BY <2>1, <2>2, QuietStep
  <1>2. CASE ~stopRequested
    <2>1. pc' = "generating" /\ result' = result
      BY <1>2 DEF Goto
    <2>2. TypeOK'
      BY <2>1 DEF TypeOK, Calls
    <2>3. PositionInv' /\ CandidateInv'
      BY <2>1 DEF PositionInv, CandidateInv, Asking, Judging, Failed
    <2>4. EscalationInv'
      BY <2>1 DEF EscalationInv, Counted, Spent, Failed, Asking
    <2>5. QED
      BY <2>1, <2>2, <2>3, <2>4, QuietStep
  <1>3. QED
    BY <1>1, <1>2

LEMMA GenerateThrowsStep == IInv /\ GenerateThrows => IInv'
  <1> SUFFICES ASSUME IInv, GenerateThrows PROVE IInv'
    OBVIOUS
  <1> USE DEF IInv, GenerateThrows, snapshot, counters
  <1>1. pc' = "done" /\ result' \in Result /\ ~Ready(result')
    BY AbortIsNotReady DEF TypeOK
  <1>2. TypeOK' /\ PositionInv' /\ CandidateInv' /\ EscalationInv'
    BY <1>1, ConstantsAssumption
    DEF TypeOK, PositionInv, CandidateInv, EscalationInv, Asking, Judging
  <1>3. QED
    BY <1>1, <1>2, QuietStep

LEMMA CallSyntaxStep == IInv /\ CallSyntax => IInv'
  <1> SUFFICES ASSUME IInv, CallSyntax PROVE IInv'
    OBVIOUS
  <1> USE DEF IInv, CallSyntax, snapshot
  <1>1. CASE stopRequested
    <2>1. pc' = "done" /\ result' \in Result /\ ~Ready(result')
      BY <1>1, AbortIsNotReady DEF TypeOK
    <2>2. TypeOK' /\ PositionInv' /\ CandidateInv' /\ EscalationInv'
      BY <1>1, <2>1, ConstantsAssumption
      DEF TypeOK, PositionInv, CandidateInv, EscalationInv, Asking, Judging
    <2>3. QED
      BY <2>1, <2>2, QuietStep
  <1>2. CASE ~stopRequested
    <2>1. pc' = "checking" /\ result' = result
      BY <1>2 DEF Goto
    <2>2. TypeOK'
      BY <1>2, <2>1 DEF TypeOK, Calls
    <2>3. PositionInv' /\ CandidateInv'
      BY <2>1, ConstantsAssumption DEF TypeOK, PositionInv, CandidateInv, Asking, Judging
    <2>4. EscalationInv'
      BY <2>1 DEF EscalationInv, Counted, Spent, Failed, Asking
    <2>5. QED
      BY <2>1, <2>2, <2>3, <2>4, QuietStep
  <1>3. QED
    BY <1>1, <1>2

LEMMA CallTestsStep == IInv /\ CallTests => IInv'
  <1> SUFFICES ASSUME IInv, CallTests PROVE IInv'
    OBVIOUS
  <1> USE DEF IInv, CallTests, snapshot, counters
  <1>1. CASE stopRequested
    <2>1. pc' = "done" /\ result' \in Result /\ ~Ready(result')
      BY <1>1, AbortIsNotReady DEF TypeOK
    <2>2. TypeOK' /\ PositionInv' /\ CandidateInv' /\ EscalationInv'
      BY <2>1, ConstantsAssumption
      DEF TypeOK, PositionInv, CandidateInv, EscalationInv, Asking, Judging
    <2>3. QED
      BY <2>1, <2>2, QuietStep
  <1>2. CASE ~stopRequested
    <2>1. pc' = "testing" /\ result' = result
      BY <1>2 DEF Goto
    <2>2. TypeOK'
      BY <2>1 DEF TypeOK, Calls
    <2>3. PositionInv' /\ CandidateInv'
      BY <2>1 DEF PositionInv, CandidateInv, Asking, Judging
    <2>4. EscalationInv'
      BY <2>1 DEF EscalationInv, Counted, Spent, Failed, Asking
    <2>5. QED
      BY <2>1, <2>2, <2>3, <2>4, QuietStep
  <1>3. QED
    BY <1>1, <1>2

LEMMA RequestStopStep == IInv /\ RequestStop => IInv'
  <1> SUFFICES ASSUME IInv, RequestStop PROVE IInv'
    OBVIOUS
  <1> USE DEF IInv, RequestStop, snapshot, counters
  <1>1. TypeOK'
    BY DEF TypeOK
  <1>2. PositionInv' /\ CandidateInv'
    BY DEF PositionInv, CandidateInv, Failed
  <1>3. EscalationInv'
    BY DEF EscalationInv, Counted, Spent, Failed
  <1>4. QED
    BY <1>1, <1>2, <1>3, QuietStep

\* The repair callback has been through the last reply: Counted grows by it.
LEMMA RepairStep == IInv /\ Repair => IInv'
  <1> SUFFICES ASSUME IInv, Repair PROVE IInv'
    OBVIOUS
  <1> USE DEF IInv, Repair, snapshot
  <1>1. pc' = "generate" /\ result' = result
    BY DEF Goto
  <1>2. TypeOK'
    BY <1>1 DEF TypeOK
  <1>3. Len(log) \in Nat /\ log \in Seq(Entry)
    BY DEF TypeOK
  <1>4. PositionInv'
    <2>1. \A i \in 1 .. Len(log) : Failed(log[i])
      BY <1>3 DEF CandidateInv, OnlyFailuresAreRepaired
    <2>2. QED
      BY <1>1, <2>1 DEF PositionInv, Asking, Failed
  <1>5. CandidateInv'
    BY <1>1 DEF CandidateInv, Judging
  <1>6. EscalationInv'
    <2>1. Counted = 1 .. (Len(log) - 1) /\ Counted' = 1 .. Len(log) /\ 0 < Len(log)
      BY <1>1 DEF Counted, Asking, PositionInv
    <2>2. ~online => Spent(Len(log))
      <3>1. log[Len(log)] \in Entry
        BY <1>3, <2>1
      <3>2. log[Len(log)].backend \in Backend
        BY <3>1 DEF Entry
      <3>3. QED
        BY <3>2 DEF CandidateInv, Spent, Backend
    <2>3. \A i : Spent(i)' <=> Spent(i)
      BY DEF Spent, Failed
    <2>4. force' => request'.escalation /\ localFailures' >= 2
      OBVIOUS
    <2>5. localFailures \in Nat /\ localFailures' = IF online THEN localFailures ELSE localFailures + 1
      BY DEF TypeOK
    <2>6. /\ localFailures >= 1 => \E j \in 1 .. (Len(log) - 1) : Spent(j)
          /\ localFailures >= 2 =>
               \E j, k \in 1 .. (Len(log) - 1) : j # k /\ Spent(j) /\ Spent(k)
      BY <2>1 DEF EscalationInv
    <2> HIDE DEF IInv, Repair
    <2>7. /\ localFailures' >= 1 => \E j \in 1 .. Len(log) : Spent(j)
          /\ localFailures' >= 2 =>
               \E j, k \in 1 .. Len(log) : j # k /\ Spent(j) /\ Spent(k)
      BY <1>3, <2>1, <2>2, <2>5, <2>6
    <2>8. QED
      BY <1>1, <2>1, <2>3, <2>4, <2>7 DEF EscalationInv
  <1>7. QED
    BY <1>1, <1>2, <1>4, <1>5, <1>6, QuietStep

LEMMA GenerateReturnsStep ==
  ASSUME IInv, NEW reply \in Snippets \cup {NoCode}, NEW backend \in Backend,
         GenerateReturns(reply, backend)
  PROVE  IInv'
  <1> USE DEF IInv
  <1>1. CASE stopRequested
    <2> USE <1>1 DEF GenerateReturns, snapshot, counters
    <2>1. pc' = "done" /\ result' \in Result /\ ~Ready(result')
      BY AbortIsNotReady DEF TypeOK
    <2>2. TypeOK' /\ PositionInv' /\ CandidateInv' /\ EscalationInv'
      BY <2>1, ConstantsAssumption
      DEF TypeOK, PositionInv, CandidateInv, EscalationInv, Asking, Judging
    <2>3. QED
      BY <2>1, <2>2, QuietStep
  <1>2. CASE ~stopRequested
    <2> DEFINE e == [text |-> reply, backend |-> backend, forced |-> force,
                     syntax |-> "none", tests |-> "none"]
    <2>1. e \in Entry
      BY DEF Entry, TypeOK
    <2>2. /\ log \in Seq(Entry) /\ Len(log) \in Nat
          /\ log' \in Seq(Entry) /\ Len(log') = Len(log) + 1
          /\ \A i \in 1 .. Len(log) : log'[i] = log[i]
          /\ log'[Len(log')] = e
      <3>1. log \in Seq(Entry) /\ log' = Append(log, e)
        BY <1>2 DEF GenerateReturns, TypeOK
      <3>2. QED
        BY <2>1, <3>1, AppendEntry
    <2>3. /\ pc = "generating"
          /\ UNCHANGED <<request, stopRequested, force, counters>>
          /\ online' = (backend = "online")
          /\ proposed' \in Snippets \cup {NoText} /\ validSnapshot' \in BOOLEAN
          /\ \/ pc' = "done" /\ result' \in Result /\ ~Ready(result')
             \/ /\ pc' = "syntax" /\ result' = result
                /\ proposed' = reply /\ proposed' \in Snippets /\ validSnapshot'
      <3>1. proposed' \in Snippets \cup {NoText} /\ validSnapshot' \in BOOLEAN
        BY <1>2 DEF GenerateReturns, TypeOK
      <3>2. CASE reply = NoCode \/ reply \in TooBig
        <4>1. pc' = "done" /\ result' \in Result /\ ~Ready(result')
          BY <1>2, <3>1, <3>2, AbortIsNotReady DEF GenerateReturns, TypeOK, counters
        <4>2. QED
          BY <1>2, <3>1, <4>1 DEF GenerateReturns
      <3>3. CASE ~(reply = NoCode \/ reply \in TooBig)
        BY <1>2, <3>1, <3>3 DEF GenerateReturns, Goto
      <3>4. QED
        BY <3>2, <3>3
    <2>4. \A i \in 1 .. Len(log) : Failed(log[i])
      BY <2>3 DEF PositionInv, Asking
    <2> HIDE DEF e
    <2>5. TypeOK'
      BY <2>2, <2>3 DEF TypeOK, counters
    <2>6. PositionInv'
      BY <2>2, <2>3, ConstantsAssumption DEF TypeOK, PositionInv, Asking, counters
    <2>7. CandidateInv'
      <3>1. /\ e.text = reply /\ e.tests = "none"
            /\ online' <=> e.backend = "online"
        BY <2>3 DEF e
      <3>2. QED
        BY <2>2, <2>3, <3>1 DEF CandidateInv, Judging
    <2>8. EscalationInv'
      <3>1. Counted = 1 .. Len(log) /\ (pc' # "done" => Counted' = 1 .. Len(log))
        BY <2>2, <2>3 DEF Counted, Asking
      <3>2. \A i \in 1 .. Len(log) : Spent(i)' <=> Spent(i)
        BY <2>2 DEF Spent, Failed
      <3>3. QED
        BY <2>3, <3>1, <3>2 DEF EscalationInv, counters
    <2>9. OnlyFailuresAreRepaired'
      BY <2>2, <2>4 DEF OnlyFailuresAreRepaired, Failed
    <2>10. EscalationIsEarned'
      <3>1. force => /\ request.escalation
                     /\ \E j, k \in 1 .. Len(log) : j # k /\ Spent(j) /\ Spent(k)
        BY <2>3 DEF EscalationInv, Counted, Asking
      <3>2. ASSUME NEW i \in 1 .. Len(log'), log'[i].forced
            PROVE  /\ request'.escalation
                   /\ \E j, k \in 1 .. (i - 1) :
                        /\ j # k
                        /\ log'[j].backend = "local" /\ Failed(log'[j])
                        /\ log'[k].backend = "local" /\ Failed(log'[k])
        <4>1. CASE i \in 1 .. Len(log)
          BY <2>2, <2>3, <3>2, <4>1 DEF EscalationIsEarned, Failed
        <4>2. CASE i = Len(log')
          <5>1. force
            BY <2>2, <3>2, <4>2 DEF e
          <5>2. QED
            BY <2>2, <2>3, <3>1, <4>2, <5>1 DEF Spent, Failed
        <4>3. QED
          BY <2>2, <4>1, <4>2
      <3>3. QED
        BY <3>2 DEF EscalationIsEarned
    <2>11. ReadyIsProven'
      BY <2>3 DEF ReadyIsProven
    <2>12. QED
      BY <2>5, <2>6, <2>7, <2>8, <2>9, <2>10, <2>11
  <1>3. QED
    BY <1>1, <1>2

\* A verdict touches the last entry only, which no earlier entry's escalation
\* and no counted failure depends on.
LEMMA JudgedStep ==
  ASSUME IInv, pc \in {"checking", "testing"}, pc' \in {"tests", "repair", "done"},
         UNCHANGED <<request, force, localFailures>>,
         log' \in Seq(Entry), Len(log') = Len(log),
         \A i \in 1 .. Len(log) : i < Len(log) => log'[i] = log[i],
         log'[Len(log)].forced = log[Len(log)].forced
  PROVE  OnlyFailuresAreRepaired' /\ EscalationIsEarned' /\ EscalationInv'
  <1>1. log \in Seq(Entry) /\ Len(log) \in Nat
    BY DEF IInv, TypeOK
  <1>2. OnlyFailuresAreRepaired'
    BY <1>1 DEF IInv, OnlyFailuresAreRepaired, Failed
  <1>3. EscalationIsEarned'
    <2>1. \A i \in 1 .. Len(log) : log'[i].forced = log[i].forced
      BY <1>1
    <2>2. QED
      BY <1>1, <2>1 DEF IInv, EscalationIsEarned, Failed
  <1>4. EscalationInv'
    <2>1. Counted = 1 .. (Len(log) - 1) /\ Counted' = 1 .. (Len(log) - 1)
      BY DEF Counted, Asking
    <2>2. \A i \in 1 .. (Len(log) - 1) : Spent(i)' <=> Spent(i)
      BY <1>1 DEF Spent, Failed
    <2>3. QED
      BY <2>1, <2>2 DEF IInv, EscalationInv
  <1>5. QED
    BY <1>2, <1>3, <1>4

LEMMA SyntaxReturnsStep ==
  ASSUME IInv, NEW exit \in Exit, SyntaxReturns(exit)
  PROVE  IInv'
  <1>1. /\ pc = "checking"
        /\ UNCHANGED <<request, stopRequested, force, online, proposed, validSnapshot,
                       attempt, validations, localFailures>>
    BY DEF SyntaxReturns, Verdict, snapshot
  <1>2. log \in Seq(Entry) /\ Len(log) \in Nat /\ Len(log) > 0 /\ result = NoResult
    BY <1>1 DEF IInv, TypeOK, PositionInv
  <1>3. /\ log' \in Seq(Entry) /\ Len(log') = Len(log)
        /\ \A i \in 1 .. Len(log) : i < Len(log) => log'[i] = log[i]
        /\ log'[Len(log)] = [log[Len(log)] EXCEPT !.syntax = exit]
    BY <1>2, RecordSyntax DEF SyntaxReturns
  <1>4. log[Len(log)] \in Entry
    BY <1>2
  <1>5. /\ log'[Len(log)].text = log[Len(log)].text
        /\ log'[Len(log)].backend = log[Len(log)].backend
        /\ log'[Len(log)].forced = log[Len(log)].forced
        /\ log'[Len(log)].tests = log[Len(log)].tests
        /\ log'[Len(log)].syntax = exit
    BY <1>3, <1>4 DEF Entry
  <1>6. failures' \in Seq(Nat) /\ history' \in Seq(Nat)
    <2>1. /\ Append(failures, validations) \in Seq(Nat) /\ failures \in Seq(Nat)
          /\ Append(history, attempt) \in Seq(Nat) /\ history \in Seq(Nat)
      BY DEF IInv, TypeOK
    <2>2. \/ failures' = failures /\ history' = history
          \/ failures' = Append(failures, validations) /\ history' = Append(history, attempt)
      BY DEF SyntaxReturns, Verdict, FailAttempt
    <2>3. QED
      BY <2>1, <2>2
  <1>7. \/ pc' = "done" /\ result' \in Result /\ ~Ready(result')
        \/ pc' = "repair" /\ result' = result /\ exit = "failed" /\ attempt < MaxAttempts
        \/ pc' = "tests" /\ result' = result /\ exit = "passed"
    <2>1. validations' \in Nat /\ attempt \in Nat /\ proposed' \in Snippets \cup {NoText}
      BY <1>1 DEF IInv, TypeOK
    <2>2. ASSUME NEW c \in BOOLEAN, Abort(c)
          PROVE  pc' = "done" /\ result' \in Result /\ ~Ready(result')
      BY <1>6, <2>1, <2>2, AbortIsNotReady
    <2>3. CASE FailAttempt /\ exit = "failed"
      <3>1. CASE attempt < MaxAttempts
        BY <2>3, <3>1 DEF FailAttempt, Goto
      <3>2. CASE ~(attempt < MaxAttempts)
        <4>1. LoopReturns(FALSE)
          BY <2>3, <3>2 DEF FailAttempt
        <4>2. QED
          BY <1>6, <2>1, <4>1, LoopResult
      <3>3. QED
        BY <3>1, <3>2
    <2>4. CASE Goto("tests") /\ exit = "passed"
      BY <2>4 DEF Goto
    <2>5. \/ FailAttempt /\ exit = "failed"
          \/ Abort(TRUE) \/ Abort(FALSE)
          \/ Goto("tests") /\ exit = "passed"
      BY DEF SyntaxReturns, Verdict
    <2>6. QED
      BY <2>2, <2>3, <2>4, <2>5
  <1>8. TypeOK'
    BY <1>1, <1>2, <1>3, <1>6, <1>7 DEF IInv, TypeOK
  <1>9. PositionInv'
    BY <1>1, <1>2, <1>3, <1>7 DEF IInv, PositionInv, Asking
  <1>10. CandidateInv'
    <2>1. CandidateInv /\ proposed' = proposed /\ (validSnapshot' <=> validSnapshot)
          /\ (online' <=> online)
      BY <1>1 DEF IInv
    <2>2. QED
      BY <1>1, <1>2, <1>3, <1>5, <1>7, <2>1 DEF CandidateInv, Judging, Failed
  <1>11. OnlyFailuresAreRepaired' /\ EscalationIsEarned' /\ EscalationInv'
    BY <1>1, <1>3, <1>5, <1>7, JudgedStep
  <1>12. ReadyIsProven'
    BY <1>7 DEF ReadyIsProven
  <1>13. QED
    BY <1>8, <1>9, <1>10, <1>11, <1>12 DEF IInv

LEMMA TestsReturnStep ==
  ASSUME IInv, NEW exit \in Exit, TestsReturn(exit)
  PROVE  IInv'
  <1>1. /\ pc = "testing"
        /\ UNCHANGED <<request, stopRequested, force, online, proposed, validSnapshot,
                       attempt, validations, localFailures>>
    BY DEF TestsReturn, Verdict, snapshot
  <1>2. log \in Seq(Entry) /\ Len(log) \in Nat /\ Len(log) > 0 /\ result = NoResult
    BY <1>1 DEF IInv, TypeOK, PositionInv
  <1>3. /\ log' \in Seq(Entry) /\ Len(log') = Len(log)
        /\ \A i \in 1 .. Len(log) : i < Len(log) => log'[i] = log[i]
        /\ log'[Len(log)] = [log[Len(log)] EXCEPT !.tests = exit]
    BY <1>2, RecordTests DEF TestsReturn
  <1>4. log[Len(log)] \in Entry
    BY <1>2
  <1>5. /\ log'[Len(log)].text = log[Len(log)].text
        /\ log'[Len(log)].backend = log[Len(log)].backend
        /\ log'[Len(log)].forced = log[Len(log)].forced
        /\ log'[Len(log)].syntax = log[Len(log)].syntax
        /\ log'[Len(log)].tests = exit
    BY <1>3, <1>4 DEF Entry
  <1>6. failures' \in Seq(Nat) /\ history' \in Seq(Nat)
    <2>1. /\ Append(failures, validations) \in Seq(Nat) /\ failures \in Seq(Nat)
          /\ Append(history, attempt) \in Seq(Nat) /\ history \in Seq(Nat)
      BY DEF IInv, TypeOK
    <2>2. \/ failures' = failures /\ history' = history
          \/ failures' = Append(failures, validations) /\ history' = Append(history, attempt)
      BY DEF TestsReturn, Verdict, FailAttempt
    <2>3. QED
      BY <2>1, <2>2
  <1>7. \/ pc' = "done" /\ result' \in Result /\ ~Ready(result')
        \/ pc' = "repair" /\ result' = result /\ exit = "failed" /\ attempt < MaxAttempts
        \/ /\ pc' = "done" /\ result' \in Result /\ exit = "passed"
           /\ Ready(result') => result'.patch = Patch
    <2>1. validations' \in Nat /\ attempt \in Nat /\ proposed' \in Snippets \cup {NoText}
      BY <1>1 DEF IInv, TypeOK
    <2>2. ASSUME NEW c \in BOOLEAN, Abort(c)
          PROVE  pc' = "done" /\ result' \in Result /\ ~Ready(result')
      BY <1>6, <2>1, <2>2, AbortIsNotReady
    <2>3. CASE FailAttempt /\ exit = "failed"
      <3>1. CASE attempt < MaxAttempts
        BY <2>3, <3>1 DEF FailAttempt, Goto
      <3>2. CASE ~(attempt < MaxAttempts)
        <4>1. LoopReturns(FALSE)
          BY <2>3, <3>2 DEF FailAttempt
        <4>2. QED
          BY <1>6, <2>1, <4>1, LoopResult
      <3>3. QED
        BY <3>1, <3>2
    <2>4. CASE LoopReturns(TRUE) /\ exit = "passed"
      BY <1>6, <2>1, <2>4, LoopResult
    <2>5. \/ FailAttempt /\ exit = "failed"
          \/ Abort(TRUE) \/ Abort(FALSE)
          \/ LoopReturns(TRUE) /\ exit = "passed"
      BY DEF TestsReturn, Verdict
    <2>6. QED
      BY <2>2, <2>3, <2>4, <2>5
  <1>8. TypeOK'
    BY <1>1, <1>2, <1>3, <1>6, <1>7 DEF IInv, TypeOK
  <1>9. PositionInv'
    BY <1>1, <1>2, <1>3, <1>7 DEF IInv, PositionInv, Asking
  <1>10. CandidateInv'
    <2>1. CandidateInv /\ (online' <=> online)
      BY <1>1 DEF IInv
    <2>2. QED
      BY <1>1, <1>2, <1>3, <1>5, <1>7, <2>1 DEF CandidateInv, Judging, Failed
  <1>11. OnlyFailuresAreRepaired' /\ EscalationIsEarned' /\ EscalationInv'
    BY <1>1, <1>3, <1>5, <1>7, JudgedStep
  <1>12. ReadyIsProven'
    <2>1. /\ log[Len(log)].text = proposed /\ log[Len(log)].syntax = "passed"
          /\ validSnapshot
      BY <1>1 DEF IInv, CandidateInv, Judging
    <2>2. Patch = proposed
      BY <1>1, <2>1 DEF Patch
    <2>3. ASSUME Ready(result'), pc' = "done" PROVE exit = "passed" /\ result'.patch = proposed
      BY <1>7, <2>2, <2>3
    <2>4. log' # <<>>
      BY <1>2, <1>3
    <2>5. QED
      BY <1>3, <1>5, <2>1, <2>3, <2>4 DEF ReadyIsProven, Proven
  <1>13. QED
    BY <1>8, <1>9, <1>10, <1>11, <1>12 DEF IInv

-----------------------------------------------------------------------------
LEMMA NextIInv == IInv /\ [Next]_vars => IInv'
  <1> SUFFICES ASSUME IInv, [Next]_vars PROVE IInv'
    OBVIOUS
  <1>1. CASE Start
    BY <1>1, StartStep
  <1>2. CASE CallGenerate
    BY <1>2, CallGenerateStep
  <1>3. ASSUME NEW reply \in Snippets \cup {NoCode}, NEW backend \in Backend,
               GenerateReturns(reply, backend)
        PROVE  IInv'
    BY <1>3, GenerateReturnsStep
  <1>4. CASE GenerateThrows
    BY <1>4, GenerateThrowsStep
  <1>5. CASE CallSyntax
    BY <1>5, CallSyntaxStep
  <1>6. ASSUME NEW exit \in Exit, SyntaxReturns(exit)
        PROVE  IInv'
    BY <1>6, SyntaxReturnsStep
  <1>7. CASE CallTests
    BY <1>7, CallTestsStep
  <1>8. ASSUME NEW exit \in Exit, TestsReturn(exit)
        PROVE  IInv'
    BY <1>8, TestsReturnStep
  <1>9. CASE Repair
    BY <1>9, RepairStep
  <1>10. CASE RequestStop
    BY <1>10, RequestStopStep
  <1>11. CASE UNCHANGED vars
    BY <1>11 DEF vars, IInv, TypeOK, PositionInv, CandidateInv, EscalationInv, Counted, Spent,
       OnlyFailuresAreRepaired, EscalationIsEarned, ReadyIsProven, Failed, Proven
  <1>12. QED
    BY <1>1, <1>2, <1>3, <1>4, <1>5, <1>6, <1>7, <1>8, <1>9, <1>10, <1>11 DEF Next, Run

LEMMA Invariance == Spec => []IInv
  BY InitIInv, NextIInv, PTL DEF Spec

\* Every variable of the run keeps its type for every set of replies.
THEOREM TypeCorrect == Spec => []TypeOK
  <1>1. IInv => TypeOK
    BY DEF IInv
  <1>2. QED
    BY <1>1, Invariance, PTL

\* Apply is only ever enabled for the last reply, after its syntax check and its
\* tests passed (ValidatedGenerationResult::ready).
THEOREM ReadyMeansProven == Spec => []ReadyIsProven
  <1>1. IInv => ReadyIsProven
    BY DEF IInv
  <1>2. QED
    BY <1>1, Invariance, PTL

\* Infrastructure errors never consume a repair, for any number of attempts.
THEOREM FailuresOnlyAreRepaired == Spec => []OnlyFailuresAreRepaired
  <1>1. IInv => OnlyFailuresAreRepaired
    BY DEF IInv
  <1>2. QED
    BY <1>1, Invariance, PTL

\* A forced online candidate always follows two failed local ones.
THEOREM EscalationAlwaysEarned == Spec => []EscalationIsEarned
  <1>1. IInv => EscalationIsEarned
    BY DEF IInv
  <1>2. QED
    BY <1>1, Invariance, PTL

-----------------------------------------------------------------------------
StopStep == stopRequested /\ pc' # pc => pc' \notin Calls /\ ~Ready(result')

LEMMA NextStops == IInv /\ [Next]_vars => [StopStep]_vars
  <1> SUFFICES ASSUME IInv, [Next]_vars, stopRequested, pc' # pc
               PROVE  pc' \notin Calls /\ ~Ready(result')
    BY DEF StopStep
  <1>1. TypeOK /\ IInv'
    BY NextIInv DEF IInv
  <1>2. ~Ready(NoResult)
    BY DEF Ready, NoResult
  <1>3. (pc' # "done" => result' = NoResult) /\ pc # "done"
    BY <1>1 DEF IInv, PositionInv, Next, Run, Start, CallGenerate, GenerateReturns,
       GenerateThrows, CallSyntax, SyntaxReturns, CallTests, TestsReturn, Repair,
       RequestStop, vars
  <1>4. ASSUME NEW c \in BOOLEAN, Abort(c) PROVE pc' = "done" /\ ~Ready(result')
    BY <1>4 DEF Abort, Ready, NoResult
  <1>5. CASE Start
    BY <1>2, <1>3, <1>4, <1>5 DEF Start, Goto, Calls
  <1>6. CASE CallGenerate \/ CallSyntax \/ CallTests
    BY <1>4, <1>6 DEF CallGenerate, CallSyntax, CallTests, Calls
  <1>7. CASE \E reply \in Snippets \cup {NoCode}, backend \in Backend :
               GenerateReturns(reply, backend)
    BY <1>4, <1>7 DEF GenerateReturns, Calls
  <1>8. CASE GenerateThrows
    BY <1>4, <1>8 DEF GenerateThrows, Calls
  <1>9. CASE \E exit \in Exit : SyntaxReturns(exit) \/ TestsReturn(exit)
    BY <1>4, <1>9 DEF SyntaxReturns, TestsReturn, Verdict, Calls
  <1>10. CASE Repair
    BY <1>2, <1>3, <1>10 DEF Repair, Goto, Calls
  <1>11. CASE RequestStop \/ UNCHANGED vars
    BY <1>11 DEF RequestStop, vars
  <1>12. QED
    BY <1>5, <1>6, <1>7, <1>8, <1>9, <1>10, <1>11 DEF Next, Run

\* After a stop request no callback starts and no ready result is delivered.
THEOREM StopHolds == Spec => StopIsFinal
  <1>1. IInv /\ [Next]_vars => [StopStep]_vars
    BY NextStops
  <1>2. QED
    BY <1>1, Invariance, PTL DEF Spec, StopIsFinal, StopStep

-----------------------------------------------------------------------------
\* The two accounts.  Both lists of failures are the numbers of the first so many
\* attempts, run()'s counters keep step with the loop's, and a validated reply is
\* known by the syntax verdict in its entry.

Numbered(s) == \A n \in 1 .. Len(s) : s[n] = n

AccountInv ==
  /\ Numbered(history) /\ Numbered(failures) /\ Len(history) = Len(failures)
  /\ \A i \in 1 .. Len(log) : log[i].tests # "none" => log[i].syntax # "none"
  /\ pc = "start" => validations = 0 /\ Len(failures) = 0
  /\ pc \in Asking \cup {"syntax", "repair"} => validations = attempt /\ Len(failures) = attempt
  /\ pc \in {"checking", "tests", "testing"} =>
       validations = attempt /\ Len(failures) = attempt - 1
  /\ pc \in {"syntax", "checking"} => log[Len(log)].syntax = "none"
  /\ ReportAgrees

\* Of a log whose first v replies were validated and first f failed, v and f are
\* what the report has to say.
LEMMA Counts ==
  ASSUME NEW s \in Seq(Entry), NEW v \in Nat, NEW f \in Nat, f <= v, v <= Len(s),
         \A i \in 1 .. Len(s) : s[i].syntax # "none" <=> i <= v,
         \A i \in 1 .. v : Failed(s[i]) <=> i <= f
  PROVE  LET validated == {i \in 1 .. Len(s) : s[i].syntax # "none"} IN
         /\ Cardinality(validated) = v
         /\ Cardinality({i \in validated : Failed(s[i])}) = f
  <1> DEFINE validated == {i \in 1 .. Len(s) : s[i].syntax # "none"}
  <1>1. validated = 1 .. v
    OBVIOUS
  <1>2. {i \in validated : Failed(s[i])} = 1 .. f
    BY <1>1
  <1>3. Cardinality(1 .. v) = v /\ Cardinality(1 .. f) = f
    BY FS_Interval
  <1> HIDE DEF validated
  <1>4. QED
    BY <1>1, <1>2, <1>3 DEF validated

\* What a report has to say at the end of the run.
LEMMA DoneReport ==
  ASSUME NEW v \in Nat, NEW f \in Nat, f <= v, log' \in Seq(Entry), v <= Len(log'),
         \A i \in 1 .. Len(log') : log'[i].syntax # "none" <=> i <= v,
         \A i \in 1 .. v : Failed(log'[i]) <=> i <= f,
         result'.attempts = v,
         result'.history \in Seq(Nat), Numbered(result'.history),
         \/ Len(result'.history) = f
         \/ result'.cancelled /\ stopRequested' /\ Len(result'.history) = f - 1
  PROVE  ReportAgrees'
  <1>1. /\ Cardinality(Validated') = v
        /\ Cardinality({i \in Validated' : Failed(log'[i])}) = f
    BY Counts DEF Validated
  <1>2. \A n \in DOMAIN result'.history : result'.history[n] = n
    BY DEF Numbered
  <1>3. QED
    BY <1>1, <1>2 DEF ReportAgrees

LEMMA AbortReport ==
  ASSUME NEW c \in BOOLEAN, Abort(c), log' \in Seq(Entry),
         NEW v \in Nat, NEW f \in Nat, f <= v, v <= Len(log'), validations' = v,
         \A i \in 1 .. Len(log') : log'[i].syntax # "none" <=> i <= v,
         \A i \in 1 .. v : Failed(log'[i]) <=> i <= f,
         failures' \in Seq(Nat), Numbered(failures'),
         Len(failures') = f \/ (c /\ stopRequested' /\ Len(failures') = f - 1)
  PROVE  ReportAgrees'
  <1>1. result'.attempts = v /\ result'.history = failures' /\ (result'.cancelled <=> c)
    BY DEF Abort, NoResult
  <1>2. QED
    BY <1>1, DoneReport

LEMMA LoopReport ==
  ASSUME NEW b \in BOOLEAN, LoopReturns(b), log' \in Seq(Entry),
         NEW f \in Nat, attempt \in Nat, f <= attempt, attempt <= Len(log'),
         \A i \in 1 .. Len(log') : log'[i].syntax # "none" <=> i <= attempt,
         \A i \in 1 .. attempt : Failed(log'[i]) <=> i <= f,
         history' \in Seq(Nat), Numbered(history'), Len(history') = f
  PROVE  ReportAgrees'
  <1>1. result'.attempts = attempt /\ result'.history = history'
    BY DEF LoopReturns, NoResult
  <1>2. QED
    BY <1>1, DoneReport

\* Every reply that was superseded was validated, and failed.
LEMMA EarlierJudged ==
  ASSUME IInv, AccountInv, NEW i \in 1 .. Len(log), i < Len(log) \/ pc \in Asking \cup {"repair"}
  PROVE  Failed(log[i]) /\ log[i].syntax # "none"
  <1>1. Failed(log[i])
    <2>1. Len(log) \in Nat
      BY DEF IInv, TypeOK
    <2>2. CASE i < Len(log)
      BY <2>2 DEF IInv, OnlyFailuresAreRepaired
    <2>3. CASE pc \in Asking
      BY <2>3 DEF IInv, PositionInv
    <2>4. CASE pc = "repair" /\ i = Len(log)
      BY <2>4 DEF IInv, CandidateInv
    <2>5. QED
      BY <2>1, <2>2, <2>3, <2>4
  <1>2. QED
    BY <1>1 DEF Failed, AccountInv

\* One more failure with the number of its attempt.
LEMMA NumberedAppend ==
  ASSUME NEW s \in Seq(Nat), Numbered(s), NEW n \in Nat, n = Len(s) + 1
  PROVE  Append(s, n) \in Seq(Nat) /\ Numbered(Append(s, n)) /\ Len(Append(s, n)) = n
  BY DEF Numbered

\* The run goes on with the log as it was.
LEMMA GoingOn ==
  ASSUME AccountInv, pc' # "done", UNCHANGED <<log, history, failures, attempt>>,
         pc' = "start" => validations' = 0 /\ Len(failures) = 0,
         pc' \in Asking \cup {"syntax", "repair"} => validations' = attempt /\ Len(failures) = attempt,
         pc' \in {"checking", "tests", "testing"} => validations' = attempt /\ Len(failures) = attempt - 1,
         pc' \in {"syntax", "checking"} => log[Len(log)].syntax = "none"
  PROVE  AccountInv'
  BY DEF AccountInv, ReportAgrees

\* A run that ends with the log as it was, a candidate under validation or none.
LEMMA EndReport ==
  ASSUME IInv, AccountInv, pc \in Asking \cup {"syntax", "tests"}, NEW c \in BOOLEAN, Abort(c),
         UNCHANGED <<log, failures, validations>>
  PROVE  ReportAgrees'
  <1> DEFINE n == Len(log)
  <1>1. /\ log \in Seq(Entry) /\ n \in Nat /\ failures \in Seq(Nat) /\ Len(failures) \in Nat
        /\ Numbered(failures) /\ attempt \in Nat
    BY DEF IInv, TypeOK, AccountInv
  <1>2. \A i \in 1 .. n : i < n \/ pc \in Asking => Failed(log[i]) /\ log[i].syntax # "none"
    BY EarlierJudged
  <1>3. CASE pc \in Asking
    <2>1. validations = n /\ Len(failures) = n
      BY <1>3 DEF IInv, PositionInv, AccountInv
    <2>2. /\ \A i \in 1 .. n : log[i].syntax # "none" <=> i <= n
          /\ \A i \in 1 .. n : Failed(log[i]) <=> i <= n
      BY <1>2, <1>3
    <2>3. QED
      BY <1>1, <2>1, <2>2, AbortReport
  <1>4. CASE pc = "syntax"
    <2>1. validations = n - 1 /\ Len(failures) = n - 1 /\ n > 0 /\ log[n].syntax = "none"
      BY <1>1, <1>4 DEF IInv, PositionInv, AccountInv
    <2>2. /\ \A i \in 1 .. n : log[i].syntax # "none" <=> i <= n - 1
          /\ \A i \in 1 .. (n - 1) : Failed(log[i]) <=> i <= n - 1
      BY <1>1, <1>2, <2>1
    <2> DEFINE v == n - 1
    <2>3. v \in Nat /\ v <= v /\ v <= Len(log') /\ validations' = v /\ Len(failures') = v
      BY <1>1, <2>1
    <2>4. /\ \A i \in 1 .. Len(log') : log'[i].syntax # "none" <=> i <= v
          /\ \A i \in 1 .. v : Failed(log'[i]) <=> i <= v
      BY <2>2
    <2>5. log' \in Seq(Entry) /\ failures' \in Seq(Nat) /\ Numbered(failures')
      BY <1>1
    <2> HIDE DEF v
    <2>6. QED
      BY <2>3, <2>4, <2>5, AbortReport
  <1>5. CASE pc = "tests"
    <2>1. validations = n /\ Len(failures) = n - 1 /\ n > 0
          /\ log[n].syntax = "passed" /\ log[n].tests = "none"
      BY <1>1, <1>5 DEF IInv, PositionInv, CandidateInv, AccountInv
    <2>2. ~ Failed(log[n])
      BY <2>1 DEF Failed
    <2>3. /\ \A i \in 1 .. n : log[i].syntax # "none" <=> i <= n
          /\ \A i \in 1 .. n : Failed(log[i]) <=> i <= n - 1
      BY <1>1, <1>2, <2>1, <2>2
    <2>4. n - 1 \in Nat
      BY <1>1, <2>1
    <2>5. QED
      BY <1>1, <2>1, <2>3, <2>4, AbortReport
  <1>6. QED
    BY <1>3, <1>4, <1>5

LEMMA AccountDrawn ==
  ASSUME IInv, IInv', AccountInv, NEW reply \in Snippets \cup {NoCode}, NEW backend \in Backend,
         GenerateReturns(reply, backend)
  PROVE  AccountInv'
  <1> DEFINE e == [text |-> reply, backend |-> backend, forced |-> force,
                   syntax |-> "none", tests |-> "none"]
             n == Len(log)
  <1>1. /\ pc = "generating" /\ UNCHANGED <<stopRequested, attempt, history, validations, failures>>
    BY DEF GenerateReturns, counters
  <1>2. CASE stopRequested
    <2>1. UNCHANGED log /\ Abort(TRUE)
      BY <1>2 DEF GenerateReturns
    <2>2. ReportAgrees' /\ pc' = "done"
      BY <1>1, <2>1, EndReport DEF Asking, Abort
    <2>3. QED
      BY <1>1, <2>1, <2>2 DEF AccountInv, Asking
  <1>3. CASE ~stopRequested
    <2>1. log' = Append(log, e) /\ (Abort(FALSE) \/ Goto("syntax"))
      BY <1>3 DEF GenerateReturns
    <2>2. e \in Entry /\ log \in Seq(Entry) /\ n \in Nat
      BY DEF IInv, TypeOK, Entry
    <2>3. /\ log' \in Seq(Entry) /\ Len(log') = n + 1 /\ log'[n + 1] = e
          /\ \A i \in 1 .. n : log'[i] = log[i]
      BY <2>1, <2>2, AppendEntry
    <2>4. e.syntax = "none" /\ e.tests = "none"
      OBVIOUS
    <2> HIDE DEF e
    <2>5. \A i \in 1 .. n : Failed(log[i]) /\ log[i].syntax # "none"
      BY <1>1, EarlierJudged DEF Asking
    <2>6. validations = n /\ Len(failures) = n /\ attempt = n
      BY <1>1 DEF IInv, PositionInv, AccountInv, Asking
    <2>7. \A i \in 1 .. (n + 1) : log'[i].tests # "none" => log'[i].syntax # "none"
      BY <2>2, <2>3, <2>4, <2>5
    <2>8. CASE Goto("syntax")
      <3>1. pc' = "syntax" /\ log'[Len(log')].syntax = "none"
        BY <2>2, <2>3, <2>4, <2>8 DEF Goto
      <3>2. QED
        BY <1>1, <2>2, <2>3, <2>6, <2>7, <3>1 DEF AccountInv, ReportAgrees, Asking
    <2>9. CASE Abort(FALSE)
      <3>1. /\ \A i \in 1 .. (n + 1) : log'[i].syntax # "none" <=> i <= n
            /\ \A i \in 1 .. n : Failed(log'[i]) <=> i <= n
        BY <2>2, <2>3, <2>4, <2>5
      <3>2. failures \in Seq(Nat) /\ Numbered(failures)
        BY DEF IInv, TypeOK, AccountInv
      <3>3. ReportAgrees'
        <4>1. /\ \A i \in 1 .. Len(log') : log'[i].syntax # "none" <=> i <= n
              /\ n <= Len(log') /\ n <= n /\ validations' = n
          BY <1>1, <2>2, <2>3, <2>6, <3>1
        <4>2. failures' \in Seq(Nat) /\ Numbered(failures') /\ Len(failures') = n
          BY <1>1, <2>6, <3>2
        <4> HIDE DEF n
        <4>3. QED
          BY <2>2, <2>3, <2>9, <3>1, <4>1, <4>2, AbortReport
      <3>4. pc' = "done"
        BY <2>9 DEF Abort
      <3>5. QED
        BY <1>1, <2>3, <2>7, <3>3, <3>4 DEF AccountInv, Asking
    <2>10. QED
      BY <2>1, <2>8, <2>9
  <1>4. QED
    BY <1>2, <1>3

\* A verdict on the candidate, of either phase.
LEMMA AccountJudged ==
  ASSUME IInv, AccountInv, pc \in {"checking", "testing"}, NEW exit \in Exit, NEW onPass,
         Verdict(exit, onPass), log' \in Seq(Entry), Len(log') = Len(log),
         \A i \in 1 .. Len(log) : i < Len(log) => log'[i] = log[i],
         log'[Len(log)].syntax # "none",
         Failed(log'[Len(log)]) <=> exit = "failed",
         onPass => \/ LoopReturns(TRUE)
                   \/ pc' = "tests" /\ UNCHANGED result
  PROVE  AccountInv'
  <1> DEFINE n == Len(log)
  <1>1. /\ log \in Seq(Entry) /\ n \in Nat /\ n > 0 /\ attempt = n /\ validations = n
        /\ failures \in Seq(Nat) /\ Len(failures) = n - 1 /\ Numbered(failures)
        /\ history \in Seq(Nat) /\ Len(history) = n - 1 /\ Numbered(history)
    BY DEF IInv, TypeOK, PositionInv, AccountInv
  <1>2. UNCHANGED <<stopRequested, attempt, validations>>
    BY DEF Verdict
  <1>3. \A i \in 1 .. n : i < n => Failed(log'[i]) /\ log'[i].syntax # "none"
    BY EarlierJudged
  <1>4. \A i \in 1 .. n : log'[i].syntax # "none"
    BY <1>1, <1>3
  <1>5. \A i \in 1 .. n : log'[i].syntax # "none" <=> i <= n
    BY <1>1, <1>4
  <1>6. CASE exit = "failed"
    <2>1. \A i \in 1 .. n : Failed(log'[i]) <=> i <= n
      BY <1>1, <1>3, <1>6
    <2>2. CASE FailAttempt
      <3>1. failures' = Append(failures, n) /\ history' = Append(history, n)
        BY <1>1, <2>2 DEF FailAttempt
      <3>2. /\ failures' \in Seq(Nat) /\ Numbered(failures') /\ Len(failures') = n
            /\ history' \in Seq(Nat) /\ Numbered(history') /\ Len(history') = n
        BY <1>1, <3>1, NumberedAppend
      <3>3. CASE LoopReturns(FALSE)
        <4>1. ReportAgrees'
          <5>1. /\ \A i \in 1 .. Len(log') : log'[i].syntax # "none" <=> i <= attempt
                /\ \A i \in 1 .. attempt : Failed(log'[i]) <=> i <= attempt
                /\ attempt \in Nat /\ attempt <= attempt /\ attempt <= Len(log')
                /\ Len(history') = attempt
            BY <1>1, <1>5, <2>1, <3>2
          <5>2. QED
            BY <3>2, <3>3, <5>1, LoopReport
        <4>2. pc' = "done"
          BY <3>3 DEF LoopReturns
        <4>3. QED
          BY <1>4, <3>2, <4>1, <4>2 DEF AccountInv, Asking
      <3>4. CASE Goto("repair")
        BY <1>1, <1>2, <1>4, <3>2, <3>4 DEF Goto, AccountInv, Asking, ReportAgrees
      <3>5. QED
        BY <2>2, <3>3, <3>4 DEF FailAttempt
    <2>3. CASE UNCHANGED <<failures, history>> /\ stopRequested /\ Abort(TRUE)
      <3>1. n - 1 \in Nat
        BY <1>1
      <3>2. ReportAgrees'
        <4>1. /\ \A i \in 1 .. Len(log') : log'[i].syntax # "none" <=> i <= n
              /\ \A i \in 1 .. n : Failed(log'[i]) <=> i <= n
              /\ n \in Nat /\ n <= n /\ n <= Len(log')
          BY <1>1, <1>5, <2>1
        <4>3. validations' = n
          BY <1>1, <1>2
        <4>2. failures' \in Seq(Nat) /\ Numbered(failures') /\ Len(failures') = n - 1 /\ stopRequested'
          BY <1>1, <1>2, <2>3
        <4> HIDE DEF n
        <4>4. QED
          BY <2>3, <4>1, <4>2, <4>3, AbortReport
      <3>3. pc' = "done"
        BY <2>3 DEF Abort
      <3>4. QED
        BY <1>1, <1>4, <2>3, <3>2, <3>3 DEF AccountInv, Asking
    <2>4. QED
      BY <1>6, <2>2, <2>3 DEF Verdict
  <1>7. CASE exit # "failed"
    <2>1. n - 1 \in Nat /\ \A i \in 1 .. n : Failed(log'[i]) <=> i <= n - 1
      BY <1>1, <1>3, <1>7
    <2>2. UNCHANGED <<failures, history>>
      BY <1>7 DEF Verdict
    <2>3. ASSUME NEW c \in BOOLEAN, Abort(c)
          PROVE  AccountInv'
      <3>1. ReportAgrees'
        <4> DEFINE f == n - 1
        <4>1. /\ \A i \in 1 .. Len(log') : log'[i].syntax # "none" <=> i <= n
              /\ \A i \in 1 .. n : Failed(log'[i]) <=> i <= f
              /\ n \in Nat /\ f \in Nat /\ f <= n /\ n <= Len(log')
          BY <1>1, <1>5, <2>1
        <4>3. validations' = n
          BY <1>1, <1>2
        <4>2. failures' \in Seq(Nat) /\ Numbered(failures') /\ Len(failures') = f
          BY <1>1, <2>2
        <4> HIDE DEF n, f
        <4>4. QED
          BY <2>3, <4>1, <4>2, <4>3, AbortReport
      <3>2. pc' = "done"
        BY <2>3 DEF Abort
      <3>3. QED
        BY <1>1, <1>4, <2>2, <3>1, <3>2 DEF AccountInv, Asking
    <2>4. CASE LoopReturns(TRUE)
      <3>1. ReportAgrees'
        <4> DEFINE f == n - 1
        <4>1. /\ \A i \in 1 .. Len(log') : log'[i].syntax # "none" <=> i <= attempt
              /\ \A i \in 1 .. attempt : Failed(log'[i]) <=> i <= f
              /\ attempt \in Nat /\ f \in Nat /\ f <= attempt /\ attempt <= Len(log')
          BY <1>1, <1>5, <2>1
        <4>2. history' \in Seq(Nat) /\ Numbered(history') /\ Len(history') = f
          BY <1>1, <2>2
        <4> HIDE DEF n, f
        <4>3. QED
          BY <2>4, <4>1, <4>2, LoopReport
      <3>2. pc' = "done"
        BY <2>4 DEF LoopReturns
      <3>3. QED
        BY <1>1, <1>4, <2>2, <3>1, <3>2 DEF AccountInv, Asking
    <2>5. CASE pc' = "tests"
      BY <1>1, <1>2, <1>4, <2>2, <2>5 DEF AccountInv, Asking, ReportAgrees
    <2>6. QED
      BY <1>7, <2>3, <2>4, <2>5 DEF Verdict
  <1>8. QED
    BY <1>6, <1>7

LEMMA AccountKept == IInv /\ IInv' /\ AccountInv /\ [Next]_vars => AccountInv'
  <1> SUFFICES ASSUME IInv, IInv', AccountInv, [Next]_vars PROVE AccountInv'
    OBVIOUS
  <1> USE DEF snapshot, counters
  <1>1. CASE Start
    <2>1. /\ pc = "start" /\ UNCHANGED <<log, history, failures, attempt, validations>>
          /\ log = <<>> /\ attempt = 0 /\ validations = 0 /\ Len(failures) = 0
      BY <1>1 DEF Start, IInv, PositionInv, AccountInv
    <2>2. CASE Goto("generate")
      BY <2>1, <2>2, GoingOn DEF Goto, Asking
    <2>3. CASE Abort(FALSE)
      <3>1. failures' \in Seq(Nat) /\ Numbered(failures') /\ log' = <<>> /\ validations' = 0
            /\ Len(failures') = 0
        BY <2>1 DEF IInv, TypeOK, AccountInv
      <3>2. log' \in Seq(Entry) /\ Len(log') = 0
        BY <3>1
      <3>3. ReportAgrees'
        <4>1. /\ \A i \in 1 .. Len(log') : log'[i].syntax # "none" <=> i <= 0
              /\ \A i \in 1 .. 0 : Failed(log'[i]) <=> i <= 0
              /\ 0 \in Nat /\ 0 <= 0 /\ 0 <= Len(log')
          BY <3>2
        <4>2. QED
          BY <2>3, <3>1, <3>2, <4>1, AbortReport
      <3>4. pc' = "done"
        BY <2>3 DEF Abort
      <3>5. QED
        BY <2>1, <3>3, <3>4 DEF AccountInv, Asking
    <2>4. QED
      BY <1>1, <2>2, <2>3 DEF Start
  <1>2. CASE CallGenerate
    <2>1. pc = "generate" /\ UNCHANGED <<log, history, failures, attempt, validations>>
      BY <1>2 DEF CallGenerate
    <2>2. CASE Goto("generating")
      BY <2>1, <2>2, GoingOn DEF Goto, Asking, AccountInv
    <2>3. CASE Abort(TRUE)
      <3>1. ReportAgrees' /\ pc' = "done"
        BY <2>1, <2>3, EndReport DEF Asking, Abort
      <3>2. QED
        BY <2>1, <3>1 DEF AccountInv, Asking
    <2>4. QED
      BY <1>2, <2>2, <2>3 DEF CallGenerate
  <1>3. ASSUME NEW reply \in Snippets \cup {NoCode}, NEW backend \in Backend,
               GenerateReturns(reply, backend)
        PROVE  AccountInv'
    BY <1>3, AccountDrawn
  <1>4. CASE GenerateThrows
    <2>1. pc = "generating" /\ UNCHANGED <<log, history, failures, attempt, validations>> /\ Abort(FALSE)
      BY <1>4 DEF GenerateThrows
    <2>2. ReportAgrees' /\ pc' = "done"
      BY <2>1, EndReport DEF Asking, Abort
    <2>3. QED
      BY <2>1, <2>2 DEF AccountInv, Asking
  <1>5. CASE CallSyntax
    <2>1. pc = "syntax" /\ UNCHANGED <<log, history, failures>> /\ attempt' = attempt + 1
      BY <1>5 DEF CallSyntax
    <2>2. attempt \in Nat /\ validations = attempt /\ Len(failures) = attempt
          /\ log[Len(log)].syntax = "none"
      BY <2>1 DEF IInv, TypeOK, AccountInv
    <2>3. CASE validations' = validations + 1 /\ Goto("checking")
      BY <2>1, <2>2, <2>3 DEF Goto, AccountInv, ReportAgrees, Asking
    <2>4. CASE UNCHANGED validations /\ Abort(TRUE)
      <3>1. ReportAgrees' /\ pc' = "done"
        BY <2>1, <2>4, EndReport DEF Abort
      <3>2. QED
        BY <2>1, <3>1 DEF AccountInv, Asking
    <2>5. QED
      BY <1>5, <2>3, <2>4 DEF CallSyntax
  <1>6. ASSUME NEW exit \in Exit, SyntaxReturns(exit)
        PROVE  AccountInv'
    <2>1. /\ pc = "checking" /\ log' = [log EXCEPT ![Len(log)].syntax = exit]
          /\ Verdict(exit, Goto("tests"))
      BY <1>6 DEF SyntaxReturns
    <2>2. log \in Seq(Entry) /\ Len(log) > 0 /\ log[Len(log)].tests = "none"
      BY <2>1 DEF IInv, TypeOK, PositionInv, CandidateInv, Judging
    <2>3. /\ log' \in Seq(Entry) /\ Len(log') = Len(log)
          /\ \A i \in 1 .. Len(log) : i < Len(log) => log'[i] = log[i]
          /\ log'[Len(log)] = [log[Len(log)] EXCEPT !.syntax = exit]
      BY <2>1, <2>2, RecordSyntax
    <2>4. log[Len(log)] \in Entry
      BY <2>2
    <2>5. log'[Len(log)].syntax = exit /\ log'[Len(log)].tests = "none"
      BY <2>2, <2>3, <2>4 DEF Entry
    <2>6. log'[Len(log)].syntax # "none" /\ (Failed(log'[Len(log)]) <=> exit = "failed")
      BY <2>5 DEF Exit, Failed
    <2>7. QED
      BY <2>1, <2>3, <2>6, AccountJudged DEF Goto
  <1>7. CASE CallTests
    <2>1. pc = "tests" /\ UNCHANGED <<log, history, failures, attempt, validations>>
      BY <1>7 DEF CallTests
    <2>2. CASE Goto("testing")
      BY <2>1, <2>2, GoingOn DEF Goto, Asking, AccountInv
    <2>3. CASE Abort(TRUE)
      <3>1. ReportAgrees' /\ pc' = "done"
        BY <2>1, <2>3, EndReport DEF Abort
      <3>2. QED
        BY <2>1, <3>1 DEF AccountInv, Asking
    <2>4. QED
      BY <1>7, <2>2, <2>3 DEF CallTests
  <1>8. ASSUME NEW exit \in Exit, TestsReturn(exit)
        PROVE  AccountInv'
    <2>1. /\ pc = "testing" /\ log' = [log EXCEPT ![Len(log)].tests = exit]
          /\ Verdict(exit, LoopReturns(TRUE))
      BY <1>8 DEF TestsReturn
    <2>2. log \in Seq(Entry) /\ Len(log) > 0 /\ log[Len(log)].syntax = "passed"
      BY <2>1 DEF IInv, TypeOK, PositionInv, CandidateInv, Judging
    <2>3. /\ log' \in Seq(Entry) /\ Len(log') = Len(log)
          /\ \A i \in 1 .. Len(log) : i < Len(log) => log'[i] = log[i]
          /\ log'[Len(log)] = [log[Len(log)] EXCEPT !.tests = exit]
      BY <2>1, <2>2, RecordTests
    <2>4. log[Len(log)] \in Entry
      BY <2>2
    <2>5. log'[Len(log)].syntax = "passed" /\ log'[Len(log)].tests = exit
      BY <2>2, <2>3, <2>4 DEF Entry
    <2>6. log'[Len(log)].syntax # "none" /\ (Failed(log'[Len(log)]) <=> exit = "failed")
      BY <2>5 DEF Exit, Failed
    <2>7. QED
      BY <2>1, <2>3, <2>6, AccountJudged
  <1>9. CASE Repair
    <2>1. pc = "repair" /\ pc' = "generate" /\ UNCHANGED <<log, history, failures, attempt, validations>>
      BY <1>9 DEF Repair, Goto
    <2>2. QED
      BY <2>1, GoingOn DEF Asking, AccountInv
  <1>10. CASE RequestStop
    <2>1. pc # "done" /\ UNCHANGED <<pc, log, history, failures, attempt, validations>>
      BY <1>10 DEF RequestStop
    <2>2. QED
      BY <2>1, GoingOn DEF AccountInv
  <1>11. CASE UNCHANGED vars
    BY <1>11 DEF vars, AccountInv, ReportAgrees, Validated, Failed
  <1>12. QED
    BY <1>1, <1>2, <1>3, <1>4, <1>5, <1>6, <1>7, <1>8, <1>9, <1>10, <1>11 DEF Next, Run

\* The panel's report is right on every path of ValidatedGeneration::run, whether the
\* loop's account or run()'s own is used, for any number of attempts: how many
\* candidates were validated, and which of them failed.
THEOREM ReportAlwaysAgrees == Spec => []ReportAgrees
  <1>1. Init => AccountInv
    BY DEF Init, AccountInv, Numbered, Asking, ReportAgrees
  <1>2. IInv /\ IInv' /\ AccountInv /\ [Next]_vars => AccountInv'
    BY AccountKept
  <1>3. AccountInv => ReportAgrees
    BY DEF AccountInv
  <1>4. QED
    BY <1>1, <1>2, <1>3, Invariance, PTL DEF Spec

-----------------------------------------------------------------------------
TextsOf(s)  == {s[i].text : i \in DOMAIN s} \ {NoCode}
ProvenOf(s) == {s[i].text : i \in {n \in DOMAIN s : Proven(s[n])}}
Outcome     == IF pc # "done" THEN "working" ELSE IF Ready(result) THEN "ready" ELSE "notReady"

\* A new reply adds at most its own text to the drawn ones and proves nothing.
LEMMA TextsAppend ==
  ASSUME NEW s \in Seq(Entry), NEW e \in Entry, e.tests = "none"
  PROVE  /\ TextsOf(Append(s, e)) = TextsOf(s) \cup ({e.text} \ {NoCode})
         /\ ProvenOf(Append(s, e)) = ProvenOf(s)
  <1> DEFINE t == Append(s, e)
  <1>1. /\ Len(s) \in Nat /\ DOMAIN s = 1 .. Len(s) /\ DOMAIN t = 1 .. (Len(s) + 1)
        /\ \A i \in 1 .. Len(s) : t[i] = s[i]
        /\ t[Len(s) + 1] = e
    BY AppendEntry
  <1> HIDE DEF t
  <1>2. TextsOf(t) = TextsOf(s) \cup ({e.text} \ {NoCode})
    BY <1>1 DEF TextsOf
  <1>3. ProvenOf(t) = ProvenOf(s)
    BY <1>1 DEF ProvenOf, Proven
  <1>4. QED
    BY <1>2, <1>3 DEF t

\* A verdict keeps the drawn texts; it proves at most the last one.
LEMMA TextsJudged ==
  ASSUME NEW s \in Seq(Entry), NEW t \in Seq(Entry), Len(s) > 0, Len(t) = Len(s),
         \A i \in 1 .. Len(s) : i < Len(s) => t[i] = s[i],
         t[Len(s)].text = s[Len(s)].text, ~Proven(s[Len(s)])
  PROVE  /\ TextsOf(t) = TextsOf(s)
         /\ Proven(t[Len(s)]) => ProvenOf(t) = ProvenOf(s) \cup {s[Len(s)].text}
         /\ ~Proven(t[Len(s)]) => ProvenOf(t) = ProvenOf(s)
  <1>1. DOMAIN s = 1 .. Len(s) /\ DOMAIN t = 1 .. Len(s) /\ Len(s) \in Nat
    OBVIOUS
  <1>2. \A i \in 1 .. Len(s) : t[i].text = s[i].text
    BY <1>1
  <1>3. TextsOf(t) = TextsOf(s)
    BY <1>1, <1>2 DEF TextsOf
  <1>4. \A i \in 1 .. Len(s) : i # Len(s) => (Proven(t[i]) <=> Proven(s[i]))
    <2>1. \A i \in 1 .. Len(s) : i # Len(s) => t[i] = s[i]
      BY <1>1
    <2>2. QED
      BY <2>1 DEF Proven
  <1> DEFINE P(q) == {n \in 1 .. Len(s) : Proven(q[n])}
  <1>5. /\ Proven(t[Len(s)]) => P(t) = P(s) \cup {Len(s)}
        /\ ~Proven(t[Len(s)]) => P(t) = P(s)
    <2>1. Len(s) \in 1 .. Len(s)
      BY <1>1
    <2>2. ASSUME Proven(t[Len(s)]), NEW n PROVE n \in P(t) <=> n \in P(s) \cup {Len(s)}
      BY <1>4, <2>1, <2>2, Zenon
    <2>3. ASSUME ~Proven(t[Len(s)]), NEW n PROVE n \in P(t) <=> n \in P(s)
      BY <1>4, <2>1, <2>3, Zenon
    <2>4. QED
      BY <2>2, <2>3
  <1>6. ProvenOf(t) = {s[i].text : i \in P(t)} /\ ProvenOf(s) = {s[i].text : i \in P(s)}
    BY <1>1, <1>2 DEF ProvenOf
  <1>7. QED
    <2> HIDE DEF P
    <2>1. QED
      BY <1>3, <1>5, <1>6

LEMMA InitContract == Init => Contract!Init
  <1> SUFFICES ASSUME Init PROVE Contract!Init
    OBVIOUS
  <1>1. Len(log) = 0 /\ DOMAIN log = {} /\ pc # "done"
    BY DEF Init
  <1>2. QED
    BY <1>1, ConstantsAssumption DEF Contract!Init

\* A step that keeps the replies either stutters or ends the run without a proposal.
LEMMA QuietContract ==
  ASSUME IInv, log' = log, pc # "done",
         pc' = "done" => ~Ready(result')
  PROVE  [Contract!Next]_Contract!vars
  <1>1. CASE pc' = "done"
    BY <1>1 DEF Contract!Next, Contract!GiveUp
  <1>2. CASE pc' # "done"
    BY <1>2 DEF Contract!vars
  <1>3. QED
    BY <1>1, <1>2

LEMMA DrawContract ==
  ASSUME IInv, NEW reply \in Snippets \cup {NoCode}, NEW backend \in Backend,
         GenerateReturns(reply, backend), ~stopRequested
  PROVE  [Contract!Next]_Contract!vars
  <1> DEFINE e == [text |-> reply, backend |-> backend, forced |-> force,
                   syntax |-> "none", tests |-> "none"]
  <1>1. log \in Seq(Entry) /\ e \in Entry /\ log' = Append(log, e) /\ e.tests = "none"
    BY DEF IInv, TypeOK, GenerateReturns, Entry
  <1>2. Len(log) < MaxAttempts /\ pc = "generating" /\ result = NoResult
    BY DEF IInv, PositionInv, Asking, GenerateReturns
  <1>3. /\ Len(log') = Len(log) + 1
        /\ TextsOf(log') = TextsOf(log) \cup ({reply} \ {NoCode})
        /\ ProvenOf(log') = ProvenOf(log)
    BY <1>1, TextsAppend, AppendEntry
  <1>4. ~Ready(result')
    <2>1. ASSUME NEW c \in BOOLEAN, Abort(c) PROVE ~Ready(result')
      BY <2>1 DEF Abort, Ready, NoResult
    <2>2. ~Ready(NoResult)
      BY DEF Ready, NoResult
    <2>3. QED
      BY <1>2, <2>1, <2>2 DEF GenerateReturns, Goto
  <1>5. Outcome = "working" /\ Outcome' \in {"working", "notReady"}
    BY <1>2, <1>4 DEF Outcome
  <1>6. \E T \in {{}} \cup {{t} : t \in Snippets} : TextsOf(log') = TextsOf(log) \cup T
    <2>1. CASE reply = NoCode
      BY <1>3, <2>1
    <2>2. CASE reply # NoCode
      BY <1>3, <2>2
    <2>3. QED
      BY <2>1, <2>2
  <1>7. /\ MaxAttempts - Len(log) > 0
        /\ MaxAttempts - Len(log') = (MaxAttempts - Len(log)) - 1
    BY <1>1, <1>2, <1>3, ConstantsAssumption
  <1>8. Contract!Draw
    BY <1>3, <1>5, <1>6, <1>7 DEF Contract!Draw, TextsOf, ProvenOf, Outcome
  <1>9. QED
    BY <1>8 DEF Contract!Next

\* A verdict on the syntax proves no text: the tests have not run yet.
LEMMA SyntaxContract ==
  ASSUME IInv, NEW exit \in Exit, SyntaxReturns(exit)
  PROVE  [Contract!Next]_Contract!vars
  <1>1. log \in Seq(Entry) /\ pc = "checking" /\ Len(log) > 0 /\ result = NoResult
    BY DEF IInv, TypeOK, PositionInv, SyntaxReturns
  <1>2. log[Len(log)] \in Entry /\ log[Len(log)].tests = "none"
    BY <1>1 DEF IInv, CandidateInv
  <1>3. /\ log' \in Seq(Entry) /\ Len(log') = Len(log)
        /\ \A i \in 1 .. Len(log) : i < Len(log) => log'[i] = log[i]
        /\ log'[Len(log)] = [log[Len(log)] EXCEPT !.syntax = exit]
    BY <1>1, RecordSyntax DEF SyntaxReturns
  <1>4. /\ log'[Len(log)].text = log[Len(log)].text
        /\ log'[Len(log)].tests = "none"
    BY <1>2, <1>3 DEF Entry
  <1>5. TextsOf(log') = TextsOf(log) /\ ProvenOf(log') = ProvenOf(log)
    BY <1>1, <1>2, <1>3, <1>4, TextsJudged DEF Proven
  <1>6. ~Ready(result')
    <2>1. ASSUME NEW c \in BOOLEAN, Abort(c) PROVE ~Ready(result')
      BY <2>1 DEF Abort, Ready, NoResult
    <2>2. ~Ready(NoResult)
      BY DEF Ready, NoResult
    <2>3. ASSUME LoopReturns(FALSE) PROVE ~Ready(result')
      BY <2>3 DEF LoopReturns, Ready, NoResult
    <2>4. QED
      BY <1>1, <2>1, <2>2, <2>3 DEF SyntaxReturns, Verdict, FailAttempt, Goto
  <1>7. Outcome = "working" /\ Outcome' \in {"working", "notReady"}
    BY <1>1, <1>6 DEF Outcome
  <1>8. CASE Outcome' = "working"
    BY <1>3, <1>5, <1>7, <1>8 DEF Contract!vars, TextsOf, ProvenOf, Outcome
  <1>9. CASE Outcome' = "notReady"
    <2>1. Contract!GiveUp
      BY <1>3, <1>5, <1>7, <1>9 DEF Contract!GiveUp, TextsOf, ProvenOf, Outcome
    <2>2. QED
      BY <2>1 DEF Contract!Next
  <1>10. QED
    BY <1>7, <1>8, <1>9

\* Passing tests prove the last reply, whose syntax check passed before.
LEMMA TestsContract ==
  ASSUME IInv, NEW exit \in Exit, TestsReturn(exit)
  PROVE  [Contract!Next]_Contract!vars
  <1>1. log \in Seq(Entry) /\ pc = "testing" /\ Len(log) > 0 /\ result = NoResult
    BY DEF IInv, TypeOK, PositionInv, TestsReturn
  <1>2. /\ log[Len(log)] \in Entry /\ log[Len(log)].tests = "none"
        /\ log[Len(log)].text = proposed /\ proposed \in Snippets
    BY <1>1 DEF IInv, CandidateInv, Judging
  <1>3. /\ log' \in Seq(Entry) /\ Len(log') = Len(log)
        /\ \A i \in 1 .. Len(log) : i < Len(log) => log'[i] = log[i]
        /\ log'[Len(log)] = [log[Len(log)] EXCEPT !.tests = exit]
    BY <1>1, RecordTests DEF TestsReturn
  <1>4. /\ log'[Len(log)].text = log[Len(log)].text
        /\ log'[Len(log)].tests = exit
    BY <1>2, <1>3 DEF Entry
  <1>5. /\ TextsOf(log') = TextsOf(log)
        /\ Proven(log'[Len(log)]) => ProvenOf(log') = ProvenOf(log) \cup {proposed}
        /\ ~Proven(log'[Len(log)]) => ProvenOf(log') = ProvenOf(log)
    <2>1. ~Proven(log[Len(log)])
      BY <1>2 DEF Proven
    <2>2. QED
      BY <1>1, <1>2, <1>3, <1>4, <2>1, TextsJudged
  <1>6. proposed \in TextsOf(log)
    BY <1>1, <1>2, ConstantsAssumption DEF TextsOf
  <1>7. Outcome = "working" /\ Outcome' \in {"working", "notReady", "ready"}
    BY <1>1 DEF Outcome
  <1>8. CASE Proven(log'[Len(log)])
    <2>1. pc' = "done"
      BY <1>4, <1>8 DEF Proven, TestsReturn, Verdict, Abort, LoopReturns
    <2>2. Contract!Prove
      BY <1>3, <1>5, <1>6, <1>7, <1>8, <2>1 DEF Contract!Prove, TextsOf, ProvenOf, Outcome
    <2>3. QED
      BY <2>2 DEF Contract!Next
  <1>9. CASE ~Proven(log'[Len(log)])
    <2>1. ~Ready(result')
      <3>1. ASSUME NEW c \in BOOLEAN, Abort(c) PROVE ~Ready(result')
        BY <3>1 DEF Abort, Ready, NoResult
      <3>2. ASSUME LoopReturns(FALSE) PROVE ~Ready(result')
        BY <3>2 DEF LoopReturns, Ready, NoResult
      <3>3. ~Ready(NoResult)
        BY DEF Ready, NoResult
      <3>4. exit # "passed"
        <4>1. log'[Len(log)].syntax = "passed"
          BY <1>1, <1>2, <1>3 DEF IInv, CandidateInv, Entry
        <4>2. QED
          BY <1>4, <1>9, <4>1 DEF Proven
      <3>5. QED
        BY <1>1, <3>1, <3>2, <3>3, <3>4 DEF TestsReturn, Verdict, FailAttempt, Goto
    <2>2. Outcome' \in {"working", "notReady"}
      BY <2>1 DEF Outcome
    <2>3. CASE Outcome' = "working"
      BY <1>3, <1>5, <1>7, <1>9, <2>3 DEF Contract!vars, TextsOf, ProvenOf, Outcome
    <2>4. CASE Outcome' = "notReady"
      <3>1. Contract!GiveUp
        BY <1>3, <1>5, <1>7, <1>9, <2>4 DEF Contract!GiveUp, TextsOf, ProvenOf, Outcome
      <3>2. QED
        BY <3>1 DEF Contract!Next
    <2>5. QED
      BY <2>2, <2>3, <2>4
  <1>10. QED
    BY <1>8, <1>9

LEMMA NextContract == IInv /\ [Next]_vars => [Contract!Next]_Contract!vars
  <1> SUFFICES ASSUME IInv, [Next]_vars PROVE [Contract!Next]_Contract!vars
    OBVIOUS
  <1>1. ASSUME NEW c \in BOOLEAN, Abort(c) PROVE ~Ready(result')
    BY <1>1 DEF Abort, Ready, NoResult
  <1>2. CASE \/ Start \/ CallGenerate \/ GenerateThrows \/ CallSyntax \/ CallTests
             \/ Repair \/ RequestStop
    <2>1. log' = log /\ pc # "done"
      BY <1>2 DEF Start, CallGenerate, GenerateThrows, CallSyntax, CallTests, Repair, RequestStop
    <2>2. pc' = "done" => ~Ready(result')
      BY <1>1, <1>2 DEF Start, CallGenerate, GenerateThrows, CallSyntax, CallTests, Repair,
         RequestStop, Goto
    <2>3. QED
      BY <2>1, <2>2, QuietContract
  <1>3. ASSUME NEW reply \in Snippets \cup {NoCode}, NEW backend \in Backend,
               GenerateReturns(reply, backend)
        PROVE  [Contract!Next]_Contract!vars
    <2>1. CASE stopRequested
      <3>1. log' = log /\ pc # "done" /\ ~Ready(result')
        BY <1>1, <1>3, <2>1 DEF GenerateReturns
      <3>2. QED
        BY <3>1, QuietContract
    <2>2. CASE ~stopRequested
      BY <1>3, <2>2, DrawContract
    <2>3. QED
      BY <2>1, <2>2
  <1>4. ASSUME NEW exit \in Exit, SyntaxReturns(exit)
        PROVE  [Contract!Next]_Contract!vars
    BY <1>4, SyntaxContract
  <1>5. ASSUME NEW exit \in Exit, TestsReturn(exit)
        PROVE  [Contract!Next]_Contract!vars
    BY <1>5, TestsContract
  <1>6. CASE UNCHANGED vars
    BY <1>6 DEF vars, Contract!vars, Ready, Proven
  <1>7. QED
    BY <1>2, <1>3, <1>4, <1>5, <1>6 DEF Next, Run

\* The run keeps the contract with its caller for every budget and every answer
\* of the two callbacks.
THEOREM KeepsContract == Spec => ImplementsContract
  <1>1. IInv /\ [Next]_vars => [Contract!Next]_Contract!vars
    BY NextContract
  <1>2. Init => Contract!Init
    BY InitContract
  <1>3. QED
    BY <1>1, <1>2, Invariance, PTL DEF Spec, ImplementsContract, Contract!Spec
=============================================================================
