-------------------------- MODULE PortableSmokeProofs --------------------------
(* Proofs about the validation driver in the hands of the portable smoke, and  *)
(* about the smoke's report, for any number of authored cases and replies.     *)
EXTENDS PortableSmoke, SequenceTheorems, TLAPS

Pieces == {"receipt", "noise", "flood"}
HasReceipt(s) == \E i \in 1..Len(s) : s[i] = "receipt"

DriverShape ==
  /\ call \in [by : {"nobody", "plugin", "control"}, code : Codes, phase : {"syntax", "tests"}]
  /\ wrapper \in [at : {"idle", "waiting", "stopping"}, byUser : BOOLEAN, result : 0..4]
  /\ helper \in [at : {"none", "start", "ready", "polling", "judging", "killing", "removing", "ended", "killed"},
                 exit : 0..4]
  /\ judged \in [done : Nat, exit : {"none", "zero", "one", "other"}]
  /\ judged.done <= Todo
  /\ pipe \in Seq(Pieces) /\ text \in Seq(Pieces)

FlagShape == stopAsked \in BOOLEAN

\* Between two calls nothing of the last one is left.
FreshInv ==
  call = NoCall =>
    /\ ~cancelFile /\ ~removed
    /\ wrapper.at = "idle" /\ ~wrapper.byUser /\ wrapper.result = None
    /\ helper = NoHelper /\ judged = Unjudged
    /\ cli = "none" /\ box = "none" /\ pipe = <<>> /\ text = <<>>

\* Before the helper asks for a container there is none.
BeginInv ==
  helper.at \in {"start", "ready"} => judged = Unjudged /\ box = "none" /\ ~removed

\* A receipt is written by a supervisor that is through, and after that it does nothing more.
ReceiptInv ==
  /\ HasReceipt(pipe) \/ HasReceipt(text) => Proven
  /\ judged.exit # "none" => box \in {"over", "gone"}

\* What the exit codes have to go by.
ExitInv ==
  /\ helper.exit = Good => Proven
  /\ wrapper.result = Good => Proven
  /\ helper.exit = Cancelled => cancelFile
  /\ wrapper.at = "waiting" => ~cancelFile
  /\ wrapper.byUser \/ wrapper.result = Cancelled => stopAsked

\* Once the command line is killed nobody starts the container any more.
GoneInv ==
  /\ helper.at = "removing" => cli # "up"
  /\ removed => cli # "up" /\ box # "running"

DInv == DriverShape /\ FlagShape /\ FreshInv /\ BeginInv /\ ReceiptInv /\ ExitInv /\ GoneInv

CallersNext ==
  \/ \E code \in Codes, phase \in {"syntax", "tests"} : CallDirectly(code, phase) \/ RunWrapper(code, phase)
  \/ TakeAnswer \/ AskToStop \/ PluginEnds

-----------------------------------------------------------------------------
LEMMA Joined ==
  ASSUME NEW s \in Seq(Pieces), NEW t \in Seq(Pieces), HasReceipt(s \o t)
  PROVE  HasReceipt(s) \/ HasReceipt(t)
  <1>1. PICK i \in 1..Len(s \o t) : (s \o t)[i] = "receipt"
    BY DEF HasReceipt
  <1>2. Len(s \o t) = Len(s) + Len(t)
    OBVIOUS
  <1>3. CASE i <= Len(s)
    BY <1>1, <1>3 DEF HasReceipt
  <1>4. CASE i > Len(s)
    <2>1. i - Len(s) \in 1..Len(t) /\ t[i - Len(s)] = "receipt"
      BY <1>1, <1>2, <1>4
    <2>2. QED
      BY <2>1 DEF HasReceipt
  <1>5. QED
    BY <1>3, <1>4

LEMMA DriverStarts == DriverInit => DInv
  <1> SUFFICES ASSUME DriverInit PROVE DInv
    OBVIOUS
  <1>1. DriverShape
    BY CasesAreConfigured DEF DriverInit, DriverShape, NoCall, Codes, IdleWrapper, NoHelper, Unjudged,
       None, Todo, CaseCounts
  <1>2. FlagShape
    BY DEF DriverInit, FlagShape
  <1>3. FreshInv /\ BeginInv /\ ReceiptInv /\ ExitInv /\ GoneInv
    BY DEF DriverInit, FreshInv, BeginInv, ReceiptInv, ExitInv, GoneInv, HasReceipt, IdleWrapper, NoHelper,
       Unjudged, None, Good, Cancelled
  <1>4. QED
    BY <1>1, <1>2, <1>3 DEF DInv

-----------------------------------------------------------------------------
\* Steps that leave the supervisor, the container and the output alone.
LEMMA HelperKeeps ==
  ASSUME DInv, call # NoCall, UNCHANGED <<call, judged, pipe, text>>,
         DriverShape', UNCHANGED stopAsked, ExitInv', GoneInv',
         UNCHANGED box \/ box' = "gone",
         helper'.at \in {"start", "ready"} => helper.at \in {"start", "ready"} /\ UNCHANGED <<box, removed>>
  PROVE  DInv'
  <1>1. FlagShape' /\ FreshInv' /\ BeginInv'
    BY DEF DInv, FlagShape, FreshInv, BeginInv
  <1>2. ReceiptInv'
    BY DEF DInv, ReceiptInv, Proven, Todo, HasReceipt
  <1>3. QED
    BY <1>1, <1>2 DEF DInv

LEMMA Busy == ASSUME DInv, helper.at # "none" \/ wrapper.at # "idle" \/ cli = "up" \/ box # "none" \/ pipe # <<>>
              PROVE  call # NoCall
  BY DEF DInv, FreshInv, NoHelper, IdleWrapper

LEMMA WrapperKeeps ==
  ASSUME DInv, StopHelper \/ KillHelper \/ CollectHelper
  PROVE  DInv'
  <1>1. call # NoCall /\ UNCHANGED <<call, stopAsked, judged, pipe, text, box, removed>>
    BY Busy DEF StopHelper, KillHelper, CollectHelper, docker, output, stopping
  <1>2. DriverShape'
    <2>1. WrapperResult \in 0..4
      BY DEF DInv, DriverShape, WrapperResult, Cancelled, Unavailable
    <2>2. wrapper' \in [at : {"idle", "waiting", "stopping"}, byUser : BOOLEAN, result : 0..4]
      <3>1. CASE StopHelper
        BY <3>1 DEF DInv, DriverShape, FlagShape, StopHelper
      <3>2. CASE KillHelper
        <4>1. PICK r \in {Cancelled, Unavailable} : wrapper' = [wrapper EXCEPT !.at = "idle", !.result = r]
          BY <3>2 DEF KillHelper
        <4>2. r \in 0..4
          BY DEF Cancelled, Unavailable
        <4>3. QED
          BY <4>1, <4>2 DEF DInv, DriverShape
      <3>3. CASE CollectHelper
        BY <3>3, <2>1 DEF DInv, DriverShape, CollectHelper
      <3>4. QED
        BY <3>1, <3>2, <3>3
    <2>3. helper' = helper \/ helper' = [helper EXCEPT !.at = "killed"]
      BY DEF StopHelper, KillHelper, CollectHelper
    <2>4. QED
      BY <1>1, <2>2, <2>3 DEF DInv, DriverShape, Todo
  <1>3. ExitInv'
    <2>1. CASE StopHelper
      BY <1>1, <2>1 DEF DInv, DriverShape, ExitInv, StopHelper, Proven, Todo
    <2>2. CASE KillHelper
      BY <1>1, <2>2 DEF DInv, DriverShape, ExitInv, KillHelper, Proven, Todo, stopping, Good, Cancelled, Unavailable
    <2>3. CASE CollectHelper
      <3>1. /\ wrapper'.result = WrapperResult /\ wrapper'.at = "idle" /\ wrapper'.byUser = wrapper.byUser
            /\ wrapper.at # "idle" /\ UNCHANGED <<helper, stopAsked, cancelFile>>
        BY <2>3 DEF DInv, DriverShape, CollectHelper, stopping
      <3>2. WrapperResult = Cancelled => stopAsked
        BY <3>1 DEF DInv, DriverShape, ExitInv, WrapperResult, Cancelled, Unavailable
      <3>3. WrapperResult = Good => Proven
        BY DEF DInv, ExitInv, WrapperResult, Good, Cancelled, Unavailable
      <3>4. QED
        BY <1>1, <3>1, <3>2, <3>3 DEF DInv, ExitInv, Proven, Todo
    <2>4. QED
      BY <2>1, <2>2, <2>3
  <1>4. GoneInv' /\ (helper'.at \in {"start", "ready"} => helper.at \in {"start", "ready"})
    BY <1>1 DEF DInv, DriverShape, GoneInv, StopHelper, KillHelper, CollectHelper, docker
  <1>5. QED
    BY <1>1, <1>2, <1>3, <1>4, HelperKeeps

\* validate() and main(), but for the container it asks for.
LEMMA ValidateKeeps ==
  ASSUME DInv, ReadRequest \/ RefuseContainer \/ Poll \/ Judge \/ KillCli \/ RemoveContainer
  PROVE  DInv'
  <1>1. /\ call # NoCall /\ UNCHANGED <<call, stopAsked, cancelFile, wrapper, judged, pipe, text>>
        /\ UNCHANGED box \/ box' = "gone"
        /\ helper'.at \in {"start", "ready"} => helper.at \in {"start", "ready"} /\ UNCHANGED <<box, removed>>
    BY Busy DEF ReadRequest, RefuseContainer, Poll, Judge, KillCli, RemoveContainer, Ends, docker, output, stopping,
       DInv, DriverShape
  <1>2. Verdict = Good => Proven
    <2>1. text = <<"receipt">> => HasReceipt(text)
      BY DEF HasReceipt
    <2>2. QED
      BY <2>1 DEF Verdict, DInv, ReceiptInv, Good, Failed, Unavailable
  <1>3. Verdict \in {Good, Failed, Unavailable}
    BY DEF Verdict
  <1>4. DriverShape'
    BY <1>1, <1>3 DEF DInv, DriverShape, Todo, ReadRequest, RefuseContainer, Poll, Judge, KillCli, RemoveContainer, Ends,
       Good, Failed, Unavailable, Cancelled
  <1>5. ExitInv'
    <2>1. helper'.exit \in {helper.exit, Failed, Unavailable} \/ (helper'.exit = Cancelled /\ cancelFile)
          \/ helper'.exit = Verdict
      BY DEF DInv, DriverShape, ReadRequest, RefuseContainer, Poll, Judge, KillCli, RemoveContainer, Ends
    <2>2. QED
      BY <1>1, <1>2, <1>3, <2>1 DEF DInv, ExitInv, Proven, Todo, Good, Failed, Unavailable, Cancelled
  <1>6. GoneInv'
    BY DEF DInv, DriverShape, GoneInv, ReadRequest, RefuseContainer, Poll, Judge, KillCli, RemoveContainer, Ends,
       docker, output
  <1>7. QED
    BY <1>1, <1>4, <1>5, <1>6, HelperKeeps

LEMMA StartContainerKeeps ==
  ASSUME DInv, StartContainer
  PROVE  DInv'
  <1>1. /\ call # NoCall /\ UNCHANGED <<call, stopAsked, cancelFile, wrapper, judged, pipe, text, removed>>
        /\ ~removed /\ judged = Unjudged /\ helper.at = "ready"
    BY Busy DEF StartContainer, output, stopping, DInv, BeginInv
  <1>2. DriverShape'
    BY <1>1 DEF DInv, DriverShape, Todo, StartContainer, Ends, Failed, Cancelled
  <1>3. FreshInv' /\ BeginInv' /\ GoneInv'
    BY <1>1 DEF DInv, DriverShape, FreshInv, BeginInv, GoneInv, StartContainer, Ends
  <1>4. ReceiptInv'
    BY <1>1 DEF DInv, ReceiptInv, Proven, Todo, HasReceipt, Unjudged
  <1>5. ExitInv'
    BY <1>1 DEF DInv, DriverShape, ExitInv, StartContainer, Ends, Proven, Todo, Good, Failed, Cancelled
  <1>6. QED
    BY <1>1, <1>2, <1>3, <1>4, <1>5 DEF DInv, FlagShape

LEMMA ReadOutputKeeps ==
  ASSUME DInv, ReadOutput
  PROVE  DInv'
  <1>1. /\ pipe # <<>> /\ pipe' = Tail(pipe)
        /\ text' = Append(text, IF Head(pipe) = "flood" THEN "noise" ELSE Head(pipe))
        /\ UNCHANGED <<call, stopAsked, cancelFile, wrapper, helper, cli, box, judged, removed>>
    BY DEF ReadOutput, stopping, docker
  <1>2. pipe \in Seq(Pieces) /\ text \in Seq(Pieces) /\ Head(pipe) \in Pieces
    BY <1>1 DEF DInv, DriverShape
  <1>3. DriverShape'
    BY <1>1, <1>2 DEF DInv, DriverShape, Todo, Pieces
  <1>4. HasReceipt(pipe') => HasReceipt(pipe)
    <2>1. ASSUME NEW i \in 1..Len(Tail(pipe)), Tail(pipe)[i] = "receipt" PROVE HasReceipt(pipe)
      <3>1. i + 1 \in 1..Len(pipe) /\ pipe[i + 1] = "receipt"
        BY <1>1, <1>2, <2>1
      <3>2. QED
        BY <3>1 DEF HasReceipt
    <2>2. QED
      BY <1>1, <2>1 DEF HasReceipt
  <1>5. HasReceipt(text') => HasReceipt(text) \/ HasReceipt(pipe)
    <2>1. Head(pipe) = "receipt" => HasReceipt(pipe)
      BY <1>1, <1>2 DEF HasReceipt
    <2>2. ASSUME NEW i \in 1..Len(text'), text'[i] = "receipt", Head(pipe) # "receipt" PROVE HasReceipt(text)
      <3>1. i \in 1..Len(text) /\ text[i] = "receipt"
        BY <1>1, <1>2, <2>2
      <3>2. QED
        BY <3>1 DEF HasReceipt
    <2>3. QED
      BY <2>1, <2>2 DEF HasReceipt
  <1>6. ReceiptInv'
    BY <1>1, <1>4, <1>5 DEF DInv, ReceiptInv, Proven, Todo
  <1>7. FreshInv' /\ BeginInv' /\ ExitInv' /\ GoneInv'
    BY <1>1 DEF DInv, FreshInv, BeginInv, ExitInv, GoneInv, Proven, Todo
  <1>8. QED
    BY <1>1, <1>3, <1>6, <1>7 DEF DInv, FlagShape

\* Docker's steps write no receipt.
LEMMA DockerKeeps ==
  ASSUME DInv, CreateContainer \/ RunContainer \/ LoseDocker \/ EndCli
  PROVE  DInv'
  <1>1. /\ UNCHANGED <<call, stopAsked, cancelFile, wrapper, helper, judged, text, removed>>
        /\ pipe' = pipe \/ pipe' = pipe \o <<"noise">>
        /\ call # NoCall
    BY Busy DEF CreateContainer, RunContainer, LoseDocker, EndCli, Emit, output, stopping
  <1>2. pipe \in Seq(Pieces) /\ <<"noise">> \in Seq(Pieces) /\ ~HasReceipt(<<"noise">>)
    BY DEF DInv, DriverShape, Pieces, HasReceipt
  <1>3. HasReceipt(pipe') => HasReceipt(pipe)
    BY <1>1, <1>2, Joined
  <1>4. DriverShape'
    BY <1>1, <1>2 DEF DInv, DriverShape, Todo
  <1>5. FreshInv' /\ BeginInv'
    BY <1>1 DEF DInv, FreshInv, BeginInv, CreateContainer, RunContainer, LoseDocker, EndCli
  <1>6. ReceiptInv'
    BY <1>1, <1>3 DEF DInv, ReceiptInv, Proven, Todo, HasReceipt, CreateContainer, RunContainer, LoseDocker, EndCli
  <1>7. ExitInv' /\ GoneInv'
    BY <1>1 DEF DInv, DriverShape, ExitInv, GoneInv, Proven, Todo, CreateContainer, RunContainer, LoseDocker, EndCli
  <1>8. QED
    BY <1>1, <1>4, <1>5, <1>6, <1>7 DEF DInv, FlagShape

\* The supervisor alone writes a receipt, and only when all steps are done.
LEMMA SuperviseKeeps ==
  ASSUME DInv, Supervise
  PROVE  DInv'
  <1>1. /\ UNCHANGED <<call, stopAsked, cancelFile, wrapper, helper, cli, text, removed>>
        /\ box = "running" /\ box' \in {"running", "over"} /\ call # NoCall
    BY Busy DEF Supervise, stopping
  <1>2. ~Proven /\ ~HasReceipt(pipe) /\ ~HasReceipt(text)
    BY <1>1 DEF DInv, ReceiptInv, Proven
  <1>3. PICK said \in {<<>>, <<"noise">>, <<"flood">>, <<"receipt">>} : pipe' = pipe \o said
    <2>1. pipe = pipe \o <<>>
      BY DEF DInv, DriverShape
    <2>2. QED
      BY <2>1 DEF Supervise, Emit, Warnings
  <1>4. pipe \in Seq(Pieces) /\ said \in Seq(Pieces)
    <2>1. pipe \in Seq(Pieces)
      BY DEF DInv, DriverShape
    <2>2. <<>> \in Seq(Pieces) /\ <<"noise">> \in Seq(Pieces) /\ <<"flood">> \in Seq(Pieces)
          /\ <<"receipt">> \in Seq(Pieces)
      BY DEF Pieces
    <2>3. QED
      BY <1>3, <2>1, <2>2
  <1>5. judged' \in [done : Nat, exit : {"none", "zero", "one", "other"}] /\ judged'.done <= Todo
        /\ (judged'.exit # "none" => judged.exit # "none" \/ box' = "over")
    BY DEF DInv, DriverShape, Supervise
  <1>6. DriverShape'
    BY <1>1, <1>3, <1>4, <1>5 DEF DInv, DriverShape, Todo
  <1>7. FreshInv' /\ BeginInv' /\ ExitInv' /\ GoneInv'
    <2>1. FreshInv' /\ BeginInv'
      BY <1>1 DEF DInv, FreshInv, BeginInv
    <2>2. ExitInv'
      BY <1>1, <1>2 DEF DInv, ExitInv
    <2>3. GoneInv'
      BY <1>1 DEF DInv, GoneInv
    <2>4. QED
      BY <2>1, <2>2, <2>3
  <1>8. HasReceipt(pipe') => Proven'
    <2>1. CASE judged.done + 1 > Todo /\ judged' = [judged EXCEPT !.exit = "zero"]
      <3>1. judged.done = Todo
        <4>1. Todo \in Nat /\ judged.done \in Nat /\ judged.done <= Todo
          BY CasesAreConfigured DEF DInv, DriverShape, Todo, CaseCounts
        <4>2. QED
          BY <2>1, <4>1
      <3>2. QED
        BY <1>1, <2>1, <3>1 DEF DInv, DriverShape, Proven, Todo
    <2>2. CASE pipe' = pipe \/ (\E t \in {<<>>, <<"noise">>, <<"flood">>} : pipe' = pipe \o t)
      <3>1. ASSUME NEW t \in {<<>>, <<"noise">>, <<"flood">>} PROVE t \in Seq(Pieces) /\ ~HasReceipt(t)
        <4>1. <<>> \in Seq(Pieces) /\ ~HasReceipt(<<>>)
          BY DEF Pieces, HasReceipt
        <4>2. <<"noise">> \in Seq(Pieces) /\ ~HasReceipt(<<"noise">>)
          BY DEF Pieces, HasReceipt
        <4>3. <<"flood">> \in Seq(Pieces) /\ ~HasReceipt(<<"flood">>)
          BY DEF Pieces, HasReceipt
        <4>4. QED
          BY <4>1, <4>2, <4>3
      <3>2. QED
        BY <1>2, <1>4, <2>2, <3>1, Joined
    <2>3. QED
      BY <2>1, <2>2 DEF Supervise, Emit, Warnings
  <1>9. ReceiptInv'
    <2>1. judged'.exit # "none" => box' \in {"over", "gone"}
      BY <1>1, <1>5 DEF DInv, ReceiptInv
    <2>2. ~HasReceipt(text')
      BY <1>1, <1>2
    <2>3. QED
      BY <1>8, <2>1, <2>2 DEF ReceiptInv
  <1>10. QED
    BY <1>1, <1>6, <1>7, <1>9 DEF DInv, FlagShape

-----------------------------------------------------------------------------
\* The callers

\* A call begins with nothing of the last one around.
LEMMA CallKeeps ==
  ASSUME DInv, NEW code \in Codes, NEW phase \in {"syntax", "tests"},
         CallDirectly(code, phase) \/ RunWrapper(code, phase)
  PROVE  DInv'
  <1>1. /\ call = NoCall /\ call' \in [by : {"plugin", "control"}, code : Codes, phase : {"syntax", "tests"}]
        /\ UNCHANGED <<stopAsked, cancelFile, cli, box, judged, pipe, text, removed>>
    BY DEF CallDirectly, RunWrapper, Free, stopping, docker, output
  <1>2. /\ ~cancelFile /\ ~removed /\ ~wrapper.byUser /\ wrapper.result = None
        /\ helper = NoHelper /\ judged = Unjudged
        /\ cli = "none" /\ box = "none" /\ pipe = <<>> /\ text = <<>>
    BY <1>1 DEF DInv, FreshInv
  <1>3. call' # NoCall
    BY <1>1 DEF NoCall
  <1>4. helper' \in {NoHelper, [NoHelper EXCEPT !.at = "ready"], [NoHelper EXCEPT !.at = "start"]}
    BY <1>2 DEF CallDirectly, RunWrapper
  <1>5. \/ wrapper' = wrapper
        \/ wrapper' = [IdleWrapper EXCEPT !.result = Cancelled] /\ stopAsked
        \/ wrapper' = [IdleWrapper EXCEPT !.result = Unavailable]
        \/ wrapper' = [IdleWrapper EXCEPT !.at = "waiting"]
    BY DEF CallDirectly, RunWrapper
  <1>6. DriverShape'
    <2>1. helper' \in [at : {"none", "start", "ready", "polling", "judging", "killing", "removing", "ended", "killed"},
                       exit : 0..4]
      BY <1>4 DEF NoHelper, None
    <2>2. wrapper' \in [at : {"idle", "waiting", "stopping"}, byUser : BOOLEAN, result : 0..4]
      <3>1. IdleWrapper \in [at : {"idle", "waiting", "stopping"}, byUser : BOOLEAN, result : 0..4]
        BY DEF IdleWrapper, None
      <3>2. Cancelled \in 0..4 /\ Unavailable \in 0..4
        BY DEF Cancelled, Unavailable
      <3>3. QED
        BY <1>5, <3>1, <3>2 DEF DInv, DriverShape
    <2>3. judged'.done <= Todo'
      BY <1>1, <1>2, CasesAreConfigured DEF Unjudged, Todo, CaseCounts
    <2>4. QED
      BY <1>1, <2>1, <2>2, <2>3 DEF DInv, DriverShape
  <1>7. FlagShape' /\ FreshInv' /\ BeginInv' /\ ReceiptInv' /\ GoneInv'
    BY <1>1, <1>2, <1>3, <1>4 DEF DInv, FlagShape, FreshInv, BeginInv, ReceiptInv, GoneInv, HasReceipt, Unjudged, NoHelper
  <1>8. ExitInv'
    <2>1. helper'.exit = None
      BY <1>4 DEF NoHelper
    <2>2. wrapper'.result # Good /\ ~wrapper'.byUser /\ (wrapper'.result = Cancelled => stopAsked)
      BY <1>2, <1>5 DEF IdleWrapper, None, Good, Cancelled, Unavailable
    <2>3. QED
      BY <1>1, <1>2, <2>1, <2>2 DEF ExitInv, None, Good, Cancelled
  <1>9. QED
    BY <1>6, <1>7, <1>8 DEF DInv

LEMMA TakeAnswerKeeps ==
  ASSUME DInv, TakeAnswer
  PROVE  DInv'
  <1>1. /\ call' = NoCall /\ ~cancelFile' /\ ~removed' /\ wrapper' = IdleWrapper /\ helper' = NoHelper
        /\ judged' = Unjudged /\ cli' = "none" /\ box' = "none" /\ pipe' = <<>> /\ text' = <<>>
        /\ UNCHANGED stopAsked
    BY DEF TakeAnswer
  <1>2. DriverShape'
    BY <1>1, CasesAreConfigured DEF DriverShape, NoCall, Codes, IdleWrapper, NoHelper, Unjudged, None, Todo, CaseCounts
  <1>3. FlagShape' /\ FreshInv' /\ BeginInv' /\ ReceiptInv' /\ ExitInv' /\ GoneInv'
    BY <1>1 DEF DInv, FlagShape, FreshInv, BeginInv, ReceiptInv, ExitInv, GoneInv, HasReceipt, IdleWrapper, NoHelper,
       Unjudged, None, Good, Cancelled
  <1>4. QED
    BY <1>2, <1>3 DEF DInv

LEMMA AskToStopKeeps ==
  ASSUME DInv, AskToStop
  PROVE  DInv'
  <1>1. /\ stopAsked' = TRUE
        /\ UNCHANGED <<call, cancelFile, wrapper, helper, cli, box, judged, pipe, text, removed>>
    BY DEF AskToStop, docker, output
  <1>2. DriverShape' /\ FreshInv' /\ BeginInv' /\ ReceiptInv' /\ GoneInv'
    BY <1>1 DEF DInv, DriverShape, FreshInv, BeginInv, ReceiptInv, GoneInv, HasReceipt, Proven, Todo
  <1>3. FlagShape' /\ ExitInv'
    BY <1>1 DEF DInv, FlagShape, ExitInv, Proven, Todo
  <1>4. QED
    BY <1>2, <1>3 DEF DInv

LEMMA PluginEndsKeeps ==
  ASSUME DInv, PluginEnds
  PROVE  DInv'
  <1>1. /\ UNCHANGED <<call, stopAsked, cancelFile, box, judged, pipe, text, removed>>
        /\ wrapper' = [wrapper EXCEPT !.at = "idle"]
        /\ helper' = helper \/ (helper' = [helper EXCEPT !.at = "killed"] /\ call.by = "plugin")
        /\ cli' = cli \/ (cli' = "other" /\ call.by = "plugin")
    BY DEF PluginEnds, stopping, output
  <1>2. DriverShape'
    BY <1>1 DEF DInv, DriverShape, Todo
  <1>3. FreshInv'
    <2>1. SUFFICES ASSUME call' = NoCall PROVE FreshInv'
      BY DEF FreshInv
    <2>2. call = NoCall /\ call.by # "plugin"
      BY <1>1, <2>1 DEF NoCall
    <2>3. wrapper'.at = "idle" /\ ~wrapper'.byUser /\ wrapper'.result = None
      BY <1>1, <2>2 DEF DInv, DriverShape, FreshInv
    <2>4. QED
      BY <1>1, <2>2, <2>3 DEF DInv, FreshInv
  <1>4. FlagShape' /\ BeginInv' /\ ReceiptInv' /\ ExitInv' /\ GoneInv'
    BY <1>1 DEF DInv, DriverShape, FlagShape, BeginInv, ReceiptInv, ExitInv, GoneInv, HasReceipt, Proven, Todo
  <1>5. QED
    BY <1>2, <1>3, <1>4 DEF DInv

LEMMA DriverKeeps ==
  ASSUME DInv, DriverNext \/ CallersNext \/ UNCHANGED driver
  PROVE  DInv'
  <1>1. CASE DriverNext
    BY <1>1, WrapperKeeps, ValidateKeeps, StartContainerKeeps, ReadOutputKeeps, DockerKeeps, SuperviseKeeps DEF DriverNext
  <1>2. CASE CallersNext
    BY <1>2, CallKeeps, TakeAnswerKeeps, AskToStopKeeps, PluginEndsKeeps DEF CallersNext
  <1>3. CASE UNCHANGED driver
    BY <1>3 DEF DInv, DriverShape, FlagShape, FreshInv, BeginInv, ReceiptInv, ExitInv, GoneInv, HasReceipt, Proven, Todo,
       driver, stopping, docker, output
  <1>4. QED
    BY <1>1, <1>2, <1>3

-----------------------------------------------------------------------------
\* The smoke is one such caller.
LEMMA SmokeIsCaller ==
  ASSUME [Next]_vars
  PROVE  DriverNext \/ CallersNext \/ UNCHANGED driver
  <1>1. CASE Prepare \/ StartServer \/ StartEditor \/ OpenPanel \/ PostGenerate \/ TakeSample \/ Decide \/ GiveUp
             \/ BindProposal \/ RefuseProposal \/ SeeApplied \/ SeeUndone \/ SaveReport \/ StopServer
    BY <1>1 DEF Prepare, StartServer, StartEditor, OpenPanel, PostGenerate, TakeSample, Decide, GiveUp,
       BindProposal, RefuseProposal, SeeApplied, SeeUndone, SaveReport, StopServer
  <1>2. CASE BeginGeneration \/ Reply \/ RecordLate \/ ShowReview \/ ApplyReview
    BY <1>2 DEF BeginGeneration, Reply, RecordLate, ShowReview, ApplyReview
  <1>3. CASE TryControls
    BY <1>3 DEF TryControls, CallersNext, Codes
  <1>4. CASE Validate
    BY <1>4 DEF Validate, CallersNext, Codes
  <1>5. CASE JudgeControls \/ HearVerdict
    BY <1>5 DEF JudgeControls, HearVerdict, CallersNext
  <1>6. CASE CloseEditor \/ EditorExits \/ StopAsked
    BY <1>6 DEF CloseEditor, EditorExits, StopAsked, CallersNext
  <1>7. CASE UNCHANGED vars
    BY <1>7 DEF vars
  <1>8. QED
    BY <1>1, <1>2, <1>3, <1>4, <1>5, <1>6, <1>7 DEF Next

\* Whatever docker, the deadlines, the stop and the candidate's output do, and in
\* whatever order: a validation passes only if its own supervisor ran every case,
\* "cancelled" is said only of a cancelled one, and after its cleanup nothing runs.
THEOREM VerdictAlwaysEarned == Spec => []VerdictIsEarned
  <1>1. Init => DInv
    BY DriverStarts DEF Init
  <1>2. DInv /\ [Next]_vars => DInv'
    BY SmokeIsCaller, DriverKeeps
  <1>3. DInv => VerdictIsEarned
    BY DEF DInv, ExitInv, GoneInv, VerdictIsEarned, Passed
  <1>4. QED
    BY <1>1, <1>2, <1>3, PTL DEF Spec

-----------------------------------------------------------------------------
\* The report

Before    == {"prepare", "control", "controlled", "counter", "countered", "ready", "open", "panel", "request"}
Watching  == {"watch", "decide", "review", "bind"}
Leaving   == {"close", "stop", "ended"}
Reviewing == {"settling", "enabling", "idle"}

PanelShape ==
  /\ panel \in [work : {"idle", "asked", "waiting", "answered", "checking", "compiled", "showing", "settling",
                        "enabling", "applying"},
                got : Nat, history : {"before", "asked", "report"}, shown : Int, apply : BOOLEAN, reject : BOOLEAN,
                ready : BOOLEAN, proven : Nat]
  /\ captured \in Nat /\ panel.got <= captured /\ panel.shown <= panel.got
  /\ mode \in Modes

\* Until the plugin is asked it does nothing.
RestInv ==
  smoke \in Before =>
    /\ panel.work = "idle" /\ ~panel.apply /\ ~panel.reject /\ ~panel.ready
    /\ captured = 0 /\ trail = <<Empty>> /\ ~report

RequestInv == smoke = "request" => mode.exercise

\* While it works: the Reject button comes last, Apply is offered for the last reply alone.
WatchInv ==
  smoke \in Watching =>
    /\ mode.exercise /\ ~report /\ panel.work # "applying"
    /\ trail = <<Empty>> \/ (trail = <<Empty, Other>> /\ panel.work \in Reviewing)
    /\ panel.reject => panel.work = "idle"
    /\ panel.apply => panel.work \in Reviewing /\ (flaw = "unproven" \/ panel.ready)
    /\ panel.ready => panel.work \in Reviewing \cup {"showing"} /\ panel.proven = panel.got
    /\ smoke \in {"review", "bind"} => captured > 0 /\ panel.reject
    /\ smoke = "bind" => (sample.apply => panel.apply)

\* The proposal is the last reply, and proven unless Apply was offered by itself.
BoundProposal ==
  /\ proposal = panel.got /\ panel.shown = proposal /\ proposal > 0
  /\ mode.validated => (flaw # "unproven" => panel.proven = proposal)

ApplyInv ==
  smoke \in {"apply", "undo"} =>
    /\ mode.exercise /\ mode.validated /\ ~report /\ BoundProposal
    /\ \/ smoke = "apply" /\ panel.work = "applying" /\ trail = <<Empty>>
       \/ smoke = "apply" /\ panel.work = "idle" /\ Len(trail) = 2 /\ trail[1] = Empty /\ trail \in Seq(Int)
       \/ smoke = "undo" /\ panel.work = "idle" /\ trail \in {<<Empty, proposal>>, <<Empty, proposal, Empty>>}

DoneInv ==
  /\ smoke = "report" \/ report =>
       /\ panel.work = "idle"
       /\ mode.exercise => BoundProposal
       /\ mode.validated => trail = <<Empty, proposal, Empty>>
  /\ report => smoke \in Leaving

\* What is known of the controls while they are tried, and of the server until it is asked.
Controlling == {"prepare", "control", "controlled", "counter", "countered"}
Control(code) == [by |-> "control", code |-> code, phase |-> "tests"]
RightTold == [exit |-> Good, proven |-> TRUE]
WrongTold == [exit |-> Failed, proven |-> FALSE]

CInv ==
  /\ smoke \in Before => server # "late"
  /\ smoke \in {"prepare", "control"} => controls = <<>>
  /\ smoke = "controlled" => controls = <<>> /\ call = Control("right")
  /\ smoke = "counter" => controls = <<RightTold>>
  /\ smoke = "countered" => controls = <<RightTold>> /\ call = Control("wrong")
  /\ call.code = "wrong" => call.phase = "tests" /\ judged.done <= Cases
  /\ mode.validated /\ (smoke \notin Controlling \cup Leaving \/ report) => controls = <<RightTold, WrongTold>>

JInv == PanelShape /\ RequestInv /\ RestInv /\ WatchInv /\ ApplyInv /\ DoneInv

seen == <<mode, flaw, report, proposal, captured, panel, trail>>

\* What Append makes of the buffer's first and second text.
LEMMA AppendSecond ==
  ASSUME NEW a \in Int, NEW b \in Int
  PROVE  Append(<<a>>, b) = <<a, b>>
  <1> DEFINE t == <<a, b>>
             u == Append(<<a>>, b)
  <1>1. <<a>> \in Seq(Int) /\ t \in Seq(Int) /\ Len(<<a>>) = 1 /\ Len(t) = 2
    OBVIOUS
  <1>2. u \in Seq(Int) /\ Len(u) = 2
    BY <1>1
  <1>3. u[1] = a /\ u[2] = b /\ t[1] = a /\ t[2] = b
    BY <1>1
  <1>4. \A i \in 1 .. Len(u) : u[i] = t[i]
    BY <1>1, <1>2, <1>3
  <1>5. QED
    BY <1>1, <1>2, <1>4, SeqEqual

LEMMA AppendThird ==
  ASSUME NEW a \in Int, NEW b \in Int, NEW c \in Int
  PROVE  Append(<<a, b>>, c) = <<a, b, c>>
  <1> DEFINE t == <<a, b, c>>
             u == Append(<<a, b>>, c)
  <1>1. <<a, b>> \in Seq(Int) /\ t \in Seq(Int) /\ Len(<<a, b>>) = 2 /\ Len(t) = 3
    OBVIOUS
  <1>2. u \in Seq(Int) /\ Len(u) = 3
    BY <1>1
  <1>3. u[1] = a /\ u[2] = b /\ u[3] = c /\ t[1] = a /\ t[2] = b /\ t[3] = c
    BY <1>1
  <1>4. \A i \in 1 .. Len(u) : u[i] = t[i]
    BY <1>1, <1>2, <1>3
  <1>5. QED
    BY <1>1, <1>2, <1>4, SeqEqual

LEMMA ReportStarts == Init => JInv
  <1> SUFFICES ASSUME Init PROVE JInv
    OBVIOUS
  <1>1. PanelShape
    BY DEF Init, Asleep, Empty, PanelShape
  <1>2. RequestInv /\ RestInv
    BY DEF Init, Asleep, RequestInv, RestInv
  <1>3. WatchInv /\ ApplyInv /\ DoneInv
    BY DEF Init, WatchInv, ApplyInv, DoneInv, Watching
  <1>4. QED
    BY <1>1, <1>2, <1>3 DEF JInv

\* The script goes on without a look at the plugin, or gives up.
LEMMA GoingKeeps ==
  ASSUME JInv, UNCHANGED seen,
         \/ smoke' \in Leaving
         \/ smoke \in Before /\ smoke' \in Before
         \/ smoke \in Watching /\ smoke' \in {"watch", "decide"}
         \/ UNCHANGED <<smoke, sample>>,
         smoke' = "request" => mode.exercise
  PROVE  JInv'
  <1>1. PanelShape'
    BY DEF JInv, PanelShape, seen
  <1>2. RequestInv' /\ RestInv'
    BY DEF JInv, RequestInv, RestInv, seen, Before, Watching, Leaving
  <1>3. WatchInv'
    BY DEF JInv, WatchInv, seen, Before, Watching, Leaving
  <1>4. ApplyInv'
    BY DEF JInv, ApplyInv, BoundProposal, seen, Before, Watching, Leaving
  <1>5. DoneInv'
    BY DEF JInv, DoneInv, BoundProposal, seen, Before, Watching, Leaving
  <1>6. QED
    BY <1>1, <1>2, <1>3, <1>4, <1>5 DEF JInv

LEMMA ScriptGoes ==
  ASSUME JInv, \/ Prepare \/ TryControls \/ JudgeControls \/ StartServer \/ StartEditor \/ GiveUp \/ RefuseProposal
               \/ CloseEditor \/ StopServer
  PROVE  JInv'
  <1>1. UNCHANGED seen
    BY DEF Prepare, TryControls, JudgeControls, StartServer, StartEditor, GiveUp, RefuseProposal, CloseEditor,
       StopServer, Raises, Goes, Moves, Told, world, seen
  <1>2. \/ smoke' \in Leaving
        \/ smoke \in Before /\ smoke' \in Before \ {"request"}
    BY DEF Prepare, TryControls, JudgeControls, StartServer, StartEditor, GiveUp, RefuseProposal, CloseEditor,
       StopServer, Raises, Goes, Moves, Told, Before, Leaving
  <1>3. QED
    BY <1>1, <1>2, GoingKeeps DEF Leaving

LEMMA OpenPanelKeeps ==
  ASSUME JInv, OpenPanel
  PROVE  JInv'
  <1>1. smoke = "panel" /\ UNCHANGED seen
    BY DEF OpenPanel, Raises, Goes, Moves, world, seen
  <1>2. CASE smoke' \in Leaving \/ (smoke' = "request" /\ mode.exercise)
    BY <1>1, <1>2, GoingKeeps DEF Before, Leaving
  <1>3. CASE smoke' = "report" /\ ~mode.exercise
    <2>1. ~mode.validated
      BY <1>3 DEF JInv, PanelShape, Modes
    <2>2. panel.work = "idle" /\ ~report
      BY <1>1 DEF JInv, RestInv, Before
    <2>3. PanelShape'
      BY <1>1 DEF JInv, PanelShape, seen
    <2>4. RequestInv' /\ RestInv' /\ WatchInv' /\ ApplyInv'
      BY <1>3 DEF RequestInv, RestInv, WatchInv, ApplyInv, Before, Watching
    <2>5. DoneInv'
      BY <1>1, <1>3, <2>1, <2>2 DEF DoneInv, seen
    <2>6. QED
      BY <2>3, <2>4, <2>5 DEF JInv
  <1>4. QED
    BY <1>2, <1>3 DEF OpenPanel, Raises, Goes, Moves, Leaving

LEMMA PostGenerateKeeps ==
  ASSUME JInv, PostGenerate
  PROVE  JInv'
  <1>1. /\ smoke = "request" /\ smoke' = "watch" /\ panel' = [panel EXCEPT !.work = "asked"]
        /\ UNCHANGED <<mode, flaw, sample, report, captured, trail>>
    BY DEF PostGenerate
  <1>2. ~panel.apply /\ ~panel.reject /\ ~panel.ready /\ trail = <<Empty>> /\ ~report
    BY <1>1 DEF JInv, RestInv, Before
  <1>3. PanelShape'
    BY <1>1 DEF JInv, PanelShape
  <1>4. panel'.work = "asked" /\ ~panel'.apply /\ ~panel'.reject /\ ~panel'.ready
    BY <1>1, <1>2 DEF JInv, PanelShape
  <1>5. RequestInv' /\ RestInv' /\ ApplyInv' /\ DoneInv'
    BY <1>1, <1>2 DEF RequestInv, RestInv, ApplyInv, DoneInv, Before
  <1>6. WatchInv'
    BY <1>1, <1>2, <1>4 DEF JInv, RequestInv, WatchInv
  <1>7. QED
    BY <1>3, <1>5, <1>6 DEF JInv

LEMMA TakeSampleKeeps ==
  ASSUME JInv, TakeSample
  PROVE  JInv'
  <1>1. UNCHANGED seen /\ sample'.apply = panel.apply
    BY DEF TakeSample, world, seen
  <1>2. CASE smoke = "watch" /\ smoke' = "decide"
    BY <1>1, <1>2, GoingKeeps DEF Watching
  <1>3. CASE smoke = "review" /\ smoke' = "bind"
    <2>1. PanelShape'
      BY <1>1 DEF JInv, PanelShape, seen
    <2>2. RequestInv' /\ RestInv' /\ ApplyInv' /\ DoneInv'
      BY <1>1, <1>3 DEF JInv, RequestInv, RestInv, ApplyInv, DoneInv, BoundProposal, seen, Before, Leaving
    <2>3. WatchInv'
      BY <1>1, <1>3 DEF JInv, WatchInv, seen, Watching
    <2>4. QED
      BY <2>1, <2>2, <2>3 DEF JInv
  <1>4. QED
    BY <1>2, <1>3 DEF TakeSample

LEMMA DecideKeeps ==
  ASSUME JInv, Decide
  PROVE  JInv'
  <1>1. UNCHANGED seen /\ smoke = "decide"
    BY DEF Decide, Raises, Goes, Moves, world, seen
  <1>2. CASE smoke' \in Leaving \/ smoke' = "watch"
    BY <1>1, <1>2, GoingKeeps DEF Watching, Leaving
  <1>3. CASE smoke' = "review" /\ captured > 0 /\ panel.reject
    <2>1. PanelShape'
      BY <1>1 DEF JInv, PanelShape, seen
    <2>2. RequestInv' /\ RestInv' /\ ApplyInv' /\ DoneInv'
      BY <1>1, <1>3 DEF JInv, RequestInv, RestInv, ApplyInv, DoneInv, BoundProposal, seen, Before, Leaving
    <2>3. WatchInv'
      BY <1>1, <1>3 DEF JInv, WatchInv, seen, Watching
    <2>4. QED
      BY <2>1, <2>2, <2>3 DEF JInv
  <1>4. QED
    BY <1>2, <1>3 DEF Decide, Raises, Goes, Moves, Leaving

LEMMA BindProposalKeeps ==
  ASSUME JInv, BindProposal
  PROVE  JInv'
  <1>1. /\ smoke = "bind" /\ panel.shown = captured /\ proposal' = captured
        /\ UNCHANGED <<mode, flaw, report, captured, trail>>
    BY DEF BindProposal, Bound
  <1>2. /\ mode.exercise /\ ~report /\ captured > 0 /\ panel.work = "idle"
        /\ trail = <<Empty>> \/ trail = <<Empty, Other>>
        /\ sample.apply => flaw = "unproven" \/ panel.proven = panel.got
    BY <1>1 DEF JInv, WatchInv, Watching
  <1>6. proposal' = panel.got /\ panel.shown = proposal' /\ proposal' > 0
    <2>1. captured \in Nat /\ panel.got \in Nat /\ panel.shown \in Int /\ panel.got <= captured /\ panel.shown <= panel.got
      BY DEF JInv, PanelShape
    <2>2. QED
      BY <1>1, <1>2, <2>1
  <1>3. CASE mode.validated
    <2>1. smoke' = "apply" /\ panel' = [panel EXCEPT !.work = "applying"] /\ sample.apply /\ Buffer = Empty
      BY <1>3 DEF BindProposal, Appliable
    <2>2. trail = <<Empty>>
      <3>1. <<Empty, Other>>[Len(<<Empty, Other>>)] # Empty
        BY DEF Empty, Other
      <3>2. QED
        BY <1>2, <2>1, <3>1 DEF Buffer, Last
    <2>3. PanelShape'
      BY <1>1, <2>1 DEF JInv, PanelShape
    <2>4. /\ panel'.work = "applying" /\ panel'.shown = panel.shown /\ panel'.proven = panel.proven
          /\ panel'.got = panel.got
      BY <2>1 DEF JInv, PanelShape
    <2>5. RequestInv' /\ RestInv' /\ WatchInv' /\ DoneInv'
      BY <1>1, <1>2, <2>1 DEF RequestInv, RestInv, WatchInv, DoneInv, Before, Watching
    <2>6. ApplyInv'
      BY <1>1, <1>2, <1>3, <1>6, <2>1, <2>2, <2>4 DEF ApplyInv, BoundProposal
    <2>7. QED
      BY <2>3, <2>5, <2>6 DEF JInv
  <1>4. CASE ~mode.validated
    <2>1. smoke' = "report" /\ UNCHANGED panel
      BY <1>4 DEF BindProposal
    <2>2. PanelShape'
      BY <1>1, <2>1 DEF JInv, PanelShape
    <2>3. RequestInv' /\ RestInv' /\ WatchInv' /\ ApplyInv'
      BY <2>1 DEF RequestInv, RestInv, WatchInv, ApplyInv, Before, Watching
    <2>4. DoneInv'
      BY <1>1, <1>2, <1>4, <1>6, <2>1 DEF DoneInv, BoundProposal
    <2>5. QED
      BY <2>2, <2>3, <2>4 DEF JInv
  <1>5. QED
    BY <1>3, <1>4

LEMMA SeeAppliedKeeps ==
  ASSUME JInv, SeeApplied
  PROVE  JInv'
  <1>1. /\ smoke = "apply" /\ smoke' = "undo" /\ Buffer = proposal
        /\ trail' = IF flaw = "keeps" THEN trail ELSE Append(trail, trail[Len(trail) - 1])
        /\ UNCHANGED <<mode, flaw, proposal, report, captured, panel>>
    BY DEF SeeApplied
  <1>2. mode.exercise /\ mode.validated /\ ~report /\ BoundProposal
    BY <1>1 DEF JInv, ApplyInv
  <1>3. trail # <<Empty>>
    <2>1. <<Empty>>[Len(<<Empty>>)] = Empty
      OBVIOUS
    <2>2. proposal # Empty
      BY <1>2 DEF BoundProposal, Empty
    <2>3. QED
      BY <1>1, <2>1, <2>2 DEF Buffer, Last
  <1>4. panel.work = "idle" /\ Len(trail) = 2 /\ trail[1] = Empty /\ trail \in Seq(Int)
    BY <1>1, <1>3 DEF JInv, ApplyInv
  <1>5. trail = <<Empty, proposal>>
    BY <1>1, <1>4 DEF Buffer, Last
  <1>6. trail' \in {<<Empty, proposal>>, <<Empty, proposal, Empty>>}
    <2>1. trail[Len(trail) - 1] = Empty
      BY <1>4
    <2>2. Append(<<Empty, proposal>>, Empty) = <<Empty, proposal, Empty>>
      <3>1. proposal \in Nat /\ Empty \in Nat
        BY <1>2 DEF JInv, PanelShape, BoundProposal, Empty
      <3>2. QED
        BY <3>1, AppendThird
    <2>3. QED
      BY <1>1, <1>5, <2>1, <2>2
  <1>7. PanelShape'
    BY <1>1 DEF JInv, PanelShape
  <1>8. RequestInv' /\ RestInv' /\ WatchInv' /\ DoneInv'
    BY <1>1, <1>2 DEF RequestInv, RestInv, WatchInv, DoneInv, Before, Watching
  <1>9. ApplyInv'
    BY <1>1, <1>2, <1>4, <1>6 DEF ApplyInv, BoundProposal
  <1>10. QED
    BY <1>7, <1>8, <1>9 DEF JInv

LEMMA SeeUndoneKeeps ==
  ASSUME JInv, SeeUndone
  PROVE  JInv'
  <1>1. smoke = "undo" /\ smoke' = "report" /\ Buffer = Empty /\ UNCHANGED seen
    BY DEF SeeUndone, Goes, Moves, world, seen
  <1>2. /\ mode.exercise /\ mode.validated /\ ~report /\ BoundProposal /\ panel.work = "idle"
        /\ trail \in {<<Empty, proposal>>, <<Empty, proposal, Empty>>}
    BY <1>1 DEF JInv, ApplyInv
  <1>3. trail = <<Empty, proposal, Empty>>
    <2>1. <<Empty, proposal>>[Len(<<Empty, proposal>>)] = proposal
      OBVIOUS
    <2>2. proposal # Empty
      BY <1>2 DEF BoundProposal, Empty
    <2>3. QED
      BY <1>1, <1>2, <2>1, <2>2 DEF Buffer, Last
  <1>4. PanelShape'
    BY <1>1 DEF JInv, PanelShape, seen
  <1>5. RequestInv' /\ RestInv' /\ WatchInv' /\ ApplyInv'
    BY <1>1 DEF RequestInv, RestInv, WatchInv, ApplyInv, Before, Watching
  <1>6. DoneInv'
    BY <1>1, <1>2, <1>3 DEF DoneInv, BoundProposal, seen
  <1>7. QED
    BY <1>4, <1>5, <1>6 DEF JInv

LEMMA SaveReportKeeps ==
  ASSUME JInv, SaveReport
  PROVE  JInv'
  <1>1. smoke = "report" /\ smoke' \in Leaving /\ UNCHANGED <<mode, flaw, proposal, captured, panel, trail>>
    BY DEF SaveReport, Raises, Goes, Moves, world, Leaving
  <1>2. PanelShape'
    BY <1>1 DEF JInv, PanelShape
  <1>3. RequestInv' /\ RestInv' /\ WatchInv' /\ ApplyInv'
    BY <1>1 DEF RequestInv, RestInv, WatchInv, ApplyInv, Before, Watching, Leaving
  <1>4. DoneInv'
    BY <1>1 DEF JInv, DoneInv, BoundProposal
  <1>5. QED
    BY <1>2, <1>3, <1>4 DEF JInv

-----------------------------------------------------------------------------
\* The plugin at work, while the script watches or has left

LEMMA WorkKeeps ==
  ASSUME JInv, panel.work \notin {"idle", "applying"}, PanelShape',
         UNCHANGED <<smoke, sample, proposal, report>>,
         smoke \in Watching => WatchInv'
  PROVE  JInv'
  <1>1. smoke \notin Before \cup {"apply", "undo", "report"} /\ ~report
    BY DEF JInv, RestInv, ApplyInv, DoneInv
  <1>2. RequestInv' /\ RestInv' /\ ApplyInv' /\ DoneInv'
    BY <1>1 DEF RequestInv, RestInv, ApplyInv, DoneInv, Before
  <1>3. WatchInv'
    BY DEF WatchInv
  <1>4. QED
    BY <1>2, <1>3 DEF JInv

LEMMA BeginGenerationKeeps ==
  ASSUME JInv, BeginGeneration
  PROVE  JInv'
  <1>1. /\ panel.work = "asked"
        /\ panel' = [panel EXCEPT !.work = "waiting", !.history = "asked", !.apply = FALSE, !.reject = FALSE]
        /\ UNCHANGED <<mode, flaw, smoke, sample, proposal, report, captured, trail>>
    BY DEF BeginGeneration, Works, script
  <1>2. PanelShape'
    BY <1>1 DEF JInv, PanelShape
  <1>3. /\ panel'.work = "waiting" /\ ~panel'.apply /\ ~panel'.reject /\ panel'.ready = panel.ready
    BY <1>1 DEF JInv, PanelShape
  <1>4. smoke \in Watching => WatchInv'
    BY <1>1, <1>3 DEF JInv, WatchInv, Watching, Reviewing
  <1>5. QED
    BY <1>1, <1>2, <1>4, WorkKeeps

LEMMA ReplyKeeps ==
  ASSUME JInv, Reply
  PROVE  JInv'
  <1>1. /\ panel.work = "waiting"
        /\ \/ /\ captured' = captured + 1
              /\ \E to \in {"answered", "showing"} : panel' = [panel EXCEPT !.work = to, !.got = captured']
           \/ captured' = captured /\ panel' = [panel EXCEPT !.work = "showing"]
        /\ UNCHANGED <<mode, flaw, smoke, sample, proposal, report, trail>>
    BY DEF Reply, Works, script
  <1>2. /\ panel'.work \in {"answered", "showing"} /\ panel'.apply = panel.apply
        /\ panel'.reject = panel.reject /\ panel'.ready = panel.ready /\ panel'.shown = panel.shown
        /\ panel'.got \in {panel.got, captured'}
        /\ captured' \in {captured, captured + 1}
    BY <1>1 DEF JInv, PanelShape
  <1>3. PanelShape'
    <2>1. captured' \in Nat /\ panel'.got \in Nat /\ panel'.got <= captured' /\ panel'.shown <= panel'.got
      BY <1>1, <1>2 DEF JInv, PanelShape
    <2>2. QED
      BY <1>1, <2>1 DEF JInv, PanelShape
  <1>4. smoke \in Watching => WatchInv'
    <2>1. captured > 0 => captured' > 0
      BY <1>2 DEF JInv, PanelShape
    <2>2. QED
      BY <1>1, <1>2, <2>1 DEF JInv, WatchInv, Watching, Reviewing
  <1>5. QED
    BY <1>1, <1>3, <1>4, WorkKeeps

\* A row of a call that was given up changes nothing the plugin has.
LEMMA RecordLateKeeps ==
  ASSUME JInv, RecordLate, server = "late" => smoke \notin Before
  PROVE  JInv'
  <1>1. captured' = captured + 1 /\ UNCHANGED <<mode, flaw, smoke, sample, proposal, report, panel, trail>>
    BY DEF RecordLate, script
  <1>2. PanelShape' /\ (captured > 0 => captured' > 0)
    BY <1>1 DEF JInv, PanelShape
  <1>3. smoke \notin Before
    BY DEF RecordLate
  <1>4. RequestInv' /\ RestInv'
    BY <1>1, <1>3 DEF JInv, RequestInv, RestInv
  <1>5. WatchInv' /\ ApplyInv' /\ DoneInv'
    BY <1>1, <1>2 DEF JInv, WatchInv, ApplyInv, DoneInv, BoundProposal
  <1>6. QED
    BY <1>2, <1>4, <1>5 DEF JInv

LEMMA ValidateKeepsReport ==
  ASSUME JInv, Validate
  PROVE  JInv'
  <1>1. /\ panel.work \in {"answered", "compiled"}
        /\ panel' = [panel EXCEPT !.work = "checking"]
        /\ UNCHANGED <<mode, flaw, smoke, sample, proposal, report, captured, trail>>
    BY DEF Validate, Works, script
  <1>2. PanelShape'
    BY <1>1 DEF JInv, PanelShape
  <1>3. /\ panel'.work = "checking" /\ panel'.apply = panel.apply
        /\ panel'.reject = panel.reject /\ panel'.ready = panel.ready
    BY <1>1 DEF JInv, PanelShape
  <1>4. smoke \in Watching => WatchInv'
    BY <1>1, <1>3 DEF JInv, WatchInv, Watching, Reviewing
  <1>5. QED
    BY <1>1, <1>2, <1>4, WorkKeeps

\* The one step that makes a reply ready: a good verdict on the tests is an earned one.
LEMMA HearVerdictKeeps ==
  ASSUME JInv, DInv, HearVerdict
  PROVE  JInv'
  <1>1. /\ panel.work = "checking" /\ panel' = AfterVerdict
        /\ UNCHANGED <<mode, flaw, smoke, sample, proposal, report, captured, trail>>
    BY DEF HearVerdict, Works, script
  <1>2. wrapper.result = Good => Proven
    BY DEF DInv, ExitInv
  <1>3. \/ panel' = [panel EXCEPT !.work = "compiled"]
        \/ panel' = [panel EXCEPT !.work = "waiting"]
        \/ panel' = [panel EXCEPT !.work = "showing"]
        \/ panel' = [panel EXCEPT !.work = "showing", !.ready = TRUE, !.proven = panel.got]
    <2>1. /\ wrapper.result = Good
          /\ panel' = [panel EXCEPT !.work = "showing", !.ready = TRUE, !.proven = IF Proven THEN panel.got ELSE Empty]
          => panel' = [panel EXCEPT !.work = "showing", !.ready = TRUE, !.proven = panel.got]
      BY <1>2
    <2>2. CASE wrapper.result = Good /\ call.phase = "syntax"
      BY <1>1, <2>2 DEF AfterVerdict
    <2>3. CASE wrapper.result = Good /\ call.phase = "tests"
      BY <1>1, <2>1, <2>3 DEF AfterVerdict
    <2>4. CASE wrapper.result # Good \/ call.phase \notin {"syntax", "tests"}
      BY <1>1, <2>4 DEF AfterVerdict, Good, Failed
    <2>5. QED
      BY <2>2, <2>3, <2>4
  <1>4. PanelShape'
    BY <1>1, <1>3 DEF JInv, PanelShape
  <1>5. /\ panel'.work \in {"compiled", "waiting", "showing"}
        /\ panel'.apply = panel.apply /\ panel'.reject = panel.reject
        /\ \/ panel'.ready = panel.ready
           \/ panel'.work = "showing" /\ panel'.proven = panel'.got
    BY <1>3 DEF JInv, PanelShape
  <1>6. smoke \in Watching => WatchInv'
    BY <1>1, <1>5 DEF JInv, WatchInv, Watching, Reviewing
  <1>7. QED
    BY <1>1, <1>4, <1>6, WorkKeeps

LEMMA ShowReviewKeeps ==
  ASSUME JInv, ShowReview
  PROVE  JInv'
  <1>1. UNCHANGED <<mode, smoke, sample, proposal, report, captured>>
    BY DEF ShowReview, Works, script
  <1>2. CASE panel.work = "showing"
    <2>1. \E text_ \in Int : /\ text_ <= panel.got
                             /\ panel' = [panel EXCEPT !.work = "settling", !.history = "report", !.shown = text_]
      <3>1. PICK text_ \in IF flaw' = "shows" THEN {Other} \cup 1..(panel.got - 1) ELSE {panel.got} :
              panel' = [panel EXCEPT !.work = "settling", !.history = "report", !.shown = text_]
        BY <1>2 DEF ShowReview, Works
      <3>2. text_ \in Int /\ text_ <= panel.got
        BY <3>1 DEF Other, JInv, PanelShape
      <3>3. QED
        BY <3>1, <3>2
    <2>2. trail' = Append(trail, Other) \/ trail' = trail
      BY <1>2 DEF ShowReview, Works
    <2>3. PanelShape'
      <3>1. PICK text_ \in Int : /\ text_ <= panel.got
                                 /\ panel' = [panel EXCEPT !.work = "settling", !.history = "report", !.shown = text_]
        BY <2>1
      <3>2. panel'.got = panel.got /\ panel'.shown = text_
        BY <3>1 DEF JInv, PanelShape
      <3>3. QED
        BY <1>1, <3>1, <3>2 DEF JInv, PanelShape
    <2>4. /\ panel'.work = "settling" /\ panel'.apply = panel.apply /\ panel'.reject = panel.reject
          /\ panel'.ready = panel.ready /\ panel'.proven = panel.proven
          /\ panel'.got = panel.got
      BY <2>1 DEF JInv, PanelShape
    <2>5. Append(<<Empty>>, Other) = <<Empty, Other>>
      <3>1. Empty \in Int /\ Other \in Int
        BY DEF Empty, Other
      <3>2. QED
        BY <3>1, AppendSecond
    <2>6. smoke \in Watching => WatchInv'
      BY <1>1, <1>2, <2>2, <2>4, <2>5 DEF JInv, WatchInv, Watching, Reviewing
    <2>7. QED
      BY <1>1, <1>2, <2>3, <2>6, WorkKeeps
  <1>3. CASE panel.work = "settling"
    <2>1. /\ panel' = [panel EXCEPT !.work = "enabling", !.apply = (flaw = "unproven" \/ panel.ready)]
          /\ UNCHANGED <<flaw, trail>>
      BY <1>3 DEF ShowReview, Works
    <2>2. PanelShape'
      BY <1>1, <2>1 DEF JInv, PanelShape
    <2>3. /\ panel'.work = "enabling" /\ panel'.apply = (flaw = "unproven" \/ panel.ready)
          /\ panel'.reject = panel.reject /\ panel'.ready = panel.ready /\ panel'.proven = panel.proven
          /\ panel'.got = panel.got
      BY <2>1 DEF JInv, PanelShape
    <2>4. smoke \in Watching => WatchInv'
      BY <1>1, <1>3, <2>1, <2>3 DEF JInv, WatchInv, Watching, Reviewing
    <2>5. QED
      BY <1>1, <1>3, <2>2, <2>4, WorkKeeps
  <1>4. CASE panel.work = "enabling"
    <2>1. /\ panel' = [panel EXCEPT !.work = "idle", !.reject = TRUE]
          /\ UNCHANGED <<flaw, trail>>
      BY <1>4 DEF ShowReview, Works
    <2>2. PanelShape'
      BY <1>1, <2>1 DEF JInv, PanelShape
    <2>3. /\ panel'.work = "idle" /\ panel'.reject /\ panel'.apply = panel.apply
          /\ panel'.ready = panel.ready /\ panel'.proven = panel.proven
          /\ panel'.got = panel.got
      BY <2>1 DEF JInv, PanelShape
    <2>4. smoke \in Watching => WatchInv'
      BY <1>1, <1>4, <2>1, <2>3 DEF JInv, WatchInv, Watching, Reviewing
    <2>5. QED
      BY <1>1, <1>4, <2>2, <2>4, WorkKeeps
  <1>5. QED
    BY <1>2, <1>3, <1>4 DEF ShowReview, Works

LEMMA ApplyReviewKeeps ==
  ASSUME JInv, ApplyReview
  PROVE  JInv'
  <1>1. /\ panel.work = "applying"
        /\ panel' = [panel EXCEPT !.work = "idle", !.apply = FALSE, !.reject = FALSE]
        /\ trail' = Append(trail, IF flaw = "applies" THEN Other ELSE panel.shown)
        /\ UNCHANGED <<mode, flaw, smoke, sample, proposal, report, captured>>
    BY DEF ApplyReview, Works, script
  <1>2. smoke \notin Before \cup Watching \cup {"undo", "report"} /\ ~report
    BY <1>1 DEF JInv, RestInv, WatchInv, ApplyInv, DoneInv
  <1>3. PanelShape'
    BY <1>1 DEF JInv, PanelShape
  <1>4. panel'.work = "idle" /\ panel'.shown = panel.shown /\ panel'.proven = panel.proven
        /\ panel'.got = panel.got
    BY <1>1 DEF JInv, PanelShape
  <1>5. RequestInv' /\ RestInv' /\ WatchInv' /\ DoneInv'
    BY <1>1, <1>2 DEF RequestInv, RestInv, WatchInv, DoneInv, Before
  <1>6. ApplyInv'
    <2>1. SUFFICES ASSUME smoke = "apply" PROVE ApplyInv'
      BY <1>1, <1>2 DEF ApplyInv
    <2>2. /\ mode.exercise /\ mode.validated /\ ~report /\ BoundProposal /\ trail = <<Empty>>
      BY <1>1, <2>1 DEF JInv, ApplyInv
    <2>3. \E applied \in Int : trail' = <<Empty, applied>>
      <3>1. (IF flaw = "applies" THEN Other ELSE panel.shown) \in Int
        BY DEF Other, JInv, PanelShape
      <3>2. QED
        <4>1. \A word \in Int : Append(<<Empty>>, word) = <<Empty, word>>
          BY AppendSecond DEF Empty
        <4>2. QED
          BY <1>1, <2>2, <3>1, <4>1
    <2>4. Len(trail') = 2 /\ trail'[1] = Empty /\ trail' \in Seq(Int)
      BY <2>3 DEF Empty
    <2>5. BoundProposal'
      BY <1>1, <1>4, <2>2 DEF BoundProposal
    <2>6. QED
      BY <1>1, <1>4, <2>1, <2>2, <2>4, <2>5 DEF ApplyInv
  <1>7. QED
    BY <1>3, <1>5, <1>6 DEF JInv

LEMMA ReportKeeps ==
  ASSUME JInv, DInv, CInv, [Next]_vars
  PROVE  JInv'
  <1>1. CASE \/ Prepare \/ TryControls \/ JudgeControls \/ StartServer \/ StartEditor \/ GiveUp \/ RefuseProposal
             \/ CloseEditor \/ StopServer
    BY <1>1, ScriptGoes
  <1>2. CASE OpenPanel \/ PostGenerate \/ TakeSample \/ Decide \/ BindProposal \/ SeeApplied \/ SeeUndone \/ SaveReport
    BY <1>2, OpenPanelKeeps, PostGenerateKeeps, TakeSampleKeeps, DecideKeeps, BindProposalKeeps, SeeAppliedKeeps,
       SeeUndoneKeeps, SaveReportKeeps
  <1>3. CASE BeginGeneration \/ Reply \/ RecordLate \/ Validate \/ HearVerdict \/ ShowReview \/ ApplyReview
    <2>1. server = "late" => smoke \notin Before
      BY DEF CInv
    <2>2. QED
      BY <1>3, <2>1, BeginGenerationKeeps, ReplyKeeps, RecordLateKeeps, ValidateKeepsReport, HearVerdictKeeps,
         ShowReviewKeeps, ApplyReviewKeeps
  <1>4. CASE \/ EditorExits \/ StopAsked \/ UNCHANGED vars
             \/ DriverNext /\ UNCHANGED <<mode, flaw, controls, script, world>>
    <2>1. UNCHANGED seen /\ UNCHANGED <<smoke, sample>>
      BY <1>4 DEF EditorExits, StopAsked, vars, script, world, seen
    <2>2. smoke' = "request" => mode.exercise
      BY <2>1 DEF JInv, RequestInv
    <2>3. QED
      BY <2>1, <2>2, GoingKeeps
  <1>5. QED
    BY <1>1, <1>2, <1>3, <1>4 DEF Next

-----------------------------------------------------------------------------
\* The controls

LEMMA ToldFirst == Append(<<>>, RightTold) = <<RightTold>>
  <1> DEFINE S == {RightTold}
             u == Append(<<>>, RightTold)
             t == <<RightTold>>
  <1>1. <<>> \in Seq(S) /\ t \in Seq(S) /\ RightTold \in S
    OBVIOUS
  <1>2. u \in Seq(S) /\ Len(u) = 1 /\ Len(t) = 1 /\ u[1] = t[1]
    BY <1>1
  <1> HIDE DEF u, t
  <1>3. \A i \in 1 .. Len(u) : u[i] = t[i]
    BY <1>2
  <1>4. QED
    BY <1>1, <1>2, <1>3, SeqEqual DEF u, t

LEMMA ToldSecond == Append(<<RightTold>>, WrongTold) = <<RightTold, WrongTold>>
  <1> DEFINE S == {RightTold, WrongTold}
             u == Append(<<RightTold>>, WrongTold)
             t == <<RightTold, WrongTold>>
  <1>1. <<RightTold>> \in Seq(S) /\ t \in Seq(S) /\ WrongTold \in S
    OBVIOUS
  <1>2. u \in Seq(S) /\ Len(u) = 2 /\ Len(t) = 2 /\ u[1] = t[1] /\ u[2] = t[2]
    BY <1>1
  <1> HIDE DEF u, t
  <1>3. \A i \in 1 .. Len(u) : u[i] = t[i]
    BY <1>2
  <1>4. QED
    BY <1>1, <1>2, <1>3, SeqEqual DEF u, t

LEMMA ControlsStart == Init => CInv
  BY DEF Init, DriverInit, NoCall, CInv, Controlling, Leaving, Before

\* A step that begins no control and hears none.
LEMMA ElsewhereKeeps ==
  ASSUME CInv, JInv, UNCHANGED <<controls, mode>>,
         UNCHANGED <<call, judged>> \/ (call'.code # "wrong" /\ smoke \notin Controlling),
         smoke' = smoke \/ (smoke \notin Controlling /\ smoke' \notin Controlling) \/ smoke' \in Leaving,
         smoke \in Leaving => smoke' \in Leaving,
         server' # "late" \/ server' = server \/ smoke' \notin Before,
         server = "late" /\ smoke' \in Before => smoke \in Before,
         report' => report \/ smoke = "report"
  PROVE  CInv'
  <1>1. smoke' \in Before => server' # "late"
    BY DEF CInv
  <1>2. /\ smoke' \in Controlling => smoke' = smoke /\ UNCHANGED <<call, judged>>
        /\ report => smoke \in Leaving
    BY DEF Controlling, Leaving, JInv, DoneInv
  <1>3. mode'.validated /\ (smoke' \notin Controlling \cup Leaving \/ report') => controls' = <<RightTold, WrongTold>>
    BY <1>2 DEF CInv, Controlling, Leaving
  <1>4. call'.code = "wrong" => call'.phase = "tests" /\ judged'.done <= Cases
    BY DEF CInv
  <1>5. QED
    BY <1>1, <1>2, <1>3, <1>4 DEF CInv, Controlling

\* The supervisor cannot get the wrong control through the last case.
LEMMA SupervisorKeepsWrong ==
  ASSUME CInv, JInv, DInv, DriverNext, UNCHANGED <<mode, flaw, controls, script, world>>
  PROVE  CInv'
  <1>1. UNCHANGED call
    BY DEF DriverNext, StopHelper, KillHelper, CollectHelper, ReadRequest, RefuseContainer, StartContainer, Poll,
       ReadOutput, Judge, KillCli, RemoveContainer, CreateContainer, RunContainer, LoseDocker, EndCli, Supervise
  <1>2. CASE ~Supervise
    <2>1. UNCHANGED judged
      BY <1>2 DEF DriverNext, StopHelper, KillHelper, CollectHelper, ReadRequest, RefuseContainer, StartContainer,
         Poll, ReadOutput, Judge, KillCli, RemoveContainer, CreateContainer, RunContainer, LoseDocker, EndCli, docker
    <2>2. QED
      BY <1>1, <2>1, ElsewhereKeeps DEF script, world
  <1>3. CASE Supervise
    <2>1. call.code = "wrong" => judged'.done <= Cases
      <3>1. call.code = "wrong" =>
              judged.done <= Cases /\ judged.done \in Nat /\ Todo = Cases + 1 /\ Cases \in Nat
        BY CasesAreConfigured DEF CInv, DInv, DriverShape, Todo, CaseCounts
      <3>2. judged' \in {[judged EXCEPT !.exit = "one"], [judged EXCEPT !.exit = "zero"], [judged EXCEPT !.exit = "other"]}
            \/ (judged' = [judged EXCEPT !.done = judged.done + 1] /\ MayPass(call.code, judged.done + 1))
        BY <1>3 DEF Supervise
      <3>3. judged \in [done : Nat, exit : {"none", "zero", "one", "other"}]
        BY DEF DInv, DriverShape
      <3>4. QED
        BY <3>1, <3>2, <3>3 DEF MayPass
    <2>2. QED
      BY <1>1, <2>1 DEF CInv, script, world
  <1>4. QED
    BY <1>2, <1>3

LEMMA TryKeeps ==
  ASSUME CInv, JInv, DInv, TryControls
  PROVE  CInv'
  <1>1. /\ \/ smoke = "control" /\ call' = Control("right") /\ smoke' = "controlled"
           \/ smoke = "counter" /\ call' = Control("wrong") /\ smoke' = "countered"
        /\ UNCHANGED <<controls, mode, server, report, judged>> /\ call = NoCall
    BY DEF TryControls, CallDirectly, Free, Goes, Moves, world, Control, docker
  <1>2. judged.done <= Cases
    BY <1>1, CasesAreConfigured DEF DInv, FreshInv, Unjudged, CaseCounts
  <1>3. ~report
    BY <1>1 DEF JInv, RestInv, Before
  <1>4. QED
    BY <1>1, <1>2, <1>3 DEF CInv, Control, Controlling, Leaving, Before

\* A good answer to the right control is its supervisor's, and the wrong one has none.
LEMMA JudgeKeeps ==
  ASSUME CInv, JInv, DInv, JudgeControls
  PROVE  CInv'
  <1>1. call' = NoCall /\ UNCHANGED <<mode, server, report>>
    BY DEF JudgeControls, TakeAnswer, Told, Raises, Goes, Moves, world
  <1>2. smoke \in {"controlled", "countered"} /\ ~report
    BY DEF JudgeControls, JInv, RestInv, Before
  <1>3. CASE UNCHANGED controls /\ smoke' \in Leaving
    BY <1>1, <1>2, <1>3 DEF CInv, NoCall, Controlling, Leaving, Before
  <1>4. CASE smoke = "controlled" /\ helper.exit = Good /\ Told("counter")
    <2>1. Proven
      BY <1>4 DEF DInv, ExitInv
    <2>2. controls' = <<RightTold>>
      BY <1>4, <2>1, ToldFirst DEF CInv, Told, RightTold
    <2>3. smoke' = "counter"
      BY <1>4 DEF Told, Moves
    <2>4. QED
      BY <1>1, <1>2, <2>2, <2>3 DEF CInv, NoCall, Controlling, Leaving, Before
  <1>5. CASE smoke = "countered" /\ helper.exit = Failed /\ Told("ready")
    <2>1. ~Proven
      <3>1. judged.done <= Cases /\ judged.done \in Nat /\ Todo = Cases + 1 /\ Cases \in Nat
        BY <1>5, CasesAreConfigured DEF CInv, Control, DInv, DriverShape, Todo, CaseCounts
      <3>2. QED
        BY <3>1 DEF Proven
    <2>2. controls' = <<RightTold, WrongTold>>
      <3>1. controls = <<RightTold>> /\ controls' = Append(controls, [exit |-> helper.exit, proven |-> Proven])
        BY <1>5 DEF CInv, Told
      <3>2. [exit |-> helper.exit, proven |-> Proven] = WrongTold
        <4>1. Proven = FALSE
          BY <2>1 DEF Proven
        <4>2. QED
          BY <1>5, <4>1, Zenon DEF WrongTold
      <3>3. QED
        BY <3>1, <3>2, ToldSecond
    <2>3. smoke' = "ready"
      BY <1>5 DEF Told, Moves
    <2>4. QED
      BY <1>1, <1>2, <2>2, <2>3 DEF CInv, NoCall, Controlling, Leaving, Before
  <1>6. QED
    BY <1>3, <1>4, <1>5 DEF JudgeControls, Raises, Goes, Moves, Leaving

LEMMA PrepareKeeps ==
  ASSUME CInv, JInv, DInv, Prepare
  PROVE  CInv'
  <1>1. /\ smoke = "prepare" /\ UNCHANGED <<controls, mode, server, report, call, judged>>
        /\ smoke' = "control" \/ (smoke' = "ready" /\ ~mode.validated) \/ smoke' \in Leaving
    BY DEF Prepare, Raises, Goes, Moves, world, driver, docker, Leaving
  <1>2. ~report
    BY <1>1 DEF JInv, RestInv, Before
  <1>3. QED
    BY <1>1, <1>2 DEF CInv, Controlling, Leaving, Before

\* The script past its controls.
LEMMA ScriptKeepsControls ==
  ASSUME CInv, JInv,
         \/ StartServer \/ StartEditor \/ OpenPanel \/ PostGenerate \/ TakeSample \/ Decide \/ GiveUp
         \/ BindProposal \/ RefuseProposal \/ SeeApplied \/ SeeUndone \/ SaveReport \/ StopServer
  PROVE  CInv'
  <1> USE DEF Goes, Moves, Raises, world, driver, docker, Controlling, Leaving, Before
  <1>1. CASE StartServer \/ StartEditor \/ OpenPanel
    BY <1>1, ElsewhereKeeps DEF StartServer, StartEditor, OpenPanel
  <1>2. CASE PostGenerate \/ TakeSample \/ Decide \/ GiveUp
    BY <1>2, ElsewhereKeeps DEF PostGenerate, TakeSample, Decide, GiveUp
  <1>3. CASE BindProposal \/ RefuseProposal \/ SeeApplied \/ SeeUndone
    BY <1>3, ElsewhereKeeps DEF BindProposal, RefuseProposal, SeeApplied, SeeUndone
  <1>4. CASE SaveReport \/ StopServer
    BY <1>4, ElsewhereKeeps DEF SaveReport, StopServer
  <1>5. QED
    BY <1>1, <1>2, <1>3, <1>4

\* The plugin, which is not asked before the controls are through, and the editor's end.
LEMMA PluginKeepsControls ==
  ASSUME CInv, JInv,
         \/ BeginGeneration \/ Reply \/ RecordLate \/ Validate \/ HearVerdict \/ ShowReview \/ ApplyReview
         \/ CloseEditor \/ EditorExits \/ StopAsked
  PROVE  CInv'
  <1> USE DEF Works, script, world, driver, docker
  <1>1. CASE CloseEditor \/ EditorExits \/ StopAsked
    <2>1. /\ UNCHANGED <<controls, mode, call, judged, server, report>>
          /\ smoke' = smoke \/ (smoke = "close" /\ smoke' \in Leaving)
      <3>1. CASE CloseEditor
        BY <3>1 DEF CloseEditor, PluginEnds, Leaving
      <3>2. CASE EditorExits \/ StopAsked
        BY <3>2 DEF EditorExits, StopAsked, PluginEnds, AskToStop
      <3>3. QED
        BY <1>1, <3>1, <3>2
    <2>2. QED
      BY <2>1, ElsewhereKeeps DEF Leaving, Before
  <1>2. CASE RecordLate
    BY <1>2, ElsewhereKeeps DEF RecordLate
  <1>3. CASE BeginGeneration \/ Reply \/ Validate \/ HearVerdict \/ ShowReview \/ ApplyReview
    <2>1. panel.work # "idle" /\ UNCHANGED <<controls, mode, smoke, report>>
      BY <1>3 DEF BeginGeneration, Reply, Validate, HearVerdict, ShowReview, ApplyReview
    <2>2. smoke \notin Before /\ smoke \notin Controlling
      BY <2>1 DEF JInv, RestInv, Before, Controlling
    <2>3. UNCHANGED <<call, judged>> \/ call'.code # "wrong"
      <3>1. CASE Validate
        BY <3>1 DEF Validate, RunWrapper
      <3>2. CASE HearVerdict
        BY <3>2 DEF HearVerdict, TakeAnswer, NoCall
      <3>3. CASE BeginGeneration \/ Reply \/ ShowReview \/ ApplyReview
        BY <3>3 DEF BeginGeneration, Reply, ShowReview, ApplyReview
      <3>4. QED
        BY <1>3, <3>1, <3>2, <3>3
    <2>4. QED
      BY <2>1, <2>2, <2>3, ElsewhereKeeps
  <1>4. QED
    BY <1>1, <1>2, <1>3

LEMMA ControlsKeep ==
  ASSUME CInv, JInv, DInv, [Next]_vars
  PROVE  CInv'
  <1>1. CASE UNCHANGED vars
    BY <1>1, ElsewhereKeeps DEF vars, driver, docker, script, world
  <1>2. QED
    BY <1>1, SupervisorKeepsWrong, TryKeeps, JudgeKeeps, PrepareKeeps, ScriptKeepsControls, PluginKeepsControls DEF Next

\* Whichever of the five flaws the plugin has, wherever the editor, the plugin's work and
\* the validations stand when the script looks, and whatever the capture takes down of
\* calls given up: a report is written only of a review of the last reply the plugin got;
\* of a validated run only after the supervisor had run the right control through all
\* cases and the wrong one was answered as a failed candidate, and only if the buffer went
\* from empty to that reply and back and the supervisor had passed that reply too, unless
\* the plugin offers Apply by itself.
THEOREM ReportAlwaysTrue == Spec => []SmokeReportIsTrue
  <1>1. Init => DInv /\ JInv /\ CInv
    BY DriverStarts, ReportStarts, ControlsStart DEF Init
  <1>2. (DInv /\ JInv /\ CInv) /\ [Next]_vars => (DInv /\ JInv /\ CInv)'
    BY SmokeIsCaller, DriverKeeps, ReportKeeps, ControlsKeep
  <1>3. DInv /\ JInv /\ CInv => SmokeReportIsTrue
    <2>1. SUFFICES ASSUME JInv, CInv, report PROVE SmokeReportIsTrue
      BY DEF SmokeReportIsTrue
    <2>2. (mode.exercise => BoundProposal) /\ (mode.validated => mode.exercise)
      BY <2>1 DEF JInv, PanelShape, Modes, DoneInv
    <2>3. BoundProposal => proposal # Empty
      BY DEF BoundProposal, Empty
    <2>4. mode.validated => controls = <<RightTold, WrongTold>>
      BY <2>1 DEF CInv
    <2>5. QED
      BY <2>1, <2>2, <2>3, <2>4 DEF JInv, DoneInv, BoundProposal, SmokeReportIsTrue, RightTold, WrongTold
  <1>4. QED
    BY <1>1, <1>2, <1>3, PTL DEF Spec
================================================================================
