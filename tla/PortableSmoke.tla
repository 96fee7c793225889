----------------------------- MODULE PortableSmoke -----------------------------
(***************************************************************************)
(* The portable editor smoke (scripts/portable_notepad_smoke.py): it tries *)
(* the validator on two controls, starts the model's server and a fresh    *)
(* editor, lets the plugin's panel generate, validate, apply and undo, and *)
(* reports only what it saw.  The plugin under test may have one of five   *)
(* flaws.  Its validations go through the same driver as the controls.     *)
(*                                                                         *)
(* A text is the number of the server's reply it came from, Empty for the  *)
(* empty buffer, Other for any other text.                                 *)
(***************************************************************************)
EXTENDS ValidationDriver, SequencesExt

CONSTANTS MaxReplies      \* replies of one generation: the candidate and its repairs, 3 in the code

ASSUME SomeReplies == MaxReplies \in Nat \ {0}

Empty == 0
Other == -1
Flaws == {"none", "shows", "applies", "unproven", "touches", "keeps"}

VARIABLES
  mode,        \* --exercise-generation, --validation-image
  flaw,        \* of the plugin under test
  smoke,       \* where the script stands
  server,      \* "none", "up", "late" (up, with a job whose caller is gone), "down"
  editor,
  captured,    \* replies in model-responses.jsonl
  panel,       \* the plugin: its work, the last reply it got, its history field, its buttons
  sample,      \* the last entry of events
  proposal,    \* what exercise_generation found under review
  trail,       \* the texts the buffer has held
  report,      \* report.json
  controls     \* history: the controls' exit codes, and whether the supervisor was through

script == <<smoke, sample, proposal, report>>
world  == <<server, editor, captured, panel, trail>>
vars   == <<driver, mode, flaw, controls, script, world>>

Modes == {m \in [exercise : BOOLEAN, validated : BOOLEAN] : m.validated => m.exercise}
Asleep == [work |-> "idle", got |-> Empty, history |-> "before", shown |-> Empty, apply |-> FALSE, reject |-> FALSE, ready |-> FALSE,
           proven |-> Empty]

Init ==
  /\ DriverInit
  /\ mode \in Modes /\ flaw = "none"
  /\ smoke = "prepare" /\ server = "none" /\ editor = "none"
  /\ captured = 0 /\ panel = Asleep
  /\ sample = [history |-> "before", apply |-> FALSE] /\ proposal = Empty
  /\ trail = <<Empty>> /\ report = FALSE /\ controls = <<>>

Buffer == Last(trail)

(* ------------------------------- the script ---------------------------- *)
Moves(to) == smoke' = to /\ UNCHANGED <<sample, proposal, report, world, mode, flaw>>
Goes(to) == Moves(to) /\ UNCHANGED controls
Raises == Goes(IF server = "none" THEN "ended" ELSE "close")     \* the finally blocks begin with the server

Prepare ==             \* package, archives, service manifest, layout
  /\ smoke = "prepare"
  /\ Goes(IF mode.validated THEN "control" ELSE "ready") \/ Raises
  /\ UNCHANGED driver

TryControls ==
  \/ smoke = "control" /\ CallDirectly("right", "tests") /\ Goes("controlled")
  \/ smoke = "counter" /\ CallDirectly("wrong", "tests") /\ Goes("countered")

Told(to) == Moves(to) /\ controls' = Append(controls, [exit |-> helper.exit, proven |-> Proven])

(* (bug variant) The wrong control only has to be kept from passing. *)
JudgeAnyRefusal ==
  /\ TakeAnswer
  /\ \/ smoke = "controlled" /\ helper.exit = Good /\ Told("counter")
     \/ smoke = "countered" /\ helper.exit # Good /\ Told("ready")
     \/ smoke = "controlled" /\ helper.exit # Good /\ Raises
     \/ smoke = "countered" /\ helper.exit = Good /\ Raises

JudgeControls ==       \* an exception of validate() has status Unavailable here
  /\ TakeAnswer
  /\ \/ smoke = "controlled" /\ helper.exit = Good /\ Told("counter")
     \/ smoke = "countered" /\ helper.exit = Failed /\ Told("ready")
     \/ smoke = "controlled" /\ helper.exit # Good /\ Raises
     \/ smoke = "countered" /\ helper.exit # Failed /\ Raises

StartServer ==
  /\ smoke = "ready"
  /\ server' = "up" /\ smoke' \in {"open", "close"}     \* wait_ready, prompt and decode profile
  /\ UNCHANGED <<driver, mode, flaw, controls, sample, proposal, report, editor, captured, panel, trail>>

StartEditor ==
  /\ smoke = "open"
  /\ editor' = "up" /\ smoke' = "panel"
  /\ UNCHANGED <<driver, mode, flaw, controls, sample, proposal, report, server, captured, panel, trail>>

OpenPanel ==           \* window, menu, panel, controls, prompt round trip, button text
  /\ smoke = "panel"
  /\ \/ /\ editor = "up" /\ ~panel.apply
        /\ Goes(IF mode.exercise THEN "request" ELSE "report")
     \/ Raises
  /\ UNCHANGED driver

PostGenerate ==
  /\ smoke = "request" /\ editor = "up"
  /\ panel' = [panel EXCEPT !.work = "asked"]
  /\ smoke' = "watch"
  /\ UNCHANGED <<driver, mode, flaw, controls, sample, proposal, report, server, editor, captured, trail>>

TakeSample ==          \* the history field first, the Apply button next
  /\ smoke \in {"watch", "review"} /\ editor = "up"
  /\ sample' = [history |-> panel.history, apply |-> panel.apply]
  /\ smoke' = IF smoke = "watch" THEN "decide" ELSE "bind"
  /\ UNCHANGED <<driver, mode, flaw, controls, proposal, report, world>>

Decide ==              \* the Reject button last
  /\ smoke = "decide"
  /\ \/ sample.apply /\ ~mode.validated /\ Raises
     \/ /\ sample.apply => mode.validated
        /\ sample.history # "before" /\ panel.reject
        /\ IF sample.history = "report" /\ captured > 0 THEN Goes("review") ELSE Raises
     \/ /\ sample.apply => mode.validated
        /\ sample.history = "before" \/ ~panel.reject
        /\ Goes("watch")
  /\ UNCHANGED driver

GiveUp ==              \* the editor is gone, a window does not answer, time is up
  /\ smoke \in {"request", "watch", "review", "bind", "apply", "undo"} /\ Raises
  /\ UNCHANGED driver

(* (bug variant) Any reply and any review will do. *)
BoundToSomething == captured > 0 /\ panel.shown # Empty

Bound == panel.shown = captured          \* the review is the last reply, as the panel renders it
Appliable == sample.apply /\ Buffer = Empty

BindProposal ==
  /\ smoke = "bind" /\ Bound
  /\ mode.validated => editor = "up" /\ Appliable
  /\ proposal' = captured
  /\ IF mode.validated                   \* press Apply
     THEN smoke' = "apply" /\ panel' = [panel EXCEPT !.work = "applying"]
     ELSE smoke' = "report" /\ UNCHANGED panel
  /\ UNCHANGED <<driver, mode, flaw, controls, sample, report, server, editor, captured, trail>>

RefuseProposal ==
  /\ smoke = "bind" /\ (~Bound \/ (mode.validated /\ ~Appliable))
  /\ Raises
  /\ UNCHANGED driver

SeeApplied ==          \* wait_for the exact bytes, then SCI_UNDO
  /\ smoke = "apply" /\ editor = "up" /\ Buffer = proposal
  /\ smoke' = "undo"
  /\ trail' = IF flaw = "keeps" THEN trail ELSE Append(trail, trail[Len(trail) - 1])
  /\ UNCHANGED <<driver, mode, flaw, controls, sample, proposal, report, server, editor, captured, panel>>

SeeUndone ==
  /\ smoke = "undo" /\ editor = "up" /\ Buffer = Empty
  /\ Goes("report")
  /\ UNCHANGED driver

SaveReport ==          \* unless the recording or an archive cannot be read
  /\ smoke = "report"
  /\ \/ report' = TRUE /\ smoke' = "close" /\ UNCHANGED <<mode, flaw, controls, sample, proposal, world>>
     \/ Raises
  /\ UNCHANGED driver

CloseEditor ==         \* terminate, wait 10 s: if that runs out, the server stays up
  /\ smoke = "close"
  /\ \/ editor # "up" /\ smoke' = "stop" /\ UNCHANGED <<driver, editor>>
     \/ /\ editor = "up"
        /\ editor' = "down" /\ PluginEnds
        /\ smoke' \in {"stop", "ended"}
  /\ UNCHANGED <<mode, flaw, controls, sample, proposal, report, server, captured, panel, trail>>

StopServer ==
  /\ smoke = "stop"
  /\ server' = "down" /\ smoke' = "ended"
  /\ UNCHANGED <<driver, mode, flaw, controls, sample, proposal, report, editor, captured, panel, trail>>

(* --------------------------- the plugin under test --------------------- *)
Alive == editor = "up"
Works(from, changes) ==
  /\ Alive /\ panel.work = from
  /\ panel' = changes
  /\ UNCHANGED <<mode, controls, script, editor>>

BeginGeneration ==
  /\ Works("asked", [panel EXCEPT !.work = "waiting", !.history = "asked", !.apply = FALSE, !.reject = FALSE])
  /\ UNCHANGED <<flaw, driver, server, captured, trail>>

Reply ==               \* the captured service answers, or the call fails: its job may go on
  /\ \/ /\ server = "up" /\ captured < MaxReplies
        /\ captured' = captured + 1
        /\ Works("waiting", [panel EXCEPT !.work = IF mode.validated THEN "answered" ELSE "showing",
                                          !.got = captured'])
        /\ UNCHANGED server
     \/ /\ server' \in IF server = "up" THEN {"up", "late"} ELSE {server}
        /\ Works("waiting", [panel EXCEPT !.work = "showing"])
        /\ UNCHANGED captured
  /\ UNCHANGED <<flaw, driver, trail>>

RecordLate ==          \* the observer appends what nobody waits for
  /\ server = "late"
  /\ server' = "up" /\ captured' = captured + 1
  /\ UNCHANGED <<driver, mode, flaw, controls, script, editor, panel, trail>>

Validate ==            \* both phases, through the wrapper
  /\ \/ RunWrapper("any", "syntax") /\ Works("answered", [panel EXCEPT !.work = "checking"])
     \/ RunWrapper("any", "tests") /\ Works("compiled", [panel EXCEPT !.work = "checking"])
  /\ UNCHANGED <<flaw, server, captured, trail>>

AfterVerdict ==
  CASE wrapper.result = Good /\ call.phase = "syntax" -> [panel EXCEPT !.work = "compiled"]
    [] wrapper.result = Good /\ call.phase = "tests" ->
         [panel EXCEPT !.work = "showing", !.ready = TRUE, !.proven = IF Proven THEN panel.got ELSE Empty]
    [] wrapper.result = Failed /\ captured < MaxReplies -> [panel EXCEPT !.work = "waiting"]      \* a repair
    [] OTHER -> [panel EXCEPT !.work = "showing"]

HearVerdict ==
  /\ TakeAnswer
  /\ Works("checking", AfterVerdict)
  /\ UNCHANGED <<flaw, server, captured, trail>>

ShowReview ==          \* the history, then Apply, then Reject; here at the latest the flaw comes out
  /\ \/ /\ flaw' \in Flaws
        /\ \E text_ \in IF flaw' = "shows" THEN {Other} \cup 1..(panel.got - 1) ELSE {panel.got} :
             Works("showing", [panel EXCEPT !.work = "settling", !.history = "report", !.shown = text_])
        /\ trail' = IF flaw' = "touches" THEN Append(trail, Other) ELSE trail
     \/ /\ Works("settling", [panel EXCEPT !.work = "enabling",
                                           !.apply = (flaw = "unproven" \/ panel.ready)])
        /\ UNCHANGED <<flaw, trail>>
     \/ /\ Works("enabling", [panel EXCEPT !.work = "idle", !.reject = TRUE])
        /\ UNCHANGED <<flaw, trail>>
  /\ UNCHANGED <<driver, server, captured>>

ApplyReview ==
  /\ Works("applying", [panel EXCEPT !.work = "idle", !.apply = FALSE, !.reject = FALSE])
  /\ trail' = Append(trail, IF flaw = "applies" THEN Other ELSE panel.shown)
  /\ UNCHANGED <<flaw, driver, server, captured>>

EditorExits ==
  /\ Alive
  /\ editor' = "down" /\ PluginEnds
  /\ UNCHANGED <<mode, flaw, controls, script, server, captured, panel, trail>>

StopAsked ==           \* the panel is destroyed while the editor closes
  /\ Alive /\ AskToStop
  /\ UNCHANGED <<mode, flaw, controls, script, world>>

Next ==
  \/ DriverNext /\ UNCHANGED <<mode, flaw, controls, script, world>>
  \/ Prepare \/ TryControls \/ JudgeControls \/ StartServer \/ StartEditor \/ OpenPanel
  \/ PostGenerate \/ TakeSample \/ Decide \/ GiveUp \/ BindProposal \/ RefuseProposal \/ SeeApplied \/ SeeUndone
  \/ SaveReport \/ CloseEditor \/ StopServer
  \/ BeginGeneration \/ Reply \/ RecordLate \/ Validate \/ HearVerdict \/ ShowReview \/ ApplyReview
  \/ EditorExits \/ StopAsked

Spec == Init /\ [][Next]_vars

(* ------------------------------ properties ----------------------------- *)
(* A report claims only what happened.  Of an exercised generation: the     *)
(* text under review was the last reply that the plugin got, whatever the  *)
(* capture still took down of calls given up.  Of a validated one, before  *)
(* it began: the supervisor had run the right control through all cases;   *)
(* the wrong one, which cannot get through them, was answered as a failed  *)
(* candidate and not as a missing or cancelled validator (the exit code    *)
(* does not say that a case failed: it may have been a deadline).  And     *)
(* then: the buffer went from empty to exactly that reply and back to      *)
(* empty, which the supervisor had run through all cases too.  That is not *)
(* seen of a plugin that offers Apply without a validation: then the       *)
(* report claims a success that nobody measured.                           *)
SmokeReportIsTrue ==
  report =>
    /\ mode.exercise => proposal = panel.got /\ panel.shown = proposal /\ proposal # Empty
    /\ mode.validated =>
         /\ controls = <<[exit |-> Good, proven |-> TRUE], [exit |-> Failed, proven |-> FALSE]>>
         /\ trail = <<Empty, proposal, Empty>>
         /\ flaw # "unproven" => panel.proven = proposal
================================================================================
