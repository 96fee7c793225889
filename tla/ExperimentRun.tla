---------------------------- MODULE ExperimentRun ----------------------------
(***************************************************************************)
(* Processes that carry out the plans of the research scripts on one       *)
(* output directory: they raise, crash, are started again and in any       *)
(* order, while the inputs may be edited.  Training is deterministic, so   *)
(* a model file is the same again if it comes of the same inputs in the    *)
(* same environment.                                                       *)
(***************************************************************************)
EXTENDS ExperimentDiscipline

CONSTANTS Scripts,       \* the scripts explored, a subset of DOMAIN Plans
          MaxStarts,     \* processes started on the directory
          MaxCrashes,    \* processes killed
          MaxEdits,      \* inputs edited, or environments changed between two processes
          MaxFlaws       \* flaws that come true

ASSUME ExperimentConstants ==
    /\ Scripts \subseteq DOMAIN Plans
    /\ {MaxStarts, MaxCrashes, MaxEdits, MaxFlaws} \subseteq Nat

VARIABLES script, inputs, disk, proc, left, ended

vars == <<script, inputs, disk, proc, left, ended>>

NoFile == [kind |-> "none"]
TornFile == [kind |-> "torn"]
Versions == {1, 2}       \* 1 is the declared bytes of an input

(* A document: the arms it names, the input bytes read on the way to it,   *)
(* the flaws there were, those it tells of, whether it is declared         *)
(* finished, and the training record it rests on.                          *)
Blank == [kind |-> "doc", models |-> [a \in {} |-> 0], read |-> {}, truth |-> {},
          told |-> {}, sealed |-> FALSE, basis |-> NoFile]
Idle == [phase |-> 0, at |-> 1, runtime |-> 1, doc |-> Blank, base |-> NoFile, fitted |-> [a \in {} |-> 0], flaws |-> {}]

Running == proc.phase > 0
Plan == Plans[script][proc.phase]
Here == Plan[proc.at]
Arms == ArmsOf[script]

ExperimentInit ==
    /\ script \in Scripts
    /\ inputs = [i \in Inputs |-> 1]
    /\ disk = [models |-> [a \in Arms |-> NoFile], training |-> NoFile, report |-> NoFile]
    /\ proc = Idle
    /\ left = [starts |-> MaxStarts, crashes |-> MaxCrashes, edits |-> MaxEdits, flaws |-> MaxFlaws]
    /\ ended = [phase |-> 0, as |-> "nothing", flaws |-> {}, doc |-> Blank]

Spend(what) == /\ left[what] > 0
               /\ left' = [left EXCEPT ![what] = @ - 1]

(* A process starts; the later ones perhaps on another host. *)
Start ==
    /\ ~Running
    /\ \E p \in DOMAIN Plans[script], r \in Versions :
          /\ r = 2 => left.edits > 0 /\ left.starts < MaxStarts
          /\ left.starts > 0
          /\ left' = [left EXCEPT !.starts = @ - 1, !.edits = @ - (r - 1)]
          /\ proc' = [Idle EXCEPT !.phase = p, !.runtime = r]
    /\ ended' = [ended EXCEPT !.as = "nothing", !.phase = 0, !.flaws = {}, !.doc = Blank]
    /\ UNCHANGED <<script, inputs, disk>>

Edit ==
    /\ Spend("edits")
    /\ \E i \in Uses[script] : /\ inputs[i] = 1
                              /\ inputs' = [inputs EXCEPT ![i] = 2]
    /\ UNCHANGED <<script, disk, proc, ended>>

(* ------------------------- what a step refuses ------------------------- *)
Absent(f) == f.kind # "doc"
ReadBefore(doc, i) == {v \in Versions : <<i, v>> \in doc.read}
\* (bug variant) a model file that is there is taken for the one that was trained
Present(a) == /\ a \in DOMAIN proc.base.models
              /\ disk.models[a] # NoFile
Unchanged(a) == /\ a \in DOMAIN proc.base.models
                /\ disk.models[a] = proc.base.models[a]
Covered(doc) == Arms \subseteq DOMAIN doc.models

Raises(s) ==
    CASE s.op = "check"   -> s.on \in proc.flaws
      [] s.op = "require" -> s.on \in proc.doc.told
      [] s.op = "pin"     -> inputs[s.on] # 1
      [] s.op = "recall"  -> ReadBefore(proc.base, s.on) # {inputs[s.on]}
      [] s.op = "again"   -> ReadBefore(proc.doc, s.on) # {inputs[s.on]}
      [] s.op = "load"    -> Absent(disk[s.on])
      [] s.op = "name"    -> s.on \notin DOMAIN proc.base.models
      [] s.op = "same"    -> ~Unchanged(s.on)
      [] s.op = "agree"   -> proc.doc.models[s.on] # proc.base.models[s.on]
      [] s.op = "held"    -> disk.models[s.on] # proc.doc.models[s.on]
      [] s.op = "covers"  -> ~Covered(proc.doc)
      [] s.op = "finished" -> ~proc.doc.sealed
      [] s.op = "whole"   -> ~(proc.doc.sealed /\ Covered(proc.doc))
      [] s.op = "trained" -> ~(proc.base.sealed /\ Covered(proc.base))
      [] s.op = "basis"   -> proc.doc.basis # disk.training
      [] OTHER            -> FALSE

(* ------------------------- what a step leaves -------------------------- *)
With(f, a, v) == [b \in DOMAIN f \cup {a} |-> IF b = a THEN v ELSE f[b]]
Bytes(a) == [kind |-> "model", arm |-> a, read |-> proc.doc.read, runtime |-> proc.runtime]
\* (bug variant) an arm's entry replaces the arms entered before
EnteredAlone(s) == [proc.doc EXCEPT !.models = [a \in {s.on} |-> proc.fitted[s.on]]]
Entered(s) == [proc.doc EXCEPT !.models = With(@, s.on, proc.fitted[s.on])]
\* (bug variant) what is noted of one step replaces what was noted of others
NotedLast(s) == [proc.doc EXCEPT !.told = {s.on} \cap proc.flaws]
Noted(s) == [proc.doc EXCEPT !.told = @ \cup ({s.on} \cap proc.flaws)]
DocAfter(s) ==
    CASE s.op \in {"pin", "read", "recall"} -> [proc.doc EXCEPT !.read = @ \cup {<<s.on, inputs[s.on]>>}]
      [] s.op = "enter" -> Entered(s)
      [] s.op = "name" -> [proc.doc EXCEPT !.models = With(@, s.on, proc.base.models[s.on])]
      [] s.op = "note" -> Noted(s)
      [] s.op = "seal" -> [proc.doc EXCEPT !.sealed = TRUE]
      [] s.op = "load" /\ s.on = "report"   -> disk.report
      [] s.op = "load" /\ s.on = "training" ->
            IF proc.doc.basis = NoFile THEN [proc.doc EXCEPT !.basis = disk.training] ELSE proc.doc
      [] OTHER -> proc.doc

(* The work of a step turns out well, or one thing goes wrong in it. *)
Outcomes(s) == {{}} \cup {{f} : f \in IF left.flaws > 0 THEN s.risk ELSE {}}

Advance ==
    /\ Running
    /\ proc.at <= Len(Plan)
    /\ ~Raises(Here)
    /\ \E new \in Outcomes(Here) :
          /\ left' = [left EXCEPT !.flaws = @ - Cardinality(new)]
          /\ proc' = [proc EXCEPT !.at = @ + 1,
                                  !.doc = [DocAfter(Here) EXCEPT !.truth = @ \cup new],
                                  !.flaws = @ \cup new,
                                  !.base = IF Here.op = "load" /\ Here.on = "training" THEN disk.training ELSE @,
                                  !.fitted = IF Here.op = "fit" THEN With(@, Here.on, Bytes(Here.on)) ELSE @]
    /\ disk' = CASE Here.op = "put" -> [disk EXCEPT !.models[Here.on] = proc.fitted[Here.on]]
                 [] Here.op \in {"save", "rewrite"} -> [disk EXCEPT ![Here.on] = proc.doc]
                 [] OTHER -> disk
    /\ UNCHANGED <<script, inputs, ended>>

End(as) == /\ proc' = Idle
           /\ ended' = [phase |-> proc.phase, as |-> as, flaws |-> proc.flaws, doc |-> proc.doc]

Raise ==
    /\ Running
    /\ proc.at <= Len(Plan)
    /\ Raises(Here)
    /\ End("raised")
    /\ UNCHANGED <<script, inputs, disk, left>>

Finish ==
    /\ Running
    /\ proc.at > Len(Plan)
    /\ End("finished")
    /\ UNCHANGED <<script, inputs, disk, left>>

(* A process is killed; what it was writing in place is torn. *)
Crash ==
    /\ Running
    /\ proc.at <= Len(Plan)
    /\ Spend("crashes")
    /\ End("crashed")
    /\ disk' = CASE Here.op = "put"     -> [disk EXCEPT !.models[Here.on] = TornFile]
                 [] Here.op = "rewrite" -> [disk EXCEPT ![Here.on] = TornFile]
                 [] OTHER               -> disk
    /\ UNCHANGED <<script, inputs>>

ExperimentNext == Start \/ Edit \/ Advance \/ Raise \/ Finish \/ Crash
ExperimentSpec == ExperimentInit /\ [][ExperimentNext]_vars

(* ------------------------------ properties ----------------------------- *)
Passed == ended.as = "finished"
Evidence == {ended.doc} \cup (IF ended.doc.basis = NoFile THEN {} ELSE {ended.doc.basis})

(* A process that reaches its end leaves no flaw it is written to notice    *)
(* untold, whether the flaw was in its own work or in the training its     *)
(* report rests on, however often processes were killed in between; and    *)
(* all the work rests on one version of every input, but in the one script *)
(* that takes a digest long after it used the file.                        *)
ReportHidesNothing ==
    Passed => /\ \A d \in Evidence : d.truth \cap Vouches[script] \subseteq ended.doc.told
              /\ script \notin DigestsLate =>
                    \A i \in Inputs : Cardinality(UNION {ReadBefore(d, i) : d \in Evidence}) <= 1

(* The models a passed report names are the files in the directory, where  *)
(* the process trained them itself or its script compares them again: never *)
(* those of a training killed halfway or run anew on another host.          *)
ReportDescribesFiles ==
    Passed /\ (ended.phase = 1 \/ script \in ComparesFiles)
       => \A a \in DOMAIN ended.doc.models : disk.models[a] = ended.doc.models[a]

(* A process is refused for a cause: something went wrong in it or an input *)
(* differs.  What a killed process left can stop only a later phase, and    *)
(* with nothing ever wrong only a file its script has yet to write does.    *)
Undisturbed == left.flaws = MaxFlaws /\ left.edits = MaxEdits /\ left.crashes = MaxCrashes
RaisedForCause ==
    ended.as = "raised" /\ ended.flaws = {} /\ (\A i \in Inputs : inputs[i] = 1)
       => /\ ended.phase > 1
          /\ Undisturbed => \E f \in Writes(script) : disk[f] = NoFile
=============================================================================
