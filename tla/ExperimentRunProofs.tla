------------------------- MODULE ExperimentRunProofs -------------------------
(***************************************************************************)
(* What holds of every number of processes, crashes, edits and flaws, for  *)
(* scripts that keep the order ScriptsKeepOrder states.                    *)
(***************************************************************************)
EXTENDS ExperimentRun, FiniteSetTheorems, TLAPS

IsDoc(d) == d = [kind |-> "doc", models |-> d.models, read |-> d.read, truth |-> d.truth,
                 told |-> d.told, sealed |-> d.sealed, basis |-> d.basis]

StateInv ==
    /\ script \in DOMAIN Plans
    /\ inputs \in [Inputs -> Versions]
    /\ disk = [models |-> disk.models, training |-> disk.training, report |-> disk.report]
    /\ disk.models = [a \in Arms |-> disk.models[a]]
    /\ proc = [phase |-> proc.phase, at |-> proc.at, runtime |-> proc.runtime, doc |-> proc.doc,
               base |-> proc.base, fitted |-> proc.fitted, flaws |-> proc.flaws]
    /\ proc.phase = 0 \/ proc.phase \in DOMAIN Plans[script]
    /\ Running => proc.at \in 1..(Len(Plan) + 1)
    /\ ended = [phase |-> ended.phase, as |-> ended.as, flaws |-> ended.flaws, doc |-> ended.doc]
    /\ ended.as = "finished" => ~Running
    /\ IsDoc(proc.doc)
    /\ disk.report.kind = "doc" => IsDoc(disk.report)

(* -------------------------- what a step leaves ------------------------- *)
LEMMA StepKinds ==
    ASSUME StateInv, Running, proc.at <= Len(Plan)
    PROVE  /\ Plan \in Seq(Steps) /\ proc.phase \in DOMAIN Plans[script]
           /\ proc.at \in DOMAIN Plan /\ proc.at \in Nat \ {0} /\ Here \in Steps
           /\ Here.op \in {"put", "enter", "name"} => Here.on \in Arms
           /\ Here.op \in {"load", "save", "rewrite"} => Here.on \in {"training", "report"}
           /\ Here.op = "seal" => Here.on = ""
<1>1. proc.phase \in DOMAIN Plans[script]
  BY DEF StateInv, Running
<1>2. Plan \in Seq(Steps)
  BY <1>1, ScriptsKeepOrder DEF StateInv, Plan
<1>3. proc.at \in DOMAIN Plan /\ Here \in Steps
  BY <1>2 DEF StateInv, Here
<1>4. proc.at \in Nat \ {0}
  BY DEF StateInv
<1> QED
  BY <1>1, <1>2, <1>3, <1>4, ScriptsKeepOrder DEF StateInv, ModelsInOrder, Plan, Here, Arms

(* Changing one field of a document leaves a document with the other fields. *)
LEMMA WithModels ==
    ASSUME NEW d, IsDoc(d), NEW v
    PROVE  LET e == [d EXCEPT !.models = v] IN
           /\ IsDoc(e) /\ e.models = v
           /\ e.read = d.read /\ e.truth = d.truth /\ e.told = d.told /\ e.sealed = d.sealed /\ e.basis = d.basis
  BY DEF IsDoc
LEMMA WithRead ==
    ASSUME NEW d, IsDoc(d), NEW v
    PROVE  LET e == [d EXCEPT !.read = v] IN
           /\ IsDoc(e) /\ e.read = v
           /\ e.models = d.models /\ e.truth = d.truth /\ e.told = d.told /\ e.sealed = d.sealed /\ e.basis = d.basis
  BY DEF IsDoc
LEMMA WithTruth ==
    ASSUME NEW d, IsDoc(d), NEW v
    PROVE  LET e == [d EXCEPT !.truth = v] IN
           /\ IsDoc(e) /\ e.truth = v
           /\ e.models = d.models /\ e.read = d.read /\ e.told = d.told /\ e.sealed = d.sealed /\ e.basis = d.basis
  BY DEF IsDoc
LEMMA WithTold ==
    ASSUME NEW d, IsDoc(d), NEW v
    PROVE  LET e == [d EXCEPT !.told = v] IN
           /\ IsDoc(e) /\ e.told = v
           /\ e.models = d.models /\ e.read = d.read /\ e.truth = d.truth /\ e.sealed = d.sealed /\ e.basis = d.basis
  BY DEF IsDoc
LEMMA WithSealed ==
    ASSUME NEW d, IsDoc(d), NEW v
    PROVE  LET e == [d EXCEPT !.sealed = v] IN
           /\ IsDoc(e) /\ e.sealed = v
           /\ e.models = d.models /\ e.read = d.read /\ e.truth = d.truth /\ e.told = d.told /\ e.basis = d.basis
  BY DEF IsDoc
LEMMA WithBasis ==
    ASSUME NEW d, IsDoc(d), NEW v
    PROVE  LET e == [d EXCEPT !.basis = v] IN
           /\ IsDoc(e) /\ e.basis = v
           /\ e.models = d.models /\ e.read = d.read /\ e.truth = d.truth /\ e.told = d.told /\ e.sealed = d.sealed
  BY DEF IsDoc

(* What a step that does not raise leaves of the document in hand. *)
DocLeft(s, d) ==
    LET reloaded == Does(s) = <<"load", "report">> IN
    /\ IsDoc(d)
    /\ reloaded => d = disk.report /\ disk.report.kind = "doc"
    /\ ~reloaded =>
          /\ d.truth = proc.doc.truth
          /\ s.op \notin {"pin", "read", "recall"} => d.read = proc.doc.read
          /\ s.op \in {"pin", "read", "recall"} => d.read = proc.doc.read \cup {<<s.on, inputs[s.on]>>}
          /\ s.op \notin {"enter", "name"} => d.models = proc.doc.models
          /\ s.op = "enter" => d.models = With(proc.doc.models, s.on, proc.fitted[s.on])
          /\ s.op = "name" => d.models = With(proc.doc.models, s.on, proc.base.models[s.on])
          /\ s.op # "note" => d.told = proc.doc.told
          /\ s.op = "note" => d.told = proc.doc.told \cup ({s.on} \cap proc.flaws)
          /\ s.op # "seal" => d.sealed = proc.doc.sealed
          /\ s.op = "seal" => d.sealed = TRUE
          /\ d.basis = IF s.op = "load" /\ proc.doc.basis = NoFile THEN disk.training ELSE proc.doc.basis

LEMMA DocEffect ==
    ASSUME IsDoc(proc.doc), disk.report.kind = "doc" => IsDoc(disk.report), NEW s, ~Raises(s),
           s.op = "load" => s.on \in {"training", "report"}
    PROVE  DocLeft(s, DocAfter(s))
<1>1. CASE s.op \in {"pin", "read", "recall"}
  <2> DEFINE v == proc.doc.read \cup {<<s.on, inputs[s.on]>>}
             e == [proc.doc EXCEPT !.read = v]
  <2>1. DocAfter(s) = e
    BY <1>1 DEF DocAfter
  <2> HIDE DEF v
  <2>2. /\ IsDoc(e) /\ e.read = v
        /\ e.models = proc.doc.models /\ e.truth = proc.doc.truth /\ e.told = proc.doc.told /\ e.sealed = proc.doc.sealed /\ e.basis = proc.doc.basis
    BY WithRead
  <2> QED
    BY <1>1, <2>1, <2>2 DEF v, DocLeft, Does
<1>2. CASE s.op = "enter"
  <2> DEFINE v == With(proc.doc.models, s.on, proc.fitted[s.on])
             e == [proc.doc EXCEPT !.models = v]
  <2>1. DocAfter(s) = e
    BY <1>2 DEF DocAfter, Entered
  <2> HIDE DEF v
  <2>2. /\ IsDoc(e) /\ e.models = v
        /\ e.read = proc.doc.read /\ e.truth = proc.doc.truth /\ e.told = proc.doc.told /\ e.sealed = proc.doc.sealed /\ e.basis = proc.doc.basis
    BY WithModels
  <2> QED
    BY <1>2, <2>1, <2>2 DEF v, DocLeft, Does
<1>3. CASE s.op = "name"
  <2> DEFINE v == With(proc.doc.models, s.on, proc.base.models[s.on])
             e == [proc.doc EXCEPT !.models = v]
  <2>1. DocAfter(s) = e
    BY <1>3 DEF DocAfter
  <2> HIDE DEF v
  <2>2. /\ IsDoc(e) /\ e.models = v
        /\ e.read = proc.doc.read /\ e.truth = proc.doc.truth /\ e.told = proc.doc.told /\ e.sealed = proc.doc.sealed /\ e.basis = proc.doc.basis
    BY WithModels
  <2> QED
    BY <1>3, <2>1, <2>2 DEF v, DocLeft, Does
<1>4. CASE s.op = "note"
  <2> DEFINE v == proc.doc.told \cup ({s.on} \cap proc.flaws)
             e == [proc.doc EXCEPT !.told = v]
  <2>1. DocAfter(s) = e
    BY <1>4 DEF DocAfter, Noted
  <2> HIDE DEF v
  <2>2. /\ IsDoc(e) /\ e.told = v
        /\ e.models = proc.doc.models /\ e.read = proc.doc.read /\ e.truth = proc.doc.truth /\ e.sealed = proc.doc.sealed /\ e.basis = proc.doc.basis
    BY WithTold
  <2> QED
    BY <1>4, <2>1, <2>2 DEF v, DocLeft, Does
<1>5. CASE s.op = "seal"
  <2> DEFINE v == TRUE
             e == [proc.doc EXCEPT !.sealed = v]
  <2>1. DocAfter(s) = e
    BY <1>5 DEF DocAfter
  <2> HIDE DEF v
  <2>2. /\ IsDoc(e) /\ e.sealed = v
        /\ e.models = proc.doc.models /\ e.read = proc.doc.read /\ e.truth = proc.doc.truth /\ e.told = proc.doc.told /\ e.basis = proc.doc.basis
    BY WithSealed
  <2> QED
    BY <1>5, <2>1, <2>2 DEF v, DocLeft, Does
<1>7. CASE s.op = "load" /\ s.on = "training" /\ proc.doc.basis = NoFile
  <2> DEFINE v == disk.training
             e == [proc.doc EXCEPT !.basis = v]
  <2>1. DocAfter(s) = e
    BY <1>7 DEF DocAfter
  <2> HIDE DEF v
  <2>2. /\ IsDoc(e) /\ e.basis = v
        /\ e.models = proc.doc.models /\ e.read = proc.doc.read /\ e.truth = proc.doc.truth /\ e.told = proc.doc.told /\ e.sealed = proc.doc.sealed
    BY WithBasis
  <2> QED
    BY <1>7, <2>1, <2>2 DEF v, DocLeft, Does
<1>6. CASE s.op = "load" /\ s.on = "report"
  BY <1>6 DEF DocAfter, Raises, Absent, DocLeft, Does
<1>8. CASE s.op = "load" /\ s.on = "training" /\ proc.doc.basis # NoFile
  BY <1>8 DEF DocAfter, DocLeft, Does
<1>9. CASE s.op \notin {"pin", "read", "recall", "enter", "name", "note", "seal", "load"}
  BY <1>9 DEF DocAfter, DocLeft, Does
<1> QED
  BY <1>1, <1>2, <1>3, <1>4, <1>5, <1>6, <1>7, <1>8, <1>9

(* What a step does that is carried out, with the flaws "new" coming true. *)
StepDone(new, d) ==
    /\ DocLeft(Here, d)
    /\ new \subseteq Here.risk
    /\ proc'.phase = proc.phase /\ proc'.at = proc.at + 1 /\ proc'.runtime = proc.runtime
    /\ proc'.flaws = proc.flaws \cup new
    /\ IsDoc(proc'.doc)
    /\ proc'.doc.truth = d.truth \cup new
    /\ proc'.doc.models = d.models /\ proc'.doc.read = d.read /\ proc'.doc.told = d.told
    /\ proc'.doc.sealed = d.sealed /\ proc'.doc.basis = d.basis
    /\ proc'.base = IF Does(Here) = <<"load", "training">> THEN disk.training ELSE proc.base
    /\ proc'.fitted = IF Here.op = "fit" THEN With(proc.fitted, Here.on, Bytes(Here.on)) ELSE proc.fitted
    /\ disk'.models = IF Here.op = "put" THEN [disk.models EXCEPT ![Here.on] = proc.fitted[Here.on]] ELSE disk.models
    /\ disk'.training = IF Does(Here) \in {<<"save", "training">>, <<"rewrite", "training">>} THEN proc.doc ELSE disk.training
    /\ disk'.report = IF Does(Here) \in {<<"save", "report">>, <<"rewrite", "report">>} THEN proc.doc ELSE disk.report

LEMMA AdvanceEffect ==
    ASSUME StateInv, Advance
    PROVE  /\ UNCHANGED <<script, inputs, ended>>
           /\ Running /\ proc.at <= Len(Plan) /\ ~Raises(Here)
           /\ Plan' = Plan /\ Arms' = Arms
           /\ StateInv'
           /\ \E new, d : StepDone(new, d)
<1>1. Running /\ proc.at <= Len(Plan) /\ ~Raises(Here) /\ UNCHANGED <<script, inputs, ended>>
  BY DEF Advance
<1>2. PICK new \in Outcomes(Here) :
         proc' = [proc EXCEPT !.at = @ + 1,
                              !.doc = [DocAfter(Here) EXCEPT !.truth = @ \cup new],
                              !.flaws = @ \cup new,
                              !.base = IF Here.op = "load" /\ Here.on = "training" THEN disk.training ELSE @,
                              !.fitted = IF Here.op = "fit" THEN With(@, Here.on, Bytes(Here.on)) ELSE @]
  BY DEF Advance
<1>3. new \in SUBSET Here.risk
  BY DEF Outcomes
<1>4. DocLeft(Here, DocAfter(Here))
  BY <1>1, DocEffect, StepKinds DEF StateInv
<1> DEFINE d == DocAfter(Here)
           v == d.truth \cup new
           e == [d EXCEPT !.truth = v]
<1>5. proc' = [phase |-> proc.phase, at |-> proc.at + 1, runtime |-> proc.runtime, doc |-> e,
               base |-> IF Here.op = "load" /\ Here.on = "training" THEN disk.training ELSE proc.base,
               fitted |-> IF Here.op = "fit" THEN With(proc.fitted, Here.on, Bytes(Here.on)) ELSE proc.fitted,
               flaws |-> proc.flaws \cup new]
  <2> DEFINE b == IF Here.op = "load" /\ Here.on = "training" THEN disk.training ELSE proc.base
             f == IF Here.op = "fit" THEN With(proc.fitted, Here.on, Bytes(Here.on)) ELSE proc.fitted
             w == proc.flaws \cup new
  <2>1. proc' = [proc EXCEPT !.at = proc.at + 1, !.doc = e, !.flaws = w, !.base = b, !.fitted = f]
    BY <1>2
  <2>2. proc = [phase |-> proc.phase, at |-> proc.at, runtime |-> proc.runtime, doc |-> proc.doc,
                base |-> proc.base, fitted |-> proc.fitted, flaws |-> proc.flaws]
    BY DEF StateInv
  <2> HIDE DEF e, b, f, w
  <2>3. proc' = [phase |-> proc.phase, at |-> proc.at + 1, runtime |-> proc.runtime, doc |-> e, base |-> b,
                 fitted |-> f, flaws |-> w]
    BY <2>1, <2>2
  <2> QED
    BY <2>3 DEF b, f, w
<1>6. /\ IsDoc(e) /\ e.truth = v
      /\ e.models = d.models /\ e.read = d.read /\ e.told = d.told /\ e.sealed = d.sealed /\ e.basis = d.basis
  <2>1. IsDoc(d)
    BY <1>4 DEF DocLeft
  <2> HIDE DEF d, v
  <2> QED
    BY <2>1, WithTruth
<1>7. /\ disk' = [models |-> disk'.models, training |-> disk'.training, report |-> disk'.report]
      /\ disk'.models = IF Here.op = "put" THEN [disk.models EXCEPT ![Here.on] = proc.fitted[Here.on]] ELSE disk.models
      /\ disk'.training = IF Does(Here) \in {<<"save", "training">>, <<"rewrite", "training">>} THEN proc.doc ELSE disk.training
      /\ disk'.report = IF Does(Here) \in {<<"save", "report">>, <<"rewrite", "report">>} THEN proc.doc ELSE disk.report
  <2>1. /\ disk = [models |-> disk.models, training |-> disk.training, report |-> disk.report]
        /\ Here.op \in {"load", "save", "rewrite"} => Here.on \in {"training", "report"}
    BY <1>1, StepKinds DEF StateInv
  <2>2. CASE Here.op = "put"
    <3>1. disk' = [disk EXCEPT !.models = [disk.models EXCEPT ![Here.on] = proc.fitted[Here.on]]]
      BY <2>2 DEF Advance
    <3> QED
      BY <3>1, <2>1, <2>2 DEF Does
  <2>3. CASE Here.op \in {"save", "rewrite"}
    <3>1. disk' = [disk EXCEPT ![Here.on] = proc.doc]
      BY <2>3 DEF Advance
    <3> QED
      BY <3>1, <2>1, <2>3 DEF Does
  <2>4. CASE Here.op \notin {"put", "save", "rewrite"}
    <3>1. disk' = disk
      BY <2>4 DEF Advance
    <3> QED
      BY <3>1, <2>1, <2>4 DEF Does
  <2> QED
    BY <2>2, <2>3, <2>4
<1>8. Plan' = Plan /\ Arms' = Arms /\ Running'
  <2>1. proc'.phase = proc.phase
    BY <1>5
  <2> QED
    BY <1>1, <2>1 DEF Plan, Arms, Running
<1>9. StepDone(new, d)
  <2>1. /\ proc'.phase = proc.phase /\ proc'.at = proc.at + 1 /\ proc'.runtime = proc.runtime
        /\ proc'.flaws = proc.flaws \cup new
        /\ proc'.doc = e
        /\ proc'.base = IF Does(Here) = <<"load", "training">> THEN disk.training ELSE proc.base
        /\ proc'.fitted = IF Here.op = "fit" THEN With(proc.fitted, Here.on, Bytes(Here.on)) ELSE proc.fitted
    <3> HIDE DEF e
    <3> QED
      BY <1>5 DEF Does
  <2> QED
    BY <2>1, <1>3, <1>4, <1>6, <1>7 DEF StepDone
<1>10. StateInv'
  <2>1. /\ proc' = [phase |-> proc'.phase, at |-> proc'.at, runtime |-> proc'.runtime, doc |-> proc'.doc,
                    base |-> proc'.base, fitted |-> proc'.fitted, flaws |-> proc'.flaws]
        /\ IsDoc(proc'.doc)
    BY <1>5, <1>6
  <2>2. disk'.report.kind = "doc" => IsDoc(disk'.report)
    BY <1>7 DEF StateInv
  <2>3. disk'.models = [a \in Arms |-> disk'.models[a]]
    BY <1>7, <1>1, StepKinds DEF StateInv
  <2>4. proc'.phase \in DOMAIN Plans[script] /\ proc'.at \in 1..(Len(Plan) + 1)
    <3>1. Plan \in Seq(Steps) /\ proc.phase \in DOMAIN Plans[script] /\ proc.at \in Nat \ {0}
      BY <1>1, StepKinds
    <3>2. Len(Plan) \in Nat
      BY <3>1
    <3>3. proc'.phase = proc.phase /\ proc'.at = proc.at + 1
      BY <1>9 DEF StepDone
    <3> QED
      BY <1>1, <3>1, <3>2, <3>3
  <2> QED
    BY <1>1, <1>7, <1>8, <1>9, <2>1, <2>2, <2>3, <2>4 DEF StateInv, StepDone
<1> QED
  BY <1>1, <1>8, <1>9, <1>10

(* ---------------------------- the plans -------------------------------- *)
LEMMA StandsStep ==
    ASSUME NEW plan, NEW k \in Nat \ {0}, NEW makes, NEW breaks,
           Stands(plan, k + 1, makes, breaks), Does(plan[k]) \notin makes
    PROVE  Stands(plan, k, makes, breaks) /\ Does(plan[k]) \notin breaks
<1>1. PICK j \in 1..k : /\ Does(plan[j]) \in makes
                        /\ \A n \in (j + 1)..k : Does(plan[n]) \notin breaks
  BY DEF Stands
<1>2. j \in 1..(k - 1)
  BY <1>1
<1>3. k \in (j + 1)..k /\ (j + 1)..(k - 1) \subseteq (j + 1)..k
  BY <1>2
<1> QED
  BY <1>1, <1>2, <1>3 DEF Stands

LEMMA DoneStep ==
    ASSUME NEW plan, NEW k \in Nat \ {0}, NEW makes
    PROVE  Done(plan, k + 1, makes) <=> Does(plan[k]) \in makes \/ Done(plan, k, makes)
<1>1. 1..((k + 1) - 1) = 1..(k - 1) \cup {k}
  OBVIOUS
<1> QED
  BY <1>1 DEF Done

LEMMA NothingDone ==
    ASSUME NEW plan, NEW makes, NEW breaks
    PROVE  ~Stands(plan, 1, makes, breaks) /\ ~Done(plan, 1, makes)
  BY DEF Stands, Done

(* -------------------------- a process starts --------------------------- *)
LEMMA StartEffect ==
    ASSUME StateInv, Start
    PROVE  /\ UNCHANGED <<script, inputs, disk>>
           /\ ended'.as = "nothing"
           /\ proc'.at = 1 /\ proc'.doc = Blank /\ proc'.flaws = {} /\ proc'.base = NoFile
           /\ proc'.phase \in DOMAIN Plans[script]
           /\ StateInv'
<1>1. PICK p \in DOMAIN Plans[script], r \in Versions : proc' = [Idle EXCEPT !.phase = p, !.runtime = r]
  BY DEF Start
<1>2. proc' = [phase |-> p, at |-> 1, runtime |-> r, doc |-> Blank, base |-> NoFile,
               fitted |-> [a \in {} |-> 0], flaws |-> {}]
  <2> DEFINE b == Blank
             n == NoFile
             f == [a \in {} |-> 0]
  <2>1. proc' = [[phase |-> 0, at |-> 1, runtime |-> 1, doc |-> b, base |-> n, fitted |-> f, flaws |-> {}]
                   EXCEPT !.phase = p, !.runtime = r]
    BY <1>1 DEF Idle
  <2> HIDE DEF b, n, f
  <2>2. proc' = [phase |-> p, at |-> 1, runtime |-> r, doc |-> b, base |-> n, fitted |-> f, flaws |-> {}]
    BY <2>1
  <2> QED
    BY <2>2 DEF b, n, f
<1>3. IsDoc(Blank)
  BY DEF Blank, IsDoc
<1>4. UNCHANGED <<script, inputs, disk>> /\ ended' = [ended EXCEPT !.as = "nothing", !.phase = 0, !.flaws = {}, !.doc = Blank]
  BY DEF Start
<1>5. /\ ended'.as = "nothing"
      /\ ended' = [phase |-> ended'.phase, as |-> ended'.as, flaws |-> ended'.flaws, doc |-> ended'.doc]
  <2> DEFINE b == Blank
  <2>1. ended' = [ended EXCEPT !.as = "nothing", !.phase = 0, !.flaws = {}, !.doc = b]
    BY <1>4
  <2> HIDE DEF b
  <2> QED
    BY <2>1 DEF StateInv
<1>6. proc'.at \in 1..(Len(Plan') + 1)
  <2>1. Len(Plan') \in Nat
    BY <1>2, <1>4, ScriptsKeepOrder DEF Plan, StateInv
  <2> QED
    BY <1>2, <2>1
<1>7. proc' = [phase |-> proc'.phase, at |-> proc'.at, runtime |-> proc'.runtime, doc |-> proc'.doc,
               base |-> proc'.base, fitted |-> proc'.fitted, flaws |-> proc'.flaws]
  BY <1>2
<1>8. disk'.report.kind = "doc" => IsDoc(disk'.report)
  BY <1>4 DEF StateInv
<1>9. StateInv'
  BY <1>2, <1>3, <1>4, <1>5, <1>6, <1>7, <1>8 DEF StateInv, Arms
<1> QED
  BY <1>2, <1>4, <1>5, <1>9

(* --------------- an input is edited, or a process ends ----------------- *)
LEMMA EditEffect ==
    ASSUME StateInv, Edit
    PROVE  /\ UNCHANGED <<script, disk, proc, ended>>
           /\ \A i \in Inputs : inputs'[i] = inputs[i] \/ (inputs[i] = 1 /\ inputs'[i] = 2)
           /\ StateInv'
<1>1. UNCHANGED <<script, disk, proc, ended>>
  BY DEF Edit
<1>2. PICK i \in Uses[script] : inputs' = [inputs EXCEPT ![i] = 2] /\ inputs[i] = 1
  BY DEF Edit
<1>3. inputs' \in [Inputs -> Versions]
  BY <1>2 DEF StateInv, Versions
<1>4. StateInv'
  BY <1>1, <1>3 DEF StateInv, Running, Plan, Arms, IsDoc
<1> QED
  BY <1>1, <1>2, <1>4 DEF StateInv

LEMMA EndEffect ==
    ASSUME StateInv, Raise \/ Finish \/ Crash
    PROVE  /\ UNCHANGED <<script, inputs>>
           /\ proc' = Idle /\ proc'.doc = Blank /\ ~Running'
           /\ ended'.doc = proc.doc /\ ended'.phase = proc.phase
           /\ ended'.as = "finished" => Finish
           /\ Finish => Running /\ proc.at = AtEnd(Plan) /\ disk' = disk
           /\ disk'.training = disk.training \/ disk'.training = TornFile
           /\ disk'.report = disk.report \/ disk'.report = TornFile
           /\ StateInv'
<1>1. /\ UNCHANGED <<script, inputs>> /\ proc' = Idle
      /\ \E as : /\ ended' = [phase |-> proc.phase, as |-> as, flaws |-> proc.flaws, doc |-> proc.doc]
                 /\ as = "finished" => Finish
  BY DEF Raise, Finish, Crash, End
<1>2. proc'.doc = Blank /\ ~Running' /\ proc'.phase = 0 /\ IsDoc(Blank)
  BY <1>1 DEF Idle, Running, Blank, IsDoc
<1>3. /\ ended'.doc = proc.doc /\ ended'.phase = proc.phase
      /\ ended'.as = "finished" => Finish
      /\ ended' = [phase |-> ended'.phase, as |-> ended'.as, flaws |-> ended'.flaws, doc |-> ended'.doc]
  <2> PICK as : /\ ended' = [phase |-> proc.phase, as |-> as, flaws |-> proc.flaws, doc |-> proc.doc]
                /\ as = "finished" => Finish
    BY <1>1
  <2> QED
    OBVIOUS
<1>4. Finish => Running /\ proc.at = AtEnd(Plan) /\ disk' = disk
  <2> SUFFICES ASSUME Finish PROVE Running /\ proc.at = AtEnd(Plan) /\ disk' = disk
    OBVIOUS
  <2>1. Running /\ proc.at > Len(Plan) /\ disk' = disk
    BY DEF Finish
  <2>2. Len(Plan) \in Nat /\ proc.at \in 1..(Len(Plan) + 1)
    BY <2>1, ScriptsKeepOrder DEF StateInv, Plan, Running
  <2> QED
    BY <2>1, <2>2 DEF AtEnd
<1>5. /\ disk' = [models |-> disk'.models, training |-> disk'.training, report |-> disk'.report]
      /\ disk'.models = [a \in Arms |-> disk'.models[a]]
      /\ disk'.training = disk.training \/ disk'.training = TornFile
      /\ disk'.report = disk.report \/ disk'.report = TornFile
  <2>1. disk = [models |-> disk.models, training |-> disk.training, report |-> disk.report]
        /\ disk.models = [a \in Arms |-> disk.models[a]]
    BY DEF StateInv
  <2>2. CASE disk' = disk
    BY <2>1, <2>2
  <2>3. CASE Crash /\ Here.op \in {"put", "rewrite"}
    <3>1. /\ Here.op = "put" => Here.on \in Arms
          /\ Here.op = "rewrite" => Here.on \in {"training", "report"}
      BY <2>3, StepKinds DEF Crash
    <3>2. CASE Here.op = "put"
      <4>1. disk' = [disk EXCEPT !.models = [disk.models EXCEPT ![Here.on] = TornFile]]
        BY <2>3, <3>2 DEF Crash
      <4> QED
        BY <2>1, <3>1, <3>2, <4>1
    <3>3. CASE Here.op = "rewrite"
      <4>1. disk' = [disk EXCEPT ![Here.on] = TornFile]
        BY <2>3, <3>3 DEF Crash
      <4> QED
        BY <2>1, <3>1, <3>3, <4>1
    <3> QED
      BY <2>3, <3>2, <3>3
  <2> QED
    BY <2>2, <2>3 DEF Raise, Finish, Crash
<1>6. disk'.report.kind = "doc" => IsDoc(disk'.report)
  BY <1>5 DEF StateInv, TornFile
<1>7. /\ proc' = [phase |-> proc'.phase, at |-> proc'.at, runtime |-> proc'.runtime, doc |-> proc'.doc,
                  base |-> proc'.base, fitted |-> proc'.fitted, flaws |-> proc'.flaws]
  BY <1>1 DEF Idle
<1>8. StateInv'
  BY <1>1, <1>2, <1>3, <1>5, <1>6, <1>7 DEF StateInv, Arms
<1> QED
  BY <1>1, <1>2, <1>3, <1>4, <1>5, <1>8

(* ----------------- the models a document names, and the files ---------- *)
(* What a step established of arm a holds until a step that undoes it.     *)
ArmInv(a) ==
    /\ Done(Plan, proc.at, {<<"fit", a>>}) =>
          /\ a \in DOMAIN proc.fitted
          /\ Stands(Plan, proc.at, {<<"put", a>>}, {<<"fit", a>>}) => disk.models[a] = proc.fitted[a]
          /\ Stands(Plan, proc.at, {<<"enter", a>>}, Remade(a)) =>
                a \in DOMAIN proc.doc.models /\ proc.doc.models[a] = proc.fitted[a]
    /\ Stands(Plan, proc.at, {<<"same", a>>}, Reloaded(a)) => disk.models[a] = proc.base.models[a]
    /\ Stands(Plan, proc.at, {<<"agree", a>>}, Rejudged(Arms)) => proc.doc.models[a] = proc.base.models[a]
    /\ Stands(Plan, proc.at, {<<"held", a>>}, Rewritten(a, Arms)) => disk.models[a] = proc.doc.models[a]

ModelsInv ==
    /\ DOMAIN proc.doc.models \subseteq Arms
    /\ disk.report.kind = "doc" => DOMAIN disk.report.models \subseteq Arms
    /\ Running => \A a \in Arms : ArmInv(a)
    /\ Running /\ proc.phase = 1 => \A a \in DOMAIN proc.doc.models : Done(Plan, proc.at, {<<"enter", a>>})

LEMMA ArmsAdvance ==
    ASSUME StateInv, Advance, NEW a \in Arms, ArmInv(a)
    PROVE  ArmInv(a)'
<1>1. /\ Running /\ proc.at <= Len(Plan) /\ ~Raises(Here) /\ Plan' = Plan
      /\ \E new, d : StepDone(new, d)
  BY AdvanceEffect
<1>2. PICK new, d : StepDone(new, d)
  BY <1>1
<1>3. /\ proc.at \in Nat \ {0} /\ Here = Plan[proc.at] /\ proc'.at = proc.at + 1
      /\ Here.op = "load" => Here.on \in {"training", "report"}
      /\ Here.op = "put" => Here.on \in Arms
  BY <1>1, <1>2, StepKinds DEF StepDone, Here
<1>4. /\ ~(Here.op = "put" /\ Here.on = a) => disk'.models[a] = disk.models[a]
      /\ Here.op = "put" /\ Here.on = a => disk'.models[a] = proc.fitted[a]
  BY <1>2, <1>3 DEF StepDone, StateInv
<1>5. /\ a \in DOMAIN proc.fitted /\ ~(Here.op = "fit" /\ Here.on = a)
            => a \in DOMAIN proc'.fitted /\ proc'.fitted[a] = proc.fitted[a]
      /\ Here.op = "fit" /\ Here.on = a => a \in DOMAIN proc'.fitted
  BY <1>2 DEF StepDone, With
<1>6. ~Does(Here) = <<"load", "report">> =>
        /\ Here.op \notin {"enter", "name"} => proc'.doc.models = proc.doc.models
        /\ Here.op \in {"enter", "name"} /\ Here.on # a /\ a \in DOMAIN proc.doc.models
              => a \in DOMAIN proc'.doc.models /\ proc'.doc.models[a] = proc.doc.models[a]
        /\ Here.op = "enter" /\ Here.on = a => a \in DOMAIN proc'.doc.models /\ proc'.doc.models[a] = proc.fitted[a]
  BY <1>2 DEF StepDone, DocLeft, With
<1>7. ~Does(Here) = <<"load", "training">> => proc'.base = proc.base
  BY <1>2 DEF StepDone
<1>8. Here.op \in {"enter", "name"} => Does(Here) \in {"enter", "name"} \X Arms
  BY <1>1, StepKinds DEF Does
<1>9. Done(Plan, proc'.at, {<<"fit", a>>}) => a \in DOMAIN proc'.fitted
  BY <1>3, <1>5, DoneStep DEF ArmInv, Does
<1>10. Done(Plan, proc'.at, {<<"fit", a>>}) /\ Stands(Plan, proc'.at, {<<"put", a>>}, {<<"fit", a>>})
         => disk'.models[a] = proc'.fitted[a]
  <2> SUFFICES ASSUME Done(Plan, proc'.at, {<<"fit", a>>}), Stands(Plan, proc'.at, {<<"put", a>>}, {<<"fit", a>>})
               PROVE  disk'.models[a] = proc'.fitted[a]
    OBVIOUS
  <2>1. CASE Does(Here) = <<"put", a>>
    <3>1. Here.op = "put" /\ Here.on = a /\ proc'.fitted = proc.fitted
      BY <2>1, <1>2 DEF Does, StepDone
    <3> QED
      BY <3>1, <1>4
  <2>2. CASE Does(Here) # <<"put", a>>
    <3>1. Stands(Plan, proc.at, {<<"put", a>>}, {<<"fit", a>>}) /\ Does(Here) \notin {<<"fit", a>>}
      <4>1. proc.at \in Nat \ {0} /\ Stands(Plan, proc.at + 1, {<<"put", a>>}, {<<"fit", a>>}) /\ Does(Plan[proc.at]) \notin {<<"put", a>>}
        BY <1>3, <2>2
      <4>2. Stands(Plan, proc.at, {<<"put", a>>}, {<<"fit", a>>}) /\ Does(Plan[proc.at]) \notin {<<"fit", a>>}
        BY <4>1, StandsStep
      <4> QED
        BY <4>2, <1>3
    <3>2. Done(Plan, proc.at, {<<"fit", a>>})
      BY <1>3, <3>1, DoneStep
    <3> QED
      BY <3>1, <3>2, <2>2, <1>4, <1>5 DEF ArmInv, Does
  <2> QED
    BY <2>1, <2>2
<1>11. Done(Plan, proc'.at, {<<"fit", a>>}) /\ Stands(Plan, proc'.at, {<<"enter", a>>}, Remade(a))
         => a \in DOMAIN proc'.doc.models /\ proc'.doc.models[a] = proc'.fitted[a]
  <2> SUFFICES ASSUME Done(Plan, proc'.at, {<<"fit", a>>}), Stands(Plan, proc'.at, {<<"enter", a>>}, Remade(a))
               PROVE  a \in DOMAIN proc'.doc.models /\ proc'.doc.models[a] = proc'.fitted[a]
    OBVIOUS
  <2>1. CASE Does(Here) = <<"enter", a>>
    <3>1. Here.op = "enter" /\ Here.on = a /\ proc'.fitted = proc.fitted /\ Does(Here) # <<"load", "report">>
      BY <2>1, <1>2 DEF Does, StepDone
    <3> QED
      BY <3>1, <1>6
  <2>2. CASE Does(Here) # <<"enter", a>>
    <3>1. Stands(Plan, proc.at, {<<"enter", a>>}, Remade(a)) /\ Does(Here) \notin Remade(a)
      <4>1. proc.at \in Nat \ {0} /\ Stands(Plan, proc.at + 1, {<<"enter", a>>}, Remade(a)) /\ Does(Plan[proc.at]) \notin {<<"enter", a>>}
        BY <1>3, <2>2
      <4>2. Stands(Plan, proc.at, {<<"enter", a>>}, Remade(a)) /\ Does(Plan[proc.at]) \notin Remade(a)
        BY <4>1, StandsStep
      <4> QED
        BY <4>2, <1>3
    <3>2. Does(Here) \notin {<<"fit", a>>, <<"name", a>>, <<"load", "report">>}
      BY <3>1 DEF Remade
    <3>3. Done(Plan, proc.at, {<<"fit", a>>})
      BY <1>3, <3>2, DoneStep
    <3>4. a \in DOMAIN proc.doc.models /\ proc.doc.models[a] = proc.fitted[a] /\ a \in DOMAIN proc.fitted
      BY <3>1, <3>3 DEF ArmInv
    <3>5. proc'.fitted[a] = proc.fitted[a]
      BY <3>2, <3>4, <1>5 DEF Does
    <3> QED
      BY <3>2, <3>4, <3>5, <2>2, <1>6 DEF Does
  <2> QED
    BY <2>1, <2>2
<1>12. Stands(Plan, proc'.at, {<<"same", a>>}, Reloaded(a)) => disk'.models[a] = proc'.base.models[a]
  <2> SUFFICES ASSUME Stands(Plan, proc'.at, {<<"same", a>>}, Reloaded(a))
               PROVE  disk'.models[a] = proc'.base.models[a]
    OBVIOUS
  <2>1. CASE Does(Here) = <<"same", a>>
    <3>1. Here.op = "same" /\ Here.on = a /\ Does(Here) # <<"load", "training">>
      BY <2>1 DEF Does
    <3>2. disk.models[a] = proc.base.models[a]
      BY <3>1, <1>1 DEF Raises, Unchanged
    <3> QED
      BY <3>1, <3>2, <1>4, <1>7
  <2>2. CASE Does(Here) # <<"same", a>>
    <3>1. Stands(Plan, proc.at, {<<"same", a>>}, Reloaded(a)) /\ Does(Here) \notin Reloaded(a)
      <4>1. proc.at \in Nat \ {0} /\ Stands(Plan, proc.at + 1, {<<"same", a>>}, Reloaded(a)) /\ Does(Plan[proc.at]) \notin {<<"same", a>>}
        BY <1>3, <2>2
      <4>2. Stands(Plan, proc.at, {<<"same", a>>}, Reloaded(a)) /\ Does(Plan[proc.at]) \notin Reloaded(a)
        BY <4>1, StandsStep
      <4> QED
        BY <4>2, <1>3
    <3> QED
      BY <3>1, <1>4, <1>7 DEF ArmInv, Reloaded, Does
  <2> QED
    BY <2>1, <2>2
<1>13. Stands(Plan, proc'.at, {<<"agree", a>>}, Rejudged(Arms)) => proc'.doc.models[a] = proc'.base.models[a]
  <2> SUFFICES ASSUME Stands(Plan, proc'.at, {<<"agree", a>>}, Rejudged(Arms))
               PROVE  proc'.doc.models[a] = proc'.base.models[a]
    OBVIOUS
  <2>1. CASE Does(Here) = <<"agree", a>>
    <3>1. Here.op = "agree" /\ Here.on = a /\ Does(Here) # <<"load", "training">> /\ Does(Here) # <<"load", "report">>
      BY <2>1 DEF Does
    <3>2. proc.doc.models[a] = proc.base.models[a]
      BY <3>1, <1>1 DEF Raises
    <3> QED
      BY <3>1, <3>2, <1>6, <1>7
  <2>2. CASE Does(Here) # <<"agree", a>>
    <3>1. Stands(Plan, proc.at, {<<"agree", a>>}, Rejudged(Arms)) /\ Does(Here) \notin Rejudged(Arms)
      <4>1. proc.at \in Nat \ {0} /\ Stands(Plan, proc.at + 1, {<<"agree", a>>}, Rejudged(Arms)) /\ Does(Plan[proc.at]) \notin {<<"agree", a>>}
        BY <1>3, <2>2
      <4>2. Stands(Plan, proc.at, {<<"agree", a>>}, Rejudged(Arms)) /\ Does(Plan[proc.at]) \notin Rejudged(Arms)
        BY <4>1, StandsStep
      <4> QED
        BY <4>2, <1>3
    <3>2. Here.op \notin {"enter", "name"} /\ Does(Here) # <<"load", "training">> /\ Does(Here) # <<"load", "report">>
      BY <3>1, <1>8 DEF Rejudged, Renamed
    <3> QED
      BY <3>1, <3>2, <1>6, <1>7 DEF ArmInv
  <2> QED
    BY <2>1, <2>2
<1>14. Stands(Plan, proc'.at, {<<"held", a>>}, Rewritten(a, Arms)) => disk'.models[a] = proc'.doc.models[a]
  <2> SUFFICES ASSUME Stands(Plan, proc'.at, {<<"held", a>>}, Rewritten(a, Arms))
               PROVE  disk'.models[a] = proc'.doc.models[a]
    OBVIOUS
  <2>1. CASE Does(Here) = <<"held", a>>
    <3>1. Here.op = "held" /\ Here.on = a /\ Does(Here) # <<"load", "report">>
      BY <2>1 DEF Does
    <3>2. disk.models[a] = proc.doc.models[a]
      BY <3>1, <1>1 DEF Raises
    <3> QED
      BY <3>1, <3>2, <1>4, <1>6
  <2>2. CASE Does(Here) # <<"held", a>>
    <3>1. Stands(Plan, proc.at, {<<"held", a>>}, Rewritten(a, Arms)) /\ Does(Here) \notin Rewritten(a, Arms)
      <4>1. proc.at \in Nat \ {0} /\ Stands(Plan, proc.at + 1, {<<"held", a>>}, Rewritten(a, Arms)) /\ Does(Plan[proc.at]) \notin {<<"held", a>>}
        BY <1>3, <2>2
      <4>2. Stands(Plan, proc.at, {<<"held", a>>}, Rewritten(a, Arms)) /\ Does(Plan[proc.at]) \notin Rewritten(a, Arms)
        BY <4>1, StandsStep
      <4> QED
        BY <4>2, <1>3
    <3>2. /\ Here.op \notin {"enter", "name"} /\ Does(Here) # <<"load", "report">>
          /\ ~(Here.op = "put" /\ Here.on = a)
      BY <3>1, <1>8 DEF Rewritten, Renamed, Does
    <3> QED
      BY <3>1, <3>2, <1>4, <1>6 DEF ArmInv
  <2> QED
    BY <2>1, <2>2
<1> QED
  BY <1>1, <1>9, <1>10, <1>11, <1>12, <1>13, <1>14, AdvanceEffect DEF ArmInv

LEMMA ModelsAdvance ==
    ASSUME StateInv, ModelsInv, Advance
    PROVE  ModelsInv'
<1>1. /\ Running /\ proc.at <= Len(Plan) /\ ~Raises(Here) /\ Plan' = Plan /\ Arms' = Arms
      /\ UNCHANGED <<script, inputs, ended>>
      /\ \E new, d : StepDone(new, d)
  BY AdvanceEffect
<1>2. PICK new, d : StepDone(new, d)
  BY <1>1
<1>3. /\ proc.at \in Nat \ {0} /\ Here = Plan[proc.at] /\ proc'.at = proc.at + 1
      /\ Here.op = "load" => Here.on \in {"training", "report"}
      /\ Here.op \in {"enter", "name"} => Here.on \in Arms
      /\ proc.phase \in DOMAIN Plans[script] /\ proc.at \in DOMAIN Plan /\ Plan \in Seq(Steps)
  BY <1>1, <1>2, StepKinds DEF StepDone, Here
<1>4. DOMAIN proc'.doc.models \subseteq Arms
  <2>1. CASE Does(Here) = <<"load", "report">>
    BY <2>1, <1>2 DEF StepDone, DocLeft, ModelsInv
  <2>2. CASE Does(Here) # <<"load", "report">>
    BY <2>2, <1>2, <1>3 DEF StepDone, DocLeft, ModelsInv, With
  <2> QED
    BY <2>1, <2>2
<1>5. disk'.report.kind = "doc" => DOMAIN disk'.report.models \subseteq Arms
  BY <1>2 DEF StepDone, ModelsInv
<1>6. \A a \in Arms : ArmInv(a)'
  BY <1>1, ArmsAdvance DEF ModelsInv
<1>7. ASSUME proc.phase = 1, NEW a \in DOMAIN proc'.doc.models
      PROVE  Done(Plan, proc'.at, {<<"enter", a>>})
  <2>1. NamesItsOwn(Plan)
    BY <1>3, <1>7, ScriptsKeepOrder DEF ModelsInOrder, StateInv, Plan
  <2>2. Does(Here) # <<"load", "report">>
    <3>1. ASSUME Does(Here) = <<"load", "report">> PROVE Loads(Plan, "report")
      <4>1. proc.at \in 1..((Len(Plan) + 1) - 1)
        BY <1>3
      <4> QED
        BY <1>3, <3>1, <4>1 DEF Loads, Done, AtEnd
    <3> QED
      BY <2>1, <3>1 DEF NamesItsOwn
  <2>3. Here.op # "name"
    BY <1>3, <2>1 DEF NamesItsOwn
  <2>4. a \in DOMAIN proc.doc.models \/ Does(Here) = <<"enter", a>>
    BY <1>2, <1>7, <2>2, <2>3 DEF StepDone, DocLeft, With, Does
  <2> QED
    BY <1>1, <1>3, <1>7, <2>4, DoneStep DEF ModelsInv
<1> QED
  BY <1>1, <1>2, <1>4, <1>5, <1>6, <1>7 DEF ModelsInv, StepDone

LEMMA ModelsStart ==
    ASSUME StateInv, ModelsInv, Start
    PROVE  ModelsInv'
<1>1. /\ UNCHANGED <<script, inputs, disk>> /\ proc'.at = 1 /\ proc'.doc = Blank
  BY StartEffect
<1>2. DOMAIN proc'.doc.models = {}
  BY <1>1 DEF Blank
<1>3. disk'.report = disk.report /\ Arms' = Arms
  BY <1>1 DEF Arms
<1>4. \A a \in Arms : ArmInv(a)'
  BY <1>1, NothingDone DEF ArmInv
<1> QED
  BY <1>2, <1>3, <1>4 DEF ModelsInv

LEMMA ModelsEnd ==
    ASSUME StateInv, ModelsInv, Raise \/ Finish \/ Crash
    PROVE  ModelsInv'
<1>1. /\ UNCHANGED script /\ proc'.doc = Blank /\ ~Running'
      /\ disk'.report = disk.report \/ disk'.report = TornFile
  BY EndEffect
<1>2. DOMAIN proc'.doc.models = {} /\ Arms' = Arms /\ TornFile.kind # "doc"
  BY <1>1 DEF Blank, Arms, TornFile
<1> QED
  BY <1>1, <1>2 DEF ModelsInv

(* When the first process ends, and when a comparing one does, all is compared. *)
LEMMA ModelsAgree ==
    ASSUME StateInv, ModelsInv, Running, proc.at = AtEnd(Plan),
           proc.phase = 1 \/ script \in ComparesFiles,
           NEW a \in DOMAIN proc.doc.models
    PROVE  disk.models[a] = proc.doc.models[a]
<1>1. proc.phase \in DOMAIN Plans[script] /\ Plan = Plans[script][proc.phase] /\ script \in DOMAIN Plans
  BY DEF StateInv, Running, Plan
<1>2. ModelsInOrder(script) /\ a \in Arms
  BY <1>1, ScriptsKeepOrder DEF ModelsInv
<1>3. ArmInv(a)
  BY <1>2 DEF ModelsInv
<1>4. CASE proc.phase = 1
  <2>1. NamesItsOwn(Plan)
    BY <1>1, <1>2, <1>4 DEF ModelsInOrder
  <2>2. Done(Plan, proc.at, {<<"enter", a>>})
    BY <1>4 DEF ModelsInv
  <2>3. PICK n \in 1..(proc.at - 1) : Does(Plan[n]) = <<"enter", a>>
    BY <2>2 DEF Done
  <2>4. n \in DOMAIN Plan /\ Plan[n].op = "enter" /\ Plan[n].on = a
    <3>1. Plan \in Seq(Steps)
      BY <1>1, ScriptsKeepOrder
    <3> QED
      BY <2>3, <3>1 DEF Does, AtEnd
  <2>5. /\ Done(Plan, proc.at, {<<"fit", a>>})
        /\ Stands(Plan, proc.at, {<<"put", a>>}, {<<"fit", a>>})
        /\ Stands(Plan, proc.at, {<<"enter", a>>}, Remade(a))
    BY <2>1, <2>4 DEF NamesItsOwn
  <2> QED
    BY <1>3, <2>5 DEF ArmInv
<1>5. CASE proc.phase # 1
  <2>1. ComparesArms(Plan, Arms)
    BY <1>1, <1>2, <1>5 DEF ModelsInOrder, Arms
  <2> QED
    BY <1>2, <1>3, <2>1 DEF ComparesArms, ArmInv
<1> QED
  BY <1>4, <1>5

LEMMA StateInit ==
    ASSUME ExperimentInit
    PROVE  StateInv
<1>1. IsDoc(Blank) /\ Idle.doc = Blank /\ Idle.phase = 0
  BY DEF IsDoc, Blank, Idle
<1>2. /\ proc = [phase |-> proc.phase, at |-> proc.at, runtime |-> proc.runtime, doc |-> proc.doc,
                 base |-> proc.base, fitted |-> proc.fitted, flaws |-> proc.flaws]
      /\ proc.phase = 0 /\ IsDoc(proc.doc)
  BY <1>1 DEF ExperimentInit, Idle
<1>3. /\ disk = [models |-> disk.models, training |-> disk.training, report |-> disk.report]
      /\ disk.models = [a \in Arms |-> disk.models[a]]
      /\ disk.report.kind # "doc"
  BY DEF ExperimentInit, NoFile
<1>4. /\ ended = [phase |-> ended.phase, as |-> ended.as, flaws |-> ended.flaws, doc |-> ended.doc]
      /\ ended.as = "nothing"
  BY DEF ExperimentInit
<1>5. inputs \in [Inputs -> Versions]
  BY DEF ExperimentInit, Versions
<1> QED
  BY <1>2, <1>3, <1>4, <1>5, ExperimentConstants DEF StateInv, Running, ExperimentInit

(* The models a passed report names are the files in the directory: never  *)
(* those of a training that was killed halfway or run anew.                *)
THEOREM FilesAlwaysDescribed == ExperimentSpec => []ReportDescribesFiles
<1> DEFINE Inv == StateInv /\ ModelsInv /\ ReportDescribesFiles
<1>1. ExperimentInit => Inv
  <2> SUFFICES ASSUME ExperimentInit PROVE ModelsInv /\ ReportDescribesFiles
    BY StateInit
  <2>1. proc.doc = Blank /\ ~Running /\ disk.report.kind # "doc" /\ ~Passed
    BY DEF ExperimentInit, Idle, Running, NoFile, Passed
  <2> QED
    BY <2>1 DEF ModelsInv, ReportDescribesFiles, Blank
<1>2. Inv /\ [ExperimentNext]_vars => Inv'
  <2> SUFFICES ASSUME Inv, [ExperimentNext]_vars PROVE Inv'
    OBVIOUS
  <2>1. CASE Start
    BY <2>1, StartEffect, ModelsStart DEF ReportDescribesFiles, Passed
  <2>2. CASE Edit
    <3>1. UNCHANGED <<script, disk, proc, ended>> /\ StateInv'
      BY <2>2, EditEffect
    <3> QED
      BY <3>1 DEF ModelsInv, ArmInv, ReportDescribesFiles, Passed, Running, Plan, Arms
  <2>3. CASE Advance
    <3>1. StateInv' /\ ended' = ended /\ Running
      BY <2>3, AdvanceEffect
    <3>2. ~Passed'
      BY <3>1 DEF Passed, StateInv
    <3> QED
      BY <2>3, <3>1, <3>2, ModelsAdvance DEF ReportDescribesFiles
  <2>4. CASE Raise \/ Finish \/ Crash
    <3>1. StateInv' /\ ModelsInv'
      BY <2>4, EndEffect, ModelsEnd
    <3>2. ReportDescribesFiles'
      <4> SUFFICES ASSUME Passed', (ended.phase = 1 \/ script \in ComparesFiles)', NEW a \in DOMAIN ended'.doc.models
                   PROVE  disk'.models[a] = ended'.doc.models[a]
        BY DEF ReportDescribesFiles
      <4>1. /\ Running /\ proc.at = AtEnd(Plan) /\ disk' = disk /\ UNCHANGED script
            /\ ended'.doc = proc.doc /\ ended'.phase = proc.phase
        BY <2>4, EndEffect DEF Passed
      <4> QED
        BY <4>1, ModelsAgree
    <3> QED
      BY <3>1, <3>2
  <2>5. CASE UNCHANGED vars
    BY <2>5 DEF vars, StateInv, ModelsInv, ArmInv, ReportDescribesFiles, Passed, Running, Plan, Arms, IsDoc
  <2> QED
    BY <2>1, <2>2, <2>3, <2>4, <2>5 DEF ExperimentNext
<1> QED
  BY <1>1, <1>2, PTL DEF ExperimentSpec

(* ------------------- the flaws a report tells of ----------------------- *)
LEMMA SettledStep ==
    ASSUME NEW plan, NEW k \in Nat \ {0}, NEW f, NEW ops, Settled(plan, k + 1, f, ops)
    PROVE  /\ f \notin plan[k].risk
           /\ Settled(plan, k, f, ops) \/ (plan[k].op \in ops /\ plan[k].on = f)
<1>1. CASE \A n \in 1..((k + 1) - 1) : f \notin plan[n].risk
  <2>1. k \in 1..((k + 1) - 1) /\ 1..(k - 1) \subseteq 1..((k + 1) - 1)
    OBVIOUS
  <2> QED
    BY <1>1, <2>1 DEF Settled
<1>2. CASE \E j \in 1..((k + 1) - 1) : /\ plan[j].op \in ops /\ plan[j].on = f
                                       /\ \A n \in j..((k + 1) - 1) : f \notin plan[n].risk
  <2>1. PICK j \in 1..((k + 1) - 1) : /\ plan[j].op \in ops /\ plan[j].on = f
                                      /\ \A n \in j..((k + 1) - 1) : f \notin plan[n].risk
    BY <1>2
  <2>2. k \in j..((k + 1) - 1) /\ j..(k - 1) \subseteq j..((k + 1) - 1) /\ (j = k \/ j \in 1..(k - 1))
    OBVIOUS
  <2> QED
    BY <2>1, <2>2 DEF Settled
<1> QED
  BY <1>1, <1>2 DEF Settled

(* Vouched flaws that a document has and does not tell of. *)
Hidden(d) == (d.truth \cap Vouches[script]) \ d.told

(* The work a document rests on had no flaw its script looks for. *)
BasisInv(d) == d.basis = NoFile \/ (d.basis.kind = "doc" /\ d.basis.truth \cap Vouches[script] = {})

FlawsInv ==
    /\ Running =>
          /\ \A f : Settled(Plan, proc.at, f, {"check"}) => f \notin proc.flaws
          /\ \A f : Settled(Plan, proc.at, f, {"check", "note"}) => f \notin proc.flaws \/ f \in proc.doc.told
          /\ ~Done(Plan, proc.at, {<<"load", "report">>}) => proc.doc.truth \subseteq proc.flaws
          /\ Hidden(proc.doc) \subseteq proc.flaws \/ (~proc.doc.sealed /\ RefusesUnfinished(script))
          /\ ~Done(Plan, proc.at, {<<"seal", "">>, <<"load", "report">>}) => ~proc.doc.sealed
          /\ Stands(Plan, proc.at, {<<"whole", "">>, <<"finished", "">>}, {<<"load", "report">>}) => proc.doc.sealed
          /\ BasisInv(proc.doc)
    /\ disk.report.kind = "doc" =>
          /\ ReadsReport(script) => Hidden(disk.report) = {} \/ (~disk.report.sealed /\ RefusesUnfinished(script))
          /\ BasisInv(disk.report)
    /\ disk.training.kind = "doc" /\ RestsOnTraining(script) => disk.training.truth \cap Vouches[script] = {}

(* A step of the plan is among those of its plan, and of its script.       *)
LEMMA DoneHere ==
    ASSUME StateInv, Running, proc.at <= Len(Plan), NEW makes,
           Does(Here) \in makes \/ Done(Plan, proc.at, makes)
    PROVE  Done(Plan, AtEnd(Plan), makes) /\ Done(Plan, proc.at + 1, makes)
<1>1. proc.at \in DOMAIN Plan /\ proc.at \in Nat \ {0} /\ Plan \in Seq(Steps)
  BY StepKinds
<1>2. proc.at \in 1..(AtEnd(Plan) - 1) /\ 1..(proc.at - 1) \subseteq 1..(AtEnd(Plan) - 1)
  BY <1>1 DEF AtEnd
<1>3. proc.at \in 1..((proc.at + 1) - 1) /\ 1..(proc.at - 1) \subseteq 1..((proc.at + 1) - 1)
  BY <1>1
<1> QED
  BY <1>2, <1>3 DEF Done, Here

LEMMA LoadsHere ==
    ASSUME StateInv, Running, proc.at <= Len(Plan), NEW f,
           Does(Here) = <<"load", f>> \/ Done(Plan, proc.at, {<<"load", f>>})
    PROVE  Loads(Plan, f) /\ \E p \in DOMAIN Plans[script] : Loads(Plans[script][p], f)
<1>1. Does(Here) \in {<<"load", f>>} \/ Done(Plan, proc.at, {<<"load", f>>})
  OBVIOUS
<1>2. Loads(Plan, f)
  BY <1>1, DoneHere DEF Loads
<1> QED
  BY <1>2, StepKinds DEF Plan

(* What FlawsInOrder says of the step at hand. *)
LEMMA FlawsHere ==
    ASSUME StateInv, Running, proc.at <= Len(Plan)
    PROVE  /\ Does(Here) = <<"load", "report">> => \A m \in 1..proc.at : Plan[m].risk = {}
           /\ Does(Here) \in {<<"save", "report">>, <<"rewrite", "report">>} =>
                 \/ \A f \in Vouches[script] : Settled(Plan, proc.at, f, {"check", "note"})
                 \/ RefusesUnfinished(script) /\ ~Done(Plan, proc.at, {<<"seal", "">>, <<"load", "report">>})
                 \/ ~ReadsReport(script)
           /\ Does(Here) \in {<<"save", "training">>, <<"rewrite", "training">>} /\ RestsOnTraining(script) =>
                 /\ \A f \in Vouches[script] : Settled(Plan, proc.at, f, {"check"})
                 /\ ~Loads(Plan, "report") /\ ~Loads(Plan, "training")
<1>1. proc.phase \in DOMAIN Plans[script] /\ proc.at \in DOMAIN Plan /\ Plan = Plans[script][proc.phase] /\ Here = Plan[proc.at]
  BY StepKinds DEF Plan, Here
<1>2. FlawsInOrder(script)
  BY ScriptsKeepOrder DEF StateInv
<1> QED
  BY <1>1, <1>2 DEF FlawsInOrder

LEMMA FlawsAdvance ==
    ASSUME StateInv, FlawsInv, Advance
    PROVE  FlawsInv'
<1>1. /\ Running /\ proc.at <= Len(Plan) /\ ~Raises(Here) /\ Plan' = Plan
      /\ UNCHANGED <<script, inputs, ended>>
      /\ \E new, d : StepDone(new, d)
  BY AdvanceEffect
<1>2. PICK new, d : StepDone(new, d)
  BY <1>1
<1>3. /\ proc.at \in Nat \ {0} /\ Here = Plan[proc.at] /\ proc'.at = proc.at + 1
      /\ Here.op = "load" => Here.on \in {"training", "report"}
      /\ proc.at \in DOMAIN Plan
  BY <1>1, <1>2, StepKinds DEF StepDone, Here
<1> DEFINE reloaded == Does(Here) = <<"load", "report">>
<1>4. reloaded => new = {} /\ proc.flaws = {}
  <2> SUFFICES ASSUME reloaded PROVE new = {} /\ proc.flaws = {}
    OBVIOUS
  <2>1. \A m \in 1..proc.at : Plan[m].risk = {}
    BY <1>1, FlawsHere
  <2>2. \A f : Settled(Plan, proc.at, f, {"check"})
    BY <2>1, <1>3 DEF Settled
  <2>3. Here.risk = {}
    BY <2>1, <1>3
  <2> QED
    BY <1>1, <1>2, <2>2, <2>3 DEF FlawsInv, StepDone
<1>5. \A f : Settled(Plan, proc'.at, f, {"check"}) => f \notin proc'.flaws
  <2> SUFFICES ASSUME NEW f, Settled(Plan, proc.at + 1, f, {"check"}) PROVE f \notin proc'.flaws
    BY <1>3
  <2>1. f \notin Here.risk /\ (Settled(Plan, proc.at, f, {"check"}) \/ (Here.op = "check" /\ Here.on = f))
    BY <1>3, SettledStep
  <2>2. f \notin proc.flaws
    BY <1>1, <2>1 DEF FlawsInv, Raises
  <2> QED
    BY <1>2, <2>1, <2>2 DEF StepDone
<1>6. \A f : Settled(Plan, proc'.at, f, {"check", "note"}) => f \notin proc'.flaws \/ f \in proc'.doc.told
  <2> SUFFICES ASSUME NEW f, Settled(Plan, proc.at + 1, f, {"check", "note"}), ~reloaded
               PROVE f \notin proc'.flaws \/ f \in proc'.doc.told
    BY <1>2, <1>3, <1>4 DEF StepDone
  <2>1. f \notin Here.risk /\ (Settled(Plan, proc.at, f, {"check", "note"}) \/ (Here.op \in {"check", "note"} /\ Here.on = f))
    BY <1>3, SettledStep
  <2>2. f \in proc'.flaws => f \in proc.flaws
    BY <1>2, <2>1 DEF StepDone
  <2>3. proc.doc.told \subseteq proc'.doc.told
    BY <1>2 DEF StepDone, DocLeft
  <2>4. CASE Settled(Plan, proc.at, f, {"check", "note"})
    BY <1>1, <2>2, <2>3, <2>4 DEF FlawsInv
  <2>5. CASE Here.op = "check" /\ Here.on = f
    BY <1>1, <2>2, <2>5 DEF Raises
  <2>6. CASE Here.op = "note" /\ Here.on = f
    BY <1>2, <2>2, <2>6 DEF StepDone, DocLeft
  <2> QED
    BY <2>1, <2>4, <2>5, <2>6
<1>7. ~Done(Plan, proc'.at, {<<"load", "report">>}) => ~reloaded /\ proc'.doc.truth \subseteq proc'.flaws
  <2> SUFFICES ASSUME ~Done(Plan, proc.at + 1, {<<"load", "report">>}) PROVE ~reloaded /\ proc'.doc.truth \subseteq proc'.flaws
    BY <1>3
  <2>1. ~reloaded /\ ~Done(Plan, proc.at, {<<"load", "report">>})
    BY <1>3, DoneStep
  <2> QED
    BY <1>1, <1>2, <2>1 DEF FlawsInv, StepDone, DocLeft
<1>8. Hidden(proc.doc)' \subseteq proc'.flaws \/ (~proc'.doc.sealed /\ RefusesUnfinished(script))
  <2>1. CASE ~Done(Plan, proc'.at, {<<"load", "report">>})
    BY <1>7, <2>1 DEF Hidden
  <2>2. CASE reloaded
    <3>1. ReadsReport(script)
      BY <1>1, <2>2, LoadsHere DEF ReadsReport
    <3>2. Hidden(disk.report) = {} \/ (~disk.report.sealed /\ RefusesUnfinished(script))
      BY <1>2, <2>2, <3>1 DEF StepDone, DocLeft, FlawsInv
    <3>3. d = disk.report
      BY <1>2, <2>2 DEF StepDone, DocLeft
    <3>4. Hidden(proc.doc)' = Hidden(disk.report)
      BY <1>1, <1>2, <1>4, <2>2, <3>3 DEF StepDone, Hidden
    <3>5. proc'.doc.sealed = disk.report.sealed
      BY <1>2, <3>3 DEF StepDone
    <3> QED
      BY <3>2, <3>4, <3>5
  <2>3. CASE Done(Plan, proc'.at, {<<"load", "report">>}) /\ ~reloaded
    <3>1. Done(Plan, proc.at, {<<"load", "report">>})
      BY <1>3, <2>3, DoneStep
    <3>2. Loads(Plan, "report")
      BY <1>1, <3>1, LoadsHere
    <3>3. proc'.doc.truth \subseteq proc.doc.truth \cup proc'.flaws /\ proc.doc.told \subseteq proc'.doc.told
          /\ proc.flaws \subseteq proc'.flaws
      BY <1>2, <2>3 DEF StepDone, DocLeft
    <3>4. Hidden(proc.doc)' \subseteq Hidden(proc.doc) \cup proc'.flaws
      BY <1>1, <3>3 DEF Hidden
    <3>5. CASE Hidden(proc.doc) \subseteq proc.flaws
      BY <3>3, <3>4, <3>5
    <3>6. CASE ~proc.doc.sealed /\ RefusesUnfinished(script)
      <4>1. Here.op # "seal"
        BY <1>1, <1>3, <3>2, <3>6, StepKinds DEF RefusesUnfinished, Plan
      <4>2. proc'.doc.sealed = proc.doc.sealed
        BY <1>2, <2>3, <4>1 DEF StepDone, DocLeft
      <4> QED
        BY <3>6, <4>2
    <3> QED
      BY <1>1, <3>5, <3>6 DEF FlawsInv
  <2> QED
    BY <2>1, <2>2, <2>3
<1>9. ~Done(Plan, proc'.at, {<<"seal", "">>, <<"load", "report">>}) => ~proc'.doc.sealed
  <2> SUFFICES ASSUME ~Done(Plan, proc.at + 1, {<<"seal", "">>, <<"load", "report">>}) PROVE ~proc'.doc.sealed
    BY <1>3
  <2>1. ~reloaded /\ Does(Here) # <<"seal", "">> /\ ~Done(Plan, proc.at, {<<"seal", "">>, <<"load", "report">>})
    BY <1>3, DoneStep
  <2>2. Here.op # "seal"
    BY <1>1, <2>1, StepKinds DEF Does
  <2>3. proc'.doc.sealed = proc.doc.sealed /\ ~proc.doc.sealed
    BY <1>1, <1>2, <2>1, <2>2 DEF FlawsInv, StepDone, DocLeft
  <2> QED
    BY <2>3
<1>10. Stands(Plan, proc'.at, {<<"whole", "">>, <<"finished", "">>}, {<<"load", "report">>}) => proc'.doc.sealed
  <2> SUFFICES ASSUME Stands(Plan, proc.at + 1, {<<"whole", "">>, <<"finished", "">>}, {<<"load", "report">>})
               PROVE  proc'.doc.sealed
    BY <1>3
  <2>1. CASE Does(Here) \in {<<"whole", "">>, <<"finished", "">>}
    <3>1. Here.op \in {"whole", "finished"}
      BY <2>1 DEF Does
    <3>2. proc.doc.sealed
      BY <1>1, <3>1 DEF Raises
    <3>3. proc'.doc.sealed = proc.doc.sealed
      BY <1>2, <3>1 DEF StepDone, DocLeft, Does
    <3> QED
      BY <3>2, <3>3
  <2>2. CASE Does(Here) \notin {<<"whole", "">>, <<"finished", "">>}
    <3>1. /\ ~reloaded
          /\ Stands(Plan, proc.at, {<<"whole", "">>, <<"finished", "">>}, {<<"load", "report">>})
      <4> DEFINE makes == {<<"whole", "">>, <<"finished", "">>}
                 breaks == {<<"load", "report">>}
      <4>1. Stands(Plan, proc.at + 1, makes, breaks) /\ Does(Plan[proc.at]) \notin makes
        BY <1>3, <2>2
      <4> HIDE DEF makes, breaks
      <4>2. Stands(Plan, proc.at, makes, breaks) /\ Does(Plan[proc.at]) \notin breaks
        <5>1. proc.at \in Nat \ {0} /\ Stands(Plan, proc.at + 1, makes, breaks) /\ Does(Plan[proc.at]) \notin makes
          BY <1>3, <4>1
        <5>2. Stands(Plan, proc.at, makes, breaks) /\ Does(Plan[proc.at]) \notin breaks
          BY <5>1, StandsStep
        <5> QED
          BY <5>2
      <4> QED
        BY <1>3, <4>2 DEF makes, breaks
    <3>4. proc.doc.sealed
      BY <1>1, <3>1 DEF FlawsInv
    <3>2. CASE Here.op = "seal"
      BY <1>2, <3>1, <3>2 DEF StepDone, DocLeft
    <3>3. CASE Here.op # "seal"
      <4>1. proc'.doc.sealed = proc.doc.sealed
        BY <1>2, <3>1, <3>3 DEF StepDone, DocLeft
      <4> QED
        BY <3>4, <4>1
    <3> QED
      BY <3>2, <3>3
  <2> QED
    BY <2>1, <2>2
<1>11. BasisInv(proc.doc)'
  <2>1. CASE reloaded
    <3>1. d = disk.report /\ disk.report.kind = "doc" /\ proc'.doc.basis = d.basis
      BY <1>2, <2>1 DEF StepDone, DocLeft
    <3>2. BasisInv(disk.report)
      BY <3>1 DEF FlawsInv
    <3> QED
      BY <1>1, <3>1, <3>2 DEF BasisInv
  <2>2. CASE ~reloaded /\ Here.op = "load" /\ proc.doc.basis = NoFile
    <3>1. Does(Here) = <<"load", "training">> /\ disk.training.kind = "doc"
      BY <1>1, <1>3, <2>2 DEF Does, Raises, Absent
    <3>2. RestsOnTraining(script)
      BY <1>1, <3>1, LoadsHere DEF RestsOnTraining
    <3>3. proc'.doc.basis = disk.training
      BY <1>2, <2>2 DEF StepDone, DocLeft
    <3> QED
      BY <1>1, <3>1, <3>2, <3>3 DEF FlawsInv, BasisInv
  <2>3. CASE ~reloaded /\ ~(Here.op = "load" /\ proc.doc.basis = NoFile)
    <3>1. proc'.doc.basis = proc.doc.basis
      BY <1>2, <2>3 DEF StepDone, DocLeft
    <3> QED
      BY <1>1, <3>1 DEF FlawsInv, BasisInv
  <2> QED
    BY <2>1, <2>2, <2>3
<1>12. disk'.report.kind = "doc" =>
         /\ ReadsReport(script) => Hidden(disk'.report) = {} \/ (~disk'.report.sealed /\ RefusesUnfinished(script))
         /\ BasisInv(disk'.report)
  <2>1. CASE Does(Here) \notin {<<"save", "report">>, <<"rewrite", "report">>}
    <3>1. disk'.report = disk.report
      BY <1>2, <2>1 DEF StepDone
    <3> QED
      BY <3>1 DEF FlawsInv
  <2>2. CASE Does(Here) \in {<<"save", "report">>, <<"rewrite", "report">>}
    <3>1. disk'.report = proc.doc /\ BasisInv(proc.doc)
      BY <1>1, <1>2, <2>2 DEF StepDone, FlawsInv
    <3>2. CASE \A f \in Vouches[script] : Settled(Plan, proc.at, f, {"check", "note"})
      <4>1. \A f \in Vouches[script] : f \notin proc.flaws \/ f \in proc.doc.told
        BY <1>1, <3>2 DEF FlawsInv
      <4>2. Hidden(proc.doc) \subseteq proc.flaws => Hidden(proc.doc) = {}
        BY <4>1 DEF Hidden
      <4> QED
        BY <1>1, <3>1, <4>2 DEF FlawsInv
    <3>3. CASE RefusesUnfinished(script) /\ ~Done(Plan, proc.at, {<<"seal", "">>, <<"load", "report">>})
      BY <1>1, <3>1, <3>3 DEF FlawsInv
    <3> QED
      BY <1>1, <2>2, <3>1, <3>2, <3>3, FlawsHere
  <2> QED
    BY <2>1, <2>2
<1>13. disk'.training.kind = "doc" /\ RestsOnTraining(script) => disk'.training.truth \cap Vouches[script] = {}
  <2>1. CASE Does(Here) \notin {<<"save", "training">>, <<"rewrite", "training">>}
    <3>1. disk'.training = disk.training
      BY <1>2, <2>1 DEF StepDone
    <3> QED
      BY <3>1 DEF FlawsInv
  <2>2. CASE Does(Here) \in {<<"save", "training">>, <<"rewrite", "training">>} /\ RestsOnTraining(script)
    <3>1. disk'.training = proc.doc
      BY <1>2, <2>2 DEF StepDone
    <3>2. (\A f \in Vouches[script] : Settled(Plan, proc.at, f, {"check"})) /\ ~Loads(Plan, "report")
      BY <1>1, <2>2, FlawsHere
    <3>3. ~Done(Plan, proc.at, {<<"load", "report">>})
      BY <1>1, <3>2, LoadsHere
    <3>4. proc.doc.truth \subseteq proc.flaws /\ \A f \in Vouches[script] : f \notin proc.flaws
      BY <1>1, <3>2, <3>3 DEF FlawsInv
    <3> QED
      BY <3>1, <3>4
  <2> QED
    BY <2>1, <2>2
<1>14. UNCHANGED script /\ Hidden(disk'.report) = Hidden(disk.report)' /\ BasisInv(disk'.report) = BasisInv(disk.report)'
  BY <1>1 DEF Hidden, BasisInv
<1> QED
  BY <1>1, <1>5, <1>6, <1>7, <1>8, <1>9, <1>10, <1>11, <1>12, <1>13, <1>14 DEF FlawsInv

(* ------------------- the inputs a report was made of ------------------- *)
(* Nobody has read an edit that was not made yet, nor one of an input that *)
(* is never read but as the declared one.                                  *)
Current(read) == \A i \in Inputs : inputs[i] = 1 \/ Pinned(script, i) => <<i, 2>> \notin read

(* If the training read an edited input, so did the work that rests on it. *)
ReadInv(d) ==
    /\ Current(d.read)
    /\ d.basis # NoFile =>
          /\ RestsOnTraining(script) /\ d.basis.kind = "doc"
          /\ Current(d.basis.read)
          /\ \A i \in Inputs : <<i, 2>> \in d.basis.read => <<i, 1>> \notin d.read

Documents == {<<"load", "report">>, <<"load", "training">>}

BaseInv ==
    /\ ~Done(Plan, proc.at, Documents) => proc.doc.basis = NoFile
    /\ RestsOnTraining(script) /\ Done(Plan, proc.at, Documents) => proc.doc.basis # NoFile
    /\ Done(Plan, proc.at, {<<"load", "training">>}) =>
          /\ proc.base = disk.training /\ disk.training.kind = "doc"
          /\ Stands(Plan, proc.at, {<<"basis", "">>}, Documents) => proc.doc.basis = proc.base

InputInv(i) ==
    /\ Done(Plan, proc.at, {<<"load", "training">>}) /\ Stands(Plan, proc.at, {<<"recall", i>>}, Anew(i)) =>
          \E v \in Versions : /\ ReadBefore(proc.base, i) = {v}
                              /\ proc.doc.basis = proc.base => ReadBefore(proc.doc, i) \subseteq {v}
    /\ Stands(Plan, proc.at, {<<"again", i>>}, Anew(i)) =>
          \E v \in Versions : ReadBefore(proc.doc, i) \subseteq {v}
    /\ ReadOnce(Plan, i) =>
          /\ \E v \in Versions : ReadBefore(proc.doc, i) \subseteq {v}
          /\ ~Done(Plan, proc.at, Reading(i)) => ReadBefore(proc.doc, i) = {}
    /\ Loads(Plan, "training") /\ proc.doc.basis = NoFile /\ disk.training.kind = "doc"
       /\ <<i, 2>> \in disk.training.read => <<i, 1>> \notin proc.doc.read

ReadsInv ==
    /\ disk.training.kind = "doc" => Current(disk.training.read)
    /\ disk.report.kind = "doc" =>
          /\ ReadInv(disk.report)
          /\ RestsOnTraining(script) => disk.report.basis # NoFile
    /\ ReadInv(proc.doc)
    /\ Running => BaseInv /\ \A i \in Inputs : InputInv(i)

(* What InputsInOrder says of the step at hand. *)
LEMMA InputsHere ==
    ASSUME StateInv, Running, proc.at <= Len(Plan)
    PROVE  /\ RestsOnTraining(script) /\ Does(Here) \in {<<"save", "report">>, <<"rewrite", "report">>}
                 => Done(Plan, proc.at, Documents)
           /\ \A i \in Inputs : Pinned(script, i) => Does(Here) \notin {<<"read", i>>, <<"recall", i>>}
<1>1. proc.phase \in DOMAIN Plans[script] /\ proc.at \in DOMAIN Plan /\ Plan = Plans[script][proc.phase] /\ Here = Plan[proc.at]
  BY StepKinds DEF Plan, Here
<1>2. InputsInOrder(script)
  BY ScriptsKeepOrder DEF StateInv
<1>3. Documents = {<<"load", "training">>, <<"load", "report">>}
  BY DEF Documents
<1>4. RestsOnTraining(script) /\ Does(Here) \in {<<"save", "report">>, <<"rewrite", "report">>}
         => Done(Plan, proc.at, Documents)
  BY <1>1, <1>2, <1>3 DEF InputsInOrder
<1>5. ASSUME NEW i \in Inputs, Pinned(script, i) PROVE Does(Here) \notin {<<"read", i>>, <<"recall", i>>}
  <2>1. ~Done(Plan, AtEnd(Plan), {<<"read", i>>, <<"recall", i>>})
    BY <1>1, <1>5 DEF Pinned
  <2> QED
    BY <2>1, DoneHere
<1> QED
  BY <1>4, <1>5

(* What a step reads of an input, and which files it leaves alone. *)
LEMMA ReadHere ==
    ASSUME StateInv, Running, proc.at <= Len(Plan), ~Raises(Here), NEW new, NEW d, StepDone(new, d)
    PROVE  /\ Does(Here) # <<"load", "report">> /\ Here.op \notin {"pin", "read", "recall"} => proc'.doc.read = proc.doc.read
           /\ Here.op \in {"pin", "read", "recall"} => proc'.doc.read = proc.doc.read \cup {<<Here.on, inputs[Here.on]>>}
           /\ Here.op # "load" => proc'.doc.basis = proc.doc.basis
           /\ Does(Here) = <<"load", "report">> =>
                 disk.report.kind = "doc" /\ proc'.doc.read = disk.report.read /\ proc'.doc.basis = disk.report.basis
           /\ Does(Here) = <<"load", "training">> =>
                 /\ disk.training.kind = "doc" /\ proc'.base = disk.training /\ proc'.doc.read = proc.doc.read
                 /\ proc'.doc.basis = IF proc.doc.basis = NoFile THEN disk.training ELSE proc.doc.basis
           /\ Does(Here) # <<"load", "training">> => proc'.base = proc.base
           /\ Here.op = "load" => Does(Here) \in Documents
           /\ Loads(Plan, "training") => disk'.training = disk.training
<1>1. Here.op = "load" => Here.on \in {"training", "report"}
  BY StepKinds
<1>2. Does(Here) = <<"load", "training">> => disk.training.kind = "doc"
  BY DEF Does, Raises, Absent
<1>3. Loads(Plan, "training") => disk'.training = disk.training
  <2>1. Loads(Plan, "training") => RestsOnTraining(script)
    BY StepKinds DEF RestsOnTraining, Plan
  <2> QED
    BY <2>1, FlawsHere DEF StepDone
<1>4. Does(Here) = <<Here.op, Here.on>>
  BY DEF Does
<1> QED
  BY <1>1, <1>2, <1>3, <1>4 DEF StepDone, DocLeft, Documents

LEMMA DocReadsOn ==
    ASSUME StateInv, ReadsInv, Advance
    PROVE  ReadInv(proc.doc)'
<1>1. /\ Running /\ proc.at <= Len(Plan) /\ ~Raises(Here) /\ Plan' = Plan
      /\ UNCHANGED <<script, inputs, ended>>
      /\ \E new, d : StepDone(new, d)
  BY AdvanceEffect
<1>2. PICK new, d : StepDone(new, d)
  BY <1>1
<1>3. ReadInv(proc.doc) /\ BaseInv /\ \A i \in Inputs : InputInv(i)
  BY <1>1 DEF ReadsInv
<1> SUFFICES /\ Current(proc'.doc.read)
             /\ proc'.doc.basis # NoFile =>
                   /\ RestsOnTraining(script) /\ proc'.doc.basis.kind = "doc"
                   /\ Current(proc'.doc.basis.read)
                   /\ \A i \in Inputs : <<i, 2>> \in proc'.doc.basis.read => <<i, 1>> \notin proc'.doc.read
  BY <1>1 DEF ReadInv, Current
<1>4. CASE Does(Here) = <<"load", "report">>
  <2>1. disk.report.kind = "doc" /\ proc'.doc.read = disk.report.read /\ proc'.doc.basis = disk.report.basis
    BY <1>1, <1>2, <1>4, ReadHere
  <2> QED
    BY <2>1 DEF ReadsInv, ReadInv
<1>5. CASE Does(Here) = <<"load", "training">>
  <2>1. /\ disk.training.kind = "doc" /\ proc'.doc.read = proc.doc.read
        /\ proc'.doc.basis = IF proc.doc.basis = NoFile THEN disk.training ELSE proc.doc.basis
    BY <1>1, <1>2, <1>5, ReadHere
  <2>2. Loads(Plan, "training") /\ RestsOnTraining(script)
    BY <1>1, <1>5, LoadsHere DEF RestsOnTraining
  <2>3. CASE proc.doc.basis = NoFile
    BY <2>1, <2>2, <2>3, <1>3 DEF ReadsInv, ReadInv, InputInv
  <2>4. CASE proc.doc.basis # NoFile
    BY <2>1, <2>4, <1>3 DEF ReadInv
  <2> QED
    BY <2>3, <2>4
<1>6. CASE Here.op \in {"pin", "read", "recall"}
  <2>1. proc'.doc.read = proc.doc.read \cup {<<Here.on, inputs[Here.on]>>} /\ proc'.doc.basis = proc.doc.basis
    BY <1>1, <1>2, <1>6, ReadHere
  <2>2. ASSUME NEW i \in Inputs, inputs[i] = 1 \/ Pinned(script, i), Here.on = i
        PROVE  inputs[i] = 1
    <3>1. CASE Here.op = "pin"
      BY <1>1, <2>2, <3>1 DEF Raises
    <3>2. CASE Here.op \in {"read", "recall"}
      BY <1>1, <2>2, <3>2, InputsHere DEF Does
    <3> QED
      BY <1>6, <3>1, <3>2
  <2>3. Current(proc'.doc.read)
    BY <1>3, <2>1, <2>2 DEF ReadInv, Current
  <2>4. ASSUME proc.doc.basis # NoFile, NEW i \in Inputs, <<i, 2>> \in proc.doc.basis.read
        PROVE  <<i, 1>> \notin proc'.doc.read
    <3>1. inputs[i] # 1 /\ <<i, 1>> \notin proc.doc.read
      BY <1>3, <2>4 DEF ReadInv, Current
    <3> QED
      BY <2>1, <3>1
  <2> QED
    BY <1>3, <2>1, <2>3, <2>4 DEF ReadInv
<1>7. CASE Here.op \notin {"pin", "read", "recall", "load"}
  <2>1. proc'.doc.read = proc.doc.read /\ proc'.doc.basis = proc.doc.basis
    BY <1>1, <1>2, <1>7, ReadHere DEF Does
  <2> QED
    BY <1>3, <2>1 DEF ReadInv
<1>8. Here.op = "load" => Does(Here) \in {<<"load", "report">>, <<"load", "training">>}
  BY <1>1, <1>2, ReadHere DEF Documents
<1> QED
  BY <1>4, <1>5, <1>6, <1>7, <1>8

LEMMA BaseAdvance ==
    ASSUME StateInv, ReadsInv, Advance
    PROVE  BaseInv'
<1>1. /\ Running /\ proc.at <= Len(Plan) /\ ~Raises(Here) /\ Plan' = Plan
      /\ UNCHANGED <<script, inputs, ended>>
      /\ \E new, d : StepDone(new, d)
  BY AdvanceEffect
<1>2. PICK new, d : StepDone(new, d)
  BY <1>1
<1>3. proc.at \in Nat \ {0} /\ Here = Plan[proc.at] /\ proc'.at = proc.at + 1
  BY <1>1, <1>2, StepKinds DEF StepDone, Here
<1>4. BaseInv /\ (disk.report.kind = "doc" /\ RestsOnTraining(script) => disk.report.basis # NoFile)
  BY <1>1 DEF ReadsInv
<1>5. ~Done(Plan, proc'.at, Documents) => proc'.doc.basis = NoFile
  <2> SUFFICES ASSUME ~Done(Plan, proc.at + 1, Documents) PROVE proc'.doc.basis = NoFile
    BY <1>3
  <2>1. Does(Here) \notin Documents /\ ~Done(Plan, proc.at, Documents)
    BY <1>3, DoneStep
  <2>2. Here.op # "load"
    BY <1>1, <1>2, <2>1, ReadHere
  <2> QED
    BY <1>1, <1>2, <1>4, <2>1, <2>2, ReadHere DEF BaseInv
<1>6. RestsOnTraining(script) /\ Done(Plan, proc'.at, Documents) => proc'.doc.basis # NoFile
  <2> SUFFICES ASSUME RestsOnTraining(script), Done(Plan, proc.at + 1, Documents) PROVE proc'.doc.basis # NoFile
    BY <1>3
  <2>1. CASE Does(Here) = <<"load", "report">>
    BY <1>1, <1>2, <1>4, <2>1, ReadHere
  <2>2. CASE Does(Here) = <<"load", "training">>
    BY <1>1, <1>2, <2>2, ReadHere DEF NoFile
  <2>3. CASE Does(Here) \notin Documents
    <3>1. Done(Plan, proc.at, Documents) /\ Here.op # "load"
      BY <1>1, <1>2, <1>3, <2>3, DoneStep, ReadHere
    <3> QED
      BY <1>1, <1>2, <1>4, <3>1, ReadHere DEF BaseInv
  <2> QED
    BY <2>1, <2>2, <2>3 DEF Documents
<1>7. ASSUME Done(Plan, proc.at + 1, {<<"load", "training">>})
      PROVE  /\ proc'.base = disk'.training /\ disk'.training.kind = "doc"
             /\ Stands(Plan, proc.at + 1, {<<"basis", "">>}, Documents) => proc'.doc.basis = proc'.base
  <2>1. Does(Here) = <<"load", "training">> \/ Done(Plan, proc.at, {<<"load", "training">>})
    BY <1>3, <1>7, DoneStep
  <2>2. Loads(Plan, "training") /\ disk'.training = disk.training
    BY <1>1, <1>2, <2>1, LoadsHere, ReadHere
  <2>3. proc'.base = disk.training /\ disk.training.kind = "doc"
    BY <1>1, <1>2, <1>4, <2>1, ReadHere DEF BaseInv
  <2>4. ASSUME Stands(Plan, proc.at + 1, {<<"basis", "">>}, Documents) PROVE proc'.doc.basis = disk.training
    <3>1. CASE Does(Here) = <<"basis", "">>
      <4>1. Here.op = "basis" /\ Here.op # "load"
        BY <3>1 DEF Does
      <4>2. proc.doc.basis = disk.training
        BY <1>1, <4>1 DEF Raises
      <4> QED
        BY <1>1, <1>2, <4>1, <4>2, ReadHere
    <3>2. CASE Does(Here) # <<"basis", "">>
      <4>1. Stands(Plan, proc.at, {<<"basis", "">>}, Documents) /\ Does(Here) \notin Documents
        <5>1. proc.at \in Nat \ {0} /\ Stands(Plan, proc.at + 1, {<<"basis", "">>}, Documents) /\ Does(Plan[proc.at]) \notin {<<"basis", "">>}
          BY <1>3, <2>4, <3>2
        <5>2. Stands(Plan, proc.at, {<<"basis", "">>}, Documents) /\ Does(Plan[proc.at]) \notin Documents
          BY <5>1, StandsStep
        <5> QED
          BY <5>2, <1>3
      <4>2. Here.op # "load" /\ Done(Plan, proc.at, {<<"load", "training">>})
        BY <1>1, <1>2, <2>1, <4>1, ReadHere DEF Documents
      <4>3. proc.doc.basis = disk.training
        BY <1>4, <4>1, <4>2 DEF BaseInv
      <4> QED
        BY <1>1, <1>2, <4>2, <4>3, ReadHere
    <3> QED
      BY <3>1, <3>2
  <2> QED
    BY <2>2, <2>3, <2>4
<1> QED
  BY <1>1, <1>3, <1>5, <1>6, <1>7 DEF BaseInv

LEMMA InputAdvance ==
    ASSUME StateInv, ReadsInv, Advance, NEW i \in Inputs
    PROVE  InputInv(i)'
<1>1. /\ Running /\ proc.at <= Len(Plan) /\ ~Raises(Here) /\ Plan' = Plan
      /\ UNCHANGED <<script, inputs, ended>>
      /\ \E new, d : StepDone(new, d)
  BY AdvanceEffect
<1>2. PICK new, d : StepDone(new, d)
  BY <1>1
<1>3. /\ proc.at \in Nat \ {0} /\ Here = Plan[proc.at] /\ proc'.at = proc.at + 1
      /\ Does(Here) = <<Here.op, Here.on>> /\ inputs[i] \in Versions
  BY <1>1, <1>2, StepKinds DEF StepDone, Here, Does, StateInv
<1>4. InputInv(i) /\ BaseInv /\ ReadInv(proc.doc) /\ (disk.training.kind = "doc" => Current(disk.training.read))
  BY <1>1 DEF ReadsInv
<1>5. Does(Here) \notin Reading(i) /\ Does(Here) # <<"load", "report">>
        => \A v \in Versions : <<i, v>> \in proc'.doc.read <=> <<i, v>> \in proc.doc.read
  BY <1>1, <1>2, <1>3, ReadHere DEF Reading
<1>6. Does(Here) \in Reading(i) => proc'.doc.read = proc.doc.read \cup {<<i, inputs[i]>>} /\ proc'.doc.basis = proc.doc.basis
                                   /\ proc'.base = proc.base
  BY <1>1, <1>2, <1>3, ReadHere DEF Reading
<1>7. Does(Here) \notin Anew(i) => /\ ReadBefore(proc'.doc, i) = ReadBefore(proc.doc, i)
                                   /\ proc'.doc.basis = proc.doc.basis /\ proc'.base = proc.base
  <2> SUFFICES ASSUME Does(Here) \notin Anew(i)
               PROVE  /\ ReadBefore(proc'.doc, i) = ReadBefore(proc.doc, i)
                      /\ proc'.doc.basis = proc.doc.basis /\ proc'.base = proc.base
    OBVIOUS
  <2>1. Does(Here) \notin Reading(i) /\ Does(Here) \notin Documents
    BY DEF Anew, Documents
  <2>2. Here.op # "load" /\ Does(Here) # <<"load", "report">> /\ Does(Here) # <<"load", "training">>
    BY <1>1, <1>2, <2>1, ReadHere DEF Documents
  <2>3. ReadBefore(proc'.doc, i) = ReadBefore(proc.doc, i)
    BY <1>5, <2>1, <2>2 DEF ReadBefore
  <2> QED
    BY <1>1, <1>2, <2>2, <2>3, ReadHere
<1>8. ASSUME Done(Plan, proc.at + 1, {<<"load", "training">>}), Stands(Plan, proc.at + 1, {<<"recall", i>>}, Anew(i))
      PROVE  \E v \in Versions : /\ ReadBefore(proc'.base, i) = {v}
                                 /\ proc'.doc.basis = proc'.base => ReadBefore(proc'.doc, i) \subseteq {v}
  <2>1. CASE Does(Here) = <<"recall", i>>
    <3>1. Does(Here) \in Reading(i) /\ Does(Here) # <<"load", "training">> /\ Here.op = "recall" /\ Here.on = i
      BY <1>3, <2>1 DEF Reading
    <3>2. Done(Plan, proc.at, {<<"load", "training">>})
      BY <1>3, <1>8, <3>1, DoneStep
    <3>3. proc.base = disk.training /\ disk.training.kind = "doc"
      BY <1>4, <3>2 DEF BaseInv
    <3>4. ReadBefore(proc.base, i) = {inputs[i]}
      BY <1>1, <3>1 DEF Raises
    <3>5. ASSUME proc.doc.basis = proc.base PROVE ReadBefore(proc'.doc, i) \subseteq {inputs[i]}
      <4>1. inputs[i] = 1 => <<i, 2>> \notin proc.doc.read
        BY <1>4 DEF ReadInv, Current
      <4>2. inputs[i] = 2 => <<i, 2>> \in proc.doc.basis.read
        BY <3>4, <3>5 DEF ReadBefore
      <4>3. inputs[i] = 2 => <<i, 1>> \notin proc.doc.read
        BY <1>4, <3>3, <3>5, <4>2 DEF ReadInv, NoFile
      <4> QED
        BY <1>3, <1>6, <3>1, <4>1, <4>3 DEF ReadBefore, Versions
    <3> QED
      BY <1>3, <1>6, <3>1, <3>4, <3>5
  <2>2. CASE Does(Here) # <<"recall", i>>
    <3>1. Stands(Plan, proc.at, {<<"recall", i>>}, Anew(i)) /\ Does(Here) \notin Anew(i)
      <4>1. proc.at \in Nat \ {0} /\ Stands(Plan, proc.at + 1, {<<"recall", i>>}, Anew(i)) /\ Does(Plan[proc.at]) \notin {<<"recall", i>>}
        BY <1>3, <1>8, <2>2
      <4>2. Stands(Plan, proc.at, {<<"recall", i>>}, Anew(i)) /\ Does(Plan[proc.at]) \notin Anew(i)
        BY <4>1, StandsStep
      <4> QED
        BY <4>2, <1>3
    <3>2. Done(Plan, proc.at, {<<"load", "training">>})
      BY <1>3, <1>8, <3>1, DoneStep DEF Anew
    <3> QED
      BY <1>4, <1>7, <3>1, <3>2 DEF InputInv
  <2> QED
    BY <2>1, <2>2
<1>9. ASSUME Stands(Plan, proc.at + 1, {<<"again", i>>}, Anew(i))
      PROVE  \E v \in Versions : ReadBefore(proc'.doc, i) \subseteq {v}
  <2>1. CASE Does(Here) = <<"again", i>>
    <3>1. Here.op = "again" /\ Here.on = i /\ Does(Here) \notin Anew(i)
      BY <1>3, <2>1 DEF Anew, Reading
    <3>2. ReadBefore(proc.doc, i) = {inputs[i]}
      BY <1>1, <3>1 DEF Raises
    <3> QED
      BY <1>3, <1>7, <3>1, <3>2
  <2>2. CASE Does(Here) # <<"again", i>>
    <3>1. Stands(Plan, proc.at, {<<"again", i>>}, Anew(i)) /\ Does(Here) \notin Anew(i)
      <4>1. proc.at \in Nat \ {0} /\ Stands(Plan, proc.at + 1, {<<"again", i>>}, Anew(i)) /\ Does(Plan[proc.at]) \notin {<<"again", i>>}
        BY <1>3, <1>9, <2>2
      <4>2. Stands(Plan, proc.at, {<<"again", i>>}, Anew(i)) /\ Does(Plan[proc.at]) \notin Anew(i)
        BY <4>1, StandsStep
      <4> QED
        BY <4>2, <1>3
    <3> QED
      BY <1>4, <1>7, <3>1 DEF InputInv
  <2> QED
    BY <2>1, <2>2
<1>10. ASSUME ReadOnce(Plan, i)
       PROVE  /\ \E v \in Versions : ReadBefore(proc'.doc, i) \subseteq {v}
              /\ ~Done(Plan, proc.at + 1, Reading(i)) => ReadBefore(proc'.doc, i) = {}
  <2>1. Does(Here) \notin Documents
    BY <1>1, <1>10, LoadsHere DEF ReadOnce, Documents
  <2>2. /\ \E v \in Versions : ReadBefore(proc.doc, i) \subseteq {v}
        /\ ~Done(Plan, proc.at, Reading(i)) => ReadBefore(proc.doc, i) = {}
    BY <1>4, <1>10 DEF InputInv
  <2>3. CASE Does(Here) \in Reading(i)
    <3>1. ~Done(Plan, proc.at, Reading(i))
      <4> SUFFICES ASSUME NEW j \in 1..(proc.at - 1), Does(Plan[j]) \in Reading(i) PROVE FALSE
        BY DEF Done
      <4>1. proc.at \in DOMAIN Plan /\ Plan \in Seq(Steps)
        BY <1>1, StepKinds
      <4>2. j \in DOMAIN Plan
        BY <4>1
      <4>3. j = proc.at
        BY <1>3, <1>10, <2>3, <4>1, <4>2 DEF ReadOnce
      <4> QED
        BY <1>3, <4>3
    <3>2. Done(Plan, proc.at + 1, Reading(i))
      BY <1>3, <2>3, DoneStep
    <3>3. ReadBefore(proc'.doc, i) \subseteq {inputs[i]}
      BY <1>6, <2>2, <2>3, <3>1 DEF ReadBefore
    <3> QED
      BY <1>3, <3>2, <3>3
  <2>4. CASE Does(Here) \notin Reading(i)
    <3>1. Does(Here) \notin Anew(i)
      BY <2>1, <2>4 DEF Anew, Documents
    <3>2. ~Done(Plan, proc.at + 1, Reading(i)) => ~Done(Plan, proc.at, Reading(i))
      BY <1>3, DoneStep
    <3> QED
      BY <1>7, <2>2, <3>1, <3>2
  <2> QED
    BY <2>3, <2>4
<1>11. ASSUME Loads(Plan, "training"), proc'.doc.basis = NoFile, disk'.training.kind = "doc", <<i, 2>> \in disk'.training.read
       PROVE  <<i, 1>> \notin proc'.doc.read
  <2>1. disk'.training = disk.training
    BY <1>1, <1>2, <1>11, ReadHere
  <2>2. RestsOnTraining(script)
    BY <1>1, <1>11, StepKinds DEF RestsOnTraining, Plan
  <2>3. Does(Here) # <<"load", "report">>
    BY <1>1, <1>2, <1>11, <2>2, ReadHere DEF ReadsInv
  <2>4. Does(Here) # <<"load", "training">>
    BY <1>1, <1>2, <1>11, ReadHere DEF NoFile
  <2>5. proc.doc.basis = NoFile
    <3>1. Here.op # "load"
      BY <1>1, <1>2, <2>3, <2>4, ReadHere DEF Documents
    <3> QED
      BY <1>1, <1>2, <1>11, <3>1, ReadHere
  <2>6. inputs[i] # 1 /\ <<i, 1>> \notin proc.doc.read
    BY <1>4, <1>11, <2>1, <2>5 DEF InputInv, Current
  <2>7. CASE Does(Here) \in Reading(i)
    BY <1>6, <2>6, <2>7
  <2>8. CASE Does(Here) \notin Reading(i)
    BY <1>5, <2>3, <2>6, <2>8 DEF Versions
  <2> QED
    BY <2>7, <2>8
<1>12. ReadBefore(proc'.doc, i) = ReadBefore(proc.doc, i)' /\ ReadBefore(proc'.base, i) = ReadBefore(proc.base, i)'
  BY DEF ReadBefore
<1> QED
  BY <1>1, <1>3, <1>8, <1>9, <1>10, <1>11, <1>12 DEF InputInv

LEMMA ReadsAdvance ==
    ASSUME StateInv, ReadsInv, Advance
    PROVE  ReadsInv'
<1>1. /\ Running /\ proc.at <= Len(Plan) /\ ~Raises(Here) /\ Plan' = Plan
      /\ UNCHANGED <<script, inputs, ended>>
      /\ \E new, d : StepDone(new, d)
  BY AdvanceEffect
<1>2. PICK new, d : StepDone(new, d)
  BY <1>1
<1>3. ReadInv(proc.doc) /\ BaseInv
  BY <1>1 DEF ReadsInv
<1>4. disk'.training.kind = "doc" => Current(disk'.training.read)
  BY <1>2, <1>3 DEF StepDone, ReadsInv, ReadInv
<1>5. disk'.report.kind = "doc" => ReadInv(disk'.report) /\ (RestsOnTraining(script) => disk'.report.basis # NoFile)
  <2>1. CASE Does(Here) \notin {<<"save", "report">>, <<"rewrite", "report">>}
    BY <1>2, <2>1 DEF StepDone, ReadsInv
  <2>2. CASE Does(Here) \in {<<"save", "report">>, <<"rewrite", "report">>}
    <3>1. disk'.report = proc.doc
      BY <1>2, <2>2 DEF StepDone
    <3>2. RestsOnTraining(script) => proc.doc.basis # NoFile
      BY <1>1, <1>3, <2>2, InputsHere DEF BaseInv
    <3> QED
      BY <1>3, <3>1, <3>2
  <2> QED
    BY <2>1, <2>2
<1>6. /\ Current(disk'.training.read) = Current(disk.training.read)'
      /\ ReadInv(disk'.report) = ReadInv(disk.report)'
  BY <1>1 DEF Current, ReadInv
<1> QED
  BY <1>1, <1>4, <1>5, <1>6, DocReadsOn, BaseAdvance, InputAdvance DEF ReadsInv

(* The next process starts with nothing in hand. *)
LEMMA HonestStart ==
    ASSUME StateInv, FlawsInv, ReadsInv, Start
    PROVE  FlawsInv' /\ ReadsInv'
<1>1. /\ UNCHANGED <<script, inputs, disk>> /\ proc'.at = 1 /\ proc'.doc = Blank /\ proc'.flaws = {}
  BY StartEffect
<1>2. /\ proc'.doc.truth = {} /\ proc'.doc.read = {} /\ proc'.doc.basis = NoFile /\ ~proc'.doc.sealed
  BY <1>1 DEF Blank
<1>3. \A plan, makes, breaks : ~Stands(plan, proc'.at, makes, breaks) /\ ~Done(plan, proc'.at, makes)
  BY <1>1, NothingDone
<1>4. Hidden(proc.doc)' = {} /\ BasisInv(proc.doc)' /\ ReadInv(proc.doc)'
  BY <1>2 DEF Hidden, BasisInv, ReadInv, Current
<1>5. /\ Hidden(disk.report)' = Hidden(disk.report) /\ BasisInv(disk.report)' = BasisInv(disk.report)
      /\ Current(disk.training.read)' = Current(disk.training.read) /\ ReadInv(disk.report)' = ReadInv(disk.report)
  BY <1>1 DEF Hidden, BasisInv, Current, ReadInv
<1>6. FlawsInv'
  BY <1>1, <1>2, <1>3, <1>4, <1>5 DEF FlawsInv
<1>7. BaseInv'
  BY <1>2, <1>3 DEF BaseInv
<1>8. \A i \in Inputs : InputInv(i)'
  <2>1. \A i \in Inputs : ReadBefore(proc.doc, i)' = {}
    BY <1>2 DEF ReadBefore
  <2>2. 1 \in Versions
    BY DEF Versions
  <2> QED
    BY <1>2, <1>3, <2>1, <2>2 DEF InputInv
<1> QED
  BY <1>1, <1>4, <1>5, <1>6, <1>7, <1>8 DEF ReadsInv

LEMMA HonestEnd ==
    ASSUME StateInv, FlawsInv, ReadsInv, Raise \/ Finish \/ Crash
    PROVE  FlawsInv' /\ ReadsInv'
<1>1. /\ UNCHANGED <<script, inputs>> /\ proc'.doc = Blank /\ ~Running'
      /\ disk'.training = disk.training \/ disk'.training = TornFile
      /\ disk'.report = disk.report \/ disk'.report = TornFile
  BY EndEffect
<1>2. ReadInv(proc.doc)' /\ TornFile.kind # "doc"
  BY <1>1 DEF ReadInv, Current, Blank, TornFile
<1>3. /\ disk'.report = disk.report =>
            /\ Hidden(disk.report)' = Hidden(disk.report) /\ BasisInv(disk.report)' = BasisInv(disk.report)
            /\ ReadInv(disk.report)' = ReadInv(disk.report)
      /\ disk'.training = disk.training => Current(disk.training.read)' = Current(disk.training.read)
  BY <1>1 DEF Hidden, BasisInv, Current, ReadInv
<1> QED
  BY <1>1, <1>2, <1>3 DEF FlawsInv, ReadsInv

LEMMA HonestEdit ==
    ASSUME StateInv, FlawsInv, ReadsInv, Edit
    PROVE  FlawsInv' /\ ReadsInv'
<1>1. /\ UNCHANGED <<script, disk, proc, ended>>
      /\ \A i \in Inputs : inputs'[i] = inputs[i] \/ (inputs[i] = 1 /\ inputs'[i] = 2)
  BY EditEffect
<1>2. \A read : Current(read) => \A i \in Inputs : inputs'[i] = 1 \/ Pinned(script, i) => <<i, 2>> \notin read
  BY <1>1 DEF Current
<1>3. /\ Current(disk.training.read) => Current(disk.training.read)'
      /\ ReadInv(disk.report) => ReadInv(disk.report)'
      /\ ReadInv(proc.doc) => ReadInv(proc.doc)'
  BY <1>1, <1>2 DEF Current, ReadInv
<1>4. FlawsInv'
  BY <1>1 DEF FlawsInv, Hidden, BasisInv, Running, Plan
<1>5. (Running => BaseInv /\ \A i \in Inputs : InputInv(i))'
  BY <1>1 DEF ReadsInv, BaseInv, InputInv, ReadBefore, Running, Plan
<1> QED
  BY <1>1, <1>3, <1>4, <1>5 DEF ReadsInv

(* ------------------- a process reaches its end ------------------------- *)
LEMMA NothingHidden ==
    ASSUME StateInv, FlawsInv, Running, proc.at = AtEnd(Plan)
    PROVE  /\ proc.doc.truth \cap Vouches[script] \subseteq proc.doc.told
           /\ proc.doc.basis # NoFile => proc.doc.basis.truth \cap Vouches[script] = {}
<1>1. proc.phase \in DOMAIN Plans[script] /\ Plan = Plans[script][proc.phase]
  BY DEF StateInv, Running, Plan
<1>2. FlawsInOrder(script)
  BY ScriptsKeepOrder DEF StateInv
<1>3. \A f \in Vouches[script] : f \notin proc.flaws \/ f \in proc.doc.told
  <2>1. \A f \in Vouches[script] : Settled(Plan, proc.at, f, {"check", "note"})
    BY <1>1, <1>2 DEF FlawsInOrder
  <2> QED
    BY <2>1 DEF FlawsInv
<1>4. CASE Hidden(proc.doc) \subseteq proc.flaws
  BY <1>3, <1>4 DEF Hidden, FlawsInv, BasisInv
<1>5. CASE ~proc.doc.sealed /\ RefusesUnfinished(script) /\ Loads(Plan, "report")
  <2>1. Stands(Plan, proc.at, {<<"whole", "">>, <<"finished", "">>}, {<<"load", "report">>})
    BY <1>1, <1>5 DEF RefusesUnfinished
  <2> QED
    BY <1>5, <2>1 DEF FlawsInv
<1>6. CASE ~Loads(Plan, "report")
  <2>1. proc.doc.truth \subseteq proc.flaws
    BY <1>6 DEF FlawsInv, Loads
  <2> QED
    BY <1>4, <2>1 DEF Hidden
<1> QED
  BY <1>4, <1>5, <1>6 DEF FlawsInv

LEMMA OneVersion ==
    ASSUME StateInv, ReadsInv, Running, proc.at = AtEnd(Plan), script \notin DigestsLate, NEW i \in Inputs
    PROVE  \E v \in Versions : /\ ReadBefore(proc.doc, i) \subseteq {v}
                               /\ proc.doc.basis # NoFile => ReadBefore(proc.doc.basis, i) \subseteq {v}
<1>1. proc.phase \in DOMAIN Plans[script] /\ Plan = Plans[script][proc.phase]
  BY DEF StateInv, Running, Plan
<1>2. Pinned(script, i) \/ ReadAgain(script, Plan, i) \/ ReadOnce(Plan, i) \/ ReadAsTrained(Plan, i)
  BY <1>1, ScriptsKeepOrder DEF StateInv, InputsInOrder
<1>3. ReadInv(proc.doc) /\ BaseInv /\ InputInv(i)
  BY DEF ReadsInv
<1>4. CASE Pinned(script, i)
  <2>1. <<i, 2>> \notin proc.doc.read /\ (proc.doc.basis # NoFile => <<i, 2>> \notin proc.doc.basis.read)
    BY <1>3, <1>4 DEF ReadInv, Current
  <2> QED
    BY <2>1 DEF ReadBefore, Versions
<1>5. CASE ReadAgain(script, Plan, i)
  <2>1. proc.doc.basis = NoFile
    BY <1>3, <1>5 DEF ReadAgain, ReadInv
  <2> QED
    BY <1>3, <1>5, <2>1 DEF ReadAgain, InputInv
<1>6. CASE ReadOnce(Plan, i)
  <2>1. ~Done(Plan, proc.at, Documents)
    BY <1>6 DEF ReadOnce, Loads, Done, Documents
  <2>2. proc.doc.basis = NoFile
    BY <1>3, <2>1 DEF BaseInv
  <2> QED
    BY <1>3, <1>6, <2>2 DEF InputInv
<1>7. CASE ReadAsTrained(Plan, i)
  <2>1. /\ Done(Plan, proc.at, {<<"load", "training">>})
        /\ Stands(Plan, proc.at, {<<"recall", i>>}, Anew(i))
        /\ Stands(Plan, proc.at, {<<"basis", "">>}, Documents)
    BY <1>7 DEF ReadAsTrained, Loads, Documents
  <2>2. proc.doc.basis = proc.base
    BY <1>3, <2>1 DEF BaseInv
  <2> QED
    BY <1>3, <2>1, <2>2 DEF InputInv
<1> QED
  BY <1>2, <1>4, <1>5, <1>6, <1>7

LEMMA HonestFinish ==
    ASSUME StateInv, FlawsInv, ReadsInv, Running, proc.at = AtEnd(Plan),
           UNCHANGED script, ended'.doc = proc.doc
    PROVE  ReportHidesNothing'
<1>1. Evidence' = {proc.doc} \cup (IF proc.doc.basis = NoFile THEN {} ELSE {proc.doc.basis})
  BY DEF Evidence
<1>2. \A d \in Evidence' : d.truth \cap Vouches[script] \subseteq proc.doc.told
  BY <1>1, NothingHidden
<1>3. ASSUME script \notin DigestsLate, NEW i \in Inputs
      PROVE  Cardinality(UNION {ReadBefore(d, i) : d \in Evidence'}) <= 1
  <2> DEFINE S == UNION {ReadBefore(d, i) : d \in Evidence'}
  <2>1. PICK v \in Versions : /\ ReadBefore(proc.doc, i) \subseteq {v}
                              /\ proc.doc.basis # NoFile => ReadBefore(proc.doc.basis, i) \subseteq {v}
    BY <1>3, OneVersion
  <2>2. S \subseteq {v}
    BY <1>1, <2>1
  <2>3. S = {} \/ S = {v}
    BY <2>2
  <2>4. Cardinality({}) = 0 /\ Cardinality({v}) = 1
    BY FS_EmptySet, FS_Singleton
  <2> QED
    BY <2>3, <2>4
<1> QED
  BY <1>1, <1>2, <1>3 DEF ReportHidesNothing, ReadBefore

(* A report that was finished leaves no flaw untold that its script is     *)
(* written to notice, in its own work or in the training it rests on, and  *)
(* all of that work was done on one version of every input.                *)
THEOREM NothingEverHidden == ExperimentSpec => []ReportHidesNothing
<1> DEFINE Inv == StateInv /\ FlawsInv /\ ReadsInv /\ ReportHidesNothing
<1>1. ExperimentInit => Inv
  <2> SUFFICES ASSUME ExperimentInit PROVE FlawsInv /\ ReadsInv /\ ReportHidesNothing
    BY StateInit
  <2>1. proc.doc = Blank /\ ~Running /\ disk.report.kind # "doc" /\ disk.training.kind # "doc" /\ ~Passed
    BY DEF ExperimentInit, Idle, Running, NoFile, Passed
  <2>2. proc.doc.read = {} /\ proc.doc.basis = NoFile
    BY <2>1 DEF Blank
  <2>3. ReadInv(proc.doc)
    BY <2>2 DEF ReadInv, Current
  <2> QED
    BY <2>1, <2>3 DEF FlawsInv, ReadsInv, ReportHidesNothing
<1>2. Inv /\ [ExperimentNext]_vars => Inv'
  <2> SUFFICES ASSUME Inv, [ExperimentNext]_vars PROVE Inv'
    OBVIOUS
  <2>1. CASE Start
    BY <2>1, StartEffect, HonestStart DEF ReportHidesNothing, Passed
  <2>2. CASE Edit
    <3>1. UNCHANGED <<script, disk, proc, ended>> /\ StateInv' /\ FlawsInv' /\ ReadsInv'
      BY <2>2, EditEffect, HonestEdit
    <3> QED
      BY <3>1 DEF ReportHidesNothing, Passed, Evidence, ReadBefore
  <2>3. CASE Advance
    <3>1. StateInv' /\ ended' = ended /\ Running
      BY <2>3, AdvanceEffect
    <3>2. ~Passed'
      BY <3>1 DEF Passed, StateInv
    <3> QED
      BY <2>3, <3>1, <3>2, FlawsAdvance, ReadsAdvance DEF ReportHidesNothing
  <2>4. CASE Raise \/ Finish \/ Crash
    <3>1. StateInv' /\ FlawsInv' /\ ReadsInv'
      BY <2>4, EndEffect, HonestEnd
    <3>2. ReportHidesNothing'
      <4> SUFFICES ASSUME Passed' PROVE ReportHidesNothing'
        BY DEF ReportHidesNothing
      <4>1. /\ Running /\ proc.at = AtEnd(Plan) /\ UNCHANGED script /\ ended'.doc = proc.doc
        BY <2>4, EndEffect DEF Passed
      <4> QED
        BY <4>1, HonestFinish
    <3> QED
      BY <3>1, <3>2
  <2>5. CASE UNCHANGED vars
    <3>1. StateInv'
      BY <2>5 DEF vars, StateInv, Running, Plan, Arms, IsDoc
    <3>2. FlawsInv'
      BY <2>5 DEF vars, FlawsInv, Hidden, BasisInv, Running, Plan
    <3>3. (\A i \in Inputs : InputInv(i))' = (\A i \in Inputs : InputInv(i)) /\ BaseInv' = BaseInv
      BY <2>5 DEF vars, BaseInv, InputInv, ReadBefore, Plan
    <3>4. ReadsInv'
      BY <2>5, <3>3 DEF vars, ReadsInv, ReadInv, Current, Running
    <3>5. ReportHidesNothing'
      BY <2>5 DEF vars, ReportHidesNothing, Passed, Evidence, ReadBefore
    <3> QED
      BY <3>1, <3>2, <3>4, <3>5
  <2> QED
    BY <2>1, <2>2, <2>3, <2>4, <2>5 DEF ExperimentNext
<1> QED
  BY <1>1, <1>2, PTL DEF ExperimentSpec

(* --------------------- the causes of a refusal ------------------------- *)
Train == Plans[script][1]
Final == Plans[script][Writer(script)]

(* What the steps behind the document in hand leave in it.                 *)
DocKnows ==
    /\ proc.doc.told \subseteq proc.flaws
    /\ \A a \in Arms : Known(script, proc.phase, proc.at, Naming(a)) => a \in DOMAIN proc.doc.models
    /\ Known(script, proc.phase, proc.at, {<<"seal", "">>}) => proc.doc.sealed
    /\ \A i \in Inputs : Known(script, proc.phase, proc.at, Reading(i)) => ReadBefore(proc.doc, i) # {}

(* What is in the report once the process that writes it has come to place k. *)
ReportKnows(k) ==
    /\ disk.report.told = {} /\ disk.report.truth = {}
    /\ \A a \in Arms : Written(Final, k, "report", Naming(a)) => a \in DOMAIN disk.report.models
    /\ Written(Final, k, "report", {<<"seal", "">>}) => disk.report.sealed
    /\ \A i \in Inputs : Written(Final, k, "report", Reading(i)) => ReadBefore(disk.report, i) # {}

Reporting == Running /\ proc.phase = Writer(script) /\ Done(Plan, proc.at, Writing("report"))

(* The training there is if nobody disturbs it: the models and the record. *)
TrainedOn == ReadsBy(Train, AtEnd(Train))
Made(a) == [kind |-> "model", arm |-> a, read |-> TrainedOn, runtime |-> 1]
Record == [kind |-> "doc", models |-> [a \in Arms |-> Made(a)], read |-> TrainedOn, truth |-> {},
           told |-> {}, sealed |-> TRUE, basis |-> NoFile]

(* Every process that trains comes by the same models and the same record. *)
TrainingInv ==
    /\ proc.doc.basis = NoFile
    /\ proc.doc.models = [a \in {b \in Arms : Done(Plan, proc.at, {<<"enter", b>>})} |-> Made(a)]
    /\ proc.doc.read = ReadsBy(Plan, proc.at)
    /\ Done(Plan, proc.at, {<<"seal", "">>}) => proc.doc.sealed = TRUE
    /\ Stands(Plan, proc.at, Writing("training"), Altering) => disk.training = proc.doc
    /\ \A a \in Arms : /\ Done(Plan, proc.at, {<<"fit", a>>}) => a \in DOMAIN proc.fitted /\ proc.fitted[a] = Made(a)
                       /\ Done(Plan, proc.at, {<<"put", a>>}) => disk.models[a] = Made(a)

(* A training record that is there is whole, unless it is under way, and a *)
(* report rests on it.                                                     *)
RecordInv ==
    /\ disk.training.kind = "doc" /\ ~(Running /\ proc.phase = 1) =>
          disk.training = Record /\ \A a \in Arms : disk.models[a] = Made(a)
    /\ disk.report.kind = "doc" =>
          disk.report.basis = Record /\ \A a \in Arms \cap DOMAIN disk.report.models : disk.report.models[a] = Made(a)
    /\ Running /\ proc.phase # 1 =>
          /\ Done(Plan, proc.at, {<<"load", "training">>}) => proc.base = Record /\ disk.training = Record
          /\ Done(Plan, proc.at, Documents) => proc.doc.basis = Record
          /\ ~Done(Plan, proc.at, Documents) => proc.doc.basis = NoFile
          /\ \A a \in Arms \cap DOMAIN proc.doc.models : proc.doc.models[a] = Made(a)
    /\ Running /\ proc.phase = 1 => TrainingInv

(* The models a report names, where a later process compares the files.    *)
Holds == ~RestsOnTraining(script) /\ Stands(Train, AtEnd(Train), Writing("report"), Renamed(Arms))
HeldInv ==
    /\ disk.report.kind = "doc" /\ ~(Running /\ proc.phase = 1)
          => \A a \in DOMAIN disk.report.models : disk.models[a] = disk.report.models[a]
    /\ Running /\ proc.phase = 1 /\ Stands(Plan, proc.at, Writing("report"), Renamed(Arms))
          => disk.report.models = proc.doc.models
    /\ Running /\ proc.phase # 1 /\ Done(Plan, proc.at, {<<"load", "report">>})
          => disk.report.kind = "doc" /\ proc.doc.models = disk.report.models

(* As long as nothing went wrong, nobody was killed and nobody edited.     *)
CalmInv ==
    /\ \A i \in Inputs : inputs[i] = 1
    /\ disk.training.kind = "doc" \/ disk.training = NoFile
    /\ disk.report.kind = "doc" \/ disk.report = NoFile
    /\ Running => proc.flaws = {} /\ proc.runtime = 1 /\ proc.doc.truth = {} /\ proc.doc.told = {}
    /\ disk.report.kind = "doc" => ReportKnows(IF Reporting THEN proc.at ELSE AtEnd(Final))
    /\ RestsOnTraining(script) => RecordInv
    /\ Holds => HeldInv

LeftInv ==
    /\ left = [starts |-> left.starts, crashes |-> left.crashes, edits |-> left.edits, flaws |-> left.flaws]
    /\ left.crashes \in 0..MaxCrashes /\ left.edits \in 0..MaxEdits /\ left.flaws \in 0..MaxFlaws

CauseInv ==
    /\ LeftInv
    /\ Running => ended.as = "nothing"
    /\ Running /\ (proc.phase = 1 \/ Undisturbed) => DocKnows
    /\ Undisturbed => CalmInv
    /\ RaisedForCause

(* What was never spent was not spent on this step either.                 *)
LEMMA StillCalm ==
    ASSUME LeftInv, ExperimentNext
    PROVE  /\ LeftInv'
           /\ Undisturbed' => Undisturbed
           /\ Edit \/ Crash => ~Undisturbed'
           /\ Advance /\ Undisturbed' => proc'.flaws = proc.flaws
           /\ Start /\ Undisturbed' => proc'.runtime = 1
<1>0. MaxCrashes \in Nat /\ MaxEdits \in Nat /\ MaxFlaws \in Nat
  BY ExperimentConstants
<1>1. ASSUME Start PROVE LeftInv' /\ (Undisturbed' => Undisturbed /\ proc'.runtime = 1)
  <2>1. PICK p \in DOMAIN Plans[script], r \in Versions :
           /\ r = 2 => left.edits > 0
           /\ left' = [left EXCEPT !.starts = @ - 1, !.edits = @ - (r - 1)]
           /\ proc' = [Idle EXCEPT !.phase = p, !.runtime = r]
    BY <1>1 DEF Start
  <2>2. /\ left' = [starts |-> left'.starts, crashes |-> left'.crashes, edits |-> left'.edits, flaws |-> left'.flaws]
        /\ left'.crashes = left.crashes /\ left'.flaws = left.flaws /\ left'.edits = left.edits - (r - 1)
    BY <2>1 DEF LeftInv
  <2>3. r \in {1, 2} /\ proc'.runtime = r
    BY <2>1 DEF Versions, Idle
  <2> QED
    BY <1>0, <2>1, <2>2, <2>3 DEF LeftInv, Undisturbed
<1>2. ASSUME Edit PROVE LeftInv' /\ ~Undisturbed'
  <2>1. left.edits > 0 /\ left' = [left EXCEPT !.edits = @ - 1]
    BY <1>2 DEF Edit, Spend
  <2>2. /\ left' = [starts |-> left'.starts, crashes |-> left'.crashes, edits |-> left'.edits, flaws |-> left'.flaws]
        /\ left'.crashes = left.crashes /\ left'.flaws = left.flaws /\ left'.edits = left.edits - 1
    BY <2>1 DEF LeftInv
  <2> QED
    BY <1>0, <2>1, <2>2 DEF LeftInv, Undisturbed
<1>3. ASSUME Advance PROVE LeftInv' /\ (Undisturbed' => Undisturbed /\ proc'.flaws = proc.flaws)
  <2>1. PICK new \in Outcomes(Here) :
          /\ left' = [left EXCEPT !.flaws = @ - Cardinality(new)]
          /\ proc'.flaws = proc.flaws \cup new
    BY <1>3 DEF Advance
  <2>2. new = {} \/ (left.flaws > 0 /\ \E f : new = {f})
    BY <2>1 DEF Outcomes
  <2>3. Cardinality(new) = IF new = {} THEN 0 ELSE 1
    BY <2>2, FS_EmptySet, FS_Singleton
  <2>4. /\ left' = [starts |-> left'.starts, crashes |-> left'.crashes, edits |-> left'.edits, flaws |-> left'.flaws]
        /\ left'.crashes = left.crashes /\ left'.edits = left.edits /\ left'.flaws = left.flaws - Cardinality(new)
    BY <2>1 DEF LeftInv
  <2>5. LeftInv' /\ (Undisturbed' => Undisturbed /\ new = {})
    BY <1>0, <2>2, <2>3, <2>4 DEF LeftInv, Undisturbed
  <2> QED
    BY <2>1, <2>5
<1>4. ASSUME Raise \/ Finish PROVE LeftInv' /\ (Undisturbed' => Undisturbed)
  <2>1. left' = left
    BY <1>4 DEF Raise, Finish
  <2> QED
    BY <2>1 DEF LeftInv, Undisturbed
<1>5. ASSUME Crash PROVE LeftInv' /\ ~Undisturbed'
  <2>1. left.crashes > 0 /\ left' = [left EXCEPT !.crashes = @ - 1]
    BY <1>5 DEF Crash, Spend
  <2>2. /\ left' = [starts |-> left'.starts, crashes |-> left'.crashes, edits |-> left'.edits, flaws |-> left'.flaws]
        /\ left'.edits = left.edits /\ left'.flaws = left.flaws /\ left'.crashes = left.crashes - 1
    BY <2>1 DEF LeftInv
  <2> QED
    BY <1>0, <2>1, <2>2 DEF LeftInv, Undisturbed
<1> QED
  BY <1>1, <1>2, <1>3, <1>4, <1>5 DEF ExperimentNext

LEMMA WrittenStep ==
    ASSUME NEW plan, NEW k \in Nat \ {0}, NEW f, NEW makes
    PROVE  Written(plan, k + 1, f, makes)
              <=> Written(plan, k, f, makes) \/ (Does(plan[k]) \in Writing(f) /\ Done(plan, k, makes))
<1>1. 1..((k + 1) - 1) = 1..(k - 1) \cup {k}
  OBVIOUS
<1> QED
  BY <1>1 DEF Written

LEMMA WrittenDone ==
    ASSUME NEW plan, NEW k \in Nat \ {0}, NEW f, NEW makes, Written(plan, k, f, makes)
    PROVE  Done(plan, k, Writing(f)) /\ Done(plan, k, makes)
<1>1. PICK m \in 1..(k - 1) : Does(plan[m]) \in Writing(f) /\ Done(plan, m, makes)
  BY DEF Written
<1>2. Done(plan, k, Writing(f))
  BY <1>1 DEF Done
<1>3. PICK j \in 1..(m - 1) : Does(plan[j]) \in makes
  BY <1>1 DEF Done
<1>4. j \in 1..(k - 1)
  BY <1>1, <1>3
<1> QED
  BY <1>2, <1>3, <1>4 DEF Done

(* How a document came to know more with one step.                         *)
LEMMA KnownStep ==
    ASSUME NEW s, NEW p, NEW k \in Nat \ {0}, NEW makes, Known(s, p, k + 1, makes)
    PROVE  \/ Does(Plans[s][p][k]) \in makes
           \/ Does(Plans[s][p][k]) # <<"load", "report">> /\ Known(s, p, k, makes)
           \/ /\ Does(Plans[s][p][k]) = <<"load", "report">>
              /\ Written(Plans[s][Writer(s)], AtEnd(Plans[s][Writer(s)]), "report", makes)
<1> DEFINE plan == Plans[s][p]
<1> SUFFICES ASSUME Does(plan[k]) \notin makes
             PROVE  \/ Does(plan[k]) # <<"load", "report">> /\ Known(s, p, k, makes)
                    \/ /\ Does(plan[k]) = <<"load", "report">>
                       /\ Written(Plans[s][Writer(s)], AtEnd(Plans[s][Writer(s)]), "report", makes)
  OBVIOUS
<1>1. CASE Stands(plan, k + 1, makes, {<<"load", "report">>})
  <2>1. Stands(plan, k, makes, {<<"load", "report">>}) /\ Does(plan[k]) \notin {<<"load", "report">>}
    <3> HIDE DEF plan
    <3> QED
      BY <1>1, StandsStep
  <2> QED
    BY <2>1 DEF Known
<1>2. CASE /\ Done(plan, k + 1, {<<"load", "report">>})
           /\ Written(Plans[s][Writer(s)], AtEnd(Plans[s][Writer(s)]), "report", makes)
  <2>1. Does(plan[k]) \in {<<"load", "report">>} \/ Done(plan, k, {<<"load", "report">>})
    <3> HIDE DEF plan
    <3> QED
      BY <1>2, DoneStep
  <2> QED
    BY <1>2, <2>1 DEF Known
<1> QED
  BY <1>1, <1>2 DEF Known

LEMMA DoneIsKnown ==
    ASSUME NEW s, NEW p, NEW k \in Nat \ {0}, NEW makes,
           Done(Plans[s][p], k, makes), ~Done(Plans[s][p], k, {<<"load", "report">>})
    PROVE  Known(s, p, k, makes)
<1> DEFINE plan == Plans[s][p]
<1>1. PICK j \in 1..(k - 1) : Does(plan[j]) \in makes
  BY DEF Done
<1>2. ASSUME NEW n \in (j + 1)..(k - 1) PROVE Does(plan[n]) \notin {<<"load", "report">>}
  <2>1. n \in 1..(k - 1)
    BY <1>1, <1>2
  <2> QED
    BY <2>1 DEF Done
<1> QED
  BY <1>1, <1>2 DEF Known, Stands

(* What CausesInOrder says of the plan, and of the step at hand.           *)
LEMMA CausesHere ==
    ASSUME StateInv, Running, proc.at <= Len(Plan)
    PROVE  /\ KnowsBefore(script, proc.phase, proc.at)
           /\ ReportsOnce(script) /\ TrainsFirst(script)
           /\ proc.phase # 1 => Here.op \notin {"fit", "put", "enter"} /\ Does(Here) \notin Writing("training")
           /\ proc.phase = 1 => Here.op \notin {"load", "recall", "name", "same", "agree", "held", "trained", "basis"}
           /\ proc.phase # Writer(script) => Does(Here) \notin Writing("report")
           /\ proc.phase = Writer(script) => Does(Here) # <<"load", "report">> /\ ~Done(Plan, proc.at, {<<"load", "report">>})
<1>1. proc.phase \in DOMAIN Plans[script] /\ proc.at \in DOMAIN Plan /\ Plan = Plans[script][proc.phase] /\ Here = Plan[proc.at]
  BY StepKinds DEF Plan, Here
<1>2. CausesInOrder(script)
  BY ScriptsKeepOrder DEF StateInv
<1>3. /\ KnowsBefore(script, proc.phase, proc.at)
      /\ ReportsOnce(script) /\ TrainsFirst(script)
  BY <1>1, <1>2 DEF CausesInOrder
<1>4. /\ proc.phase # 1 => Here.op \notin {"fit", "put", "enter"} /\ Does(Here) \notin Writing("training")
      /\ proc.phase = 1 => Here.op \notin {"load", "recall", "name", "same", "agree", "held", "trained", "basis"}
  BY <1>1, <1>3 DEF TrainsFirst
<1>5. proc.phase # Writer(script) => Does(Here) \notin Writing("report")
  <2>1. proc.phase # Writer(script) => ~Done(Plan, AtEnd(Plan), Writing("report"))
    BY <1>1, <1>3 DEF ReportsOnce
  <2> QED
    BY <2>1, DoneHere
<1>6. proc.phase = Writer(script) => Does(Here) # <<"load", "report">> /\ ~Done(Plan, proc.at, {<<"load", "report">>})
  <2>1. proc.phase = Writer(script) => ~Done(Plan, AtEnd(Plan), {<<"load", "report">>})
    BY <1>1, <1>3 DEF ReportsOnce, Loads
  <2> QED
    BY <2>1, DoneHere
<1> QED
  BY <1>3, <1>4, <1>5, <1>6

(* A step leaves in the document what it makes, and loading a finished     *)
(* report brings what its process put there.                               *)
LEMMA KnowsOn ==
    ASSUME StateInv, Advance, DocKnows,
           Does(Here) = <<"load", "report">> => ReportKnows(AtEnd(Final))
    PROVE  DocKnows'
<1>1. /\ Running /\ proc.at <= Len(Plan) /\ ~Raises(Here) /\ Plan' = Plan /\ Arms' = Arms
      /\ UNCHANGED <<script, inputs, ended>>
      /\ \E new, d : StepDone(new, d)
  BY AdvanceEffect
<1>2. PICK new, d : StepDone(new, d)
  BY <1>1
<1>3. /\ proc.at \in Nat \ {0} /\ Here = Plan[proc.at] /\ proc'.at = proc.at + 1 /\ proc'.phase = proc.phase
      /\ Here = Plans[script][proc.phase][proc.at]
      /\ Here.op \in {"load", "save", "rewrite"} => Here.on \in {"training", "report"}
  BY <1>1, <1>2, StepKinds DEF StepDone, Here, Plan
<1>4. ASSUME NEW makes, Known(script, proc.phase, proc.at + 1, makes)
      PROVE  \/ Does(Here) \in makes
             \/ Does(Here) # <<"load", "report">> /\ Known(script, proc.phase, proc.at, makes)
             \/ Does(Here) = <<"load", "report">> /\ Written(Final, AtEnd(Final), "report", makes)
  <2> DEFINE t == Plans[script][proc.phase][proc.at]
             written == Written(Plans[script][Writer(script)], AtEnd(Plans[script][Writer(script)]), "report", makes)
  <2>1. proc.at \in Nat \ {0}
    BY <1>3
  <2>2. \/ Does(t) \in makes
        \/ Does(t) # <<"load", "report">> /\ Known(script, proc.phase, proc.at, makes)
        \/ Does(t) = <<"load", "report">> /\ written
    BY <1>4, <2>1, KnownStep
  <2> QED
    BY <2>2, <1>3 DEF Final
<1>5. proc'.doc.told \subseteq proc'.flaws
  <2>1. CASE Does(Here) = <<"load", "report">>
    BY <2>1, <1>2 DEF StepDone, DocLeft, ReportKnows
  <2>2. CASE Does(Here) # <<"load", "report">>
    BY <2>2, <1>2 DEF StepDone, DocLeft, DocKnows
  <2> QED
    BY <2>1, <2>2
<1>6. ASSUME NEW a \in Arms, Known(script, proc.phase, proc.at + 1, Naming(a)) PROVE a \in DOMAIN proc'.doc.models
  <2>1. CASE Does(Here) \in Naming(a)
    BY <2>1, <1>2 DEF StepDone, DocLeft, With, Naming, Does
  <2>2. CASE Does(Here) = <<"load", "report">>
    <3>1. Does(Here) \notin Naming(a)
      BY <2>2 DEF Naming
    <3>2. Written(Final, AtEnd(Final), "report", Naming(a))
      BY <1>4, <1>6, <2>2, <3>1
    <3> QED
      BY <1>2, <2>2, <3>2 DEF StepDone, DocLeft, ReportKnows
  <2>3. CASE Does(Here) \notin Naming(a) /\ Does(Here) # <<"load", "report">>
    <3>1. a \in DOMAIN proc.doc.models
      BY <1>4, <1>6, <2>3 DEF DocKnows
    <3> QED
      BY <1>2, <2>3, <3>1 DEF StepDone, DocLeft, With
  <2> QED
    BY <2>1, <2>2, <2>3
<1>7. ASSUME Known(script, proc.phase, proc.at + 1, {<<"seal", "">>}) PROVE proc'.doc.sealed
  <2>1. CASE Does(Here) = <<"seal", "">>
    BY <2>1, <1>2 DEF StepDone, DocLeft, Does
  <2>2. CASE Does(Here) = <<"load", "report">>
    <3>1. Does(Here) \notin {<<"seal", "">>}
      BY <2>2
    <3>2. Written(Final, AtEnd(Final), "report", {<<"seal", "">>})
      BY <1>4, <1>7, <2>2, <3>1
    <3> QED
      BY <1>2, <2>2, <3>2 DEF StepDone, DocLeft, ReportKnows
  <2>3. CASE Does(Here) # <<"seal", "">> /\ Does(Here) # <<"load", "report">>
    <3>1. proc.doc.sealed
      BY <1>4, <1>7, <2>3 DEF DocKnows
    <3> QED
      BY <1>2, <2>3, <3>1 DEF StepDone, DocLeft
  <2> QED
    BY <2>1, <2>2, <2>3
<1>8. ASSUME NEW i \in Inputs, Known(script, proc.phase, proc.at + 1, Reading(i)) PROVE ReadBefore(proc'.doc, i) # {}
  <2>1. CASE Does(Here) \in Reading(i)
    <3>1. proc'.doc.read = proc.doc.read \cup {<<i, inputs[i]>>}
      BY <2>1, <1>2 DEF StepDone, DocLeft, Reading, Does
    <3>2. inputs[i] \in Versions
      BY DEF StateInv
    <3> QED
      BY <3>1, <3>2 DEF ReadBefore
  <2>2. CASE Does(Here) = <<"load", "report">>
    <3>1. Does(Here) \notin Reading(i)
      BY <2>2 DEF Reading
    <3>2. Written(Final, AtEnd(Final), "report", Reading(i))
      BY <1>4, <1>8, <2>2, <3>1
    <3> QED
      BY <1>2, <2>2, <3>2 DEF StepDone, DocLeft, ReportKnows, ReadBefore
  <2>3. CASE Does(Here) \notin Reading(i) /\ Does(Here) # <<"load", "report">>
    <3>1. ReadBefore(proc.doc, i) # {}
      BY <1>4, <1>8, <2>3 DEF DocKnows
    <3>2. proc.doc.read \subseteq proc'.doc.read
      BY <1>2, <2>3 DEF StepDone, DocLeft
    <3> QED
      BY <3>1, <3>2 DEF ReadBefore
  <2> QED
    BY <2>1, <2>2, <2>3
<1> QED
  BY <1>1, <1>3, <1>5, <1>6, <1>7, <1>8 DEF DocKnows, ReadBefore

(* Nothing but a file that is not as it should be can stop a process that  *)
(* had no flaw of its own, while the inputs are as declared.               *)
LEMMA OthersPass ==
    ASSUME StateInv, Running, proc.at <= Len(Plan), DocKnows, Current(proc.doc.read),
           proc.flaws = {}, \A i \in Inputs : inputs[i] = 1, Raises(Here)
    PROVE  Here.op \in {"load", "recall", "name", "same", "agree", "held", "trained", "basis"}
<1> DEFINE t == Plans[script][proc.phase][proc.at]
<1>1. Here = t /\ KnowsBefore(script, proc.phase, proc.at)
  BY CausesHere DEF Here, Plan
<1>2. Arms = ArmsOf[script]
  BY DEF Arms
<1>3. Here.op # "check" /\ Here.op # "require"
  BY DEF Raises, DocKnows
<1>4. Here.op # "pin"
  BY <1>1 DEF Raises, KnowsBefore
<1>5. Here.op # "again"
  <2> SUFFICES ASSUME Here.op = "again" PROVE FALSE
    OBVIOUS
  <2>1. Here.on \in Inputs /\ Known(script, proc.phase, proc.at, Reading(Here.on))
    BY <1>1 DEF KnowsBefore
  <2>2. ReadBefore(proc.doc, Here.on) # {} /\ inputs[Here.on] = 1 /\ <<Here.on, 2>> \notin proc.doc.read
    BY <2>1 DEF DocKnows, Current
  <2>3. ReadBefore(proc.doc, Here.on) = {1}
    BY <2>2 DEF ReadBefore, Versions
  <2> QED
    BY <2>2, <2>3 DEF Raises
<1>6. Here.op \in {"covers", "whole"} => Covered(proc.doc)
  BY <1>1, <1>2 DEF KnowsBefore, DocKnows, Covered
<1>7. Here.op \in {"finished", "whole"} => proc.doc.sealed
  BY <1>1 DEF KnowsBefore, DocKnows
<1>8. Here.op \notin {"covers", "finished", "whole"}
  BY <1>6, <1>7 DEF Raises
<1> HIDE DEF t
<1> QED
  BY <1>3, <1>4, <1>5, <1>8 DEF Raises

(* So the first process is never stopped without a cause.                  *)
LEMMA FirstPasses ==
    ASSUME StateInv, Running, proc.at <= Len(Plan), DocKnows, Current(proc.doc.read),
           proc.flaws = {}, \A i \in Inputs : inputs[i] = 1, proc.phase = 1
    PROVE  ~Raises(Here)
  BY OthersPass, CausesHere

(* Undisturbed, a process is stopped only where it loads a file that is not *)
(* there yet, before it wrote any report.                                  *)
LEMMA OnlyMissing ==
    ASSUME StateInv, CalmInv, DocKnows, Current(proc.doc.read), Running, proc.at <= Len(Plan), Raises(Here)
    PROVE  /\ proc.phase # 1 /\ ~Reporting
           /\ Here.on \in Writes(script) /\ disk[Here.on] = NoFile
<1> DEFINE t == Plans[script][proc.phase][proc.at]
<1>1. /\ Here = t /\ KnowsBefore(script, proc.phase, proc.at) /\ Plan = Plans[script][proc.phase]
      /\ Here.op = "load" => Here.on \in {"training", "report"}
      /\ Here.op = "name" => Here.on \in Arms
  BY CausesHere, StepKinds DEF Here, Plan
<1>2. Arms = ArmsOf[script]
  BY DEF Arms
<1>3. Here.op \in {"load", "recall", "name", "same", "agree", "held", "trained", "basis"}
  BY OthersPass DEF CalmInv
<1>4. proc.phase # 1
  BY <1>3, CausesHere
<1>5. ASSUME Done(Plan, proc.at, {<<"load", "training">>})
      PROVE  /\ RestsOnTraining(script) /\ RecordInv
             /\ proc.base = Record /\ disk.training = Record
             /\ \A a \in Arms : disk.models[a] = Made(a)
  <2>1. RestsOnTraining(script)
    BY <1>5, LoadsHere DEF RestsOnTraining
  <2>2. RecordInv
    BY <2>1 DEF CalmInv
  <2>3. Record.kind = "doc"
    BY DEF Record
  <2> QED
    BY <1>4, <1>5, <2>1, <2>2, <2>3 DEF RecordInv
<1>6. /\ Record.models = [a \in Arms |-> Made(a)] /\ Record.read = TrainedOn
      /\ Record.sealed = TRUE /\ Record.kind = "doc" /\ Record # NoFile
  BY DEF Record, NoFile
<1>7. ASSUME Here.op = "recall" PROVE FALSE
  <2>1. Done(Plan, proc.at, {<<"load", "training">>}) /\ Here.on \in Inputs /\ Done(Train, AtEnd(Train), Reading(Here.on))
    BY <1>1, <1>7 DEF KnowsBefore, Train
  <2>2. proc.base.read = TrainedOn /\ inputs[Here.on] = 1
    BY <1>5, <1>6, <2>1 DEF CalmInv
  <2>3. ReadBefore(proc.base, Here.on) = {1}
    BY <2>1, <2>2 DEF ReadBefore, TrainedOn, ReadsBy, Versions
  <2> QED
    BY <1>7, <2>2, <2>3 DEF Raises
<1>8. ASSUME Here.op = "name" PROVE FALSE
  BY <1>1, <1>5, <1>6, <1>8 DEF KnowsBefore, Raises
<1>9. ASSUME Here.op = "same" PROVE FALSE
  BY <1>1, <1>2, <1>5, <1>6, <1>9 DEF KnowsBefore, Raises, Unchanged
<1>10. ASSUME Here.op = "agree" PROVE FALSE
  <2>1. Done(Plan, proc.at, {<<"load", "training">>}) /\ Here.on \in Arms /\ Known(script, proc.phase, proc.at, Naming(Here.on))
    BY <1>1, <1>2, <1>10 DEF KnowsBefore
  <2>2. proc.doc.models[Here.on] = Made(Here.on)
    BY <1>4, <1>5, <2>1 DEF DocKnows, RecordInv
  <2>3. proc.base.models[Here.on] = Made(Here.on)
    BY <1>5, <1>6, <2>1
  <2> QED
    BY <1>10, <2>2, <2>3 DEF Raises
<1>11. ASSUME Here.op = "held" PROVE FALSE
  <2>1. /\ Here.on \in Arms /\ Known(script, proc.phase, proc.at, Naming(Here.on))
        /\ Done(Plan, proc.at, {<<"load", "report">>}) /\ Holds
    BY <1>1, <1>2, <1>11 DEF KnowsBefore, Holds, Train
  <2>2. Here.on \in DOMAIN proc.doc.models /\ disk.report.kind = "doc" /\ proc.doc.models = disk.report.models
    BY <1>4, <2>1 DEF DocKnows, CalmInv, HeldInv
  <2>3. disk.models[Here.on] = disk.report.models[Here.on]
    BY <1>4, <2>1, <2>2 DEF CalmInv, HeldInv
  <2> QED
    BY <1>11, <2>2, <2>3 DEF Raises
<1>12. ASSUME Here.op = "trained" PROVE FALSE
  BY <1>1, <1>5, <1>6, <1>12 DEF KnowsBefore, Raises, Covered
<1>13. ASSUME Here.op = "basis" PROVE FALSE
  <2>1. Done(Plan, proc.at, {<<"load", "training">>})
    BY <1>1, <1>13 DEF KnowsBefore
  <2>2. Done(Plan, proc.at, Documents)
    BY <2>1 DEF Done, Documents
  <2> QED
    BY <1>4, <1>5, <1>13, <2>1, <2>2 DEF RecordInv, Raises
<1>14. Here.op = "load"
  BY <1>3, <1>7, <1>8, <1>9, <1>10, <1>11, <1>12, <1>13
<1>15. Here.on \in Writes(script) /\ (Done(Plan, proc.at, Writing("report")) => Done(Plan, proc.at, {Does(Here)}))
  BY <1>1, <1>14 DEF KnowsBefore
<1>16. Absent(disk[Here.on])
  BY <1>14 DEF Raises
<1>17. disk[Here.on] = NoFile
  BY <1>1, <1>14, <1>16 DEF Absent, CalmInv
<1>18. ~Reporting
  <2> SUFFICES ASSUME Reporting PROVE FALSE
    OBVIOUS
  <2>1. Done(Plan, proc.at, {Does(Here)}) /\ Does(Here) # <<"load", "report">>
    BY <1>15, CausesHere DEF Reporting
  <2>2. Here.on = "training" /\ Does(Here) = <<"load", "training">>
    BY <1>1, <1>14, <2>1 DEF Does
  <2> QED
    BY <1>5, <1>6, <1>17, <2>1, <2>2
<1> QED
  BY <1>4, <1>15, <1>17, <1>18

(* The report stays one process's work, complete once the process is over. *)
LEMMA ReportOn ==
    ASSUME StateInv, CalmInv, DocKnows, Advance
    PROVE  (disk.report.kind = "doc" => ReportKnows(IF Reporting THEN proc.at ELSE AtEnd(Final)))'
<1>1. /\ Running /\ proc.at <= Len(Plan) /\ ~Raises(Here) /\ Plan' = Plan /\ Arms' = Arms
      /\ UNCHANGED <<script, inputs, ended>>
      /\ \E new, d : StepDone(new, d)
  BY AdvanceEffect
<1>2. PICK new, d : StepDone(new, d)
  BY <1>1
<1>3. /\ proc.at \in Nat \ {0} /\ Here = Plan[proc.at] /\ proc'.at = proc.at + 1 /\ proc'.phase = proc.phase
      /\ Plan = Plans[script][proc.phase] /\ Final' = Final /\ Running'
  BY <1>1, <1>2, StepKinds DEF StepDone, Here, Plan, Final, Running
<1>4. CASE Does(Here) \in Writing("report")
  <2>1. proc.phase = Writer(script) /\ Plan = Final /\ ~Done(Plan, proc.at, {<<"load", "report">>})
    BY <1>1, <1>3, <1>4, CausesHere DEF Final
  <2>2. disk'.report = proc.doc
    BY <1>2, <1>4 DEF StepDone, Writing
  <2>3. Reporting'
    BY <1>1, <1>3, <1>4, <2>1, DoneStep DEF Reporting
  <2>4. ASSUME NEW makes, Written(Final, proc.at + 1, "report", makes)
        PROVE  Known(script, proc.phase, proc.at, makes)
    <3>1. Done(Final, proc.at, makes)
      BY <1>3, <2>4, WrittenStep, WrittenDone
    <3> QED
      BY <1>3, <2>1, <3>1, DoneIsKnown
  <2>5. proc.doc.told = {} /\ proc.doc.truth = {}
    BY <1>1 DEF CalmInv
  <2>6. \A a \in Arms : Written(Final, proc.at + 1, "report", Naming(a)) => a \in DOMAIN proc.doc.models
    BY <2>4 DEF DocKnows
  <2>7. Written(Final, proc.at + 1, "report", {<<"seal", "">>}) => proc.doc.sealed
    BY <2>4 DEF DocKnows
  <2>8. \A i \in Inputs : Written(Final, proc.at + 1, "report", Reading(i)) => ReadBefore(proc.doc, i) # {}
    BY <2>4 DEF DocKnows
  <2> QED
    BY <1>1, <1>3, <2>2, <2>3, <2>5, <2>6, <2>7, <2>8 DEF ReportKnows, ReadBefore
<1>5. CASE Does(Here) \notin Writing("report")
  <2>1. disk'.report = disk.report
    BY <1>2, <1>5 DEF StepDone, Writing
  <2>2. Reporting' <=> Reporting
    BY <1>1, <1>3, <1>5, DoneStep DEF Reporting
  <2>3. ASSUME Reporting, NEW makes
        PROVE  Written(Final, proc.at + 1, "report", makes) <=> Written(Final, proc.at, "report", makes)
    <3>1. Plan = Final
      BY <1>3, <2>3 DEF Reporting, Final
    <3> QED
      BY <1>3, <1>5, <3>1, WrittenStep
  <2>4. CASE disk.report.kind = "doc" /\ Reporting
    <3>1. ReportKnows(proc.at)
      BY <2>4 DEF CalmInv
    <3>2. /\ disk'.report.told = {} /\ disk'.report.truth = {}
          /\ \A a \in Arms : Written(Final, proc.at + 1, "report", Naming(a)) => a \in DOMAIN disk'.report.models
          /\ Written(Final, proc.at + 1, "report", {<<"seal", "">>}) => disk'.report.sealed
          /\ \A i \in Inputs : Written(Final, proc.at + 1, "report", Reading(i)) => ReadBefore(disk'.report, i) # {}
      BY <2>1, <2>3, <2>4, <3>1 DEF ReportKnows
    <3> QED
      BY <1>1, <1>3, <2>2, <2>4, <3>2 DEF ReportKnows, ReadBefore
  <2>5. CASE disk.report.kind = "doc" /\ ~Reporting
    <3>1. ReportKnows(AtEnd(Final))
      BY <2>5 DEF CalmInv
    <3> QED
      BY <1>1, <1>3, <2>1, <2>2, <2>5, <3>1 DEF ReportKnows, ReadBefore
  <2> QED
    BY <2>1, <2>4, <2>5
<1> QED
  BY <1>4, <1>5

(* The models a report names, while nothing disturbs the processes.        *)
LEMMA HeldOn ==
    ASSUME StateInv, CalmInv, Holds, Advance
    PROVE  HeldInv'
<1>1. /\ Running /\ proc.at <= Len(Plan) /\ ~Raises(Here) /\ Plan' = Plan /\ Arms' = Arms
      /\ UNCHANGED <<script, inputs, ended>>
      /\ \E new, d : StepDone(new, d)
  BY AdvanceEffect
<1>2. PICK new, d : StepDone(new, d)
  BY <1>1
<1>3. /\ proc.at \in Nat \ {0} /\ Here = Plan[proc.at] /\ proc'.at = proc.at + 1 /\ proc'.phase = proc.phase
      /\ Running'
      /\ Here.op \in {"enter", "name"} => Here.on \in Arms
      /\ Here.op = "load" => Here.on \in {"training", "report"}
  BY <1>1, <1>2, StepKinds DEF StepDone, Here, Running
<1>4. HeldInv /\ Writer(script) = 1
  BY DEF CalmInv, Holds, Writer
<1>5. CASE proc.phase = 1
  <2>1. ASSUME Stands(Plan, proc.at + 1, Writing("report"), Renamed(Arms))
        PROVE  disk'.report.models = proc'.doc.models
    <3>1. CASE Does(Here) \in Writing("report")
      <4>1. disk'.report = proc.doc /\ Here.op \in {"save", "rewrite"}
        BY <1>2, <3>1 DEF StepDone, Writing, Does
      <4> QED
        BY <1>2, <4>1 DEF StepDone, DocLeft, Does
    <3>2. CASE Does(Here) \notin Writing("report")
      <4>1. Stands(Plan, proc.at, Writing("report"), Renamed(Arms)) /\ Does(Here) \notin Renamed(Arms)
        BY <1>3, <2>1, <3>2, StandsStep
      <4>2. disk'.report = disk.report
        BY <1>2, <3>2 DEF StepDone, Writing
      <4>3. Here.op \notin {"enter", "name"} /\ Does(Here) # <<"load", "report">>
        <5>1. Here.op \in {"enter", "name"} => Does(Here) \in {"enter", "name"} \X Arms
          BY <1>3 DEF Does
        <5> QED
          BY <4>1, <5>1 DEF Renamed
      <4>4. proc'.doc.models = proc.doc.models
        BY <1>2, <4>3 DEF StepDone, DocLeft
      <4> QED
        BY <1>1, <1>4, <1>5, <4>1, <4>2, <4>4 DEF HeldInv
    <3> QED
      BY <3>1, <3>2
  <2>2. Stands(Plan, proc.at, Writing("report"), Renamed(Arms))' => disk'.report.models = proc'.doc.models
    BY <1>1, <1>3, <2>1
  <2>3. Running' /\ proc'.phase = 1
    BY <1>3, <1>5
  <2> QED
    BY <2>2, <2>3 DEF HeldInv
<1>6. CASE proc.phase # 1
  <2>1. Here.op \notin {"put", "enter"} /\ Does(Here) \notin Writing("report")
    BY <1>1, <1>4, <1>6, CausesHere
  <2>2. disk'.models = disk.models /\ disk'.report = disk.report
    BY <1>2, <2>1 DEF StepDone, Writing
  <2>3. Here.op # "name"
    <3>1. Here.op = "name" => Done(Plan, proc.at, {<<"load", "training">>})
      <4>1. Plan = Plans[script][proc.phase] /\ Here = Plans[script][proc.phase][proc.at]
        BY DEF Plan, Here
      <4> QED
        BY <1>1, <4>1, CausesHere DEF KnowsBefore
    <3>2. Done(Plan, proc.at, {<<"load", "training">>}) => RestsOnTraining(script)
      BY <1>1, LoadsHere DEF RestsOnTraining
    <3> QED
      BY <3>1, <3>2 DEF Holds
  <2>4. ASSUME Done(Plan, proc.at + 1, {<<"load", "report">>})
        PROVE  disk.report.kind = "doc" /\ proc'.doc.models = disk.report.models
    <3>1. CASE Does(Here) = <<"load", "report">>
      BY <1>2, <3>1 DEF StepDone, DocLeft
    <3>2. CASE Does(Here) # <<"load", "report">>
      <4>1. Done(Plan, proc.at, {<<"load", "report">>})
        BY <1>3, <2>4, <3>2, DoneStep
      <4>2. proc'.doc.models = proc.doc.models
        BY <1>2, <2>1, <2>3, <3>2 DEF StepDone, DocLeft
      <4> QED
        BY <1>1, <1>4, <1>6, <4>1, <4>2 DEF HeldInv
    <3> QED
      BY <3>1, <3>2
  <2> QED
    BY <1>1, <1>3, <1>4, <1>6, <2>2, <2>4 DEF HeldInv
<1> QED
  BY <1>5, <1>6

(* A training that nothing disturbs makes what any other would have made.  *)
LEMMA TrainingOn ==
    ASSUME StateInv, CalmInv, RestsOnTraining(script), TrainingInv, proc.phase = 1, Advance, proc'.flaws = {}
    PROVE  TrainingInv'
<1>1. /\ Running /\ proc.at <= Len(Plan) /\ ~Raises(Here) /\ Plan' = Plan /\ Arms' = Arms /\ StateInv'
      /\ UNCHANGED <<script, inputs, ended>>
      /\ \E new, d : StepDone(new, d)
  BY AdvanceEffect
<1>2. PICK new, d : StepDone(new, d)
  BY <1>1
<1>3. /\ proc.at \in Nat \ {0} /\ Here = Plan[proc.at] /\ proc'.at = proc.at + 1
      /\ proc.at \in DOMAIN Plan /\ Here \in Steps /\ Plan = Train
      /\ Here.op \in {"put", "enter", "name"} => Here.on \in Arms
  BY <1>1, <1>2, StepKinds DEF StepDone, Here, Plan, Train
<1>4. /\ Here.op \notin {"load", "name", "recall"}
      /\ Here.op = "fit" => ReadsBy(Plan, proc.at) = TrainedOn
      /\ Here.op \in {"put", "enter"} => Done(Plan, proc.at, {<<"fit", Here.on>>})
      /\ Here.op \in {"pin", "read"} => Here.on \in Inputs
  <2>1. TrainsFirst(script) /\ KnowsBefore(script, 1, proc.at)
    BY <1>1, CausesHere
  <2>2. Plan = Plans[script][1] /\ Here = Plans[script][1][proc.at] /\ Train = Plans[script][1]
    BY <1>3 DEF Train
  <2>3. Here.op \in {"pin", "read"} => Here.on \in Inputs
    BY <2>1, <2>2 DEF KnowsBefore
  <2> QED
    BY <1>3, <2>1, <2>2, <2>3 DEF TrainsFirst, TrainedOn
<1>5. proc.flaws = {} /\ proc.runtime = 1 /\ proc.doc.truth = {} /\ proc.doc.told = {} /\ new = {} /\ proc'.doc.truth = {}
  BY <1>1, <1>2, <1>4 DEF CalmInv, StepDone, DocLeft, Does
<1>6. proc'.doc.basis = NoFile
  BY <1>2, <1>4 DEF StepDone, DocLeft, Does, TrainingInv
<1>7. proc'.doc.models = [a \in {b \in Arms : Done(Plan, proc.at + 1, {<<"enter", b>>})} |-> Made(a)]
  <2> DEFINE S == {b \in Arms : Done(Plan, proc.at, {<<"enter", b>>})}
  <2>1. \A b : Done(Plan, proc.at + 1, {<<"enter", b>>})
                  <=> Does(Here) = <<"enter", b>> \/ Done(Plan, proc.at, {<<"enter", b>>})
    <3> TAKE b
    <3> QED
      BY <1>3, DoneStep
  <2>2. CASE Here.op = "enter"
    <3>1. proc'.doc.models = With([a \in S |-> Made(a)], Here.on, Made(Here.on))
      BY <1>2, <1>3, <1>4, <2>2 DEF StepDone, DocLeft, Does, TrainingInv
    <3>2. {b \in Arms : Done(Plan, proc.at + 1, {<<"enter", b>>})} = S \cup {Here.on}
      BY <1>3, <2>1, <2>2 DEF Does
    <3> HIDE DEF S
    <3> QED
      BY <3>1, <3>2 DEF With
  <2>3. CASE Here.op # "enter"
    <3>1. proc'.doc.models = proc.doc.models
      BY <1>2, <1>4, <2>3 DEF StepDone, DocLeft, Does
    <3>2. {b \in Arms : Done(Plan, proc.at + 1, {<<"enter", b>>})} = S
      BY <2>1, <2>3 DEF Does
    <3> QED
      BY <3>1, <3>2 DEF TrainingInv
  <2> QED
    BY <2>2, <2>3
<1>8. proc'.doc.read = ReadsBy(Plan, proc.at + 1)
  <2>1. \A i : Done(Plan, proc.at + 1, Reading(i)) <=> Does(Here) \in Reading(i) \/ Done(Plan, proc.at, Reading(i))
    <3> TAKE i
    <3> QED
      BY <1>3, DoneStep
  <2>2. proc.doc.read = ReadsBy(Plan, proc.at)
    BY DEF TrainingInv
  <2>3. CASE Here.op \in {"pin", "read"}
    <3>1. proc'.doc.read = proc.doc.read \cup {<<Here.on, 1>>}
      BY <1>2, <1>4, <2>3 DEF StepDone, DocLeft, Does, CalmInv
    <3>2. \A i : Does(Here) \in Reading(i) <=> i = Here.on
      BY <2>3 DEF Does, Reading
    <3> QED
      BY <1>4, <2>1, <2>2, <2>3, <3>1, <3>2 DEF ReadsBy
  <2>4. CASE Here.op \notin {"pin", "read"}
    <3>1. proc'.doc.read = proc.doc.read
      BY <1>2, <1>4, <2>4 DEF StepDone, DocLeft, Does
    <3>2. \A i : Does(Here) \notin Reading(i)
      BY <1>4, <2>4 DEF Does, Reading
    <3> QED
      BY <2>1, <2>2, <3>1, <3>2 DEF ReadsBy
  <2> QED
    BY <2>3, <2>4
<1>9. Done(Plan, proc.at + 1, {<<"seal", "">>}) => proc'.doc.sealed = TRUE
  <2>1. Done(Plan, proc.at + 1, {<<"seal", "">>}) <=> Does(Here) = <<"seal", "">> \/ Done(Plan, proc.at, {<<"seal", "">>})
    BY <1>3, DoneStep
  <2> QED
    BY <1>2, <1>4, <2>1 DEF StepDone, DocLeft, Does, TrainingInv
<1>10. Stands(Plan, proc.at + 1, Writing("training"), Altering) => disk'.training = proc'.doc
  <2> SUFFICES ASSUME Stands(Plan, proc.at + 1, Writing("training"), Altering) PROVE disk'.training = proc'.doc
    OBVIOUS
  <2>1. Here.op \notin {"enter", "name", "note", "seal", "load", "pin", "read", "recall"} => proc'.doc = proc.doc
    <3> SUFFICES ASSUME Here.op \notin {"enter", "name", "note", "seal", "load", "pin", "read", "recall"}
                 PROVE  proc'.doc = proc.doc
      OBVIOUS
    <3>1. /\ proc'.doc.models = proc.doc.models /\ proc'.doc.read = proc.doc.read /\ proc'.doc.truth = proc.doc.truth
          /\ proc'.doc.told = proc.doc.told /\ proc'.doc.sealed = proc.doc.sealed /\ proc'.doc.basis = proc.doc.basis
      BY <1>2, <1>5 DEF StepDone, DocLeft, Does
    <3>2. IsDoc(proc.doc) /\ IsDoc(proc'.doc)
      BY <1>1 DEF StateInv
    <3> QED
      BY <3>1, <3>2 DEF IsDoc
  <2>2. CASE Does(Here) \in Writing("training")
    <3>1. disk'.training = proc.doc /\ Here.op \in {"save", "rewrite"}
      BY <1>2, <2>2 DEF StepDone, Writing, Does
    <3> QED
      BY <2>1, <3>1
  <2>3. CASE Does(Here) \notin Writing("training")
    <3>1. Stands(Plan, proc.at, Writing("training"), Altering) /\ Does(Here) \notin Altering
      BY <1>3, <2>3, StandsStep
    <3>2. Here.op \notin {"enter", "name", "note", "seal", "load", "pin", "read", "recall"}
      <4>1. Here.on \in STRING
        BY <1>3 DEF Steps
      <4> QED
        BY <3>1, <4>1 DEF Altering, Does
    <3>3. disk'.training = disk.training
      BY <1>2, <2>3 DEF StepDone, Writing
    <3> QED
      BY <2>1, <3>1, <3>2, <3>3 DEF TrainingInv
  <2> QED
    BY <2>2, <2>3
<1>11. ASSUME NEW a \in Arms, Done(Plan, proc.at + 1, {<<"fit", a>>})
       PROVE  a \in DOMAIN proc'.fitted /\ proc'.fitted[a] = Made(a)
  <2>1. Does(Here) = <<"fit", a>> \/ Done(Plan, proc.at, {<<"fit", a>>})
    BY <1>3, <1>11, DoneStep
  <2>2. Here.op = "fit" => Bytes(Here.on) = Made(Here.on)
    BY <1>4, <1>5 DEF Bytes, Made, TrainingInv
  <2>3. CASE Does(Here) = <<"fit", a>>
    <3>1. Here.op = "fit" /\ Here.on = a /\ proc'.fitted = With(proc.fitted, a, Made(a))
      BY <1>2, <2>2, <2>3 DEF StepDone, Does
    <3> QED
      BY <3>1 DEF With
  <2>4. CASE Does(Here) # <<"fit", a>>
    <3>1. a \in DOMAIN proc.fitted /\ proc.fitted[a] = Made(a)
      BY <2>1, <2>4 DEF TrainingInv
    <3>2. Here.op = "fit" => Here.on # a
      BY <2>4 DEF Does
    <3> QED
      BY <1>2, <3>1, <3>2 DEF StepDone, With
  <2> QED
    BY <2>3, <2>4
<1>12. ASSUME NEW a \in Arms, Done(Plan, proc.at + 1, {<<"put", a>>})
       PROVE  disk'.models[a] = Made(a)
  <2>1. Does(Here) = <<"put", a>> \/ Done(Plan, proc.at, {<<"put", a>>})
    BY <1>3, <1>12, DoneStep
  <2>2. Here.op = "put" => Here.on \in Arms /\ proc.fitted[Here.on] = Made(Here.on)
    BY <1>3, <1>4 DEF TrainingInv
  <2>3. disk.models = [b \in Arms |-> disk.models[b]]
    BY DEF StateInv
  <2> QED
    BY <1>2, <2>1, <2>2, <2>3 DEF StepDone, Does, TrainingInv
<1>13. Train' = Train /\ TrainedOn' = TrainedOn /\ \A a : Made(a)' = Made(a)
  BY <1>1 DEF Train, TrainedOn, Made
<1>14. proc'.doc.models = [a \in {b \in Arms' : Done(Plan', proc'.at, {<<"enter", b>>})} |-> Made(a)']
  BY <1>1, <1>3, <1>7, <1>13
<1>15. \A a \in Arms' :
          /\ Done(Plan', proc'.at, {<<"fit", a>>}) => a \in DOMAIN proc'.fitted /\ proc'.fitted[a] = Made(a)'
          /\ Done(Plan', proc'.at, {<<"put", a>>}) => disk'.models[a] = Made(a)'
  BY <1>1, <1>3, <1>11, <1>12, <1>13
<1>16. /\ proc'.doc.read = ReadsBy(Plan', proc'.at)
       /\ Done(Plan', proc'.at, {<<"seal", "">>}) => proc'.doc.sealed = TRUE
       /\ Stands(Plan', proc'.at, Writing("training"), Altering) => disk'.training = proc'.doc
  BY <1>1, <1>3, <1>8, <1>9, <1>10
<1> QED
  BY <1>6, <1>14, <1>15, <1>16 DEF TrainingInv

LEMMA RecordOn ==
    ASSUME StateInv, CalmInv, RestsOnTraining(script), Advance, proc'.flaws = {}
    PROVE  RecordInv'
<1>1. /\ Running /\ proc.at <= Len(Plan) /\ ~Raises(Here) /\ Plan' = Plan /\ Arms' = Arms
      /\ UNCHANGED <<script, inputs, ended>>
      /\ \E new, d : StepDone(new, d)
  BY AdvanceEffect
<1>2. PICK new, d : StepDone(new, d)
  BY <1>1
<1>3. /\ proc.at \in Nat \ {0} /\ Here = Plan[proc.at] /\ proc'.at = proc.at + 1 /\ proc'.phase = proc.phase
      /\ Running'
      /\ Here.op = "load" => Here.on \in {"training", "report"}
      /\ Here.op \in {"put", "enter", "name"} => Here.on \in Arms
  BY <1>1, <1>2, StepKinds DEF StepDone, Here, Running
<1>4. RecordInv /\ Writer(script) = 2
  BY DEF CalmInv, Writer
<1>5. /\ Train' = Train /\ TrainedOn' = TrainedOn /\ \A a : Made(a)' = Made(a)
      /\ Record' = Record
  BY <1>1 DEF Train, TrainedOn, Made, Record
<1>6. CASE proc.phase = 1
  <2>1. disk'.report = disk.report
    BY <1>1, <1>2, <1>4, <1>6, CausesHere DEF StepDone, Writing
  <2>2. TrainingInv'
    BY <1>1, <1>4, <1>6, TrainingOn DEF RecordInv
  <2>3. Running' /\ proc'.phase = 1
    BY <1>3, <1>6
  <2>4. disk'.report.kind = "doc" =>
          disk'.report.basis = Record' /\ \A a \in Arms' \cap DOMAIN disk'.report.models : disk'.report.models[a] = Made(a)'
    BY <1>1, <1>4, <1>5, <2>1 DEF RecordInv
  <2> QED
    BY <2>2, <2>3, <2>4 DEF RecordInv
<1>7. CASE proc.phase # 1
  <2>1. Here.op \notin {"put", "enter"} /\ Does(Here) \notin Writing("training")
    BY <1>1, <1>7, CausesHere
  <2>2. disk'.models = disk.models /\ disk'.training = disk.training
    BY <1>2, <2>1 DEF StepDone, Writing
  <2>3. disk.training.kind = "doc" => disk.training = Record /\ \A a \in Arms : disk.models[a] = Made(a)
    BY <1>4, <1>7 DEF RecordInv
  <2>4. /\ Done(Plan, proc.at, {<<"load", "training">>}) => proc.base = Record /\ disk.training = Record
        /\ Done(Plan, proc.at, Documents) => proc.doc.basis = Record
        /\ ~Done(Plan, proc.at, Documents) => proc.doc.basis = NoFile
        /\ \A a \in Arms \cap DOMAIN proc.doc.models : proc.doc.models[a] = Made(a)
    BY <1>1, <1>4, <1>7 DEF RecordInv
  <2>5. Does(Here) = <<"load", "training">> => disk.training = Record
    BY <1>1, <2>3 DEF Raises, Absent, Does
  <2>6. disk'.report.kind = "doc" =>
          disk'.report.basis = Record /\ \A a \in Arms \cap DOMAIN disk'.report.models : disk'.report.models[a] = Made(a)
    <3>1. CASE Does(Here) \in Writing("report")
      <4>1. Done(Plan, proc.at, Documents)
        BY <1>1, <3>1, InputsHere DEF Writing
      <4>2. disk'.report = proc.doc
        BY <1>2, <3>1 DEF StepDone, Writing
      <4> QED
        BY <2>4, <4>1, <4>2
    <3>2. CASE Does(Here) \notin Writing("report")
      <4>1. disk'.report = disk.report
        BY <1>2, <3>2 DEF StepDone, Writing
      <4> QED
        BY <1>4, <4>1 DEF RecordInv
    <3> QED
      BY <3>1, <3>2
  <2>7. Done(Plan, proc.at + 1, {<<"load", "training">>}) => proc'.base = Record /\ disk'.training = Record
    <3>1. Done(Plan, proc.at + 1, {<<"load", "training">>})
             <=> Does(Here) = <<"load", "training">> \/ Done(Plan, proc.at, {<<"load", "training">>})
      BY <1>3, DoneStep
    <3> QED
      BY <1>2, <2>2, <2>4, <2>5, <3>1 DEF StepDone
  <2>8. Done(Plan, proc.at + 1, Documents) <=> Does(Here) \in Documents \/ Done(Plan, proc.at, Documents)
    BY <1>3, DoneStep
  <2>9. Here.op = "load" <=> Does(Here) \in Documents
    BY <1>3 DEF Does, Documents
  <2>10. /\ Done(Plan, proc.at + 1, Documents) => proc'.doc.basis = Record
         /\ ~Done(Plan, proc.at + 1, Documents) => proc'.doc.basis = NoFile
    <3>1. CASE Does(Here) = <<"load", "report">>
      <4>1. disk.report.kind = "doc" /\ proc'.doc.basis = disk.report.basis
        BY <1>2, <3>1 DEF StepDone, DocLeft
      <4> QED
        BY <1>4, <2>8, <3>1, <4>1 DEF RecordInv, Documents
    <3>2. CASE Does(Here) = <<"load", "training">>
      <4>1. proc'.doc.basis = IF proc.doc.basis = NoFile THEN disk.training ELSE proc.doc.basis
        BY <1>2, <3>2 DEF StepDone, DocLeft, Does
      <4> QED
        BY <2>4, <2>5, <2>8, <3>2, <4>1 DEF Documents
    <3>3. CASE Does(Here) \notin Documents
      <4>1. proc'.doc.basis = proc.doc.basis
        BY <1>2, <2>9, <3>3 DEF StepDone, DocLeft, Documents
      <4> QED
        BY <2>4, <2>8, <3>3, <4>1
    <3> QED
      BY <3>1, <3>2, <3>3 DEF Documents
  <2>11. \A a \in Arms \cap DOMAIN proc'.doc.models : proc'.doc.models[a] = Made(a)
    <3>1. CASE Does(Here) = <<"load", "report">>
      <4>1. disk.report.kind = "doc" /\ proc'.doc.models = disk.report.models
        BY <1>2, <3>1 DEF StepDone, DocLeft
      <4> QED
        BY <1>4, <4>1 DEF RecordInv
    <3>2. CASE Here.op = "name"
      <4>1. Done(Plan, proc.at, {<<"load", "training">>}) /\ Here.on \in Arms
        <5>1. Plan = Plans[script][proc.phase] /\ Here = Plans[script][proc.phase][proc.at]
          BY DEF Plan, Here
        <5> QED
          BY <1>1, <1>3, <3>2, <5>1, CausesHere DEF KnowsBefore
      <4>2. proc.base.models[Here.on] = Made(Here.on)
        BY <2>4, <4>1 DEF Record
      <4>3. proc'.doc.models = With(proc.doc.models, Here.on, proc.base.models[Here.on])
        BY <1>2, <3>2 DEF StepDone, DocLeft, Does
      <4> QED
        BY <2>4, <4>2, <4>3 DEF With
    <3>3. CASE Does(Here) # <<"load", "report">> /\ Here.op # "name"
      <4>1. proc'.doc.models = proc.doc.models
        BY <1>2, <2>1, <3>3 DEF StepDone, DocLeft
      <4> QED
        BY <2>4, <4>1
    <3> QED
      BY <3>1, <3>2, <3>3
  <2>12. proc'.phase # 1
    BY <1>3, <1>7
  <2> QED
    BY <1>1, <1>3, <1>5, <2>2, <2>3, <2>6, <2>7, <2>10, <2>11, <2>12 DEF RecordInv
<1> QED
  BY <1>6, <1>7

(* ----------------- a refusal has a cause, step by step ----------------- *)
LEMMA CauseAdvance ==
    ASSUME StateInv, CauseInv, Advance
    PROVE  CauseInv'
<1>1. /\ Running /\ proc.at <= Len(Plan) /\ ~Raises(Here) /\ StateInv'
      /\ UNCHANGED <<script, inputs, ended>>
      /\ \E new, d : StepDone(new, d)
  BY AdvanceEffect
<1>2. PICK new, d : StepDone(new, d)
  BY <1>1
<1>3. LeftInv' /\ (Undisturbed' => Undisturbed /\ proc'.flaws = proc.flaws)
  BY StillCalm DEF CauseInv, ExperimentNext
<1>4. proc'.phase = proc.phase /\ proc'.runtime = proc.runtime /\ proc'.flaws = proc.flaws \cup new
  BY <1>2 DEF StepDone
<1>5. ended'.as = "nothing"
  BY <1>1 DEF CauseInv
<1>6. ASSUME proc.phase = 1 \/ Undisturbed PROVE DocKnows'
  <2>1. DocKnows
    BY <1>1, <1>6 DEF CauseInv
  <2>2. ASSUME Does(Here) = <<"load", "report">> PROVE ReportKnows(AtEnd(Final))
    <3>1. proc.phase # 1 /\ proc.phase # Writer(script) /\ Here.op = "load" /\ Here.on = "report"
      BY <1>1, <2>2, CausesHere DEF Does
    <3>2. CalmInv /\ ~Reporting
      BY <1>6, <3>1 DEF CauseInv, Reporting
    <3>3. disk.report.kind = "doc"
      BY <1>1, <3>1 DEF Raises, Absent
    <3> QED
      BY <3>2, <3>3 DEF CalmInv
  <2> QED
    BY <2>1, <2>2, KnowsOn
<1>7. ASSUME Undisturbed' PROVE CalmInv'
  <2>1. CalmInv /\ DocKnows /\ proc.flaws = {} /\ proc'.flaws = {} /\ new = {}
    BY <1>1, <1>3, <1>4, <1>7 DEF CauseInv, CalmInv
  <2>2. (disk.report.kind = "doc" => ReportKnows(IF Reporting THEN proc.at ELSE AtEnd(Final)))'
    BY <2>1, ReportOn
  <2>3. (RestsOnTraining(script) => RecordInv)'
    BY <1>1, <2>1, RecordOn
  <2>4. (Holds => HeldInv)'
    <3>1. Holds' = Holds
      BY <1>1 DEF Holds, Train, Arms
    <3> QED
      BY <2>1, <3>1, HeldOn
  <2>5. disk'.training.kind = "doc" \/ disk'.training = NoFile
    BY <1>1, <1>2, <2>1 DEF StepDone, CalmInv, StateInv, IsDoc
  <2>6. disk'.report.kind = "doc" \/ disk'.report = NoFile
    BY <1>1, <1>2, <2>1 DEF StepDone, CalmInv, StateInv, IsDoc
  <2>7. proc'.doc.truth = {} /\ proc'.doc.told = {}
    <3>1. CASE Does(Here) = <<"load", "report">>
      <4>1. disk.report.kind = "doc" /\ proc'.doc.told = disk.report.told
        BY <1>2, <3>1 DEF StepDone, DocLeft
      <4>2. disk.report.told = {} /\ disk.report.truth = {}
        BY <2>1, <4>1 DEF CalmInv, ReportKnows
      <4>3. proc'.doc.truth = disk.report.truth
        BY <1>2, <2>1, <3>1 DEF StepDone, DocLeft
      <4> QED
        BY <4>1, <4>2, <4>3
    <3>2. CASE Does(Here) # <<"load", "report">>
      BY <1>1, <1>2, <2>1, <3>2 DEF StepDone, DocLeft, CalmInv
    <3> QED
      BY <3>1, <3>2
  <2>8. proc'.runtime = 1 /\ \A i \in Inputs : inputs'[i] = 1
    BY <1>1, <1>4, <2>1 DEF CalmInv
  <2> QED
    BY <2>1, <2>2, <2>3, <2>4, <2>5, <2>6, <2>7, <2>8 DEF CalmInv
<1> QED
  BY <1>3, <1>4, <1>5, <1>6, <1>7 DEF CauseInv, RaisedForCause

LEMMA CauseStart ==
    ASSUME StateInv, CauseInv, Start
    PROVE  CauseInv'
<1>1. /\ UNCHANGED <<script, inputs, disk>> /\ ended'.as = "nothing"
      /\ proc'.at = 1 /\ proc'.doc = Blank /\ proc'.flaws = {}
      /\ proc'.phase \in DOMAIN Plans[script] /\ ~Running
  BY StartEffect DEF Start
<1>2. LeftInv' /\ (Undisturbed' => Undisturbed /\ proc'.runtime = 1)
  BY StillCalm DEF CauseInv, ExperimentNext
<1>3. \A plan, makes, breaks : ~Stands(plan, 1, makes, breaks) /\ ~Done(plan, 1, makes)
  BY NothingDone
<1>4. \A makes : ~Known(script, proc'.phase, 1, makes)
  BY <1>3 DEF Known
<1>5. /\ proc'.doc.told = {} /\ proc'.doc.truth = {} /\ proc'.doc.read = {} /\ proc'.doc.basis = NoFile
      /\ proc'.doc.models = [a \in {} |-> 0]
  BY <1>1 DEF Blank
<1>6. DocKnows'
  BY <1>1, <1>4, <1>5 DEF DocKnows
<1>7. /\ ~Reporting' /\ ~Reporting /\ Final' = Final /\ Arms' = Arms /\ Train' = Train /\ TrainedOn' = TrainedOn
      /\ Record' = Record /\ \A a : Made(a)' = Made(a)
  <2>1. Train' = Train
    BY <1>1 DEF Train
  <2>2. TrainedOn' = TrainedOn
    BY <2>1 DEF TrainedOn
  <2>3. \A a : Made(a)' = Made(a)
    BY <2>2 DEF Made
  <2>4. Arms' = Arms
    BY <1>1 DEF Arms
  <2>5. Record' = Record
    BY <2>2, <2>3, <2>4 DEF Record
  <2>6. ~Reporting' /\ ~Reporting
    BY <1>1, <1>3 DEF Reporting
  <2> QED
    BY <1>1, <2>1, <2>2, <2>3, <2>4, <2>5, <2>6 DEF Final
<1>8. TrainingInv'
  <2>1. {b \in Arms' : Done(Plan', proc'.at, {<<"enter", b>>})} = {}
    BY <1>1, <1>3
  <2>2. proc'.doc.models = [a \in {b \in Arms' : Done(Plan', proc'.at, {<<"enter", b>>})} |-> Made(a)']
    BY <1>5, <2>1
  <2>3. proc'.doc.read = ReadsBy(Plan', proc'.at)
    BY <1>1, <1>3, <1>5 DEF ReadsBy
  <2> QED
    BY <1>1, <1>3, <1>5, <2>2, <2>3 DEF TrainingInv
<1>9. ASSUME Undisturbed' PROVE CalmInv'
  <2>1. CalmInv /\ proc'.runtime = 1
    BY <1>2, <1>9 DEF CauseInv
  <2>2. (disk.report.kind = "doc" => ReportKnows(IF Reporting THEN proc.at ELSE AtEnd(Final)))'
    BY <1>1, <1>7, <2>1 DEF CalmInv, ReportKnows, ReadBefore
  <2>3. ASSUME RestsOnTraining(script) PROVE RecordInv'
    <3>1. RecordInv
      BY <2>1, <2>3 DEF CalmInv
    <3>2. /\ disk'.training.kind = "doc" => disk'.training = Record /\ \A a \in Arms : disk'.models[a] = Made(a)
          /\ disk'.report.kind = "doc" =>
                disk'.report.basis = Record /\ \A a \in Arms \cap DOMAIN disk'.report.models : disk'.report.models[a] = Made(a)
      BY <1>1, <3>1 DEF RecordInv
    <3>3. /\ ~Done(Plan', proc'.at, {<<"load", "training">>}) /\ ~Done(Plan', proc'.at, Documents)
          /\ Arms' \cap DOMAIN proc'.doc.models = {}
      BY <1>1, <1>3, <1>5
    <3> QED
      BY <1>5, <1>7, <1>8, <3>2, <3>3 DEF RecordInv
  <2>4. ASSUME Holds' PROVE HeldInv'
    <3>1. Holds
      BY <1>1, <1>7, <2>4 DEF Holds
    <3>2. HeldInv
      BY <2>1, <3>1 DEF CalmInv
    <3> QED
      BY <1>1, <1>3, <3>2 DEF HeldInv
  <2> QED
    BY <1>1, <1>5, <2>1, <2>2, <2>3, <2>4 DEF CalmInv
<1> QED
  BY <1>1, <1>2, <1>6, <1>9 DEF CauseInv, RaisedForCause

LEMMA CauseEdit ==
    ASSUME StateInv, CauseInv, Edit
    PROVE  CauseInv'
<1>1. /\ UNCHANGED <<script, disk, proc, ended>>
      /\ \A i \in Inputs : inputs'[i] = inputs[i] \/ (inputs[i] = 1 /\ inputs'[i] = 2)
  BY EditEffect
<1>2. LeftInv' /\ ~Undisturbed'
  BY StillCalm DEF CauseInv, ExperimentNext
<1>3. (\A i \in Inputs : inputs'[i] = 1) => \A i \in Inputs : inputs[i] = 1
  BY <1>1
<1>4. Running' = Running /\ DocKnows' = DocKnows
  BY <1>1 DEF Running, DocKnows, ReadBefore, Arms
<1>5. Running' /\ proc'.phase = 1 => DocKnows'
  BY <1>1, <1>4 DEF CauseInv
<1>6. RaisedForCause'
  BY <1>1, <1>2, <1>3 DEF CauseInv, RaisedForCause
<1> QED
  BY <1>1, <1>2, <1>4, <1>5, <1>6 DEF CauseInv

(* An undisturbed training that reaches its end leaves the record and the models. *)
LEMMA TrainingWhole ==
    ASSUME StateInv, CalmInv, RestsOnTraining(script), Running, proc.phase = 1, proc.at = AtEnd(Plan)
    PROVE  disk.training = Record /\ \A a \in Arms : disk.models[a] = Made(a)
<1>1. TrainingInv /\ proc.doc.truth = {} /\ proc.doc.told = {} /\ IsDoc(proc.doc)
  BY DEF CalmInv, RecordInv, StateInv
<1>2. Plan = Train /\ Plan = Plans[script][1] /\ TrainsFirst(script) /\ Arms = ArmsOf[script]
  BY ScriptsKeepOrder DEF Plan, Train, StateInv, CausesInOrder, Arms
<1>3. /\ Stands(Plan, proc.at, Writing("training"), Altering)
      /\ Done(Plan, proc.at, {<<"seal", "">>})
      /\ \A a \in Arms : Done(Plan, proc.at, {<<"enter", a>>}) /\ Done(Plan, proc.at, {<<"put", a>>})
  BY <1>2 DEF TrainsFirst
<1>4. disk.training = proc.doc /\ proc.doc.sealed = TRUE /\ proc.doc.basis = NoFile /\ \A a \in Arms : disk.models[a] = Made(a)
  BY <1>1, <1>3 DEF TrainingInv
<1>5. proc.doc.models = [a \in Arms |-> Made(a)]
  <2>1. {b \in Arms : Done(Plan, proc.at, {<<"enter", b>>})} = Arms
    BY <1>3
  <2> QED
    BY <1>1, <2>1 DEF TrainingInv
<1>6. proc.doc.read = TrainedOn
  BY <1>1, <1>2 DEF TrainingInv, TrainedOn
<1> QED
  BY <1>1, <1>4, <1>5, <1>6 DEF IsDoc, Record

(* Undisturbed, a process that ends leaves the files as the others expect them. *)
LEMMA CalmEnd ==
    ASSUME StateInv, ModelsInv, CalmInv, Raise \/ Finish, disk' = disk,
           Raise => proc.phase # 1 /\ ~Reporting
    PROVE  CalmInv'
<1>1. /\ UNCHANGED <<script, inputs>> /\ ~Running' /\ Running
      /\ Finish => proc.at = AtEnd(Plan)
  BY EndEffect DEF Raise, Finish
<1>2. Train' = Train /\ Final' = Final /\ Arms' = Arms
  BY <1>1 DEF Train, Final, Arms
<1>3. TrainedOn' = TrainedOn
  BY <1>2 DEF TrainedOn
<1>4. \A a : Made(a)' = Made(a)
  BY <1>3 DEF Made
<1>5. Record' = Record
  BY <1>2, <1>3, <1>4 DEF Record
<1>6. (disk.report.kind = "doc" => ReportKnows(IF Reporting THEN proc.at ELSE AtEnd(Final)))'
  <2>1. Reporting => Plan = Final /\ proc.at = AtEnd(Final)
    BY <1>1 DEF Reporting, Plan, Final
  <2>2. disk.report.kind = "doc" => ReportKnows(AtEnd(Final))
    BY <2>1 DEF CalmInv
  <2>3. ~Reporting'
    BY <1>1 DEF Reporting
  <2> QED
    BY <1>2, <2>2, <2>3 DEF ReportKnows, ReadBefore
<1>7. ASSUME RestsOnTraining(script) PROVE RecordInv'
  <2>1. RecordInv
    BY <1>7 DEF CalmInv
  <2>2. disk.training.kind = "doc" => disk.training = Record /\ \A a \in Arms : disk.models[a] = Made(a)
    <3>1. CASE proc.phase = 1
      BY <1>1, <1>7, <3>1, TrainingWhole
    <3>2. CASE proc.phase # 1
      BY <2>1, <3>2 DEF RecordInv
    <3> QED
      BY <3>1, <3>2
  <2>3. disk.report.kind = "doc" =>
          disk.report.basis = Record /\ \A a \in Arms \cap DOMAIN disk.report.models : disk.report.models[a] = Made(a)
    BY <2>1 DEF RecordInv
  <2> QED
    BY <1>1, <1>2, <1>4, <1>5, <2>2, <2>3 DEF RecordInv
<1>8. ASSUME Holds' PROVE HeldInv'
  <2>1. Holds
    BY <1>1, <1>2, <1>8 DEF Holds
  <2>2. HeldInv
    BY <2>1 DEF CalmInv
  <2>3. disk.report.kind = "doc" => \A a \in DOMAIN disk.report.models : disk.models[a] = disk.report.models[a]
    <3>1. CASE proc.phase = 1
      <4>1. proc.at = AtEnd(Plan) /\ Plan = Train
        BY <1>1, <3>1 DEF Plan, Train
      <4>2. disk.report.models = proc.doc.models
        BY <1>1, <2>1, <2>2, <3>1, <4>1 DEF Holds, HeldInv
      <4> QED
        BY <1>1, <3>1, <4>1, <4>2, ModelsAgree
    <3>2. CASE proc.phase # 1
      BY <2>2, <3>2 DEF HeldInv
    <3> QED
      BY <3>1, <3>2
  <2> QED
    BY <1>1, <2>3 DEF HeldInv
<1> QED
  BY <1>1, <1>6, <1>7, <1>8 DEF CalmInv

LEMMA CauseEnd ==
    ASSUME StateInv, ModelsInv, ReadsInv, CauseInv, Raise \/ Finish \/ Crash
    PROVE  CauseInv'
<1>1. /\ UNCHANGED <<script, inputs>> /\ ~Running' /\ ended'.phase = proc.phase
      /\ Running /\ ended'.flaws = proc.flaws
  BY EndEffect DEF Raise, Finish, Crash, End
<1>2. LeftInv' /\ (Undisturbed' => Undisturbed)
  BY StillCalm DEF CauseInv, ExperimentNext
<1>3. Current(proc.doc.read) /\ proc.phase \in DOMAIN Plans[script] /\ proc.phase \in Nat
  <2>1. proc.phase \in DOMAIN Plans[script]
    BY <1>1 DEF StateInv, Running
  <2>2. proc.phase \in Nat
    BY <2>1, ScriptsKeepOrder DEF StateInv
  <2> QED
    BY <2>1, <2>2 DEF ReadsInv, ReadInv
<1>4. CASE Raise
  <2>1. disk' = disk /\ left' = left /\ proc.at <= Len(Plan) /\ Raises(Here) /\ ended'.as = "raised"
    BY <1>4 DEF Raise, End
  <2>2. Undisturbed' = Undisturbed
    BY <2>1 DEF Undisturbed
  <2>3. ASSUME Undisturbed PROVE proc.phase # 1 /\ ~Reporting /\ Here.on \in Writes(script) /\ disk[Here.on] = NoFile /\ CalmInv
    BY <1>1, <1>3, <2>1, <2>3, OnlyMissing DEF CauseInv
  <2>4. Undisturbed' => CalmInv'
    BY <1>4, <2>1, <2>2, <2>3, CalmEnd DEF Raise, Finish
  <2>5. ASSUME proc.flaws = {}, \A i \in Inputs : inputs[i] = 1, proc.phase = 1 PROVE FALSE
    BY <1>1, <1>3, <2>1, <2>5, FirstPasses DEF CauseInv
  <2>6. RaisedForCause'
    BY <1>1, <1>3, <2>1, <2>2, <2>3, <2>5 DEF RaisedForCause, Running
  <2> QED
    BY <1>1, <1>2, <2>4, <2>6 DEF CauseInv
<1>5. CASE Finish
  <2>1. disk' = disk /\ left' = left /\ ended'.as = "finished"
    BY <1>5 DEF Finish, End
  <2>2. ~Raise
    BY <1>5 DEF Raise, Finish, StateInv
  <2>3. Undisturbed' => CalmInv'
    BY <1>2, <1>5, <2>1, <2>2, CalmEnd DEF CauseInv
  <2> QED
    BY <1>1, <1>2, <2>1, <2>3 DEF CauseInv, RaisedForCause
<1>6. CASE Crash
  <2>1. ended'.as = "crashed"
    BY <1>6 DEF Crash, End
  <2>2. ~Undisturbed'
    BY <1>6, StillCalm DEF CauseInv, ExperimentNext
  <2> QED
    BY <1>1, <1>2, <2>1, <2>2 DEF CauseInv, RaisedForCause
<1> QED
  BY <1>4, <1>5, <1>6

LEMMA CauseInit ==
    ASSUME ExperimentInit
    PROVE  CauseInv
<1>1. /\ inputs = [i \in Inputs |-> 1]
      /\ ~Running /\ ended.as = "nothing"
      /\ disk.training = NoFile /\ disk.report = NoFile
  BY DEF ExperimentInit, Idle, Running
<1>2. NoFile.kind # "doc"
  BY DEF NoFile
<1>3. LeftInv
  BY ExperimentConstants DEF ExperimentInit, LeftInv
<1>4. RecordInv /\ HeldInv
  BY <1>1, <1>2 DEF RecordInv, HeldInv
<1>5. CalmInv
  BY <1>1, <1>2, <1>4 DEF CalmInv
<1> QED
  BY <1>1, <1>3, <1>5 DEF CauseInv, RaisedForCause

(* A process that raised had a flaw of its own or met an input that was    *)
(* edited, unless it came after the training; and while nothing was edited *)
(* nor flawed and nobody killed, only for a file its script had yet to     *)
(* write.                                                                  *)
THEOREM RefusedForCauseOnly == ExperimentSpec => []RaisedForCause
<1> DEFINE Inv == StateInv /\ ModelsInv /\ FlawsInv /\ ReadsInv /\ CauseInv
<1>1. ExperimentInit => Inv
  <2> SUFFICES ASSUME ExperimentInit PROVE ModelsInv /\ FlawsInv /\ ReadsInv
    BY StateInit, CauseInit
  <2>1. proc.doc = Blank /\ ~Running /\ disk.report.kind # "doc" /\ disk.training.kind # "doc"
    BY DEF ExperimentInit, Idle, Running, NoFile
  <2>2. proc.doc.read = {} /\ proc.doc.basis = NoFile
    BY <2>1 DEF Blank
  <2>3. ReadInv(proc.doc)
    BY <2>2 DEF ReadInv, Current
  <2>4. ModelsInv
    BY <2>1 DEF ModelsInv, Blank
  <2> QED
    BY <2>1, <2>3, <2>4 DEF FlawsInv, ReadsInv
<1>2. Inv /\ [ExperimentNext]_vars => Inv'
  <2> SUFFICES ASSUME Inv, [ExperimentNext]_vars PROVE Inv'
    OBVIOUS
  <2>1. CASE Start
    BY <2>1, StartEffect, ModelsStart, HonestStart, CauseStart
  <2>2. CASE Edit
    <3>1. UNCHANGED <<script, disk, proc, ended>> /\ StateInv'
      BY <2>2, EditEffect
    <3>2. ModelsInv'
      BY <3>1 DEF ModelsInv, ArmInv, Running, Plan, Arms
    <3> QED
      BY <2>2, <3>1, <3>2, HonestEdit, CauseEdit
  <2>3. CASE Advance
    BY <2>3, AdvanceEffect, ModelsAdvance, FlawsAdvance, ReadsAdvance, CauseAdvance
  <2>4. CASE Raise \/ Finish \/ Crash
    BY <2>4, EndEffect, ModelsEnd, HonestEnd, CauseEnd
  <2>5. CASE UNCHANGED vars
    <3>1. StateInv' /\ ModelsInv'
      BY <2>5 DEF vars, StateInv, ModelsInv, ArmInv, Running, Plan, Arms, IsDoc
    <3>2. FlawsInv'
      BY <2>5 DEF vars, FlawsInv, Hidden, BasisInv, Running, Plan
    <3>3. (\A i \in Inputs : InputInv(i))' = (\A i \in Inputs : InputInv(i)) /\ BaseInv' = BaseInv
      BY <2>5 DEF vars, BaseInv, InputInv, ReadBefore, Plan
    <3>4. ReadsInv'
      BY <2>5, <3>3 DEF vars, ReadsInv, ReadInv, Current, Running
    <3>5. CauseInv'
      <4>1. UNCHANGED <<script, inputs, disk, proc, left, ended>>
        BY <2>5 DEF vars
      <4>2. /\ Running' = Running /\ Plan' = Plan /\ Train' = Train /\ Final' = Final /\ Arms' = Arms
            /\ Undisturbed' = Undisturbed /\ LeftInv' = LeftInv /\ RaisedForCause' = RaisedForCause
        BY <4>1 DEF Running, Plan, Train, Final, Arms, Undisturbed, LeftInv, RaisedForCause
      <4>3. DocKnows' = DocKnows /\ Reporting' = Reporting
        BY <4>1, <4>2 DEF DocKnows, Reporting, ReadBefore
      <4>4. TrainedOn' = TrainedOn
        BY <4>2 DEF TrainedOn
      <4>5. \A a : Made(a)' = Made(a)
        BY <4>4 DEF Made
      <4>6. Record' = Record
        BY <4>2, <4>4, <4>5 DEF Record
      <4>7. TrainingInv' = TrainingInv
        BY <4>1, <4>2, <4>5 DEF TrainingInv
      <4>8. RecordInv' = RecordInv
        BY <4>1, <4>2, <4>5, <4>6, <4>7 DEF RecordInv
      <4>9. HeldInv' = HeldInv /\ Holds' = Holds
        BY <4>1, <4>2 DEF HeldInv, Holds
      <4>10. CalmInv' = CalmInv
        BY <4>1, <4>2, <4>3, <4>8, <4>9 DEF CalmInv, ReportKnows, ReadBefore
      <4> QED
        BY <4>1, <4>2, <4>3, <4>10 DEF CauseInv
    <3> QED
      BY <3>1, <3>2, <3>4, <3>5
  <2> QED
    BY <2>1, <2>2, <2>3, <2>4, <2>5 DEF ExperimentNext
<1>3. Inv => RaisedForCause
  BY DEF CauseInv
<1> QED
  BY <1>1, <1>2, <1>3, PTL DEF ExperimentSpec
=============================================================================
