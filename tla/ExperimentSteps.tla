--------------------------- MODULE ExperimentSteps ---------------------------
(***************************************************************************)
(* The steps the research scripts under src/scripts are written in.  Each  *)
(* script trains or loads checkpoints, measures them, writes a report and  *)
(* audits it; a plan is the sequence of its steps in program order.  What  *)
(* a step does to the files and to the running process is in ExperimentRun.*)
(*                                                                         *)
(* "risk" is what can go wrong in the work of a step, by the name of the   *)
(* check the scripts have for it:                                          *)
(*   nonfinite  a loss or a parameter stops being finite                   *)
(*   moved      a frozen part, or the shared initialization, is trained    *)
(*   lossy      the exported file does not hold the trained model          *)
(*   drift      a repeated training gives other bytes                      *)
(*   mutated    an evaluation changes the parameters                       *)
(*   misjudged  the validator passes a wrong control or fails a right one  *)
(*   offline    the validator has no verdict at all                        *)
(*   unfaithful known earlier outputs are not reproduced                   *)
(***************************************************************************)
EXTENDS Naturals, SequencesExt

Inputs == {"data", "source", "regression"}   \* rows, tasks and protocol; the checkpoint to start from; older rows

LOCAL Step(op, on, risk) == [op |-> op, on |-> on, risk |-> risk]

Work(risk)   == Step("work", "", risk)       \* something of "risk" may happen, or nothing
Fit(a, risk) == Step("fit", a, risk)         \* train arm a in memory
Take(a)      == Step("fit", a, {})           \* arm a's model is unpacked from a pinned input
Put(a)       == Step("put", a, {})           \* write arm a's model file
Enter(a)     == Step("enter", a, {})         \* the document names arm a by the digest of its model
Check(f)     == Step("check", f, {})         \* raise if f happened in this process
Note(f)      == Step("note", f, {})          \* write down in the report whether f happened
Require(f)   == Step("require", f, {})       \* raise if the report says f happened
Pin(i)       == Step("pin", i, {})           \* read input i; raise unless it is the declared one
Read(i)      == Step("read", i, {})          \* read input i and record its digest
Recall(i)    == Step("recall", i, {})        \* read input i; raise unless it is the one training recorded
Again(i)     == Step("again", i, {})         \* raise unless input i is as this process read it before
Same(a)      == Step("same", a, {})          \* raise unless arm a's file is the one training recorded
Agree(a)     == Step("agree", a, {})         \* raise unless the report measured the arm a that was trained
Save(f)      == Step("save", f, {})          \* replace file f: a temporary file, then a rename
Rewrite(f)   == Step("rewrite", f, {})       \* write file f in place
Load(f)      == Step("load", f, {})
Name(a)      == Step("name", a, {})          \* the report takes over the digest training recorded for arm a
Held(a)      == Step("held", a, {})          \* raise unless arm a's file is the one the report names
Covers       == Step("covers", "", {})       \* raise unless the report names every arm
Seal         == Step("seal", "", {})         \* the document under way is declared finished
Finished     == Step("finished", "", {})     \* raise unless the report is sealed
Whole        == Step("whole", "", {})        \* raise unless the report is sealed and has every arm
Trained      == Step("trained", "", {})      \* raise unless the training record is sealed and has every arm
Basis        == Step("basis", "", {})        \* raise unless the report rests on the training record as it is

(* The steps of every arm in turn. *)
ForArms(arms, StepsOf(_)) == FlattenSeq([n \in DOMAIN arms |-> StepsOf(arms[n])])

(* Several checks in a row. *)
Each(Kind(_), names) == [n \in DOMAIN names |-> Kind(names[n])]

Pair == <<"control", "candidate">>
Sole == <<"candidate">>
=============================================================================
