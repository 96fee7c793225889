------------------------ MODULE ExperimentDiscipline -------------------------
(***************************************************************************)
(* The order the scripts keep: which step may come only after, or only     *)
(* before, which other.  These are facts about the plans of Experiments,   *)
(* each of them finite; TLC evaluates them all, and the proofs about the   *)
(* processes that carry the plans out need no others.                      *)
(***************************************************************************)
EXTENDS Experiments

Steps == [op : STRING, on : STRING, risk : SUBSET STRING]
Does(t) == <<t.op, t.on>>

(* Of the steps before place k, one of "makes" is not followed by one of "breaks". *)
Stands(plan, k, makes, breaks) ==
    \E j \in 1..(k - 1) : /\ Does(plan[j]) \in makes
                          /\ \A n \in (j + 1)..(k - 1) : Does(plan[n]) \notin breaks

Done(plan, k, makes) == \E j \in 1..(k - 1) : Does(plan[j]) \in makes

(* Before place k, flaw f was looked for after all work in which it may arise. *)
Settled(plan, k, f, ops) ==
    \/ \A n \in 1..(k - 1) : f \notin plan[n].risk
    \/ \E j \in 1..(k - 1) : /\ plan[j].op \in ops /\ plan[j].on = f
                             /\ \A n \in j..(k - 1) : f \notin plan[n].risk

AtEnd(plan) == Len(plan) + 1
Loads(plan, f) == Done(plan, AtEnd(plan), {<<"load", f>>})
ReadsReport(s) == \E p \in DOMAIN Plans[s] : Loads(Plans[s][p], "report")
RestsOnTraining(s) == \E p \in DOMAIN Plans[s] : Loads(Plans[s][p], "training")

(* ------------------- the models a document names ----------------------- *)
Renamed(arms)  == ({"enter", "name"} \X arms) \cup {<<"load", "report">>}
Remade(a)      == {<<"fit", a>>, <<"name", a>>, <<"load", "report">>}
Reloaded(a)    == {<<"put", a>>, <<"load", "training">>}
Rejudged(arms) == Renamed(arms) \cup {<<"load", "training">>}
Rewritten(a, arms) == Renamed(arms) \cup {<<"put", a>>}

(* A training names what it fitted itself, and writes it after it was fitted. *)
NamesItsOwn(plan) ==
    /\ ~Loads(plan, "report")
    /\ \A n \in DOMAIN plan :
          /\ plan[n].op # "name"
          /\ plan[n].op = "enter" =>
                /\ Done(plan, AtEnd(plan), {<<"fit", plan[n].on>>})
                /\ Stands(plan, AtEnd(plan), {<<"put", plan[n].on>>}, {<<"fit", plan[n].on>>})
                /\ Stands(plan, AtEnd(plan), {<<"enter", plan[n].on>>}, Remade(plan[n].on))

(* A later process compares every arm with its file once the documents are read. *)
ComparesArms(plan, arms) ==
    \A a \in arms :
       \/ Stands(plan, AtEnd(plan), {<<"held", a>>}, Rewritten(a, arms))
       \/ /\ Stands(plan, AtEnd(plan), {<<"same", a>>}, Reloaded(a))
          /\ Stands(plan, AtEnd(plan), {<<"agree", a>>}, Rejudged(arms))

ModelsInOrder(s) ==
    /\ \A p \in DOMAIN Plans[s] : \A n \in DOMAIN Plans[s][p] :
          /\ Plans[s][p][n].op \in {"put", "enter", "name"} => Plans[s][p][n].on \in ArmsOf[s]
          /\ Plans[s][p][n].op \in {"load", "save", "rewrite"} => Plans[s][p][n].on \in {"training", "report"}
          /\ Plans[s][p][n].op = "seal" => Plans[s][p][n].on = ""
    /\ 1 \in DOMAIN Plans[s] => NamesItsOwn(Plans[s][1])
    /\ s \in ComparesFiles => \A p \in DOMAIN Plans[s] \ {1} : ComparesArms(Plans[s][p], ArmsOf[s])

(* ------------------------- the flaws it tells of ----------------------- *)
(* A report that is read again while it was not yet finished is refused.   *)
RefusesUnfinished(s) ==
    \A p \in DOMAIN Plans[s] :
       Loads(Plans[s][p], "report") =>
          /\ \A n \in DOMAIN Plans[s][p] : Plans[s][p][n].op # "seal"
          /\ Stands(Plans[s][p], AtEnd(Plans[s][p]), {<<"whole", "">>, <<"finished", "">>}, {<<"load", "report">>})

FlawsInOrder(s) ==
    \A p \in DOMAIN Plans[s] : LET plan == Plans[s][p] IN
       /\ \A f \in Vouches[s] : Settled(plan, AtEnd(plan), f, {"check", "note"})
       /\ \A n \in DOMAIN plan :
             /\ Does(plan[n]) = <<"load", "report">> => \A m \in 1..n : plan[m].risk = {}
             /\ Does(plan[n]) \in {<<"save", "report">>, <<"rewrite", "report">>} =>
                   \/ \A f \in Vouches[s] : Settled(plan, n, f, {"check", "note"})
                   \/ RefusesUnfinished(s) /\ ~Done(plan, n, {<<"seal", "">>, <<"load", "report">>})
                   \/ ~ReadsReport(s)
             /\ Does(plan[n]) \in {<<"save", "training">>, <<"rewrite", "training">>} /\ RestsOnTraining(s) =>
                   /\ \A f \in Vouches[s] : Settled(plan, n, f, {"check"})
                   /\ ~Loads(plan, "report") /\ ~Loads(plan, "training")

(* ---------------------- the inputs it was made of ---------------------- *)
Reading(i) == {<<"pin", i>>, <<"read", i>>, <<"recall", i>>}
Anew(i) == Reading(i) \cup {<<"load", "report">>, <<"load", "training">>}

(* Input i is never read but as the declared one. *)
Pinned(s, i) == \A p \in DOMAIN Plans[s] : ~Done(Plans[s][p], AtEnd(Plans[s][p]), {<<"read", i>>, <<"recall", i>>})
(* It is compared with what was read before, after it was last read. *)
ReadAgain(s, plan, i) == /\ ~RestsOnTraining(s)
                         /\ Stands(plan, AtEnd(plan), {<<"again", i>>}, Anew(i))
(* It is read once. *)
ReadOnce(plan, i) == /\ \A f \in {"training", "report"} : ~Loads(plan, f)
                     /\ \A m, n \in DOMAIN plan : Does(plan[m]) \in Reading(i) /\ Does(plan[n]) \in Reading(i) => m = n
(* It is compared with what the training recorded, and the training with the report's. *)
ReadAsTrained(plan, i) ==
    /\ Loads(plan, "training")
    /\ Stands(plan, AtEnd(plan), {<<"recall", i>>}, Anew(i))
    /\ Stands(plan, AtEnd(plan), {<<"basis", "">>}, {<<"load", "report">>, <<"load", "training">>})

InputsInOrder(s) ==
    /\ \A p \in DOMAIN Plans[s] : LET plan == Plans[s][p] IN
          /\ s \notin DigestsLate => \A i \in Inputs :
                Pinned(s, i) \/ ReadAgain(s, plan, i) \/ ReadOnce(plan, i) \/ ReadAsTrained(plan, i)
          /\ RestsOnTraining(s) => \A n \in DOMAIN plan :
                Does(plan[n]) \in {<<"save", "report">>, <<"rewrite", "report">>}
                   => Done(plan, n, {<<"load", "training">>, <<"load", "report">>})

(* ------------------------ the causes it is refused for ----------------- *)
Writing(f) == {<<"save", f>>, <<"rewrite", f>>}
Naming(a) == {<<"enter", a>>, <<"name", a>>}

(* What is in file f of what "makes" is. *)
Written(plan, k, f, makes) == \E m \in 1..(k - 1) : Does(plan[m]) \in Writing(f) /\ Done(plan, m, makes)

Altering == {"enter", "name", "note", "seal", "load", "pin", "read", "recall"} \X STRING

(* The process that writes the report the later ones read. *)
Writer(s) == IF RestsOnTraining(s) THEN 2 ELSE 1

(* One of "makes" went into the document in hand before place k of process p: *)
(* in this process, or in the one whose report it read.                       *)
Known(s, p, k, makes) ==
    \/ Stands(Plans[s][p], k, makes, {<<"load", "report">>})
    \/ /\ Done(Plans[s][p], k, {<<"load", "report">>})
       /\ Written(Plans[s][Writer(s)], AtEnd(Plans[s][Writer(s)]), "report", makes)

(* The inputs read before place k, as they are unless somebody edits them. *)
ReadsBy(plan, k) == {<<i, 1>> : i \in {j \in Inputs : Done(plan, k, Reading(j))}}

(* What a step compares is there, and a file that is read is one of the script's. *)
KnowsBefore(s, p, n) == LET plan == Plans[s][p] t == Plans[s][p][n] IN
    /\ t.op \in {"covers", "whole"} => \A a \in ArmsOf[s] : Known(s, p, n, Naming(a))
    /\ t.op \in {"finished", "whole"} => Known(s, p, n, {<<"seal", "">>})
    /\ t.op = "again" => Known(s, p, n, Reading(t.on))
    /\ t.op \in {"recall", "name", "same", "agree", "trained", "basis"} =>
          Done(plan, n, {<<"load", "training">>})
    /\ t.op = "recall" => Done(Plans[s][1], AtEnd(Plans[s][1]), Reading(t.on))
    /\ t.op \in {"same", "agree", "held"} => t.on \in ArmsOf[s]
    /\ t.op \in {"agree", "held"} => Known(s, p, n, Naming(t.on))
    /\ t.op = "held" => Done(plan, n, {<<"load", "report">>}) /\ ~RestsOnTraining(s)
                          /\ Stands(Plans[s][1], AtEnd(Plans[s][1]), Writing("report"), Renamed(ArmsOf[s]))
    /\ t.op \in {"pin", "read", "recall", "again"} => t.on \in Inputs
    /\ t.op = "load" => /\ t.on \in Writes(s)
                        /\ Done(plan, n, Writing("report")) => Done(plan, n, {Does(t)})

(* The report is one process's work, and its last step but for checks is to write it. *)
ReportsOnce(s) ==
    /\ \A p \in DOMAIN Plans[s] \ {Writer(s)} : ~Done(Plans[s][p], AtEnd(Plans[s][p]), Writing("report"))
    /\ Writer(s) \in DOMAIN Plans[s]
    /\ ~Loads(Plans[s][Writer(s)], "report")

(* Nothing but the first process trains; it loads nothing, and what the others rest on *)
(* is the whole of its work.                                                           *)
TrainsFirst(s) ==
    /\ \A p \in DOMAIN Plans[s] \ {1} : \A n \in DOMAIN Plans[s][p] :
          Plans[s][p][n].op \notin {"fit", "put", "enter"} /\ Does(Plans[s][p][n]) \notin Writing("training")
    /\ LET plan == Plans[s][1] IN
       /\ \A n \in DOMAIN plan : plan[n].op \notin {"load", "recall", "name", "same", "agree", "held", "trained", "basis"}
       /\ RestsOnTraining(s) =>
             /\ Stands(plan, AtEnd(plan), Writing("training"), Altering)
             /\ Done(plan, AtEnd(plan), {<<"seal", "">>})
             /\ \A a \in ArmsOf[s] : Done(plan, AtEnd(plan), {<<"enter", a>>}) /\ Done(plan, AtEnd(plan), {<<"put", a>>})
             /\ \A n \in DOMAIN plan :
                   /\ plan[n].op = "fit" => ReadsBy(plan, n) = ReadsBy(plan, AtEnd(plan))
                   /\ plan[n].op \in {"put", "enter"} => Done(plan, n, {<<"fit", plan[n].on>>})

CausesInOrder(s) ==
    /\ \A p \in DOMAIN Plans[s] : \A n \in DOMAIN Plans[s][p] : KnowsBefore(s, p, n)
    /\ ReportsOnce(s) /\ TrainsFirst(s)

ASSUME ScriptsKeepOrder ==
    \A s \in DOMAIN Plans : /\ \A p \in DOMAIN Plans[s] : p \in Nat /\ Plans[s][p] \in Seq(Steps)
                            /\ ModelsInOrder(s) /\ FlawsInOrder(s) /\ InputsInOrder(s) /\ CausesInOrder(s)
=============================================================================
