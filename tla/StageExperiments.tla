-------------------------- MODULE StageExperiments ---------------------------
(***************************************************************************)
(* The scripts about generation in stages: the evaluation rows are fixed   *)
(* by digest before the training and read only after it.                   *)
(***************************************************************************)
EXTENDS ExperimentSteps

(* ----------------------- train_staged_protocol.py ---------------------- *)
StagedData == <<Pin("data")>>
StagedArm(a) == <<Fit(a, {"nonfinite"}), Check("nonfinite")>>
StagedFunctional == <<Work({"offline"}), Check("offline")>>
StagedRun ==
    StagedData \o <<Pin("source"), Pin("data"), Read("regression")>>
    \o ForArms(Pair, LAMBDA a :
          <<Work({"moved"}), Check("moved")>> \o StagedArm(a) \o <<Put(a), Enter(a), Rewrite("training")>>)
    \o <<Pin("data"), Again("regression"), Work({"misjudged"}), Check("misjudged")>>
    \o ForArms(Pair, LAMBDA a :      \* differing readouts of the exported file are written down, not refused
          <<Work({"lossy", "mutated"}), Note("lossy")>> \o StagedFunctional \o <<Check("mutated")>>)
    \o <<Pin("data"), Rewrite("report")>>

(* ----------------------- all_stage_protection.py ----------------------- *)
AllStageTrain == <<Fit("candidate", {"nonfinite"}), Check("nonfinite")>>
AllStageFrozen == <<Check("unfaithful")>>
AllStageFunctional == <<Work({"offline"}), Check("offline")>>
AllStageRun ==        \* the report is first written at the very end
    <<Pin("source"), Pin("data"), Read("regression")>>
    \o AllStageTrain \o <<Put("candidate"), Work({"moved", "unfaithful"})>> \o AllStageFrozen
    \o <<Check("moved"), Again("regression"), Work({"misjudged"}), Check("misjudged"), Work({"mutated"})>>
    \o AllStageFunctional
    \o <<Check("mutated"), Work({"lossy"}), Note("lossy"), Enter("candidate"), Rewrite("report")>>

(* --------------------------- staged_code_fit.py ------------------------ *)
CodeFitTrain(a) == <<Fit(a, {"nonfinite"}), Check("nonfinite")>>
CodeFitRun ==         \* the evaluation rows are read again only after both trainings
    <<Pin("source"), Pin("data"), Read("regression")>>
    \o ForArms(Pair, LAMBDA a :
          <<Work({"moved"}), Check("moved")>> \o CodeFitTrain(a) \o <<Put(a), Enter(a), Rewrite("report")>>)
    \o <<Again("regression"), Work({"misjudged"}), Check("misjudged")>>
    \o ForArms(Pair, LAMBDA a :
          StagedFunctional \o <<Work({"lossy", "mutated"}), Note("lossy"), Check("mutated")>>)
    \o <<Rewrite("report")>>
=============================================================================
