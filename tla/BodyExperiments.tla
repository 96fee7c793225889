--------------------------- MODULE BodyExperiments ---------------------------
(***************************************************************************)
(* The scripts that train function bodies, each in separate processes:    *)
(* train writes model files and training.json, measure reads them and      *)
(* writes report.json, audit reads both.  neutral_binding_training.py and  *)
(* function_body_training.py share this form.                              *)
(***************************************************************************)
EXTENDS ExperimentSteps

(* ---------------------- neutral_binding_training.py -------------------- *)
NeutralBank == <<Read("data")>>
NeutralTrain ==
    NeutralBank \o <<Pin("source")>>
    \o ForArms(Pair, LAMBDA a : <<Fit(a, {"nonfinite"}), Check("nonfinite"), Put(a), Enter(a), Save("training")>>)
    \o <<Work({"moved"}), Check("moved"), Pin("source"), Seal, Save("training")>>
NeutralAudit ==
    NeutralBank \o <<Load("training"), Basis, Whole, Trained, Recall("data")>>
    \o ForArms(Pair, LAMBDA a : <<Same(a)>>)
    \o <<Require("misjudged")>>
    \o ForArms(Pair, LAMBDA a : <<Agree(a)>>)
    \o <<Require("mutated"), Require("unfaithful")>>
NeutralMeasure ==
    NeutralBank \o <<Load("training"), Pin("source"), Recall("data")>>
    \o ForArms(Pair, LAMBDA a : <<Same(a)>>)
    \o <<Work({"misjudged"}), Check("misjudged")>>
    \o ForArms(Pair, LAMBDA a :
          <<Name(a), Work({"offline"}), Check("offline"), Save("report"),
            Work({"mutated", "unfaithful"}), Note("mutated"), Note("unfaithful")>>)
    \o <<Seal>> \o NeutralAudit \o <<Save("report")>>

(* ----------------------- function_body_training.py --------------------- *)
BodyBank == <<Read("data")>>
BodyTrain ==
    BodyBank \o <<Pin("source")>>
    \o ForArms(Pair, LAMBDA a : <<Fit(a, {"nonfinite"}), Check("nonfinite"), Put(a), Enter(a), Save("training")>>)
    \o <<Work({"moved"}), Check("moved"), Pin("source"), Seal, Save("training")>>
BodyAudit ==      \* the training record's arms are those the report names: their set is not compared
    BodyBank \o <<Load("training"), Basis, Whole, Trained, Recall("data")>>
    \o ForArms(Pair, LAMBDA a : <<Same(a)>>)
    \o <<Require("misjudged")>>
    \o ForArms(Pair, LAMBDA a : <<Agree(a)>>)
    \o <<Require("mutated"), Require("unfaithful")>>
BodyMeasure ==
    BodyBank \o <<Load("training"), Pin("source"), Recall("data")>>
    \o ForArms(Pair, LAMBDA a : <<Same(a)>>)
    \o <<Work({"misjudged"}), Check("misjudged")>>
    \o ForArms(Pair, LAMBDA a :
          <<Name(a), Work({"offline"}), Check("offline"), Save("report"),
            Work({"mutated", "unfaithful"}), Note("mutated"), Note("unfaithful")>>)
    \o <<Seal>> \o BodyAudit \o <<Save("report")>>

(* ----------------------- body_argument_aliases.py ---------------------- *)
AliasBuild == <<Pin("data")>>
AliasSource == <<Pin("source"), Pin("data")>>
AliasTrain ==     \* no check of the losses; the reloaded model must answer as the trained one
    <<Fit("candidate", {"nonfinite"}), Put("candidate"), Work({"lossy"}), Check("lossy"), Enter("candidate")>>
AliasAudit == AliasBuild \o <<Require("lossy")>>
AliasRun == AliasBuild \o AliasSource \o AliasTrain \o AliasAudit \o <<Rewrite("report")>>

(* ------------------------- body_loss_masking.py ------------------------ *)
MaskingTrain ==
    <<Fit("candidate", {"nonfinite"}), Put("candidate"), Work({"lossy"}), Check("lossy"), Enter("candidate")>>
MaskingAudit == AliasAudit \o AliasBuild     \* the draws and the counts of supervised bytes are redone
MaskingRun == AliasBuild \o AliasSource \o MaskingTrain \o MaskingAudit \o <<Rewrite("report")>>
=============================================================================
