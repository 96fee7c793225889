--------------------------- MODULE CopyExperiments ---------------------------
(***************************************************************************)
(* The scripts about copying names out of the prompt: one process trains   *)
(* (or unpacks) every arm, measures it, rewrites report.json as it goes    *)
(* and audits the report last; the report may be audited again later.      *)
(***************************************************************************)
EXTENDS ExperimentSteps

(* ------------- portable_quality.py, whose helpers the others use ------- *)
Checkpoints == <<Pin("source")>>
QualityInputs == <<Pin("data")>>
FunctionalProbes == <<Work({"offline"}), Check("offline")>>
AuditQuality == QualityInputs \o <<Whole, Require("mutated")>>   \* the flags of the end are part of the report
RetainedQuality == <<Load("report")>>
QualityRun ==
    QualityInputs \o Checkpoints
    \o ForArms(Pair, LAMBDA a : <<Take(a), Put(a)>>)
    \o ForArms(Pair, LAMBDA a : <<Work({"mutated"}), Enter(a), Rewrite("report")>>)
    \o FunctionalProbes \o <<Pin("data"), Note("mutated"), Check("mutated"), Seal>>
    \o AuditQuality \o <<Rewrite("report")>>

(* ------------------------ train_gated_copy.py -------------------------- *)
GatedAudit == <<Pin("data"), Require("lossy"), Check("unfaithful"), Check("nonfinite")>>
GatedRun(a) ==
    <<Pin("source"), Pin("data"), Fit(a, {"nonfinite"}), Put(a), Work({"lossy"}), Check("lossy"),
      Enter(a), Work(IF a = "control" THEN {"unfaithful"} ELSE {}), Rewrite("training"), Check("unfaithful")>>
    \o GatedAudit \o <<Rewrite("training")>>
GatedPair ==
    GatedRun("control") \o <<Check("unfaithful")>>
    \o GatedRun("control") \o <<Work({"drift"}), Check("drift")>>
    \o GatedRun("candidate")
    \o FunctionalProbes \o <<Rewrite("report")>>

(* ------------------------- copy_curriculum.py -------------------------- *)
CurriculumSchedule == <<Pin("data")>>
CurriculumTrain(a) ==
    <<Fit(a, {"nonfinite"}), Check("nonfinite"), Put(a), Work({"lossy"}), Check("lossy")>>
CurriculumTrace == <<Check("nonfinite"), Pin("data")>>
CurriculumFunctional == FunctionalProbes
CurriculumAudit ==
    <<Pin("data"), Covers>> \o CurriculumSchedule \o Each(Require, <<"drift", "mutated", "lossy">>)
CurriculumRetained == <<Load("report")>>
CurriculumRun ==
    <<Pin("data")>> \o CurriculumSchedule \o QualityInputs \o Checkpoints \o <<Rewrite("report")>>
    \o ForArms(Pair, LAMBDA a :
          CurriculumTrain(a) \o CurriculumTrain(a) \o <<Work({"drift"}), Check("drift")>> \o CurriculumTrace
          \o <<Work({"mutated"})>> \o CurriculumFunctional
          \o <<Check("mutated"), Enter(a), Rewrite("report")>>)
    \o CurriculumAudit

(* ------------------------ namespace_retention.py ----------------------- *)
NamespaceSchedule == <<Pin("data")>>
NamespaceInputs == QualityInputs \o NamespaceSchedule
NamespaceTrain(a) ==
    <<Fit(a, {"nonfinite"}), Check("nonfinite"), Work({"moved"}), Check("moved"),
      Put(a), Work({"lossy"}), Check("lossy")>>
NamespaceTrace == <<Check("nonfinite"), Pin("data")>>
NamespaceAudit ==
    NamespaceInputs \o <<Covers>> \o Each(Require, <<"drift", "mutated", "moved", "lossy">>)
NamespaceRun ==
    NamespaceInputs \o Checkpoints \o <<Rewrite("report")>>
    \o ForArms(Pair, LAMBDA a :
          NamespaceTrain(a) \o NamespaceTrain(a) \o <<Work({"drift"}), Check("drift")>> \o NamespaceTrace
          \o <<Work({"mutated"})>> \o CurriculumFunctional
          \o <<Check("mutated"), Enter(a), Rewrite("report")>>)
    \o NamespaceAudit

(* ----------------------- protected_sequential.py ----------------------- *)
ProtectedTrain(a) ==      \* the frozen base is compared after every update
    <<Fit(a, {"nonfinite", "moved"}), Check("nonfinite"), Check("moved"),
      Put(a), Work({"lossy"}), Check("lossy")>>
ProtectedTrace == <<Check("moved"), Pin("data"), Check("nonfinite")>>
ProtectedFunctional == FunctionalProbes
ProtectedAudit ==
    <<Pin("data"), Covers>> \o Each(Require, <<"lossy", "moved", "drift", "mutated">>)
ProtectedRun ==           \* no report before the first arm is done
    <<Pin("data")>> \o Checkpoints \o QualityInputs
    \o ForArms(Pair, LAMBDA a :
          ProtectedTrain(a) \o ProtectedTrain(a) \o <<Work({"drift"}), Check("drift")>> \o ProtectedTrace
          \o <<Work({"mutated"})>> \o ProtectedFunctional
          \o <<Check("mutated"), Enter(a), Rewrite("report")>>)
    \o ProtectedAudit

(* -------------------- copy_transition_diagnostic.py -------------------- *)
TransitionCases == <<Pin("data")>>
TransitionPrepare == <<Pin("source")>> \o ForArms(Pair, LAMBDA a : <<Take(a), Put(a)>>)
TransitionAudit == TransitionCases \o <<Covers, Require("mutated"), Require("unfaithful")>>
TransitionRetained == <<Load("report")>>
TransitionRun ==          \* the raw report is kept even where the replay is then refused
    TransitionCases \o TransitionPrepare
    \o ForArms(Pair, LAMBDA a :
          <<Work({"unfaithful", "mutated"}), Enter(a), Note("mutated"), Note("unfaithful"), Rewrite("report"),
            Check("mutated"), Check("unfaithful")>>)
    \o TransitionAudit

(* --------------------- portable_full_training.py ----------------------- *)
FirstStepGate == <<Pin("data")>>
FullTrain(a) ==
    <<Fit(a, {"nonfinite", "unfaithful"}), Check("unfaithful"), Check("nonfinite"), Put(a),
      Work({"lossy"}), Check("lossy")>>
FullRun ==
    FirstStepGate \o <<Pin("source"), Pin("data"), Work({"unfaithful"}), Check("unfaithful")>>
    \o ForArms(Pair, LAMBDA a :
          FullTrain(a) \o <<Rewrite("report")>> \o FullTrain(a)
          \o <<Rewrite("report"), Work({"drift"}), Note("drift"), Enter(a), Rewrite("report"), Check("drift")>>)
FullCompare ==
    <<Load("report"), Covers, Require("drift")>> \o ForArms(Pair, LAMBDA a : <<Held(a)>>)

(* --- alias_oracle_diagnostic.py, start_selection_training.py: both start - *)
(* from the retained protected_sequential.py run                             *)
FrozenCheckpoint == <<Pin("source")>>
OracleReplay(risk) == <<Work(risk)>> \o Each(Check, <<"drift", "unfaithful">>)
OracleRun ==              \* inference only; the first mode is the unassisted one with known outputs
    <<Pin("data")>> \o QualityInputs \o FrozenCheckpoint
    \o ForArms(Pair, LAMBDA mode :
          OracleReplay(IF mode = "control" THEN {"drift", "unfaithful"} ELSE {"drift"}) \o <<Rewrite("report")>>)
    \o OracleReplay({"drift", "unfaithful"}) \o FunctionalProbes
    \o <<Work({"mutated"}), Check("mutated"), Seal, Rewrite("report")>>

SelectionTrain(a) ==      \* only the two pointer matrices may change, compared after every update
    <<Fit(a, {"nonfinite", "moved"}), Check("nonfinite"), Check("moved"),
      Put(a), Work({"lossy"}), Check("lossy")>>
SelectionRun ==
    <<Pin("data")>> \o FrozenCheckpoint \o QualityInputs \o <<Work({"unfaithful"}), Check("unfaithful")>>
    \o ForArms(Pair, LAMBDA a :
          SelectionTrain(a) \o SelectionTrain(a) \o <<Work({"drift"}), Check("drift"), Work({"mutated"})>>
          \o ProtectedFunctional \o <<Check("mutated"), Enter(a), Rewrite("report")>>)
    \o <<Seal, Rewrite("report")>>
=============================================================================
