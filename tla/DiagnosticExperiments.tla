------------------------ MODULE DiagnosticExperiments ------------------------
(***************************************************************************)
(* The scripts that train nothing, or one update: they load stored models, *)
(* measure them, audit the report and write it.                            *)
(***************************************************************************)
EXTENDS BodyExperiments, NameExperiments

(* ------------------------- stored replies, one pass -------------------- *)
(* evaluate_canonical_binding.py: the unchanged prompts must give the      *)
(* stored replies again.                                                   *)
BindingSource == <<Pin("source")>> \o AliasAudit
BindingAudit == AliasBuild \o <<Check("unfaithful")>>
BindingRun == BindingSource \o AliasBuild \o <<Work({"unfaithful"})>> \o BindingAudit \o <<Rewrite("report")>>

(* evaluate_argument_assistance.py *)
AssistanceRecords == ArgumentBuild \o <<Pin("data")>>
AssistanceInputs == HeaderInitial \o <<Pin("source")>> \o ArgumentAudit
AssistanceAudit == AssistanceRecords
AssistanceRun == AssistanceInputs \o AssistanceRecords \o AssistanceAudit \o <<Rewrite("report")>>

(* evaluate_fresh_probe.py *)
FreshDataset == <<Pin("data")>>
FreshPair == <<Pin("source")>>
FreshAudit == FreshDataset
FreshRun == FreshDataset \o FreshPair \o FreshAudit \o <<Rewrite("report")>>

(* diagnose_body_bytes.py, diagnose_name_bytes.py: the logits of a full    *)
(* pass must be those of its prefixes.                                     *)
CausalCheck == <<Work({"unfaithful"}), Check("unfaithful")>>
BodyBytesSources == <<Pin("source")>> \o MaskingAudit
BodyBytesAudit == AliasBuild \o <<Again("source")>>     \* the models' digests are taken after the measurement
BodyBytesRun == BodyBytesSources \o AliasBuild \o CausalCheck \o BodyBytesAudit \o <<Rewrite("report")>>

NameBytesBuild == ResampledData
NameBytesSources == <<Pin("source")>> \o ResampledData
NameBytesInfer == CausalCheck
NameBytesAudit == NameBytesBuild
NameBytesRun == NameBytesSources \o NameBytesBuild \o NameBytesInfer \o NameBytesAudit \o <<Rewrite("report")>>

(* stage_failure_diagnostic.py: the stored checkpoints are unpacked        *)
FailureSource == <<Pin("source")>>
FailureRun ==         \* replies that differ from the stored ones are written down
    FailureSource \o <<Pin("data")>>
    \o ForArms(Pair, LAMBDA a :
          <<Take(a), Put(a), Work({"mutated", "unfaithful"}), Note("unfaithful"), Check("mutated"), Enter(a),
            Rewrite("report")>>)
    \o <<Rewrite("report")>>

(* ------------------------ one update, on many hosts -------------------- *)
(* first_step_ops.py: the report is written before its flaws are refused;  *)
(* the comparison of the hosts' reports refuses them again.                *)
FirstStepRun ==
    <<Pin("source")>> \o ResampledData
    \o <<Work({"unfaithful"}), Work({"drift"}), Note("unfaithful"), Note("drift"), Rewrite("report"),
         Check("unfaithful"), Check("drift")>>
FirstStepCompare == <<Load("report")>> \o Each(Require, <<"unfaithful", "drift">>)

(* arithmetic_variants.py: the native variant must be the plain update     *)
ArithmeticInputs == <<Pin("regression")>>
ArithmeticStep == <<Work({"nonfinite"}), Check("nonfinite")>>
ArithmeticRun ==
    ArithmeticInputs \o <<Pin("source")>> \o ResampledData
    \o ForArms(Pair, LAMBDA variant :
          ArithmeticStep \o ArithmeticStep
          \o <<Work({"drift", "moved"} \cup (IF variant = "control" THEN {"unfaithful"} ELSE {}))>>
          \o Each(Check, <<"drift", "moved", "unfaithful">>))
    \o <<Rewrite("report")>>
ArithmeticCompare == <<Load("report")>> \o Each(Require, <<"drift", "unfaithful", "moved">>)

(* ------------------------- functional measurements --------------------- *)
(* diagnose_body_transfer.py: "regression" is the finished directory of    *)
(* function_body_training.py, whose record pins the bank of tasks.         *)
TransferPilot == <<Pin("data")>>
TransferProbes == <<Read("data")>>
TransferAudit ==
    TransferPilot \o <<Again("regression"), Again("data"), Finished, Require("misjudged"), Require("mutated")>>
TransferRun ==
    <<Read("regression")>> \o TransferPilot \o <<Pin("source")>> \o TransferProbes
    \o <<Work({"misjudged"}), Check("misjudged")>>
    \o ForArms(Pair, LAMBDA a :      \* the first arm is the starting checkpoint itself
          <<Again(IF a = "control" THEN "source" ELSE "regression"),
            Work({"offline"}), Check("offline"), Work({"mutated"}), Note("mutated"), Save("report")>>)
    \o <<Seal>> \o TransferAudit \o <<Save("report")>>

(* evaluate_released_model.py: a report after every task                   *)
ReleasedSuite == <<Read("data")>>
ReleasedAudit == <<Again("data"), Finished, Require("misjudged"), Require("mutated")>>
ReleasedRun ==
    ReleasedSuite \o <<Pin("source"), Work({"misjudged"}), Check("misjudged"), Save("report")>>
    \o ForArms(Pair, LAMBDA a :      \* an arm is a way of decoding
          <<Work({"offline"}), Check("offline"), Save("report"), Work({"mutated"}), Note("mutated")>>)
    \o <<Seal>> \o ReleasedAudit \o <<Save("report")>>
=============================================================================
