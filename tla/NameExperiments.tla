--------------------------- MODULE NameExperiments ---------------------------
(***************************************************************************)
(* The scripts about names in headers: one process trains a model or only  *)
(* replays stored ones, audits the report in memory and writes it last.    *)
(***************************************************************************)
EXTENDS ExperimentSteps

(* ----------------------- resampled_name_training.py -------------------- *)
ResampledData == <<Pin("data")>>
ResampledAudit ==     \* finite loss endpoints; the export was compared
    ResampledData \o <<Require("lossy"), Check("nonfinite")>>
ResampledRun ==
    <<Pin("source")>> \o ResampledData
    \o <<Fit("candidate", {"nonfinite"}), Put("candidate"), Work({"lossy"}), Check("lossy"), Enter("candidate")>>
    \o ResampledAudit \o <<Rewrite("report")>>

(* -------------------------- header_name_length.py ---------------------- *)
HeaderSources == <<Pin("data")>>
HeaderInitial == <<Pin("source"), Pin("data")>>
HeaderAudit == HeaderSources \o <<Covers>>
HeaderRun ==          \* no check of the losses; the reloaded model must answer as the trained one
    HeaderSources \o HeaderInitial
    \o <<Fit("candidate", {"nonfinite"}), Put("candidate"), Work({"lossy"}), Check("lossy"), Enter("candidate")>>
    \o HeaderAudit \o <<Rewrite("report")>>

(* ------------------------- diagnose_header_replay.py ------------------- *)
ReplayInputs == <<Pin("source"), Pin("data")>>
ReplayAudit == <<Pin("data"), Covers>>
ReplayRun ==          \* inference only; deviations from the stored headers are written down
    ReplayInputs \o <<Take("candidate"), Work({"unfaithful"}), Note("unfaithful"), Enter("candidate")>>
    \o ReplayAudit \o <<Rewrite("report"), Put("candidate")>>

(* --------------------------- aligned_name_copy.py ---------------------- *)
ControlReport == <<Pin("data")>>
CheckReproduction == <<Check("unfaithful")>>
AlignedAudit == <<Pin("data"), Require("lossy"), Check("nonfinite")>> \o ControlReport \o CheckReproduction
AlignedArm(a) ==
    <<Pin("source"), Pin("data"), Fit(a, {"nonfinite"}), Put(a), Work({"lossy"}), Check("lossy"),
      Work(IF a = "control" THEN {"unfaithful"} ELSE {}), Enter(a)>>
    \o AlignedAudit \o <<Rewrite("training")>>
CheckPair == <<Check("drift")>>
AlignedPair ==
    AlignedArm("control") \o AlignedArm("control") \o <<Work({"drift"})>> \o AlignedArm("candidate")
    \o CheckPair \o <<Rewrite("report")>>

(* ----------------------- header_original_replay.py --------------------- *)
OriginalPools == HeaderSources
OriginalAudit == HeaderAudit \o OriginalPools
OriginalRun ==
    OriginalPools \o HeaderInitial
    \o <<Fit("candidate", {"nonfinite"}), Put("candidate"), Work({"lossy"}), Check("lossy"), Enter("candidate")>>
    \o OriginalAudit \o <<Rewrite("report")>>

(* -- header_argument_aliases.py, trained by header_replay_training.py --- *)
ArgumentBuild == OriginalPools
ReplayTrain ==
    <<Fit("candidate", {"nonfinite"}), Put("candidate"), Work({"lossy"}), Check("lossy"), Enter("candidate")>>
ArgumentAudit == ArgumentBuild
ArgumentRun == ArgumentBuild \o HeaderInitial \o ReplayTrain \o ArgumentAudit \o <<Rewrite("report")>>

(* ---------------- train_broader_instruction_experiment.py -------------- *)
BroaderSplit == <<Again("data")>>     \* against the manifest read first, which nothing pins
BroaderRun ==         \* neither the losses nor the exported file are looked at again
    <<Read("data")>> \o BroaderSplit \o <<Read("source"), Fit("candidate", {"nonfinite"})>>
    \o BroaderSplit \o BroaderSplit
    \o <<Put("candidate"), Work({"lossy"}), Enter("candidate"), Read("source"), Rewrite("report")>>

(* --- train_identifier_headers.py, whose initialization others use too -- *)
HeaderWeights == <<Read("source")>>   \* the digest is taken with the weights
IdentifierHeaders ==  \* the report is written only after the exported file gave the model's answers
    <<Read("data")>> \o BroaderSplit \o HeaderWeights
    \o <<Fit("candidate", {"nonfinite"}), Put("candidate")>> \o BroaderSplit \o BroaderSplit
    \o <<Enter("candidate"), Work({"lossy"}), Check("lossy"), Rewrite("report")>>
=============================================================================
