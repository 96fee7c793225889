----------------------------- MODULE Experiments -----------------------------
(***************************************************************************)
(* The catalogue of the research scripts: the processes of each, the arms  *)
(* it trains, and what a report it finishes vouches for.                   *)
(***************************************************************************)
EXTENDS BodyExperiments, CopyExperiments, NameExperiments, StageExperiments, DiagnosticExperiments, FiniteSets

Plans ==
    [neutral    |-> <<NeutralTrain, NeutralMeasure, <<Load("report")>> \o NeutralAudit>>,
     body       |-> <<BodyTrain, BodyMeasure, <<Load("report")>> \o BodyAudit>>,
     alias      |-> <<AliasRun>>,
     quality    |-> <<QualityRun, RetainedQuality \o AuditQuality>>,
     gated      |-> <<GatedPair>>,
     curriculum |-> <<CurriculumRun, CurriculumRetained \o CurriculumAudit>>,
     namespace  |-> <<NamespaceRun, <<Load("report")>> \o NamespaceAudit>>,
     protected  |-> <<ProtectedRun, <<Load("report")>> \o ProtectedAudit>>,
     transition |-> <<TransitionRun, TransitionRetained \o TransitionAudit>>,
     full       |-> <<FullRun, FullCompare>>,
     resampled  |-> <<ResampledRun>>,
     header     |-> <<HeaderRun>>,
     replay     |-> <<ReplayRun>>,
     aligned    |-> <<AlignedPair>>,
     staged     |-> <<StagedRun>>,
     allstage   |-> <<AllStageRun>>,
     codefit    |-> <<CodeFitRun>>,
     masking    |-> <<MaskingRun>>,
     selection  |-> <<SelectionRun>>,
     oracle     |-> <<OracleRun>>,
     original   |-> <<OriginalRun>>,
     arguments  |-> <<ArgumentRun>>,
     broader    |-> <<BroaderRun>>,
     headers    |-> <<IdentifierHeaders>>,
     firststep  |-> <<FirstStepRun, FirstStepCompare>>,
     arithmetic |-> <<ArithmeticRun, ArithmeticCompare>>,
     bodybytes  |-> <<BodyBytesRun>>,
     namebytes  |-> <<NameBytesRun>>,
     binding    |-> <<BindingRun>>,
     assistance |-> <<AssistanceRun>>,
     fresh      |-> <<FreshRun>>,
     failure    |-> <<FailureRun>>,
     transfer   |-> <<TransferRun, <<Load("report")>> \o TransferAudit>>,
     released   |-> <<ReleasedRun, <<Load("report")>> \o ReleasedAudit>>]

ArmsOf == [s \in DOMAIN Plans |->
              ToSet(IF s \in {"alias", "resampled", "header", "replay", "allstage", "masking", "original", "arguments", "broader", "headers"}
                    THEN Sole ELSE Pair)]

StepsOf(s) == UNION {ToSet(Plans[s][p]) : p \in DOMAIN Plans[s]}

(* The inputs a script reads. *)
Uses == [s \in DOMAIN Plans |-> {i \in Inputs : \E t \in StepsOf(s) : t.on = i}]

(* The files it writes. *)
Writes(s) == {t.on : t \in {u \in StepsOf(s) : u.op \in {"save", "rewrite"}}}

(* The flaws that a script is written to refuse, or to tell of. *)
Vouches ==
    [neutral    |-> {"nonfinite", "moved", "misjudged", "offline", "mutated", "unfaithful"},
     body       |-> {"nonfinite", "moved", "misjudged", "offline", "mutated", "unfaithful"},
     alias      |-> {"lossy"},
     quality    |-> {"mutated", "offline"},
     gated      |-> {"nonfinite", "lossy", "unfaithful", "drift", "offline"},
     curriculum |-> {"nonfinite", "lossy", "drift", "mutated", "offline"},
     namespace  |-> {"nonfinite", "lossy", "drift", "mutated", "offline", "moved"},
     protected  |-> {"nonfinite", "lossy", "drift", "mutated", "offline", "moved"},
     transition |-> {"mutated", "unfaithful"},
     full       |-> {"nonfinite", "lossy", "drift", "unfaithful"},
     resampled  |-> {"nonfinite", "lossy"},
     header     |-> {"lossy"},
     replay     |-> {"unfaithful"},
     aligned    |-> {"nonfinite", "lossy", "drift", "unfaithful"},
     staged     |-> {"nonfinite", "lossy", "moved", "mutated", "misjudged", "offline"},
     allstage   |-> {"nonfinite", "lossy", "moved", "mutated", "misjudged", "offline", "unfaithful"},
     codefit    |-> {"nonfinite", "lossy", "moved", "mutated", "misjudged", "offline"},
     masking    |-> {"lossy"},
     selection  |-> {"nonfinite", "moved", "lossy", "drift", "unfaithful", "offline", "mutated"},
     oracle     |-> {"drift", "unfaithful", "offline", "mutated"},
     original   |-> {"lossy"},
     arguments  |-> {"lossy"},
     broader    |-> {},
     headers    |-> {"lossy"},
     firststep  |-> {"unfaithful", "drift"},
     arithmetic |-> {"nonfinite", "moved", "unfaithful", "drift"},
     bodybytes  |-> {"unfaithful"},
     namebytes  |-> {"unfaithful"},
     binding    |-> {"unfaithful"},
     assistance |-> {},
     fresh      |-> {},
     failure    |-> {"mutated", "unfaithful"},
     transfer   |-> {"misjudged", "offline", "mutated"},
     released   |-> {"misjudged", "offline", "mutated"}]

(* The scripts whose later processes compare the model files again. *)
ComparesFiles == {"neutral", "body", "full"}

(* The script that loads the checkpoint to start from, trains, and only then *)
(* takes its digest for the report.                                          *)
DigestsLate == {"broader"}
=============================================================================
