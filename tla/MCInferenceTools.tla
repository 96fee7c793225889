-------------------------- MODULE MCInferenceTools --------------------------
(* The three ways a script generates, one of them at a time. *)
EXTENDS StagedGeneration, CopyDecoding, BeamDecoding

CONSTANTS m1, m2

DefTrigger == <<1>>

toolVars == <<stagedVars, copyVars, beamVars>>

Init ==
  \/ StagedInit /\ CopyOff /\ BeamOff
  \/ StagedOff /\ CopyInit /\ BeamOff
  \/ StagedOff /\ CopyOff /\ BeamInit

Next ==
  \/ StagedNext /\ UNCHANGED <<copyVars, beamVars>>
  \/ CopyNext /\ UNCHANGED <<stagedVars, beamVars>>
  \/ BeamNext /\ UNCHANGED <<stagedVars, copyVars>>

Spec == Init /\ [][Next]_toolVars
=============================================================================
