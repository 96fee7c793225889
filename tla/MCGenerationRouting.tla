------------------------ MODULE MCGenerationRouting ------------------------
(***************************************************************************)
(* Prompts and contexts on both sides of, and at, the boundary of a fit.   *)
(***************************************************************************)
EXTENDS GenerationRouting

MCSizes      == {1, 2, 3}
MCCapacities == {1, 2}
=============================================================================
