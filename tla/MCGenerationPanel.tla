------------------------- MODULE MCGenerationPanel -------------------------
(***************************************************************************)
(* Two documents, one of them untitled, two contents each, two runs and a  *)
(* queue of two messages.                                                  *)
(***************************************************************************)
EXTENDS GenerationPanel

CONSTANTS file, untitled, before, after

MCDocs     == {file, untitled}
MCPathless == {untitled}
MCTexts    == {before, after}
=============================================================================
