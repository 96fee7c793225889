----------------------- MODULE MCValidatedGeneration -----------------------
(***************************************************************************)
(* Four replies: two ordinary, one too big for review, one that leaves     *)
(* the document as it was.  MaxAttempts is the code's 3.                   *)
(***************************************************************************)
EXTENDS ValidatedGeneration

CONSTANTS good, other, big, same

MCSnippets     == {good, other, big, same}
MCTooBig       == {big}
MCSameAsBefore == {same}
=============================================================================
