--------------------------- MODULE MCLocalSession ---------------------------
(* A launcher and an editor; the editor's connection is also the stranger's *)
(* while the editor does not run, and has no key then.                      *)
EXTENDS LocalSession

CONSTANTS starter, notepad
=============================================================================
