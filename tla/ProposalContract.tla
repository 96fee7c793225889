-------------------------- MODULE ProposalContract --------------------------
(***************************************************************************)
(* What one run of ValidatedGeneration::run promises its caller, whatever  *)
(* the model backend and the validator answer: a bounded number of         *)
(* candidates is drawn, a text counts as proven only after its syntax      *)
(* check and its tests both passed, and the only outcome that enables      *)
(* Apply names a proven text.                                              *)
(***************************************************************************)
EXTENDS Naturals

CONSTANTS
  Texts,   \* complete document texts a run may propose
  Budget   \* candidates a run may draw

VARIABLES
  left,    \* candidates the run may still draw
  drawn,   \* texts proposed so far
  proven,  \* texts that passed both validation phases
  outcome  \* "working", "notReady" or "ready"

vars == <<left, drawn, proven, outcome>>

Init ==
  /\ left = Budget
  /\ drawn = {}
  /\ proven = {}
  /\ outcome = "working"

\* A reply of the backend is recorded; an unusable one adds no text.
Draw ==
  /\ outcome = "working" /\ left > 0
  /\ left' = left - 1
  /\ \E T \in {{}} \cup {{t} : t \in Texts} : drawn' = drawn \cup T
  /\ outcome' \in {"working", "notReady"}
  /\ UNCHANGED proven

\* Validation of a drawn text ends well; the run may end with it.
Prove ==
  /\ outcome = "working"
  /\ \E t \in drawn : proven' = proven \cup {t}
  /\ outcome' \in {"ready", "notReady"}
  /\ UNCHANGED <<left, drawn>>

GiveUp ==
  /\ outcome = "working"
  /\ outcome' = "notReady"
  /\ UNCHANGED <<left, drawn, proven>>

Next == Draw \/ Prove \/ GiveUp

Spec == Init /\ [][Next]_vars
=============================================================================
