-------------------------- MODULE GuardedDocument --------------------------
(***************************************************************************)
(* What the panel promises whoever is editing.  Anyone may change a        *)
(* document at any time.  The plugin changes one only through an offer:    *)
(* one reviewed proposal for one document, made against one exact text.    *)
(* The offer is carried out only while the document still holds that very  *)
(* text, and a proposal is carried out at most once.                       *)
(***************************************************************************)
CONSTANTS
  Docs,     \* documents open in the editor
  Texts,    \* their possible contents
  Ids,      \* what distinguishes one proposal from another
  NoOffer

VARIABLES
  text,     \* content of each document
  offer,    \* the proposal that a click on Apply would carry out, or NoOffer
  applied   \* proposals the plugin has written into a document

vars == <<text, offer, applied>>

Offers == [id : Ids, doc : Docs, original : Texts, proposed : Texts]

Init ==
  /\ text \in [Docs -> Texts]
  /\ offer = NoOffer
  /\ applied = {}

\* Typing, undo, a reload from disk, another plugin
Edit ==
  /\ \E d \in Docs, t \in Texts : text' = [text EXCEPT ![d] = t]
  /\ UNCHANGED <<offer, applied>>

Propose ==
  /\ offer = NoOffer
  /\ \E o \in Offers : o.id \notin applied /\ o.original # o.proposed /\ offer' = o
  /\ UNCHANGED <<text, applied>>

Withdraw ==
  /\ offer # NoOffer
  /\ offer' = NoOffer
  /\ UNCHANGED <<text, applied>>

Apply ==
  /\ offer # NoOffer
  /\ text[offer.doc] = offer.original
  /\ text' = [text EXCEPT ![offer.doc] = offer.proposed]
  /\ applied' = applied \cup {offer.id}
  /\ offer' = NoOffer

Next == Edit \/ Propose \/ Withdraw \/ Apply

Spec == Init /\ [][Next]_vars
=============================================================================
