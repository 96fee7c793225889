-------------------------- MODULE MCModelDelivery --------------------------
(* One plugin and one other client of the server. *)
EXTENDS ModelDelivery

CONSTANTS plugin, visitor
=============================================================================
