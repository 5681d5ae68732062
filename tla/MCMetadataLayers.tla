-------------------------- MODULE MCMetadataLayers --------------------------
(* MetadataLayers with a shipped calculation and one of the user's.          *)
EXTENDS MetadataLayers

CONSTANTS value, mine   \* calculation ids

OneShipped == {[area |-> "base", dir |-> 1, id |-> value, deps |-> {}]}
=============================================================================
