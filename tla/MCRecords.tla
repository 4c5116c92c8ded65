----------------------------- MODULE MCRecords -----------------------------
(* Instances of Records: two texts, so that an update changes something. *)
EXTENDS Records, TLC

CONSTANTS tea, coffee
MCText == {tea, coffee}
MCAnyText == Permutations(MCText)
=============================================================================
