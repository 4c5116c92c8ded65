---------------------------- MODULE MCCycleSlot ----------------------------
(* Small instances of CycleSlot: two host threads and the worker. *)
EXTENDS CycleSlot

CONSTANTS c1, c2

MCTwoClients == {c1, c2}
=============================================================================
