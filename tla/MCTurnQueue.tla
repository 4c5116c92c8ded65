---------------------------- MODULE MCTurnQueue ----------------------------
(* Small values for the constants of TurnQueue: an array that grows twice, *)
(* a limit below the hard one, a byte budget two large turns can exhaust.  *)
EXTENDS TurnQueue

CONSTANTS chat, build

MCScope == {chat, build}
MCBytes == {1, 3}
=============================================================================
