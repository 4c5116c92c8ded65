------------------------- MODULE MCStoreTransaction -------------------------
(* Two section files stand for the three kinds of section.                 *)
EXTENDS StoreTransaction

MCFiles == <<"identity", "journal", "project">>
MCSections == <<"identity", "project">>
=============================================================================
