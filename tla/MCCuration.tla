----------------------------- MODULE MCCuration -----------------------------
(* Small values for the constants of Curation: two scopes of which one has *)
(* a deferred event, a queue of two turns and batches of one unless forced. *)
EXTENDS CurationProperties

CONSTANTS chat, build, h1, h2

MCScopes == {chat, build}
MCScope == {chat}
MCDeferred == {<<build, 1>>}
MCNone == {}
MCAppender == {h1}
MCAppenders == {h1, h2}
MCTurns == {"turn"}
MCKinds == {"turn", "other"}
MCBlank == {"turn", "blank"}
MCAdmissionFaults == {"note", "read", "generate", "receipt"}
MCFaults == {"append", "note", "read", "generate", "journal", "receipt", "finalize"}
=============================================================================
