----------------------------- MODULE FifoQueue -----------------------------
(***************************************************************************)
(* What the curation turn queue promises to the rest of the store: turns   *)
(* leave in the order in which they were admitted, each exactly once, and  *)
(* at most Limit of them are owned by the queue at any time.  How a batch  *)
(* is taken out, retried after a failed generation or shortened to the     *)
(* transcript budget is invisible at this level.                           *)
(***************************************************************************)
EXTENDS Naturals, Sequences

CONSTANTS Turn,   \* the turns that can be admitted
          Limit   \* how many turns the queue may own

VARIABLES owned,      \* the admitted turns that are not settled, oldest first
          settled     \* the turns whose curation is over, in that order

Init == owned = <<>> /\ settled = <<>>

Admit ==
    /\ Len(owned) < Limit
    /\ Len(owned') = Len(owned) + 1
    /\ owned'[Len(owned')] \in Turn
    /\ SubSeq(owned', 1, Len(owned)) = owned
    /\ UNCHANGED settled

Settle(n) ==
    /\ settled' = settled \o SubSeq(owned, 1, n)
    /\ owned' = SubSeq(owned, n + 1, Len(owned))

Next == \/ Admit
        \/ \E n \in 1 .. Len(owned) : Settle(n)

Spec == Init /\ [][Next]_<<owned, settled>>
=============================================================================
