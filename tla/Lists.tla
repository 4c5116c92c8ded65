---------------------------------- MODULE Lists ----------------------------------
(***************************************************************************)
(* What the code does with arrays: add up, run through one after the other, *)
(* filter in place, qsort.  They are recursive functions and choices, so    *)
(* that they can be proved about.                                          *)
(***************************************************************************)
EXTENDS Naturals, Sequences, FiniteSets, SequencesExt

Total(costs) ==
    LET upTo[n \in 0..Len(costs)] == IF n = 0 THEN 0 ELSE upTo[n - 1] + costs[n]
    IN  upTo[Len(costs)]

\* One sequence after the other.
Joined(seqs) ==
    LET upTo[n \in 0..Len(seqs)] == IF n = 0 THEN << >> ELSE upTo[n - 1] \o seqs[n]
    IN  upTo[Len(seqs)]

\* The elements of a sequence that are in a set, in their order.
Those(s, set) ==
    LET upTo[n \in 0..Len(s)] ==
            IF n = 0 THEN << >>
            ELSE IF s[n] \in set THEN Append(upTo[n - 1], s[n]) ELSE upTo[n - 1]
    IN  upTo[Len(s)]

\* A set in an order, given as the pairs <<a, b>> in which a is ahead of b.
Sorted(set, ahead) ==
    CHOOSE s \in [1..Cardinality(set) -> set] :
       /\ ToSet(s) = set
       /\ \A m, n \in DOMAIN s : m < n => <<s[m], s[n]>> \in ahead
=============================================================================
