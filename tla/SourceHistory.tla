----------------------------- MODULE SourceHistory -----------------------------
(***************************************************************************)
(* The history section of a context (source_history.c, source_context.c):  *)
(* which of a view's events are given to the model.  A first pass takes    *)
(* the pinned events from the oldest on, a second one fills what is left   *)
(* with the newest; each event is read from the view under source_mu, so   *)
(* each is a step.  An event's line is its cost: the tokens that the       *)
(* host's tokenizer counts for it.                                         *)
(***************************************************************************)
EXTENDS Naturals, Sequences, FiniteSets, SequencesExt, Lists

CONSTANTS
    Views,       \* the views considered: sequences of [kind, pinned, asked, cost];
                 \* `asked': the text is the request's query
    Budgets,     \* history_tokens, with the heading's cost taken off
    Sections,    \* [cost, allowed]: the checkpoint's section and its tokens
    MaxEvents,   \* ASPER_CONTEXT_EVENTS
    Slacks       \* what a tokenizer may count extra for lines joined

ASSUME HistoryAssumption ==
    /\ MaxEvents \in Nat \ {0} /\ Budgets \subseteq Nat /\ Slacks \subseteq Nat
    /\ Sections \subseteq [cost : Nat, allowed : Nat]
    /\ \A v \in Views : v \in Seq([kind : {"turn", "note", "checkpoint"},
                                  pinned : BOOLEAN, asked : BOOLEAN, cost : Nat])

VARIABLES
    view,      \* the captured events, with the captured pins applied
    budget, section,
    pass,      \* 1 (pinned), 2 (newest), 3 (selected), 4 (returned)
    offset,    \* events of this pass already looked at
    chosen,    \* the events taken, in the order they were taken
    result     \* the context: [ok, lines, tokens, slack]

historyVars == <<view, budget, section, pass, offset, chosen, result>>

NoContext(slack) == [ok |-> FALSE, lines |-> << >>, tokens |-> 0, slack |-> slack]

HistoryInit ==
    /\ view \in Views /\ budget \in Budgets /\ section \in Sections
    /\ pass = 1 /\ offset = 0 /\ chosen = << >> /\ result = NoContext(0)

Cost(taken) == Total([i \in 1..Len(view) |-> IF i \in taken THEN view[i].cost ELSE 0])
Chosen == ToSet(chosen)

\* append_checkpoint: the section is in whole or not at all.
SectionTokens == IF section.cost <= section.allowed THEN section.cost ELSE 0

-----------------------------------------------------------------------------
\* The first pass takes pinned events; the second takes any but those already
\* chosen and the turn that asks this very question; no CHECKPOINT in either.
Wanted(i) ==
    /\ view[i].kind # "checkpoint"
    /\ IF pass = 1 THEN view[i].pinned
       ELSE i \notin Chosen /\ ~(view[i].kind = "turn" /\ view[i].asked)

\* Mutation: any event may start while tokens are left.
FitsPartly(i) == Cost(Chosen) < budget

\* select_event: an event that does not fit is skipped, not the end.
Fits(i) == view[i].cost <= budget - Cost(Chosen)

Looking == pass \in {1, 2} /\ offset < Len(view) /\ Len(chosen) < MaxEvents

Look ==
    LET i == IF pass = 1 THEN offset + 1 ELSE Len(view) - offset IN
    /\ Looking
    /\ offset' = offset + 1
    /\ chosen' = IF Wanted(i) /\ Fits(i) THEN Append(chosen, i) ELSE chosen
    /\ UNCHANGED <<view, budget, section, pass, result>>

NextPass ==
    /\ pass \in {1, 2} /\ ~Looking
    /\ pass' = pass + 1 /\ offset' = 0
    /\ UNCHANGED <<view, budget, section, chosen, result>>

\* sequence_order: the lines in the order of their events.
InSequence(taken) == Sorted(taken, {pair \in taken \X taken : pair[1] < pair[2]})

\* The lines go out in sequence; joined, they are counted again, first the
\* section (source_history.c:100) and then the whole context
\* (source_context.c:51).
Return ==
    /\ pass = 3 /\ pass' = 4
    /\ \E slack \in Slacks :
         LET lines  == InSequence(Chosen)
             counted == IF chosen = << >> THEN 0 ELSE Cost(Chosen) + slack
             total  == SectionTokens + counted
         IN  result' = IF counted > budget \/ total > section.allowed + budget
                       THEN NoContext(slack)
                       ELSE [ok |-> TRUE, lines |-> lines, tokens |-> total,
                             slack |-> slack]
    /\ UNCHANGED <<view, budget, section, offset, chosen>>

HistoryNext == Look \/ NextPass \/ Return

HistorySpec == HistoryInit /\ [][HistoryNext]_historyVars

-----------------------------------------------------------------------------
\* An event is ahead of another one in the order the budget is spent in.
Ahead(i, j) ==
    \/ view[i].pinned /\ (~view[j].pinned \/ i < j)
    \/ ~view[i].pinned /\ ~view[j].pinned /\ i > j

Eligible(i) ==
    /\ view[i].kind # "checkpoint"
    /\ view[i].pinned \/ ~(view[i].kind = "turn" /\ view[i].asked)

\* A context holds exactly the events that still fitted, both in tokens and in
\* number, after every event that comes before them in priority, in sequence and
\* inside the caller's envelope: two passes with a skip in each compute the
\* declarative choice.  Only a tokenizer that counts joined lines higher than
\* their parts can make it fail.
HistoryExact ==
    LET taken == ToSet(result.lines)
        before(i) == {j \in taken : Ahead(j, i)}
    IN  /\ pass = 4 /\ result.slack = 0 => result.ok
        /\ result.ok =>
             /\ result.lines = InSequence(taken)
             /\ result.tokens <= section.allowed + budget
             /\ \A i \in DOMAIN view :
                  i \in taken <=>
                     /\ Eligible(i)
                     /\ Cost(before(i)) + view[i].cost <= budget
                     /\ Cardinality(before(i)) < MaxEvents
=============================================================================
