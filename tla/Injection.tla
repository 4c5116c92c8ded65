------------------------------- MODULE Injection -------------------------------
(***************************************************************************)
(* What a prompt shows of the memory (asper_memory_render_project in api.c, *)
(* retrieve.c, hybrid.c, inject.c), and what is counted as accessed for it *)
(* (worker.c).  Each section is gathered under the store lock; between two *)
(* of them, and while the prompt is rendered from the copies, hosts and    *)
(* cycles go on changing the table.                                        *)
(***************************************************************************)
EXTENDS Naturals, Sequences, FiniteSets, FiniteSetsExt, SequencesExt, Lists

CONSTANTS
    Memories,    \* the tables considered: sequences of records, see Usable
    Requests,    \* [template, budget, limit, project]
    NoProject,
    Purged,      \* what is left of a record after a compaction
    MaxChanges   \* bound: changes made to the table during the call

Zones == {"identity", "context", "project"}

\* A signal is what a record scores in a channel, coverage in halves.
MemoryRecord ==
    [zone : Zones, project : {r.project : r \in UNION {ToSet(t) : t \in Memories}},
     current : BOOLEAN, deprecated : BOOLEAN, expired : BOOLEAN, inferred : BOOLEAN,
     locked : BOOLEAN, relevance : Nat, cost : Nat,
     signal : [bm25 : Nat, vector : Nat, exact : Nat, coverage : Nat]]

\* A line that holds a placeholder is not blank.
ASSUME InjectionAssumption ==
    /\ MaxChanges \in Nat /\ Purged \notin MemoryRecord
    /\ \A t \in Memories : t \in Seq(MemoryRecord)
    /\ \A r \in Requests :
          /\ r.template \in Seq([blank : BOOLEAN, holds : SUBSET (Zones \cup {"base"})])
          /\ \A l \in DOMAIN r.template : r.template[l].blank => r.template[l].holds = {}
          /\ r.limit \in Nat /\ r.budget \in [Zones -> Nat]

VARIABLES
    known,      \* the table; a record's place stands for its age and its id
    request,
    phase,       \* "identity", "context", "project", "render", "noting", "returned", "failed"
    gathered,    \* per section, copies [id, of, dropped] in the order of precedence
    prompt,      \* [made, lines]: nothing, the base prompt, or these template lines
    unnoted,     \* shown records whose access is still to be noted
    accesses, detached,   \* the access batch, and the one a flush took
    applied, missed,        \* history: accesses applied to the table, or given up
    changes

injectionVars == <<known, request, phase, gathered, prompt, unnoted, accesses, detached,
                   applied, missed, changes>>
accessVars == <<unnoted, accesses, detached, applied, missed>>

NoPrompt == [made |-> "nothing", lines |-> {}]

InjectionInit ==
    /\ known \in Memories /\ request \in Requests
    /\ phase = "identity" /\ gathered = [z \in Zones |-> << >>] /\ prompt = NoPrompt
    /\ unnoted = << >> /\ accesses = << >> /\ detached = << >>
    /\ applied = << >> /\ missed = << >> /\ changes = 0

Present == {i \in DOMAIN known : known[i] # Purged}
Copy(i) == [id |-> i, of |-> known[i], dropped |-> FALSE]
CopiesOf(ids) == [n \in DOMAIN ids |-> Copy(ids[n])]

-----------------------------------------------------------------------------
(* Gathering.                                                              *)

\* Knowledge is not stale or worse, the record neither deprecated nor expired.
Usable(r) == r.current /\ ~r.deprecated /\ ~r.expired

Identities ==
    {i \in Present : known[i].zone = "identity" /\ Usable(known[i]) /\ ~known[i].inferred}

\* Locked first, then the more relevant, then the older.
IdentityBefore(i, j) ==
    LET a == known[i]  b == known[j] IN
    IF a.locked # b.locked THEN a.locked
    ELSE IF a.relevance # b.relevance THEN a.relevance > b.relevance
    ELSE i < j
IdentityOrder == {pair \in Identities \X Identities : IdentityBefore(pair[1], pair[2])}

CollectIdentity ==
    /\ phase = "identity" /\ phase' = "context"
    /\ gathered' = [gathered EXCEPT !["identity"] =
                       CopiesOf(Sorted(Identities, IdentityOrder))]
    /\ UNCHANGED <<known, request, prompt, changes>> /\ UNCHANGED accessVars

Retrievable(zone) ==
    {i \in Present : /\ known[i].zone = zone /\ Usable(known[i])
                     /\ zone = "project" => known[i].project = request.project}

\* Reciprocal rank fusion over three channels, ties to the earlier record, in
\* units of 1 / (1000 * 61 * 62 * 63), exact for up to three records; coverage
\* is in halves of the query's terms.  Without a query vector (the embedder
\* failed: the lexical channels remain) nothing scores in that channel.
Unit == 238266000
Signal(i, channel, heard) ==
    IF channel = "vector" /\ ~heard THEN 0 ELSE known[i].signal[channel]
RankIn(channel, i, docs, heard) ==
    Cardinality({j \in docs \ {i} :
        \/ Signal(j, channel, heard) > Signal(i, channel, heard)
        \/ Signal(j, channel, heard) = Signal(i, channel, heard) /\ j < i})
Reciprocal(channel, i, docs, heard) ==
    IF Signal(i, channel, heard) = 0 THEN 0 ELSE Unit \div (61 + RankIn(channel, i, docs, heard))
Fused(i, docs, heard) ==
    IF \A ch \in {"bm25", "vector", "exact"} : Signal(i, ch, heard) = 0 THEN 0
    ELSE Reciprocal("bm25", i, docs, heard) + Reciprocal("vector", i, docs, heard)
         + Reciprocal("exact", i, docs, heard)
         + (Unit \div 100) * 2 * known[i].signal.exact
         + (Unit \div 200) * 3 * known[i].signal.coverage

\* asper_hybrid_search: the best `limit' of those that score at all.
Hits(docs, heard) ==
    LET score   == [i \in docs |-> Fused(i, docs, heard)]
        scoring == {i \in docs : score[i] > 0}
        ranking == Sorted(scoring, {pair \in scoring \X scoring :
                              \/ score[pair[1]] > score[pair[2]]
                              \/ score[pair[1]] = score[pair[2]] /\ pair[1] < pair[2]})
    IN  IF Len(ranking) <= request.limit THEN ranking ELSE SubSeq(ranking, 1, request.limit)

\* The query is embedded first, without the lock; then lock_knowledge.
Retrieve(zone, next) ==
    /\ phase = zone /\ phase' = next
    /\ \E heard \in BOOLEAN :
         gathered' = [gathered EXCEPT ![zone] = CopiesOf(Hits(Retrievable(zone), heard))]
    /\ UNCHANGED <<known, request, prompt, changes>> /\ UNCHANGED accessVars

RetrieveContext == Retrieve("context", IF request.project = NoProject THEN "render" ELSE "project")
RetrieveProject == Retrieve("project", "render")

-----------------------------------------------------------------------------
(* Rendering.  A template is a sequence of lines [blank, holds]: `holds' is *)
(* the set of block placeholders, and the base prompt's, on the line.      *)

Template == request.template
Holding(zone) == {l \in DOMAIN Template : zone \in Template[l].holds}
Tokens(copies) == Total([n \in DOMAIN copies |-> copies[n].of.cost])

\* section_trim: the longest prefix within the budget, the others are marked;
\* mark_dropped: a section without a placeholder loses all of them.
Trimmed(zone) ==
    LET all == gathered[zone] IN
    [n \in DOMAIN all |->
        [all[n] EXCEPT !.dropped = \/ Holding(zone) = {}
                                   \/ Tokens(SubSeq(all, 1, n)) > request.budget[zone]]]
Kept(copies) == Those(copies, {x \in ToSet(copies) : ~x.dropped})

\* Mutation: the walk up to a heading goes on over other placeholders' lines.
HeadingAcross(p, gone) ==
    {i \in 1 .. p - 1 : \A j \in i .. p - 1 : ~Template[j].blank /\ j \notin gone}

\* The lines above p up to a blank one, a dropped one or another placeholder's.
Heading(p, gone) ==
    {i \in 1 .. p - 1 :
        \A j \in i .. p - 1 : ~Template[j].blank /\ j \notin gone /\ Template[j].holds = {}}

\* drop_segment: the first line that holds the placeholder, its heading, and the
\* blank line above them.
DropSegment(gone, zone) ==
    LET p       == Min(Holding(zone))
        segment == Heading(p, gone) \cup {p}
        above   == {i \in {Min(segment) - 1} \cap DOMAIN Template : Template[i].blank /\ i \notin gone}
    IN  gone \cup segment \cup above

\* A section without survivors loses its segment.
Render ==
    LET cut   == [z \in Zones |-> Trimmed(z)]
        after(gone, z) == IF Kept(cut[z]) = << >> /\ Holding(z) # {}
                          THEN DropSegment(gone, z) ELSE gone
        shown == Kept(cut["identity"]) \o Kept(cut["context"]) \o Kept(cut["project"])
    IN  /\ phase = "render" /\ phase' = "noting"
        /\ gathered' = cut
        /\ prompt' = IF shown = << >> THEN [made |-> "base", lines |-> {}]
                     ELSE [made  |-> "filled",
                           lines |-> DOMAIN Template \
                                after(after(after({}, "identity"), "context"), "project")]
        /\ unnoted' = [n \in DOMAIN shown |-> shown[n].id]
        /\ UNCHANGED <<known, request, accesses, detached, applied, missed, changes>>

\* Poisoned knowledge, no memory, no template: the call returns an error.
Fail ==
    /\ phase \in {"identity", "context", "project", "render"} /\ phase' = "failed"
    /\ UNCHANGED <<known, request, gathered, prompt, changes>> /\ UNCHANGED accessVars

-----------------------------------------------------------------------------
(* Accesses.                                                               *)

\* asper_access_note; only a batch at its capacity (here: empty) is grown, and
\* without memory the note is dropped.
Note ==
    /\ phase = "noting" /\ unnoted # << >>
    /\ \/ accesses' = Append(accesses, Head(unnoted)) /\ UNCHANGED missed
       \/ accesses = << >> /\ missed' = Append(missed, Head(unnoted)) /\ UNCHANGED accesses
    /\ unnoted' = Tail(unnoted)
    /\ UNCHANGED <<known, request, phase, gathered, prompt, detached, applied, changes>>

Returns ==
    /\ phase = "noting" /\ unnoted = << >> /\ phase' = "returned"
    /\ UNCHANGED <<known, request, gathered, prompt, changes>> /\ UNCHANGED accessVars

\* asper_access_flush detaches the batch under ev_mu ...
FlushTakes ==
    /\ accesses # << >> /\ detached = << >>
    /\ detached' = accesses /\ accesses' = << >>
    /\ UNCHANGED <<known, request, phase, gathered, prompt, unnoted, applied, missed, changes>>

\* ... and journals it: the records that are still there are counted, or the
\* append fails and the batch is gone.
FlushEnds ==
    /\ detached # << >> /\ detached' = << >>
    /\ \/ /\ applied' = applied \o Those(detached, Present)
          /\ missed' = missed \o Those(detached, ToSet(detached) \ Present)
       \/ missed' = missed \o detached /\ UNCHANGED applied
    /\ UNCHANGED <<known, request, phase, gathered, prompt, unnoted, accesses, changes>>

\* What others make of a record: deprecated or kept, refreshed or stale, out of
\* date, moved in the ranking, purged.
Changed(r) ==
    {[r EXCEPT !.deprecated = ~@], [r EXCEPT !.current = ~@], [r EXCEPT !.expired = TRUE],
     [r EXCEPT !.locked = ~@], Purged}
TableChanges ==
    /\ phase \in {"context", "project", "render", "noting"} /\ changes < MaxChanges
    /\ \E i \in Present : \E r \in Changed(known[i]) : known' = [known EXCEPT ![i] = r]
    /\ changes' = changes + 1
    /\ UNCHANGED <<request, phase, gathered, prompt>> /\ UNCHANGED accessVars

InjectionNext ==
    \/ CollectIdentity \/ RetrieveContext \/ RetrieveProject \/ Render \/ Fail
    \/ Note \/ Returns \/ FlushTakes \/ FlushEnds \/ TableChanges

InjectionSpec == InjectionInit /\ [][InjectionNext]_injectionVars

-----------------------------------------------------------------------------
\* The records a reader of the prompt sees in a zone.
InPrompt(zone) == IF Holding(zone) \cap prompt.lines = {} THEN << >> ELSE Kept(gathered[zone])

\* Placeholders have lines of their own, each at most one.
Neat == /\ \A l \in DOMAIN Template : Cardinality(Template[l].holds) <= 1
        /\ \A z \in Zones : Cardinality(Holding(z)) <= 1

\* The heading that belongs to a zone, whatever else is dropped.
HeadingOf(zone) == UNION {Heading(p, {}) \cup {p} : p \in Holding(zone)}

Outdoes(r, q) ==
    (\A ch \in {"bm25", "vector", "exact"} : r[ch] > q[ch]) /\ r.coverage >= q.coverage

\* A zone of a prompt is the longest prefix of what was gathered that its budget
\* affords, of records that were usable when copied, never a weaker one ahead of
\* one that outdoes it in every channel; its heading is there exactly when one of
\* its records is, and no other line is missing but the blank one above.
ZoneExact(zone) ==
    LET all == gathered[zone]  shown == InPrompt(zone) IN
    /\ \A n \in DOMAIN all : Usable(all[n].of) /\ all[n].of.zone = zone
    /\ zone # "identity" =>
           \A m, n \in DOMAIN all : m < n => ~Outdoes(all[n].of.signal, all[m].of.signal)
    /\ IsPrefix(shown, all) /\ Tokens(shown) <= request.budget[zone]
    /\ Neat => /\ Holding(zone) # {} /\ Len(shown) < Len(all) =>
                     Tokens(SubSeq(all, 1, Len(shown) + 1)) > request.budget[zone]
               /\ prompt.made = "filled" =>
                     \A l \in HeadingOf(zone) : l \in prompt.lines <=> shown # << >>

\* What a prompt shows is what the table offered, and the accesses that are noted,
\* counted or known to be lost are those of the shown records, once each (the
\* survivor marks of inject.c:16-20), whatever changes or is flushed meanwhile; a
\* call that failed notes nothing.
PromptExact ==
    LET ids(copies) == [n \in DOMAIN copies |-> copies[n].id]
        shown == ids(InPrompt("identity") \o InPrompt("context") \o InPrompt("project"))
        noted == unnoted \o accesses \o detached \o applied \o missed
    IN  /\ phase \in {"noting", "returned"} => \A z \in Zones : ZoneExact(z)
        /\ prompt.made = "filled" /\ Neat =>
              \A l \in DOMAIN Template \ prompt.lines :
                  \E z \in Zones : \/ l \in HeadingOf(z)
                                   \/ Template[l].blank /\ l + 1 \in HeadingOf(z)
        /\ Neat => Len(noted) = Len(shown) /\ ToSet(noted) = ToSet(shown)
=============================================================================
