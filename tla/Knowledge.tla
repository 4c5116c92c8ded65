------------------------------- MODULE Knowledge -------------------------------
(***************************************************************************)
(* Grounding (knowledge_*.c): what hosts assert about the records, kept in *)
(* knowledge.events as revisions, and the status of every record, which is *)
(* recomputed from it: every reader takes c->lock for writing and refreshes *)
(* under it before it reads (lock_knowledge), so the statuses are a        *)
(* function of the state.                                                  *)
(*                                                                         *)
(* Record ids are numbers in the order of their UUIDs, which is the order  *)
(* entries are kept and visited in.  A claim's hash is its content.  The   *)
(* log is what EventLog promises of it: an append that fails may have      *)
(* left its whole frame behind, and a power failure keeps what was synced. *)
(***************************************************************************)
EXTENDS Integers, Sequences, FiniteSets, SequencesExt, FiniteSetsExt, Lists

CONSTANTS
    Ids,         \* record ids, 1..n
    Contents,    \* what records say
    FirstContent, StartLogs,  \* bound: what they say at first, and earlier revisions
    Versions,    \* versions a watched resource can have
    Groundings,  \* what hosts may assert, [revoked, covers, needs, links]:
                 \* `covers': sources cover the whole claim; `needs': the
                 \* version depended on, or NoVersion; links: [kind, to, hash]
    MaxOps,      \* bound on what happens to the store
    MaxKFaults   \* bound on failed appends and lost sources

CONSTANTS NoVersion, Gone   \* model values

VARIABLES
    record,     \* memory and journal: [content, deprecated, expired], or Gone
    klog,       \* disk: knowledge.events, [id, hash, rev, g]
    kdurable,   \* disk: revisions a power failure keeps
    sources,    \* disk: the cited events can be read
    entry,      \* memory: the latest revision of each id, or NoEntry
    observed,   \* memory: the resource's version as the host last reported it
    poisoned,   \* memory
    opened,     \* memory: the last open succeeded
    accepted,   \* history: revisions whose call returned ASPER_OK
    ops, kfaults   \* bounds

knowledgeVars == <<record, klog, kdurable, sources, entry, observed, poisoned,
                   opened, accepted, ops, kfaults>>

UNVERIFIED == 0  CURRENT == 1  STALE == 2  CONTESTED == 3  REVOKED == 4
UNAVAILABLE == 5

SUPPORTS == "supports"
CONTRADICTS == "contradicts"
SUPERSEDES == "supersedes"

Link == [kind : {SUPPORTS, CONTRADICTS, SUPERSEDES}, to : Ids, hash : Contents]

ASSUME KnowledgeAssumption ==
    /\ IsFiniteSet(Ids) /\ Ids = 1..Cardinality(Ids)
    /\ \A g \in Groundings : g.links \in Seq(Link)

NoEntry == [rev |-> 0]
Grounded(id) == entry[id].rev # 0
SameClaim(id, hash) == record[id] # Gone /\ record[id].content = hash

KFault == kfaults < MaxKFaults /\ kfaults' = kfaults + 1
KOp == opened /\ ops < MaxOps /\ ops' = ops + 1

-----------------------------------------------------------------------------
(* asper_knowledge_refresh, over the entries in id order.                  *)

Initial(id) ==
    LET r == record[id] e == entry[id] IN
    IF poisoned                               THEN UNAVAILABLE
    ELSE IF r.deprecated \/ r.expired         THEN STALE
    ELSE IF ~Grounded(id)                     THEN UNVERIFIED
    ELSE IF e.g.revoked                       THEN REVOKED
    ELSE IF r.content # e.hash                THEN STALE
    ELSE IF ~e.ok                             THEN UNAVAILABLE
    ELSE IF e.g.needs # NoVersion /\ observed = NoVersion      THEN UNAVAILABLE
    ELSE IF e.g.needs # NoVersion /\ observed # e.g.needs      THEN STALE
    ELSE IF e.g.covers \/ \E i \in DOMAIN e.g.links : e.g.links[i].kind = SUPPORTS
    THEN CURRENT ELSE UNVERIFIED

\* Every link with the id that asserts it, in the order they are visited.
Links ==
    Joined([id \in Ids |->
        IF ~Grounded(id) THEN << >>
        ELSE [i \in DOMAIN entry[id].g.links |-> [from |-> id, link |-> entry[id].g.links[i]]]])

\* propagate_support: one link of one entry, in one of as many passes as there
\* are entries.
Support(st, x) ==
    LET parent == x.link.to
        next == IF ~SameClaim(parent, x.link.hash) THEN STALE
                ELSE IF st[parent] = REVOKED THEN STALE
                ELSE IF st[parent] >= STALE THEN st[parent]
                ELSE IF st[parent] = UNVERIFIED THEN UNVERIFIED
                ELSE st[x.from]
    IN  IF record[x.from] = Gone \/ st[x.from] >= STALE THEN st
        ELSE [st EXCEPT ![x.from] = next]

\* apply_relations: corrections first, contradictions after them.
Supersede(st, x) ==
    IF SameClaim(x.link.to, x.link.hash) /\ st[x.link.to] # REVOKED
    THEN [st EXCEPT ![x.link.to] = STALE] ELSE st
Contestable(s) == s < STALE \/ s = CONTESTED
Contradict(st, x) ==
    IF /\ SameClaim(x.link.to, x.link.hash)
       /\ SameClaim(x.from, entry[x.from].hash)
       /\ Contestable(st[x.from]) /\ Contestable(st[x.link.to])
    THEN [st EXCEPT ![x.from] = CONTESTED, ![x.link.to] = CONTESTED] ELSE st

\* What the visit of a link does in a round that is about one kind of link.
Effect(kind, st, x) ==
    IF x.link.kind # kind THEN st
    ELSE CASE kind = SUPPORTS    -> Support(st, x)
           [] kind = SUPERSEDES  -> Supersede(st, x)
           [] kind = CONTRADICTS -> Contradict(st, x)

\* All links once.
Visit(kind, st) ==
    LET links == Links
        upTo[n \in 0..Len(links)] ==
            IF n = 0 THEN st ELSE Effect(kind, upTo[n - 1], links[n])
    IN  upTo[Len(links)]

\* As many rounds as there are entries (the code stops when one changes nothing).
Propagate(st) ==
    LET rounds == Cardinality({id \in Ids : Grounded(id)})
        upTo[n \in 0..rounds] == IF n = 0 THEN st ELSE Visit(SUPPORTS, upTo[n - 1])
    IN  upTo[rounds]

\* A record that is gone has no status to keep.
Beginning == [id \in Ids |-> IF record[id] = Gone THEN UNAVAILABLE ELSE Initial(id)]

\* Mutation: what is contested is not passed on to what rests on it.
RefreshedOnce == Visit(CONTRADICTS, Propagate(Visit(SUPERSEDES, Beginning)))

Refreshed == Propagate(Visit(CONTRADICTS, Propagate(Visit(SUPERSEDES, Beginning))))

-----------------------------------------------------------------------------
(* knowledge_validate, knowledge_sources.                                  *)

\* reaches, along the SUPPORTS links of the entries: whatever holds of a record
\* and of all that its members rest on holds of what it reaches.  (The depth of
\* 32 at which the code gives up and answers yes is left out.)
Supporters(entries) ==
    {pair \in Ids \X Ids :
        LET links == entries[pair[1]].g.links IN
        /\ entries[pair[1]].rev # 0
        /\ \E i \in DOMAIN links : links[i].kind = SUPPORTS /\ links[i].to = pair[2]}
Reaches(entries, from, to) ==
    LET rests == Supporters(entries) IN
    \A set \in SUBSET Ids :
       from \in set /\ (\A pair \in rests : pair[1] \in set => pair[2] \in set) => to \in set

Valid(entries, id, g) ==
    \A i \in DOMAIN g.links :
       LET l == g.links[i] IN
       /\ l.to # id /\ SameClaim(l.to, l.hash)
       /\ l.kind = SUPPORTS => ~Reaches(entries, l.to, id)

SourcesRead(g) == g.covers => sources

-----------------------------------------------------------------------------
(* asper_memory_ground                                                     *)

Row(id, hash, rev, g) == [id |-> id, hash |-> hash, rev |-> rev, g |-> g]

\* The host's revision and hash are those it read some time ago.
Acceptable(id, hash, expected, g) ==
    /\ ~poisoned
    /\ record[id] # Gone /\ ~record[id].deprecated
    /\ expected = entry[id].rev
    /\ record[id].content = hash
    /\ Valid(entry, id, g) /\ SourcesRead(g)

Ground(id, hash, expected, g) ==
    LET row == Row(id, hash, expected + 1, g) IN
    /\ KOp /\ Acceptable(id, hash, expected, g)
    /\ klog' = Append(klog, row) /\ kdurable' = Len(klog')
    /\ entry' = [entry EXCEPT ![id] = [rev |-> row.rev, hash |-> hash, g |-> g,
                                       ok |-> TRUE]]
    /\ accepted' = accepted \cup {row}
    /\ UNCHANGED <<record, sources, observed, poisoned, opened, kfaults>>

\* Mutation: a failed append is reported, and the store goes on.
GroundFailsGoesOn(id, hash, expected, g) ==
    /\ KOp /\ KFault /\ Acceptable(id, hash, expected, g)
    /\ klog' \in {klog, Append(klog, Row(id, hash, expected + 1, g))}
    /\ UNCHANGED <<record, kdurable, sources, entry, observed, poisoned, opened, accepted>>

\* knowledge_commit: after a failed append nobody knows whether the revision is
\* on disk, and the store refuses everything until it is opened again.
GroundFails(id, hash, expected, g) ==
    /\ KOp /\ KFault /\ Acceptable(id, hash, expected, g)
    /\ klog' \in {klog, Append(klog, Row(id, hash, expected + 1, g))}
    /\ poisoned' = TRUE
    /\ UNCHANGED <<record, kdurable, sources, entry, observed, opened, accepted>>

-----------------------------------------------------------------------------
(* The records change, time passes, the host reports a version.            *)

Change(id, r) ==
    /\ KOp /\ record' = [record EXCEPT ![id] = r]
    /\ UNCHANGED <<klog, kdurable, sources, entry, observed, poisoned, opened, accepted,
                   kfaults>>

\* asper_store_apply under asper_knowledge_guard.
Update(id, content) ==
    /\ ~poisoned /\ record[id] # Gone /\ ~record[id].deprecated
    /\ Change(id, [record[id] EXCEPT !.content = content])
Deprecate(id) ==
    /\ ~poisoned /\ record[id] # Gone
    /\ Change(id, [record[id] EXCEPT !.deprecated = TRUE])
\* An expiry passes, or compaction drops a deprecated record.
Expire(id) ==
    /\ record[id] # Gone
    /\ Change(id, [record[id] EXCEPT !.expired = TRUE])
Purge(id) ==
    /\ record[id] # Gone /\ record[id].deprecated
    /\ Change(id, Gone)

\* asper_memory_observe_dependency; no version means it cannot be told.
Observe(version) ==
    /\ KOp /\ ~poisoned /\ observed' = version
    /\ UNCHANGED <<record, klog, kdurable, sources, entry, poisoned, opened, accepted,
                   kfaults>>

\* The scope's log cannot be read any more.
LoseSources ==
    /\ KFault /\ sources /\ sources' = FALSE
    /\ UNCHANGED <<record, klog, kdurable, entry, observed, poisoned, opened,
                   accepted, ops>>

\* asper_memory_grounding_history meets an unreadable frame.
HistoryFails ==
    /\ KFault /\ opened /\ ~poisoned /\ poisoned' = TRUE
    /\ UNCHANGED <<record, klog, kdurable, sources, entry, observed, opened,
                   accepted, ops>>

-----------------------------------------------------------------------------
(* asper_knowledge_open                                                    *)

\* The place of the latest revision a log has of an id, 0 if none.
LastOf(log, id) ==
    CHOOSE n \in 0..Len(log) :
       /\ n # 0 => log[n].id = id
       /\ \A m \in (n + 1)..Len(log) : log[m].id # id
Latest(log, id) == IF LastOf(log, id) = 0 THEN NoEntry ELSE log[LastOf(log, id)]

\* Each revision follows the one before.
Replayable(log) ==
    \A n \in 1..Len(log) : log[n].rev = Latest(SubSeq(log, 1, n - 1), log[n].id).rev + 1

\* What a revision rests on did not reach its record when it was grounded.
GroundedInTurn(log) ==
    \A n \in 1..Len(log) :
       LET before == [id \in Ids |-> Latest(SubSeq(log, 1, n - 1), id)]
           links  == log[n].g.links
       IN  \A i \in DOMAIN links :
              links[i].kind = SUPPORTS => ~Reaches(before, links[i].to, log[n].id)

\* The log a store starts with is one that such a store wrote.
ASSUME StartLogsAssumption ==
    \A log \in StartLogs :
       /\ log \in Seq([id : Ids, hash : Contents, rev : Nat, g : Groundings])
       /\ Replayable(log) /\ GroundedInTurn(log)

\* The entries a replay leaves: what a claim rests on is verified again, its
\* links against the record it is about if that still says the same.
Replayed(log) ==
    LET loaded == [id \in Ids |-> Latest(log, id)] IN
    [id \in Ids |->
        IF loaded[id].rev = 0 THEN NoEntry
        ELSE [rev |-> loaded[id].rev, hash |-> loaded[id].hash, g |-> loaded[id].g,
              ok |-> /\ SourcesRead(loaded[id].g)
                     /\ SameClaim(id, loaded[id].hash) => Valid(loaded, id, loaded[id].g)]]

Reopen ==
    /\ KOp
    /\ \E n \in kdurable..Len(klog) : klog' = SubSeq(klog, 1, n) /\ kdurable' = n
    /\ opened' = Replayable(klog')
    /\ entry' = IF opened' THEN Replayed(klog') ELSE entry
    /\ observed' = NoVersion /\ poisoned' = FALSE
    /\ UNCHANGED <<record, sources, accepted, kfaults>>

\* A store that is new, or reopened with claims grounded earlier.
KnowledgeInit ==
    /\ record = [id \in Ids |-> [content |-> FirstContent, deprecated |-> FALSE,
                                 expired |-> FALSE]]
    /\ sources = TRUE
    /\ klog \in StartLogs /\ kdurable = Len(klog) /\ accepted = ToSet(klog)
    /\ entry = Replayed(klog)
    /\ observed = NoVersion /\ poisoned = FALSE
    /\ opened = TRUE
    /\ ops = 0 /\ kfaults = 0

KnowledgeNext ==
    \/ \E id \in Ids, hash \in Contents, expected \in 0..MaxOps, g \in Groundings :
          Ground(id, hash, expected, g) \/ GroundFails(id, hash, expected, g)
    \/ LoseSources \/ HistoryFails \/ Reopen
    \/ \E id \in Ids : Deprecate(id) \/ Expire(id) \/ Purge(id)
                       \/ \E content \in Contents : Update(id, content)
    \/ \E version \in Versions \cup {NoVersion} : Observe(version)

KnowledgeSpec == KnowledgeInit /\ [][KnowledgeNext]_knowledgeVars

-----------------------------------------------------------------------------
(* Properties.                                                             *)

\* The revisions on disk always replay, into the entries in memory: no revision
\* is missing or there twice after an append failed or the power did, and every
\* grounding a host was told of is among them.
RevisionsReplay ==
    /\ opened /\ Replayable(klog)
    /\ ~poisoned => \A id \in Ids :
          /\ entry[id].rev = Latest(klog, id).rev
          /\ Grounded(id) => entry[id].g = Latest(klog, id).g
    /\ accepted \subseteq ToSet(klog)

\* What it takes for a claim to be called current, whatever the ids.
Earned(id, given) ==
    LET e == entry[id]
        asserts(x, kind, to) ==
           /\ Grounded(x)
           /\ \E i \in DOMAIN entry[x].g.links :
                LET l == entry[x].g.links[i]
                IN  l.kind = kind /\ l.to = to /\ SameClaim(to, l.hash)
        supports == {i \in DOMAIN e.g.links : e.g.links[i].kind = SUPPORTS}
    IN  /\ record[id] # Gone /\ ~record[id].deprecated /\ ~record[id].expired
        /\ Grounded(id) /\ ~e.g.revoked /\ e.hash = record[id].content /\ e.ok
        /\ e.g.needs \in {NoVersion, observed}
        /\ ~\E x \in Ids : asserts(x, SUPERSEDES, id)
        /\ ~\E x \in Ids : /\ asserts(x, CONTRADICTS, id) \/ asserts(id, CONTRADICTS, x)
                           /\ Contestable(given[x])
        /\ e.g.covers \/ supports # {}
        /\ \A i \in supports :
              SameClaim(e.g.links[i].to, e.g.links[i].hash) /\ given[e.g.links[i].to] = CURRENT

\* A reader is told that a claim is current if and only if it earned that: it is
\* alive, matches its grounding, rests on readable sources and current claims
\* alone, and is neither corrected nor contested; and no set of current claims
\* rests on nothing but itself.  UUID order has no part in it.
CurrentIsEarned ==
    opened /\ ~poisoned => \A given \in {Refreshed} :
       LET current == {id \in Ids : given[id] = CURRENT} IN
       /\ \A id \in Ids : id \in current <=> Earned(id, given)
       /\ \A circle \in (SUBSET current) \ {{}} : \E id \in circle :
             entry[id].g.covers \/
             \E to \in Ids \ circle : <<id, to>> \in Supporters(entry)
=============================================================================
