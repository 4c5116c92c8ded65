------------------------------ MODULE Records ------------------------------
(***************************************************************************)
(* The record table and everybody who changes it: hosts, curation cycles   *)
(* and maintenance reviews, all through the funnel asper_apply_op          *)
(* (src/api.c), with the guardrails and the identity quorum of             *)
(* src/curator.c, the purge of src/store_compact.c, the embedding index    *)
(* (src/index.c) and its cache on disk (src/cache.c).                      *)
(*                                                                         *)
(* The curator judges copies taken before the model generated, and the     *)
(* hosts go on meanwhile.  An operation under the write lock is one step;  *)
(* its embedding, made before the lock of the operation's own text, is in  *)
(* the same step.  That an operation outlives a crash is StoreTransaction. *)
(***************************************************************************)
EXTENDS Naturals, Sequences, FiniteSets

CONSTANTS
    MaxRecords,     \* bound: record ids 1 .. MaxRecords are handed out in order
    Text,           \* contents, equal when their FNV hashes are
    None,           \* no record, no cache entry, nobody
    IdentityMax,    \* cfg.identity_max_records
    ConfirmWindow,  \* cfg.identity_confirm_window_s
    PurgeAfter,     \* cfg.purge_after_s
    MaxReply,       \* cfg.max_ops_per_cycle, review_batch for a review
    MaxRuns, MaxTime,  \* bounds of the model
    MaxEvents          \* bound: mutations by hosts, failures, saves, restarts, ticks

\* What the guards read of a record: whose evidence it carries (declared or
\* observed is a host's), and since when it is retired.
Record == [section : {"identity", "context"}, text : Text, evidence : {"host", "inferred"},
           locked : BOOLEAN, retired : BOOLEAN, since : Nat]

ASSUME RecordsAssumption ==
    /\ MaxRecords \in Nat /\ IdentityMax \in Nat /\ ConfirmWindow \in Nat
    /\ PurgeAfter \in Nat /\ MaxReply \in Nat
    /\ MaxRuns \in Nat /\ MaxTime \in Nat /\ MaxEvents \in Nat
    /\ None \notin Record
    /\ None \notin [entries : [1 .. MaxRecords -> [hash : Text, vec : Text] \cup {None}]]

VARIABLES
    table,      \* store.table: per id the record, or None
    used,       \* how many ids were handed out
    index,      \* c->index: recs and vecs by row, and every record's emb_row
    dirty,      \* c->cache_dirty
    cache,      \* embeddings.bin: per id its content hash and vector, or None
    saver,      \* the snapshot asper_cache_save is writing, or None
    proposals,  \* c->pending, the identity quorum set
    run,        \* who owns the cycle slot, and the copies it judges
    now,        \* the clock
    votes,      \* history: identity proposals not yet followed, with their cycle
    runs, events  \* counts against the bounds

bounds == <<runs, events>>
files == <<cache, saver>>
records == <<table, used, index, dirty>>
quorum == <<proposals, votes>>
vars == <<records, files, quorum, run, now, bounds>>

Id == 1 .. MaxRecords
Known == {i \in Id : table[i] # None}
Live == {i \in Known : ~table[i].retired}
Idle == [kind |-> None, at |-> 0, copies |-> [i \in Id |-> None], seen |-> {}, left |-> 0]
EmptyIndex == [recs |-> <<>>, vecs |-> <<>>, row |-> [i \in Id |-> 0]]

Init ==
    /\ table = [i \in Id |-> None] /\ used = 0
    /\ index = EmptyIndex /\ dirty = FALSE
    /\ cache = [i \in Id |-> None] /\ saver = None
    /\ proposals = {} /\ votes = {} /\ run = Idle /\ now = 0
    /\ runs = 0 /\ events = 0
-----------------------------------------------------------------------------
(* The embedding index: rows are dense, a removed row is filled by the last *)

IndexPut(ix, i, vec) ==
    IF ix.row[i] > 0 THEN [ix EXCEPT !.vecs[ix.row[i]] = vec]
    ELSE [recs |-> Append(ix.recs, i), vecs |-> Append(ix.vecs, vec),
          row |-> [ix.row EXCEPT ![i] = Len(ix.recs) + 1]]

Front(seq) == SubSeq(seq, 1, Len(seq) - 1)

\* Mutation: the record that moves keeps its old row number.
IndexRemoveForgetsMoved(ix, i) ==
    IF ix.row[i] = 0 THEN ix
    ELSE LET r == ix.row[i]
             last == Len(ix.recs)
         IN  [recs |-> Front([ix.recs EXCEPT ![r] = ix.recs[last]]),
              vecs |-> Front([ix.vecs EXCEPT ![r] = ix.vecs[last]]),
              row |-> [ix.row EXCEPT ![i] = 0]]

IndexRemove(ix, i) ==
    IF ix.row[i] = 0 THEN ix
    ELSE LET r == ix.row[i]
             last == Len(ix.recs)
         IN  [recs |-> Front([ix.recs EXCEPT ![r] = ix.recs[last]]),
              vecs |-> Front([ix.vecs EXCEPT ![r] = ix.vecs[last]]),
              row |-> [ix.row EXCEPT ![ix.recs[last]] = r, ![i] = 0]]

\* Without the records in S, from the last one in the table to the first.
IndexWithout(ix, S) ==
    LET left[n \in 0 .. MaxRecords] ==
            IF n = 0 THEN ix
            ELSE LET i == MaxRecords + 1 - n
                 IN  IF i \in S THEN IndexRemove(left[n - 1], i) ELSE left[n - 1]
    IN  left[MaxRecords]

\* With a row for each record in S, one put after the other.
IndexWith(ix, S, vec) ==
    LET put[n \in 0 .. MaxRecords] ==
            IF n = 0 THEN ix
            ELSE IF n \in S THEN IndexPut(put[n - 1], n, vec[n]) ELSE put[n - 1]
    IN  put[MaxRecords]

Spend(n) == events + n <= MaxEvents /\ events' = events + n

\* The embedding of a text either works or is one of the bounded failures.
Cost(embedded) == IF embedded THEN 0 ELSE 1

PutRow(i, vec) == index' = IndexPut(index, i, vec) /\ dirty' = TRUE

DropRow(i) ==
    /\ index' = IndexRemove(index, i)
    /\ dirty' = (dirty \/ index.row[i] > 0)

\* After an INSERT or UPDATE: the vector of the new text, or no row at all.
Reindex(i, t, embedded) == IF embedded THEN PutRow(i, t) ELSE DropRow(i)
-----------------------------------------------------------------------------
(* The funnel: what apply_validate lets through, and what it then does. *)

ActiveIdentities == {i \in Live : table[i].section = "identity"}

Insertable(section) ==
    section = "identity" => Cardinality(ActiveIdentities) < IdentityMax

\* Mutation: whose evidence it is was checked before, on the curator's copy.
UpdatableByHandle(i, curator) == i \in Live /\ ~table[i].locked

Updatable(i, curator) ==
    /\ i \in Live /\ ~table[i].locked
    /\ curator => table[i].evidence = "inferred"

Deprecatable(i) == i \in Known /\ ~table[i].locked

\* Mutation: the lock is what the review saw when it collected its candidates.
KeepableThoughLocked(i) == i \in Known

\* A KEEP only ever comes from a review, so the curator's lock rule applies.
Keepable(i) == i \in Known /\ ~table[i].locked

Insert(section, t, evidence, locked, embedded) ==
    /\ used < MaxRecords /\ used' = used + 1
    /\ table' = [table EXCEPT ![used + 1] =
                    [section |-> section, text |-> t, evidence |-> evidence,
                     locked |-> locked, retired |-> FALSE, since |-> 0]]
    /\ Reindex(used + 1, t, embedded)

Update(i, t, evidence, embedded) ==
    /\ table' = [table EXCEPT ![i].text = t, ![i].evidence = evidence]
    /\ Reindex(i, t, embedded)
    /\ UNCHANGED used

\* Idempotent: a second DEPRECATE does not restart the purge clock.
Deprecate(i, at) ==
    /\ table' = IF table[i].retired THEN table
                ELSE [table EXCEPT ![i].retired = TRUE, ![i].since = at]
    /\ DropRow(i)
    /\ UNCHANGED used

\* A record rescued from retirement has lost its row and is embedded again.
Keep(i, embedded) ==
    /\ table' = [table EXCEPT ![i].retired = FALSE, ![i].since = 0]
    /\ IF index.row[i] > 0 THEN UNCHANGED <<index, dirty>>
       ELSE Reindex(i, table[i].text, embedded)
    /\ UNCHANGED used

Refused == UNCHANGED records
-----------------------------------------------------------------------------
(* Hosts: the public mutations. A refused one changes nothing. *)

HostStep == UNCHANGED <<files, quorum, run, now, runs>>

\* A host may declare what it inserts, or pass an inference of its own on.
HostInsert(section, t, evidence, locked, embedded) ==
    /\ HostStep /\ Spend(1 + Cost(embedded))
    /\ Insertable(section) /\ Insert(section, t, evidence, locked, embedded)

HostUpdate(i, t, embedded) ==
    /\ HostStep /\ Spend(1 + Cost(embedded))
    /\ Updatable(i, FALSE) /\ Update(i, t, "host", embedded)

HostDeprecate(i) == HostStep /\ Spend(1) /\ Deprecatable(i) /\ Deprecate(i, now)

HostSetLocked(i, value) ==
    /\ HostStep /\ Spend(1) /\ i \in Known
    /\ table' = [table EXCEPT ![i].locked = value]
    /\ UNCHANGED <<used, index, dirty>>
-----------------------------------------------------------------------------
(* Curation cycles and reviews, one at a time in the cycle slot. *)

CopiesOf(S) == [i \in Id |-> IF i \in S THEN table[i] ELSE None]

StartRun(kind, S) ==
    /\ run = Idle /\ runs < MaxRuns /\ runs' = runs + 1
    /\ run' = [Idle EXCEPT !.kind = kind, !.at = now, !.copies = CopiesOf(S),
                           !.left = MaxReply]
    /\ UNCHANGED <<records, files, quorum, now, events>>

\* collect_related: whatever live records the retrieval finds similar.
CycleStart == \E S \in SUBSET Live : StartRun("cycle", S)

\* review_collect: decayed ones, neither locked nor identity.
ReviewStart ==
    \E S \in SUBSET {i \in Live : ~table[i].locked /\ table[i].section # "identity"} :
        S # {} /\ StartRun("review", S)

\* The reply is over, or there was none.
RunEnds ==
    /\ run # Idle
    /\ run' = Idle
    /\ UNCHANGED <<records, files, quorum, now, bounds>>

\* The lines of a reply are chosen one by one, as nobody sees it as a whole.
OpOf(kind) == run.kind = kind /\ run.left > 0

\* Every branch of a curator operation takes one line of the reply.
RunUnchanged == UNCHANGED <<files, now, runs>>
Line(r) == run' = [r EXCEPT !.left = @ - 1]

CycleInsert(section, t, embedded) ==
    /\ OpOf("cycle") /\ Line(run) /\ Spend(Cost(embedded))
    /\ IF Insertable(section)
       THEN Insert(section, t, "inferred", FALSE, embedded)
       ELSE embedded /\ Refused
    /\ UNCHANGED quorum /\ RunUnchanged

\* What the funnel makes of an operation that passed the guardrails.
CuratorUpdate(i, t) ==
    IF Updatable(i, TRUE)
    THEN \E embedded \in BOOLEAN :
             Spend(Cost(embedded)) /\ Update(i, t, "inferred", embedded)
    ELSE Spend(0) /\ Refused

CuratorDeprecate(i) ==
    Spend(0) /\ IF Deprecatable(i) THEN Deprecate(i, run.at) ELSE Refused

Funnel(i, kind, t) ==
    \/ kind = "update" /\ CuratorUpdate(i, t)
    \/ kind = "deprecate" /\ CuratorDeprecate(i)

\* cycle_do_mutate judges the copy, not the record.
Judged(i) == /\ run.copies[i] # None
             /\ run.copies[i].evidence = "inferred" /\ ~run.copies[i].locked

Change(i, kind, t) == [id |-> i, kind |-> kind, text |-> IF kind = "update" THEN t ELSE None]

\* quorum_check first prunes what is older than the window.
Unexpired == {p \in proposals : run.at - p.at <= ConfirmWindow}

Agreeing(change) == {p \in Unexpired : p.change = change}

CycleMutateContext(i, kind, t) ==
    /\ OpOf("cycle") /\ Judged(i) /\ run.copies[i].section # "identity"
    /\ Line(run)
    /\ Funnel(i, kind, t)
    /\ UNCHANGED quorum /\ RunUnchanged

\* Mutation: a reply may confirm what it proposed itself.
CycleProposesForgetsSeen(i, kind, t) ==
    LET change == Change(i, kind, t)
    IN  /\ OpOf("cycle") /\ Judged(i) /\ run.copies[i].section = "identity"
        /\ Agreeing(change) = {}
        /\ proposals' = Unexpired \cup {[change |-> change, at |-> run.at]}
        /\ votes' = votes \cup {[change |-> change, at |-> run.at, cycle |-> runs]}
        /\ Line(run)
        /\ Refused /\ Spend(0) /\ RunUnchanged

\* The first proposal of an identity change waits for a later cycle; a second
\* line of the same reply does not count.
CycleProposes(i, kind, t) ==
    LET change == Change(i, kind, t)
    IN  /\ OpOf("cycle") /\ Judged(i) /\ run.copies[i].section = "identity"
        /\ IF change \in run.seen
           THEN Line(run) /\ UNCHANGED quorum
           ELSE /\ Agreeing(change) = {}
                /\ proposals' = Unexpired \cup {[change |-> change, at |-> run.at]}
                /\ votes' = votes \cup {[change |-> change, at |-> run.at, cycle |-> runs]}
                /\ Line([run EXCEPT !.seen = @ \cup {change}])
        /\ Refused /\ Spend(0) /\ RunUnchanged

\* A confirmed proposal is used up, also when the funnel then refuses it.
CycleConfirms(i, kind, t) ==
    LET change == Change(i, kind, t)
    IN  /\ OpOf("cycle") /\ Judged(i) /\ run.copies[i].section = "identity"
        /\ change \notin run.seen /\ Agreeing(change) # {}
        /\ proposals' = Unexpired \ Agreeing(change)
        /\ votes' = {v \in votes : v.change # change}
        /\ Line(run)
        /\ Funnel(i, kind, t)
        /\ RunUnchanged

\* Verdicts go straight to the funnel, whatever became of the candidate.
ReviewDeprecates(i) ==
    /\ OpOf("review") /\ run.copies[i] # None /\ Line(run)
    /\ CuratorDeprecate(i)
    /\ UNCHANGED quorum /\ RunUnchanged

ReviewKeeps(i, embedded) ==
    /\ OpOf("review") /\ run.copies[i] # None /\ Line(run) /\ Spend(Cost(embedded))
    /\ IF Keepable(i) THEN Keep(i, embedded) ELSE embedded /\ Refused
    /\ UNCHANGED quorum /\ RunUnchanged
-----------------------------------------------------------------------------
(* Compaction, the vector cache, restart, time. *)

PurgeDue == {i \in Known : table[i].retired /\ now - table[i].since >= PurgeAfter}

\* The receipt is written before the first operation, and no review has one.
ReceiptOpen == run.kind = "cycle" /\ run.left < MaxReply

\* A purged record is freed; a row it still had would dangle.
Compact ==
    /\ ~ReceiptOpen /\ PurgeDue # {}
    /\ table' = [i \in Id |-> IF i \in PurgeDue THEN None ELSE table[i]]
    /\ index' = IndexWithout(index, PurgeDue)
    /\ UNCHANGED <<used, dirty, files, quorum, run, now, bounds>>

\* What asper_cache_save writes: the rows with the hash of the record's text.
Savable(tab, ix) ==
    [i \in Id |-> IF ix.row[i] = 0 THEN None
                  ELSE [hash |-> tab[i].text, vec |-> ix.vecs[ix.row[i]]]]

\* The snapshot, taken under the lock in which the mark is cleared.  A save that
\* waited for another may find the mark cleared already.
SaveStart ==
    /\ saver = None /\ Spend(1)
    /\ saver' = [entries |-> Savable(table, index)]
    /\ dirty' = FALSE
    /\ UNCHANGED <<table, used, index, cache, quorum, run, now, runs>>

\* Mutation: the mark is cleared again when the file is there.
SaveEndsClears ==
    /\ saver # None
    /\ cache' = saver.entries /\ saver' = None
    /\ dirty' = FALSE
    /\ UNCHANGED <<table, used, index, quorum, run, now, bounds>>

SaveEnds ==
    /\ saver # None
    /\ cache' = saver.entries /\ saver' = None
    /\ UNCHANGED <<records, quorum, run, now, bounds>>

\* A failed save may have replaced the file all the same.
SaveFails ==
    /\ saver # None /\ Spend(1)
    /\ cache' \in {cache, saver.entries}
    /\ saver' = None /\ dirty' = TRUE
    /\ UNCHANGED <<table, used, index, quorum, run, now, runs>>

\* asper_cache_load takes the vectors whose text is still the record's.
Cached == {i \in Live : cache[i] # None /\ cache[i].hash = table[i].text}

\* The index of a new context: cached rows, then those embedded anew.
Rebuilt(fresh) ==
    IndexWith(IndexWith(EmptyIndex, Cached, [i \in Cached |-> cache[i].vec]),
              fresh, [i \in fresh |-> table[i].text])

\* The process ends anywhere and the store is opened again; a clean close has
\* compacted and saved before.  Copies, quorum set and snapshot are forgotten.
Reopen ==
    /\ \E fresh \in SUBSET (Live \ Cached), saved \in BOOLEAN :
          LET failed == Cardinality((Live \ Cached) \ fresh) + Cost(saved)
          IN  /\ Spend(1 + failed)
              /\ index' = Rebuilt(fresh)
              /\ cache' = IF fresh # {} /\ saved THEN Savable(table, Rebuilt(fresh)) ELSE cache
              /\ dirty' = (fresh # {} /\ ~saved)
    /\ proposals' = {} /\ votes' = {} /\ saver' = None /\ run' = Idle
    /\ UNCHANGED <<table, used, now, runs>>

TimePasses ==
    /\ now < MaxTime /\ now' = now + 1 /\ Spend(1)
    /\ UNCHANGED <<records, files, quorum, run, runs>>
-----------------------------------------------------------------------------
HostActs ==
    \/ \E s \in {"identity", "context"}, t \in Text, v \in {"host", "inferred"},
          l, e \in BOOLEAN : HostInsert(s, t, v, l, e)
    \/ \E i \in Id : \/ \E t \in Text, e \in BOOLEAN : HostUpdate(i, t, e)
                     \/ HostDeprecate(i)
                     \/ \E l \in BOOLEAN : HostSetLocked(i, l)

CycleActs ==
    \/ \E s \in {"identity", "context"}, t \in Text, e \in BOOLEAN : CycleInsert(s, t, e)
    \/ \E i \in Id, k \in {"update", "deprecate"}, t \in Text :
          CycleMutateContext(i, k, t) \/ CycleProposes(i, k, t) \/ CycleConfirms(i, k, t)

ReviewActs ==
    \E i \in Id : ReviewDeprecates(i) \/ \E e \in BOOLEAN : ReviewKeeps(i, e)

Next ==
    \/ HostActs \/ CycleStart \/ ReviewStart \/ CycleActs \/ ReviewActs \/ RunEnds
    \/ Compact \/ SaveStart \/ SaveEnds \/ SaveFails \/ Reopen \/ TimePasses

Spec == Init /\ [][Next]_vars
-----------------------------------------------------------------------------
(* Properties. *)

(* Rows and records agree: row numbers are exact after any order of puts   *)
(* and swap-removes, only live records have a row, and a row's vector was  *)
(* made of the text the record has now (api.c UPDATE, cache.c hash check). *)
IndexAgrees ==
    /\ Len(index.recs) = Len(index.vecs)
    /\ \A r \in DOMAIN index.recs : index.row[index.recs[r]] = r
    /\ \A i \in Id : index.row[i] > 0 =>
           /\ index.row[i] <= Len(index.recs) /\ index.recs[index.row[i]] = i
           /\ i \in Live /\ index.vecs[index.row[i]] = table[i].text

(* A clean mark means a saved cache: mutations that land while the file is *)
(* being written keep theirs (asper_cache_save).                           *)
CacheCurrent ==
    ~dirty /\ saver = None =>
        \A i \in Id : index.row[i] > 0 => cache[i] = Savable(table, index)[i]

\* A step that takes a line of the reply.
Curating == run'.left < run.left /\ run' # Idle

(* A cycle does not touch the text of a record that carries host evidence, *)
(* nor give it another, although the copy it judged may predate that       *)
(* evidence (apply_validate repeats the check under the write lock).       *)
HostTextStands ==
    [][\A i \in Known : Curating /\ table[i].evidence = "host" /\ table'[i] # None
           => table'[i].text = table[i].text /\ table'[i].evidence = "host"]_vars

(* An identity record is changed by the curator only when an earlier cycle *)
(* inside the window proposed the very same change and no cycle has used   *)
(* that proposal: one reply, or one proposal repeated for ever, is not     *)
(* agreement (quorum_check, cycle_seen_has).                               *)
IdentityNeedsTwoCycles ==
    [][\A i \in Known :
           Curating /\ table[i].section = "identity" /\ table'[i] # table[i] =>
               \E v \in votes :
                   /\ v.cycle < runs /\ run.at - v.at <= ConfirmWindow
                   /\ v.change \in {Change(i, "update", table'[i].text),
                                    Change(i, "deprecate", None)}]_vars

(* Every step is one the law of a record allows: whatever host, cycle and  *)
(* review do in whatever order, a locked record stays as its operator left *)
(* it and a purged one stays away.                                         *)
Life == [i \in Id |-> IF i > used THEN "absent" ELSE IF table[i] = None THEN "purged"
                      ELSE IF table[i].retired THEN "retired" ELSE "live"]
TextOf == [i \in Id |-> IF table[i] = None THEN None ELSE table[i].text]
Held == {i \in Known : table[i].locked}
Law == INSTANCE RecordLaw WITH
    Text <- Text \cup {None}, life <- Life, text <- TextOf, held <- Held
LawSpec == Law!Spec

(* tests/test_curator_cycles.c:239: "the declaration survives", and        *)
(* curator.c:560: "curator cannot rewrite host evidence".  A cycle          *)
(* deprecates no record that carries host evidence.                        *)
DeclarationSurvives ==
    [][\A i \in Known :
           Curating /\ run.kind = "cycle" /\ table[i].evidence = "host" /\ ~table[i].retired
               => ~table'[i].retired]_vars
=============================================================================
