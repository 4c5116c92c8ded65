----------------------------- MODULE EvidenceProofs -----------------------------
(***************************************************************************)
(* The machines of MCEvidence whose results are computed over sequences.   *)
(*                                                                         *)
(* Knowledge: for any records, contents, groundings and logs an earlier    *)
(* open accepted, over any number of failed appends, power failures and    *)
(* opens, every revision on disk follows the one before it, so that the    *)
(* log always replays.  A failed append may leave a revision nobody was    *)
(* told of; the store then refuses to add another until it has read the    *)
(* log again.  No set of entries rests on itself alone, because none was   *)
(* added that reached itself; so support settles in as many rounds as      *)
(* there are entries, and what is then current is what earned it.          *)
(*                                                                         *)
(* History: for any view, budget and tokenizer, the two greedy passes      *)
(* compute the declarative choice.  What a pass has decided on stays       *)
(* decided: an event taken later is never ahead of it.                     *)
(*                                                                         *)
(* MCP: whatever lines a host sends and wherever memory runs out, what it  *)
(* is answered tells it whether its call ran.                              *)
(*                                                                         *)
(* Injection: for any table, template and request, what is gathered comes  *)
(* in the order of its rank, a section keeps the longest prefix it can     *)
(* afford, and in a neat template the headings are apart, so that dropping *)
(* one leaves the others; accesses only move from batch to batch.          *)
(***************************************************************************)
EXTENDS Knowledge, SourceHistory, McpServer, Injection, ListProofs

Rows == [id : Ids, hash : Contents, rev : Nat, g : Groundings]

\* What was acknowledged is where a power failure keeps it.
AcceptedDurable == \A row \in accepted : \E n \in 1..kdurable : klog[n] = row

\* The entry of an id in memory is its latest revision on disk.
EntryLatest(id) ==
    /\ entry[id].rev = Latest(klog, id).rev
    /\ entry[id].rev # 0 => entry[id].g = Latest(klog, id).g

KnowledgeInv ==
    /\ klog \in Seq(Rows) /\ kdurable \in 0..Len(klog)
    /\ opened /\ Replayable(klog) /\ GroundedInTurn(klog)
    /\ AcceptedDurable
    /\ entry = [id \in Ids |-> entry[id]]
    /\ ~poisoned => \A id \in Ids : EntryLatest(id)

-----------------------------------------------------------------------------
(* Knowledge: the latest revision in a log.                                *)

IsLast(log, id, n) ==
    /\ n # 0 => log[n].id = id
    /\ \A m \in (n + 1)..Len(log) : log[m].id # id

LEMMA LastExists ==
    ASSUME NEW log \in Seq(Rows), NEW id
    PROVE  \E n \in 0..Len(log) : IsLast(log, id, n)
<1> DEFINE T == {n \in 0..Len(log) : \A m \in (n + 1)..Len(log) : log[m].id # id}
<1>0. Len(log) \in Nat
  OBVIOUS
<1>1. Len(log) \in T
  BY <1>0
<1>2. PICK n \in T : \A k \in T : n <= k
  <2>1. T \in SUBSET Nat /\ T # {}
    BY <1>0, <1>1
  <2> HIDE DEF T
  <2> QED
    BY <2>1, LeastNatural
<1>3. n # 0 => log[n].id = id
  <2> SUFFICES ASSUME n # 0, log[n].id # id PROVE FALSE
    OBVIOUS
  <2>1. n - 1 \in 0..Len(log) /\ ~(n <= n - 1)
    BY <1>0
  <2>2. \A m \in n..Len(log) : m = n \/ m \in (n + 1)..Len(log)
    BY <1>0
  <2>3. (n - 1) + 1 = n
    BY <1>0
  <2>4. n - 1 \in T
    BY <2>1, <2>2, <2>3
  <2> QED
    BY <1>2, <2>1, <2>4
<1> QED
  BY <1>2, <1>3 DEF IsLast

LEMMA LastIsUnique ==
    ASSUME NEW log \in Seq(Rows), NEW id, NEW n \in 0..Len(log), NEW k \in 0..Len(log),
           IsLast(log, id, n), IsLast(log, id, k)
    PROVE  n = k
<1>1. Len(log) \in Nat /\ n \in Nat /\ k \in Nat
  OBVIOUS
<1>2. ~(n < k)
  <2> SUFFICES ASSUME n < k PROVE FALSE
    OBVIOUS
  <2>1. k \in (n + 1)..Len(log) /\ k # 0
    BY <1>1
  <2> QED
    BY <2>1 DEF IsLast
<1>3. ~(k < n)
  <2> SUFFICES ASSUME k < n PROVE FALSE
    OBVIOUS
  <2>1. n \in (k + 1)..Len(log) /\ n # 0
    BY <1>1
  <2> QED
    BY <2>1 DEF IsLast
<1> QED
  BY <1>1, <1>2, <1>3

\* The last place is the one that is last.
LEMMA LastOfIs ==
    ASSUME NEW log \in Seq(Rows), NEW id, NEW n \in 0..Len(log), IsLast(log, id, n)
    PROVE  LastOf(log, id) = n
<1>1. LastOf(log, id) = CHOOSE m \in 0..Len(log) : IsLast(log, id, m)
  BY DEF LastOf, IsLast
<1>2. LastOf(log, id) \in 0..Len(log) /\ IsLast(log, id, LastOf(log, id))
  BY <1>1
<1> QED
  BY <1>2, LastIsUnique

LEMMA LastOfExists ==
    ASSUME NEW log \in Seq(Rows), NEW id
    PROVE  LastOf(log, id) \in 0..Len(log) /\ IsLast(log, id, LastOf(log, id))
BY LastExists, LastOfIs

LEMMA LatestTyped ==
    ASSUME NEW log \in Seq(Rows), NEW id
    PROVE  /\ Latest(log, id).rev \in Nat
           /\ Latest(log, id) = NoEntry \/ Latest(log, id) \in Rows
<1>1. LastOf(log, id) \in 0..Len(log)
  BY LastOfExists
<1>2. CASE LastOf(log, id) = 0
  BY <1>2 DEF Latest, NoEntry
<1>3. CASE LastOf(log, id) # 0
  <2>1. LastOf(log, id) \in 1..Len(log)
    BY <1>1, <1>3
  <2>2. log[LastOf(log, id)] \in Rows
    BY <2>1, ElementOfSeq
  <2> QED
    BY <1>3, <2>2 DEF Latest, Rows
<1> QED
  BY <1>2, <1>3

\* A revision at the end is the latest of its id, and leaves the others theirs.
LEMMA LatestAppended ==
    ASSUME NEW log \in Seq(Rows), NEW row \in Rows, NEW id
    PROVE  Latest(Append(log, row), id) = IF row.id = id THEN row ELSE Latest(log, id)
<1> DEFINE more == Append(log, row)
<1>1. /\ more \in Seq(Rows) /\ Len(more) = Len(log) + 1 /\ Len(log) \in Nat
      /\ more[Len(log) + 1] = row
      /\ \A n \in 1..Len(log) : more[n] = log[n]
  BY AppendProperties
<1> HIDE DEF more
<1>2. CASE row.id = id
  <2>1. IsLast(more, id, Len(log) + 1) /\ Len(log) + 1 \in 0..Len(more) /\ Len(log) + 1 # 0
    BY <1>1, <1>2 DEF IsLast
  <2>2. LastOf(more, id) = Len(log) + 1
    BY <1>1, <2>1, LastOfIs
  <2> QED
    BY <1>1, <1>2, <2>1, <2>2 DEF Latest, more
<1>3. CASE row.id # id
  <2> DEFINE n == LastOf(log, id)
  <2>1. n \in 0..Len(log) /\ IsLast(log, id, n)
    BY LastOfExists
  <2> HIDE DEF n
  <2>2. n \in 0..Len(more) /\ (n # 0 => n \in 1..Len(log))
    BY <1>1, <2>1
  <2>3. \A m \in (n + 1)..Len(more) : m = Len(log) + 1 \/ m \in (n + 1)..Len(log)
    BY <1>1, <2>1
  <2>4. \A m \in (n + 1)..Len(log) : more[m] = log[m]
    BY <1>1, <2>1
  <2>5. IsLast(more, id, n)
    BY <1>1, <1>3, <2>1, <2>2, <2>3, <2>4 DEF IsLast
  <2>6. LastOf(more, id) = n
    BY <1>1, <2>2, <2>5, LastOfIs
  <2> QED
    BY <1>1, <1>3, <2>2, <2>6 DEF Latest, n, more
<1> QED
  BY <1>2, <1>3

LEMMA EmptyLog ==
    ASSUME NEW id PROVE Latest(<< >>, id) = NoEntry
<1>1. << >> \in Seq(Rows) /\ Len(<< >>) = 0
  OBVIOUS
<1>2. LastOf(<< >>, id) \in 0..Len(<< >>)
  BY <1>1, LastOfExists
<1>3. LastOf(<< >>, id) = 0
  BY <1>1, <1>2
<1> QED
  BY <1>3 DEF Latest

LEMMA SamePrefix ==
    ASSUME NEW a \in Seq(Rows), NEW b \in Seq(Rows), NEW m \in 0..Len(a), m <= Len(b),
           \A k \in 1..m : a[k] = b[k]
    PROVE  SubSeq(a, 1, m) = SubSeq(b, 1, m)
<1>1. m \in 0..Len(b)
  OBVIOUS
<1>2. /\ SubSeq(a, 1, m) \in Seq(Rows) /\ SubSeq(b, 1, m) \in Seq(Rows)
      /\ Len(SubSeq(a, 1, m)) = m /\ Len(SubSeq(b, 1, m)) = m
      /\ \A k \in 1..m : SubSeq(a, 1, m)[k] = a[k]
      /\ \A k \in 1..m : SubSeq(b, 1, m)[k] = b[k]
  BY <1>1
<1> QED
  BY <1>2, SeqEqual

\* What was there before a revision was, and one appended changes nothing of it.
LEMMA BeforeAppended ==
    ASSUME NEW log \in Seq(Rows), NEW row \in Rows
    PROVE  \A n \in 1..Len(log) + 1 :
              SubSeq(Append(log, row), 1, n - 1) = SubSeq(log, 1, n - 1)
<1> DEFINE more == Append(log, row)
<1>1. /\ more \in Seq(Rows) /\ Len(more) = Len(log) + 1 /\ Len(log) \in Nat
      /\ \A n \in 1..Len(log) : more[n] = log[n]
  BY AppendProperties
<1> HIDE DEF more
<1> SUFFICES ASSUME NEW n \in 1..Len(log) + 1
             PROVE  SubSeq(more, 1, n - 1) = SubSeq(log, 1, n - 1)
  BY DEF more
<1>2. n - 1 \in 0..Len(more) /\ n - 1 <= Len(log) /\ \A k \in 1..n - 1 : k \in 1..Len(log)
  BY <1>1
<1> QED
  BY <1>1, <1>2, SamePrefix

LEMMA BeforePrefix ==
    ASSUME NEW log \in Seq(Rows), NEW n \in 0..Len(log)
    PROVE  /\ SubSeq(log, 1, n) \in Seq(Rows) /\ Len(SubSeq(log, 1, n)) = n
           /\ \A k \in 1..n : SubSeq(log, 1, n)[k] = log[k]
           /\ \A m \in 1..n : SubSeq(SubSeq(log, 1, n), 1, m - 1) = SubSeq(log, 1, m - 1)
<1> DEFINE kept == SubSeq(log, 1, n)
<1>1. /\ kept \in Seq(Rows) /\ Len(kept) = n /\ n \in Nat /\ Len(log) \in Nat /\ n <= Len(log)
      /\ \A k \in 1..n : kept[k] = log[k]
  OBVIOUS
<1> HIDE DEF kept
<1>2. ASSUME NEW m \in 1..n PROVE SubSeq(kept, 1, m - 1) = SubSeq(log, 1, m - 1)
  <2>1. m - 1 \in 0..Len(kept) /\ m - 1 <= Len(log) /\ \A k \in 1..m - 1 : k \in 1..n
    BY <1>1
  <2> QED
    BY <1>1, <2>1, SamePrefix
<1> QED
  BY <1>1, <1>2 DEF kept

\* A revision that follows the latest of its id, after a log that replays.
LEMMA AppendReplays ==
    ASSUME NEW log \in Seq(Rows), Replayable(log), NEW row \in Rows,
           row.rev = Latest(log, row.id).rev + 1
    PROVE  Replayable(Append(log, row))
<1> DEFINE more == Append(log, row)
<1>1. /\ more \in Seq(Rows) /\ Len(more) = Len(log) + 1 /\ Len(log) \in Nat
      /\ more[Len(log) + 1] = row
      /\ \A n \in 1..Len(log) : more[n] = log[n]
  BY AppendProperties
<1>2. \A n \in 1..Len(log) + 1 : SubSeq(more, 1, n - 1) = SubSeq(log, 1, n - 1)
  BY BeforeAppended
<1>3. SubSeq(log, 1, Len(log)) = log
  BY <1>1
<1> HIDE DEF more
<1>4. ASSUME NEW n \in 1..Len(more)
      PROVE  more[n].rev = Latest(SubSeq(more, 1, n - 1), more[n].id).rev + 1
  <2>1. CASE n = Len(log) + 1
    <3>1. n - 1 = Len(log) /\ SubSeq(more, 1, n - 1) = log
      BY <1>1, <1>2, <1>3, <2>1
    <3> QED
      BY <1>1, <2>1, <3>1
  <2>2. CASE n # Len(log) + 1
    <3>1. n \in 1..Len(log)
      BY <1>1, <2>2
    <3> QED
      BY <1>1, <1>2, <3>1 DEF Replayable
  <2> QED
    BY <2>1, <2>2
<1> QED
  BY <1>4 DEF Replayable, more

\* What a power failure keeps of a log that replays does so too.
LEMMA PrefixReplays ==
    ASSUME NEW log \in Seq(Rows), Replayable(log), NEW n \in 0..Len(log)
    PROVE  /\ SubSeq(log, 1, n) \in Seq(Rows) /\ Len(SubSeq(log, 1, n)) = n
           /\ \A k \in 1..n : SubSeq(log, 1, n)[k] = log[k]
           /\ Replayable(SubSeq(log, 1, n))
<1> DEFINE kept == SubSeq(log, 1, n)
<1>1. /\ kept \in Seq(Rows) /\ Len(kept) = n /\ n \in Nat /\ Len(log) \in Nat
      /\ \A k \in 1..n : kept[k] = log[k]
      /\ \A m \in 1..n : SubSeq(kept, 1, m - 1) = SubSeq(log, 1, m - 1)
  BY BeforePrefix
<1> HIDE DEF kept
<1>3. ASSUME NEW m \in 1..n
      PROVE  kept[m].rev = Latest(SubSeq(kept, 1, m - 1), kept[m].id).rev + 1
  <2>1. m \in 1..Len(log)
    BY <1>1
  <2> QED
    BY <1>1, <2>1 DEF Replayable
<1> QED
  BY <1>1, <1>3 DEF Replayable, kept

\* The entries a log leaves.
Loaded(log) == [id \in Ids |-> Latest(log, id)]

\* What the links of a grounding rest on does not reach its record.
Apart(entries, id, g) ==
    \A i \in DOMAIN g.links : g.links[i].kind = SUPPORTS => ~Reaches(entries, g.links[i].to, id)

LEMMA InTurnIs ==
    ASSUME NEW log
    PROVE  GroundedInTurn(log) <=>
              \A n \in 1..Len(log) : Apart(Loaded(SubSeq(log, 1, n - 1)), log[n].id, log[n].g)
BY DEF GroundedInTurn, Apart, Loaded

LEMMA AppendInTurn ==
    ASSUME NEW log \in Seq(Rows), GroundedInTurn(log), NEW row \in Rows,
           Apart(Loaded(log), row.id, row.g)
    PROVE  GroundedInTurn(Append(log, row))
<1> DEFINE more == Append(log, row)
<1>1. /\ more \in Seq(Rows) /\ Len(more) = Len(log) + 1 /\ Len(log) \in Nat
      /\ more[Len(log) + 1] = row
      /\ \A n \in 1..Len(log) : more[n] = log[n]
      /\ \A n \in 1..Len(log) + 1 : SubSeq(more, 1, n - 1) = SubSeq(log, 1, n - 1)
      /\ SubSeq(log, 1, Len(log)) = log
  BY AppendProperties, BeforeAppended
<1> HIDE DEF more
<1>2. ASSUME NEW n \in 1..Len(more)
      PROVE  Apart(Loaded(SubSeq(more, 1, n - 1)), more[n].id, more[n].g)
  <2>1. CASE n = Len(log) + 1
    <3>1. n - 1 = Len(log) /\ SubSeq(more, 1, n - 1) = log
      BY <1>1, <2>1
    <3> QED
      BY <1>1, <2>1, <3>1
  <2>2. CASE n # Len(log) + 1
    <3>1. n \in 1..Len(log)
      BY <1>1, <2>2
    <3> QED
      BY <1>1, <3>1, InTurnIs
  <2> QED
    BY <2>1, <2>2
<1> QED
  BY <1>2, InTurnIs DEF more

LEMMA PrefixInTurn ==
    ASSUME NEW log \in Seq(Rows), GroundedInTurn(log), NEW n \in 0..Len(log)
    PROVE  GroundedInTurn(SubSeq(log, 1, n))
<1> DEFINE kept == SubSeq(log, 1, n)
<1>1. /\ kept \in Seq(Rows) /\ Len(kept) = n /\ n \in Nat /\ Len(log) \in Nat /\ n <= Len(log)
      /\ \A k \in 1..n : kept[k] = log[k]
      /\ \A m \in 1..n : SubSeq(kept, 1, m - 1) = SubSeq(log, 1, m - 1)
  BY BeforePrefix
<1> HIDE DEF kept
<1>2. \A m \in 1..n : m \in 1..Len(log)
  BY <1>1
<1>3. \A m \in 1..Len(log) : Apart(Loaded(SubSeq(log, 1, m - 1)), log[m].id, log[m].g)
  BY InTurnIs
<1> QED
  BY <1>1, <1>2, <1>3, InTurnIs DEF kept

\* Only revisions and links count for what a record reaches.
LEMMA SameSupporters ==
    ASSUME NEW a, NEW b,
           \A id \in Ids : a[id].rev = b[id].rev /\ (a[id].rev # 0 => a[id].g = b[id].g)
    PROVE  /\ Supporters(a) = Supporters(b)
           /\ \A from, to : Reaches(a, from, to) <=> Reaches(b, from, to)
<1>1. Supporters(a) = Supporters(b)
  BY DEF Supporters
<1> QED
  BY <1>1 DEF Reaches

-----------------------------------------------------------------------------
(* Knowledge: the steps.                                                   *)

\* What a replay makes of a log: the latest revision of each id.
LEMMA ReplayedLatest ==
    ASSUME NEW log \in Seq(Rows)
    PROVE  /\ Replayed(log) = [id \in Ids |-> Replayed(log)[id]]
           /\ \A id \in Ids :
                 /\ Replayed(log)[id].rev = Latest(log, id).rev
                 /\ Replayed(log)[id].rev # 0 => Replayed(log)[id].g = Latest(log, id).g
<1>1. Replayed(log) = [id \in Ids |-> Replayed(log)[id]]
  BY DEF Replayed
<1>2. ASSUME NEW id \in Ids
      PROVE  /\ Replayed(log)[id].rev = Latest(log, id).rev
             /\ Replayed(log)[id].rev # 0 => Replayed(log)[id].g = Latest(log, id).g
  <2>1. CASE Latest(log, id).rev = 0
    BY <2>1 DEF Replayed, NoEntry
  <2>2. CASE Latest(log, id).rev # 0
    BY <2>2 DEF Replayed
  <2> QED
    BY <2>1, <2>2
<1> QED
  BY <1>1, <1>2

LEMMA KnowledgeInvInit == KnowledgeInit => KnowledgeInv
<1> SUFFICES ASSUME KnowledgeInit PROVE KnowledgeInv
  OBVIOUS
<1>1. /\ klog \in StartLogs /\ kdurable = Len(klog) /\ accepted = ToSet(klog)
      /\ entry = Replayed(klog) /\ opened = TRUE
  BY DEF KnowledgeInit
<1>2. klog \in Seq(Rows) /\ Replayable(klog) /\ GroundedInTurn(klog)
  BY <1>1, StartLogsAssumption DEF Rows
<1>3. kdurable \in 0..Len(klog)
  BY <1>1, <1>2
<1>4. AcceptedDurable
  BY <1>1, <1>2 DEF AcceptedDurable, ToSet
<1> QED
  BY <1>1, <1>2, <1>3, <1>4, ReplayedLatest DEF KnowledgeInv, EntryLatest

\* The revision a ground writes follows the latest on disk.
LEMMA GroundReplays ==
    ASSUME KnowledgeInv, NEW id \in Ids, NEW hash \in Contents, NEW expected \in Nat,
           NEW g \in Groundings, Acceptable(id, hash, expected, g)
    PROVE  LET row == Row(id, hash, expected + 1, g)
           IN  /\ row \in Rows /\ row.id = id /\ row.rev = expected + 1 /\ row.g = g
               /\ Append(klog, row) \in Seq(Rows) /\ Replayable(Append(klog, row))
               /\ GroundedInTurn(Append(klog, row))
<1> DEFINE row == Row(id, hash, expected + 1, g)
<1>1. row \in Rows /\ row.id = id /\ row.rev = expected + 1 /\ row.g = g
  BY DEF Row, Rows
<1>2. expected = Latest(klog, id).rev
  BY DEF Acceptable, KnowledgeInv, EntryLatest
<1> HIDE DEF row
<1>3. klog \in Seq(Rows) /\ Replayable(klog) /\ GroundedInTurn(klog)
  BY DEF KnowledgeInv
<1>4. Append(klog, row) \in Seq(Rows)
  BY <1>1, <1>3
<1>5. Replayable(Append(klog, row))
  BY <1>1, <1>2, <1>3, AppendReplays
<1>6. Apart(entry, id, g)
  BY DEF Acceptable, Valid, Apart
<1>7. \A i \in Ids : /\ entry[i].rev = Loaded(klog)[i].rev
                     /\ entry[i].rev # 0 => entry[i].g = Loaded(klog)[i].g
  BY DEF Acceptable, KnowledgeInv, EntryLatest, Loaded
<1>8. Apart(Loaded(klog), id, g)
  BY <1>6, <1>7, SameSupporters DEF Apart
<1>9. GroundedInTurn(Append(klog, row))
  BY <1>1, <1>3, <1>8, AppendInTurn
<1> QED
  BY <1>1, <1>4, <1>5, <1>9 DEF row

LEMMA GroundSteps ==
    ASSUME KnowledgeInv, NEW id \in Ids, NEW hash \in Contents, NEW expected \in Nat,
           NEW g \in Groundings, Ground(id, hash, expected, g) \/ GroundFails(id, hash, expected, g)
    PROVE  KnowledgeInv'
<1> DEFINE row == Row(id, hash, expected + 1, g)
<1>1. /\ row \in Rows /\ row.id = id /\ row.rev = expected + 1 /\ row.g = g
      /\ Append(klog, row) \in Seq(Rows) /\ Replayable(Append(klog, row))
      /\ GroundedInTurn(Append(klog, row))
  BY GroundReplays DEF Ground, GroundFails
<1>2. /\ Len(klog) \in Nat /\ Len(Append(klog, row)) = Len(klog) + 1
      /\ Append(klog, row)[Len(klog) + 1] = row
      /\ \A n \in 1..Len(klog) : Append(klog, row)[n] = klog[n]
      /\ klog \in Seq(Rows) /\ kdurable \in 0..Len(klog)
  <2>1. klog \in Seq(Rows) /\ kdurable \in 0..Len(klog)
    BY DEF KnowledgeInv
  <2> HIDE DEF row
  <2> QED
    BY <1>1, <2>1, AppendProperties
<1>3. CASE Ground(id, hash, expected, g)
  <2>1. /\ klog' = Append(klog, row) /\ kdurable' = Len(klog')
        /\ entry' = [entry EXCEPT ![id] = [rev |-> row.rev, hash |-> hash, g |-> g, ok |-> TRUE]]
        /\ accepted' = accepted \cup {row} /\ UNCHANGED <<poisoned, opened>> /\ ~poisoned
    BY <1>3 DEF Ground, Acceptable
  <2> DEFINE made == [rev |-> row.rev, hash |-> hash, g |-> g, ok |-> TRUE]
  <2>2. made.rev = row.rev /\ made.g = row.g
    BY <1>1
  <2> HIDE DEF row, made
  <2>3. kdurable' \in 0..Len(klog') /\ kdurable' = Len(klog) + 1
    BY <1>2, <2>1
  <2>4. AcceptedDurable'
    <3> SUFFICES ASSUME NEW a \in accepted' PROVE \E n \in 1..kdurable' : klog'[n] = a
      BY DEF AcceptedDurable
    <3>1. CASE a = row
      BY <1>2, <2>1, <2>3, <3>1
    <3>2. CASE a \in accepted
      <4>1. PICK n \in 1..kdurable : klog[n] = a
        BY <3>2 DEF KnowledgeInv, AcceptedDurable
      <4>2. n \in 1..Len(klog) /\ n \in 1..kdurable'
        BY <1>2, <2>3
      <4> QED
        BY <1>2, <2>1, <4>1, <4>2
    <3> QED
      BY <2>1, <3>1, <3>2
  <2>5. entry' = [entry EXCEPT ![id] = made] /\ entry = [i \in Ids |-> entry[i]]
    BY <2>1 DEF KnowledgeInv, made
  <2>6. entry' = [i \in Ids |-> entry'[i]] /\ \A i \in Ids : entry'[i] = IF i = id THEN made ELSE entry[i]
    BY <2>5
  <2>7. ASSUME NEW i \in Ids PROVE EntryLatest(i)'
    <3>1. Latest(klog', i) = IF row.id = i THEN row ELSE Latest(klog, i)
      BY <1>1, <1>2, <2>1, LatestAppended
    <3>2. CASE i = id
      BY <1>1, <2>2, <2>6, <3>1, <3>2 DEF EntryLatest
    <3>3. CASE i # id
      <4>1. EntryLatest(i)
        BY <2>1 DEF KnowledgeInv
      <4> QED
        BY <1>1, <2>6, <3>1, <3>3, <4>1 DEF EntryLatest
    <3> QED
      BY <3>2, <3>3
  <2> QED
    BY <1>1, <2>1, <2>3, <2>4, <2>6, <2>7 DEF KnowledgeInv
<1>4. CASE GroundFails(id, hash, expected, g)
  <2>1. /\ klog' \in {klog, Append(klog, row)} /\ poisoned' = TRUE
        /\ UNCHANGED <<kdurable, entry, opened, accepted>>
    BY <1>4 DEF GroundFails
  <2> HIDE DEF row
  <2>2. /\ klog' \in Seq(Rows) /\ kdurable' \in 0..Len(klog')
        /\ Replayable(klog') /\ GroundedInTurn(klog')
    <3>1. Replayable(klog) /\ GroundedInTurn(klog)
      BY DEF KnowledgeInv
    <3>2. CASE klog' = klog
      BY <1>2, <2>1, <3>1, <3>2
    <3>3. CASE klog' = Append(klog, row)
      BY <1>1, <1>2, <2>1, <3>3
    <3> QED
      BY <2>1, <3>2, <3>3
  <2>3. AcceptedDurable'
    <3> SUFFICES ASSUME NEW a \in accepted PROVE \E n \in 1..kdurable : klog'[n] = a
      BY <2>1 DEF AcceptedDurable
    <3>1. PICK n \in 1..kdurable : klog[n] = a
      BY DEF KnowledgeInv, AcceptedDurable
    <3>2. n \in 1..Len(klog)
      BY <1>2
    <3> QED
      BY <1>2, <2>1, <3>1, <3>2
  <2> QED
    BY <2>1, <2>2, <2>3 DEF KnowledgeInv
<1> QED
  BY <1>3, <1>4

LEMMA ReopenSteps == ASSUME KnowledgeInv, Reopen PROVE KnowledgeInv'
<1>1. PICK n \in kdurable..Len(klog) : klog' = SubSeq(klog, 1, n) /\ kdurable' = n
  BY DEF Reopen
<1>2. /\ klog \in Seq(Rows) /\ kdurable \in 0..Len(klog)
      /\ Replayable(klog) /\ GroundedInTurn(klog)
      /\ Len(klog) \in Nat /\ kdurable \in Nat
  BY DEF KnowledgeInv
<1>3. n \in 0..Len(klog)
  BY <1>2
<1>4. /\ klog' \in Seq(Rows) /\ Len(klog') = n
      /\ Replayable(klog') /\ GroundedInTurn(klog')
      /\ \A k \in 1..n : klog'[k] = klog[k]
  BY <1>1, <1>2, <1>3, PrefixReplays, PrefixInTurn
<1>5. opened' /\ entry' = Replayed(klog') /\ UNCHANGED accepted
  BY <1>4 DEF Reopen
<1>6. AcceptedDurable'
  <2> SUFFICES ASSUME NEW a \in accepted PROVE \E k \in 1..n : klog'[k] = a
    BY <1>1, <1>5 DEF AcceptedDurable
  <2>1. PICK k \in 1..kdurable : klog[k] = a
    BY DEF KnowledgeInv, AcceptedDurable
  <2>2. k \in 1..n
    BY <1>2
  <2> QED
    BY <1>4, <2>1, <2>2
<1>7. entry' = [id \in Ids |-> entry'[id]] /\ \A id \in Ids : EntryLatest(id)'
  BY <1>4, <1>5, ReplayedLatest DEF EntryLatest
<1>8. kdurable' \in 0..Len(klog')
  BY <1>1, <1>3, <1>4
<1> QED
  BY <1>4, <1>5, <1>6, <1>7, <1>8 DEF KnowledgeInv

LEMMA KnowledgeInvStep == KnowledgeInv /\ [KnowledgeNext]_knowledgeVars => KnowledgeInv'
<1> SUFFICES ASSUME KnowledgeInv, [KnowledgeNext]_knowledgeVars PROVE KnowledgeInv'
  OBVIOUS
<1>1. ASSUME NEW id \in Ids, NEW hash \in Contents, NEW expected \in 0..MaxOps,
             NEW g \in Groundings,
             Ground(id, hash, expected, g) \/ GroundFails(id, hash, expected, g)
      PROVE  KnowledgeInv'
  <2>1. expected \in Nat
    OBVIOUS
  <2> QED
    BY <1>1, <2>1, GroundSteps
<1>2. CASE Reopen
  BY <1>2, ReopenSteps
<1>3. ASSUME UNCHANGED <<klog, kdurable, entry, opened, accepted>>, poisoned' \/ ~poisoned
      PROVE  KnowledgeInv'
  BY <1>3 DEF KnowledgeInv, AcceptedDurable, EntryLatest
<1>4. CASE LoseSources \/ HistoryFails
  BY <1>3, <1>4 DEF LoseSources, HistoryFails, KnowledgeInv, AcceptedDurable, EntryLatest
<1>5. ASSUME UNCHANGED <<klog, kdurable, entry, opened, accepted, poisoned>>
      PROVE  KnowledgeInv'
  BY <1>5 DEF KnowledgeInv, AcceptedDurable, EntryLatest
<1>6. ASSUME NEW id \in Ids,
             \/ Deprecate(id) \/ Expire(id) \/ Purge(id)
             \/ \E content \in Contents : Update(id, content)
      PROVE  KnowledgeInv'
  BY <1>5, <1>6 DEF Deprecate, Expire, Purge, Update, Change
<1>7. ASSUME NEW version, Observe(version) PROVE KnowledgeInv'
  BY <1>5, <1>7 DEF Observe
<1>8. CASE UNCHANGED knowledgeVars
  BY <1>5, <1>8 DEF knowledgeVars
<1> QED
  BY <1>1, <1>2, <1>4, <1>6, <1>7, <1>8 DEF KnowledgeNext

-----------------------------------------------------------------------------
(* Knowledge: the theorems.                                                *)

\* The invariant holds in every state.
THEOREM KnowledgeAlways == KnowledgeSpec => []KnowledgeInv
BY KnowledgeInvInit, KnowledgeInvStep, PTL DEF KnowledgeSpec

\* asper_memory_ground, knowledge_commit, asper_knowledge_open: the revisions on
\* disk always replay, into the entries in memory, and every grounding a host
\* was told of is among them.
THEOREM GroundingsReplay == KnowledgeSpec => []RevisionsReplay
<1>1. KnowledgeInv => RevisionsReplay
  <2> SUFFICES ASSUME KnowledgeInv PROVE RevisionsReplay
    OBVIOUS
  <2>1. accepted \subseteq ToSet(klog)
    <3> SUFFICES ASSUME NEW a \in accepted PROVE a \in ToSet(klog)
      OBVIOUS
    <3>1. PICK n \in 1..kdurable : klog[n] = a
      BY DEF KnowledgeInv, AcceptedDurable
    <3>2. n \in DOMAIN klog
      BY DEF KnowledgeInv
    <3> QED
      BY <3>1, <3>2 DEF ToSet
  <2> QED
    BY <2>1 DEF KnowledgeInv, EntryLatest, RevisionsReplay, Grounded
<1> QED
  BY <1>1, KnowledgeAlways, PTL

-----------------------------------------------------------------------------
(* Knowledge: what the visits compute.                                     *)

\* The statuses after each link.
Visits(kind, links, st, N, f) ==
    /\ f[0] = st
    /\ \A n \in 1..N : f[n] = Effect(kind, f[n - 1], links[n])

\* They solve the recursion of Visit.
VisitsUpTo(kind, links, st, N, f) ==
    f = [n \in 0..N |-> IF n = 0 THEN st ELSE Effect(kind, f[n - 1], links[n])]

LEMMA VisitsExist ==
    ASSUME NEW kind, NEW links, NEW st, NEW N \in Nat
    PROVE  \E f : VisitsUpTo(kind, links, st, N, f)
<1> DEFINE G(f, m) == [n \in 0..m |-> IF n = 0 THEN st ELSE Effect(kind, f[n - 1], links[n])]
           Q == {m \in 0..N : \E f : f = G(f, m)}
<1>2. 0 \in Q
  <2> DEFINE f == [n \in 0..0 |-> st]
  <2>1. f = G(f, 0)
    OBVIOUS
  <2> HIDE DEF f, G
  <2> QED
    BY <2>1
<1>3. ASSUME NEW m \in 1..N, m - 1 \in Q PROVE m \in Q
  <2>1. PICK f : f = G(f, m - 1)
    BY <1>3
  <2> DEFINE last == Effect(kind, f[m - 1], links[m])
             g == [n \in 0..m |-> IF n = m THEN last ELSE f[n]]
  <2>2. ASSUME NEW n \in 0..m
        PROVE  g[n] = IF n = 0 THEN st ELSE Effect(kind, g[n - 1], links[n])
    <3>1. CASE n = 0
      <4>1. 0 \in 0..m - 1 /\ 0 # m /\ 0 \in 0..m
        OBVIOUS
      <4>2. g[0] = f[0]
        BY <4>1
      <4>3. f[0] = st
        BY <2>1, <4>1
      <4> QED
        BY <3>1, <4>2, <4>3
    <3>2. CASE n = m
      <4>1. m - 1 \in 0..m /\ m - 1 # m /\ m # 0
        OBVIOUS
      <4>2. g[m] = last /\ g[m - 1] = f[m - 1]
        BY <4>1
      <4> HIDE DEF g
      <4> QED
        BY <3>2, <4>1, <4>2
    <3>3. CASE n # 0 /\ n # m
      <4>1. n \in 0..m - 1 /\ n - 1 \in 0..m /\ n - 1 # m
        BY <3>3
      <4>2. g[n] = f[n] /\ g[n - 1] = f[n - 1]
        BY <3>3, <4>1
      <4> HIDE DEF g
      <4>3. G(f, m - 1)[n] = Effect(kind, f[n - 1], links[n])
        BY <3>3, <4>1
      <4> HIDE DEF G
      <4> QED
        BY <2>1, <3>3, <4>2, <4>3, Zenon
    <3> QED
      BY <3>1, <3>2, <3>3
  <2>3. g = [n \in 0..m |-> g[n]]
    OBVIOUS
  <2> HIDE DEF g
  <2>4. g = G(g, m)
    BY <2>2, <2>3, Zenon
  <2>5. m \in 0..N
    OBVIOUS
  <2> HIDE DEF G
  <2> QED
    BY <2>4, <2>5
<1> HIDE DEF Q
<1>4. N \in Q
  BY <1>2, <1>3, UpTo
<1> QED
  BY <1>4, Zenon DEF Q, VisitsUpTo

LEMMA VisitVisits ==
    ASSUME NEW A, NEW kind, NEW st, NEW links, links = Links, links \in Seq(A)
    PROVE  \E f : Visits(kind, links, st, Len(links), f) /\ Visit(kind, st) = f[Len(links)]
<1> DEFINE E(f) == [n \in 0..Len(links) |-> IF n = 0 THEN st ELSE Effect(kind, f[n - 1], links[n])]
<1>1. Len(links) \in Nat
  OBVIOUS
<1>2. PICK g : g = E(g)
  <2>1. \E g : VisitsUpTo(kind, links, st, Len(links), g)
    BY <1>1, VisitsExist
  <2> QED
    BY <2>1, Zenon DEF VisitsUpTo
<1> DEFINE f == CHOOSE x : x = E(x)
<1>3. f = E(f)
  BY <1>2, Zenon
<1>4. Visit(kind, st) = f[Len(links)]
  BY Zenon DEF Visit
<1> HIDE DEF f
<1>5. f[0] = st
  BY <1>1, <1>3
<1>6. ASSUME NEW n \in 1..Len(links) PROVE f[n] = Effect(kind, f[n - 1], links[n])
  <2>1. n \in 0..Len(links) /\ n # 0
    BY <1>1
  <2>2. E(f)[n] = Effect(kind, f[n - 1], links[n])
    BY <2>1, Zenon
  <2> QED
    BY <1>3, <2>2, Zenon
<1>7. Visits(kind, links, st, Len(links), f)
  BY <1>5, <1>6, Zenon DEF Visits
<1> QED
  BY <1>4, <1>7

\* The statuses after each round.
Rounds(st, N, f) ==
    /\ f[0] = st
    /\ \A n \in 1..N : f[n] = Visit(SUPPORTS, f[n - 1])

\* They solve the recursion of Propagate.
RoundsUpTo(st, N, f) ==
    f = [n \in 0..N |-> IF n = 0 THEN st ELSE Visit(SUPPORTS, f[n - 1])]

LEMMA RoundsExist ==
    ASSUME NEW st, NEW N \in Nat
    PROVE  \E f : RoundsUpTo(st, N, f)
<1> DEFINE G(f, m) == [n \in 0..m |-> IF n = 0 THEN st ELSE Visit(SUPPORTS, f[n - 1])]
           Q == {m \in 0..N : \E f : f = G(f, m)}
<1>2. 0 \in Q
  <2> DEFINE f == [n \in 0..0 |-> st]
  <2>1. f = G(f, 0)
    OBVIOUS
  <2> HIDE DEF f, G
  <2> QED
    BY <2>1
<1>3. ASSUME NEW m \in 1..N, m - 1 \in Q PROVE m \in Q
  <2>1. PICK f : f = G(f, m - 1)
    BY <1>3
  <2> DEFINE last == Visit(SUPPORTS, f[m - 1])
             g == [n \in 0..m |-> IF n = m THEN last ELSE f[n]]
  <2>2. ASSUME NEW n \in 0..m
        PROVE  g[n] = IF n = 0 THEN st ELSE Visit(SUPPORTS, g[n - 1])
    <3>1. CASE n = 0
      <4>1. 0 \in 0..m - 1 /\ 0 # m /\ 0 \in 0..m
        OBVIOUS
      <4>2. g[0] = f[0]
        BY <4>1
      <4>3. f[0] = st
        BY <2>1, <4>1
      <4> QED
        BY <3>1, <4>2, <4>3
    <3>2. CASE n = m
      <4>1. m - 1 \in 0..m /\ m - 1 # m /\ m # 0
        OBVIOUS
      <4>2. g[m] = last /\ g[m - 1] = f[m - 1]
        BY <4>1
      <4> HIDE DEF g
      <4> QED
        BY <3>2, <4>1, <4>2
    <3>3. CASE n # 0 /\ n # m
      <4>1. n \in 0..m - 1 /\ n - 1 \in 0..m /\ n - 1 # m
        BY <3>3
      <4>2. g[n] = f[n] /\ g[n - 1] = f[n - 1]
        BY <3>3, <4>1
      <4> HIDE DEF g
      <4>3. G(f, m - 1)[n] = Visit(SUPPORTS, f[n - 1])
        BY <3>3, <4>1
      <4> HIDE DEF G
      <4> QED
        BY <2>1, <3>3, <4>2, <4>3, Zenon
    <3> QED
      BY <3>1, <3>2, <3>3
  <2>3. g = [n \in 0..m |-> g[n]]
    OBVIOUS
  <2> HIDE DEF g
  <2>4. g = G(g, m)
    BY <2>2, <2>3, Zenon
  <2>5. m \in 0..N
    OBVIOUS
  <2> HIDE DEF G
  <2> QED
    BY <2>4, <2>5
<1> HIDE DEF Q
<1>4. N \in Q
  BY <1>2, <1>3, UpTo
<1> QED
  BY <1>4, Zenon DEF Q, RoundsUpTo

LEMMA PropagateRounds ==
    ASSUME NEW st, NEW rounds \in Nat, rounds = Cardinality({id \in Ids : Grounded(id)})
    PROVE  \E f : Rounds(st, rounds, f) /\ Propagate(st) = f[rounds]
<1> DEFINE E(f) == [n \in 0..rounds |-> IF n = 0 THEN st ELSE Visit(SUPPORTS, f[n - 1])]
<1>1. rounds \in Nat
  OBVIOUS
<1>2. PICK g : g = E(g)
  <2>1. \E g : RoundsUpTo(st, rounds, g)
    BY <1>1, RoundsExist
  <2> QED
    BY <2>1, Zenon DEF RoundsUpTo
<1> DEFINE f == CHOOSE x : x = E(x)
<1>3. f = E(f)
  BY <1>2, Zenon
<1>4. Propagate(st) = f[rounds]
  BY Zenon DEF Propagate
<1> HIDE DEF f
<1>5. f[0] = st
  BY <1>1, <1>3
<1>6. ASSUME NEW n \in 1..rounds PROVE f[n] = Visit(SUPPORTS, f[n - 1])
  <2>1. n \in 0..rounds /\ n # 0
    BY <1>1
  <2>2. E(f)[n] = Visit(SUPPORTS, f[n - 1])
    BY <2>1, Zenon
  <2> QED
    BY <1>3, <2>2, Zenon
<1>7. Rounds(st, rounds, f)
  BY <1>5, <1>6, Zenon DEF Rounds
<1> QED
  BY <1>4, <1>7

-----------------------------------------------------------------------------
(* Knowledge: the statuses.                                                *)

Status == {UNVERIFIED, CURRENT, STALE, CONTESTED, REVOKED, UNAVAILABLE}
Statuses == [Ids -> Status]
Visited == [from : Ids, link : Link]

LEMMA EndsTyped == ASSUME NEW x \in Visited PROVE x.from \in Ids /\ x.link.to \in Ids
BY DEF Visited, Link

\* The links there are, with the entries that assert them.
VisitedAre(links) ==
    /\ links \in Seq(Visited)
    /\ \A n \in 1..Len(links) :
          /\ Grounded(links[n].from)
          /\ \E i \in DOMAIN entry[links[n].from].g.links :
                links[n].link = entry[links[n].from].g.links[i]
    /\ \A id \in Ids : Grounded(id) =>
          \A i \in DOMAIN entry[id].g.links :
             \E n \in 1..Len(links) : links[n] = [from |-> id, link |-> entry[id].g.links[i]]

LEMMA EntryTyped ==
    ASSUME KnowledgeInv, ~poisoned, NEW id \in Ids, Grounded(id)
    PROVE  entry[id].g \in Groundings /\ entry[id].g.links \in Seq(Link)
<1>1. entry[id].rev = Latest(klog, id).rev /\ entry[id].g = Latest(klog, id).g /\ entry[id].rev # 0
  BY DEF KnowledgeInv, EntryLatest, Grounded
<1>2. klog \in Seq(Rows)
  BY DEF KnowledgeInv
<1>3. Latest(klog, id) \in Rows
  BY <1>1, <1>2, LatestTyped DEF NoEntry
<1> QED
  BY <1>1, <1>3, KnowledgeAssumption DEF Rows

LEMMA LinksAre ==
    ASSUME KnowledgeInv, ~poisoned
    PROVE  VisitedAre(Links)
<1> DEFINE of(id) == [i \in DOMAIN entry[id].g.links |-> [from |-> id, link |-> entry[id].g.links[i]]]
           part(id) == IF ~Grounded(id) THEN << >> ELSE of(id)
           seqs == [id \in Ids |-> part(id)]
<1>0. Links = Joined(seqs)
  BY DEF Links
<1>1. Cardinality(Ids) \in Nat /\ Ids = 1..Cardinality(Ids)
  BY KnowledgeAssumption, FS_CardinalityType
<1>2. ASSUME NEW id \in Ids
      PROVE  /\ part(id) \in Seq(Visited)
             /\ \A e : e \in ToSet(part(id)) <=>
                   /\ Grounded(id)
                   /\ \E i \in DOMAIN entry[id].g.links : e = [from |-> id, link |-> entry[id].g.links[i]]
  <2>1. CASE ~Grounded(id)
    BY <2>1 DEF ToSet
  <2>2. CASE Grounded(id)
    <3> DEFINE ls == entry[id].g.links
    <3>1. ls \in Seq(Link)
      BY <2>2, EntryTyped
    <3> HIDE DEF ls
    <3>2. Len(ls) \in Nat /\ DOMAIN ls = 1..Len(ls) /\ \A i \in 1..Len(ls) : ls[i] \in Link
      BY <3>1
    <3>3. [i \in DOMAIN ls |-> [from |-> id, link |-> ls[i]]] \in Seq(Visited)
      BY <3>2 DEF Visited
    <3>4. \A e : e \in ToSet([i \in DOMAIN ls |-> [from |-> id, link |-> ls[i]]]) <=>
                    \E i \in DOMAIN ls : e = [from |-> id, link |-> ls[i]]
      BY DEF ToSet
    <3>5. part(id) = [i \in DOMAIN ls |-> [from |-> id, link |-> ls[i]]]
      BY <2>2 DEF ls
    <3> HIDE DEF part
    <3> QED
      BY <2>2, <3>3, <3>4, <3>5 DEF ls
  <2> QED
    BY <2>1, <2>2
<1> HIDE DEF part
<1>3. seqs \in Seq(Seq(Visited)) /\ Len(seqs) = Cardinality(Ids)
  BY <1>1, <1>2
<1>4. \A id \in Ids : seqs[id] = part(id)
  OBVIOUS
<1> HIDE DEF seqs
<1>5. /\ Links \in Seq(Visited)
      /\ \A e : e \in ToSet(Links) <=> \E n \in 1..Len(seqs) : e \in ToSet(seqs[n])
  BY <1>0, <1>3, JoinedIs
<1>6. \A e : e \in ToSet(Links) <=> \E id \in Ids : e \in ToSet(part(id))
  BY <1>1, <1>3, <1>4, <1>5
<1>7. \A e : e \in ToSet(Links) <=> \E n \in 1..Len(Links) : Links[n] = e
  BY <1>5, ToSetIs
<1>8. ASSUME NEW n \in 1..Len(Links)
      PROVE  /\ Grounded(Links[n].from)
             /\ \E i \in DOMAIN entry[Links[n].from].g.links :
                   Links[n].link = entry[Links[n].from].g.links[i]
  <2>1. PICK id \in Ids : Links[n] \in ToSet(part(id))
    BY <1>6, <1>7
  <2>2. Grounded(id) /\ \E i \in DOMAIN entry[id].g.links :
            Links[n] = [from |-> id, link |-> entry[id].g.links[i]]
    BY <1>2, <2>1
  <2> QED
    BY <2>2
<1>9. ASSUME NEW id \in Ids, Grounded(id), NEW i \in DOMAIN entry[id].g.links
      PROVE  \E n \in 1..Len(Links) : Links[n] = [from |-> id, link |-> entry[id].g.links[i]]
  BY <1>2, <1>6, <1>7, <1>9
<1> QED
  BY <1>5, <1>8, <1>9 DEF VisitedAre

-----------------------------------------------------------------------------
(* Knowledge: what a refresh keeps.                                        *)

\* What holds before a visit and is kept by each link holds after it.
LEMMA VisitKeeps ==
    ASSUME NEW A, NEW links, links = Links, links \in Seq(A), NEW kind, NEW st, NEW Q,
           st \in Q[0],
           \A n \in 1..Len(links) : \A s \in Q[n - 1] : Effect(kind, s, links[n]) \in Q[n]
    PROVE  Visit(kind, st) \in Q[Len(links)]
<1> DEFINE N == Len(links)
<1>1. N \in Nat
  OBVIOUS
<1>2. PICK f : Visits(kind, links, st, N, f) /\ Visit(kind, st) = f[N]
  BY VisitVisits
<1> DEFINE S == {n \in 0..N : f[n] \in Q[n]}
<1>3. 0 \in S
  BY <1>1, <1>2 DEF Visits
<1>4. ASSUME NEW n \in 1..N, n - 1 \in S PROVE n \in S
  BY <1>1, <1>2, <1>4 DEF Visits
<1> HIDE DEF S
<1>5. N \in S
  <2>1. \A n \in 0..N : n \in S
    BY <1>1, <1>3, <1>4, UpTo, Zenon
  <2> QED
    BY <1>1, <2>1
<1> QED
  BY <1>2, <1>5 DEF S

LEMMA PropagateKeeps ==
    ASSUME NEW rounds \in Nat, rounds = Cardinality({id \in Ids : Grounded(id)}), NEW st, NEW Q,
           st \in Q[0],
           \A n \in 1..rounds : \A s \in Q[n - 1] : Visit(SUPPORTS, s) \in Q[n]
    PROVE  Propagate(st) \in Q[rounds]
<1>2. PICK f : Rounds(st, rounds, f) /\ Propagate(st) = f[rounds]
  BY PropagateRounds
<1> DEFINE S == {n \in 0..rounds : f[n] \in Q[n]}
<1>3. 0 \in S
  BY <1>2 DEF Rounds
<1>4. ASSUME NEW n \in 1..rounds, n - 1 \in S PROVE n \in S
  BY <1>2, <1>4 DEF Rounds
<1> HIDE DEF S
<1>5. rounds \in S
  <2>1. \A n \in 0..rounds : n \in S
    BY <1>3, <1>4, UpTo, Zenon
  <2> QED
    BY <2>1
<1> QED
  BY <1>2, <1>5 DEF S

LEMMA RoundsTyped ==
    /\ IsFiniteSet({id \in Ids : Grounded(id)})
    /\ Cardinality({id \in Ids : Grounded(id)}) \in Nat
<1>1. {id \in Ids : Grounded(id)} \in SUBSET Ids
  OBVIOUS
<1> QED
  BY <1>1, KnowledgeAssumption, FS_Subset, FS_CardinalityType

Kinds == {SUPPORTS, CONTRADICTS, SUPERSEDES}

\* Nothing becomes current, or open to be contested, by a visit; only a
\* correction ends a contest.
Moves(kind, s, t) ==
    /\ t \in Statuses
    /\ \A id \in Ids : /\ t[id] = CURRENT => s[id] = CURRENT
                       /\ Contestable(t[id]) => Contestable(s[id])
                       /\ kind # SUPERSEDES /\ s[id] = CONTESTED => t[id] = CONTESTED

LEMMA EffectMoves ==
    ASSUME NEW kind \in Kinds, NEW s \in Statuses, NEW x \in Visited
    PROVE  Moves(kind, s, Effect(kind, s, x))
<1> DEFINE a == x.from
           b == x.link.to
<1>0. a \in Ids /\ b \in Ids /\ x.link.kind \in Kinds
  BY DEF Visited, Link, Kinds
<1>1. \A id \in Ids : s[id] \in Status
  BY DEF Statuses
<1>2. CASE x.link.kind # kind
  <2>1. Effect(kind, s, x) = s
    BY <1>2 DEF Effect
  <2> QED
    BY <2>1 DEF Moves
<1>3. CASE x.link.kind = kind /\ kind = SUPPORTS
  <2>1. Effect(kind, s, x) = Support(s, x)
    BY <1>3 DEF Effect, SUPPORTS, SUPERSEDES, CONTRADICTS
  <2>2. CASE record[a] = Gone \/ s[a] >= STALE
    BY <2>1, <2>2 DEF Support, Moves
  <2>3. CASE ~(record[a] = Gone \/ s[a] >= STALE)
    <3>1. PICK next \in Status : /\ next = CURRENT => s[a] = CURRENT
                                 /\ Support(s, x) = [s EXCEPT ![a] = next]
      <4> DEFINE next == IF ~SameClaim(b, x.link.hash) THEN STALE
                ELSE IF s[b] = REVOKED THEN STALE
                ELSE IF s[b] >= STALE THEN s[b]
                ELSE IF s[b] = UNVERIFIED THEN UNVERIFIED
                ELSE s[a]
      <4>1. Support(s, x) = [s EXCEPT ![a] = next]
        BY <2>3 DEF Support
      <4>2. next \in Status /\ (next = CURRENT => s[a] = CURRENT)
        BY <1>0, <1>1 DEF Status, UNVERIFIED, CURRENT, STALE, CONTESTED, REVOKED, UNAVAILABLE
      <4> QED
        BY <4>1, <4>2
    <3>2. Contestable(s[a]) /\ s[a] # CONTESTED
      BY <1>0, <1>1, <2>3 DEF Contestable, Status, UNVERIFIED, CURRENT, STALE, CONTESTED, REVOKED, UNAVAILABLE
    <3> QED
      BY <1>0, <1>1, <2>1, <3>1, <3>2 DEF Moves, Statuses
  <2> QED
    BY <2>2, <2>3
<1>4. CASE x.link.kind = kind /\ kind = SUPERSEDES
  <2>1. Effect(kind, s, x) = Supersede(s, x)
    BY <1>4 DEF Effect, SUPPORTS, SUPERSEDES, CONTRADICTS
  <2>2. CASE Supersede(s, x) = s
    BY <2>1, <2>2 DEF Moves
  <2>3. CASE Supersede(s, x) = [s EXCEPT ![b] = STALE]
    <3>1. STALE \in Status /\ STALE # CURRENT /\ ~Contestable(STALE)
      BY DEF Contestable, Status, UNVERIFIED, CURRENT, STALE, CONTESTED, REVOKED, UNAVAILABLE
    <3> QED
      BY <1>0, <1>1, <1>4, <2>1, <2>3, <3>1 DEF Moves, Statuses
  <2> QED
    BY <2>2, <2>3 DEF Supersede
<1>5. CASE x.link.kind = kind /\ kind = CONTRADICTS
  <2>1. Effect(kind, s, x) = Contradict(s, x)
    BY <1>5 DEF Effect, SUPPORTS, SUPERSEDES, CONTRADICTS
  <2>2. CASE Contradict(s, x) = s
    BY <2>1, <2>2 DEF Moves
  <2>3. CASE /\ Contradict(s, x) = [s EXCEPT ![a] = CONTESTED, ![b] = CONTESTED]
             /\ Contestable(s[a]) /\ Contestable(s[b])
    <3>1. CONTESTED \in Status /\ CONTESTED # CURRENT
      BY DEF Status, CURRENT, CONTESTED
    <3> QED
      BY <1>0, <1>1, <2>1, <2>3, <3>1 DEF Moves, Statuses
  <2> QED
    BY <2>2, <2>3 DEF Contradict
<1> QED
  BY <1>0, <1>2, <1>3, <1>4, <1>5 DEF Kinds

LEMMA MovesOn ==
    ASSUME NEW kind, NEW s, NEW t, NEW u, Moves(kind, s, t), Moves(kind, t, u)
    PROVE  Moves(kind, s, u)
BY DEF Moves

LEMMA VisitMoves ==
    ASSUME VisitedAre(Links), NEW kind \in Kinds, NEW st \in Statuses
    PROVE  Moves(kind, st, Visit(kind, st))
<1> DEFINE links == Links
           Q == [n \in 0..Len(links) |-> {t \in Statuses : Moves(kind, st, t)}]
<1>1. links \in Seq(Visited) /\ Len(links) \in Nat
  BY DEF VisitedAre
<1>2. Moves(kind, st, st)
  BY DEF Moves
<1> HIDE DEF links
<1>3. st \in Q[0]
  BY <1>1, <1>2
<1>4. ASSUME NEW n \in 1..Len(links), NEW s \in Q[n - 1] PROVE Effect(kind, s, links[n]) \in Q[n]
  <2>1. s \in Statuses /\ Moves(kind, st, s) /\ links[n] \in Visited
    BY <1>1
  <2>2. Moves(kind, s, Effect(kind, s, links[n]))
    BY <2>1, EffectMoves
  <2>3. Moves(kind, st, Effect(kind, s, links[n]))
    BY <2>1, <2>2, MovesOn
  <2>4. Effect(kind, s, links[n]) \in Statuses
    BY <2>2 DEF Moves
  <2> QED
    BY <1>1, <2>3, <2>4
<1> HIDE DEF Q
<1>5. Visit(kind, st) \in Q[Len(links)]
  BY <1>1, <1>3, <1>4, VisitKeeps DEF links
<1> QED
  BY <1>1, <1>5 DEF Q

LEMMA PropagateMoves ==
    ASSUME VisitedAre(Links), NEW st \in Statuses
    PROVE  Moves(SUPPORTS, st, Propagate(st))
<1> DEFINE rounds == Cardinality({id \in Ids : Grounded(id)})
           Q == [n \in 0..rounds |-> {t \in Statuses : Moves(SUPPORTS, st, t)}]
<1>1. rounds \in Nat
  BY RoundsTyped
<1>2. Moves(SUPPORTS, st, st)
  BY DEF Moves
<1> HIDE DEF rounds
<1>3. st \in Q[0]
  BY <1>1, <1>2
<1>4. ASSUME NEW n \in 1..rounds, NEW s \in Q[n - 1] PROVE Visit(SUPPORTS, s) \in Q[n]
  <2>1. s \in Statuses /\ Moves(SUPPORTS, st, s)
    BY <1>1
  <2>2. Moves(SUPPORTS, s, Visit(SUPPORTS, s))
    BY <2>1, VisitMoves DEF Kinds
  <2>3. Moves(SUPPORTS, st, Visit(SUPPORTS, s)) /\ Visit(SUPPORTS, s) \in Statuses
    BY <2>1, <2>2, MovesOn DEF Moves
  <2> QED
    BY <1>1, <2>3
<1> HIDE DEF Q
<1>5. Propagate(st) \in Q[rounds]
  BY <1>1, <1>3, <1>4, PropagateKeeps DEF rounds
<1> QED
  BY <1>1, <1>5 DEF Q

\* A claim that another one corrects is not current.
LEMMA SupersededGoes ==
    ASSUME VisitedAre(Links), NEW st \in Statuses, NEW k \in 1..Len(Links),
           NEW to \in Ids, Links[k].link.to = to, Links[k].link.kind = SUPERSEDES,
           SameClaim(to, Links[k].link.hash)
    PROVE  Visit(SUPERSEDES, st)[to] # CURRENT
<1> DEFINE links == Links
           Q == [n \in 0..Len(links) |-> {t \in Statuses : k <= n => t[to] # CURRENT}]
<1>1. /\ links \in Seq(Visited) /\ Len(links) \in Nat /\ k \in 1..Len(links)
      /\ links[k].link.to = to /\ links[k].link.kind = SUPERSEDES
      /\ SameClaim(to, links[k].link.hash)
  BY DEF VisitedAre
<1> HIDE DEF links
<1>2. st \in Q[0]
  BY <1>1
<1>3. ASSUME NEW n \in 1..Len(links), NEW s \in Q[n - 1]
      PROVE  Effect(SUPERSEDES, s, links[n]) \in Q[n]
  <2> DEFINE t == Effect(SUPERSEDES, s, links[n])
  <2>1. s \in Statuses /\ links[n] \in Visited /\ (k <= n - 1 => s[to] # CURRENT)
    BY <1>1
  <2>2. Moves(SUPERSEDES, s, t)
    BY <2>1, EffectMoves DEF Kinds
  <2>3. CASE k <= n - 1
    BY <1>1, <2>1, <2>2, <2>3 DEF Moves
  <2>4. CASE k = n
    <3>1. t = IF s[to] # REVOKED THEN [s EXCEPT ![to] = STALE] ELSE s
      BY <1>1, <2>4 DEF Effect, Supersede, SUPPORTS, SUPERSEDES, CONTRADICTS
    <3>2. t[to] # CURRENT
      BY <2>1, <3>1 DEF Statuses, CURRENT, STALE, REVOKED
    <3> QED
      BY <1>1, <2>2, <3>2 DEF Moves
  <2>5. CASE ~(k <= n)
    BY <1>1, <2>2, <2>5 DEF Moves
  <2> QED
    BY <1>1, <2>3, <2>4, <2>5
<1> HIDE DEF Q
<1>4. Visit(SUPERSEDES, st) \in Q[Len(links)]
  BY <1>1, <1>2, <1>3, VisitKeeps DEF links
<1> QED
  BY <1>1, <1>4 DEF Q

LEMMA NotSuperseded ==
    ASSUME VisitedAre(Links), NEW st \in Statuses, NEW id \in Ids, st[id] = CURRENT,
           \A n \in 1..Len(Links) :
              ~(/\ Links[n].link.kind = SUPERSEDES /\ Links[n].link.to = id
                /\ SameClaim(id, Links[n].link.hash))
    PROVE  Visit(SUPERSEDES, st)[id] = CURRENT
<1> DEFINE links == Links
           Q == [n \in 0..Len(links) |-> {t \in Statuses : t[id] = CURRENT}]
<1>1. /\ links \in Seq(Visited) /\ Len(links) \in Nat
      /\ \A n \in 1..Len(links) :
              ~(/\ links[n].link.kind = SUPERSEDES /\ links[n].link.to = id
                /\ SameClaim(id, links[n].link.hash))
  BY DEF VisitedAre
<1> HIDE DEF links
<1>2. st \in Q[0]
  BY <1>1
<1>3. ASSUME NEW n \in 1..Len(links), NEW s \in Q[n - 1]
      PROVE  Effect(SUPERSEDES, s, links[n]) \in Q[n]
  <2> DEFINE t == Effect(SUPERSEDES, s, links[n])
  <2>1. s \in Statuses /\ links[n] \in Visited /\ s[id] = CURRENT
    BY <1>1
  <2>2. Moves(SUPERSEDES, s, t)
    BY <2>1, EffectMoves DEF Kinds
  <2>3. \/ t = s
        \/ t = Supersede(s, links[n]) /\ links[n].link.kind = SUPERSEDES
    BY DEF Effect, SUPPORTS, SUPERSEDES, CONTRADICTS
  <2>4. t[id] = CURRENT
    BY <1>1, <2>1, <2>3 DEF Supersede, Statuses
  <2> QED
    BY <1>1, <2>2, <2>4 DEF Moves
<1> HIDE DEF Q
<1>4. Visit(SUPERSEDES, st) \in Q[Len(links)]
  BY <1>1, <1>2, <1>3, VisitKeeps DEF links
<1> QED
  BY <1>1, <1>4 DEF Q

\* Two claims that contradict one another are not both left standing.
LEMMA ContestedGo ==
    ASSUME VisitedAre(Links), NEW st \in Statuses, NEW k \in 1..Len(Links),
           NEW a \in Ids, NEW b \in Ids, Links[k].from = a, Links[k].link.to = b,
           Links[k].link.kind = CONTRADICTS, SameClaim(b, Links[k].link.hash),
           SameClaim(a, entry[a].hash)
    PROVE  LET t == Visit(CONTRADICTS, st)
           IN  /\ ~(t[a] = CURRENT /\ Contestable(t[b]))
               /\ ~(t[b] = CURRENT /\ Contestable(t[a]))
<1> DEFINE links == Links
           Over(t) == /\ ~(t[a] = CURRENT /\ Contestable(t[b]))
                      /\ ~(t[b] = CURRENT /\ Contestable(t[a]))
           Q == [n \in 0..Len(links) |-> {t \in Statuses : k <= n => Over(t)}]
<1>1. /\ links \in Seq(Visited) /\ Len(links) \in Nat /\ k \in 1..Len(links)
      /\ links[k].from = a /\ links[k].link.to = b /\ links[k].link.kind = CONTRADICTS
      /\ SameClaim(b, links[k].link.hash)
  BY DEF VisitedAre
<1> HIDE DEF links
<1>2. st \in Q[0]
  BY <1>1
<1>3. ASSUME NEW n \in 1..Len(links), NEW s \in Q[n - 1]
      PROVE  Effect(CONTRADICTS, s, links[n]) \in Q[n]
  <2> DEFINE t == Effect(CONTRADICTS, s, links[n])
  <2>1. s \in Statuses /\ links[n] \in Visited /\ (k <= n - 1 => Over(s))
    BY <1>1
  <2>2. Moves(CONTRADICTS, s, t)
    BY <2>1, EffectMoves DEF Kinds
  <2>3. CASE k <= n - 1
    <3>1. Over(t)
      BY <2>1, <2>2, <2>3 DEF Moves
    <3> QED
      BY <1>1, <2>2, <3>1 DEF Moves
  <2>4. CASE k = n
    <3>1. t = IF Contestable(s[a]) /\ Contestable(s[b])
              THEN [s EXCEPT ![a] = CONTESTED, ![b] = CONTESTED] ELSE s
      BY <1>1, <2>4 DEF Effect, Contradict, SUPPORTS, SUPERSEDES, CONTRADICTS
    <3>2. CASE Contestable(s[a]) /\ Contestable(s[b])
      <4>1. t[a] = CONTESTED /\ t[b] = CONTESTED /\ CONTESTED # CURRENT
        BY <2>1, <3>1, <3>2 DEF Statuses, CURRENT, CONTESTED
      <4> QED
        BY <1>1, <2>2, <4>1 DEF Moves
    <3>3. CASE ~(Contestable(s[a]) /\ Contestable(s[b]))
      <4>1. t = s /\ Contestable(CURRENT)
        BY <3>1, <3>3 DEF Contestable, CURRENT, STALE
      <4>2. Over(t)
        BY <3>3, <4>1
      <4> QED
        BY <1>1, <2>2, <4>2 DEF Moves
    <3> QED
      BY <3>2, <3>3
  <2>5. CASE ~(k <= n)
    BY <1>1, <2>2, <2>5 DEF Moves
  <2> QED
    BY <1>1, <2>3, <2>4, <2>5
<1> HIDE DEF Q
<1>4. Visit(CONTRADICTS, st) \in Q[Len(links)]
  BY <1>1, <1>2, <1>3, VisitKeeps DEF links
<1> QED
  BY <1>1, <1>4 DEF Q

\* One of the two contradicts the other as it is.
Opposed(id, x) ==
    \E n \in 1..Len(Links) :
       /\ Links[n].link.kind = CONTRADICTS /\ SameClaim(Links[n].link.to, Links[n].link.hash)
       /\ \/ Links[n].from = x /\ Links[n].link.to = id
          \/ Links[n].from = id /\ Links[n].link.to = x

LEMMA NotContested ==
    ASSUME VisitedAre(Links), NEW st \in Statuses, NEW id \in Ids, st[id] = CURRENT
    PROVE  \/ Visit(CONTRADICTS, st)[id] = CURRENT
           \/ \E x \in Ids : Opposed(id, x) /\ Visit(CONTRADICTS, st)[x] = CONTESTED
<1> DEFINE links == Links
           Fate(t) == t[id] = CURRENT \/ \E x \in Ids : Opposed(id, x) /\ t[x] = CONTESTED
           Q == [n \in 0..Len(links) |-> {t \in Statuses : Fate(t)}]
<1>1. /\ links \in Seq(Visited) /\ Len(links) \in Nat
      /\ \A x : Opposed(id, x) <=>
            \E n \in 1..Len(links) :
               /\ links[n].link.kind = CONTRADICTS /\ SameClaim(links[n].link.to, links[n].link.hash)
               /\ \/ links[n].from = x /\ links[n].link.to = id
                  \/ links[n].from = id /\ links[n].link.to = x
  BY DEF VisitedAre, Opposed
<1> HIDE DEF links
<1>2. st \in Q[0]
  BY <1>1
<1>3. ASSUME NEW n \in 1..Len(links), NEW s \in Q[n - 1]
      PROVE  Effect(CONTRADICTS, s, links[n]) \in Q[n]
  <2> DEFINE t == Effect(CONTRADICTS, s, links[n])
  <2>1. s \in Statuses /\ links[n] \in Visited /\ Fate(s)
    BY <1>1
  <2>2. Moves(CONTRADICTS, s, t)
    BY <2>1, EffectMoves DEF Kinds
  <2>3. \/ t = s
        \/ /\ links[n].link.kind = CONTRADICTS
           /\ SameClaim(links[n].link.to, links[n].link.hash)
           /\ t = [s EXCEPT ![links[n].from] = CONTESTED, ![links[n].link.to] = CONTESTED]
    BY DEF Effect, Contradict, SUPPORTS, SUPERSEDES, CONTRADICTS
  <2>4. Fate(t)
    <3>1. CASE \E x \in Ids : Opposed(id, x) /\ s[x] = CONTESTED
      BY <2>2, <3>1 DEF Moves, CONTRADICTS, SUPERSEDES
    <3>2. CASE s[id] = CURRENT /\ t # s
      <4> DEFINE a == links[n].from
                 b == links[n].link.to
      <4>1. a \in Ids /\ b \in Ids
        BY <2>1 DEF Visited, Link
      <4>2. /\ t = [s EXCEPT ![a] = CONTESTED, ![b] = CONTESTED]
            /\ links[n].link.kind = CONTRADICTS
            /\ SameClaim(links[n].link.to, links[n].link.hash)
        BY <2>3, <3>2
      <4>3. (a = id => Opposed(id, b)) /\ (b = id => Opposed(id, a))
        BY <1>1, <4>2
      <4>4. t[a] = CONTESTED /\ t[b] = CONTESTED /\ (a # id /\ b # id => t[id] = CURRENT)
        BY <2>1, <3>2, <4>1, <4>2 DEF Statuses
      <4> HIDE DEF t
      <4> QED
        BY <4>1, <4>3, <4>4
    <3>3. CASE s[id] = CURRENT /\ t = s
      BY <3>3
    <3> QED
      BY <2>1, <3>1, <3>2, <3>3
  <2> QED
    BY <1>1, <2>2, <2>4 DEF Moves
<1> HIDE DEF Q
<1>4. Visit(CONTRADICTS, st) \in Q[Len(links)]
  BY <1>1, <1>2, <1>3, VisitKeeps DEF links
<1> QED
  BY <1>1, <1>4 DEF Q

\* What rests on matching claims alone is current until one of them is not.
Propped(id, t) ==
    \/ t[id] = CURRENT
    \/ \E n \in 1..Len(Links) : /\ Links[n].link.kind = SUPPORTS /\ Links[n].from = id
                                /\ t[Links[n].link.to] # CURRENT
Matched(id) ==
    \A n \in 1..Len(Links) :
       Links[n].link.kind = SUPPORTS /\ Links[n].from = id =>
          SameClaim(Links[n].link.to, Links[n].link.hash)

LEMMA PropsStand ==
    ASSUME VisitedAre(Links), NEW st \in Statuses, NEW id \in Ids, Propped(id, st), Matched(id)
    PROVE  Propped(id, Visit(SUPPORTS, st))
<1> DEFINE links == Links
           Q == [n \in 0..Len(links) |-> {t \in Statuses : Propped(id, t)}]
<1>1. /\ links \in Seq(Visited) /\ Len(links) \in Nat
      /\ \A t : Propped(id, t) <=>
            \/ t[id] = CURRENT
            \/ \E n \in 1..Len(links) : /\ links[n].link.kind = SUPPORTS /\ links[n].from = id
                                        /\ t[links[n].link.to] # CURRENT
      /\ \A n \in 1..Len(links) :
            links[n].link.kind = SUPPORTS /\ links[n].from = id =>
                SameClaim(links[n].link.to, links[n].link.hash)
  BY DEF VisitedAre, Propped, Matched
<1> HIDE DEF links
<1>2. st \in Q[0]
  BY <1>1
<1>3. ASSUME NEW n \in 1..Len(links), NEW s \in Q[n - 1]
      PROVE  Effect(SUPPORTS, s, links[n]) \in Q[n]
  <2> DEFINE t == Effect(SUPPORTS, s, links[n])
             a == links[n].from
             b == links[n].link.to
  <2>0. s \in Statuses /\ Propped(id, s) /\ links[n] \in Visited
    <3>1. n - 1 \in 0..Len(links)
      BY <1>1
    <3>2. links[n] \in Visited
      BY <1>1
    <3> QED
      BY <3>1, <3>2
  <2>1. s \in Statuses /\ links[n] \in Visited /\ Propped(id, s) /\ a \in Ids /\ b \in Ids
    BY <2>0, EndsTyped
  <2>2. Moves(SUPPORTS, s, t)
    BY <2>1, EffectMoves DEF Kinds
  <2>3. \/ t = s
        \/ links[n].link.kind = SUPPORTS /\ t = Support(s, links[n])
    BY DEF Effect, SUPPORTS, SUPERSEDES, CONTRADICTS
  <2>4. Propped(id, t)
    <3>1. CASE \E k \in 1..Len(links) : /\ links[k].link.kind = SUPPORTS /\ links[k].from = id
                                        /\ s[links[k].link.to] # CURRENT
      <4>1. PICK k \in 1..Len(links) : /\ links[k].link.kind = SUPPORTS /\ links[k].from = id
                                       /\ s[links[k].link.to] # CURRENT
        BY <3>1
      <4>2. links[k].link.to \in Ids
        <5>1. links[k] \in Visited
          BY <1>1
        <5> QED
          BY <5>1, EndsTyped
      <4>3. t[links[k].link.to] # CURRENT
        BY <2>2, <4>1, <4>2 DEF Moves
      <4> HIDE DEF t
      <4> QED
        BY <1>1, <4>1, <4>3
    <3>2. CASE s[id] = CURRENT /\ a # id
      <4>1. t[id] = CURRENT
        BY <2>1, <2>3, <3>2 DEF Support, Statuses
      <4> HIDE DEF t
      <4> QED
        BY <1>1, <4>1
    <3>3. CASE s[id] = CURRENT /\ a = id /\ t # s /\ s[b] = CURRENT
      <4>1. SameClaim(b, links[n].link.hash)
        BY <1>1, <2>3, <3>3
      <4>2. Support(s, links[n]) = s
        BY <2>1, <3>3, <4>1 DEF Support, Statuses, CURRENT, REVOKED, STALE, UNVERIFIED
      <4> QED
        BY <2>3, <3>3, <4>2
    <3>4. CASE s[id] = CURRENT /\ a = id /\ t # s /\ s[b] # CURRENT
      BY <1>1, <2>3, <3>1, <3>4
    <3>5. CASE t = s
      BY <2>1, <3>5
    <3> QED
      BY <1>1, <2>1, <3>1, <3>2, <3>3, <3>4, <3>5
  <2> QED
    BY <1>1, <2>2, <2>4 DEF Moves
<1> HIDE DEF Q
<1>4. Visit(SUPPORTS, st) \in Q[Len(links)]
  BY <1>1, <1>2, <1>3, VisitKeeps DEF links
<1> QED
  BY <1>1, <1>4 DEF Q

LEMMA PropsLast ==
    ASSUME VisitedAre(Links), NEW st \in Statuses, NEW id \in Ids, Propped(id, st), Matched(id)
    PROVE  Propped(id, Propagate(st))
<1> DEFINE rounds == Cardinality({x \in Ids : Grounded(x)})
           Q == [n \in 0..rounds |-> {t \in Statuses : Propped(id, t)}]
<1>1. rounds \in Nat
  BY RoundsTyped
<1> HIDE DEF rounds
<1>3. st \in Q[0]
  BY <1>1
<1>4. ASSUME NEW n \in 1..rounds, NEW s \in Q[n - 1] PROVE Visit(SUPPORTS, s) \in Q[n]
  <2>1. s \in Statuses /\ Propped(id, s)
    BY <1>1
  <2>2. Visit(SUPPORTS, s) \in Statuses
    BY <2>1, VisitMoves DEF Kinds, Moves
  <2>3. Propped(id, Visit(SUPPORTS, s))
    BY <2>1, PropsStand
  <2> QED
    BY <1>1, <2>2, <2>3
<1> HIDE DEF Q
<1>5. Propagate(st) \in Q[rounds]
  BY <1>1, <1>3, <1>4, PropagateKeeps DEF rounds
<1> QED
  BY <1>1, <1>5 DEF Q

-----------------------------------------------------------------------------
(* Knowledge: support has a foot, and reaches its fixed point from there.  *)

\* Every set of records has one that rests on none of them.
Footed(entries) ==
    \A set \in SUBSET Ids : set # {} =>
        \E a \in set : \A b \in set : <<a, b>> \notin Supporters(entries)

LEMMA SupportersAre ==
    ASSUME NEW entries, NEW a \in Ids, NEW b \in Ids
    PROVE  <<a, b>> \in Supporters(entries) <=>
              /\ entries[a].rev # 0
              /\ \E i \in DOMAIN entries[a].g.links :
                    entries[a].g.links[i].kind = SUPPORTS /\ entries[a].g.links[i].to = b
BY DEF Supporters

\* What reaches a record is what rests on it, and what rests on that.
LEMMA ReachesIs ==
    ASSUME NEW entries, NEW id \in Ids
    PROVE  /\ Reaches(entries, id, id)
           /\ \A a, b \in Ids :
                 <<a, b>> \in Supporters(entries) /\ Reaches(entries, b, id) => Reaches(entries, a, id)
<1>1. Reaches(entries, id, id)
  BY DEF Reaches
<1>2. ASSUME NEW a \in Ids, NEW b \in Ids, <<a, b>> \in Supporters(entries), Reaches(entries, b, id)
      PROVE  Reaches(entries, a, id)
  <2> SUFFICES ASSUME NEW set \in SUBSET Ids, a \in set,
                      \A pair \in Supporters(entries) : pair[1] \in set => pair[2] \in set
               PROVE  id \in set
    BY DEF Reaches
  <2>1. b \in set
    BY <1>2
  <2> QED
    BY <1>2, <2>1 DEF Reaches
<1> QED
  BY <1>1, <1>2

\* A grounding that passes the search keeps it so: of a set with its record,
\* what does not reach that record has a foot of its own, and when there is
\* nothing such the record is it.
LEMMA FootedExtends ==
    ASSUME NEW old, Footed(old), NEW new, NEW id \in Ids, Apart(old, id, new[id].g),
           \A x \in Ids : x # id => /\ new[x].rev = old[x].rev
                                    /\ new[x].rev # 0 => new[x].g = old[x].g
    PROVE  Footed(new)
<1> SUFFICES ASSUME NEW set \in SUBSET Ids, set # {}
             PROVE  \E a \in set : \A b \in set : <<a, b>> \notin Supporters(new)
  BY DEF Footed
<1>1. ASSUME NEW a \in Ids, NEW b \in Ids, a # id
      PROVE  <<a, b>> \in Supporters(new) <=> <<a, b>> \in Supporters(old)
  <2>1. CASE new[a].rev # 0
    <3>1. new[a].g = old[a].g /\ old[a].rev # 0
      BY <1>1, <2>1
    <3> QED
      BY <2>1, <3>1, SupportersAre
  <2>2. CASE new[a].rev = 0
    <3>1. old[a].rev = 0
      BY <1>1, <2>2
    <3> QED
      BY <2>2, <3>1, SupportersAre
  <2> QED
    BY <2>1, <2>2
<1>2. \A b \in Ids : <<id, b>> \in Supporters(new) => ~Reaches(old, b, id)
  BY SupportersAre DEF Apart
<1> DEFINE free == {a \in set : ~Reaches(old, a, id)}
<1>3. CASE free # {}
  <2>1. PICK a \in free : \A b \in free : <<a, b>> \notin Supporters(old)
    BY <1>3 DEF Footed
  <2>2. a # id /\ a \in set
    BY ReachesIs
  <2>3. ASSUME NEW b \in set PROVE <<a, b>> \notin Supporters(new)
    <3>1. <<a, b>> \notin Supporters(old)
      BY <2>1, ReachesIs
    <3> QED
      BY <1>1, <2>2, <3>1
  <2> QED
    BY <2>2, <2>3
<1>4. CASE free = {} /\ id \in set
  BY <1>2, <1>4
<1>5. CASE id \notin set
  BY <1>1, <1>5 DEF Footed
<1> QED
  BY <1>3, <1>4, <1>5

LEMMA LogFooted ==
    ASSUME NEW log \in Seq(Rows), GroundedInTurn(log)
    PROVE  Footed(Loaded(log))
<1> DEFINE S == {n \in 0..Len(log) : Footed(Loaded(SubSeq(log, 1, n)))}
<1>0. Len(log) \in Nat /\ SubSeq(log, 1, Len(log)) = log /\ SubSeq(log, 1, 0) = << >>
  OBVIOUS
<1>1. 0 \in S
  <2>1. \A id \in Ids : Loaded(<< >>)[id].rev = 0
    BY EmptyLog DEF Loaded, NoEntry
  <2>2. \A a, b \in Ids : <<a, b>> \notin Supporters(Loaded(<< >>))
    BY <2>1, SupportersAre
  <2>3. Footed(Loaded(<< >>))
    BY <2>2 DEF Footed
  <2>4. Footed(Loaded(SubSeq(log, 1, 0)))
    BY <1>0, <2>3, Zenon
  <2> QED
    BY <1>0, <2>4
<1>2. ASSUME NEW n \in 1..Len(log), n - 1 \in S PROVE n \in S
  <2> DEFINE before == SubSeq(log, 1, n - 1)
             after == SubSeq(log, 1, n)
             row == log[n]
  <2>1. Footed(Loaded(before)) /\ before \in Seq(Rows) /\ row \in Rows
    <3>1. n - 1 \in 0..Len(log)
      BY <1>0
    <3> QED
      BY <1>0, <1>2, <3>1, ElementOfSeq
  <2>2. after = Append(before, row)
    <3>1. /\ after \in Seq(Rows) /\ Len(after) = n /\ Len(before) = n - 1
          /\ \A k \in 1..n : after[k] = log[k]
          /\ \A k \in 1..n - 1 : before[k] = log[k]
      BY <1>0
    <3>2. /\ Append(before, row) \in Seq(Rows) /\ Len(Append(before, row)) = n
          /\ Append(before, row)[n] = row
          /\ \A k \in 1..n - 1 : Append(before, row)[k] = before[k]
      <4> HIDE DEF before, row
      <4> QED
        BY <1>0, <2>1, <3>1, AppendProperties
    <3>3. \A k \in 1..n : after[k] = Append(before, row)[k]
      <4> HIDE DEF before, after
      <4>1. \A k \in 1..n : k = n \/ k \in 1..n - 1
        BY <1>0
      <4> QED
        BY <3>1, <3>2, <4>1
    <3> QED
      BY <3>1, <3>2, <3>3, SeqEqual
  <2>3. Apart(Loaded(before), row.id, row.g)
    BY InTurnIs
  <2> HIDE DEF before, after, row
  <2>4. \A x \in Ids : Loaded(after)[x] = IF row.id = x THEN row ELSE Loaded(before)[x]
    BY <2>1, <2>2, LatestAppended DEF Loaded
  <2>5. row.id \in Ids
    BY <2>1 DEF Rows
  <2>6. Loaded(after)[row.id].g = row.g
    BY <2>4, <2>5
  <2>7. Footed(Loaded(after))
    BY <2>1, <2>3, <2>4, <2>5, <2>6, FootedExtends
  <2> QED
    BY <2>7 DEF after
<1> HIDE DEF S
<1>3. Len(log) \in S
  <2>1. \A n \in 0..Len(log) : n \in S
    BY <1>0, <1>1, <1>2, UpTo, Zenon
  <2> QED
    BY <1>0, <2>1
<1> QED
  BY <1>0, <1>3 DEF S

LEMMA EntryFooted == ASSUME KnowledgeInv, ~poisoned PROVE Footed(entry)
<1>1. klog \in Seq(Rows) /\ GroundedInTurn(klog)
  BY DEF KnowledgeInv
<1>2. \A id \in Ids : /\ entry[id].rev = Loaded(klog)[id].rev
                      /\ entry[id].rev # 0 => entry[id].g = Loaded(klog)[id].g
  BY DEF KnowledgeInv, EntryLatest, Loaded
<1>3. Supporters(entry) = Supporters(Loaded(klog))
  BY <1>2, SameSupporters
<1> QED
  BY <1>1, <1>3, LogFooted DEF Footed

LEMMA StatusNumber == ASSUME NEW t \in Statuses, NEW id \in Ids PROVE t[id] \in Nat
<1>1. t[id] \in Status
  BY DEF Statuses
<1> QED
  BY <1>1 DEF Status, UNVERIFIED, CURRENT, STALE, CONTESTED, REVOKED, UNAVAILABLE

\* A link that a visit leaves as it is.
Sat(t, x) ==
    \/ record[x.from] = Gone
    \/ t[x.from] >= STALE
    \/ /\ SameClaim(x.link.to, x.link.hash) /\ t[x.link.to] < STALE
       /\ t[x.link.to] = UNVERIFIED => t[x.from] = UNVERIFIED

Calm(set, t) ==
    \A n \in 1..Len(Links) :
       Links[n].link.kind = SUPPORTS /\ Links[n].from \in set => Sat(t, Links[n])

\* What its members rest on is in the set, or rests on nothing.
Closed(set) ==
    \A n \in 1..Len(Links) :
       Links[n].link.kind = SUPPORTS /\ Links[n].from \in set =>
          Links[n].link.to \in set \/ ~Grounded(Links[n].link.to)

LEMMA SupportIs ==
    ASSUME NEW s \in Statuses, NEW y \in Visited, NEW t, t = Support(s, y)
    PROVE  /\ \A id \in Ids : id # y.from => t[id] = s[id]
           /\ Sat(s, y) => t = s
           /\ y.link.to # y.from => Sat(t, y)
           /\ t[y.from] = s[y.from] \/ (s[y.from] < STALE /\ t[y.from] = UNVERIFIED) \/ t[y.from] >= STALE
<1> DEFINE a == y.from
           b == y.link.to
<1>0. a \in Ids /\ b \in Ids /\ s[a] \in Status /\ s[b] \in Status
  BY EndsTyped DEF Statuses
<1>1. CASE record[a] = Gone \/ s[a] >= STALE
  BY <1>1 DEF Support, Sat
<1>2. CASE ~(record[a] = Gone \/ s[a] >= STALE)
  <2> DEFINE next == IF ~SameClaim(b, y.link.hash) THEN STALE
                ELSE IF s[b] = REVOKED THEN STALE
                ELSE IF s[b] >= STALE THEN s[b]
                ELSE IF s[b] = UNVERIFIED THEN UNVERIFIED
                ELSE s[a]
  <2>1. t = [s EXCEPT ![a] = next]
    BY <1>2 DEF Support
  <2>2. next = s[a] \/ (s[a] < STALE /\ next = UNVERIFIED) \/ next >= STALE
    BY <1>0, <1>2 DEF Status, UNVERIFIED, CURRENT, STALE, CONTESTED, REVOKED, UNAVAILABLE
  <2>3. b # a => next >= STALE \/ /\ SameClaim(b, y.link.hash) /\ s[b] < STALE
                                  /\ s[b] = UNVERIFIED => next = UNVERIFIED
    BY <1>0 DEF Status, UNVERIFIED, CURRENT, STALE, CONTESTED, REVOKED, UNAVAILABLE
  <2>4. Sat(s, y) => next = s[a]
    BY <1>0, <1>2 DEF Sat, Status, UNVERIFIED, CURRENT, STALE, CONTESTED, REVOKED, UNAVAILABLE
  <2> HIDE DEF next
  <2>5. t[a] = next /\ \A id \in Ids : id # a => t[id] = s[id]
    BY <1>0, <2>1 DEF Statuses
  <2>6. Sat(s, y) => t = s
    BY <1>0, <2>1, <2>4 DEF Statuses
  <2>7. b # a => Sat(t, y)
    BY <1>0, <2>3, <2>5 DEF Sat
  <2> QED
    BY <2>2, <2>5, <2>6, <2>7
<1> QED
  BY <1>1, <1>2

\* A link stays as it is while neither of its ends changes, or its claim alone
\* does and for the worse.
LEMMA SatStays ==
    ASSUME NEW s, NEW t, NEW x, Sat(s, x), t[x.link.to] = s[x.link.to],
           t[x.from] = s[x.from] \/ (s[x.from] < STALE /\ t[x.from] = UNVERIFIED) \/ t[x.from] >= STALE,
           s[x.from] \in Nat
    PROVE  Sat(t, x)
BY DEF Sat, STALE, UNVERIFIED

\* One more record settles in a round, when all it rests on has.
LEMMA VisitSettles ==
    ASSUME VisitedAre(Links), NEW st \in Statuses, NEW set, Closed(set), Calm(set, st),
           NEW id, Grounded(id), id \notin set, Closed(set \cup {id}),
           \A n \in 1..Len(Links) :
              Links[n].link.kind = SUPPORTS /\ Links[n].from = id => Links[n].link.to # id
    PROVE  Calm(set \cup {id}, Visit(SUPPORTS, st))
<1> DEFINE links == Links
           Good(n, t) ==
              \A m \in 1..Len(links) :
                 /\ links[m].link.kind = SUPPORTS
                 /\ links[m].from \in set \/ (links[m].from = id /\ m <= n)
                 => Sat(t, links[m])
           Q == [n \in 0..Len(links) |-> {t \in Statuses : Good(n, t)}]
<1>1. /\ links \in Seq(Visited) /\ Len(links) \in Nat
      /\ \A t : Calm(set, t) <=>
            \A n \in 1..Len(links) :
               links[n].link.kind = SUPPORTS /\ links[n].from \in set => Sat(t, links[n])
      /\ \A t : Calm(set \cup {id}, t) <=>
            \A n \in 1..Len(links) :
               links[n].link.kind = SUPPORTS /\ links[n].from \in set \cup {id} => Sat(t, links[n])
      /\ \A n \in 1..Len(links) : Grounded(links[n].from)
  BY DEF VisitedAre, Calm
<1>2. ASSUME NEW n \in 1..Len(links), links[n].link.kind = SUPPORTS,
             links[n].from \in set \cup {id}
      PROVE  \A x : Grounded(x) /\ x \notin set => links[n].link.to # x \/ (x # id /\ links[n].link.to = id)
  BY <1>2 DEF Closed
<1>3. ASSUME NEW n \in 1..Len(links), links[n].link.kind = SUPPORTS,
             links[n].from \in set \cup {id}
      PROVE  links[n].link.to # id
  BY <1>3 DEF Closed
<1> HIDE DEF links
<1>4. st \in Q[0]
  <2>1. Good(0, st)
    BY <1>1
  <2> HIDE DEF Good
  <2> QED
    BY <1>1, <2>1
<1>5. ASSUME NEW n \in 1..Len(links), NEW s \in Q[n - 1]
      PROVE  Effect(SUPPORTS, s, links[n]) \in Q[n]
  <2> DEFINE t == Effect(SUPPORTS, s, links[n])
             y == links[n]
  <2>1. s \in Statuses /\ y \in Visited /\ Good(n - 1, s)
    <3> HIDE DEF Good
    <3>1. n - 1 \in 0..Len(links) /\ y \in Visited
      BY <1>1
    <3> QED
      BY <3>1
  <2>2. t \in Statuses
    BY <2>1, EffectMoves DEF Kinds, Moves
  <2>3. Good(n, t)
    <3> SUFFICES ASSUME NEW m \in 1..Len(links), links[m].link.kind = SUPPORTS,
                        links[m].from \in set \/ (links[m].from = id /\ m <= n)
                 PROVE  Sat(t, links[m])
      OBVIOUS
    <3> DEFINE x == links[m]
    <3>0. x \in Visited /\ x.from \in Ids /\ x.link.to \in Ids /\ m \in Nat /\ n \in Nat
      <4>1. x \in Visited
        BY <1>1
      <4> QED
        BY <1>1, <4>1, EndsTyped
    <3>1. m # n \/ x.from \in set => Sat(s, x)
      BY <2>1, <3>0
    <3>2. CASE y.link.kind # SUPPORTS
      <4>1. t = s /\ m # n
        BY <3>2 DEF Effect
      <4> QED
        BY <3>1, <4>1
    <3>3. CASE y.link.kind = SUPPORTS
      <4>1. t = Support(s, y)
        BY <3>3 DEF Effect, SUPPORTS, SUPERSEDES, CONTRADICTS
      <4> HIDE DEF t
      <4>2. /\ \A i \in Ids : i # y.from => t[i] = s[i]
            /\ Sat(s, y) => t = s
            /\ y.link.to # y.from => Sat(t, y)
            /\ t[y.from] = s[y.from] \/ (s[y.from] < STALE /\ t[y.from] = UNVERIFIED) \/ t[y.from] >= STALE
        BY <2>1, <4>1, SupportIs
      <4>3. CASE y.from \in set
        <5>1. Sat(s, y)
          BY <2>1, <3>3, <4>3
        <5>2. t = s /\ (m = n => x.from \in set)
          BY <4>2, <4>3, <5>1
        <5> QED
          BY <3>1, <5>2
      <4>4. CASE y.from \notin set /\ m = n
        <5>1. y.from = id /\ y.link.to # id
          BY <1>3, <3>3, <4>4
        <5> QED
          BY <4>2, <4>4, <5>1
      <4>5. CASE y.from \notin set /\ m # n
        <5>1. x.link.to # y.from
          <6>1. Grounded(y.from) /\ x.from \in set \cup {id}
            BY <1>1
          <6> QED
            BY <1>2, <1>3, <4>5, <6>1
        <5>2. t[x.link.to] = s[x.link.to]
          BY <3>0, <4>2, <5>1
        <5>3. t[x.from] = s[x.from] \/ (s[x.from] < STALE /\ t[x.from] = UNVERIFIED) \/ t[x.from] >= STALE
          BY <3>0, <4>2
        <5>4. s[x.from] \in Nat
          BY <2>1, <3>0, StatusNumber
        <5> QED
          BY <3>1, <4>5, <5>2, <5>3, <5>4, SatStays
      <4> QED
        BY <4>3, <4>4, <4>5
    <3> QED
      BY <3>2, <3>3
  <2> HIDE DEF Good, t
  <2>4. t \in Q[n]
    BY <1>1, <2>2, <2>3
  <2> QED
    BY <2>4 DEF t
<1> HIDE DEF Q
<1>6. Visit(SUPPORTS, st) \in Q[Len(links)]
  BY <1>1, <1>4, <1>5, VisitKeeps DEF links
<1>7. Good(Len(links), Visit(SUPPORTS, st))
  <2> HIDE DEF Good
  <2> QED
    BY <1>1, <1>6 DEF Q
<1>8. ASSUME NEW m \in 1..Len(links), links[m].link.kind = SUPPORTS,
             links[m].from \in set \cup {id}
      PROVE  Sat(Visit(SUPPORTS, st), links[m])
  <2>1. m <= Len(links)
    BY <1>1
  <2> QED
    BY <1>7, <1>8, <2>1
<1> QED
  BY <1>1, <1>8, Zenon

\* As many rounds as there are entries settle them all.
LEMMA PropagateSettles ==
    ASSUME VisitedAre(Links), Footed(entry), NEW st \in Statuses
    PROVE  Calm(Ids, Propagate(st))
<1> DEFINE all == {x \in Ids : Grounded(x)}
           rounds == Cardinality(all)
           Done(n, t) == \E set \in SUBSET all :
                            Closed(set) /\ Calm(set, t) /\ Cardinality(set) = n
           Q == [n \in 0..rounds |-> {t \in Statuses : Done(n, t)}]
<1>1. IsFiniteSet(all) /\ rounds \in Nat
  BY RoundsTyped
<1>2. \A n \in 1..Len(Links) : /\ Links[n] \in Visited /\ Links[n].from \in all
                               /\ Links[n].link.kind = SUPPORTS =>
                                     <<Links[n].from, Links[n].link.to>> \in Supporters(entry)
  <2> SUFFICES ASSUME NEW n \in 1..Len(Links)
               PROVE  /\ Links[n] \in Visited /\ Links[n].from \in all
                      /\ Links[n].link.kind = SUPPORTS =>
                             <<Links[n].from, Links[n].link.to>> \in Supporters(entry)
    OBVIOUS
  <2>1. Links[n] \in Visited
    BY DEF VisitedAre
  <2>2. /\ Links[n].from \in Ids /\ Links[n].link.to \in Ids /\ Grounded(Links[n].from)
        /\ \E i \in DOMAIN entry[Links[n].from].g.links :
                Links[n].link = entry[Links[n].from].g.links[i]
    BY <2>1, EndsTyped DEF VisitedAre
  <2> QED
    BY <2>1, <2>2, SupportersAre DEF Grounded
<1> HIDE DEF rounds
<1>3. st \in Q[0]
  <2>1. Closed({}) /\ Calm({}, st) /\ Cardinality({}) = 0
    BY FS_EmptySet DEF Closed, Calm
  <2>2. Done(0, st)
    BY <2>1
  <2> HIDE DEF Done
  <2> QED
    BY <1>1, <2>2
<1>4. ASSUME NEW n \in 1..rounds, NEW s \in Q[n - 1] PROVE Visit(SUPPORTS, s) \in Q[n]
  <2>1. s \in Statuses /\ Done(n - 1, s)
    <3> HIDE DEF Done
    <3>1. n - 1 \in 0..rounds
      BY <1>1
    <3> QED
      BY <3>1
  <2>2. PICK set \in SUBSET all : Closed(set) /\ Calm(set, s) /\ Cardinality(set) = n - 1
    BY <2>1
  <2>3. all \ set # {}
    <3>1. rounds # n - 1
      BY <1>1
    <3>2. set # all
      BY <2>2, <3>1 DEF rounds
    <3> QED
      BY <2>2, <3>2
  <2>4. PICK id \in all \ set : \A b \in all \ set : <<id, b>> \notin Supporters(entry)
    <3>1. all \ set \in SUBSET Ids
      OBVIOUS
    <3> QED
      BY <2>3, <3>1 DEF Footed
  <2>5. ASSUME NEW m \in 1..Len(Links), Links[m].link.kind = SUPPORTS, Links[m].from = id
        PROVE  Links[m].link.to # id /\ (Links[m].link.to \in set \/ ~Grounded(Links[m].link.to))
    <3>1. Links[m].link.to \in Ids /\ <<id, Links[m].link.to>> \in Supporters(entry)
      BY <1>2, <2>5, EndsTyped
    <3> QED
      BY <2>4, <3>1
  <2>6. Closed(set \cup {id})
    BY <2>2, <2>5 DEF Closed
  <2>7. Calm(set \cup {id}, Visit(SUPPORTS, s))
    BY <2>1, <2>2, <2>4, <2>5, <2>6, VisitSettles
  <2>8. Cardinality(set \cup {id}) = n /\ set \cup {id} \in SUBSET all
    <3>1. IsFiniteSet(set)
      BY <1>1, <2>2, FS_Subset
    <3>2. Cardinality(set \cup {id}) = Cardinality(set) + 1
      BY <2>4, <3>1, FS_AddElement
    <3>3. n \in Int
      BY <1>1
    <3>4. n - 1 + 1 = n
      BY <3>3
    <3>5. Cardinality(set) + 1 = n
      BY <2>2, <3>4
    <3> QED
      BY <2>2, <2>4, <3>2, <3>5
  <2>9. Done(n, Visit(SUPPORTS, s))
    BY <2>6, <2>7, <2>8
  <2> HIDE DEF Done
  <2>10. Visit(SUPPORTS, s) \in Statuses
    BY <2>1, VisitMoves DEF Kinds, Moves
  <2> QED
    BY <1>1, <2>9, <2>10
<1> HIDE DEF Q
<1>5. Propagate(st) \in Q[rounds]
  BY <1>1, <1>3, <1>4, PropagateKeeps DEF rounds
<1>6. PICK set \in SUBSET all : Calm(set, Propagate(st)) /\ Cardinality(set) = rounds
  BY <1>1, <1>5 DEF Q
<1>7. set = all
  BY <1>1, <1>6, FS_Subset DEF rounds
<1> QED
  BY <1>2, <1>6, <1>7 DEF Calm

-----------------------------------------------------------------------------
(* Knowledge: what is current is what earned it.                           *)

\* The entry of x says so of `to' as it is.
Asserts(x, kind, to) ==
    \E n \in 1..Len(Links) :
       /\ Links[n].from = x /\ Links[n].link.kind = kind /\ Links[n].link.to = to
       /\ SameClaim(to, Links[n].link.hash)

LEMMA AssertsIs ==
    ASSUME VisitedAre(Links), NEW x \in Ids, NEW kind, NEW to
    PROVE  Asserts(x, kind, to) <=>
              /\ Grounded(x)
              /\ \E i \in DOMAIN entry[x].g.links :
                    /\ entry[x].g.links[i].kind = kind /\ entry[x].g.links[i].to = to
                    /\ SameClaim(to, entry[x].g.links[i].hash)
<1>1. ASSUME Asserts(x, kind, to)
      PROVE  /\ Grounded(x)
             /\ \E i \in DOMAIN entry[x].g.links :
                    /\ entry[x].g.links[i].kind = kind /\ entry[x].g.links[i].to = to
                    /\ SameClaim(to, entry[x].g.links[i].hash)
  <2>1. PICK n \in 1..Len(Links) :
           /\ Links[n].from = x /\ Links[n].link.kind = kind /\ Links[n].link.to = to
           /\ SameClaim(to, Links[n].link.hash)
    BY <1>1 DEF Asserts
  <2>2. PICK i \in DOMAIN entry[x].g.links : Links[n].link = entry[x].g.links[i]
    BY <2>1 DEF VisitedAre
  <2>3. Grounded(x)
    BY <2>1 DEF VisitedAre
  <2> QED
    BY <2>1, <2>2, <2>3
<1>2. ASSUME Grounded(x), NEW i \in DOMAIN entry[x].g.links,
             entry[x].g.links[i].kind = kind, entry[x].g.links[i].to = to,
             SameClaim(to, entry[x].g.links[i].hash)
      PROVE  Asserts(x, kind, to)
  <2>1. PICK n \in 1..Len(Links) : Links[n] = [from |-> x, link |-> entry[x].g.links[i]]
    BY <1>2 DEF VisitedAre
  <2>2. Links[n].from = x /\ Links[n].link = entry[x].g.links[i]
    BY <2>1
  <2> QED
    BY <1>2, <2>2 DEF Asserts
<1> QED
  BY <1>1, <1>2

\* What it takes to begin as current.
Stands(id) ==
    LET e == entry[id] IN
    /\ record[id] # Gone /\ ~record[id].deprecated /\ ~record[id].expired
    /\ Grounded(id) /\ ~e.g.revoked /\ e.hash = record[id].content /\ e.ok
    /\ e.g.needs \in {NoVersion, observed}
    /\ e.g.covers \/ \E i \in DOMAIN e.g.links : e.g.links[i].kind = SUPPORTS

Rests(id, given) ==
    \A n \in 1..Len(Links) :
       Links[n].link.kind = SUPPORTS /\ Links[n].from = id =>
          SameClaim(Links[n].link.to, Links[n].link.hash) /\ given[Links[n].link.to] = CURRENT

Opposes(x, id) == Asserts(x, CONTRADICTS, id) \/ Asserts(id, CONTRADICTS, x)

LEMMA RestsIs ==
    ASSUME VisitedAre(Links), NEW id \in Ids, Grounded(id), NEW given
    PROVE  Rests(id, given) <=>
              \A i \in DOMAIN entry[id].g.links :
                 entry[id].g.links[i].kind = SUPPORTS =>
                    /\ SameClaim(entry[id].g.links[i].to, entry[id].g.links[i].hash)
                    /\ given[entry[id].g.links[i].to] = CURRENT
<1>1. ASSUME Rests(id, given), NEW i \in DOMAIN entry[id].g.links,
             entry[id].g.links[i].kind = SUPPORTS
      PROVE  /\ SameClaim(entry[id].g.links[i].to, entry[id].g.links[i].hash)
             /\ given[entry[id].g.links[i].to] = CURRENT
  <2>1. PICK n \in 1..Len(Links) : Links[n] = [from |-> id, link |-> entry[id].g.links[i]]
    BY <1>1 DEF VisitedAre
  <2>2. Links[n].from = id /\ Links[n].link = entry[id].g.links[i]
    BY <2>1
  <2> QED
    BY <1>1, <2>2 DEF Rests
<1>2. ASSUME NEW n \in 1..Len(Links), Links[n].link.kind = SUPPORTS, Links[n].from = id,
             \A i \in DOMAIN entry[id].g.links :
                 entry[id].g.links[i].kind = SUPPORTS =>
                    /\ SameClaim(entry[id].g.links[i].to, entry[id].g.links[i].hash)
                    /\ given[entry[id].g.links[i].to] = CURRENT
      PROVE  SameClaim(Links[n].link.to, Links[n].link.hash) /\ given[Links[n].link.to] = CURRENT
  <2>1. PICK i \in DOMAIN entry[id].g.links : Links[n].link = entry[id].g.links[i]
    BY <1>2 DEF VisitedAre
  <2> QED
    BY <1>2, <2>1
<1> QED
  BY <1>1, <1>2 DEF Rests

LEMMA EarnedIs ==
    ASSUME VisitedAre(Links), NEW id \in Ids, NEW given
    PROVE  Earned(id, given) <=>
              /\ Stands(id) /\ Rests(id, given)
              /\ \A x \in Ids : ~Asserts(x, SUPERSEDES, id)
              /\ \A x \in Ids : ~(Opposes(x, id) /\ Contestable(given[x]))
<1> DEFINE supports == {i \in DOMAIN entry[id].g.links : entry[id].g.links[i].kind = SUPPORTS}
           claims(x, kind, to) ==
              /\ Grounded(x)
              /\ \E i \in DOMAIN entry[x].g.links :
                    /\ entry[x].g.links[i].kind = kind /\ entry[x].g.links[i].to = to
                    /\ SameClaim(to, entry[x].g.links[i].hash)
<1>1. Earned(id, given) <=>
         /\ Stands(id)
         /\ ~\E x \in Ids : claims(x, SUPERSEDES, id)
         /\ ~\E x \in Ids : /\ claims(x, CONTRADICTS, id) \/ claims(id, CONTRADICTS, x)
                            /\ Contestable(given[x])
         /\ \A i \in supports :
              SameClaim(entry[id].g.links[i].to, entry[id].g.links[i].hash)
                /\ given[entry[id].g.links[i].to] = CURRENT
  BY DEF Earned, Stands
<1>2. \A x \in Ids : \A kind, to : Asserts(x, kind, to) <=> claims(x, kind, to)
  BY AssertsIs
<1>3. Grounded(id) => (Rests(id, given) <=>
         \A i \in supports :
              SameClaim(entry[id].g.links[i].to, entry[id].g.links[i].hash)
                /\ given[entry[id].g.links[i].to] = CURRENT)
  BY RestsIs
<1>4. Stands(id) => Grounded(id)
  BY DEF Stands
<1> HIDE DEF supports, claims
<1> QED
  BY <1>1, <1>2, <1>3, <1>4 DEF Opposes

LEMMA BeginningIs ==
    ASSUME ~poisoned
    PROVE  /\ Beginning \in Statuses
           /\ \A id \in Ids : Beginning[id] = CURRENT <=> Stands(id)
           /\ \A id \in Ids : Grounded(id) /\ Contestable(Beginning[id]) =>
                                 SameClaim(id, entry[id].hash)
<1>1. ASSUME NEW id \in Ids PROVE Beginning[id] \in Status
  <2>1. Initial(id) \in Status
    BY DEF Initial, Status
  <2> QED
    BY <2>1 DEF Beginning, Status
<1>2. ASSUME NEW id \in Ids PROVE Beginning[id] = CURRENT <=> Stands(id)
  <2>1. CASE record[id] = Gone
    BY <2>1 DEF Beginning, Stands, UNAVAILABLE, CURRENT
  <2>2. CASE record[id] # Gone
    <3>1. Beginning[id] = Initial(id)
      BY <2>2 DEF Beginning
    <3>2. Initial(id) = CURRENT <=> Stands(id)
      BY <2>2 DEF Initial, Stands, UNVERIFIED, CURRENT, STALE, REVOKED, UNAVAILABLE
    <3> QED
      BY <3>1, <3>2
  <2> QED
    BY <2>1, <2>2
<1>3. ASSUME NEW id \in Ids, Grounded(id), Contestable(Beginning[id])
      PROVE  SameClaim(id, entry[id].hash)
  <2>1. ~Contestable(UNAVAILABLE) /\ ~Contestable(STALE) /\ ~Contestable(REVOKED)
    BY DEF Contestable, CONTESTED, UNAVAILABLE, STALE, REVOKED
  <2>2. record[id] # Gone
    BY <1>3, <2>1 DEF Beginning
  <2>3. Contestable(Initial(id))
    BY <1>3, <2>2 DEF Beginning
  <2>4. record[id].content = entry[id].hash
    BY <1>3, <2>1, <2>3 DEF Initial
  <2> QED
    BY <2>2, <2>4 DEF SameClaim
<1>4. Beginning \in Statuses
  BY <1>1 DEF Beginning, Statuses
<1> QED
  BY <1>2, <1>3, <1>4

\* The stages of a refresh.
Stages(s0, s1, s2, s3, s4) ==
    /\ s0 = Beginning /\ s1 = Visit(SUPERSEDES, s0) /\ s2 = Propagate(s1)
    /\ s3 = Visit(CONTRADICTS, s2) /\ s4 = Propagate(s3)

LEMMA StagesMove ==
    ASSUME VisitedAre(Links), ~poisoned, NEW s0, NEW s1, NEW s2, NEW s3, NEW s4,
           Stages(s0, s1, s2, s3, s4)
    PROVE  /\ s0 \in Statuses /\ s1 \in Statuses /\ s2 \in Statuses /\ s3 \in Statuses
           /\ Moves(SUPERSEDES, s0, s1) /\ Moves(SUPPORTS, s1, s2)
           /\ Moves(CONTRADICTS, s2, s3) /\ Moves(SUPPORTS, s3, s4)
<1>1. s0 \in Statuses
  BY BeginningIs DEF Stages
<1>2. Moves(SUPERSEDES, s0, s1) /\ s1 \in Statuses
  BY <1>1, VisitMoves DEF Stages, Kinds, Moves
<1>3. Moves(SUPPORTS, s1, s2) /\ s2 \in Statuses
  BY <1>2, PropagateMoves DEF Stages, Moves
<1>4. Moves(CONTRADICTS, s2, s3) /\ s3 \in Statuses
  BY <1>3, VisitMoves DEF Stages, Kinds, Moves
<1>5. Moves(SUPPORTS, s3, s4)
  BY <1>4, PropagateMoves DEF Stages
<1> QED
  BY <1>1, <1>2, <1>3, <1>4, <1>5

LEMMA CurrentEarns ==
    ASSUME VisitedAre(Links), Footed(entry), ~poisoned,
           NEW s0, NEW s1, NEW s2, NEW s3, NEW s4, Stages(s0, s1, s2, s3, s4),
           NEW id \in Ids, s4[id] = CURRENT
    PROVE  Earned(id, s4)
<1>0. /\ s0 \in Statuses /\ s1 \in Statuses /\ s2 \in Statuses /\ s3 \in Statuses
      /\ Moves(SUPERSEDES, s0, s1) /\ Moves(SUPPORTS, s1, s2)
      /\ Moves(CONTRADICTS, s2, s3) /\ Moves(SUPPORTS, s3, s4)
  BY StagesMove
<1>1. s0[id] = CURRENT /\ s1[id] = CURRENT /\ s3[id] = CURRENT
  BY <1>0 DEF Moves
<1>2. Stands(id)
  BY <1>1, BeginningIs DEF Stages
<1>3. ASSUME NEW x \in Ids PROVE ~Asserts(x, SUPERSEDES, id)
  <2> SUFFICES ASSUME Asserts(x, SUPERSEDES, id) PROVE FALSE
    OBVIOUS
  <2>1. PICK n \in 1..Len(Links) :
           /\ Links[n].link.kind = SUPERSEDES /\ Links[n].link.to = id
           /\ SameClaim(id, Links[n].link.hash)
    BY DEF Asserts
  <2>2. Visit(SUPERSEDES, s0)[id] # CURRENT
    BY <1>0, <2>1, SupersededGoes
  <2> QED
    BY <1>1, <2>2 DEF Stages
<1>4. ASSUME NEW x \in Ids, Contestable(s4[x]) PROVE ~Opposes(x, id)
  <2>1. Contestable(s0[x]) /\ Contestable(s3[x])
    BY <1>0, <1>4 DEF Moves
  <2>2. Grounded(x) => SameClaim(x, entry[x].hash)
    BY <2>1, BeginningIs DEF Stages
  <2>3. SameClaim(id, entry[id].hash)
    BY <1>2 DEF Stands, SameClaim
  <2>4. ASSUME Asserts(x, CONTRADICTS, id) PROVE FALSE
    <3>1. PICK n \in 1..Len(Links) :
             /\ Links[n].from = x /\ Links[n].link.kind = CONTRADICTS /\ Links[n].link.to = id
             /\ SameClaim(id, Links[n].link.hash)
      BY <2>4 DEF Asserts
    <3>2. Grounded(x)
      BY <3>1 DEF VisitedAre
    <3>3. LET t == Visit(CONTRADICTS, s2)
          IN  /\ ~(t[x] = CURRENT /\ Contestable(t[id]))
              /\ ~(t[id] = CURRENT /\ Contestable(t[x]))
      BY <1>0, <2>2, <3>1, <3>2, ContestedGo
    <3> QED
      BY <1>1, <2>1, <3>3 DEF Stages
  <2>5. ASSUME Asserts(id, CONTRADICTS, x) PROVE FALSE
    <3>1. PICK n \in 1..Len(Links) :
             /\ Links[n].from = id /\ Links[n].link.kind = CONTRADICTS /\ Links[n].link.to = x
             /\ SameClaim(x, Links[n].link.hash)
      BY <2>5 DEF Asserts
    <3>2. LET t == Visit(CONTRADICTS, s2)
          IN  /\ ~(t[id] = CURRENT /\ Contestable(t[x]))
              /\ ~(t[x] = CURRENT /\ Contestable(t[id]))
      BY <1>0, <2>3, <3>1, ContestedGo
    <3> QED
      BY <1>1, <2>1, <3>2 DEF Stages
  <2> QED
    BY <2>4, <2>5 DEF Opposes
<1>5. Rests(id, s4)
  <2>1. Calm(Ids, s4)
    BY <1>0, PropagateSettles DEF Stages
  <2> SUFFICES ASSUME NEW n \in 1..Len(Links), Links[n].link.kind = SUPPORTS, Links[n].from = id
               PROVE  /\ SameClaim(Links[n].link.to, Links[n].link.hash)
                      /\ s4[Links[n].link.to] = CURRENT
    BY DEF Rests
  <2>2. Links[n] \in Visited
    BY DEF VisitedAre
  <2>3. Links[n].link.to \in Ids
    BY <2>2, EndsTyped
  <2>4. Sat(s4, Links[n])
    BY <2>1 DEF Calm
  <2>5. record[id] # Gone
    BY <1>2 DEF Stands
  <2>6. /\ SameClaim(Links[n].link.to, Links[n].link.hash) /\ s4[Links[n].link.to] < STALE
        /\ s4[Links[n].link.to] # UNVERIFIED
    BY <2>4, <2>5 DEF Sat, CURRENT, STALE, UNVERIFIED
  <2>7. s4[Links[n].link.to] \in Status
    BY <1>0, <2>3 DEF Moves, Statuses
  <2> QED
    BY <2>6, <2>7 DEF Status, UNVERIFIED, CURRENT, STALE, CONTESTED, REVOKED, UNAVAILABLE
<1> QED
  BY <1>2, <1>3, <1>4, <1>5, EarnedIs

LEMMA EarnedCurrent ==
    ASSUME VisitedAre(Links), ~poisoned,
           NEW s0, NEW s1, NEW s2, NEW s3, NEW s4, Stages(s0, s1, s2, s3, s4),
           NEW id \in Ids, Earned(id, s4)
    PROVE  s4[id] = CURRENT
<1>0. /\ s0 \in Statuses /\ s1 \in Statuses /\ s2 \in Statuses /\ s3 \in Statuses
      /\ Moves(SUPERSEDES, s0, s1) /\ Moves(SUPPORTS, s1, s2)
      /\ Moves(CONTRADICTS, s2, s3) /\ Moves(SUPPORTS, s3, s4)
  BY StagesMove
<1>1. /\ Stands(id) /\ Rests(id, s4)
      /\ \A x \in Ids : ~Asserts(x, SUPERSEDES, id)
      /\ \A x \in Ids : ~(Opposes(x, id) /\ Contestable(s4[x]))
  BY EarnedIs
<1>2. s0[id] = CURRENT
  BY <1>1, BeginningIs DEF Stages
<1>3. \A n \in 1..Len(Links) : Links[n].from \in Ids /\ Links[n].link.to \in Ids
  BY EndsTyped DEF VisitedAre
<1>4. s1[id] = CURRENT
  <2>1. \A n \in 1..Len(Links) :
           ~(/\ Links[n].link.kind = SUPERSEDES /\ Links[n].link.to = id
             /\ SameClaim(id, Links[n].link.hash))
    BY <1>1, <1>3 DEF Asserts
  <2> QED
    BY <1>0, <1>2, <2>1, NotSuperseded DEF Stages
<1>5. Matched(id)
  BY <1>1 DEF Rests, Matched
<1>6. ASSUME NEW t, Propped(id, t), \A x \in Ids : s4[x] = CURRENT => t[x] = CURRENT
      PROVE  t[id] = CURRENT
  BY <1>1, <1>3, <1>6 DEF Propped, Rests
<1>7. s2[id] = CURRENT
  <2>1. Propped(id, s1)
    BY <1>4 DEF Propped
  <2>2. Propped(id, s2)
    BY <1>0, <1>5, <2>1, PropsLast DEF Stages
  <2>3. \A x \in Ids : s4[x] = CURRENT => s2[x] = CURRENT
    BY <1>0 DEF Moves
  <2> QED
    BY <1>6, <2>2, <2>3
<1>8. s3[id] = CURRENT
  <2>1. ASSUME NEW x \in Ids, Opposed(id, x), s3[x] = CONTESTED PROVE FALSE
    <3>1. s4[x] = CONTESTED
      BY <1>0, <2>1 DEF Moves, SUPPORTS, SUPERSEDES
    <3>2. Contestable(s4[x])
      BY <3>1 DEF Contestable
    <3>3. Opposes(x, id)
      BY <2>1 DEF Opposed, Opposes, Asserts
    <3> QED
      BY <1>1, <3>2, <3>3
  <2> QED
    BY <1>0, <1>7, <2>1, NotContested DEF Stages
<1>9. Propped(id, s3)
  BY <1>8 DEF Propped
<1>10. Propped(id, s4)
  BY <1>0, <1>5, <1>9, PropsLast DEF Stages
<1> QED
  BY <1>6, <1>10

LEMMA CurrentFollows == KnowledgeInv => CurrentIsEarned
<1> SUFFICES ASSUME KnowledgeInv, opened, ~poisoned, NEW given \in {Refreshed}
             PROVE  LET current == {id \in Ids : given[id] = CURRENT} IN
                    /\ \A id \in Ids : id \in current <=> Earned(id, given)
                    /\ \A circle \in (SUBSET current) \ {{}} : \E id \in circle :
                          entry[id].g.covers \/
                          \E to \in Ids \ circle : <<id, to>> \in Supporters(entry)
  BY DEF CurrentIsEarned
<1>1. VisitedAre(Links) /\ Footed(entry)
  BY LinksAre, EntryFooted
<1>2. PICK s0, s1, s2, s3, s4 : Stages(s0, s1, s2, s3, s4) /\ s4 = given
  BY DEF Stages, Refreshed
<1>3. ASSUME NEW id \in Ids PROVE s4[id] = CURRENT <=> Earned(id, s4)
  BY <1>1, <1>2, CurrentEarns, EarnedCurrent
<1>4. ASSUME NEW circle \in SUBSET {id \in Ids : s4[id] = CURRENT}, circle # {}
      PROVE  \E id \in circle : \/ entry[id].g.covers
                                \/ \E to \in Ids \ circle : <<id, to>> \in Supporters(entry)
  <2>1. PICK id \in circle : \A b \in circle : <<id, b>> \notin Supporters(entry)
    BY <1>1, <1>4 DEF Footed
  <2>2. id \in Ids /\ s4[id] = CURRENT
    BY <2>1
  <2>3. Stands(id)
    BY <1>1, <1>3, <2>2, EarnedIs
  <2>4. Grounded(id) /\ (entry[id].g.covers \/ \E i \in DOMAIN entry[id].g.links :
                                                  entry[id].g.links[i].kind = SUPPORTS)
    BY <2>3 DEF Stands
  <2>5. ASSUME NEW i \in DOMAIN entry[id].g.links, entry[id].g.links[i].kind = SUPPORTS
        PROVE  \E to \in Ids \ circle : <<id, to>> \in Supporters(entry)
    <3>1. entry[id].g.links \in Seq(Link)
      BY <2>2, <2>4, EntryTyped
    <3>2. entry[id].g.links[i].to \in Ids
      <4> DEFINE ls == entry[id].g.links
      <4>1. ls \in Seq(Link) /\ i \in DOMAIN ls
        BY <3>1
      <4> HIDE DEF ls
      <4>2. ls[i] \in Link
        BY <4>1
      <4>3. ls[i].to \in Ids
        BY <4>2 DEF Link
      <4> QED
        BY <4>3 DEF ls
    <3>3. <<id, entry[id].g.links[i].to>> \in Supporters(entry)
      BY <2>2, <2>4, <2>5, <3>2, SupportersAre DEF Grounded
    <3> QED
      BY <2>1, <3>2, <3>3
  <2> QED
    BY <2>4, <2>5
<1> DEFINE current == {id \in Ids : given[id] = CURRENT}
<1>5. \A id \in Ids : id \in current <=> Earned(id, given)
  BY <1>2, <1>3
<1>6. \A circle \in (SUBSET current) \ {{}} : \E id \in circle :
         entry[id].g.covers \/ \E to \in Ids \ circle : <<id, to>> \in Supporters(entry)
  <2>1. ASSUME NEW circle \in (SUBSET current) \ {{}}
        PROVE  \E id \in circle :
                 entry[id].g.covers \/ \E to \in Ids \ circle : <<id, to>> \in Supporters(entry)
    <3>1. given = s4 /\ circle \in SUBSET current /\ circle # {}
      <4> HIDE DEF current
      <4>1. circle \in SUBSET current /\ circle # {}
        BY <2>1, Zenon
      <4> QED
        BY <1>2, <4>1
    <3>2. circle \in SUBSET {id \in Ids : s4[id] = CURRENT}
      BY <3>1
    <3> QED
      BY <1>4, <3>1, <3>2
  <2> QED
    BY <2>1
<1> QED
  BY <1>5, <1>6

\* Whatever hosts assert, and in whatever order, a reader is told that a claim is
\* current if and only if it earned that (asper_knowledge_refresh): no order of
\* the ids, no circle and no failed append makes one current that did not.
THEOREM CurrentClaimsEarned == KnowledgeSpec => []CurrentIsEarned
<1>1. KnowledgeSpec => []KnowledgeInv
  BY KnowledgeAlways
<1>2. KnowledgeInv => CurrentIsEarned
  BY CurrentFollows
<1> QED
  BY <1>1, <1>2, PTL

-----------------------------------------------------------------------------
(* History: the two passes.                                                *)

LEMMA InSequenceIs ==
    ASSUME NEW N \in Nat, NEW T \in SUBSET (1..N)
    PROVE  ToSet(InSequence(T)) = T
<1> DEFINE ahead == {pair \in T \X T : pair[1] < pair[2]}
<1>1. IsFiniteSet(T)
  <2>1. IsFiniteSet(1..N)
    BY FS_Interval
  <2> QED
    BY <2>1, FS_Subset
<1>2. TotalOrder(T, ahead)
  BY DEF TotalOrder
<1>3. InSequence(T) = Sorted(T, ahead)
  BY DEF InSequence
<1> HIDE DEF ahead
<1> QED
  BY <1>1, <1>2, <1>3, SortedIs DEF InOrder

Shape == [kind : {"turn", "note", "checkpoint"}, pinned : BOOLEAN, asked : BOOLEAN,
          cost : Nat]

\* The model's operators, of any view.
CostIn(v, T) == Total([i \in 1..Len(v) |-> IF i \in T THEN v[i].cost ELSE 0])
AheadIn(v, i, j) ==
    \/ v[i].pinned /\ (~v[j].pinned \/ i < j)
    \/ ~v[i].pinned /\ ~v[j].pinned /\ i > j
EligibleIn(v, i) ==
    /\ v[i].kind # "checkpoint"
    /\ v[i].pinned \/ ~(v[i].kind = "turn" /\ v[i].asked)

\* What is ahead of an event, among the events taken.
Before(v, T, i) == {j \in T : AheadIn(v, j, i)}

\* An event that is due its place.
Due(v, b, T, i) ==
    /\ EligibleIn(v, i)
    /\ CostIn(v, Before(v, T, i)) + v[i].cost <= b
    /\ Cardinality(Before(v, T, i)) < MaxEvents

\* The events the passes have decided on: the pinned ones that the first has
\* looked at; then every pinned one, and the newest.
Decided(v, p, o, i) ==
    \/ p = 1 /\ v[i].pinned /\ i <= o
    \/ p = 2 /\ (v[i].pinned \/ i > Len(v) - o)
    \/ p \in {3, 4}

Settled(v, b, p, o, T) ==
    /\ CostIn(v, T) <= b
    /\ \A i \in T : Decided(v, p, o, i)
    /\ \A i \in 1..Len(v) : Decided(v, p, o, i) => (i \in T <=> Due(v, b, T, i))

LEMMA ShapeOf ==
    ASSUME NEW v \in Seq(Shape), NEW k \in 1..Len(v)
    PROVE  v[k].cost \in Nat /\ v[k].pinned \in BOOLEAN
<1>1. v[k] \in Shape
  BY ElementOfSeq
<1> QED
  BY <1>1 DEF Shape

LEMMA CostEmpty ==
    ASSUME NEW v \in Seq(Shape) PROVE CostIn(v, {}) = 0
<1> DEFINE c == [i \in 1..Len(v) |-> IF i \in {} THEN v[i].cost ELSE 0]
           N == Len(v)
<1>1. N \in Nat /\ c \in Seq(Nat) /\ Len(c) = N /\ \A i \in 1..N : c[i] = 0
  OBVIOUS
<1>2. PICK f : Sums(c, N, f) /\ Total(c) = f[N]
  BY <1>1, TotalIs
<1>3. CostIn(v, {}) = Total(c)
  BY DEF CostIn
<1> HIDE DEF c, N
<1> DEFINE S == {n \in 0..N : f[n] = 0}
<1>4. 0 \in S
  BY <1>1, <1>2 DEF Sums
<1>5. ASSUME NEW n \in 1..N, n - 1 \in S PROVE n \in S
  BY <1>1, <1>2, <1>5 DEF Sums
<1> HIDE DEF S
<1>6. N \in S
  <2>1. \A n \in 0..N : n \in S
    BY <1>1, <1>4, <1>5, UpTo, Zenon
  <2> QED
    BY <1>1, <2>1
<1> QED
  BY <1>2, <1>3, <1>6 DEF S

LEMMA CostAdds ==
    ASSUME NEW v \in Seq(Shape), NEW T, NEW i \in 1..Len(v), i \notin T
    PROVE  CostIn(v, T \cup {i}) = CostIn(v, T) + v[i].cost
<1> DEFINE c == [k \in 1..Len(v) |-> IF k \in T THEN v[k].cost ELSE 0]
           d == [k \in 1..Len(v) |-> IF k \in T \cup {i} THEN v[k].cost ELSE 0]
<1>1. \A k \in 1..Len(v) : v[k].cost \in Nat
  BY ShapeOf
<1>2. c \in Seq(Nat) /\ d \in Seq(Nat) /\ Len(c) = Len(v) /\ Len(d) = Len(v)
  BY <1>1
<1>3. d[i] = c[i] + v[i].cost
  <2>1. d[i] = v[i].cost /\ c[i] = 0
    OBVIOUS
  <2> QED
    BY <1>1, <2>1
<1>4. \A k \in 1..Len(v) : k # i => d[k] = c[k]
  OBVIOUS
<1>5. CostIn(v, T) = Total(c) /\ CostIn(v, T \cup {i}) = Total(d)
  BY DEF CostIn
<1> HIDE DEF c, d
<1> QED
  BY <1>1, <1>2, <1>3, <1>4, <1>5, TotalAdds

LEMMA CostGrows ==
    ASSUME NEW v \in Seq(Shape), NEW T, NEW S \in SUBSET T
    PROVE  CostIn(v, S) <= CostIn(v, T) /\ CostIn(v, S) \in Nat /\ CostIn(v, T) \in Nat
<1> DEFINE c == [k \in 1..Len(v) |-> IF k \in S THEN v[k].cost ELSE 0]
           d == [k \in 1..Len(v) |-> IF k \in T THEN v[k].cost ELSE 0]
<1>1. \A k \in 1..Len(v) : v[k].cost \in Nat
  BY ShapeOf
<1>2. c \in Seq(Nat) /\ d \in Seq(Nat) /\ Len(c) = Len(v) /\ Len(d) = Len(v)
  BY <1>1
<1>3. \A k \in 1..Len(v) : c[k] <= d[k]
  BY <1>1
<1>4. CostIn(v, S) = Total(c) /\ CostIn(v, T) = Total(d)
  BY DEF CostIn
<1> HIDE DEF c, d
<1> QED
  BY <1>2, <1>3, <1>4, TotalGrows

\* The event a pass is at.
At(v, p, o) == IF p = 1 THEN o + 1 ELSE Len(v) - o

\* An event already decided on keeps its place, or its lack of one, when the
\* event the pass is at is taken.
LEMMA DecidedStays ==
    ASSUME NEW v \in Seq(Shape), NEW b \in Nat, NEW p \in {1, 2}, NEW o \in Nat,
           o < Len(v), NEW T \in SUBSET (1..Len(v)), NEW k \in 1..Len(v),
           Decided(v, p, o, k), p = 1 => v[At(v, p, o)].pinned,
           p = 2 => ~v[At(v, p, o)].pinned
    PROVE  /\ k # At(v, p, o) /\ ~AheadIn(v, At(v, p, o), k)
           /\ Before(v, T \cup {At(v, p, o)}, k) = Before(v, T, k)
           /\ Due(v, b, T \cup {At(v, p, o)}, k) <=> Due(v, b, T, k)
<1> DEFINE i == At(v, p, o)
<1>1. k # i /\ ~AheadIn(v, i, k)
  BY DEF Decided, AheadIn, At
<1> HIDE DEF i
<1>2. Before(v, T \cup {i}, k) = Before(v, T, k)
  BY <1>1 DEF Before
<1> QED
  BY <1>1, <1>2, Zenon DEF Due, i

\* What is taken so far is what is ahead of the event the pass is at.
LEMMA AllAhead ==
    ASSUME NEW v \in Seq(Shape), NEW b \in Nat, NEW p \in {1, 2}, NEW o \in Nat,
           NEW T \in SUBSET (1..Len(v)), NEW i \in 1..Len(v), Settled(v, b, p, o, T),
           ~Decided(v, p, o, i), p = 1 => v[i].pinned
    PROVE  i \notin T /\ Before(v, T, i) = T
<1>1. ASSUME NEW j \in T PROVE AheadIn(v, j, i)
  <2>1. Decided(v, p, o, j)
    BY DEF Settled
  <2>2. v[j].pinned \in BOOLEAN /\ v[i].pinned \in BOOLEAN /\ j \in 1..Len(v)
    BY ShapeOf
  <2> QED
    BY <2>1, <2>2 DEF Decided, AheadIn
<1> QED
  BY <1>1 DEF Before, Settled

\* The pass has come one event further.
LEMMA Further ==
    ASSUME NEW v \in Seq(Shape), NEW p \in {1, 2}, NEW o \in Nat, o < Len(v),
           NEW k \in 1..Len(v)
    PROVE  /\ Decided(v, p, o, k) => Decided(v, p, o + 1, k)
           /\ Decided(v, p, o + 1, k) => Decided(v, p, o, k) \/ k = At(v, p, o)
           /\ At(v, p, o) \in 1..Len(v)
           /\ p = 1 => ~Decided(v, p, o, At(v, p, o))
           /\ p = 2 => (Decided(v, p, o, At(v, p, o)) <=> v[At(v, p, o)].pinned)
           /\ p = 2 => Decided(v, p, o + 1, At(v, p, o))
           /\ p = 1 /\ v[At(v, p, o)].pinned => Decided(v, p, o + 1, At(v, p, o))
           /\ p = 1 /\ ~v[At(v, p, o)].pinned => ~Decided(v, p, o + 1, At(v, p, o))
<1>1. Len(v) \in Nat
  OBVIOUS
<1>2. CASE p = 1
  BY <1>1, <1>2 DEF Decided, At
<1>3. CASE p = 2
  BY <1>1, <1>3 DEF Decided, At
<1> QED
  BY <1>2, <1>3

\* select_event takes what a pass may take and the budget holds.
Wants(v, p, T, i) ==
    /\ v[i].kind # "checkpoint"
    /\ p = 1 => v[i].pinned
    /\ p = 2 => i \notin T /\ ~(v[i].kind = "turn" /\ v[i].asked)

\* What the first pass turned down, the second does not take.
LEMMA NeverLate ==
    ASSUME NEW v \in Seq(Shape), NEW b \in Nat, NEW o \in Nat,
           NEW T \in SUBSET (1..Len(v)), NEW i \in 1..Len(v), Settled(v, b, 2, o, T),
           IsFiniteSet(T), Cardinality(T) < MaxEvents, Wants(v, 2, T, i),
           CostIn(v, T) + v[i].cost <= b
    PROVE  ~v[i].pinned
<1> SUFFICES ASSUME v[i].pinned PROVE FALSE
  OBVIOUS
<1>1. Decided(v, 2, o, i) /\ i \notin T /\ EligibleIn(v, i)
  BY DEF Decided, Wants, EligibleIn
<1>2. ~Due(v, b, T, i)
  BY <1>1 DEF Settled
<1> DEFINE B == Before(v, T, i)
<1>3. B \in SUBSET T
  BY DEF Before
<1>4. MaxEvents \in Nat /\ v[i].cost \in Nat
  BY HistoryAssumption, ShapeOf
<1> HIDE DEF B
<1>5. CostIn(v, B) <= CostIn(v, T) /\ CostIn(v, B) \in Nat /\ CostIn(v, T) \in Nat
  BY <1>3, CostGrows
<1>6. Cardinality(B) <= Cardinality(T) /\ Cardinality(B) \in Nat /\ Cardinality(T) \in Nat
  <2>1. IsFiniteSet(B) /\ Cardinality(B) <= Cardinality(T)
    BY <1>3, FS_Subset
  <2> QED
    BY <2>1, FS_CardinalityType
<1>7. CostIn(v, B) + v[i].cost <= b /\ Cardinality(B) < MaxEvents
  BY <1>4, <1>5, <1>6
<1> QED
  BY <1>1, <1>2, <1>7 DEF Due, B

LEMMA TakenSettles ==
    ASSUME NEW v \in Seq(Shape), NEW b \in Nat, NEW p \in {1, 2}, NEW o \in Nat,
           o < Len(v), NEW T \in SUBSET (1..Len(v)), Settled(v, b, p, o, T),
           IsFiniteSet(T), Cardinality(T) < MaxEvents, Wants(v, p, T, At(v, p, o)),
           CostIn(v, T) + v[At(v, p, o)].cost <= b
    PROVE  At(v, p, o) \notin T /\ Settled(v, b, p, o + 1, T \cup {At(v, p, o)})
<1> DEFINE i == At(v, p, o)
           U == T \cup {i}
<1>1. i \in 1..Len(v)
  BY Further
<1>2. p = 1 => v[i].pinned
  BY DEF Wants
<1>3. p = 2 => ~v[i].pinned
  BY <1>1, NeverLate
<1>4. ~Decided(v, p, o, i)
  BY <1>1, <1>2, <1>3, Further
<1>5. i \notin T /\ Before(v, T, i) = T
  BY <1>1, <1>2, <1>4, AllAhead
<1>6. Decided(v, p, o + 1, i)
  BY <1>1, <1>2, Further
<1>7. CostIn(v, U) <= b
  BY <1>1, <1>5, CostAdds
<1>8. Before(v, U, i) = T
  <2>1. ~AheadIn(v, i, i)
    BY <1>1 DEF AheadIn
  <2> HIDE DEF i
  <2> QED
    BY <1>5, <2>1 DEF Before
<1>9. Due(v, b, U, i)
  <2>1. EligibleIn(v, i)
    BY <1>2 DEF Wants, EligibleIn
  <2> QED
    BY <1>8, <2>1 DEF Due
<1>10. ASSUME NEW k \in 1..Len(v), Decided(v, p, o, k)
       PROVE  k # i /\ (Due(v, b, U, k) <=> Due(v, b, T, k))
  BY <1>2, <1>3, <1>10, DecidedStays, Zenon
<1>11. ASSUME NEW k \in 1..Len(v), Decided(v, p, o + 1, k) PROVE k \in U <=> Due(v, b, U, k)
  <2>1. CASE k = i
    BY <1>9, <2>1
  <2>2. CASE k # i
    <3>1. Decided(v, p, o, k)
      BY <1>11, <2>2, Further
    <3>2. k \in T <=> Due(v, b, T, k)
      BY <3>1 DEF Settled
    <3> QED
      BY <1>10, <2>2, <3>1, <3>2
  <2> QED
    BY <2>1, <2>2
<1>12. ASSUME NEW k \in U PROVE Decided(v, p, o + 1, k)
  <2>1. CASE k \in T
    <3>1. Decided(v, p, o, k)
      BY <2>1 DEF Settled
    <3> QED
      BY <2>1, <3>1, Further
  <2> QED
    BY <1>6, <1>12, <2>1
<1> QED
  BY <1>5, <1>7, <1>11, <1>12 DEF Settled

LEMMA SkippedSettles ==
    ASSUME NEW v \in Seq(Shape), NEW b \in Nat, NEW p \in {1, 2}, NEW o \in Nat,
           o < Len(v), NEW T \in SUBSET (1..Len(v)), Settled(v, b, p, o, T),
           \/ ~Wants(v, p, T, At(v, p, o))
           \/ ~(CostIn(v, T) + v[At(v, p, o)].cost <= b)
    PROVE  Settled(v, b, p, o + 1, T)
<1> DEFINE i == At(v, p, o)
<1>1. i \in 1..Len(v)
  BY Further
<1>2. ASSUME NEW k \in 1..Len(v), Decided(v, p, o + 1, k) PROVE k \in T <=> Due(v, b, T, k)
  <2>1. CASE Decided(v, p, o, k)
    BY <2>1 DEF Settled
  <2>2. CASE ~Decided(v, p, o, k)
    <3>1. k = i
      BY <1>2, <2>2, Further
    <3>2. p = 1 => v[i].pinned
      BY <1>2, <3>1, Further
    <3>3. p = 2 => ~v[i].pinned
      BY <2>2, <3>1, Further
    <3>4. i \notin T /\ Before(v, T, i) = T
      <4>1. k \notin T /\ Before(v, T, k) = T
        <5>1. p = 1 => v[k].pinned
          BY <3>1, <3>2
        <5> HIDE DEF i
        <5> QED
          BY <2>2, <5>1, AllAhead
      <4> QED
        BY <3>1, <4>1
    <3>5. ~Wants(v, p, T, i) => ~EligibleIn(v, i)
      BY <3>2, <3>3, <3>4 DEF Wants, EligibleIn
    <3>6. ~Due(v, b, T, i)
      BY <3>4, <3>5 DEF Due
    <3> QED
      BY <3>1, <3>4, <3>6
  <2> QED
    BY <2>1, <2>2
<1>3. ASSUME NEW k \in T PROVE Decided(v, p, o + 1, k)
  <2>1. Decided(v, p, o, k)
    BY DEF Settled
  <2> QED
    BY <2>1, Further
<1> QED
  BY <1>2, <1>3 DEF Settled

\* A pass ends at the last event, or at the last place.
LEMMA EndSettles ==
    ASSUME NEW v \in Seq(Shape), NEW b \in Nat, NEW p \in {1, 2}, NEW o \in Nat,
           NEW T \in SUBSET (1..Len(v)), Settled(v, b, p, o, T), IsFiniteSet(T),
           \/ ~(o < Len(v)) \/ ~(Cardinality(T) < MaxEvents)
    PROVE  Settled(v, b, p + 1, 0, T)
<1>1. Len(v) \in Nat
  OBVIOUS
<1>2. ASSUME NEW k \in 1..Len(v), Decided(v, p, o, k) PROVE Decided(v, p + 1, 0, k)
  BY <1>2 DEF Decided
<1>3. ASSUME NEW k \in 1..Len(v), Decided(v, p + 1, 0, k), ~Decided(v, p, o, k)
      PROVE  o < Len(v) /\ (p = 1 => v[k].pinned)
  <2>1. CASE p = 1
    BY <1>1, <1>3, <2>1 DEF Decided
  <2>2. CASE p = 2
    BY <1>1, <1>3, <2>2 DEF Decided
  <2> QED
    BY <2>1, <2>2
<1>4. ASSUME NEW k \in 1..Len(v), Decided(v, p + 1, 0, k) PROVE k \in T <=> Due(v, b, T, k)
  <2>1. CASE Decided(v, p, o, k)
    BY <2>1 DEF Settled
  <2>2. CASE ~Decided(v, p, o, k)
    <3>1. ~(Cardinality(T) < MaxEvents) /\ (p = 1 => v[k].pinned)
      BY <1>3, <1>4, <2>2
    <3>2. k \notin T /\ Before(v, T, k) = T
      BY <2>2, <3>1, AllAhead
    <3> QED
      BY <3>1, <3>2 DEF Due
  <2> QED
    BY <2>1, <2>2
<1>5. ASSUME NEW k \in T PROVE Decided(v, p + 1, 0, k)
  BY <1>2 DEF Settled
<1> QED
  BY <1>4, <1>5 DEF Settled

-----------------------------------------------------------------------------
(* History: the steps.                                                     *)

HistoryInv ==
    /\ view \in Seq(Shape) /\ budget \in Nat /\ section \in [cost : Nat, allowed : Nat]
    /\ pass \in 1..4 /\ offset \in Nat
    /\ chosen \in Seq(1..Len(view))
    /\ IsFiniteSet(Chosen) /\ Len(chosen) = Cardinality(Chosen)
    /\ Settled(view, budget, pass, offset, Chosen)
    /\ pass # 4 => ~result.ok
    /\ pass = 4 =>
         /\ result.slack = 0 => result.ok
         /\ result.ok => /\ result.lines = InSequence(Chosen)
                         /\ result.tokens <= section.allowed + budget

LEMMA HistoryInvInit == HistoryInit => HistoryInv
<1> SUFFICES ASSUME HistoryInit PROVE HistoryInv
  OBVIOUS
<1>1. /\ view \in Views /\ budget \in Budgets /\ section \in Sections
      /\ pass = 1 /\ offset = 0 /\ chosen = << >> /\ result = NoContext(0)
  BY DEF HistoryInit
<1>2. view \in Seq(Shape) /\ budget \in Nat /\ section \in [cost : Nat, allowed : Nat]
  BY <1>1, HistoryAssumption DEF Shape
<1>3. Chosen = {} /\ IsFiniteSet(Chosen) /\ Len(chosen) = Cardinality(Chosen)
  <2>1. Chosen = {}
    BY <1>1 DEF Chosen, ToSet
  <2> QED
    BY <1>1, <2>1, FS_EmptySet
<1>4. ~result.ok
  BY <1>1 DEF NoContext
<1>5. Settled(view, budget, 1, 0, {})
  <2>1. CostIn(view, {}) <= budget
    BY <1>2, CostEmpty
  <2>2. ASSUME NEW i \in 1..Len(view) PROVE ~Decided(view, 1, 0, i)
    BY DEF Decided
  <2> QED
    BY <2>1, <2>2 DEF Settled
<1> QED
  BY <1>1, <1>2, <1>3, <1>4, <1>5 DEF HistoryInv

LEMMA ChosenTyped ==
    ASSUME HistoryInv PROVE Chosen \in SUBSET (1..Len(view))
BY DEF HistoryInv, Chosen, ToSet

\* The model's operators are these, of the view at hand.
LEMMA SameOperators ==
    /\ \A T : Cost(T) = CostIn(view, T)
    /\ \A i : pass = 1 => (Wanted(i) <=> Wants(view, 1, Chosen, i))
    /\ \A i : pass = 2 => (Wanted(i) <=> Wants(view, 2, Chosen, i))
<1>1. \A T : Cost(T) = CostIn(view, T)
  BY Zenon DEF Cost, CostIn
<1>2. ASSUME NEW i, pass = 1 PROVE Wanted(i) <=> Wants(view, 1, Chosen, i)
  BY <1>2 DEF Wanted, Wants
<1>3. ASSUME NEW i, pass = 2 PROVE Wanted(i) <=> Wants(view, 2, Chosen, i)
  BY <1>3 DEF Wanted, Wants
<1> QED
  BY <1>1, <1>2, <1>3

LEMMA LookKeeps == ASSUME HistoryInv, Look PROVE HistoryInv'
<1> DEFINE i == At(view, pass, offset)
           T == Chosen
<1>1. /\ view \in Seq(Shape) /\ budget \in Nat /\ pass \in {1, 2} /\ offset \in Nat
      /\ offset < Len(view) /\ Len(chosen) < MaxEvents /\ chosen \in Seq(1..Len(view))
      /\ IsFiniteSet(T) /\ Len(chosen) = Cardinality(T)
      /\ Settled(view, budget, pass, offset, T) /\ T \in SUBSET (1..Len(view))
  BY ChosenTyped DEF HistoryInv, Look, Looking
<1>2. i \in 1..Len(view)
  BY <1>1, Further
<1>3. /\ offset' = offset + 1
      /\ chosen' = IF Wanted(i) /\ Fits(i) THEN Append(chosen, i) ELSE chosen
      /\ UNCHANGED <<view, budget, section, pass, result>>
  BY DEF Look, At
<1>4. Wanted(i) <=> Wants(view, pass, T, i)
  BY <1>1, SameOperators
<1>5. Fits(i) <=> CostIn(view, T) + view[i].cost <= budget
  <2>1. CostIn(view, T) \in Nat /\ view[i].cost \in Nat
    BY <1>1, <1>2, CostGrows, ShapeOf
  <2>2. Cost(T) = CostIn(view, T)
    BY SameOperators
  <2> HIDE DEF i
  <2> QED
    BY <1>1, <2>1, <2>2 DEF Fits
<1>6. CASE Wanted(i) /\ Fits(i)
  <2>1. i \notin T /\ Settled(view, budget, pass, offset + 1, T \cup {i})
    <3>1. Wants(view, pass, T, i) /\ CostIn(view, T) + view[i].cost <= budget
      BY <1>4, <1>5, <1>6
    <3>2. Cardinality(T) < MaxEvents
      BY <1>1
    <3> HIDE DEF T
    <3> QED
      BY <1>1, <3>1, <3>2, TakenSettles
  <2> HIDE DEF i
  <2>2. /\ chosen' = Append(chosen, i) /\ chosen' \in Seq(1..Len(view))
        /\ Len(chosen') = Len(chosen) + 1
    BY <1>1, <1>2, <1>3, <1>6
  <2>3. Chosen' = T \cup {i}
    <3>1. ToSet(Append(chosen, i)) = ToSet(chosen) \cup {i}
      BY <1>1, <1>2, ToSetAppended
    <3> QED
      BY <2>2, <3>1 DEF Chosen
  <2>4. IsFiniteSet(Chosen)' /\ Len(chosen') = Cardinality(Chosen')
    BY <1>1, <2>1, <2>2, <2>3, FS_AddElement
  <2> HIDE DEF T
  <2>5. Settled(view, budget, pass, offset, Chosen)'
    BY <1>3, <2>1, <2>3
  <2> QED
    BY <1>1, <1>3, <2>2, <2>4, <2>5 DEF HistoryInv
<1>7. CASE ~(Wanted(i) /\ Fits(i))
  <2>1. Settled(view, budget, pass, offset + 1, T)
    BY <1>1, <1>4, <1>5, <1>7, SkippedSettles
  <2>2. chosen' = chosen /\ Chosen' = T
    BY <1>3, <1>7 DEF Chosen
  <2> HIDE DEF T, i
  <2>3. Settled(view, budget, pass, offset, Chosen)'
    BY <1>3, <2>1, <2>2
  <2>4. IsFiniteSet(Chosen)' /\ Len(chosen') = Cardinality(Chosen')
    BY <1>1, <2>2
  <2> QED
    BY <1>1, <1>3, <2>2, <2>3, <2>4 DEF HistoryInv
<1> QED
  BY <1>6, <1>7

LEMMA NextPassKeeps == ASSUME HistoryInv, NextPass PROVE HistoryInv'
<1> DEFINE T == Chosen
<1>1. /\ view \in Seq(Shape) /\ budget \in Nat /\ pass \in {1, 2} /\ offset \in Nat
      /\ IsFiniteSet(T) /\ Len(chosen) = Cardinality(T)
      /\ Settled(view, budget, pass, offset, T) /\ T \in SUBSET (1..Len(view))
      /\ (~(offset < Len(view)) \/ ~(Len(chosen) < MaxEvents))
  BY ChosenTyped DEF HistoryInv, NextPass, Looking
<1>2. Settled(view, budget, pass + 1, 0, T)
  BY <1>1, EndSettles
<1>3. /\ pass' = pass + 1 /\ offset' = 0
      /\ UNCHANGED <<view, budget, section, chosen, result>> /\ Chosen' = T
  BY DEF NextPass, Chosen
<1> HIDE DEF T
<1>4. Settled(view, budget, pass, offset, Chosen)'
  BY <1>2, <1>3
<1>5. IsFiniteSet(Chosen)' /\ Len(chosen') = Cardinality(Chosen')
  BY <1>1, <1>3
<1> QED
  BY <1>1, <1>3, <1>4, <1>5 DEF HistoryInv

LEMMA ReturnKeeps == ASSUME HistoryInv, Return PROVE HistoryInv'
<1>1. /\ view \in Seq(Shape) /\ budget \in Nat /\ section \in [cost : Nat, allowed : Nat]
      /\ pass = 3 /\ pass' = 4 /\ UNCHANGED <<view, budget, section, offset, chosen>>
      /\ Chosen' = Chosen /\ Settled(view, budget, 3, offset, Chosen)
  BY DEF HistoryInv, Return, Chosen
<1>2. PICK slack \in Slacks :
          LET counted == IF chosen = << >> THEN 0 ELSE Cost(Chosen) + slack
              total  == SectionTokens + counted
          IN  result' = IF counted > budget \/ total > section.allowed + budget
                        THEN NoContext(slack)
                        ELSE [ok |-> TRUE, lines |-> InSequence(Chosen), tokens |-> total,
                              slack |-> slack]
  BY DEF Return
<1> DEFINE counted == IF chosen = << >> THEN 0 ELSE Cost(Chosen) + slack
           total == SectionTokens + counted
<1>3. slack \in Nat
  BY HistoryAssumption
<1>4. Cost(Chosen) \in Nat /\ Cost(Chosen) <= budget
  BY <1>1, SameOperators, CostGrows DEF Settled
<1>5. counted \in Nat /\ (slack = 0 => counted <= budget)
  BY <1>1, <1>3, <1>4
<1>6. SectionTokens \in Nat /\ SectionTokens <= section.allowed /\ section.allowed \in Nat
  BY <1>1 DEF SectionTokens
<1> HIDE DEF counted
<1>7. total \in Nat /\ (slack = 0 => total <= section.allowed + budget)
  BY <1>1, <1>5, <1>6
<1>8. result' = IF counted > budget \/ total > section.allowed + budget
                THEN NoContext(slack)
                ELSE [ok |-> TRUE, lines |-> InSequence(Chosen), tokens |-> total,
                      slack |-> slack]
  BY <1>2 DEF counted
<1> HIDE DEF total
<1>9. CASE counted > budget \/ total > section.allowed + budget
  <2>1. slack # 0
    BY <1>1, <1>5, <1>6, <1>7, <1>9
  <2>2. result'.slack = slack /\ ~result'.ok
    BY <1>8, <1>9 DEF NoContext
  <2>3. Settled(view, budget, pass, offset, Chosen)'
    BY <1>1 DEF Settled, Decided
  <2> QED
    BY <1>1, <2>1, <2>2, <2>3 DEF HistoryInv
<1>10. CASE ~(counted > budget \/ total > section.allowed + budget)
  <2>1. result'.ok /\ result'.lines = InSequence(Chosen) /\ result'.tokens = total
    BY <1>8, <1>10
  <2>2. total <= section.allowed + budget
    BY <1>1, <1>6, <1>7, <1>10
  <2>3. Settled(view, budget, pass, offset, Chosen)'
    BY <1>1 DEF Settled, Decided
  <2> QED
    BY <1>1, <2>1, <2>2, <2>3 DEF HistoryInv
<1> QED
  BY <1>9, <1>10

LEMMA HistoryInvStep == HistoryInv /\ [HistoryNext]_historyVars => HistoryInv'
<1> SUFFICES ASSUME HistoryInv, [HistoryNext]_historyVars PROVE HistoryInv'
  OBVIOUS
<1>1. CASE UNCHANGED historyVars
  <2>1. /\ UNCHANGED <<view, budget, section, pass, offset, chosen, result>>
        /\ Chosen' = Chosen
    BY <1>1 DEF historyVars, Chosen
  <2> QED
    BY <2>1 DEF HistoryInv
<1> QED
  BY <1>1, LookKeeps, NextPassKeeps, ReturnKeeps DEF HistoryNext

\* asper_source_history, select_event, asper_context_materialize_project: for any
\* view and budget, the two passes leave in the context exactly the events that
\* are due a place in order of priority, in sequence, inside the envelope.
THEOREM HistoryIsExact == HistorySpec => []HistoryExact
<1>1. HistoryInv => HistoryExact
  <2> SUFFICES ASSUME HistoryInv PROVE HistoryExact
    OBVIOUS
  <2>1. CASE result.ok
    <3>1. /\ pass = 4 /\ view \in Seq(Shape) /\ result.lines = InSequence(Chosen)
          /\ result.tokens <= section.allowed + budget
          /\ Settled(view, budget, 4, offset, Chosen)
      BY <2>1 DEF HistoryInv
    <3>2. ToSet(result.lines) = Chosen
      <4>1. Len(view) \in Nat
        BY <3>1
      <4> QED
        BY <3>1, <4>1, ChosenTyped, InSequenceIs
    <3>3. \A i \in 1..Len(view) : i \in Chosen <=> Due(view, budget, Chosen, i)
      BY <3>1 DEF Settled, Decided
    <3>4. ASSUME NEW i \in 1..Len(view)
          PROVE  /\ Before(view, Chosen, i) = {j \in Chosen : Ahead(j, i)}
                 /\ EligibleIn(view, i) <=> Eligible(i)
      BY DEF Before, AheadIn, Ahead, EligibleIn, Eligible
    <3>5. \A i \in 1..Len(view) :
             i \in Chosen <=>
               /\ Eligible(i)
               /\ Cost({j \in Chosen : Ahead(j, i)}) + view[i].cost <= budget
               /\ Cardinality({j \in Chosen : Ahead(j, i)}) < MaxEvents
      BY <3>3, <3>4, SameOperators, Zenon DEF Due
    <3>6. DOMAIN view = 1..Len(view)
      BY <3>1
    <3> QED
      BY <2>1, <3>1, <3>2, <3>5, <3>6, Zenon DEF HistoryExact
  <2>2. CASE ~result.ok
    BY <2>2 DEF HistoryInv, HistoryExact
  <2> QED
    BY <2>1, <2>2
<1> QED
  BY <1>1, HistoryInvInit, HistoryInvStep, PTL DEF HistorySpec

-----------------------------------------------------------------------------
(* MCP.                                                                    *)

Job(line, id, called, outcome, starved, replies) ==
    [line |-> line, id |-> id, called |-> called, outcome |-> outcome,
     starved |-> starved, replies |-> replies]

IdOf(line) == IF line.id # "none" THEN "id" ELSE "null"

\* What a call that went through returns, and one that failed.
Success(id) == [id |-> id, code |-> 0, isError |-> FALSE]
Failure(id) == [id |-> id, code |-> 0, isError |-> TRUE]

\* What is true of the line once the request is accepted.
Accepted(line) ==
    /\ line.text = "object" /\ line.id # "bad" /\ line.header
    /\ ~(line.id = "none" /\ line.method = "notifications/any")

\* What an answer of this line says of the call, though memory ran out ...
TellsStarved(line, called, outcome, reply) ==
    /\ ~Asks(line) => reply.id = "null" /\ called = NotCalled
    /\ reply.id = "id" => line.id = "good"
    /\ reply.code \notin {0, 32603} => called = NotCalled
    /\ reply.code = 0 /\ line.method = "tools/call" =>
          /\ called = line.tool
          /\ reply.isError <=> outcome = "asper"

\* ... and if it did not.
Tells(line, called, outcome, starved, reply) ==
    /\ TellsStarved(line, called, outcome, reply)
    /\ ~starved => /\ Asks(line)
                   /\ line.text = "object" /\ line.id = "good" => reply.id = "id"

\* The tool ran for a line that asks for it, and for each of those while memory lasted.
RanRightly(line, called, starved) ==
    /\ called # NotCalled => Runs(line) /\ called = line.tool
    /\ Runs(line) /\ ~starved => called = line.tool

\* The line has been dealt with.
Done(line, called, outcome, starved, replies) ==
    /\ RanRightly(line, called, starved)
    /\ \/ replies = << >> /\ ~Asks(line)
       \/ \E reply : replies = <<reply>> /\ Tells(line, called, outcome, starved, reply)

McpInv ==
    \/ stage \in {"start", "reading", "exited"} /\ job = NoJob
    \/ /\ stage = "line"
       /\ \E l \in Lines : job = Job(l, "null", NotCalled, "none", FALSE, << >>)
    \/ /\ stage = "request"
       /\ \E l \in Lines :
             Accepted(l) /\ job = Job(l, IdOf(l), NotCalled, "none", FALSE, << >>)
    \/ /\ stage = "called"
       /\ \E l \in Lines, outcome \in {"ok", "asper", "oom"} :
             /\ Accepted(l) /\ Runs(l)
             /\ job = Job(l, IdOf(l), l.tool, outcome, outcome = "oom", << >>)
    \/ /\ stage \in {"reading", "exited"}
       /\ \E l \in Lines, starved \in BOOLEAN : \E id, called, outcome, replies :
             /\ job = Job(l, id, called, outcome, starved, replies)
             /\ Done(l, called, outcome, starved, replies)

\* The ways a step can end the work on a line: an answer or the one that says
\* there was no memory for it, none, and what is left once memory has run out.
Answered(reply) ==
    /\ stage' = "reading"
    /\ \/ job' = [job EXCEPT !.replies = <<reply>>]
       \/ job' = [job EXCEPT !.replies = <<OomReply>>, !.starved = TRUE]
Silent == stage' = "reading" /\ job' = job
Starved(replies) ==
    stage' = "reading" /\ job' = [job EXCEPT !.starved = TRUE, !.replies = replies]

LEMMA AnsweredEnds ==
    ASSUME NEW l \in Lines, NEW id, NEW called, NEW outcome, NEW starved \in BOOLEAN,
           job = Job(l, id, called, outcome, starved, << >>), Asks(l),
           RanRightly(l, called, starved),
           NEW reply, Tells(l, called, outcome, starved, reply), Answered(reply)
    PROVE  McpInv'
<1> DEFINE yes == TRUE
<1>1. stage' = "reading" /\ yes \in BOOLEAN
  BY DEF Answered
<1>2. \/ job' = Job(l, id, called, outcome, starved, <<reply>>)
      \/ job' = Job(l, id, called, outcome, yes, <<OomReply>>)
  BY DEF Answered, Job
<1>3. Done(l, called, outcome, starved, <<reply>>)
  BY DEF Done
<1>4. RanRightly(l, called, yes) /\ Tells(l, called, outcome, yes, OomReply)
  BY DEF RanRightly, Tells, TellsStarved, OomReply, Error
<1> HIDE DEF yes
<1>5. Done(l, called, outcome, yes, <<OomReply>>)
  BY <1>4 DEF Done
<1> QED
  BY <1>1, <1>2, <1>3, <1>5 DEF McpInv

LEMMA SilentEnds ==
    ASSUME NEW l \in Lines, NEW id, NEW called, NEW outcome, NEW starved \in BOOLEAN,
           job = Job(l, id, called, outcome, starved, << >>), ~Asks(l),
           RanRightly(l, called, starved), Silent
    PROVE  McpInv'
<1> DEFINE none == << >>
<1>1. stage' = "reading" /\ job' = Job(l, id, called, outcome, starved, none)
  BY DEF Silent
<1>2. Done(l, called, outcome, starved, none)
  BY DEF Done
<1> HIDE DEF none
<1> QED
  BY <1>1, <1>2 DEF McpInv

LEMMA StarvedEnds ==
    ASSUME NEW l \in Lines, NEW id, NEW called, NEW outcome, NEW starved \in BOOLEAN,
           job = Job(l, id, called, outcome, starved, << >>),
           called # NotCalled => Runs(l) /\ called = l.tool,
           NEW replies, Starved(replies),
           \/ replies = << >> /\ ~Asks(l)
           \/ \E reply : replies = <<reply>> /\ TellsStarved(l, called, outcome, reply)
    PROVE  McpInv'
<1> DEFINE yes == TRUE
<1>1. stage' = "reading" /\ yes \in BOOLEAN
  BY DEF Starved
<1>2. job' = Job(l, id, called, outcome, yes, replies)
  BY DEF Starved, Job
<1>3. \A reply : TellsStarved(l, called, outcome, reply) => Tells(l, called, outcome, yes, reply)
  BY DEF Tells
<1>4. RanRightly(l, called, yes)
  BY DEF RanRightly
<1> HIDE DEF yes
<1>5. Done(l, called, outcome, yes, replies)
  BY <1>3, <1>4 DEF Done
<1> QED
  BY <1>1, <1>2, <1>5 DEF McpInv

\* The reader: before the first line, between lines, after the last.
LEMMA ReaderSteps ==
    ASSUME McpInv,
           Start \/ EndOfInput \/ (\E line \in Lines : ReadLine(line) \/ LineLost(line))
    PROVE  McpInv'
<1>1. CASE Start \/ EndOfInput
  <2>1. CASE job = NoJob
    BY <1>1, <2>1 DEF Start, EndOfInput, McpInv
  <2>2. CASE job # NoJob
    <3>1. EndOfInput /\ stage = "reading"
      BY <1>1, <2>2 DEF Start, EndOfInput, McpInv
    <3>2. \E l \in Lines, starved \in BOOLEAN : \E id, called, outcome, replies :
             /\ job = Job(l, id, called, outcome, starved, replies)
             /\ Done(l, called, outcome, starved, replies)
      BY <2>2, <3>1 DEF McpInv
    <3>3. stage' = "exited" /\ job' = job
      BY <3>1 DEF EndOfInput
    <3> QED
      BY <3>2, <3>3 DEF McpInv
  <2> QED
    BY <2>1, <2>2
<1>2. ASSUME NEW l \in Lines, ReadLine(l) PROVE McpInv'
  <2>1. job' = Job(l, "null", NotCalled, "none", FALSE, << >>) /\ stage' = "line"
    BY <1>2 DEF ReadLine, NoJob, Job
  <2> QED
    BY <2>1 DEF McpInv
<1>3. ASSUME NEW l \in Lines, LineLost(l) PROVE McpInv'
  <2> DEFINE yes == TRUE  none == "none"  null == "null"  sent == <<OomReply>>
  <2>1. stage' = "reading" /\ yes \in BOOLEAN
    BY <1>3 DEF LineLost
  <2>2. job' = Job(l, null, NotCalled, none, yes, sent)
    BY <1>3 DEF LineLost, NoJob, Job
  <2>3. RanRightly(l, NotCalled, yes)
    BY DEF RanRightly
  <2>4. Tells(l, NotCalled, none, yes, OomReply)
    BY DEF Tells, TellsStarved, OomReply, Error
  <2> HIDE DEF yes, none, null
  <2>5. Done(l, NotCalled, none, yes, sent)
    BY <2>3, <2>4 DEF Done
  <2> HIDE DEF sent
  <2> QED
    BY <2>1, <2>2, <2>5 DEF McpInv
<1> QED
  BY <1>1, <1>2, <1>3

\* A line that is read: blank, no JSON, no request, ignored, or to be handled.
LEMMA LineSteps ==
    ASSUME McpInv, stage = "line",
           SkipBlank \/ ParseError \/ InvalidRequest \/ IgnoreNotification \/ KeepId
    PROVE  McpInv'
<1> DEFINE no == FALSE  none == "none"  null == "null"
<1>1. PICK l \in Lines : job = Job(l, null, NotCalled, none, no, << >>)
  BY DEF McpInv
<1>2. no \in BOOLEAN /\ job.line = l /\ RanRightly(l, NotCalled, no) = (Runs(l) => NotCalled = l.tool)
  BY <1>1 DEF Job, RanRightly
<1>3. /\ l.text \in {"blank", "garbage", "array", "scalar", "object"}
      /\ l.id \in {"none", "good", "bad"} /\ l.header \in BOOLEAN
  BY LinesAssumption
<1>4. ASSUME ~Runs(l), ~Asks(l), Silent PROVE McpInv'
  <2> HIDE DEF no, none, null
  <2> QED
    BY <1>1, <1>2, <1>4, SilentEnds
<1>5. ASSUME ~Runs(l), Asks(l), NEW reply, Answered(reply), TellsStarved(l, NotCalled, none, reply),
             l.text = "object" /\ l.id = "good" => reply.id = "id"
      PROVE  McpInv'
  <2>1. Tells(l, NotCalled, none, no, reply)
    BY <1>5 DEF Tells
  <2> HIDE DEF no, none, null
  <2> QED
    BY <1>1, <1>2, <1>5, <2>1, AnsweredEnds
<1>6. ASSUME NEW replies, Starved(replies),
             \/ replies = << >> /\ ~Asks(l)
             \/ \E reply : replies = <<reply>> /\ TellsStarved(l, NotCalled, none, reply)
      PROVE  McpInv'
  <2> HIDE DEF no, none, null
  <2> QED
    BY <1>1, <1>2, <1>6, StarvedEnds
<1>7. /\ TellsStarved(l, NotCalled, none, Error("null", 32600))
      /\ TellsStarved(l, NotCalled, none, Error("null", 32700))
      /\ TellsStarved(l, NotCalled, none, OomReply)
  BY DEF TellsStarved, Error, OomReply
<1> HIDE DEF no, none, null
<1>8. CASE SkipBlank \/ IgnoreNotification
  <2>1. /\ l.text = "blank" \/ (l.text = "object" /\ l.id = "none" /\ l.method = "notifications/any")
        /\ Silent
    BY <1>2, <1>8 DEF SkipBlank, IgnoreNotification, WellFormed, Ignored, Silent
  <2>2. ~Runs(l) /\ ~Asks(l)
    BY <2>1 DEF Runs, Asks
  <2> QED
    BY <1>4, <2>1, <2>2
<1>9. CASE ParseError
  <2>1. CASE l.text = "garbage"
    <3>1. Answered(Error("null", 32700))
      BY <1>2, <1>9, <2>1 DEF ParseError, Send, Answered
    <3>2. ~Runs(l) /\ Asks(l)
      BY <2>1 DEF Runs, Asks
    <3> QED
      BY <1>5, <1>7, <2>1, <3>1, <3>2
  <2>2. CASE l.text # "garbage"
    <3>1. Starved(<<Error("null", 32700)>>)
      BY <1>2, <1>9, <2>2 DEF ParseError, Starving, Starved
    <3> QED
      BY <1>6, <1>7, <3>1
  <2> QED
    BY <2>1, <2>2
<1>10. CASE InvalidRequest
  <2>1. CASE l.text \in {"array", "scalar"} \/ (l.text = "object" /\ l.id = "bad")
    <3>1. Answered(Error("null", 32600))
      BY <1>2, <1>10, <2>1 DEF InvalidRequest, Send, Answered
    <3>2. ~Runs(l) /\ Asks(l) /\ ~(l.text = "object" /\ l.id = "good")
      BY <2>1 DEF Runs, Asks
    <3> QED
      BY <1>5, <1>7, <3>1, <3>2
  <2>2. CASE l.text = "object" /\ l.id # "bad"
    <3>1. ~Runs(l) /\ ~l.header
      BY <1>2, <1>10, <2>2 DEF InvalidRequest, Send, Starving, Runs
    <3>2. CASE l.id = "none"
      <4>1. ~Asks(l)
        BY <2>2, <3>2 DEF Asks
      <4>2. Silent \/ Starved(<< >>)
        BY <1>2, <1>10, <2>2, <3>2 DEF InvalidRequest, Send, Starving, HasId, Silent, Starved
      <4> QED
        BY <1>4, <1>6, <3>1, <4>1, <4>2
    <3>3. CASE l.id = "good"
      <4>1. Asks(l)
        BY <2>2, <3>3 DEF Asks
      <4>2. Answered(Error("id", 32600)) \/ Starved(<<Error("null", 32600)>>)
        BY <1>2, <1>10, <2>2, <3>3
           DEF InvalidRequest, Send, Starving, HasId, Answered, Starved
      <4>3. TellsStarved(l, NotCalled, none, Error("id", 32600)) /\ Error("id", 32600).id = "id"
        BY <3>3, <4>1 DEF TellsStarved, Error
      <4> QED
        BY <1>5, <1>6, <1>7, <3>1, <4>1, <4>2, <4>3
    <3> QED
      BY <1>3, <2>2, <3>2, <3>3
  <2> QED
    BY <1>2, <1>10, <2>1, <2>2 DEF InvalidRequest
<1>11. CASE KeepId
  <2>1. Accepted(l)
    BY <1>2, <1>11 DEF KeepId, WellFormed, Ignored, Accepted
  <2>2. CASE stage' = "request" /\ job' = [job EXCEPT !.id = IF HasId THEN "id" ELSE "null"]
    <3>1. job' = Job(l, IdOf(l), NotCalled, "none", FALSE, << >>)
      BY <1>1, <1>2, <2>2 DEF Job, IdOf, HasId, none, no, null
    <3> QED
      BY <2>1, <2>2, <3>1 DEF McpInv
  <2>3. CASE ~(stage' = "request" /\ job' = [job EXCEPT !.id = IF HasId THEN "id" ELSE "null"])
    <3>1. Starved(<<OomReply>>)
      BY <1>11, <2>3 DEF KeepId, Starving, Starved
    <3> QED
      BY <1>6, <1>7, <3>1
  <2> QED
    BY <2>2, <2>3
<1> QED
  BY <1>8, <1>9, <1>10, <1>11

\* A request that is turned down, or answered without a tool.
LEMMA RequestSteps ==
    ASSUME McpInv, stage = "request",
           \/ RejectVersion \/ Initialize \/ Discover \/ Ping \/ ToolsList
           \/ UnknownMethod \/ InvalidParams
    PROVE  McpInv'
<1> DEFINE no == FALSE  none == "none"
<1>1. PICK l \in Lines :
        Accepted(l) /\ job = Job(l, IdOf(l), NotCalled, none, no, << >>)
  BY DEF McpInv
<1>2. l.id \in {"none", "good"} /\ l.text = "object"
  BY <1>1, LinesAssumption DEF Accepted
<1> DEFINE rid == IdOf(l)
<1>3. /\ no \in BOOLEAN /\ job.line = l /\ job.id = rid
      /\ l.id = "none" => ~Asks(l) /\ rid = "null"
      /\ l.id = "good" => Asks(l) /\ rid = "id"
  BY <1>1, <1>2 DEF Job, Asks, IdOf
\* Done with an answer, without one, or with what memory was left for.
<1> DEFINE Ended(reply) == IF l.id = "none" THEN Silent ELSE Answered(reply)
           Lacking(reply) == IF l.id = "none" THEN Starved(<< >>) ELSE Starved(<<reply>>)
<1>4. /\ \A reply : Send(HasId, reply) => Ended(reply)
      /\ \A reply : Starving(HasId, reply) => Lacking(reply)
  BY <1>3 DEF Send, Starving, HasId, Silent, Answered, Starved
<1>5. ASSUME NEW reply, ~Runs(l), reply.id = rid, Ended(reply),
             TellsStarved(l, NotCalled, none, reply)
      PROVE  McpInv'
  <2>1. RanRightly(l, NotCalled, no) /\ (Asks(l) => Tells(l, NotCalled, none, no, reply))
    BY <1>2, <1>3, <1>5 DEF RanRightly, Tells
  <2> HIDE DEF no, none
  <2>2. CASE l.id = "none"
    BY <1>1, <1>3, <1>5, <2>1, <2>2, SilentEnds
  <2>3. CASE l.id = "good"
    BY <1>1, <1>3, <1>5, <2>1, <2>3, AnsweredEnds
  <2> QED
    BY <1>2, <2>2, <2>3
<1>6. ASSUME NEW reply, Lacking(reply), TellsStarved(l, NotCalled, none, reply)
      PROVE  McpInv'
  <2> HIDE DEF no, none
  <2>1. CASE l.id = "none"
    <3>1. Starved(<< >>) /\ ~Asks(l)
      BY <1>3, <1>6, <2>1
    <3> QED
      BY <1>1, <1>3, <3>1, StarvedEnds
  <2>2. CASE l.id = "good"
    <3>1. Starved(<<reply>>)
      BY <1>6, <2>2
    <3> QED
      BY <1>1, <1>3, <1>6, <3>1, StarvedEnds
  <2> QED
    BY <1>2, <2>1, <2>2
<1>7. /\ Error(rid, 32022).id = rid /\ TellsStarved(l, NotCalled, none, Error(rid, 32022))
      /\ Error(rid, 32601).id = rid /\ TellsStarved(l, NotCalled, none, Error(rid, 32601))
      /\ Error(rid, 32602).id = rid /\ TellsStarved(l, NotCalled, none, Error(rid, 32602))
      /\ TellsStarved(l, NotCalled, none, Error(rid, 32603))
  BY <1>2, <1>3 DEF Error, TellsStarved
<1>8. l.method # "tools/call" =>
        /\ ~Runs(l)
        /\ Success(rid).id = rid /\ TellsStarved(l, NotCalled, none, Success(rid))
  BY <1>2, <1>3 DEF Success, TellsStarved, Runs
<1>9. ~Runs(l) \/ (~VersionRefused /\ l.method = "tools/call" /\ Callable(l))
  BY <1>3 DEF Runs, VersionRefused
<1> HIDE DEF Ended, Lacking, no, none
<1>10. CASE RejectVersion
  <2>1. Ended(Error(rid, 32022)) /\ ~Runs(l)
    BY <1>3, <1>4, <1>9, <1>10 DEF RejectVersion
  <2> QED
    BY <1>5, <1>7, <2>1
<1>11. CASE Initialize \/ Discover \/ ToolsList
  <2>1. l.method # "tools/call" /\ (Ended(Success(rid)) \/ Lacking(Error(rid, 32603)))
    BY <1>3, <1>4, <1>11 DEF Initialize, Discover, ToolsList, Request, Result, Success
  <2> QED
    BY <1>5, <1>6, <1>7, <1>8, <2>1
<1>12. CASE Ping
  <2>1. l.method # "tools/call" /\ Ended(Success(rid))
    BY <1>3, <1>4, <1>12 DEF Ping, Request, Result, Success
  <2> QED
    BY <1>5, <1>8, <2>1
<1>13. CASE UnknownMethod
  <2>1. Ended(Error(rid, 32601)) /\ ~Runs(l)
    BY <1>3, <1>4, <1>9, <1>13 DEF UnknownMethod, Methods
  <2> QED
    BY <1>5, <1>7, <2>1
<1>14. CASE InvalidParams
  <2>1. Ended(Error(rid, 32602)) /\ ~Runs(l)
    BY <1>3, <1>4, <1>9, <1>14 DEF InvalidParams
  <2> QED
    BY <1>5, <1>7, <2>1
<1> QED
  BY <1>10, <1>11, <1>12, <1>13, <1>14

\* The tool's call, and what is said of it.
LEMMA CallSteps == ASSUME McpInv, CallLibrary \/ AnswerCall PROVE McpInv'
<1>1. CASE CallLibrary
  <2>1. PICK l \in Lines :
          Accepted(l) /\ job = Job(l, IdOf(l), NotCalled, "none", FALSE, << >>)
    BY <1>1 DEF CallLibrary, Request, McpInv
  <2>2. job.line = l
    BY <2>1 DEF Job
  <2>3. Runs(l) /\ stage' = "called"
    BY <1>1, <2>1, <2>2 DEF CallLibrary, Request, VersionRefused, Runs, Accepted
  <2>4. PICK outcome \in {"ok", "asper", "oom"} :
          job' = [job EXCEPT !.called = l.tool, !.outcome = outcome, !.starved = outcome = "oom"]
    BY <1>1, <2>2 DEF CallLibrary
  <2>5. job' = Job(l, IdOf(l), l.tool, outcome, outcome = "oom", << >>)
    BY <2>1, <2>4 DEF Job
  <2> QED
    BY <2>1, <2>3, <2>5 DEF McpInv
<1>2. CASE AnswerCall
  <2>1. PICK l \in Lines, outcome \in {"ok", "asper", "oom"} :
          /\ Accepted(l) /\ Runs(l)
          /\ job = Job(l, IdOf(l), l.tool, outcome, outcome = "oom", << >>)
    BY <1>2 DEF AnswerCall, McpInv
  <2> DEFINE rid == IdOf(l)  starved == outcome = "oom"  tool == l.tool
  <2>2. /\ job.line = l /\ job.id = rid /\ job.outcome = outcome /\ starved \in BOOLEAN
        /\ job = Job(l, rid, tool, outcome, starved, << >>)
    BY <2>1 DEF Job
  <2>3. l.id \in {"none", "good"} /\ l.text = "object" /\ l.method = "tools/call"
    BY <2>1, LinesAssumption DEF Accepted, Runs
  <2>4. RanRightly(l, tool, starved) /\ Runs(l) /\ tool = l.tool
    BY <2>1 DEF RanRightly
  <2>5. CASE l.id = "none"
    <3>1. ~Asks(l)
      BY <2>3, <2>5 DEF Asks
    <3>2. Silent \/ Starved(<< >>)
      BY <1>2, <2>2, <2>5 DEF AnswerCall, Send, Starving, HasId, Silent, Starved
    <3> HIDE DEF rid, starved, tool
    <3>3. CASE Silent
      BY <2>2, <2>4, <3>1, <3>3, SilentEnds
    <3>4. CASE Starved(<< >>)
      BY <2>2, <2>4, <3>1, <3>4, StarvedEnds
    <3> QED
      BY <3>2, <3>3, <3>4
  <2>6. CASE l.id = "good"
    <3>1. Asks(l) /\ rid = "id"
      BY <2>3, <2>6 DEF Asks, IdOf
    <3>2. \/ outcome = "ok" /\ Answered(Success(rid))
          \/ outcome = "asper" /\ Answered(Failure(rid))
          \/ outcome = "asper" /\ Starved(<<Error(rid, 32603)>>)
          \/ outcome = "oom" /\ Answered(Error(rid, 32603))
      BY <1>2, <2>2, <2>6 DEF AnswerCall, Send, Starving, HasId, Answered, Starved, Result, Success, Failure
    <3>3. /\ outcome = "ok" => Tells(l, tool, outcome, starved, Success(rid))
          /\ outcome = "asper" => Tells(l, tool, outcome, starved, Failure(rid))
          /\ Tells(l, tool, outcome, starved, Error(rid, 32603))
          /\ TellsStarved(l, tool, outcome, Error(rid, 32603))
      BY <2>6, <3>1 DEF Tells, TellsStarved, Success, Failure, Error
    <3> HIDE DEF rid, starved, tool
    <3>4. ASSUME NEW reply, Answered(reply), Tells(l, tool, outcome, starved, reply)
          PROVE  McpInv'
      BY <2>2, <2>4, <3>1, <3>4, AnsweredEnds
    <3>5. CASE Starved(<<Error(rid, 32603)>>)
      BY <2>2, <2>4, <3>3, <3>5, StarvedEnds
    <3>6. CASE outcome = "ok" /\ Answered(Success(rid))
      BY <3>3, <3>4, <3>6
    <3>7. CASE outcome = "asper" /\ Answered(Failure(rid))
      BY <3>3, <3>4, <3>7
    <3>8. CASE Answered(Error(rid, 32603))
      BY <3>3, <3>4, <3>8
    <3> QED
      BY <3>2, <3>5, <3>6, <3>7, <3>8
  <2> QED
    BY <2>3, <2>5, <2>6
<1> QED
  BY <1>1, <1>2

LEMMA McpInvStep == McpInv /\ [McpNext]_mcpVars => McpInv'
<1> SUFFICES ASSUME McpInv, [McpNext]_mcpVars PROVE McpInv'
  OBVIOUS
<1>1. CASE Start \/ EndOfInput \/ (\E line \in Lines : ReadLine(line) \/ LineLost(line))
  BY <1>1, ReaderSteps
<1>2. CASE SkipBlank \/ ParseError \/ InvalidRequest \/ IgnoreNotification \/ KeepId
  <2>1. stage = "line"
    BY <1>2 DEF SkipBlank, ParseError, InvalidRequest, IgnoreNotification, KeepId, Send, Starving
  <2> QED
    BY <1>2, <2>1, LineSteps
<1>3. CASE \/ RejectVersion \/ Initialize \/ Discover \/ Ping \/ ToolsList
           \/ UnknownMethod \/ InvalidParams
  <2>1. stage = "request"
    BY <1>3 DEF RejectVersion, Initialize, Discover, Ping, ToolsList, UnknownMethod,
                InvalidParams, Request, Result
  <2> QED
    BY <1>3, <2>1, RequestSteps
<1>4. CASE CallLibrary \/ AnswerCall
  BY <1>4, CallSteps
<1>5. CASE UNCHANGED mcpVars
  BY <1>5 DEF mcpVars, McpInv
<1> QED
  BY <1>1, <1>2, <1>3, <1>4, <1>5 DEF McpNext

\* What the answers say, from what the job is when a line is done with.
LEMMA DoneTells ==
    ASSUME McpInv, stage = "reading", job.line # NoLine PROVE AnswersTell
<1>1. job # NoJob
  BY DEF NoJob
<1>0. PICK l \in Lines, starved \in BOOLEAN :
        \E id, called, outcome, replies :
           /\ job = Job(l, id, called, outcome, starved, replies)
           /\ Done(l, called, outcome, starved, replies)
  BY <1>1 DEF McpInv
<1>2. PICK id, called, outcome, replies :
        /\ job = Job(l, id, called, outcome, starved, replies)
        /\ Done(l, called, outcome, starved, replies)
  BY <1>0
<1>3. /\ job.line = l /\ job.called = called /\ job.outcome = outcome
      /\ job.starved = starved /\ job.replies = replies
  BY <1>2 DEF Job
<1>4. CASE replies = << >> /\ ~Asks(l)
  BY <1>2, <1>3, <1>4 DEF Done, RanRightly, AnswersTell
<1>5. CASE \E reply : replies = <<reply>> /\ Tells(l, called, outcome, starved, reply)
  <2>1. PICK reply : replies = <<reply>> /\ Tells(l, called, outcome, starved, reply)
    BY <1>5
  <2>2. Len(replies) = 1 /\ replies[1] = reply /\ replies # << >>
    BY <2>1
  <2> HIDE DEF Asks, Runs
  <2> QED
    BY <1>2, <1>3, <2>1, <2>2 DEF Done, RanRightly, Tells, TellsStarved, AnswersTell
<1> QED
  BY <1>2, <1>4, <1>5 DEF Done

-----------------------------------------------------------------------------
(* The theorem.                                                            *)

\* handle_request, handle_tools_call, send_result, send_error: every line that
\* asks for an answer gets exactly one, with its id while memory lasts, and the
\* answer tells whether the tool ran.
THEOREM AnswersAlwaysTell == McpSpec => []AnswersTell
<1>1. McpInit => McpInv
  BY DEF McpInit, McpInv
<1>2. McpInv => AnswersTell
  BY DoneTells DEF AnswersTell
<1> QED
  BY <1>1, <1>2, McpInvStep, PTL DEF McpSpec

-----------------------------------------------------------------------------
(* Injection: the template.  The operators of Injection, of any template.  *)

HoldingIn(t, z) == {l \in DOMAIN t : z \in t[l].holds}
HeadingIn(t, p, gone) ==
    {i \in 1 .. p - 1 :
        \A j \in i .. p - 1 : ~t[j].blank /\ j \notin gone /\ t[j].holds = {}}
DropIn(t, gone, z) ==
    LET p       == Min(HoldingIn(t, z))
        segment == HeadingIn(t, p, gone) \cup {p}
        above   == {i \in {Min(segment) - 1} \cap DOMAIN t : t[i].blank /\ i \notin gone}
    IN  gone \cup segment \cup above
HeadingOfIn(t, z) == UNION {HeadingIn(t, p, {}) \cup {p} : p \in HoldingIn(t, z)}

Places == Zones \cup {"base"}
Templates == Seq([blank : BOOLEAN, holds : SUBSET Places])
BlanksEmpty(t) == \A l \in DOMAIN t : t[l].blank => t[l].holds = {}
OnePlace(t) == \A l \in DOMAIN t : \A a, b \in t[l].holds : a = b
OneLine(t) == \A z \in Zones : \A p, q \in HoldingIn(t, z) : p = q

\* A set of at most one element has no two.
LEMMA AtMostOne ==
    ASSUME NEW S, IsFiniteSet(S), Cardinality(S) <= 1 PROVE \A a, b \in S : a = b
<1> SUFFICES ASSUME NEW a \in S, NEW b \in S, a # b PROVE FALSE
  OBVIOUS
<1>1. {a, b} \subseteq S
  OBVIOUS
<1>2. Cardinality({a, b}) <= Cardinality(S) /\ Cardinality(S) \in Nat
  BY <1>1, FS_Subset, FS_CardinalityType
<1>3. IsFiniteSet({b}) /\ Cardinality({b}) = 1
  BY FS_Singleton
<1>4. Cardinality({b} \cup {a}) = Cardinality({b}) + 1
  BY <1>3, FS_AddElement
<1>5. {b} \cup {a} = {a, b}
  OBVIOUS
<1> QED
  BY <1>2, <1>3, <1>4, <1>5

\* The heading of a zone: the lines of one walk, none of them blank, and no
\* placeholder on them but the zone's own.
LEMMA HeadingLine ==
    ASSUME NEW t \in Templates, BlanksEmpty(t), OneLine(t), NEW z \in Zones,
           NEW p \in HoldingIn(t, z)
    PROVE  /\ p \in 1..Len(t) /\ z \in t[p].holds /\ ~t[p].blank
           /\ HeadingOfIn(t, z) = HeadingIn(t, p, {}) \cup {p}
           /\ \A l \in HeadingOfIn(t, z) :
                 /\ l \in 1..p /\ ~t[l].blank
                 /\ \A j \in l..p : j # p => j \in HeadingOfIn(t, z) /\ t[j].holds = {}
<1>1. p \in 1..Len(t) /\ z \in t[p].holds /\ DOMAIN t = 1..Len(t) /\ Len(t) \in Nat
  BY DEF HoldingIn, Templates
<1>2. ~t[p].blank
  BY <1>1 DEF BlanksEmpty
<1>3. HoldingIn(t, z) = {p}
  BY DEF OneLine
<1>4. HeadingOfIn(t, z) = HeadingIn(t, p, {}) \cup {p}
  BY <1>3 DEF HeadingOfIn
<1>5. ASSUME NEW l \in HeadingIn(t, p, {})
      PROVE  /\ l \in 1..p /\ ~t[l].blank
             /\ \A j \in l..p : j # p => j \in HeadingIn(t, p, {}) /\ t[j].holds = {}
  <2>1. l \in 1..(p - 1) /\ \A j \in l..(p - 1) : ~t[j].blank /\ t[j].holds = {}
    BY DEF HeadingIn
  <2>2. l \in Nat /\ p \in Nat /\ l <= p - 1 /\ l \in 1..p
    BY <1>1, <2>1
  <2>3. ASSUME NEW j \in l..p, j # p PROVE j \in HeadingIn(t, p, {}) /\ t[j].holds = {}
    <3>1. j \in l..(p - 1) /\ j \in 1..(p - 1)
      BY <2>1, <2>2, <2>3
    <3>2. \A k \in j..(p - 1) : k \in l..(p - 1)
      BY <2>2, <3>1
    <3> QED
      BY <2>1, <3>1, <3>2 DEF HeadingIn
  <2>4. l \in l..(p - 1)
    BY <2>2
  <2> QED
    BY <2>1, <2>2, <2>3, <2>4
<1>6. p \in 1..p /\ \A j \in p..p : j = p
  BY <1>1
<1> QED
  BY <1>1, <1>2, <1>4, <1>5, <1>6

\* No line belongs to the headings of two zones.
LEMMA HeadingsApart ==
    ASSUME NEW t \in Templates, BlanksEmpty(t), OneLine(t), OnePlace(t),
           NEW y \in Zones, NEW z \in Zones, y # z, NEW l \in HeadingOfIn(t, z)
    PROVE  l \notin HeadingOfIn(t, y)
<1> SUFFICES ASSUME l \in HeadingOfIn(t, y) PROVE FALSE
  OBVIOUS
<1>1. PICK p \in HoldingIn(t, z) : TRUE
  BY DEF HeadingOfIn
<1>2. PICK q \in HoldingIn(t, y) : TRUE
  BY DEF HeadingOfIn
<1>3. /\ p \in 1..Len(t) /\ z \in t[p].holds
      /\ l \in 1..p /\ \A j \in l..p : j # p => t[j].holds = {}
  BY <1>1, HeadingLine
<1>4. /\ q \in 1..Len(t) /\ y \in t[q].holds
      /\ l \in 1..q /\ \A j \in l..q : j # q => t[j].holds = {}
  BY <1>2, HeadingLine
<1>5. p # q
  BY <1>3, <1>4 DEF OnePlace, Templates
<1>6. Len(t) \in Nat
  BY DEF Templates
<1>7. p \in l..q \/ q \in l..p
  BY <1>3, <1>4, <1>6
<1> QED
  BY <1>3, <1>4, <1>5, <1>7

\* What is gone after some zones have been dropped: their headings, and blank
\* lines above these.
GoneBy(t, gone, dropped) ==
    /\ \A l \in gone : \E z \in dropped :
          \/ l \in HeadingOfIn(t, z)
          \/ l \in 1..Len(t) /\ t[l].blank /\ l + 1 \in HeadingOfIn(t, z)
    /\ \A z \in dropped : HeadingOfIn(t, z) \subseteq gone

\* The heading of a zone outlasts the others.
LEMMA OthersStay ==
    ASSUME NEW t \in Templates, BlanksEmpty(t), OneLine(t), OnePlace(t), NEW gone,
           NEW dropped \in SUBSET Zones, GoneBy(t, gone, dropped),
           NEW y \in Zones, y \notin dropped, NEW l \in HeadingOfIn(t, y)
    PROVE  l \notin gone
<1> SUFFICES ASSUME l \in gone PROVE FALSE
  OBVIOUS
<1>1. PICK z \in dropped : \/ l \in HeadingOfIn(t, z)
                           \/ t[l].blank
  BY DEF GoneBy
<1>2. z \in Zones /\ z # y
  OBVIOUS
<1>3. l \notin HeadingOfIn(t, z)
  BY <1>2, HeadingsApart
<1>4. PICK p \in HoldingIn(t, y) : TRUE
  BY DEF HeadingOfIn
<1>5. ~t[l].blank
  BY <1>4, HeadingLine
<1> QED
  BY <1>1, <1>3, <1>5

LEMMA DropAdds ==
    ASSUME NEW t \in Templates, BlanksEmpty(t), OneLine(t), OnePlace(t), NEW gone,
           NEW dropped \in SUBSET Zones, GoneBy(t, gone, dropped),
           NEW y \in Zones, y \notin dropped, HoldingIn(t, y) # {}
    PROVE  GoneBy(t, DropIn(t, gone, y), dropped \cup {y})
<1> DEFINE p       == Min(HoldingIn(t, y))
           segment == HeadingIn(t, p, gone) \cup {p}
           above   == {i \in {Min(segment) - 1} \cap DOMAIN t : t[i].blank /\ i \notin gone}
<1>1. HoldingIn(t, y) = {p} /\ p \in HoldingIn(t, y)
  <2>1. PICK q \in HoldingIn(t, y) : TRUE
    OBVIOUS
  <2>2. HoldingIn(t, y) = {q}
    BY DEF OneLine
  <2>3. q <= q
    BY DEF HoldingIn, Templates
  <2>4. p = q
    BY <2>2, <2>3 DEF Min
  <2> HIDE DEF p
  <2> QED
    BY <2>2, <2>4
<1> HIDE DEF p
<1>2. /\ p \in 1..Len(t) /\ HeadingOfIn(t, y) = HeadingIn(t, p, {}) \cup {p}
      /\ \A l \in HeadingOfIn(t, y) : \A j \in l..p : j # p => j \in HeadingOfIn(t, y)
  BY <1>1, HeadingLine
<1>3. \A l \in HeadingOfIn(t, y) : l \notin gone
  BY OthersStay
<1>4. segment = HeadingOfIn(t, y)
  <2>1. HeadingIn(t, p, gone) \subseteq HeadingIn(t, p, {})
    BY DEF HeadingIn
  <2>2. ASSUME NEW l \in HeadingIn(t, p, {}) PROVE l \in HeadingIn(t, p, gone)
    <3>1. \A j \in l..(p - 1) : j \notin gone
      <4>1. l \in HeadingOfIn(t, y) /\ p \in Nat
        BY <1>2
      <4>2. \A j \in l..(p - 1) : j \in l..p /\ j # p
        BY <4>1, <2>2 DEF HeadingIn
      <4> QED
        BY <1>2, <1>3, <4>1, <4>2
    <3> QED
      BY <2>2, <3>1 DEF HeadingIn
  <2> QED
    BY <1>2, <2>1, <2>2
<1>5. Min(segment) \in segment
  <2>1. segment \in SUBSET Nat /\ segment # {}
    BY <1>2 DEF HeadingIn
  <2> HIDE DEF segment
  <2>2. PICK m \in segment : \A n \in segment : m <= n
    BY <2>1, LeastNatural
  <2> QED
    BY <2>2 DEF Min
<1>6. ASSUME NEW l \in above
      PROVE  l \in 1..Len(t) /\ t[l].blank /\ l + 1 \in HeadingOfIn(t, y)
  <2>1. l = Min(segment) - 1 /\ l \in 1..Len(t) /\ t[l].blank
    BY <1>6 DEF Templates
  <2>2. Min(segment) \in Nat
    BY <1>2, <1>5 DEF HeadingIn
  <2>3. l + 1 = Min(segment)
    BY <2>1, <2>2
  <2> QED
    BY <1>4, <1>5, <2>1, <2>3
<1>7. DropIn(t, gone, y) = gone \cup segment \cup above
  BY DEF DropIn, p
<1> HIDE DEF segment, above
<1> QED
  BY <1>4, <1>6, <1>7 DEF GoneBy

-----------------------------------------------------------------------------
(* Injection: the budget.                                                  *)

Copies == [id : Nat, of : MemoryRecord, dropped : BOOLEAN]
Dropped(t, limit, all, z, n) ==
    \/ HoldingIn(t, z) = {}
    \/ Tokens(SubSeq(all, 1, n)) > limit
TrimmedIn(t, limit, all, z) ==
    [n \in DOMAIN all |-> [all[n] EXCEPT !.dropped = Dropped(t, limit, all, z, n)]]

\* What precedes the first dropped copy, for copies trimmed of all.
CutAt(t, limit, all, z, k) ==
    LET cut == TrimmedIn(t, limit, all, z) IN
    /\ Kept(cut) = SubSeq(cut, 1, k) /\ Len(Kept(cut)) = k
    /\ HoldingIn(t, z) = {} => k = 0
    /\ Tokens(Kept(cut)) <= limit
    /\ HoldingIn(t, z) # {} /\ k < Len(cut) => Tokens(SubSeq(cut, 1, k + 1)) > limit

LEMMA CopyTyped ==
    ASSUME NEW c \in Copies
    PROVE  /\ c.id \in Nat /\ c.of \in MemoryRecord /\ c.of.cost \in Nat
           /\ c.dropped \in BOOLEAN
  BY DEF Copies, MemoryRecord

LEMMA CopyMarked ==
    ASSUME NEW c \in Copies, NEW b \in BOOLEAN, NEW d, d = [c EXCEPT !.dropped = b]
    PROVE  d \in Copies /\ d.of = c.of /\ d.id = c.id /\ d.dropped = b
  BY DEF Copies

LEMMA TrimmedTyped ==
    ASSUME NEW t, NEW limit \in Nat, NEW z, NEW all \in Seq(Copies),
           NEW cut, cut = TrimmedIn(t, limit, all, z)
    PROVE  /\ cut \in Seq(Copies) /\ Len(cut) = Len(all)
           /\ \A n \in 1..Len(all) :
                 /\ cut[n].of = all[n].of /\ cut[n].id = all[n].id
                 /\ cut[n].dropped <=> Dropped(t, limit, all, z, n)
<1> DEFINE D(n) == Dropped(t, limit, all, z, n)
<1>1. Len(all) \in Nat /\ DOMAIN all = 1..Len(all)
  OBVIOUS
<1>2. cut = [n \in 1..Len(all) |-> [all[n] EXCEPT !.dropped = D(n)]]
  BY <1>1 DEF TrimmedIn
<1>3. \A n \in 1..Len(all) : D(n) \in BOOLEAN
  BY DEF Dropped
<1> HIDE DEF D
<1>4. ASSUME NEW n \in 1..Len(all)
      PROVE  /\ cut[n] \in Copies /\ cut[n].of = all[n].of /\ cut[n].id = all[n].id
             /\ cut[n].dropped = D(n)
  <2>1. all[n] \in Copies
    OBVIOUS
  <2>2. cut[n] = [all[n] EXCEPT !.dropped = D(n)]
    BY <1>2
  <2> QED
    BY <1>3, <2>1, <2>2, CopyMarked
<1>5. cut \in Seq(Copies) /\ Len(cut) = Len(all)
  <2>1. cut \in [1..Len(all) -> Copies]
    BY <1>2, <1>4
  <2> QED
    BY <1>1, <2>1
<1> QED
  BY <1>4, <1>5 DEF D

\* The tokens of the first copies, one after the other.
LEMMA TokensGrow ==
    ASSUME NEW all \in Seq(Copies)
    PROVE  /\ \A k \in 0..Len(all) : Tokens(SubSeq(all, 1, k)) \in Nat
           /\ Tokens(SubSeq(all, 1, 0)) = 0
           /\ \A k \in 1..Len(all) : Tokens(SubSeq(all, 1, k - 1)) <= Tokens(SubSeq(all, 1, k))
<1> DEFINE c == [n \in DOMAIN all |-> all[n].of.cost]
<1>1. Len(all) \in Nat /\ DOMAIN all = 1..Len(all)
  OBVIOUS
<1>2. c \in Seq(Nat) /\ Len(c) = Len(all) /\ \A n \in 1..Len(all) : c[n] = all[n].of.cost
  <2>1. \A n \in 1..Len(all) : all[n] \in Copies
    OBVIOUS
  <2>2. \A n \in 1..Len(all) : all[n].of.cost \in Nat
    BY <2>1, CopyTyped
  <2>3. c \in [1..Len(all) -> Nat]
    BY <1>1, <2>2
  <2> QED
    BY <1>1, <2>3
<1> HIDE DEF c
<1>3. ASSUME NEW k \in 0..Len(all) PROVE Tokens(SubSeq(all, 1, k)) = Total(SubSeq(c, 1, k))
  <2>1. /\ SubSeq(all, 1, k) \in Seq(Copies) /\ Len(SubSeq(all, 1, k)) = k
        /\ \A n \in 1..k : SubSeq(all, 1, k)[n] = all[n]
    BY PrefixIs
  <2>2. /\ SubSeq(c, 1, k) \in Seq(Nat) /\ Len(SubSeq(c, 1, k)) = k
        /\ \A n \in 1..k : SubSeq(c, 1, k)[n] = c[n]
    BY <1>2, PrefixIs
  <2> DEFINE s == SubSeq(all, 1, k)
             u == SubSeq(c, 1, k)
  <2> HIDE DEF s, u
  <2>3. s \in Seq(Copies) /\ Len(s) = k /\ DOMAIN s = 1..k
    BY <2>1 DEF s
  <2>4. u \in Seq(Nat) /\ Len(u) = k
    BY <2>2 DEF u
  <2>5. \A n \in 1..k : u[n] = s[n].of.cost
    BY <1>2, <2>1, <2>2 DEF s, u
  <2>6. u = [n \in 1..k |-> u[n]]
    BY <2>4
  <2>7. u = [n \in DOMAIN s |-> s[n].of.cost]
    BY <2>3, <2>5, <2>6
  <2> QED
    BY <2>7 DEF Tokens, s, u
<1>4. PICK f : /\ \A k \in 0..Len(c) : Total(SubSeq(c, 1, k)) = f[k] /\ f[k] \in Nat
               /\ f[0] = 0
               /\ \A k \in 1..Len(c) : f[k] = f[k - 1] + c[k] /\ f[k - 1] <= f[k]
  BY <1>2, TotalPrefix
<1>5. \A k \in 0..Len(all) : Tokens(SubSeq(all, 1, k)) = f[k] /\ f[k] \in Nat
  BY <1>2, <1>3, <1>4
<1>6. \A k \in 1..Len(all) : k \in 0..Len(all) /\ k - 1 \in 0..Len(all)
  BY <1>1
<1>7. 0 \in 0..Len(all)
  BY <1>1
<1>8. \A k \in 1..Len(all) : f[k - 1] <= f[k]
  BY <1>2, <1>4
<1> QED
  BY <1>4, <1>5, <1>6, <1>7, <1>8

\* A prefix grows with its length.
LEMMA TokensOrdered ==
    ASSUME NEW all \in Seq(Copies), NEW limit \in Nat, NEW k \in 0..Len(all),
           ~(Tokens(SubSeq(all, 1, k)) > limit)
    PROVE  \A n \in 0..k : ~(Tokens(SubSeq(all, 1, n)) > limit)
<1> DEFINE P(n) == Tokens(SubSeq(all, 1, n))
           S == {n \in 0..k : ~(P(k - n) > limit)}
<1>1. Len(all) \in Nat /\ k \in Nat /\ k <= Len(all)
  OBVIOUS
<1>2. \A n \in 0..Len(all) : P(n) \in Nat
  BY TokensGrow
<1>3. \A n \in 1..Len(all) : P(n - 1) <= P(n)
  BY TokensGrow
<1> HIDE DEF P
<1>4. 0 \in S
  <2>1. k - 0 = k /\ 0 \in 0..k
    BY <1>1
  <2> QED
    BY <2>1 DEF P
<1>5. ASSUME NEW n \in 1..k, n - 1 \in S PROVE n \in S
  <2> DEFINE m == k - (n - 1)
  <2>1. m \in 1..Len(all) /\ m \in 0..Len(all) /\ m - 1 = k - n /\ m - 1 \in 0..Len(all)
    BY <1>1
  <2>2. P(m - 1) <= P(m) /\ P(m) \in Nat /\ P(m - 1) \in Nat
    BY <1>2, <1>3, <2>1
  <2>3. ~(P(m) > limit)
    BY <1>5
  <2> HIDE DEF m
  <2>4. ~(P(m - 1) > limit)
    BY <2>2, <2>3
  <2>5. n \in 0..k
    BY <1>1
  <2> QED
    BY <2>1, <2>4, <2>5
<1>6. \A n \in 0..k : n \in S
  BY <1>1, <1>4, <1>5, UpTo
<1>7. ASSUME NEW n \in 0..k PROVE ~(P(n) > limit)
  <2>1. k - n \in 0..k /\ k - (k - n) = n
    BY <1>1
  <2> QED
    BY <1>6, <2>1
<1> QED
  BY <1>7 DEF P

LEMMA SameTokens ==
    ASSUME NEW a \in Seq(Copies), NEW b \in Seq(Copies), Len(a) = Len(b),
           \A n \in 1..Len(a) : a[n].of = b[n].of, NEW k \in 0..Len(a)
    PROVE  Tokens(SubSeq(a, 1, k)) = Tokens(SubSeq(b, 1, k))
<1>1. /\ SubSeq(a, 1, k) \in Seq(Copies) /\ Len(SubSeq(a, 1, k)) = k
      /\ \A n \in 1..k : SubSeq(a, 1, k)[n] = a[n]
  BY PrefixIs
<1>2. /\ SubSeq(b, 1, k) \in Seq(Copies) /\ Len(SubSeq(b, 1, k)) = k
      /\ \A n \in 1..k : SubSeq(b, 1, k)[n] = b[n]
  BY PrefixIs
<1> DEFINE s == SubSeq(a, 1, k)
           u == SubSeq(b, 1, k)
<1>3. \A n \in 1..k : n \in 1..Len(a)
  OBVIOUS
<1> HIDE DEF s, u
<1>4. s \in Seq(Copies) /\ Len(s) = k /\ u \in Seq(Copies) /\ Len(u) = k
  BY <1>1, <1>2 DEF s, u
<1>5. DOMAIN s = 1..k /\ DOMAIN u = 1..k
  BY <1>4
<1>6. \A n \in 1..k : s[n].of.cost = u[n].of.cost
  BY <1>1, <1>2, <1>3 DEF s, u
<1>7. [n \in DOMAIN s |-> s[n].of.cost] = [n \in DOMAIN u |-> u[n].of.cost]
  BY <1>5, <1>6
<1> QED
  BY <1>7 DEF Tokens, s, u

\* Trimming leaves exactly the longest prefix that the budget affords.
LEMMA CutExists ==
    ASSUME NEW t, NEW limit \in Nat, NEW z, NEW all \in Seq(Copies)
    PROVE  \E k \in 0..Len(all) : CutAt(t, limit, all, z, k)
<1> DEFINE cut == TrimmedIn(t, limit, all, z)
           P(n) == Tokens(SubSeq(all, 1, n))
           C(n) == Tokens(SubSeq(cut, 1, n))
           H == HoldingIn(t, z)
           X == {x \in ToSet(cut) : ~x.dropped}
<1>1. /\ cut \in Seq(Copies) /\ Len(cut) = Len(all)
      /\ \A n \in 1..Len(all) : /\ cut[n].of = all[n].of
                                /\ cut[n].dropped <=> Dropped(t, limit, all, z, n)
  <2> HIDE DEF cut
  <2>1. cut = TrimmedIn(t, limit, all, z)
    BY DEF cut
  <2> QED
    BY <2>1, TrimmedTyped
<1>2. Len(all) \in Nat
  OBVIOUS
<1>3. Kept(cut) = Those(cut, X)
  BY DEF Kept
<1>4. \A n \in 0..Len(all) : P(n) \in Nat
  BY TokensGrow
<1>5. P(0) = 0
  BY TokensGrow
<1>6. \A k \in 0..Len(all) : ~(P(k) > limit) => \A n \in 0..k : ~(P(n) > limit)
  BY TokensOrdered
<1> HIDE DEF cut
<1>7. \A n \in 0..Len(all) : C(n) = P(n)
  <2>1. \A n \in 1..Len(cut) : cut[n].of = all[n].of
    BY <1>1
  <2>2. \A n \in 0..Len(all) : n \in 0..Len(cut)
    BY <1>1
  <2> QED
    BY <1>1, <2>1, <2>2, SameTokens
<1> HIDE DEF P, C, H, X
<1>8. \A n \in 1..Len(all) : cut[n] \in X <=> ~(H = {} \/ P(n) > limit)
  <2>1. \A n \in 1..Len(cut) : cut[n] \in ToSet(cut)
    BY <1>1, ToSetIs
  <2>2. \A n \in 1..Len(all) : Dropped(t, limit, all, z, n) <=> (H = {} \/ P(n) > limit)
    BY DEF Dropped, H, P
  <2> QED
    BY <1>1, <2>1, <2>2 DEF X
<1>9. SUFFICES ASSUME NEW k \in 0..Len(all),
                      \A n \in 1..Len(all) : cut[n] \in X <=> n <= k,
                      H = {} => k = 0, P(k) <= limit,
                      H # {} /\ k < Len(all) => P(k + 1) > limit
               PROVE  \E j \in 0..Len(all) : CutAt(t, limit, all, z, j)
  <2>1. CASE H = {}
    <3>1. \A n \in 1..Len(all) : cut[n] \in X <=> n <= 0
      BY <1>2, <1>8, <2>1
    <3>2. 0 \in 0..Len(all) /\ P(0) <= limit
      BY <1>2, <1>5
    <3> QED
      BY <1>9, <2>1, <3>1, <3>2
  <2>2. CASE H # {}
    <3> DEFINE Over == {n \in 1..Len(all) : P(n) > limit}
    <3>1. CASE Over = {}
      <4>1. Len(all) \in 0..Len(all) /\ \A n \in 1..Len(all) : n <= Len(all)
        BY <1>2
      <4>2. \A n \in 1..Len(all) : cut[n] \in X
        BY <1>8, <2>2, <3>1
      <4>3. P(Len(all)) <= limit
        <5>1. CASE Len(all) = 0
          BY <5>1, <1>5
        <5>2. CASE Len(all) # 0
          BY <1>2, <1>4, <3>1, <4>1, <5>2
        <5> QED
          BY <5>1, <5>2
      <4> QED
        BY <1>2, <1>9, <2>2, <4>1, <4>2, <4>3
    <3>2. CASE Over # {}
      <4>1. PICK m \in Over : \A n \in Over : m <= n
        <5>1. Over \in SUBSET Nat
          OBVIOUS
        <5> QED
          BY <3>2, <5>1, LeastNatural
      <4> DEFINE k == m - 1
      <4>2. m \in 1..Len(all) /\ P(m) > limit /\ k \in 0..Len(all) /\ k + 1 = m
        BY <1>2
      <4>3. P(k) <= limit
        <5>1. CASE k = 0
          BY <1>5, <5>1
        <5>2. CASE k # 0
          <6>1. k \in 1..Len(all) /\ ~(m <= k)
            BY <4>2, <5>2
          <6>2. k \notin Over
            BY <4>1, <6>1
          <6> QED
            BY <1>4, <4>2, <6>1, <6>2
        <5> QED
          BY <5>1, <5>2
      <4> HIDE DEF k
      <4>4. ASSUME NEW n \in 1..Len(all) PROVE cut[n] \in X <=> n <= k
        <5>1. CASE n <= k
          <6>1. ~(m <= n)
            BY <4>2, <5>1
          <6>2. ~(P(n) > limit)
            BY <4>1, <6>1
          <6> QED
            BY <1>8, <2>2, <5>1, <6>2
        <5>2. CASE ~(n <= k)
          <6>1. n \in 0..Len(all) /\ m \in 0..n
            BY <4>2, <5>2
          <6>2. P(n) > limit
            BY <1>6, <4>2, <6>1
          <6> QED
            BY <1>8, <5>2, <6>2
        <5> QED
          BY <5>1, <5>2
      <4> QED
        BY <1>9, <2>2, <4>2, <4>3, <4>4
    <3> QED
      BY <3>1, <3>2
  <2> QED
    BY <2>1, <2>2
<1>10. k \in 0..Len(cut) /\ \A n \in 1..Len(cut) : cut[n] \in X <=> n <= k
  BY <1>1, <1>9
<1>11. Those(cut, X) = SubSeq(cut, 1, k)
  BY <1>1, <1>10, ThosePrefix
<1>12. Len(SubSeq(cut, 1, k)) = k
  BY <1>1, <1>10, PrefixIs
<1>13. C(k) <= limit /\ (H # {} /\ k < Len(cut) => C(k + 1) > limit)
  <2>1. k < Len(cut) => k + 1 \in 0..Len(all)
    BY <1>1, <1>2, <1>9
  <2> QED
    BY <1>1, <1>7, <1>9, <2>1
<1>14. CutAt(t, limit, all, z, k)
  BY <1>3, <1>9, <1>11, <1>12, <1>13 DEF CutAt, cut, C, H
<1> QED
  BY <1>9, <1>14

-----------------------------------------------------------------------------
(* Injection: what is gathered.                                            *)

Channels == {"bm25", "vector", "exact"}

LEMMA Quotients ==
    ASSUME NEW u \in Nat, NEW d \in Nat \ {0}, NEW e \in Nat, d <= e
    PROVE  u \div e \in Nat /\ u \div d \in Nat /\ u \div e <= u \div d
  OBVIOUS

LEMMA SignalTyped ==
    ASSUME NEW i, known[i] \in MemoryRecord, NEW heard \in BOOLEAN
    PROVE  /\ \A ch \in Channels : Signal(i, ch, heard) \in Nat
           /\ known[i].signal.exact \in Nat /\ known[i].signal.coverage \in Nat
           /\ Signal(i, "exact", heard) = known[i].signal.exact
           /\ \A ch \in Channels \ {"vector"} : Signal(i, ch, heard) = known[i].signal[ch]
           /\ Signal(i, "vector", heard) = IF heard THEN known[i].signal.vector ELSE 0
           /\ known[i].signal.vector \in Nat
  BY DEF Signal, MemoryRecord, Channels

\* Who scores more in a channel is ranked no worse there.
LEMMA ReciprocalOrdered ==
    ASSUME NEW docs, IsFiniteSet(docs), docs \subseteq Nat,
           \A k \in docs : known[k] \in MemoryRecord,
           NEW i \in docs, NEW j \in docs, NEW ch \in Channels, NEW heard \in BOOLEAN
    PROVE  /\ Reciprocal(ch, i, docs, heard) \in Nat /\ Reciprocal(ch, j, docs, heard) \in Nat
           /\ Signal(j, ch, heard) > Signal(i, ch, heard) \/ Signal(i, ch, heard) = 0 =>
                 Reciprocal(ch, i, docs, heard) <= Reciprocal(ch, j, docs, heard)
<1> DEFINE Sg(k) == Signal(k, ch, heard)
           Beats(k) == {l \in docs \ {k} : Sg(l) > Sg(k) \/ (Sg(l) = Sg(k) /\ l < k)}
           Rk(k) == RankIn(ch, k, docs, heard)
<1>1. \A k \in docs : Sg(k) \in Nat
  BY SignalTyped
<1>2. \A k : Rk(k) = Cardinality(Beats(k))
  BY DEF RankIn
<1>3. \A k : Reciprocal(ch, k, docs, heard) = IF Sg(k) = 0 THEN 0 ELSE Unit \div (61 + Rk(k))
  BY DEF Reciprocal
<1> HIDE DEF Sg, Rk
<1>4. \A k : Beats(k) \subseteq docs
  OBVIOUS
<1>5. \A k : IsFiniteSet(Beats(k)) /\ Rk(k) \in Nat
  <2> SUFFICES ASSUME NEW k PROVE IsFiniteSet(Beats(k)) /\ Rk(k) \in Nat
    OBVIOUS
  <2> DEFINE B == Beats(k)
  <2>1. B \subseteq docs
    BY <1>4
  <2>2. Rk(k) = Cardinality(B)
    BY <1>2
  <2> HIDE DEF B
  <2>3. IsFiniteSet(B)
    BY <2>1, FS_Subset
  <2>4. Cardinality(B) \in Nat
    BY <2>3, FS_CardinalityType
  <2> QED
    BY <2>2, <2>3, <2>4 DEF B
<1>6. Unit \in Nat
  BY DEF Unit
<1>7. ASSUME NEW k PROVE 61 + Rk(k) \in Nat \ {0}
  <2>1. Rk(k) \in Nat
    BY <1>5
  <2> QED
    BY <2>1
<1>8. \A k : Unit \div (61 + Rk(k)) \in Nat
  <2> SUFFICES ASSUME NEW k PROVE Unit \div (61 + Rk(k)) \in Nat
    OBVIOUS
  <2> DEFINE d == 61 + Rk(k)
  <2>1. d \in Nat \ {0} /\ d <= d
    BY <1>7
  <2> HIDE DEF d
  <2>2. Unit \div d \in Nat
    BY <1>6, <2>1, Quotients
  <2> QED
    BY <2>2 DEF d
<1>9. CASE Sg(i) = 0
  BY <1>3, <1>8, <1>9
<1>10. CASE Sg(i) # 0 /\ Sg(j) > Sg(i)
  <2>1. Sg(j) # 0
    BY <1>1, <1>10
  <2>2. ASSUME NEW l \in Beats(j) PROVE l \in Beats(i)
    <3>1. l \in docs /\ (Sg(l) > Sg(j) \/ Sg(l) = Sg(j))
      OBVIOUS
    <3>2. Sg(l) \in Nat /\ Sg(i) \in Nat /\ Sg(j) \in Nat
      BY <1>1, <3>1
    <3>3. Sg(l) > Sg(i) /\ l # i
      BY <1>10, <3>1, <3>2
    <3> QED
      BY <3>1, <3>3
  <2>3. Rk(j) <= Rk(i)
    <3> DEFINE A == Beats(i)
               B == Beats(j)
    <3>1. B \subseteq A /\ IsFiniteSet(A)
      BY <1>5, <2>2
    <3>2. Rk(i) = Cardinality(A) /\ Rk(j) = Cardinality(B)
      BY <1>2
    <3> HIDE DEF A, B
    <3>3. Cardinality(B) <= Cardinality(A)
      BY <3>1, FS_Subset
    <3> QED
      BY <3>2, <3>3
  <2>4. 61 + Rk(j) <= 61 + Rk(i)
    <3>1. Rk(i) \in Nat /\ Rk(j) \in Nat
      BY <1>5
    <3> QED
      BY <2>3, <3>1
  <2> DEFINE d == 61 + Rk(j)
             e == 61 + Rk(i)
  <2>5. d \in Nat \ {0} /\ e \in Nat /\ d <= e
    BY <1>7, <2>4
  <2> HIDE DEF d, e
  <2>6. Unit \div e \in Nat /\ Unit \div d \in Nat /\ Unit \div e <= Unit \div d
    BY <1>6, <2>5, Quotients
  <2>7. /\ Reciprocal(ch, i, docs, heard) = Unit \div e
        /\ Reciprocal(ch, j, docs, heard) = Unit \div d
    BY <1>3, <1>10, <2>1 DEF d, e
  <2> QED
    BY <2>6, <2>7
<1>11. Reciprocal(ch, i, docs, heard) \in Nat /\ Reciprocal(ch, j, docs, heard) \in Nat
  BY <1>3, <1>8
<1> QED
  BY <1>9, <1>10, <1>11 DEF Sg

LEMMA FusedOrdered ==
    ASSUME NEW docs, IsFiniteSet(docs), docs \subseteq Nat,
           \A k \in docs : known[k] \in MemoryRecord,
           NEW i \in docs, NEW j \in docs, NEW heard \in BOOLEAN
    PROVE  /\ Fused(i, docs, heard) \in Nat /\ Fused(j, docs, heard) \in Nat
           /\ Outdoes(known[j].signal, known[i].signal) =>
                 Fused(i, docs, heard) < Fused(j, docs, heard)
<1> DEFINE R(ch, k) == Reciprocal(ch, k, docs, heard)
           e(k) == known[k].signal.exact
           v(k) == known[k].signal.coverage
           sum(k) == R("bm25", k) + R("vector", k) + R("exact", k) + 4765320 * e(k) + 3573990 * v(k)
           mute(k) == \A ch \in Channels : Signal(k, ch, heard) = 0
<1>1. \A k : Fused(k, docs, heard) = IF mute(k) THEN 0 ELSE sum(k)
  <2>1. (Unit \div 100) * 2 = 4765320 /\ (Unit \div 200) * 3 = 3573990
    BY DEF Unit
  <2> QED
    BY <2>1 DEF Fused, Channels
<1>2. \A ch \in Channels : R(ch, i) \in Nat /\ R(ch, j) \in Nat
  BY ReciprocalOrdered
<1>3. e(i) \in Nat /\ e(j) \in Nat /\ v(i) \in Nat /\ v(j) \in Nat
  BY SignalTyped
<1>4. ASSUME Outdoes(known[j].signal, known[i].signal)
      PROVE  /\ \A ch \in Channels : R(ch, i) <= R(ch, j)
             /\ e(i) < e(j) /\ v(i) <= v(j) /\ ~mute(j)
  <2>1. /\ known[j].signal.bm25 > known[i].signal.bm25
        /\ known[j].signal.vector > known[i].signal.vector
        /\ e(j) > e(i) /\ v(j) >= v(i)
    BY <1>4 DEF Outdoes
  <2>2. ASSUME NEW ch \in Channels
        PROVE  Signal(j, ch, heard) > Signal(i, ch, heard) \/ Signal(i, ch, heard) = 0
    <3>1. CASE ch = "vector"
      BY <2>1, <3>1, SignalTyped
    <3>2. CASE ch = "bm25"
      <4>1. /\ Signal(i, "bm25", heard) = known[i].signal.bm25
            /\ Signal(j, "bm25", heard) = known[j].signal.bm25
        BY DEF Signal
      <4> QED
        BY <2>1, <3>2, <4>1
    <3>3. CASE ch = "exact"
      <4>1. Signal(i, "exact", heard) = e(i) /\ Signal(j, "exact", heard) = e(j)
        BY DEF Signal
      <4> QED
        BY <2>1, <3>3, <4>1
    <3> QED
      BY <3>1, <3>2, <3>3 DEF Channels
  <2>3. \A ch \in Channels : R(ch, i) <= R(ch, j)
    BY <2>2, ReciprocalOrdered
  <2>4. ~mute(j)
    <3>1. Signal(j, "exact", heard) = e(j) /\ "exact" \in Channels
      BY DEF Signal, Channels
    <3> QED
      BY <1>3, <2>1, <3>1
  <2> QED
    BY <1>3, <2>1, <2>3, <2>4
<1>5. /\ R("bm25", i) \in Nat /\ R("vector", i) \in Nat /\ R("exact", i) \in Nat
      /\ R("bm25", j) \in Nat /\ R("vector", j) \in Nat /\ R("exact", j) \in Nat
  BY <1>2 DEF Channels
<1>6. Outdoes(known[j].signal, known[i].signal) =>
         R("bm25", i) <= R("bm25", j) /\ R("vector", i) <= R("vector", j)
         /\ R("exact", i) <= R("exact", j)
  BY <1>4 DEF Channels
<1> HIDE DEF R, e, v, mute
<1>7. sum(i) \in Nat /\ sum(j) \in Nat
  BY <1>3, <1>5
<1>8. Outdoes(known[j].signal, known[i].signal) => sum(i) < sum(j)
  BY <1>3, <1>4, <1>5, <1>6
<1>9. Outdoes(known[j].signal, known[i].signal) => 0 < sum(j)
  BY <1>3, <1>4, <1>5
<1> HIDE DEF sum
<1> QED
  BY <1>1, <1>4, <1>7, <1>8, <1>9

\* The best come first, and none outdoes one before it.
LEMMA HitsAre ==
    ASSUME NEW docs, IsFiniteSet(docs), docs \subseteq Nat,
           \A k \in docs : known[k] \in MemoryRecord, request.limit \in Nat,
           NEW heard \in BOOLEAN
    PROVE  /\ Hits(docs, heard) \in Seq(docs)
           /\ \A m, n \in 1..Len(Hits(docs, heard)) : m < n =>
                 ~Outdoes(known[Hits(docs, heard)[n]].signal, known[Hits(docs, heard)[m]].signal)
<1> DEFINE score   == [i \in docs |-> Fused(i, docs, heard)]
           scoring == {i \in docs : score[i] > 0}
           ahead   == {pair \in scoring \X scoring :
                         \/ score[pair[1]] > score[pair[2]]
                         \/ score[pair[1]] = score[pair[2]] /\ pair[1] < pair[2]}
           ranking == Sorted(scoring, ahead)
           hits    == Hits(docs, heard)
<1>1. hits = IF Len(ranking) <= request.limit THEN ranking ELSE SubSeq(ranking, 1, request.limit)
  BY DEF Hits
<1>2. ASSUME NEW i \in docs, NEW j \in docs
      PROVE  /\ score[i] \in Nat
             /\ Outdoes(known[j].signal, known[i].signal) => score[i] < score[j]
  <2>1. score[i] = Fused(i, docs, heard) /\ score[j] = Fused(j, docs, heard)
    OBVIOUS
  <2> QED
    BY <2>1, FusedOrdered
<1> HIDE DEF score, hits
<1>3. IsFiniteSet(scoring) /\ scoring \subseteq docs
  <2>1. scoring \subseteq docs
    OBVIOUS
  <2> QED
    BY <2>1, FS_Subset
<1>4. \A a, b : <<a, b>> \in ahead <=>
         /\ a \in scoring /\ b \in scoring
         /\ score[a] > score[b] \/ (score[a] = score[b] /\ a < b)
  OBVIOUS
<1> HIDE DEF scoring, ahead
<1>5. \A a \in scoring : a \in Nat /\ score[a] \in Nat
  BY <1>2, <1>3
<1>6. TotalOrder(scoring, ahead)
  <2>1. \A a, b \in scoring : a = b \/ <<a, b>> \in ahead \/ <<b, a>> \in ahead
    <3> SUFFICES ASSUME NEW a \in scoring, NEW b \in scoring
                 PROVE  a = b \/ <<a, b>> \in ahead \/ <<b, a>> \in ahead
      OBVIOUS
    <3>1. a \in Nat /\ b \in Nat /\ score[a] \in Nat /\ score[b] \in Nat
      BY <1>5
    <3>2. a = b \/ (score[a] > score[b] \/ (score[a] = score[b] /\ a < b))
                \/ (score[b] > score[a] \/ (score[b] = score[a] /\ b < a))
      BY <3>1
    <3> QED
      BY <1>4, <3>2
  <2>2. \A a, b, c \in scoring : <<a, b>> \in ahead /\ <<b, c>> \in ahead => <<a, c>> \in ahead
    <3> SUFFICES ASSUME NEW a \in scoring, NEW b \in scoring, NEW c \in scoring,
                        <<a, b>> \in ahead, <<b, c>> \in ahead
                 PROVE  <<a, c>> \in ahead
      OBVIOUS
    <3>1. /\ a \in Nat /\ b \in Nat /\ c \in Nat
          /\ score[a] \in Nat /\ score[b] \in Nat /\ score[c] \in Nat
      BY <1>5
    <3>2. /\ score[a] > score[b] \/ (score[a] = score[b] /\ a < b)
          /\ score[b] > score[c] \/ (score[b] = score[c] /\ b < c)
      BY <1>4
    <3>3. score[a] > score[c] \/ (score[a] = score[c] /\ a < c)
      BY <3>1, <3>2
    <3> QED
      BY <1>4, <3>3
  <2> QED
    BY <2>1, <2>2 DEF TotalOrder
<1>7. /\ InOrder(scoring, ahead, ranking) /\ ranking \in Seq(scoring)
      /\ Len(ranking) = Cardinality(scoring)
  BY <1>3, <1>6, SortedIs
<1> HIDE DEF ranking
<1>8. ASSUME NEW m \in 1..Len(ranking), NEW n \in 1..Len(ranking), m < n
      PROVE  ~Outdoes(known[ranking[n]].signal, known[ranking[m]].signal)
  <2>1. DOMAIN ranking = 1..Len(ranking)
    BY <1>7
  <2>2. <<ranking[m], ranking[n]>> \in ahead
    BY <1>7, <1>8, <2>1 DEF InOrder
  <2>3. /\ ranking[m] \in docs /\ ranking[n] \in docs
        /\ score[ranking[m]] \in Nat /\ score[ranking[n]] \in Nat
    <3>1. ranking[m] \in scoring /\ ranking[n] \in scoring
      BY <1>7
    <3> QED
      BY <1>3, <1>5, <3>1
  <2>4. ~(score[ranking[m]] < score[ranking[n]])
    BY <1>4, <2>2, <2>3
  <2> QED
    BY <1>2, <2>3, <2>4
<1>9. /\ hits \in Seq(scoring) /\ Len(hits) <= Len(ranking)
      /\ \A n \in 1..Len(hits) : hits[n] = ranking[n]
  <2>1. CASE Len(ranking) <= request.limit
    <3>1. hits = ranking
      BY <1>1, <2>1
    <3> QED
      BY <1>7, <3>1
  <2>2. CASE ~(Len(ranking) <= request.limit)
    <3>1. hits = SubSeq(ranking, 1, request.limit)
      BY <1>1, <2>2
    <3>2. request.limit \in 0..Len(ranking)
      BY <1>7, <2>2
    <3>3. /\ SubSeq(ranking, 1, request.limit) \in Seq(scoring)
          /\ Len(SubSeq(ranking, 1, request.limit)) = request.limit
          /\ \A n \in 1..request.limit : SubSeq(ranking, 1, request.limit)[n] = ranking[n]
      BY <1>7, <3>2, PrefixIs
    <3> QED
      BY <3>1, <3>2, <3>3
  <2> QED
    BY <2>1, <2>2
<1>10. hits \in Seq(docs)
  <2>1. hits \in [1..Len(hits) -> scoring] /\ Len(hits) \in Nat
    BY <1>9
  <2>2. hits \in [1..Len(hits) -> docs]
    BY <1>3, <2>1
  <2> QED
    BY <2>1, <2>2
<1>11. \A m, n \in 1..Len(hits) : m < n =>
          ~Outdoes(known[hits[n]].signal, known[hits[m]].signal)
  <2> SUFFICES ASSUME NEW m \in 1..Len(hits), NEW n \in 1..Len(hits), m < n
               PROVE  ~Outdoes(known[hits[n]].signal, known[hits[m]].signal)
    OBVIOUS
  <2>1. m \in 1..Len(ranking) /\ n \in 1..Len(ranking)
    BY <1>7, <1>9
  <2> QED
    BY <1>8, <1>9, <2>1
<1> QED
  BY <1>10, <1>11 DEF hits

LEMMA IdentitiesAre ==
    ASSUME known \in Seq(MemoryRecord \cup {Purged})
    PROVE  Sorted(Identities, IdentityOrder) \in Seq(Identities)
<1>1. IsFiniteSet(Identities) /\ Identities \subseteq 1..Len(known)
  <2>1. Identities \subseteq 1..Len(known) /\ Len(known) \in Nat
    BY DEF Identities, Present
  <2>2. IsFiniteSet(1..Len(known))
    BY <2>1, FS_Interval
  <2> QED
    BY <2>1, <2>2, FS_Subset
<1>2. ASSUME NEW i \in Identities
      PROVE  i \in Nat /\ known[i].locked \in BOOLEAN /\ known[i].relevance \in Nat
  <2>1. i \in 1..Len(known) /\ known[i] \in MemoryRecord
    BY DEF Identities, Present
  <2> QED
    BY <2>1 DEF MemoryRecord
<1>3. \A i, j : <<i, j>> \in IdentityOrder <=>
         i \in Identities /\ j \in Identities /\ IdentityBefore(i, j)
  BY DEF IdentityOrder
<1>4. TotalOrder(Identities, IdentityOrder)
  <2>1. \A i, j \in Identities : i = j \/ IdentityBefore(i, j) \/ IdentityBefore(j, i)
    BY <1>2 DEF IdentityBefore
  <2>2. \A i, j, k \in Identities :
           IdentityBefore(i, j) /\ IdentityBefore(j, k) => IdentityBefore(i, k)
    <3> SUFFICES ASSUME NEW i \in Identities, NEW j \in Identities, NEW k \in Identities,
                        IdentityBefore(i, j), IdentityBefore(j, k)
                 PROVE  IdentityBefore(i, k)
      OBVIOUS
    <3>1. /\ i \in Nat /\ known[i].locked \in BOOLEAN /\ known[i].relevance \in Nat
          /\ j \in Nat /\ known[j].locked \in BOOLEAN /\ known[j].relevance \in Nat
          /\ k \in Nat /\ known[k].locked \in BOOLEAN /\ known[k].relevance \in Nat
      BY <1>2
    <3> QED
      BY <3>1 DEF IdentityBefore
  <2> HIDE DEF IdentityBefore
  <2> QED
    BY <1>3, <2>1, <2>2 DEF TotalOrder
<1> QED
  BY <1>1, <1>4, SortedIs

-----------------------------------------------------------------------------
(* Injection: what is rendered.                                            *)

InPromptIn(t, g, p, z) == IF HoldingIn(t, z) \cap p.lines = {} THEN << >> ELSE Kept(g[z])
NeatIn(t) == /\ \A l \in DOMAIN t : Cardinality(t[l].holds) <= 1
             /\ \A z \in Zones : Cardinality(HoldingIn(t, z)) <= 1

\* Gathered in order: usable records of the zone, none outdone by a later one.
Best(all, z) ==
    /\ \A n \in DOMAIN all : Usable(all[n].of) /\ all[n].of.zone = z
    /\ z # "identity" =>
           \A m, n \in DOMAIN all : m < n => ~Outdoes(all[n].of.signal, all[m].of.signal)

\* ZoneExact, of any gathered copies and prompt: what is shown, and its heading.
WithinBudget(t, limit, all, shown, z) ==
    HoldingIn(t, z) # {} /\ Len(shown) < Len(all) => Tokens(SubSeq(all, 1, Len(shown) + 1)) > limit
HeadingFollows(t, p, shown, z) ==
    p.made = "filled" => \A l \in HeadingOfIn(t, z) : l \in p.lines <=> shown # << >>
ZoneExactIn(t, limit, g, p, z) ==
    /\ Best(g[z], z)
    /\ IsPrefix(InPromptIn(t, g, p, z), g[z]) /\ Tokens(InPromptIn(t, g, p, z)) <= limit[z]
    /\ NeatIn(t) => /\ WithinBudget(t, limit[z], g[z], InPromptIn(t, g, p, z), z)
                    /\ HeadingFollows(t, p, InPromptIn(t, g, p, z), z)
MissingIn(t, p) ==
    p.made = "filled" /\ NeatIn(t) =>
        \A l \in DOMAIN t \ p.lines :
            \E z \in Zones : \/ l \in HeadingOfIn(t, z)
                             \/ t[l].blank /\ l + 1 \in HeadingOfIn(t, z)

\* Render, of any gathered copies.
AfterIn(t, cut, gone, z) ==
    IF Kept(cut[z]) = << >> /\ HoldingIn(t, z) # {} THEN DropIn(t, gone, z) ELSE gone
GoneIn(t, cut) ==
    AfterIn(t, cut, AfterIn(t, cut, AfterIn(t, cut, {}, "identity"), "context"), "project")
KeptOf(cut) == Kept(cut["identity"]) \o Kept(cut["context"]) \o Kept(cut["project"])
RenderedIn(t, cut) ==
    IF KeptOf(cut) = << >> THEN [made |-> "base", lines |-> {}]
    ELSE [made |-> "filled", lines |-> DOMAIN t \ GoneIn(t, cut)]

LEMMA NeatMeans ==
    ASSUME NEW t \in Templates, NeatIn(t) PROVE OneLine(t) /\ OnePlace(t)
<1>1. OneLine(t)
  <2> SUFFICES ASSUME NEW z \in Zones PROVE \A p, q \in HoldingIn(t, z) : p = q
    BY DEF OneLine
  <2>1. HoldingIn(t, z) \subseteq 1..Len(t) /\ Len(t) \in Nat
    BY DEF HoldingIn, Templates
  <2>2. IsFiniteSet(HoldingIn(t, z))
    <3>1. IsFiniteSet(1..Len(t))
      BY <2>1, FS_Interval
    <3> QED
      BY <2>1, <3>1, FS_Subset
  <2>3. Cardinality(HoldingIn(t, z)) <= 1
    BY DEF NeatIn
  <2> QED
    BY <2>2, <2>3, AtMostOne
<1>2. OnePlace(t)
  <2>1. IsFiniteSet(Places)
    <3>1. IsFiniteSet({"base"}) /\ IsFiniteSet({"project"} \cup {"base"})
      BY FS_Singleton, FS_AddElement
    <3>2. IsFiniteSet(({"project"} \cup {"base"}) \cup {"context"})
      BY <3>1, FS_AddElement
    <3>3. IsFiniteSet((({"project"} \cup {"base"}) \cup {"context"}) \cup {"identity"})
      BY <3>2, FS_AddElement
    <3>4. Places = (({"project"} \cup {"base"}) \cup {"context"}) \cup {"identity"}
      BY DEF Places, Zones
    <3> QED
      BY <3>3, <3>4
  <2> SUFFICES ASSUME NEW l \in DOMAIN t PROVE \A a, b \in t[l].holds : a = b
    BY DEF OnePlace
  <2>2. t[l].holds \subseteq Places
    <3> DEFINE Line == [blank : BOOLEAN, holds : SUBSET Places]
    <3>1. t \in Seq(Line)
      BY DEF Templates
    <3>2. t[l] \in Line => t[l].holds \in SUBSET Places
      OBVIOUS
    <3> HIDE DEF Line
    <3>3. t[l] \in Line
      BY <3>1
    <3> QED
      BY <3>2, <3>3
  <2>3. IsFiniteSet(t[l].holds)
    BY <2>1, <2>2, FS_Subset
  <2>4. Cardinality(t[l].holds) <= 1
    BY DEF NeatIn
  <2> QED
    BY <2>3, <2>4, AtMostOne
<1> QED
  BY <1>1, <1>2

\* The zones that lose their segment.
Lost(t, cut, S) == {z \in S : Kept(cut[z]) = << >> /\ HoldingIn(t, z) # {}}

LEMMA AfterAdds ==
    ASSUME NEW t \in Templates, BlanksEmpty(t), OneLine(t), OnePlace(t), NEW cut, NEW gone,
           NEW S \in SUBSET Zones, GoneBy(t, gone, Lost(t, cut, S)),
           NEW y \in Zones, y \notin S
    PROVE  GoneBy(t, AfterIn(t, cut, gone, y), Lost(t, cut, S \cup {y}))
<1>1. Lost(t, cut, S) \in SUBSET Zones /\ y \notin Lost(t, cut, S)
  BY DEF Lost
<1>2. CASE Kept(cut[y]) = << >> /\ HoldingIn(t, y) # {}
  <2>1. AfterIn(t, cut, gone, y) = DropIn(t, gone, y)
    BY <1>2 DEF AfterIn
  <2>2. Lost(t, cut, S \cup {y}) = Lost(t, cut, S) \cup {y}
    BY <1>2 DEF Lost
  <2> DEFINE L == Lost(t, cut, S)
  <2>3. L \in SUBSET Zones /\ y \notin L
    BY <1>1
  <2>4. GoneBy(t, gone, L) /\ HoldingIn(t, y) # {}
    BY <1>2
  <2> HIDE DEF L
  <2>5. GoneBy(t, DropIn(t, gone, y), L \cup {y})
    BY <2>3, <2>4, DropAdds
  <2> QED
    BY <2>1, <2>2, <2>5 DEF L
<1>3. CASE ~(Kept(cut[y]) = << >> /\ HoldingIn(t, y) # {})
  <2>1. AfterIn(t, cut, gone, y) = gone
    BY <1>3 DEF AfterIn
  <2>2. Lost(t, cut, S \cup {y}) = Lost(t, cut, S)
    BY <1>3 DEF Lost
  <2> QED
    BY <2>1, <2>2
<1> QED
  BY <1>2, <1>3

LEMMA GoneIs ==
    ASSUME NEW t \in Templates, BlanksEmpty(t), OneLine(t), OnePlace(t), NEW cut
    PROVE  GoneBy(t, GoneIn(t, cut), Lost(t, cut, Zones))
<1> DEFINE a == AfterIn(t, cut, {}, "identity")
           b == AfterIn(t, cut, a, "context")
           c == AfterIn(t, cut, b, "project")
<1>1. GoneBy(t, {}, Lost(t, cut, {}))
  BY DEF GoneBy, Lost
<1>2. GoneBy(t, a, Lost(t, cut, {} \cup {"identity"}))
  <2> HIDE DEF a
  <2>1. "identity" \in Zones /\ {} \in SUBSET Zones /\ "identity" \notin {}
    BY DEF Zones
  <2>2. a = AfterIn(t, cut, {}, "identity")
    BY DEF a
  <2> QED
    BY <1>1, <2>1, <2>2, AfterAdds
<1> HIDE DEF a
<1>3. GoneBy(t, b, Lost(t, cut, ({} \cup {"identity"}) \cup {"context"}))
  <2>1. /\ "context" \in Zones /\ {} \cup {"identity"} \in SUBSET Zones
        /\ "context" \notin {} \cup {"identity"}
    BY DEF Zones
  <2> QED
    BY <1>2, <2>1, AfterAdds
<1> HIDE DEF b
<1>4. GoneBy(t, c, Lost(t, cut, (({} \cup {"identity"}) \cup {"context"}) \cup {"project"}))
  <2>1. /\ "project" \in Zones /\ ({} \cup {"identity"}) \cup {"context"} \in SUBSET Zones
        /\ "project" \notin ({} \cup {"identity"}) \cup {"context"}
    BY DEF Zones
  <2> QED
    BY <1>3, <2>1, AfterAdds
<1>5. (({} \cup {"identity"}) \cup {"context"}) \cup {"project"} = Zones
  BY DEF Zones
<1>6. GoneIn(t, cut) = c
  BY DEF GoneIn, a, b
<1> QED
  BY <1>4, <1>5, <1>6

LEMMA PrefixOf ==
    ASSUME NEW A, NEW s \in Seq(A), NEW k \in 0..Len(s), NEW u, u = SubSeq(s, 1, k)
    PROVE  IsPrefix(u, s) /\ u \in Seq(A) /\ Len(u) = k
<1>1. u \in Seq(A) /\ Len(u) = k /\ \A n \in 1..k : u[n] = s[n]
  BY PrefixIs
<1>2. Len(s) \in Nat /\ k \in Nat /\ k <= Len(s)
  OBVIOUS
<1>3. k \in 0..Len(u)
  BY <1>1, <1>2
<1>4. /\ SubSeq(u, 1, k) \in Seq(A) /\ Len(SubSeq(u, 1, k)) = k
      /\ \A n \in 1..k : SubSeq(u, 1, k)[n] = u[n]
  BY <1>1, <1>3, PrefixIs
<1>5. SubSeq(u, 1, k) = u
  <2> DEFINE w == SubSeq(u, 1, k)
  <2>1. w \in Seq(A) /\ Len(w) = k /\ \A n \in 1..k : w[n] = u[n]
    BY <1>4
  <2> HIDE DEF w
  <2>2. w = [n \in 1..k |-> w[n]] /\ u = [n \in 1..k |-> u[n]]
    BY <1>1, <2>1
  <2>3. w = u
    BY <2>1, <2>2
  <2> QED
    BY <2>3 DEF w
<1> QED
  BY <1>1, <1>2, <1>5 DEF IsPrefix

LEMMA NothingShown ==
    ASSUME NEW all \in Seq(Copies)
    PROVE  IsPrefix(<< >>, all) /\ Tokens(<< >>) = 0 /\ SubSeq(all, 1, 0) = << >>
<1>1. Len(all) \in Nat /\ 0 \in 0..Len(all)
  OBVIOUS
<1>2. SubSeq(all, 1, 0) = << >>
  <2>1. SubSeq(all, 1, 0) \in Seq(Copies) /\ Len(SubSeq(all, 1, 0)) = 0
    BY <1>1, PrefixIs
  <2> QED
    BY <2>1, EmptySeq
<1>3. IsPrefix(<< >>, all)
  BY <1>1, <1>2, PrefixOf
<1>4. Tokens(SubSeq(all, 1, 0)) = 0
  BY TokensGrow
<1> QED
  BY <1>2, <1>3, <1>4

Gathered(g) == g \in [Zones -> Seq(Copies)] /\ \A z \in Zones : Best(g[z], z)
Budgeted(b) == b \in [Zones -> Nat]
Cut(t, b, g) == [z \in Zones |-> TrimmedIn(t, b[z], g[z], z)]

LEMMA CutGathered ==
    ASSUME NEW t, NEW b, Budgeted(b), NEW g, Gathered(g), NEW cut, cut = Cut(t, b, g)
    PROVE  /\ Gathered(cut)
           /\ \A z \in Zones : /\ cut[z] = TrimmedIn(t, b[z], g[z], z) /\ cut[z] \in Seq(Copies)
                               /\ Kept(cut[z]) \in Seq(Copies)
                               /\ Len(cut[z]) = Len(g[z])
                               /\ \E k \in 0..Len(cut[z]) : CutAt(t, b[z], g[z], z, k)
<1>1. ASSUME NEW z \in Zones
      PROVE  /\ cut[z] = TrimmedIn(t, b[z], g[z], z)
             /\ cut[z] \in Seq(Copies) /\ Len(cut[z]) = Len(g[z])
             /\ \A n \in 1..Len(g[z]) : cut[z][n].of = g[z][n].of
  <2>1. cut[z] = TrimmedIn(t, b[z], g[z], z)
    BY DEF Cut
  <2>2. b[z] \in Nat /\ g[z] \in Seq(Copies)
    BY DEF Budgeted, Gathered
  <2> QED
    BY <2>1, <2>2, TrimmedTyped
<1>2. ASSUME NEW z \in Zones PROVE Best(cut[z], z)
  <2> DEFINE a == g[z]
             c == cut[z]
  <2>1. /\ a \in Seq(Copies) /\ c \in Seq(Copies) /\ Len(c) = Len(a)
        /\ \A n \in 1..Len(a) : c[n].of = a[n].of
    BY <1>1 DEF Gathered
  <2>2. Best(a, z)
    BY DEF Gathered
  <2> HIDE DEF a, c
  <2>3. DOMAIN a = 1..Len(a) /\ DOMAIN c = 1..Len(a)
    BY <2>1
  <2>4. Best(c, z)
    BY <2>1, <2>2, <2>3 DEF Best
  <2> QED
    BY <2>4 DEF c
<1>3. cut \in [Zones -> Seq(Copies)]
  BY <1>1 DEF Cut
<1>4. ASSUME NEW z \in Zones
      PROVE  /\ Kept(cut[z]) \in Seq(Copies)
             /\ \E k \in 0..Len(cut[z]) : CutAt(t, b[z], g[z], z, k)
  <2>1. b[z] \in Nat /\ g[z] \in Seq(Copies)
    BY DEF Budgeted, Gathered
  <2>2. \E k \in 0..Len(g[z]) : CutAt(t, b[z], g[z], z, k)
    BY <2>1, CutExists
  <2>3. Kept(cut[z]) \in Seq(Copies)
    BY <1>1, ThoseTyped DEF Kept
  <2> QED
    BY <1>1, <2>2, <2>3
<1> QED
  BY <1>1, <1>2, <1>3, <1>4 DEF Gathered

LEMMA KeptOfEmpty ==
    ASSUME NEW cut, \A z \in Zones : Kept(cut[z]) \in Seq(Copies)
    PROVE  /\ KeptOf(cut) \in Seq(Copies)
           /\ KeptOf(cut) = << >> <=> \A z \in Zones : Kept(cut[z]) = << >>
<1> DEFINE a == Kept(cut["identity"])
           b == Kept(cut["context"])
           c == Kept(cut["project"])
<1>1. a \in Seq(Copies) /\ b \in Seq(Copies) /\ c \in Seq(Copies)
  BY DEF Zones
<1>2. (\A z \in Zones : Kept(cut[z]) = << >>) <=> a = << >> /\ b = << >> /\ c = << >>
  BY DEF Zones
<1>3. KeptOf(cut) = a \o b \o c
  BY DEF KeptOf
<1> HIDE DEF a, b, c
<1>4. a \o b \in Seq(Copies) /\ Len(a \o b) = Len(a) + Len(b)
  BY <1>1, ToSetJoined
<1>5. a \o b \o c \in Seq(Copies) /\ Len(a \o b \o c) = Len(a) + Len(b) + Len(c)
  BY <1>1, <1>4, ToSetJoined
<1>6. Len(a) \in Nat /\ Len(b) \in Nat /\ Len(c) \in Nat
  BY <1>1
<1>7. \A s \in Seq(Copies) : s = << >> <=> Len(s) = 0
  BY EmptySeq
<1> QED
  BY <1>1, <1>2, <1>3, <1>5, <1>6, <1>7

\* In a neat template a zone is in the prompt whenever one of its records is left,
\* and its heading with it.
LEMMA NeatZones ==
    ASSUME NEW t \in Templates, BlanksEmpty(t), NeatIn(t), NEW b, Budgeted(b), NEW g, Gathered(g),
           NEW cut, cut = Cut(t, b, g), NEW p, p = RenderedIn(t, cut), NEW z \in Zones
    PROVE  /\ InPromptIn(t, cut, p, z) = Kept(cut[z])
           /\ HeadingFollows(t, p, Kept(cut[z]), z)
<1> DEFINE lost == Lost(t, cut, Zones)
           gone == GoneIn(t, cut)
<1>1. OneLine(t) /\ OnePlace(t)
  BY NeatMeans
<1>2. GoneBy(t, gone, lost)
  BY <1>1, GoneIs
<1>3. lost \in SUBSET Zones /\ (z \in lost <=> Kept(cut[z]) = << >> /\ HoldingIn(t, z) # {})
  BY DEF Lost
<1>4. /\ \A y \in Zones : Kept(cut[y]) \in Seq(Copies)
      /\ cut[z] = TrimmedIn(t, b[z], g[z], z)
      /\ \E k \in 0..Len(cut[z]) : CutAt(t, b[z], g[z], z, k)
  BY CutGathered
<1>5. PICK k \in 0..Len(cut[z]) : CutAt(t, b[z], g[z], z, k)
  BY <1>4
<1>6. Kept(cut[z]) # << >> => HoldingIn(t, z) # {}
  <2> SUFFICES ASSUME HoldingIn(t, z) = {} PROVE Kept(cut[z]) = << >>
    OBVIOUS
  <2>1. Len(Kept(cut[z])) = 0
    BY <1>4, <1>5 DEF CutAt
  <2> QED
    BY <1>4, <2>1, EmptySeq
<1>7. /\ p.made = "filled" => p.lines = DOMAIN t \ gone
      /\ Kept(cut[z]) # << >> => p.made = "filled"
      /\ KeptOf(cut) = << >> <=> \A y \in Zones : Kept(cut[y]) = << >>
  <2>1. KeptOf(cut) = << >> <=> \A y \in Zones : Kept(cut[y]) = << >>
    BY <1>4, KeptOfEmpty
  <2> QED
    BY <2>1 DEF RenderedIn
<1> HIDE DEF lost, gone
<1>8. \A l \in HeadingOfIn(t, z) : l \in DOMAIN t
  <2> SUFFICES ASSUME NEW l \in HeadingOfIn(t, z) PROVE l \in DOMAIN t
    OBVIOUS
  <2>1. PICK q \in HoldingIn(t, z) : TRUE
    BY DEF HeadingOfIn
  <2>2. q \in 1..Len(t) /\ l \in 1..q
    BY <1>1, <2>1, HeadingLine
  <2> QED
    BY <2>2 DEF Templates
<1>9. Kept(cut[z]) # << >> => \A l \in HeadingOfIn(t, z) : l \in p.lines
  <2> SUFFICES ASSUME Kept(cut[z]) # << >>, NEW l \in HeadingOfIn(t, z) PROVE l \in p.lines
    OBVIOUS
  <2>1. l \notin gone
    BY <1>1, <1>2, <1>3, OthersStay
  <2> QED
    BY <1>7, <1>8, <2>1
<1>10. Kept(cut[z]) = << >> /\ p.made = "filled" => \A l \in HeadingOfIn(t, z) : l \notin p.lines
  <2> SUFFICES ASSUME Kept(cut[z]) = << >>, p.made = "filled", NEW l \in HeadingOfIn(t, z)
               PROVE  l \notin p.lines
    OBVIOUS
  <2>1. HoldingIn(t, z) # {}
    BY DEF HeadingOfIn
  <2>2. l \in gone
    BY <1>2, <1>3, <2>1 DEF GoneBy
  <2> QED
    BY <1>7, <2>2
<1>11. InPromptIn(t, cut, p, z) = Kept(cut[z])
  <2>1. CASE Kept(cut[z]) = << >>
    BY <2>1 DEF InPromptIn
  <2>2. CASE Kept(cut[z]) # << >>
    <3>1. PICK q \in HoldingIn(t, z) : TRUE
      BY <1>6, <2>2
    <3>2. q \in HeadingOfIn(t, z)
      BY <3>1 DEF HeadingOfIn
    <3>3. q \in p.lines
      BY <1>9, <2>2, <3>2
    <3> QED
      BY <3>1, <3>3 DEF InPromptIn
  <2> QED
    BY <2>1, <2>2
<1> QED
  BY <1>9, <1>10, <1>11 DEF HeadingFollows

\* A rendered prompt is exact.
LEMMA RenderExact ==
    ASSUME NEW t \in Templates, BlanksEmpty(t), NEW b, Budgeted(b), NEW g, Gathered(g),
           NEW cut, cut = Cut(t, b, g), NEW p, p = RenderedIn(t, cut)
    PROVE  (\A z \in Zones : ZoneExactIn(t, b, cut, p, z)) /\ MissingIn(t, p)
<1>1. ASSUME NEW z \in Zones PROVE ZoneExactIn(t, b, cut, p, z)
  <2> DEFINE all   == cut[z]
             shown == InPromptIn(t, cut, p, z)
             limit == b[z]
  <2>1. /\ Best(all, z) /\ all = TrimmedIn(t, limit, g[z], z) /\ all \in Seq(Copies)
        /\ Kept(all) \in Seq(Copies)
        /\ \E k \in 0..Len(all) : CutAt(t, limit, g[z], z, k)
    <3>1. Gathered(cut)
      BY CutGathered
    <3>2. Best(cut[z], z)
      BY <3>1 DEF Gathered
    <3>3. /\ cut[z] = TrimmedIn(t, b[z], g[z], z) /\ cut[z] \in Seq(Copies)
          /\ Kept(cut[z]) \in Seq(Copies)
          /\ \E k \in 0..Len(cut[z]) : CutAt(t, b[z], g[z], z, k)
      BY CutGathered
    <3> QED
      BY <3>2, <3>3
  <2>2. PICK k \in 0..Len(all) : CutAt(t, limit, g[z], z, k)
    BY <2>1
  <2>3. /\ Kept(all) = SubSeq(all, 1, k) /\ Len(Kept(all)) = k /\ Tokens(Kept(all)) <= limit
        /\ HoldingIn(t, z) # {} /\ k < Len(all) => Tokens(SubSeq(all, 1, k + 1)) > limit
    BY <2>1, <2>2 DEF CutAt
  <2>4. shown = << >> \/ shown = Kept(all)
    BY DEF InPromptIn
  <2>5. NeatIn(t) => shown = Kept(all) /\ HeadingFollows(t, p, shown, z)
    BY NeatZones
  <2>6. limit \in Nat
    BY DEF Budgeted
  <2> HIDE DEF all, shown, limit
  <2>7. IsPrefix(shown, all) /\ Tokens(shown) <= limit
    <3>1. CASE shown = << >>
      BY <2>1, <2>6, <3>1, NothingShown
    <3>2. CASE shown = Kept(all)
      BY <2>1, <2>3, <3>2, PrefixOf
    <3> QED
      BY <2>4, <3>1, <3>2
  <2>8. NeatIn(t) => WithinBudget(t, limit, all, shown, z)
    BY <2>3, <2>5 DEF WithinBudget
  <2> QED
    BY <2>1, <2>5, <2>7, <2>8 DEF ZoneExactIn, all, shown, limit
<1>2. MissingIn(t, p)
  <2> SUFFICES ASSUME p.made = "filled", NeatIn(t), NEW l \in DOMAIN t \ p.lines
               PROVE  \E z \in Zones : \/ l \in HeadingOfIn(t, z)
                                       \/ t[l].blank /\ l + 1 \in HeadingOfIn(t, z)
    BY DEF MissingIn
  <2>1. OneLine(t) /\ OnePlace(t)
    BY NeatMeans
  <2>2. GoneBy(t, GoneIn(t, cut), Lost(t, cut, Zones))
    BY <2>1, GoneIs
  <2>3. l \in GoneIn(t, cut)
    BY DEF RenderedIn
  <2>4. Lost(t, cut, Zones) \subseteq Zones
    BY DEF Lost
  <2> QED
    BY <2>2, <2>3, <2>4 DEF GoneBy
<1> QED
  BY <1>1, <1>2

-----------------------------------------------------------------------------
(* Injection: the inductive invariant.                                     *)

IdsOf(copies) == [n \in DOMAIN copies |-> copies[n].id]
ShownIn(t, g, p) ==
    IdsOf(InPromptIn(t, g, p, "identity") \o InPromptIn(t, g, p, "context")
          \o InPromptIn(t, g, p, "project"))
Batches(u, a, d, p, m) ==
    u \in Seq(Nat) /\ a \in Seq(Nat) /\ d \in Seq(Nat) /\ p \in Seq(Nat) /\ m \in Seq(Nat)
NoAccess(u, a, d, p, m) ==
    u = << >> /\ a = << >> /\ d = << >> /\ p = << >> /\ m = << >>
Balanced(u, a, d, p, m, shown) ==
    /\ Len(u) + Len(a) + Len(d) + Len(p) + Len(m) = Len(shown)
    /\ ToSet(u) \cup ToSet(a) \cup ToSet(d) \cup ToSet(p) \cup ToSet(m) = ToSet(shown)
Table(k) == k \in Seq(MemoryRecord \cup {Purged})
Exact(r, g, p) ==
    /\ \A z \in Zones : ZoneExactIn(r.template, r.budget, g, p, z)
    /\ MissingIn(r.template, p)
PromptSettled(ph, r, g, p, u, a, d, ap, m) ==
    IF ph \in {"noting", "returned"}
    THEN Exact(r, g, p) /\ (NeatIn(r.template) =>
                               Balanced(u, a, d, ap, m, ShownIn(r.template, g, p)))
    ELSE p = NoPrompt /\ NoAccess(u, a, d, ap, m)

InjectionInv ==
    /\ request \in Requests /\ Table(known) /\ Gathered(gathered)
    /\ Batches(unnoted, accesses, detached, applied, missed)
    /\ PromptSettled(phase, request, gathered, prompt, unnoted, accesses, detached, applied, missed)

LEMMA RequestTyped ==
    ASSUME NEW r \in Requests
    PROVE  r.template \in Templates /\ BlanksEmpty(r.template) /\ Budgeted(r.budget) /\ r.limit \in Nat
  BY InjectionAssumption DEF Templates, Places, BlanksEmpty, Budgeted

LEMMA IdsTyped ==
    ASSUME NEW c \in Seq(Copies), NEW ids, ids = IdsOf(c)
    PROVE  ids \in Seq(Nat) /\ Len(ids) = Len(c)
<1>1. \A n \in 1..Len(c) : c[n] \in Copies
  OBVIOUS
<1>2. \A n \in 1..Len(c) : c[n].id \in Nat
  BY <1>1, CopyTyped
<1>3. ids = [n \in 1..Len(c) |-> c[n].id] /\ Len(c) \in Nat
  BY DEF IdsOf
<1>4. ids \in [1..Len(c) -> Nat]
  BY <1>2, <1>3
<1> QED
  BY <1>3, <1>4

\* Copies of records of the table.
LEMMA CopiesAre ==
    ASSUME Table(known), NEW S, S \subseteq Present, NEW ids \in Seq(S),
           NEW c, c = CopiesOf(ids)
    PROVE  /\ c \in Seq(Copies) /\ Len(c) = Len(ids) /\ DOMAIN c = 1..Len(ids)
           /\ \A n \in 1..Len(ids) : c[n].of = known[ids[n]] /\ ids[n] \in S
<1>1. c = [n \in 1..Len(ids) |-> [id |-> ids[n], of |-> known[ids[n]], dropped |-> FALSE]]
  BY DEF CopiesOf, Copy
<1>2. ASSUME NEW n \in 1..Len(ids)
      PROVE  ids[n] \in S /\ ids[n] \in Nat /\ known[ids[n]] \in MemoryRecord
  <2>1. ids[n] \in S
    OBVIOUS
  <2>2. ids[n] \in DOMAIN known /\ known[ids[n]] # Purged
    BY <2>1 DEF Present
  <2> QED
    BY <2>1, <2>2 DEF Table
<1>3. ASSUME NEW n \in 1..Len(ids) PROVE c[n] \in Copies /\ c[n].of = known[ids[n]]
  BY <1>1, <1>2 DEF Copies
<1>4. Len(ids) \in Nat
  OBVIOUS
<1>5. c \in [1..Len(ids) -> Copies]
  BY <1>1, <1>3
<1>6. c \in Seq(Copies) /\ Len(c) = Len(ids) /\ DOMAIN c = 1..Len(ids)
  BY <1>4, <1>5
<1> QED
  BY <1>2, <1>3, <1>6

LEMMA RetrievableAre ==
    ASSUME Table(known), NEW zone
    PROVE  /\ IsFiniteSet(Retrievable(zone)) /\ Retrievable(zone) \subseteq Nat
           /\ Retrievable(zone) \subseteq Present
           /\ \A k \in Retrievable(zone) : /\ known[k] \in MemoryRecord
                                           /\ Usable(known[k]) /\ known[k].zone = zone
<1>1. Retrievable(zone) \subseteq Present
  BY DEF Retrievable
<1>2. Present \subseteq 1..Len(known) /\ Len(known) \in Nat
  BY DEF Present, Table
<1>3. IsFiniteSet(1..Len(known))
  BY <1>2, FS_Interval
<1>4. IsFiniteSet(Retrievable(zone))
  BY <1>1, <1>2, <1>3, FS_Subset
<1>5. \A k \in Present : known[k] \in MemoryRecord
  BY <1>2 DEF Present, Table
<1>6. \A k \in Retrievable(zone) : known[k].zone = zone /\ Usable(known[k])
  BY Zenon DEF Retrievable
<1>7. Retrievable(zone) \subseteq Nat
  <2>1. \A n \in 1..Len(known) : n \in Nat
    BY <1>2
  <2> QED
    BY <1>1, <1>2, <2>1
<1> QED
  BY <1>1, <1>4, <1>5, <1>6, <1>7

\* A section that is gathered leaves the other ones alone.
LEMMA GatheredOne ==
    ASSUME NEW g, Gathered(g), NEW y \in Zones, NEW c \in Seq(Copies), Best(c, y),
           NEW h, h = [g EXCEPT ![y] = c]
    PROVE  Gathered(h)
<1>1. \A z \in Zones : h[z] = IF z = y THEN c ELSE g[z]
  BY DEF Gathered
<1>2. h \in [Zones -> Seq(Copies)]
  BY DEF Gathered
<1>3. ASSUME NEW z \in Zones PROVE Best(h[z], z)
  BY <1>1 DEF Gathered
<1> QED
  BY <1>2, <1>3 DEF Gathered

LEMMA InjectionStarts ==
    ASSUME InjectionInit PROVE InjectionInv
<1>1. known \in Seq(MemoryRecord)
  BY InjectionAssumption DEF InjectionInit
<1>2. Table(known)
  <2>1. Len(known) \in Nat /\ known \in [1..Len(known) -> MemoryRecord]
    BY <1>1
  <2>2. known \in [1..Len(known) -> MemoryRecord \cup {Purged}]
    BY <2>1
  <2> QED
    BY <2>1, <2>2 DEF Table
<1>3. Gathered(gathered)
  <2>1. \A z \in Zones : Best(<< >>, z)
    BY DEF Best
  <2>2. << >> \in Seq(Copies)
    BY EmptySeq
  <2> QED
    BY <2>1, <2>2 DEF InjectionInit, Gathered
<1>4. << >> \in Seq(Nat)
  BY EmptySeq
<1> QED
  BY <1>2, <1>3, <1>4 DEF InjectionInit, InjectionInv, PromptSettled, Batches, NoAccess

LEMMA IdentityStep ==
    ASSUME InjectionInv, CollectIdentity PROVE InjectionInv'
<1> DEFINE ids == Sorted(Identities, IdentityOrder)
           c   == CopiesOf(ids)
<1>1. Table(known) /\ Gathered(gathered) /\ "identity" \in Zones
  BY DEF InjectionInv, Zones
<1>2. ids \in Seq(Identities) /\ Identities \subseteq Present
  BY <1>1, IdentitiesAre DEF Table, Identities
<1> HIDE DEF ids
<1>3. /\ c \in Seq(Copies) /\ DOMAIN c = 1..Len(ids)
      /\ \A n \in 1..Len(ids) : c[n].of = known[ids[n]] /\ ids[n] \in Identities
  BY <1>1, <1>2, CopiesAre
<1> HIDE DEF c
<1>4. Best(c, "identity")
  BY <1>3 DEF Best, Identities
<1>5. gathered' = [gathered EXCEPT !["identity"] = c]
  BY DEF CollectIdentity, c, ids
<1>6. Gathered(gathered')
  BY <1>1, <1>3, <1>4, <1>5, GatheredOne
<1>7. /\ phase = "identity" /\ phase' = "context" /\ prompt' = prompt /\ known' = known
      /\ request' = request /\ unnoted' = unnoted /\ accesses' = accesses
      /\ detached' = detached /\ applied' = applied /\ missed' = missed
  BY DEF CollectIdentity, accessVars
<1> QED
  BY <1>6, <1>7 DEF InjectionInv, PromptSettled

LEMMA RetrieveStep ==
    ASSUME InjectionInv, NEW zone \in {"context", "project"}, NEW next \in {"project", "render"},
           Retrieve(zone, next)
    PROVE  InjectionInv'
<1>1. PICK heard \in BOOLEAN :
         gathered' = [gathered EXCEPT ![zone] = CopiesOf(Hits(Retrievable(zone), heard))]
  BY DEF Retrieve
<1> DEFINE docs == Retrievable(zone)
           ids  == Hits(docs, heard)
           c    == CopiesOf(ids)
<1>2. Table(known) /\ Gathered(gathered) /\ zone \in Zones /\ request.limit \in Nat
  BY RequestTyped DEF InjectionInv, Zones
<1>3. /\ IsFiniteSet(docs) /\ docs \subseteq Nat /\ docs \subseteq Present
      /\ \A k \in docs : known[k] \in MemoryRecord /\ Usable(known[k]) /\ known[k].zone = zone
  BY <1>2, RetrievableAre
<1> HIDE DEF docs
<1>4. /\ ids \in Seq(docs)
      /\ \A m, n \in 1..Len(ids) : m < n =>
            ~Outdoes(known[ids[n]].signal, known[ids[m]].signal)
  BY <1>2, <1>3, HitsAre
<1> HIDE DEF ids
<1>5. /\ c \in Seq(Copies) /\ DOMAIN c = 1..Len(ids)
      /\ \A n \in 1..Len(ids) : c[n].of = known[ids[n]] /\ ids[n] \in docs
  BY <1>2, <1>3, <1>4, CopiesAre
<1> HIDE DEF c
<1>6. Best(c, zone)
  BY <1>3, <1>4, <1>5 DEF Best
<1>7. gathered' = [gathered EXCEPT ![zone] = c]
  BY <1>1 DEF c, ids, docs
<1>8. Gathered(gathered')
  BY <1>2, <1>5, <1>6, <1>7, GatheredOne
<1>9. /\ phase = zone /\ phase' = next /\ prompt' = prompt /\ known' = known
      /\ request' = request /\ unnoted' = unnoted /\ accesses' = accesses
      /\ detached' = detached /\ applied' = applied /\ missed' = missed
  BY DEF Retrieve, accessVars
<1>10. phase \notin {"noting", "returned"} /\ phase' \notin {"noting", "returned"}
  BY <1>9
<1> QED
  BY <1>8, <1>9, <1>10 DEF InjectionInv, PromptSettled

LEMMA RenderStep ==
    ASSUME InjectionInv, Render PROVE InjectionInv'
<1> DEFINE t   == request.template
           b   == request.budget
           cut == Cut(t, b, gathered)
           p   == RenderedIn(t, cut)
           shown == KeptOf(cut)
<1>1. /\ t \in Templates /\ BlanksEmpty(t) /\ Budgeted(b) /\ Gathered(gathered)
  BY RequestTyped DEF InjectionInv
<1>2. /\ phase = "render" /\ phase' = "noting" /\ gathered' = cut /\ prompt' = p
      /\ unnoted' = IdsOf(shown) /\ known' = known /\ request' = request
      /\ accesses' = accesses /\ detached' = detached /\ applied' = applied /\ missed' = missed
  <2>1. \A z : Trimmed(z) = TrimmedIn(t, b[z], gathered[z], z)
    BY DEF Trimmed, TrimmedIn, Dropped, Holding, HoldingIn, Template
  <2>2. cut = [z \in Zones |-> Trimmed(z)]
    BY <2>1 DEF Cut
  <2>3. \A gone, z : DropSegment(gone, z) = DropIn(t, gone, z)
    BY DEF DropSegment, DropIn, Heading, HeadingIn, Holding, HoldingIn, Template
  <2>4. \A z : Holding(z) = HoldingIn(t, z)
    BY DEF Holding, HoldingIn, Template
  <2>5. DOMAIN Template = DOMAIN t
    BY DEF Template
  <2> DEFINE made == [z \in Zones |-> Trimmed(z)]
             after(gone, z) == IF Kept(made[z]) = << >> /\ Holding(z) # {}
                               THEN DropSegment(gone, z) ELSE gone
             left == Kept(made["identity"]) \o Kept(made["context"]) \o Kept(made["project"])
  <2>6. /\ gathered' = made
        /\ prompt' = IF left = << >> THEN [made |-> "base", lines |-> {}]
                     ELSE [made  |-> "filled",
                           lines |-> DOMAIN Template \
                                after(after(after({}, "identity"), "context"), "project")]
        /\ unnoted' = [n \in DOMAIN left |-> left[n].id]
    BY DEF Render
  <2>7. made = cut
    BY <2>2
  <2>8. \A gone, z : after(gone, z) = AfterIn(t, cut, gone, z)
    BY <2>3, <2>4, <2>7 DEF AfterIn
  <2>9. left = shown
    BY <2>7 DEF KeptOf
  <2> HIDE DEF made, after, left, cut, shown, t, b
  <2>10. after(after(after({}, "identity"), "context"), "project") = GoneIn(t, cut)
    BY <2>8 DEF GoneIn
  <2>11. prompt' = p
    BY <2>5, <2>6, <2>9, <2>10 DEF RenderedIn, shown
  <2>12. unnoted' = IdsOf(shown)
    BY <2>6, <2>9 DEF IdsOf
  <2>13. /\ phase = "render" /\ phase' = "noting" /\ known' = known /\ request' = request
         /\ accesses' = accesses /\ detached' = detached /\ applied' = applied /\ missed' = missed
    BY DEF Render
  <2> QED
    BY <2>6, <2>7, <2>11, <2>12, <2>13
<1> HIDE DEF p, shown
<1>3. Gathered(cut) /\ \A z \in Zones : Kept(cut[z]) \in Seq(Copies)
  BY <1>1, CutGathered
<1>4. shown \in Seq(Copies)
  BY <1>3, KeptOfEmpty DEF shown
<1>5. Exact(request, cut, p)
  <2>1. (\A z \in Zones : ZoneExactIn(t, b, cut, p, z)) /\ MissingIn(t, p)
    BY <1>1, RenderExact DEF p
  <2> QED
    BY <2>1 DEF Exact
<1>6. NeatIn(t) => ShownIn(t, cut, p) = IdsOf(shown)
  <2> SUFFICES ASSUME NeatIn(t) PROVE ShownIn(t, cut, p) = IdsOf(shown)
    OBVIOUS
  <2>1. \A z \in Zones : InPromptIn(t, cut, p, z) = Kept(cut[z])
    BY <1>1, NeatZones DEF p
  <2> HIDE DEF cut, t
  <2>2. /\ InPromptIn(t, cut, p, "identity") = Kept(cut["identity"])
        /\ InPromptIn(t, cut, p, "context") = Kept(cut["context"])
        /\ InPromptIn(t, cut, p, "project") = Kept(cut["project"])
    BY <2>1 DEF Zones
  <2> QED
    BY <2>2 DEF ShownIn, shown, KeptOf
<1>7. accesses = << >> /\ detached = << >> /\ applied = << >> /\ missed = << >>
  BY <1>2 DEF InjectionInv, PromptSettled, NoAccess
<1> DEFINE ids == IdsOf(shown)
<1>8. ids \in Seq(Nat) /\ Len(ids) \in Nat
  BY <1>4, IdsTyped
<1> HIDE DEF cut, ids
<1>9. Balanced(ids, << >>, << >>, << >>, << >>, ids)
  <2>1. ToSet(<< >>) = {} /\ Len(<< >>) = 0
    BY DEF ToSet
  <2> QED
    BY <1>8, <2>1 DEF Balanced
<1>10. Batches(ids, << >>, << >>, << >>, << >>)
  BY <1>8, EmptySeq DEF Batches
<1>11. PromptSettled("noting", request, cut, p, ids, << >>, << >>, << >>, << >>)
  BY <1>5, <1>6, <1>9 DEF PromptSettled, ids
<1>12. unnoted' = ids /\ accesses' = << >> /\ detached' = << >> /\ applied' = << >> /\ missed' = << >>
  BY <1>2, <1>7 DEF ids
<1> QED
  BY <1>2, <1>3, <1>10, <1>11, <1>12 DEF InjectionInv

LEMMA FailStep ==
    ASSUME InjectionInv, Fail PROVE InjectionInv'
<1>1. /\ phase \notin {"noting", "returned"} /\ phase' \notin {"noting", "returned"}
      /\ gathered' = gathered /\ prompt' = prompt /\ known' = known
      /\ request' = request /\ unnoted' = unnoted /\ accesses' = accesses
      /\ detached' = detached /\ applied' = applied /\ missed' = missed
  BY DEF Fail, accessVars
<1> QED
  BY <1>1 DEF InjectionInv, PromptSettled

\* An access only moves on.
LEMMA BalanceMoves ==
    ASSUME NEW u, NEW a, NEW d, NEW p, NEW m, Batches(u, a, d, p, m),
           NEW v, NEW b, NEW e, NEW q, NEW n, Batches(v, b, e, q, n),
           Len(v) + Len(b) + Len(e) + Len(q) + Len(n) = Len(u) + Len(a) + Len(d) + Len(p) + Len(m),
           ToSet(v) \cup ToSet(b) \cup ToSet(e) \cup ToSet(q) \cup ToSet(n)
              = ToSet(u) \cup ToSet(a) \cup ToSet(d) \cup ToSet(p) \cup ToSet(m),
           NEW g, NEW pr, NEW r,
           PromptSettled("noting", r, g, pr, u, a, d, p, m)
    PROVE  \A ph \in {"noting", "returned"} : PromptSettled(ph, r, g, pr, v, b, e, q, n)
  BY DEF PromptSettled, Balanced

LEMMA HeadTail ==
    ASSUME NEW u \in Seq(Nat), u # << >>, NEW a \in Seq(Nat)
    PROVE  /\ Append(a, Head(u)) \in Seq(Nat) /\ Tail(u) \in Seq(Nat)
           /\ Len(Tail(u)) + 1 = Len(u) /\ Len(Append(a, Head(u))) = Len(a) + 1
           /\ ToSet(u) = {Head(u)} \cup ToSet(Tail(u))
           /\ ToSet(Append(a, Head(u))) = ToSet(a) \cup {Head(u)}
<1>1. /\ Head(u) \in Nat /\ Tail(u) \in Seq(Nat) /\ Len(u) \in Nat /\ Len(u) > 0
      /\ Len(Tail(u)) = Len(u) - 1 /\ u[1] = Head(u)
      /\ \A n \in 1..(Len(u) - 1) : Tail(u)[n] = u[n + 1]
  OBVIOUS
<1>2. Len(Append(a, Head(u))) = Len(a) + 1 /\ Append(a, Head(u)) \in Seq(Nat)
  BY <1>1
<1>3. ToSet(Append(a, Head(u))) = ToSet(a) \cup {Head(u)}
  BY <1>1, ToSetAppended
<1>4. \A e : e \in ToSet(u) <=> \E n \in 1..Len(u) : u[n] = e
  BY ToSetIs
<1>5. \A e : e \in ToSet(Tail(u)) <=> \E n \in 1..Len(Tail(u)) : Tail(u)[n] = e
  BY <1>1, ToSetIs
<1>6. ASSUME NEW e PROVE e \in ToSet(u) <=> e = Head(u) \/ e \in ToSet(Tail(u))
  <2>1. ASSUME e \in ToSet(u) PROVE e = Head(u) \/ e \in ToSet(Tail(u))
    <3>1. PICK n \in 1..Len(u) : u[n] = e
      BY <1>4, <2>1
    <3>2. CASE n = 1
      BY <1>1, <3>1, <3>2
    <3>3. CASE n # 1
      <4>1. n - 1 \in 1..(Len(u) - 1) /\ (n - 1) + 1 = n
        BY <1>1, <3>3
      <4>2. Tail(u)[n - 1] = e
        BY <1>1, <3>1, <4>1
      <4> QED
        BY <1>1, <1>5, <4>1, <4>2
    <3> QED
      BY <3>2, <3>3
  <2>2. ASSUME e \in ToSet(Tail(u)) PROVE e \in ToSet(u)
    <3>1. PICK n \in 1..Len(Tail(u)) : Tail(u)[n] = e
      BY <1>5, <2>2
    <3>2. n + 1 \in 1..Len(u) /\ n \in 1..(Len(u) - 1)
      BY <1>1
    <3>3. u[n + 1] = e
      BY <1>1, <3>1, <3>2
    <3> QED
      BY <1>4, <3>2, <3>3
  <2>3. e = Head(u) => e \in ToSet(u)
    <3>1. 1 \in 1..Len(u)
      BY <1>1
    <3> QED
      BY <1>1, <1>4, <3>1
  <2> QED
    BY <2>1, <2>2, <2>3
<1> QED
  BY <1>1, <1>2, <1>3, <1>6

LEMMA NoteStep ==
    ASSUME InjectionInv, Note PROVE InjectionInv'
<1>1. Batches(unnoted, accesses, detached, applied, missed)
  BY DEF InjectionInv
<1>2. /\ phase = "noting" /\ unnoted # << >> /\ phase' = phase /\ unnoted' = Tail(unnoted)
      /\ known' = known /\ request' = request /\ gathered' = gathered /\ prompt' = prompt
      /\ detached' = detached /\ applied' = applied
      /\ \/ accesses' = Append(accesses, Head(unnoted)) /\ missed' = missed
         \/ missed' = Append(missed, Head(unnoted)) /\ accesses' = accesses
  BY DEF Note
<1>3. /\ Batches(unnoted', accesses', detached', applied', missed')
      /\ Len(unnoted') + Len(accesses') + Len(detached') + Len(applied') + Len(missed')
            = Len(unnoted) + Len(accesses) + Len(detached) + Len(applied) + Len(missed)
      /\ ToSet(unnoted') \cup ToSet(accesses') \cup ToSet(detached') \cup ToSet(applied') \cup ToSet(missed')
            = ToSet(unnoted) \cup ToSet(accesses) \cup ToSet(detached) \cup ToSet(applied) \cup ToSet(missed)
  <2>1. /\ unnoted \in Seq(Nat) /\ accesses \in Seq(Nat) /\ detached \in Seq(Nat)
        /\ applied \in Seq(Nat) /\ missed \in Seq(Nat)
    BY <1>1 DEF Batches
  <2>2. /\ Len(unnoted) \in Nat /\ Len(accesses) \in Nat /\ Len(detached) \in Nat
        /\ Len(applied) \in Nat /\ Len(missed) \in Nat /\ Len(Tail(unnoted)) \in Nat
    BY <1>2, <2>1
  <2>3. /\ Tail(unnoted) \in Seq(Nat) /\ Len(Tail(unnoted)) + 1 = Len(unnoted)
        /\ ToSet(unnoted) = {Head(unnoted)} \cup ToSet(Tail(unnoted))
    BY <1>2, <2>1, HeadTail
  <2>4. CASE accesses' = Append(accesses, Head(unnoted)) /\ missed' = missed
    <3>1. /\ accesses' \in Seq(Nat) /\ Len(accesses') = Len(accesses) + 1
          /\ ToSet(accesses') = ToSet(accesses) \cup {Head(unnoted)}
      BY <1>2, <2>1, <2>4, HeadTail
    <3>2. Batches(unnoted', accesses', detached', applied', missed')
      BY <1>2, <2>1, <2>3, <2>4, <3>1 DEF Batches
    <3> QED
      BY <1>2, <2>2, <2>3, <2>4, <3>1, <3>2
  <2>5. CASE missed' = Append(missed, Head(unnoted)) /\ accesses' = accesses
    <3>1. /\ missed' \in Seq(Nat) /\ Len(missed') = Len(missed) + 1
          /\ ToSet(missed') = ToSet(missed) \cup {Head(unnoted)}
      BY <1>2, <2>1, <2>5, HeadTail
    <3>2. Batches(unnoted', accesses', detached', applied', missed')
      BY <1>2, <2>1, <2>3, <2>5, <3>1 DEF Batches
    <3> QED
      BY <1>2, <2>2, <2>3, <2>5, <3>1, <3>2
  <2> QED
    BY <1>2, <2>4, <2>5
<1>4. PromptSettled("noting", request, gathered, prompt, unnoted, accesses, detached, applied, missed)
  BY <1>2 DEF InjectionInv
<1>5. PromptSettled("noting", request, gathered, prompt, unnoted', accesses', detached', applied', missed')
  BY <1>1, <1>3, <1>4, BalanceMoves
<1> QED
  BY <1>2, <1>3, <1>5 DEF InjectionInv

LEMMA ReturnsStep ==
    ASSUME InjectionInv, Returns PROVE InjectionInv'
<1>1. /\ phase = "noting" /\ phase' = "returned"
      /\ gathered' = gathered /\ prompt' = prompt /\ known' = known
      /\ request' = request /\ unnoted' = unnoted /\ accesses' = accesses
      /\ detached' = detached /\ applied' = applied /\ missed' = missed
  BY DEF Returns, accessVars
<1> QED
  BY <1>1 DEF InjectionInv, PromptSettled

\* Whoever has accesses to note or apply has a prompt.
LEMMA PromptBefore ==
    ASSUME InjectionInv, accesses # << >> \/ detached # << >>
    PROVE  /\ phase \in {"noting", "returned"}
           /\ PromptSettled("noting", request, gathered, prompt, unnoted, accesses, detached, applied, missed)
  BY DEF InjectionInv, PromptSettled, NoAccess

LEMMA FlushTakesStep ==
    ASSUME InjectionInv, FlushTakes PROVE InjectionInv'
<1>1. Batches(unnoted, accesses, detached, applied, missed)
  BY DEF InjectionInv
<1>2. /\ accesses # << >> /\ detached = << >> /\ detached' = accesses /\ accesses' = << >>
      /\ known' = known /\ request' = request /\ phase' = phase /\ gathered' = gathered
      /\ prompt' = prompt /\ unnoted' = unnoted /\ applied' = applied /\ missed' = missed
  BY DEF FlushTakes
<1>3. /\ Batches(unnoted', accesses', detached', applied', missed')
      /\ Len(unnoted') + Len(accesses') + Len(detached') + Len(applied') + Len(missed')
            = Len(unnoted) + Len(accesses) + Len(detached) + Len(applied) + Len(missed)
      /\ ToSet(unnoted') \cup ToSet(accesses') \cup ToSet(detached') \cup ToSet(applied') \cup ToSet(missed')
            = ToSet(unnoted) \cup ToSet(accesses) \cup ToSet(detached) \cup ToSet(applied) \cup ToSet(missed)
  <2>1. /\ Len(unnoted) \in Nat /\ Len(accesses) \in Nat /\ Len(applied) \in Nat /\ Len(missed) \in Nat
        /\ Len(<< >>) = 0
    BY <1>1 DEF Batches
  <2>2. Batches(unnoted', accesses', detached', applied', missed')
    BY <1>1, <1>2, EmptySeq DEF Batches
  <2>3. Len(unnoted') + Len(accesses') + Len(detached') + Len(applied') + Len(missed')
            = Len(unnoted) + Len(accesses) + Len(detached) + Len(applied) + Len(missed)
    BY <1>2, <2>1
  <2>4. ToSet(unnoted') \cup ToSet(accesses') \cup ToSet(detached') \cup ToSet(applied') \cup ToSet(missed')
            = ToSet(unnoted) \cup ToSet(accesses) \cup ToSet(detached) \cup ToSet(applied) \cup ToSet(missed)
    BY <1>2
  <2> QED
    BY <2>2, <2>3, <2>4
<1>4. /\ phase \in {"noting", "returned"}
      /\ PromptSettled("noting", request, gathered, prompt, unnoted, accesses, detached, applied, missed)
  BY <1>2, PromptBefore
<1>5. PromptSettled(phase, request, gathered, prompt, unnoted', accesses', detached', applied', missed')
  BY <1>1, <1>3, <1>4, BalanceMoves
<1> QED
  BY <1>2, <1>3, <1>5 DEF InjectionInv

LEMMA FlushEndsStep ==
    ASSUME InjectionInv, FlushEnds PROVE InjectionInv'
<1> DEFINE here == Those(detached, Present)
           away == Those(detached, ToSet(detached) \ Present)
<1>1. Batches(unnoted, accesses, detached, applied, missed)
  BY DEF InjectionInv
<1>2. /\ detached # << >> /\ detached' = << >> /\ accesses' = accesses
      /\ known' = known /\ request' = request /\ phase' = phase /\ gathered' = gathered
      /\ prompt' = prompt /\ unnoted' = unnoted
      /\ \/ applied' = applied \o here /\ missed' = missed \o away
         \/ missed' = missed \o detached /\ applied' = applied
  BY DEF FlushEnds
<1>3. /\ unnoted \in Seq(Nat) /\ accesses \in Seq(Nat) /\ detached \in Seq(Nat)
      /\ applied \in Seq(Nat) /\ missed \in Seq(Nat)
  BY <1>1 DEF Batches
<1>4. /\ here \in Seq(Nat) /\ away \in Seq(Nat)
      /\ ToSet(here) \cup ToSet(away) = ToSet(detached)
      /\ Len(here) + Len(away) = Len(detached)
  <2>1. here \in Seq(Nat) /\ ToSet(here) = ToSet(detached) \cap Present
    BY <1>3, ThoseTyped
  <2>2. away \in Seq(Nat) /\ ToSet(away) = ToSet(detached) \cap (ToSet(detached) \ Present)
    BY <1>3, ThoseTyped
  <2> DEFINE T == ToSet(detached) \ Present
  <2>3. \A n \in 1..Len(detached) : detached[n] \in ToSet(detached)
    BY <1>3, ToSetIs
  <2>4. \A n \in 1..Len(detached) : detached[n] \in T <=> detached[n] \notin Present
    BY <2>3
  <2> HIDE DEF T
  <2>5. Len(Those(detached, Present)) + Len(Those(detached, T)) = Len(detached)
    BY <1>3, <2>4, ThoseSplit
  <2> QED
    BY <2>1, <2>2, <2>5 DEF T
<1> HIDE DEF here, away
<1>5. /\ Batches(unnoted', accesses', detached', applied', missed')
      /\ Len(unnoted') + Len(accesses') + Len(detached') + Len(applied') + Len(missed')
            = Len(unnoted) + Len(accesses) + Len(detached) + Len(applied) + Len(missed)
      /\ ToSet(unnoted') \cup ToSet(accesses') \cup ToSet(detached') \cup ToSet(applied') \cup ToSet(missed')
            = ToSet(unnoted) \cup ToSet(accesses) \cup ToSet(detached) \cup ToSet(applied) \cup ToSet(missed)
  <2>1. /\ Len(unnoted) \in Nat /\ Len(accesses) \in Nat /\ Len(applied) \in Nat /\ Len(missed) \in Nat
        /\ Len(detached) \in Nat /\ Len(here) \in Nat /\ Len(away) \in Nat
        /\ Len(<< >>) = 0 /\ ToSet(<< >>) = {} /\ << >> \in Seq(Nat)
    <3>1. ToSet(<< >>) = {}
      BY DEF ToSet
    <3>2. << >> \in Seq(Nat) /\ Len(<< >>) = 0
      BY EmptySeq
    <3>3. /\ Len(unnoted) \in Nat /\ Len(accesses) \in Nat /\ Len(applied) \in Nat
          /\ Len(missed) \in Nat /\ Len(detached) \in Nat
      BY <1>3
    <3>4. Len(here) \in Nat /\ Len(away) \in Nat
      BY <1>4
    <3> QED
      BY <3>1, <3>2, <3>3, <3>4
  <2>2. CASE applied' = applied \o here /\ missed' = missed \o away
    <3>1. /\ applied' \in Seq(Nat) /\ Len(applied') = Len(applied) + Len(here)
          /\ ToSet(applied') = ToSet(applied) \cup ToSet(here)
      BY <1>3, <1>4, <2>2, ToSetJoined
    <3>2. /\ missed' \in Seq(Nat) /\ Len(missed') = Len(missed) + Len(away)
          /\ ToSet(missed') = ToSet(missed) \cup ToSet(away)
      BY <1>3, <1>4, <2>2, ToSetJoined
    <3>3. Batches(unnoted', accesses', detached', applied', missed')
      BY <1>2, <1>3, <2>1, <3>1, <3>2 DEF Batches
    <3>4. Len(unnoted') + Len(accesses') + Len(detached') + Len(applied') + Len(missed')
            = Len(unnoted) + Len(accesses) + Len(detached) + Len(applied) + Len(missed)
      <4>1. /\ Len(unnoted') = Len(unnoted) /\ Len(accesses') = Len(accesses) /\ Len(detached') = 0
            /\ Len(applied') = Len(applied) + Len(here) /\ Len(missed') = Len(missed) + Len(away)
        BY <1>2, <2>1, <3>1, <3>2
      <4>2. Len(unnoted) + Len(accesses) + 0 + (Len(applied) + Len(here)) + (Len(missed) + Len(away))
            = Len(unnoted) + Len(accesses) + Len(detached) + Len(applied) + Len(missed)
        <5> DEFINE u == Len(unnoted)
                   a == Len(accesses)
                   q == Len(applied)
                   m == Len(missed)
                   h == Len(here)
                   w == Len(away)
                   d == Len(detached)
        <5>1. /\ u \in Nat /\ a \in Nat /\ q \in Nat /\ m \in Nat /\ h \in Nat /\ w \in Nat
              /\ d \in Nat /\ h + w = d
          BY <1>4, <2>1
        <5> HIDE DEF u, a, q, m, h, w, d
        <5>2. u + a + 0 + (q + h) + (m + w) = u + a + d + q + m
          BY <5>1
        <5> QED
          BY <5>2 DEF u, a, q, m, h, w, d
      <4> QED
        BY <4>1, <4>2
    <3>5. ToSet(unnoted') \cup ToSet(accesses') \cup ToSet(detached') \cup ToSet(applied') \cup ToSet(missed')
            = ToSet(unnoted) \cup ToSet(accesses) \cup ToSet(detached) \cup ToSet(applied) \cup ToSet(missed)
      BY <1>2, <1>4, <2>1, <3>1, <3>2
    <3> QED
      BY <3>3, <3>4, <3>5
  <2>3. CASE missed' = missed \o detached /\ applied' = applied
    <3>1. /\ missed' \in Seq(Nat) /\ Len(missed') = Len(missed) + Len(detached)
          /\ ToSet(missed') = ToSet(missed) \cup ToSet(detached)
      BY <1>3, <2>3, ToSetJoined
    <3>2. Batches(unnoted', accesses', detached', applied', missed')
      BY <1>2, <1>3, <2>1, <2>3, <3>1 DEF Batches
    <3>3. Len(unnoted') + Len(accesses') + Len(detached') + Len(applied') + Len(missed')
            = Len(unnoted) + Len(accesses) + Len(detached) + Len(applied) + Len(missed)
      BY <1>2, <2>1, <2>3, <3>1
    <3>4. ToSet(unnoted') \cup ToSet(accesses') \cup ToSet(detached') \cup ToSet(applied') \cup ToSet(missed')
            = ToSet(unnoted) \cup ToSet(accesses) \cup ToSet(detached) \cup ToSet(applied) \cup ToSet(missed)
      BY <1>2, <2>1, <2>3, <3>1
    <3> QED
      BY <3>2, <3>3, <3>4
  <2> QED
    BY <1>2, <2>2, <2>3
<1>6. /\ phase \in {"noting", "returned"}
      /\ PromptSettled("noting", request, gathered, prompt, unnoted, accesses, detached, applied, missed)
  BY <1>2, PromptBefore
<1>7. PromptSettled(phase, request, gathered, prompt, unnoted', accesses', detached', applied', missed')
  BY <1>1, <1>5, <1>6, BalanceMoves
<1> QED
  BY <1>2, <1>5, <1>7 DEF InjectionInv

LEMMA ChangedTyped ==
    ASSUME NEW q \in MemoryRecord, NEW r \in Changed(q) PROVE r \in MemoryRecord \cup {Purged}
<1> DEFINE Projects == {o.project : o \in UNION {ToSet(t) : t \in Memories}}
           Signals  == [bm25 : Nat, vector : Nat, exact : Nat, coverage : Nat]
<1> HIDE DEF Projects, Signals
<1>1. MemoryRecord =
        [zone : Zones, project : Projects, current : BOOLEAN, deprecated : BOOLEAN,
         expired : BOOLEAN, inferred : BOOLEAN, locked : BOOLEAN, relevance : Nat, cost : Nat,
         signal : Signals]
  BY DEF MemoryRecord, Projects, Signals
<1>2. \/ r = [q EXCEPT !.deprecated = ~@]
      \/ r = [q EXCEPT !.current = ~@]
      \/ r = [q EXCEPT !.expired = TRUE]
      \/ r = [q EXCEPT !.locked = ~@]
      \/ r = Purged
  BY DEF Changed
<1>3. CASE r = [q EXCEPT !.deprecated = ~@]
  BY <1>1, <1>3
<1>4. CASE r = [q EXCEPT !.current = ~@]
  BY <1>1, <1>4
<1>5. CASE r = [q EXCEPT !.expired = TRUE]
  BY <1>1, <1>5
<1>6. CASE r = [q EXCEPT !.locked = ~@]
  BY <1>1, <1>6
<1> QED
  BY <1>2, <1>3, <1>4, <1>5, <1>6

LEMMA TableStep ==
    ASSUME InjectionInv, TableChanges PROVE InjectionInv'
<1> PICK i \in Present : \E r \in Changed(known[i]) : known' = [known EXCEPT ![i] = r]
  BY DEF TableChanges
<1>1. PICK r \in Changed(known[i]) : known' = [known EXCEPT ![i] = r]
  OBVIOUS
<1>2. Table(known)
  BY DEF InjectionInv
<1>3. i \in 1..Len(known) /\ known[i] \in MemoryRecord
  BY <1>2 DEF Present, Table
<1>4. r \in MemoryRecord \cup {Purged}
  <2> DEFINE q == known[i]
  <2>1. q \in MemoryRecord /\ r \in Changed(q)
    BY <1>3
  <2> HIDE DEF q
  <2> QED
    BY <2>1, ChangedTyped
<1>5. Table(known')
  BY <1>1, <1>2, <1>3, <1>4 DEF Table
<1>6. /\ phase' = phase /\ gathered' = gathered /\ prompt' = prompt
      /\ request' = request /\ unnoted' = unnoted /\ accesses' = accesses
      /\ detached' = detached /\ applied' = applied /\ missed' = missed
  BY DEF TableChanges, accessVars
<1> QED
  BY <1>5, <1>6 DEF InjectionInv

LEMMA InjectionSteps ==
    ASSUME InjectionInv, [InjectionNext]_injectionVars PROVE InjectionInv'
<1>1. CASE CollectIdentity
  BY <1>1, IdentityStep
<1>2. CASE RetrieveContext
  BY <1>2, RetrieveStep DEF RetrieveContext
<1>3. CASE RetrieveProject
  BY <1>3, RetrieveStep DEF RetrieveProject
<1>4. CASE Render
  BY <1>4, RenderStep
<1>5. CASE Fail
  BY <1>5, FailStep
<1>6. CASE Note
  BY <1>6, NoteStep
<1>7. CASE Returns
  BY <1>7, ReturnsStep
<1>8. CASE FlushTakes
  BY <1>8, FlushTakesStep
<1>9. CASE FlushEnds
  BY <1>9, FlushEndsStep
<1>10. CASE TableChanges
  BY <1>10, TableStep
<1>11. CASE UNCHANGED injectionVars
  BY <1>11 DEF injectionVars, InjectionInv, PromptSettled
<1> QED
  BY <1>1, <1>2, <1>3, <1>4, <1>5, <1>6, <1>7, <1>8, <1>9, <1>10, <1>11 DEF InjectionNext

\* The operators of Injection are those of any template, for this request's.
LEMMA SameTemplate ==
    /\ \A z : Holding(z) = HoldingIn(request.template, z)
    /\ \A z : HeadingOf(z) = HeadingOfIn(request.template, z)
    /\ \A z : InPrompt(z) = InPromptIn(request.template, gathered, prompt, z)
    /\ Neat <=> NeatIn(request.template)
<1>1. \A z : Holding(z) = HoldingIn(request.template, z)
  BY DEF Holding, HoldingIn, Template
<1>2. \A p : Heading(p, {}) = HeadingIn(request.template, p, {})
  BY DEF Heading, HeadingIn, Template
<1> QED
  BY <1>1, <1>2 DEF HeadingOf, HeadingOfIn, InPrompt, InPromptIn, Neat, NeatIn, Template

LEMMA JoinedOne ==
    ASSUME NEW s \in Seq(Nat), NEW t \in Seq(Nat), NEW n, Len(s) = n, NEW X, ToSet(s) = X
    PROVE  /\ s \o t \in Seq(Nat) /\ Len(s \o t) = n + Len(t)
           /\ ToSet(s \o t) = X \cup ToSet(t)
  BY ToSetJoined

LEMMA JoinedFive ==
    ASSUME NEW u \in Seq(Nat), NEW a \in Seq(Nat), NEW d \in Seq(Nat), NEW p \in Seq(Nat),
           NEW m \in Seq(Nat)
    PROVE  /\ Len(u \o a \o d \o p \o m) = Len(u) + Len(a) + Len(d) + Len(p) + Len(m)
           /\ ToSet(u \o a \o d \o p \o m)
                 = ToSet(u) \cup ToSet(a) \cup ToSet(d) \cup ToSet(p) \cup ToSet(m)
<1>1. /\ u \o a \in Seq(Nat) /\ Len(u \o a) = Len(u) + Len(a)
      /\ ToSet(u \o a) = ToSet(u) \cup ToSet(a)
  BY ToSetJoined
<1>2. /\ u \o a \o d \in Seq(Nat) /\ Len(u \o a \o d) = Len(u) + Len(a) + Len(d)
      /\ ToSet(u \o a \o d) = ToSet(u) \cup ToSet(a) \cup ToSet(d)
  BY <1>1, JoinedOne
<1>3. /\ u \o a \o d \o p \in Seq(Nat)
      /\ Len(u \o a \o d \o p) = Len(u) + Len(a) + Len(d) + Len(p)
      /\ ToSet(u \o a \o d \o p) = ToSet(u) \cup ToSet(a) \cup ToSet(d) \cup ToSet(p)
  BY <1>2, JoinedOne
<1> QED
  BY <1>3, JoinedOne

LEMMA PromptFollows ==
    ASSUME InjectionInv PROVE PromptExact
<1> DEFINE t == request.template
           ids(copies) == [n \in DOMAIN copies |-> copies[n].id]
           shown == ids(InPrompt("identity") \o InPrompt("context") \o InPrompt("project"))
           noted == unnoted \o accesses \o detached \o applied \o missed
<1>1. shown = ShownIn(t, gathered, prompt)
  BY SameTemplate DEF ShownIn, IdsOf
<1>2. /\ Len(noted) = Len(unnoted) + Len(accesses) + Len(detached) + Len(applied) + Len(missed)
      /\ ToSet(noted) = ToSet(unnoted) \cup ToSet(accesses) \cup ToSet(detached)
                           \cup ToSet(applied) \cup ToSet(missed)
  <2>1. /\ unnoted \in Seq(Nat) /\ accesses \in Seq(Nat) /\ detached \in Seq(Nat)
        /\ applied \in Seq(Nat) /\ missed \in Seq(Nat)
    BY DEF InjectionInv, Batches
  <2> QED
    BY <2>1, JoinedFive
<1>3. ASSUME Exact(request, gathered, prompt), NEW z \in Zones PROVE ZoneExact(z)
  <2> DEFINE all == gathered[z]
             show == InPromptIn(t, gathered, prompt, z)
  <2>1. ZoneExactIn(t, request.budget, gathered, prompt, z)
    BY <1>3 DEF Exact
  <2>2. /\ Best(all, z) /\ IsPrefix(show, all) /\ Tokens(show) <= request.budget[z]
        /\ NeatIn(t) => /\ WithinBudget(t, request.budget[z], all, show, z)
                        /\ HeadingFollows(t, prompt, show, z)
    BY <2>1 DEF ZoneExactIn
  <2>3. /\ Holding(z) = HoldingIn(t, z) /\ HeadingOf(z) = HeadingOfIn(t, z)
        /\ InPrompt(z) = show /\ (Neat <=> NeatIn(t))
    BY SameTemplate
  <2> HIDE DEF show, t
  <2> QED
    BY <2>2, <2>3 DEF ZoneExact, Best, WithinBudget, HeadingFollows
<1>4. ASSUME Exact(request, gathered, prompt), prompt.made = "filled", Neat
      PROVE  \A l \in DOMAIN Template \ prompt.lines :
                \E z \in Zones : \/ l \in HeadingOf(z)
                                 \/ Template[l].blank /\ l + 1 \in HeadingOf(z)
  <2>1. MissingIn(t, prompt) /\ NeatIn(t) /\ \A z : HeadingOf(z) = HeadingOfIn(t, z)
    BY <1>4, SameTemplate DEF Exact
  <2> QED
    BY <1>4, <2>1 DEF MissingIn, Template
<1>5. CASE phase \in {"noting", "returned"}
  <2>1. /\ Exact(request, gathered, prompt)
        /\ NeatIn(t) => Balanced(unnoted, accesses, detached, applied, missed, shown)
    BY <1>1, <1>5 DEF InjectionInv, PromptSettled
  <2>2. Neat => Len(noted) = Len(shown) /\ ToSet(noted) = ToSet(shown)
    <3>1. Neat <=> NeatIn(t)
      BY SameTemplate
    <3> HIDE DEF t, shown, noted
    <3> QED
      BY <1>2, <2>1, <3>1 DEF Balanced
  <2>3. \A z \in Zones : ZoneExact(z)
    BY <1>3, <2>1
  <2>4. prompt.made = "filled" /\ Neat =>
           \A l \in DOMAIN Template \ prompt.lines :
              \E z \in Zones : \/ l \in HeadingOf(z)
                               \/ Template[l].blank /\ l + 1 \in HeadingOf(z)
    BY <1>4, <2>1
  <2> QED
    BY <2>2, <2>3, <2>4 DEF PromptExact
<1>6. CASE phase \notin {"noting", "returned"}
  <2>1. prompt = NoPrompt /\ NoAccess(unnoted, accesses, detached, applied, missed)
    BY <1>6 DEF InjectionInv, PromptSettled
  <2>2. prompt.made # "filled"
    BY <2>1 DEF NoPrompt
  <2>3. shown = << >>
    <3>1. \A z : InPrompt(z) = << >>
      BY <2>1 DEF InPrompt, NoPrompt
    <3>2. << >> \o << >> \o << >> = << >>
      <4>1. << >> \in Seq(Nat)
        BY EmptySeq
      <4> QED
        BY <4>1, ConcatEmptySeq
    <3> QED
      BY <3>1, <3>2
  <2>4. Len(noted) = 0 /\ ToSet(noted) = {}
    <3>1. ToSet(<< >>) = {} /\ Len(<< >>) = 0
      BY DEF ToSet
    <3> QED
      BY <1>2, <2>1, <3>1 DEF NoAccess
  <2>5. Len(noted) = Len(shown) /\ ToSet(noted) = ToSet(shown)
    <3>1. ToSet(<< >>) = {} /\ Len(<< >>) = 0
      BY DEF ToSet
    <3> HIDE DEF noted, shown
    <3> QED
      BY <2>3, <2>4, <3>1
  <2> QED
    BY <1>6, <2>2, <2>5 DEF PromptExact
<1> QED
  BY <1>5, <1>6

\* Requests, tables and gathered copies stay in their types; before a prompt is
\* rendered nothing is noted, after that it stays exact and the accesses balanced.
THEOREM InjectionAlways == InjectionSpec => []InjectionInv
<1>1. InjectionInit => InjectionInv
  BY InjectionStarts
<1>2. InjectionInv /\ [InjectionNext]_injectionVars => InjectionInv'
  BY InjectionSteps
<1> QED
  BY <1>1, <1>2, PTL DEF InjectionSpec

\* What a prompt shows is what the table offered when each zone was gathered, with
\* its headings and within its budgets, and each shown record's access is noted,
\* counted or known to be lost once: whatever hosts, cycles and flushes do meanwhile.
THEOREM PromptIsExact == InjectionSpec => []PromptExact
<1>1. InjectionInv => PromptExact
  BY PromptFollows
<1> QED
  BY <1>1, InjectionAlways, PTL
=============================================================================
