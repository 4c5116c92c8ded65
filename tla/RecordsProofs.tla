---------------------------- MODULE RecordsProofs ----------------------------
(***************************************************************************)
(* For any number of records, texts, cycles and reviews: what a judgement  *)
(* over stale copies cannot do.  A copy's record may have been rewritten,  *)
(* locked, retired or purged since, but it has kept its section and its    *)
(* id, and every proposal in the quorum set has a vote of a cycle that is  *)
(* over, or of the one under way, which then remembers it.                 *)
(***************************************************************************)
EXTENDS Records, SequenceTheorems, WellFoundedInduction, TLAPS

Changes == [id : Id, kind : {"update", "deprecate"}, text : Text \cup {None}]
RunState == [kind : {None, "cycle", "review"}, at : Nat, copies : [Id -> Record \cup {None}],
             seen : SUBSET Changes, left : Nat]

RecordsTypeOK ==
    /\ used \in 0 .. MaxRecords /\ runs \in Nat /\ now \in Nat
    /\ table \in [Id -> Record \cup {None}]
    /\ run \in RunState

\* Ids are handed out in order and never again.
IdsInOrder == \A i \in Id : i > used => table[i] = None /\ run.copies[i] = None

\* A record keeps the section in which the copy shows it.
CopiesKeepSection ==
    \A i \in Id : run.copies[i] # None =>
        /\ table[i] # None => table[i].section = run.copies[i].section
        /\ run.kind = "review" => run.copies[i].section # "identity"

\* The vote of a proposal is an earlier cycle's, or this one's and remembered.
VotedFor(p) ==
    \E v \in votes : /\ v.change = p.change /\ v.at = p.at /\ v.cycle \in 0 .. runs
                     /\ v.cycle = runs /\ run # Idle => p.change \in run.seen
ProposalsVoted == \A p \in proposals : VotedFor(p)

RecordsInv == RecordsTypeOK /\ IdsInOrder /\ CopiesKeepSection /\ ProposalsVoted

\* An empty store, with nobody in the cycle slot.
LEMMA RecordsInvInit == Init => RecordsInv
<1> SUFFICES ASSUME Init PROVE RecordsInv
  OBVIOUS
<1>1. RecordsTypeOK
  BY RecordsAssumption DEF Init, RecordsTypeOK, RunState, Idle
<1>2. IdsInOrder /\ CopiesKeepSection /\ ProposalsVoted
  BY DEF Init, IdsInOrder, CopiesKeepSection, ProposalsVoted, Idle
<1> QED
  BY <1>1, <1>2 DEF RecordsInv

-----------------------------------------------------------------------------
(* What a step makes of the table.                                         *)

Untouched == UNCHANGED <<table, used>>
Added ==
    /\ used < MaxRecords /\ used' = used + 1
    /\ \E r \in Record : ~r.retired /\ table' = [table EXCEPT ![used + 1] = r]
Rewritten(i) ==
    /\ i \in Live /\ ~table[i].locked /\ UNCHANGED used
    /\ \E t \in Text, v \in {"host", "inferred"} :
           table' = [table EXCEPT ![i].text = t, ![i].evidence = v]
Retired(i) ==
    /\ i \in Live /\ ~table[i].locked /\ UNCHANGED used
    /\ \E at \in Nat : table' = [table EXCEPT ![i].retired = TRUE, ![i].since = at]
Rescued(i) ==
    /\ i \in Known /\ ~table[i].locked /\ UNCHANGED used
    /\ table' = [table EXCEPT ![i].retired = FALSE, ![i].since = 0]
Relocked(i) ==
    /\ i \in Known /\ UNCHANGED used
    /\ \E value \in BOOLEAN : table' = [table EXCEPT ![i].locked = value]
Purged(S) ==
    /\ S \subseteq Known /\ (\A i \in S : table[i].retired) /\ UNCHANGED used
    /\ table' = [i \in Id |-> IF i \in S THEN None ELSE table[i]]

TableStep ==
    \/ Untouched \/ Added
    \/ \E i \in Id : Rewritten(i) \/ Retired(i) \/ Rescued(i) \/ Relocked(i)
    \/ \E S \in SUBSET Id : Purged(S)

\* asper_store_apply's INSERT adds a record at the next id.
LEMMA InsertAdds ==
    ASSUME NEW section \in {"identity", "context"}, NEW t \in Text,
           NEW evidence \in {"host", "inferred"}, NEW locked \in BOOLEAN,
           NEW embedded \in BOOLEAN, Insert(section, t, evidence, locked, embedded)
    PROVE  Added
<1> DEFINE r == [section |-> section, text |-> t, evidence |-> evidence, locked |-> locked,
                 retired |-> FALSE, since |-> 0]
<1>1. r \in Record /\ ~r.retired
  BY DEF Record
<1> QED
  BY <1>1 DEF Insert, Added

\* DEPRECATE retires a live record and leaves a retired one as it is.
LEMMA DeprecateRetires ==
    ASSUME RecordsInv, NEW i \in Id, NEW at \in Nat, Deprecatable(i), Deprecate(i, at)
    PROVE  TableStep
<1>1. CASE table[i].retired
  BY <1>1 DEF Deprecate, TableStep, Untouched
<1>2. CASE ~table[i].retired
  BY <1>2 DEF Deprecate, Deprecatable, Live, TableStep, Retired
<1> QED
  BY <1>1, <1>2

\* What a curator's change does once it has passed the guardrails.
LEMMA FunnelSteps ==
    ASSUME RecordsInv, NEW i \in Id, NEW kind \in {"update", "deprecate"}, NEW t \in Text,
           Funnel(i, kind, t)
    PROVE  TableStep
<1>1. CASE CuratorUpdate(i, t)
  BY <1>1 DEF CuratorUpdate, Updatable, Update, Refused, records, TableStep, Untouched,
              Rewritten
<1>2. CASE CuratorDeprecate(i)
  <2>1. run.at \in Nat
    BY DEF RecordsInv, RecordsTypeOK, RunState
  <2> QED
    BY <1>2, <2>1, DeprecateRetires
       DEF CuratorDeprecate, Refused, records, TableStep, Untouched
<1> QED
  BY <1>1, <1>2 DEF Funnel

\* Every step of hosts, cycles, reviews, compactions and restarts is one of these.
LEMMA StepsOfTheTable == RecordsInv /\ [Next]_vars => TableStep
<1> SUFFICES ASSUME RecordsInv, [Next]_vars PROVE TableStep
  OBVIOUS
<1> USE DEF records, TableStep, Untouched
<1>1. CASE HostActs
  <2>1. ASSUME NEW s \in {"identity", "context"}, NEW t \in Text,
               NEW v \in {"host", "inferred"}, NEW l \in BOOLEAN, NEW e \in BOOLEAN,
               HostInsert(s, t, v, l, e)
        PROVE  TableStep
    BY <2>1, InsertAdds DEF HostInsert
  <2>2. ASSUME NEW i \in Id, NEW t \in Text, NEW e \in BOOLEAN, HostUpdate(i, t, e)
        PROVE  TableStep
    BY <2>2 DEF HostUpdate, Updatable, Update, Rewritten
  <2>3. ASSUME NEW i \in Id, HostDeprecate(i) PROVE TableStep
    BY <2>3, DeprecateRetires DEF HostDeprecate, RecordsInv, RecordsTypeOK
  <2>4. ASSUME NEW i \in Id, NEW l \in BOOLEAN, HostSetLocked(i, l) PROVE TableStep
    BY <2>4 DEF HostSetLocked, Relocked
  <2> QED
    BY <1>1, <2>1, <2>2, <2>3, <2>4 DEF HostActs
<1>2. CASE CycleActs
  <2>1. ASSUME NEW s \in {"identity", "context"}, NEW t \in Text, NEW e \in BOOLEAN,
               CycleInsert(s, t, e)
        PROVE  TableStep
    BY <2>1, InsertAdds DEF CycleInsert, Refused
  <2>2. ASSUME NEW i \in Id, NEW k \in {"update", "deprecate"}, NEW t \in Text,
               CycleMutateContext(i, k, t) \/ CycleConfirms(i, k, t)
        PROVE  TableStep
    BY <2>2, FunnelSteps DEF CycleMutateContext, CycleConfirms
  <2>3. ASSUME NEW i \in Id, NEW k \in {"update", "deprecate"}, NEW t \in Text,
               CycleProposes(i, k, t)
        PROVE  TableStep
    BY <2>3 DEF CycleProposes, Refused
  <2> QED
    BY <1>2, <2>1, <2>2, <2>3 DEF CycleActs
<1>3. CASE ReviewActs
  <2>1. ASSUME NEW i \in Id, ReviewDeprecates(i) PROVE TableStep
    BY <2>1, DeprecateRetires
       DEF ReviewDeprecates, CuratorDeprecate, Refused, RecordsInv, RecordsTypeOK, RunState
  <2>2. ASSUME NEW i \in Id, NEW e \in BOOLEAN, ReviewKeeps(i, e) PROVE TableStep
    BY <2>2 DEF ReviewKeeps, Keepable, Keep, Refused, Rescued
  <2> QED
    BY <1>3, <2>1, <2>2 DEF ReviewActs
<1>4. CASE Compact
  <2>1. Purged(PurgeDue)
    BY <1>4 DEF Compact, Purged, PurgeDue, Known
  <2>2. PurgeDue \subseteq Id
    BY DEF PurgeDue, Known
  <2> QED
    BY <2>1, <2>2
<1>5. CASE CycleStart \/ ReviewStart \/ RunEnds
  BY <1>5 DEF CycleStart, ReviewStart, StartRun, RunEnds
<1>6. CASE SaveStart \/ SaveEnds \/ SaveFails \/ Reopen \/ TimePasses
  BY <1>6 DEF SaveStart, SaveEnds, SaveFails, Reopen, TimePasses
<1>7. CASE UNCHANGED vars
  BY <1>7 DEF vars
<1> QED
  BY <1>1, <1>2, <1>3, <1>4, <1>5, <1>6, <1>7 DEF Next

-----------------------------------------------------------------------------
(* The invariant.                                                          *)

\* A step of the table keeps its type, the order of ids and every section.
LEMMA TableKept ==
    ASSUME RecordsInv, TableStep
    PROVE  /\ table' \in [Id -> Record \cup {None}] /\ used' \in {used, used + 1}
           /\ used' \in 0 .. MaxRecords
           /\ \A i \in Id : table'[i] # None =>
                 \/ table[i] # None /\ table'[i].section = table[i].section
                 \/ i = used + 1 /\ used' = used + 1
<1> USE RecordsAssumption DEF RecordsInv, RecordsTypeOK, Id
<1>1. CASE Untouched
  BY <1>1 DEF Untouched
<1>2. CASE Added
  BY <1>2 DEF Added
<1>3. ASSUME NEW i \in Id, Rewritten(i) \/ Retired(i) \/ Rescued(i) \/ Relocked(i)
      PROVE  /\ table' \in [Id -> Record \cup {None}] /\ used' = used
             /\ \A j \in Id : table'[j] # None =>
                   table[j] # None /\ table'[j].section = table[j].section
  <2>1. table[i] \in Record /\ used' = used
    BY <1>3 DEF Rewritten, Retired, Rescued, Relocked, Live, Known
  <2>2. \E r \in Record : r.section = table[i].section /\ table' = [table EXCEPT ![i] = r]
    <3>1. CASE Rewritten(i)
      <4>1. PICK t \in Text, v \in {"host", "inferred"} :
                table' = [table EXCEPT ![i].text = t, ![i].evidence = v]
        BY <3>1 DEF Rewritten
      <4>2. [table[i] EXCEPT !.text = t, !.evidence = v] \in Record
        BY <2>1 DEF Record
      <4> QED
        BY <2>1, <4>1, <4>2 DEF Record
    <3>2. CASE Retired(i)
      <4>1. PICK at \in Nat : table' = [table EXCEPT ![i].retired = TRUE, ![i].since = at]
        BY <3>2 DEF Retired
      <4>2. [table[i] EXCEPT !.retired = TRUE, !.since = at] \in Record
        BY <2>1 DEF Record
      <4> QED
        BY <2>1, <4>1, <4>2 DEF Record
    <3>3. CASE Rescued(i)
      <4>1. table' = [table EXCEPT ![i].retired = FALSE, ![i].since = 0]
        BY <3>3 DEF Rescued
      <4>2. [table[i] EXCEPT !.retired = FALSE, !.since = 0] \in Record
        BY <2>1 DEF Record
      <4> QED
        BY <2>1, <4>1, <4>2 DEF Record
    <3>4. CASE Relocked(i)
      <4>1. PICK value \in BOOLEAN : table' = [table EXCEPT ![i].locked = value]
        BY <3>4 DEF Relocked
      <4>2. [table[i] EXCEPT !.locked = value] \in Record
        BY <2>1 DEF Record
      <4> QED
        BY <2>1, <4>1, <4>2 DEF Record
    <3> QED
      BY <1>3, <3>1, <3>2, <3>3, <3>4
  <2> QED
    BY <2>1, <2>2
<1>4. ASSUME NEW S \in SUBSET Id, Purged(S)
      PROVE  /\ table' \in [Id -> Record \cup {None}] /\ used' = used
             /\ \A j \in Id : table'[j] # None => table'[j] = table[j]
  BY <1>4 DEF Purged
<1> QED
  BY <1>1, <1>2, <1>3, <1>4 DEF TableStep

\* What a step makes of the run: a new one, none, or the next line of this one.
NewRun ==
    /\ run = Idle /\ UNCHANGED <<table, used, quorum>> /\ runs' = runs + 1
    /\ run'.copies \in [Id -> Record \cup {None}]
    /\ run'.kind \in {"cycle", "review"}
    /\ \A i \in Id : run'.copies[i] # None =>
          /\ table[i] # None /\ run'.copies[i] = table[i]
          /\ run'.kind = "review" => table[i].section # "identity"
NoRun == run' = Idle /\ UNCHANGED runs /\ (proposals' = {} \/ UNCHANGED quorum)
SameRun == UNCHANGED <<run, runs, quorum>>
NextLine ==
    /\ run # Idle /\ UNCHANGED runs
    /\ run'.copies = run.copies /\ run'.kind = run.kind /\ run'.at = run.at
    /\ run.seen \subseteq run'.seen

RunStep == run' \in RunState /\ (NewRun \/ NoRun \/ SameRun \/ NextLine)

\* The next line of a reply is taken ...
LEMMA LineTakes ==
    ASSUME RecordsInv, run.left > 0, UNCHANGED runs, Line(run)
    PROVE  NextLine /\ RunStep /\ run'.seen = run.seen
<1>1. run # Idle
  BY DEF Idle
<1>2. run \in RunState /\ run.left \in Nat
  BY DEF RecordsInv, RecordsTypeOK, RunState
<1>3. run' = [run EXCEPT !.left = run.left - 1]
  BY DEF Line
<1>4. /\ run' \in RunState /\ run'.copies = run.copies /\ run'.kind = run.kind
      /\ run'.at = run.at /\ run'.seen = run.seen
  BY <1>2, <1>3 DEF RunState
<1> QED
  BY <1>1, <1>4 DEF NextLine, RunStep

\* ... and the proposal in it remembered (cycle_seen_add).
LEMMA LineRemembers ==
    ASSUME RecordsInv, run.left > 0, UNCHANGED runs, NEW change \in Changes,
           Line([run EXCEPT !.seen = @ \cup {change}])
    PROVE  NextLine /\ RunStep /\ run'.seen = run.seen \cup {change}
<1> DEFINE r == [run EXCEPT !.seen = run.seen \cup {change}]
<1>1. run # Idle
  BY DEF Idle
<1>2. run \in RunState /\ run.left \in Nat
  BY DEF RecordsInv, RecordsTypeOK, RunState
<1>3. run' = [r EXCEPT !.left = r.left - 1]
  BY DEF Line
<1>4. /\ r \in RunState /\ r.copies = run.copies /\ r.kind = run.kind /\ r.left = run.left
      /\ r.at = run.at /\ r.seen = run.seen \cup {change}
  BY <1>2 DEF RunState
<1> HIDE DEF r
<1>5. /\ run' \in RunState /\ run'.copies = r.copies /\ run'.kind = r.kind
      /\ run'.at = r.at /\ run'.seen = r.seen
  BY <1>2, <1>3, <1>4 DEF RunState
<1> QED
  BY <1>1, <1>4, <1>5 DEF NextLine, RunStep

\* A proposal keeps its vote while the quorum set is left alone.
LEMMA VotesKept ==
    ASSUME RecordsInv, UNCHANGED quorum,
           NewRun \/ NoRun \/ SameRun \/ NextLine
    PROVE  ProposalsVoted'
<1> SUFFICES ASSUME NEW p \in proposals PROVE VotedFor(p)'
  BY DEF ProposalsVoted, quorum
<1>1. VotedFor(p) /\ runs \in Nat
  BY DEF RecordsInv, ProposalsVoted, RecordsTypeOK
<1>2. CASE NewRun
  BY <1>1, <1>2 DEF NewRun, VotedFor, quorum
<1>3. CASE NoRun
  BY <1>1, <1>3 DEF NoRun, VotedFor, quorum
<1>4. CASE SameRun
  BY <1>1, <1>4 DEF SameRun, VotedFor, quorum
<1>5. CASE NextLine
  BY <1>1, <1>5 DEF NextLine, VotedFor, quorum
<1> QED
  BY <1>2, <1>3, <1>4, <1>5

\* What a line proposes is one of the changes a run can remember.
LEMMA ChangesTyped ==
    ASSUME NEW i \in Id, NEW kind \in {"update", "deprecate"}, NEW t \in Text
    PROVE  Change(i, kind, t) \in Changes
BY DEF Change, Changes

\* Every step of Next, as a step of the run.
LEMMA StepsOfTheRun == RecordsInv /\ [Next]_vars => RunStep /\ ProposalsVoted'
<1> SUFFICES ASSUME RecordsInv, [Next]_vars PROVE RunStep /\ ProposalsVoted'
  OBVIOUS
<1> USE DEF quorum, records, RunStep
<1>0. run \in RunState /\ Idle \in RunState
  BY RecordsAssumption DEF RecordsInv, RecordsTypeOK, RunState, Idle
<1>1. CASE HostActs
  <2>1. SameRun
    BY <1>1 DEF HostActs, HostInsert, HostUpdate, HostDeprecate, HostSetLocked, HostStep,
                SameRun
  <2> QED
    BY <1>0, <2>1, VotesKept DEF SameRun
<1>2. ASSUME NEW k \in {"cycle", "review"}, NEW S \in SUBSET Live, StartRun(k, S),
             k = "review" => \A i \in S : table[i].section # "identity"
      PROVE  RunStep /\ ProposalsVoted'
  <2> DEFINE copies == CopiesOf(S)
  <2>1. run' = [kind |-> k, at |-> now, copies |-> copies, seen |-> {}, left |-> MaxReply]
    BY <1>2 DEF StartRun, Idle
  <2>2. /\ copies \in [Id -> Record \cup {None}]
        /\ \A i \in Id : copies[i] # None => i \in S /\ copies[i] = table[i]
    BY DEF CopiesOf, RecordsInv, RecordsTypeOK
  <2>3. S \subseteq Id /\ \A i \in S : table[i] # None
    BY DEF Live, Known
  <2> HIDE DEF copies
  <2>4. run' \in RunState /\ run'.copies = copies /\ run'.kind = k
    BY <2>1, <2>2, RecordsAssumption DEF RunState, RecordsInv, RecordsTypeOK
  <2>5. run = Idle /\ UNCHANGED <<table, used, quorum>> /\ runs' = runs + 1
    BY <1>2 DEF StartRun
  <2>6. NewRun
    BY <1>2, <2>2, <2>3, <2>4, <2>5 DEF NewRun
  <2> QED
    BY <2>4, <2>5, <2>6, VotesKept
<1>3. CASE CycleStart
  BY <1>2, <1>3 DEF CycleStart
<1>4. CASE ReviewStart
  BY <1>2, <1>4 DEF ReviewStart
<1>5. ASSUME NEW s \in {"identity", "context"}, NEW t \in Text, NEW e \in BOOLEAN,
             CycleInsert(s, t, e)
      PROVE  RunStep /\ ProposalsVoted'
  <2>1. run.left > 0 /\ UNCHANGED runs /\ Line(run) /\ UNCHANGED quorum
    BY <1>5 DEF CycleInsert, OpOf, RunUnchanged
  <2> QED
    BY <2>1, LineTakes, VotesKept
<1>6. ASSUME NEW i \in Id, NEW k \in {"update", "deprecate"}, NEW t \in Text,
             CycleMutateContext(i, k, t)
      PROVE  RunStep /\ ProposalsVoted'
  <2>1. run.left > 0 /\ UNCHANGED runs /\ Line(run) /\ UNCHANGED quorum
    BY <1>6 DEF CycleMutateContext, OpOf, RunUnchanged
  <2> QED
    BY <2>1, LineTakes, VotesKept
<1>7. ASSUME NEW i \in Id, NEW k \in {"update", "deprecate"}, NEW t \in Text,
             CycleProposes(i, k, t)
      PROVE  RunStep /\ ProposalsVoted'
  <2> DEFINE change == Change(i, k, t)
  <2>1. run.left > 0 /\ UNCHANGED runs /\ change \in Changes
    BY <1>7, ChangesTyped DEF CycleProposes, OpOf, RunUnchanged
  <2>2. \/ Line(run) /\ UNCHANGED quorum
        \/ /\ Line([run EXCEPT !.seen = @ \cup {change}])
           /\ proposals' = Unexpired \cup {[change |-> change, at |-> run.at]}
           /\ votes' = votes \cup {[change |-> change, at |-> run.at, cycle |-> runs]}
    BY <1>7 DEF CycleProposes
  <2> HIDE DEF change
  <2>3. CASE Line(run) /\ UNCHANGED quorum
    BY <2>1, <2>3, LineTakes, VotesKept
  <2>4. CASE ~(Line(run) /\ UNCHANGED quorum)
    <3>1. RunStep /\ NextLine /\ run'.seen = run.seen \cup {change}
      BY <2>1, <2>2, <2>4, LineRemembers
    <3>2. ASSUME NEW p \in proposals' PROVE VotedFor(p)'
      <4>1. CASE p \in Unexpired
        <5>1. p \in proposals /\ VotedFor(p)
          BY <4>1 DEF Unexpired, RecordsInv, ProposalsVoted
        <5> QED
          BY <2>2, <2>4, <3>1, <5>1 DEF NextLine, VotedFor
      <4>2. CASE p = [change |-> change, at |-> run.at]
        <5> DEFINE v == [change |-> change, at |-> run.at, cycle |-> runs]
        <5>1. v \in votes' /\ v.change = p.change /\ v.at = p.at /\ v.cycle = runs
          BY <2>2, <2>4, <4>2
        <5>2. runs \in Nat /\ runs' = runs /\ p.change \in run'.seen
          BY <3>1, <4>2 DEF RecordsInv, RecordsTypeOK, NextLine
        <5> QED
          BY <5>1, <5>2 DEF VotedFor
      <4> QED
        BY <2>2, <2>4, <4>1, <4>2
    <3> QED
      BY <3>1, <3>2 DEF ProposalsVoted
  <2> QED
    BY <2>3, <2>4
<1>8. ASSUME NEW i \in Id, NEW k \in {"update", "deprecate"}, NEW t \in Text,
             CycleConfirms(i, k, t)
      PROVE  RunStep /\ ProposalsVoted'
  <2> DEFINE change == Change(i, k, t)
  <2>1. /\ run.left > 0 /\ UNCHANGED runs /\ Line(run)
        /\ proposals' = Unexpired \ Agreeing(change)
        /\ votes' = {v \in votes : v.change # change}
    BY <1>8 DEF CycleConfirms, OpOf, RunUnchanged
  <2> HIDE DEF change
  <2>2. RunStep /\ NextLine /\ run'.seen = run.seen
    BY <2>1, LineTakes
  <2>3. ASSUME NEW p \in proposals' PROVE VotedFor(p)'
    <3>1. p \in proposals /\ VotedFor(p) /\ p.change # change
      BY <2>1 DEF Unexpired, Agreeing, RecordsInv, ProposalsVoted
    <3> QED
      BY <2>1, <2>2, <3>1 DEF NextLine, VotedFor
  <2> QED
    BY <2>2, <2>3 DEF ProposalsVoted
<1>9. CASE ReviewActs
  <2>1. run.left > 0 /\ UNCHANGED runs /\ Line(run) /\ UNCHANGED quorum
    BY <1>9 DEF ReviewActs, ReviewDeprecates, ReviewKeeps, OpOf, RunUnchanged
  <2> QED
    BY <2>1, LineTakes, VotesKept
<1>10. CASE RunEnds \/ Reopen
  <2>1. NoRun
    BY <1>10 DEF RunEnds, Reopen, NoRun, bounds
  <2>2. CASE proposals' = {}
    BY <1>0, <2>1, <2>2 DEF NoRun, ProposalsVoted
  <2>3. CASE UNCHANGED quorum
    BY <1>0, <2>1, <2>3, VotesKept DEF NoRun
  <2> QED
    BY <2>1, <2>2, <2>3 DEF NoRun
<1>11. CASE Compact \/ SaveStart \/ SaveEnds \/ SaveFails \/ TimePasses \/ UNCHANGED vars
  <2>1. SameRun
    BY <1>11 DEF Compact, SaveStart, SaveEnds, SaveFails, TimePasses, vars, bounds, SameRun
  <2> QED
    BY <1>0, <2>1, VotesKept DEF SameRun
<1> QED
  BY <1>1, <1>3, <1>4, <1>5, <1>6, <1>7, <1>8, <1>9, <1>10, <1>11 DEF Next, CycleActs

\* Every step keeps the invariant: new copies are of the records as they are,
\* and old ones of records that kept their section.
LEMMA RecordsInvStep == RecordsInv /\ [Next]_vars => RecordsInv'
<1> SUFFICES ASSUME RecordsInv, [Next]_vars PROVE RecordsInv'
  OBVIOUS
<1>1. TableStep /\ RunStep /\ ProposalsVoted'
  BY StepsOfTheTable, StepsOfTheRun
<1>2. runs' \in Nat /\ now' \in Nat
  <2>1. runs' \in Nat
    BY <1>1 DEF RunStep, NewRun, NoRun, SameRun, NextLine, RecordsInv, RecordsTypeOK
  <2>2. now' \in {now, now + 1}
    BY DEF Next, HostActs, HostInsert, HostUpdate, HostDeprecate, HostSetLocked, HostStep,
           CycleStart, ReviewStart, StartRun, CycleActs, CycleInsert, CycleMutateContext,
           CycleProposes, CycleConfirms, RunUnchanged, ReviewActs, ReviewDeprecates,
           ReviewKeeps, RunEnds, Compact, SaveStart, SaveEnds, SaveFails, Reopen,
           TimePasses, vars
  <2> QED
    BY <2>1, <2>2 DEF RecordsInv, RecordsTypeOK
<1>3. RecordsTypeOK'
  BY <1>1, <1>2, TableKept DEF RunStep, RecordsTypeOK
<1>4. /\ used \in Nat /\ used' \in {used, used + 1}
      /\ \A i \in Id : i \in Nat
      /\ \A i \in Id : table'[i] # None =>
            \/ table[i] # None /\ table'[i].section = table[i].section
            \/ i = used + 1 /\ used' = used + 1
  BY <1>1, TableKept, RecordsAssumption DEF RecordsInv, RecordsTypeOK, Id
<1>5. /\ \A i \in Id : i > used => table[i] = None /\ run.copies[i] = None
      /\ \A i \in Id : Idle.copies[i] = None
  BY DEF RecordsInv, IdsInOrder, Idle
<1>6. ASSUME NEW i \in Id, run'.copies[i] # None
      PROVE  \/ NewRun
             \/ run.copies[i] # None /\ run'.copies = run.copies /\ run'.kind = run.kind
  BY <1>1, <1>5, <1>6 DEF RunStep, NoRun, SameRun, NextLine
<1>7. IdsInOrder'
  <2> SUFFICES ASSUME NEW i \in Id, i > used'
               PROVE  table'[i] = None /\ run'.copies[i] = None
    BY DEF IdsInOrder
  <2>1. i > used /\ ~(i = used + 1 /\ used' = used + 1)
    BY <1>4
  <2>2. table[i] = None /\ run.copies[i] = None
    BY <1>5, <2>1
  <2>3. run'.copies[i] = None
    BY <1>6, <2>2 DEF NewRun
  <2> QED
    BY <1>4, <2>1, <2>2, <2>3
<1>8. CopiesKeepSection'
  <2> SUFFICES ASSUME NEW i \in Id, run'.copies[i] # None
               PROVE  /\ table'[i] # None => table'[i].section = run'.copies[i].section
                      /\ run'.kind = "review" => run'.copies[i].section # "identity"
    BY DEF CopiesKeepSection
  <2>1. CASE NewRun
    BY <2>1 DEF NewRun
  <2>2. CASE run.copies[i] # None /\ run'.copies = run.copies /\ run'.kind = run.kind
    <3>1. /\ table[i] # None => table[i].section = run.copies[i].section
          /\ run.kind = "review" => run.copies[i].section # "identity"
      BY <2>2 DEF RecordsInv, CopiesKeepSection
    <3>2. table'[i] # None => table[i] # None /\ table'[i].section = table[i].section
      BY <1>4, <1>5, <2>2
    <3> QED
      BY <2>2, <3>1, <3>2
  <2> QED
    BY <1>6, <2>1, <2>2
<1> QED
  BY <1>1, <1>3, <1>7, <1>8 DEF RecordsInv

-----------------------------------------------------------------------------
(* Host evidence stands.                                                   *)

\* A step that takes a line of the reply is a cycle's or a review's.
LEMMA LinesAreActs == RecordsInv /\ [Next]_vars /\ Curating => CycleActs \/ ReviewActs
<1> SUFFICES ASSUME RecordsInv, [Next]_vars, Curating, ~(CycleActs \/ ReviewActs)
             PROVE  FALSE
  OBVIOUS
<1>1. /\ run.left \in Nat /\ run'.left \in Nat
      /\ run'.left < run.left /\ run' # Idle
  BY StepsOfTheRun DEF RunStep, RecordsInv, RecordsTypeOK, RunState, Curating
<1>2. run' # run /\ run # Idle
  BY <1>1 DEF Idle
<1>3. HostActs => UNCHANGED run
  BY DEF HostActs, HostInsert, HostUpdate, HostDeprecate, HostSetLocked, HostStep
<1> QED
  BY <1>1, <1>2, <1>3
     DEF Next, CycleStart, ReviewStart, StartRun, RunEnds, Compact, SaveStart, SaveEnds,
         SaveFails, Reopen, TimePasses, vars

\* What a curator's operation leaves of a record it did not insert.
HostKept(i) ==
    table[i].evidence = "host" /\ table'[i] # None
        => table'[i].text = table[i].text /\ table'[i].evidence = "host"

\* An UPDATE of the curator's ends at host evidence, a DEPRECATE keeps the text.
LEMMA FunnelKeepsHost ==
    ASSUME RecordsInv, NEW i \in Id, NEW j \in Known, NEW kind, NEW t \in Text,
           Funnel(i, kind, t)
    PROVE  HostKept(j)
<1>1. table \in [Id -> Record \cup {None}] /\ table[j] \in Record /\ j \in Id
  BY DEF RecordsInv, RecordsTypeOK, Known
<1>2. CASE CuratorUpdate(i, t)
  <2>1. CASE Updatable(i, TRUE)
    <3>1. table[i].evidence = "inferred"
      BY <2>1 DEF Updatable
    <3>2. \A k \in Id : k # i => table'[k] = table[k]
      BY <1>1, <1>2, <2>1 DEF CuratorUpdate, Update
    <3> QED
      BY <1>1, <3>1, <3>2 DEF HostKept
  <2>2. CASE ~Updatable(i, TRUE)
    BY <1>2, <2>2 DEF CuratorUpdate, Refused, records, HostKept
  <2> QED
    BY <2>1, <2>2
<1>3. CASE CuratorDeprecate(i)
  BY <1>1, <1>3 DEF CuratorDeprecate, Deprecate, Refused, records, HostKept, Record
<1> QED
  BY <1>2, <1>3 DEF Funnel

\* No line of a reply changes the text of a record with host evidence: an INSERT
\* takes a new id, the other operations go through the funnel.
LEMMA HostTextKept ==
    RecordsInv /\ [Next]_vars => \A i \in Known : Curating => HostKept(i)
<1> SUFFICES ASSUME RecordsInv, [Next]_vars, Curating, NEW j \in Known PROVE HostKept(j)
  OBVIOUS
<1>1. table \in [Id -> Record \cup {None}] /\ table[j] \in Record /\ j \in Id
  BY DEF RecordsInv, RecordsTypeOK, Known
<1>2. ASSUME NEW s \in {"identity", "context"}, NEW t \in Text, NEW e \in BOOLEAN,
             CycleInsert(s, t, e)
      PROVE  HostKept(j)
  <2>1. UNCHANGED table \/ Added
    BY <1>2, InsertAdds DEF CycleInsert, Refused, records
  <2>2. j # used + 1
    BY <1>1 DEF Known, RecordsInv, IdsInOrder, RecordsTypeOK
  <2> QED
    BY <1>1, <2>1, <2>2 DEF Added, HostKept
<1>3. ASSUME NEW i \in Id, NEW k \in {"update", "deprecate"}, NEW t \in Text,
             CycleMutateContext(i, k, t) \/ CycleProposes(i, k, t) \/ CycleConfirms(i, k, t)
      PROVE  HostKept(j)
  <2>1. Funnel(i, k, t) \/ UNCHANGED table
    BY <1>3 DEF CycleMutateContext, CycleProposes, CycleConfirms, Refused, records
  <2> QED
    BY <2>1, FunnelKeepsHost DEF HostKept
<1>4. ASSUME NEW i \in Id, ReviewDeprecates(i) PROVE HostKept(j)
  BY <1>1, <1>4
     DEF ReviewDeprecates, CuratorDeprecate, Deprecate, Refused, records, HostKept, Record
<1>5. ASSUME NEW i \in Id, NEW e \in BOOLEAN, ReviewKeeps(i, e) PROVE HostKept(j)
  BY <1>1, <1>5 DEF ReviewKeeps, Keep, Refused, records, HostKept, Record
<1> QED
  BY <1>2, <1>3, <1>4, <1>5, LinesAreActs DEF CycleActs, ReviewActs

-----------------------------------------------------------------------------
(* Identity needs two cycles.                                              *)

\* An earlier cycle, inside the window, proposed what this step does to i.
Agreed(i) ==
    \E v \in votes :
        /\ v.cycle < runs /\ run.at - v.at <= ConfirmWindow
        /\ v.change \in {Change(i, "update", table'[i].text), Change(i, "deprecate", None)}

\* What passes the quorum carries the vote of an earlier cycle.
LEMMA ConfirmedIsAgreed ==
    ASSUME RecordsInv, NEW i \in Id, NEW kind \in {"update", "deprecate"}, NEW t \in Text,
           CycleConfirms(i, kind, t)
    PROVE  \E v \in votes : /\ v.cycle < runs /\ run.at - v.at <= ConfirmWindow
                             /\ v.change = Change(i, kind, t)
<1> DEFINE change == Change(i, kind, t)
<1>1. run # Idle /\ change \notin run.seen /\ Agreeing(change) # {}
  BY DEF CycleConfirms, OpOf, Idle
<1>2. PICK p \in proposals : p.change = change /\ run.at - p.at <= ConfirmWindow
  BY <1>1 DEF Agreeing, Unexpired
<1>3. PICK v \in votes :
         /\ v.change = p.change /\ v.at = p.at /\ v.cycle \in 0 .. runs
         /\ v.cycle = runs /\ run # Idle => p.change \in run.seen
  BY DEF RecordsInv, ProposalsVoted, VotedFor
<1>4. v.cycle < runs
  BY <1>1, <1>2, <1>3 DEF RecordsInv, RecordsTypeOK
<1> QED
  BY <1>2, <1>3, <1>4

\* A curator's operation changes its own record only, an UPDATE to its text.
LEMMA FunnelChanges ==
    ASSUME RecordsInv, NEW i \in Id, NEW kind \in {"update", "deprecate"}, NEW t \in Text,
           Funnel(i, kind, t), NEW j \in Known, table'[j] # table[j]
    PROVE  j = i /\ (kind = "update" => table'[j].text = t)
<1>1. table \in [Id -> Record \cup {None}] /\ table[j] \in Record /\ j \in Id
  BY DEF RecordsInv, RecordsTypeOK, Known
<1>2. CASE kind = "update" /\ CuratorUpdate(i, t)
  <2>1. table' = [table EXCEPT ![i].text = t, ![i].evidence = "inferred"]
    BY <1>2 DEF CuratorUpdate, Update, Refused, records
  <2>2. j = i
    BY <1>1, <2>1
  <2> QED
    BY <1>1, <2>1, <2>2 DEF Record
<1>3. CASE kind = "deprecate" /\ CuratorDeprecate(i)
  <2>1. table' = [table EXCEPT ![i].retired = TRUE, ![i].since = run.at]
    BY <1>3 DEF CuratorDeprecate, Deprecate, Refused, records
  <2> QED
    BY <1>1, <1>3, <2>1
<1> QED
  BY <1>2, <1>3 DEF Funnel

\* Only a confirmed line reaches an identity record: the copies of a review, and
\* those a cycle changes without a quorum, are of the other section.
LEMMA IdentityAgreed ==
    RecordsInv /\ [Next]_vars =>
        \A i \in Known :
            Curating /\ table[i].section = "identity" /\ table'[i] # table[i] => Agreed(i)
<1> SUFFICES ASSUME RecordsInv, [Next]_vars, Curating, NEW j \in Known,
                    table[j].section = "identity", table'[j] # table[j]
             PROVE  Agreed(j)
  OBVIOUS
<1>1. /\ table \in [Id -> Record \cup {None}] /\ table[j] \in Record
      /\ j \in Id /\ table[j] # None
  BY DEF RecordsInv, RecordsTypeOK, Known
<1>2. /\ run.copies[j] # None => run.copies[j].section = "identity"
      /\ run.kind = "review" => run.copies[j] = None
  BY <1>1 DEF RecordsInv, CopiesKeepSection
<1>3. ASSUME NEW s \in {"identity", "context"}, NEW t \in Text, NEW e \in BOOLEAN,
             CycleInsert(s, t, e)
      PROVE  FALSE
  <2>1. UNCHANGED table \/ Added
    BY <1>3, InsertAdds DEF CycleInsert, Refused, records
  <2>2. j # used + 1
    BY <1>1 DEF RecordsInv, IdsInOrder, RecordsTypeOK
  <2> QED
    BY <1>1, <2>1, <2>2 DEF Added
<1>4. ASSUME NEW i \in Id, NEW k \in {"update", "deprecate"}, NEW t \in Text,
             CycleMutateContext(i, k, t)
      PROVE  FALSE
  <2>1. Funnel(i, k, t) /\ run.copies[i] # None /\ run.copies[i].section # "identity"
    BY <1>4 DEF CycleMutateContext, Judged
  <2>2. j = i
    BY <2>1, FunnelChanges
  <2> QED
    BY <1>2, <2>1, <2>2
<1>5. ASSUME NEW i \in Id, NEW k \in {"update", "deprecate"}, NEW t \in Text,
             CycleConfirms(i, k, t)
      PROVE  Agreed(j)
  <2>1. Funnel(i, k, t)
    BY <1>5 DEF CycleConfirms
  <2>2. j = i /\ (k = "update" => table'[j].text = t)
    BY <2>1, FunnelChanges
  <2>3. PICK v \in votes : /\ v.cycle < runs /\ run.at - v.at <= ConfirmWindow
                           /\ v.change = Change(i, k, t)
    BY <1>5, ConfirmedIsAgreed
  <2>4. Change(i, k, t) \in {Change(j, "update", table'[j].text), Change(j, "deprecate", None)}
    BY <2>2 DEF Change
  <2> QED
    BY <2>3, <2>4 DEF Agreed
<1>6. ASSUME NEW i \in Id, NEW k \in {"update", "deprecate"}, NEW t \in Text,
             CycleProposes(i, k, t)
      PROVE  FALSE
  BY <1>6 DEF CycleProposes, Refused, records
<1>7. ASSUME NEW i \in Id, ReviewDeprecates(i) \/ \E e \in BOOLEAN : ReviewKeeps(i, e)
      PROVE  FALSE
  <2>1. run.kind = "review" /\ run.copies[i] # None
    BY <1>7 DEF ReviewDeprecates, ReviewKeeps, OpOf
  <2>2. j = i
    BY <1>1, <1>7
       DEF ReviewDeprecates, CuratorDeprecate, Deprecate, ReviewKeeps, Keep, Refused, records
  <2> QED
    BY <1>2, <2>1, <2>2
<1> QED
  BY <1>3, <1>4, <1>5, <1>6, <1>7, LinesAreActs DEF CycleActs, ReviewActs

-----------------------------------------------------------------------------
(* The law of a record.                                                    *)

Stage(r) == IF r.retired THEN "retired" ELSE "live"
LifeOf(i, tab, n) ==
    IF i > n THEN "absent" ELSE IF tab[i] = None THEN "purged" ELSE Stage(tab[i])

\* The mapped state is functions over the ids, given point by point.
LEMMA MappedState ==
    ASSUME RecordsInv, RecordsInv'
    PROVE  /\ Life = [i \in Id |-> LifeOf(i, table, used)]
           /\ Life' = [i \in Id |-> LifeOf(i, table', used')]
           /\ \A i \in Id : TextOf[i] = IF table[i] = None THEN None ELSE table[i].text
           /\ \A i \in Id : TextOf'[i] = IF table'[i] = None THEN None ELSE table'[i].text
           /\ TextOf \in [Id -> Text \cup {None}] /\ TextOf' \in [Id -> Text \cup {None}]
           /\ \A i \in Id : i \in Held <=> table[i] # None /\ table[i].locked
           /\ \A i \in Id : i \in Held' <=> table'[i] # None /\ table'[i].locked
           /\ Held \subseteq Id /\ Held' \subseteq Id
<1>1. /\ table \in [Id -> Record \cup {None}] /\ table' \in [Id -> Record \cup {None}]
  BY DEF RecordsInv, RecordsTypeOK
<1>2. Life = [i \in Id |-> LifeOf(i, table, used)] /\ Life' = [i \in Id |-> LifeOf(i, table', used')]
  BY DEF Life, LifeOf, Stage
<1>3. /\ \A i \in Id : TextOf[i] = IF table[i] = None THEN None ELSE table[i].text
      /\ \A i \in Id : TextOf'[i] = IF table'[i] = None THEN None ELSE table'[i].text
  BY DEF TextOf
<1>4. TextOf \in [Id -> Text \cup {None}] /\ TextOf' \in [Id -> Text \cup {None}]
  BY <1>1 DEF TextOf, Record
<1>5. /\ \A i \in Id : i \in Held <=> table[i] # None /\ table[i].locked
      /\ \A i \in Id : i \in Held' <=> table'[i] # None /\ table'[i].locked
      /\ Held \subseteq Id /\ Held' \subseteq Id
  BY DEF Held, Known
<1> QED
  BY <1>2, <1>3, <1>4, <1>5

\* A change of the one record i, in the table and as the law sees it.
Becomes(i, r) ==
    /\ table' = [table EXCEPT ![i] = r]
    /\ (UNCHANGED used /\ i <= used) \/ (i = used + 1 /\ used' = i)
LawSees(i, r) ==
    /\ Life' = [Life EXCEPT ![i] = Stage(r)]
    /\ TextOf' = [TextOf EXCEPT ![i] = r.text]
    /\ (r.locked => Held' = Held \cup {i}) /\ (~r.locked => Held' = Held \ {i})

\* The law sees a change of the record i as a change at i alone.
LEMMA OneRecord ==
    ASSUME RecordsInv, RecordsInv', NEW i \in Id, NEW r \in Record, Becomes(i, r)
    PROVE  LawSees(i, r)
<1> USE DEF Becomes
<1>1. /\ table \in [Id -> Record \cup {None}] /\ used \in Nat /\ used' \in Nat
      /\ i \in Nat /\ \A j \in Id : j \in Nat
      /\ \A j \in Id : j > used => table[j] = None
  BY RecordsAssumption DEF RecordsInv, RecordsTypeOK, IdsInOrder, Id
<1>2. table'[i] = r /\ r # None /\ \A j \in Id : j # i => table'[j] = table[j]
  BY <1>1, RecordsAssumption
<1>3. \A j \in Id : j > used' => table'[j] = None
  BY DEF RecordsInv, IdsInOrder
<1>4. LifeOf(i, table', used') = Stage(r)
  BY <1>1, <1>2 DEF LifeOf
<1>5. ASSUME NEW j \in Id, j # i
      PROVE  LifeOf(j, table', used') = LifeOf(j, table, used)
  BY <1>1, <1>2, <1>5 DEF LifeOf
<1>6. Life' = [Life EXCEPT ![i] = Stage(r)]
  <2>1. \A j \in Id : Life'[j] = LifeOf(j, table', used') /\ Life[j] = LifeOf(j, table, used)
    BY MappedState
  <2>2. \A j \in Id : Life'[j] = IF j = i THEN Stage(r) ELSE Life[j]
    BY <1>4, <1>5, <2>1
  <2>3. Life' = [j \in Id |-> Life'[j]] /\ Life = [j \in Id |-> Life[j]]
    BY MappedState
  <2> QED
    BY <2>2, <2>3
<1>7. TextOf' = [TextOf EXCEPT ![i] = r.text]
  BY <1>2, MappedState
<1>8. (r.locked => Held' = Held \cup {i}) /\ (~r.locked => Held' = Held \ {i})
  <2>1. \A j \in Id : j # i => (j \in Held' <=> j \in Held)
    BY <1>2, MappedState
  <2>2. (i \in Held' <=> r.locked) /\ Held \subseteq Id /\ Held' \subseteq Id
    BY <1>2, MappedState
  <2> QED
    BY <2>1, <2>2
<1> QED
  BY <1>6, <1>7, <1>8 DEF LawSees

\* Each step of the table is a step of the law, or none.
LEMMA LawStep ==
    ASSUME RecordsInv, RecordsInv', TableStep
    PROVE  [Law!Next]_(Law!vars)
<1>0. /\ table \in [Id -> Record \cup {None}] /\ used \in Nat /\ used' \in 0 .. MaxRecords
      /\ \A i \in Id : i \in Nat
      /\ \A i \in Id : i > used => table[i] = None
  BY TableKept, RecordsAssumption DEF RecordsInv, RecordsTypeOK, IdsInOrder, Id
<1>1. CASE Untouched
  BY <1>1 DEF Untouched, Law!vars, Life, TextOf, Held, Known
<1>2. CASE Added
  <2>1. PICK r \in Record : ~r.retired /\ table' = [table EXCEPT ![used + 1] = r]
    BY <1>2 DEF Added
  <2>2. used + 1 \in Id /\ used' = used + 1
    BY <1>0, <1>2, RecordsAssumption DEF Added, Id
  <2>3. /\ Life' = [Life EXCEPT ![used + 1] = "live"]
        /\ TextOf' = [TextOf EXCEPT ![used + 1] = r.text]
        /\ Held' \in {Held, Held \cup {used + 1}}
    <3>1. used + 1 \notin Held
      BY <1>0, <2>2, MappedState
    <3>2. Stage(r) = "live"
      BY <2>1 DEF Stage
    <3>3. LawSees(used + 1, r)
      BY <2>1, <2>2, OneRecord DEF Becomes
    <3> QED
      BY <2>1, <2>2, <3>1, <3>2, <3>3 DEF LawSees
  <2>4. Life[used + 1] = "absent" /\ r.text \in Text
    BY <1>0, <2>2, MappedState DEF LifeOf, Record
  <2> QED
    BY <2>2, <2>3, <2>4 DEF Law!Next, Law!Insert
<1>3. ASSUME NEW i \in Id, NEW r \in Record, table[i] \in Record, UNCHANGED used,
             table' = [table EXCEPT ![i] = r]
      PROVE  /\ LawSees(i, r) /\ Life[i] = Stage(table[i]) /\ TextOf[i] = table[i].text
             /\ i \in Held <=> table[i].locked
  <2>1. i <= used /\ table[i] # None
    BY <1>0, <1>3, RecordsAssumption
  <2>2. Life[i] = Stage(table[i]) /\ TextOf[i] = table[i].text /\ (i \in Held <=> table[i].locked)
    BY <1>0, <1>3, <2>1, MappedState DEF LifeOf
  <2>3. Becomes(i, r)
    BY <1>3, <2>1 DEF Becomes
  <2>4. LawSees(i, r)
    BY <2>3, OneRecord
  <2> QED
    BY <2>2, <2>4
<1>4. ASSUME NEW i \in Id, Rewritten(i) PROVE Law!Rewrite(i)
  <2>1. PICK t \in Text, v \in {"host", "inferred"} :
            table' = [table EXCEPT ![i].text = t, ![i].evidence = v]
    BY <1>4 DEF Rewritten
  <2> DEFINE r == [table[i] EXCEPT !.text = t, !.evidence = v]
  <2>2. table[i] \in Record /\ ~table[i].retired /\ ~table[i].locked /\ UNCHANGED used
    BY <1>0, <1>4 DEF Rewritten, Live, Known
  <2>3. r \in Record /\ r.text = t /\ ~r.retired /\ ~r.locked /\ table' = [table EXCEPT ![i] = r]
    BY <1>0, <2>1, <2>2 DEF Record
  <2> HIDE DEF r
  <2>4. /\ Life' = [Life EXCEPT ![i] = "live"] /\ Life[i] = "live"
        /\ TextOf' = [TextOf EXCEPT ![i] = t] /\ i \notin Held /\ Held' = Held \ {i}
    BY <1>3, <2>2, <2>3 DEF Stage, LawSees
  <2>5. Life' = Life /\ Held' = Held
    BY <2>4, MappedState
  <2> QED
    BY <2>4, <2>5 DEF Law!Rewrite
<1>5. ASSUME NEW i \in Id, Retired(i) PROVE Law!Retire(i)
  <2>1. PICK at \in Nat : table' = [table EXCEPT ![i].retired = TRUE, ![i].since = at]
    BY <1>5 DEF Retired
  <2> DEFINE r == [table[i] EXCEPT !.retired = TRUE, !.since = at]
  <2>2. table[i] \in Record /\ ~table[i].retired /\ ~table[i].locked /\ UNCHANGED used
    BY <1>0, <1>5 DEF Retired, Live, Known
  <2>3. /\ r \in Record /\ r.text = table[i].text /\ r.retired /\ ~r.locked
        /\ table' = [table EXCEPT ![i] = r]
    BY <1>0, <2>1, <2>2 DEF Record
  <2> HIDE DEF r
  <2>4. /\ Life' = [Life EXCEPT ![i] = "retired"] /\ Life[i] = "live"
        /\ TextOf' = [TextOf EXCEPT ![i] = TextOf[i]] /\ i \notin Held /\ Held' = Held \ {i}
    BY <1>3, <2>2, <2>3 DEF Stage, LawSees
  <2>5. TextOf' = TextOf /\ Held' = Held
    BY <2>4, MappedState
  <2> QED
    BY <2>4, <2>5 DEF Law!Retire
<1>6. ASSUME NEW i \in Id, Rescued(i) PROVE Law!Rescue(i) \/ UNCHANGED Law!vars
  <2> DEFINE r == [table[i] EXCEPT !.retired = FALSE, !.since = 0]
  <2>1. table[i] \in Record /\ ~table[i].locked /\ UNCHANGED used
    BY <1>0, <1>6 DEF Rescued, Known
  <2>2. /\ r \in Record /\ r.text = table[i].text /\ ~r.retired /\ ~r.locked
        /\ table' = [table EXCEPT ![i] = r]
    BY <1>0, <1>6, <2>1 DEF Rescued, Record
  <2> HIDE DEF r
  <2>3. /\ LawSees(i, r) /\ Life[i] = Stage(table[i]) /\ TextOf[i] = table[i].text
        /\ i \in Held <=> table[i].locked
    BY <1>3, <2>1, <2>2
  <2>4. Stage(r) = "live" /\ Stage(table[i]) \in {"live", "retired"}
    BY <2>2 DEF Stage
  <2>5. /\ Life' = [Life EXCEPT ![i] = "live"] /\ Life[i] \in {"live", "retired"}
        /\ TextOf' = [TextOf EXCEPT ![i] = TextOf[i]] /\ i \notin Held /\ Held' = Held \ {i}
    BY <2>1, <2>2, <2>3, <2>4 DEF LawSees
  <2>6. TextOf' = TextOf /\ Held' = Held /\ (Life[i] = "live" => Life' = Life)
    BY <2>5, MappedState
  <2> QED
    BY <2>5, <2>6 DEF Law!Rescue, Law!vars
<1>7. ASSUME NEW i \in Id, Relocked(i) PROVE Law!Hold(i)
  <2>1. PICK value \in BOOLEAN : table' = [table EXCEPT ![i].locked = value]
    BY <1>7 DEF Relocked
  <2> DEFINE r == [table[i] EXCEPT !.locked = value]
  <2>2. table[i] \in Record /\ UNCHANGED used
    BY <1>0, <1>7 DEF Relocked, Known
  <2>3. /\ r \in Record /\ r.text = table[i].text /\ r.retired = table[i].retired
        /\ table' = [table EXCEPT ![i] = r]
    BY <1>0, <2>1, <2>2 DEF Record
  <2> HIDE DEF r
  <2>4. LawSees(i, r) /\ Life[i] = Stage(table[i]) /\ TextOf[i] = table[i].text
    BY <1>3, <2>2, <2>3
  <2>5. Stage(r) = Stage(table[i]) /\ Stage(r) \in {"live", "retired"}
    BY <2>3 DEF Stage
  <2>6. r.locked \in BOOLEAN
    BY <2>3 DEF Record
  <2>7. /\ Life' = [Life EXCEPT ![i] = Life[i]] /\ Life[i] \in {"live", "retired"}
        /\ TextOf' = [TextOf EXCEPT ![i] = TextOf[i]]
        /\ Held' \in {Held \cup {i}, Held \ {i}}
    BY <2>3, <2>4, <2>5, <2>6 DEF LawSees
  <2>8. Life' = Life /\ TextOf' = TextOf
    BY <2>7, MappedState
  <2> QED
    BY <2>7, <2>8 DEF Law!Hold
<1>8. ASSUME NEW S \in SUBSET Id, Purged(S) PROVE Law!Purge(S)
  <2>1. /\ UNCHANGED used /\ \A i \in S : table[i] # None /\ table[i].retired
        /\ table' = [i \in Id |-> IF i \in S THEN None ELSE table[i]]
    BY <1>8 DEF Purged, Known
  <2>2. \A i \in S : LifeOf(i, table, used) = "retired" /\ LifeOf(i, table', used') = "purged"
    BY <1>0, <2>1 DEF LifeOf, Stage
  <2>3. \A i \in Id \ S : LifeOf(i, table', used') = LifeOf(i, table, used)
    BY <2>1 DEF LifeOf
  <2>4. /\ \A i \in S : Life[i] = "retired"
        /\ Life' = [i \in Id |-> IF i \in S THEN "purged" ELSE Life[i]]
    BY <2>2, <2>3, MappedState
  <2>5. Held' = Held \ S
    BY <2>1, MappedState
  <2>6. (\A i \in Id \ S : TextOf'[i] = TextOf[i]) /\ TextOf' \in [Id -> Text \cup {None}]
    BY <2>1, MappedState
  <2> QED
    BY <2>4, <2>5, <2>6 DEF Law!Purge
<1> QED
  BY <1>1, <1>2, <1>4, <1>5, <1>6, <1>7, <1>8 DEF TableStep, Law!Next

\* An empty store is where the law begins.
LEMMA LawInit == Init => Law!Init
<1> SUFFICES ASSUME Init PROVE Law!Init
  OBVIOUS
<1>1. \A i \in Id : table[i] = None /\ i > used
  BY RecordsAssumption DEF Init, Id
<1> QED
  BY <1>1 DEF Law!Init, Life, TextOf, Held, Known

-----------------------------------------------------------------------------
(* The index: a put and a swap-remove keep rows and records in step.       *)

(* A set of numbers that is not empty has a least one. *)
LEMMA LeastNatural ==
    ASSUME NEW T \in SUBSET Nat, T # {}
    PROVE  \E m \in T : \A n \in T : m <= n
<1>1. IsWellFoundedOn(OpToRel(<,Nat), Nat)
  BY NatLessThanWellFounded
<1>2. PICK m \in T : \A n \in T : <<n, m>> \notin OpToRel(<,Nat)
  BY <1>1, WFMin, Zenon
<1>3. \A n \in T : n \in Nat /\ m \in Nat /\ ~(n < m)
  BY <1>2 DEF OpToRel
<1> QED
  BY <1>3

(* A set that has 0 and, with each number up to N, the next has them all. *)
LEMMA UpTo ==
    ASSUME NEW N \in Nat, NEW S, 0 \in S, \A n \in 1 .. N : n - 1 \in S => n \in S
    PROVE  \A n \in 0 .. N : n \in S
<1> DEFINE T == {n \in 0 .. N : n \notin S}
<1> SUFFICES ASSUME T # {} PROVE FALSE
  OBVIOUS
<1>1. PICK m \in T : \A n \in T : m <= n
  <2>1. T \in SUBSET Nat
    OBVIOUS
  <2> HIDE DEF T
  <2> QED
    BY <2>1, LeastNatural
<1>2. m # 0 /\ m \in 1 .. N /\ m - 1 \in 0 .. N /\ m - 1 < m
  BY <1>1
<1> QED
  BY <1>1, <1>2

\* Rows are dense, and every record knows its own.
Dense(ix) ==
    /\ ix = [recs |-> ix.recs, vecs |-> ix.vecs, row |-> ix.row]
    /\ ix.recs \in Seq(Id) /\ ix.vecs \in Seq(Text) /\ ix.row \in [Id -> Nat]
    /\ Len(ix.recs) = Len(ix.vecs)
    /\ \A r \in 1 .. Len(ix.recs) : ix.row[ix.recs[r]] = r
    /\ \A i \in Id : ix.row[i] > 0 =>
           ix.row[i] <= Len(ix.recs) /\ ix.recs[ix.row[i]] = i

VecOf(ix, i) == ix.vecs[ix.row[i]]

\* A record has a row in both, with the same vector, or in neither.
SameRow(ix, jx, i) ==
    /\ jx.row[i] > 0 <=> ix.row[i] > 0
    /\ ix.row[i] > 0 => VecOf(jx, i) = VecOf(ix, i)

LEMMA PutKeepsRows ==
    ASSUME NEW ix, Dense(ix), NEW i \in Id, NEW v \in Text
    PROVE  LET jx == IndexPut(ix, i, v)
           IN  /\ Dense(jx) /\ jx.row[i] > 0 /\ VecOf(jx, i) = v
               /\ \A j \in Id \ {i} : SameRow(ix, jx, j)
<1> DEFINE recs == ix.recs  vecs == ix.vecs  row == ix.row  n == Len(recs)
<1>0. /\ ix = [recs |-> recs, vecs |-> vecs, row |-> row]
      /\ recs \in Seq(Id) /\ vecs \in Seq(Text) /\ row \in [Id -> Nat]
      /\ Len(recs) = Len(vecs) /\ n \in Nat
      /\ \A r \in 1 .. n : row[recs[r]] = r
      /\ \A j \in Id : row[j] > 0 => row[j] <= n /\ recs[row[j]] = j
  BY DEF Dense
<1> HIDE DEF recs, vecs, row
<1>1. CASE row[i] > 0
  <2> DEFINE w == [vecs EXCEPT ![row[i]] = v]
             jx == [recs |-> recs, vecs |-> w, row |-> row]
  <2>1. IndexPut(ix, i, v) = jx
    <3>1. IndexPut(ix, i, v) = [ix EXCEPT !.vecs[row[i]] = v]
      BY <1>1 DEF IndexPut, row
    <3> QED
      BY <1>0, <3>1
  <2>2. w \in Seq(Text) /\ Len(w) = n /\ w[row[i]] = v
        /\ \A r \in 1 .. n : r # row[i] => w[r] = vecs[r]
    BY <1>0, <1>1
  <2> HIDE DEF w
  <2>3. Dense(jx)
    BY <1>0, <2>2 DEF Dense
  <2>4. jx.row[i] > 0 /\ VecOf(jx, i) = v
    BY <1>0, <1>1, <2>2 DEF VecOf
  <2>5. ASSUME NEW j \in Id, j # i PROVE SameRow(ix, jx, j)
    <3>1. row[j] > 0 => row[j] \in 1 .. n /\ row[j] # row[i]
      BY <1>0, <1>1, <2>5
    <3>2. ix.row = row /\ ix.vecs = vecs
      BY DEF row, vecs
    <3> QED
      BY <2>2, <3>1, <3>2 DEF SameRow, VecOf
  <2> HIDE DEF jx
  <2> QED
    BY <2>1, <2>3, <2>4, <2>5
<1>2. CASE ~(row[i] > 0)
  <2> DEFINE a == Append(recs, i)  w == Append(vecs, v)  q == [row EXCEPT ![i] = n + 1]
             jx == [recs |-> a, vecs |-> w, row |-> q]
  <2>1. IndexPut(ix, i, v) = jx
    BY <1>2 DEF IndexPut, row, recs, vecs
  <2>2. /\ a \in Seq(Id) /\ Len(a) = n + 1 /\ a[n + 1] = i
        /\ \A r \in 1 .. n : a[r] = recs[r]
        /\ w \in Seq(Text) /\ Len(w) = n + 1 /\ w[n + 1] = v
        /\ \A r \in 1 .. n : w[r] = vecs[r]
    BY <1>0
  <2>3. q \in [Id -> Nat] /\ q[i] = n + 1 /\ \A j \in Id : j # i => q[j] = row[j]
    BY <1>0
  <2>4. ASSUME NEW r \in 1 .. n PROVE recs[r] \in Id /\ recs[r] # i
    <3>1. recs[r] \in Id
      BY <1>0, ElementOfSeq
    <3>2. row[recs[r]] > 0 /\ row[i] \in Nat
      BY <1>0
    <3> QED
      BY <1>2, <3>1, <3>2, Zenon
  <2> HIDE DEF a, w, q
  <2>5. ASSUME NEW r \in 1 .. n + 1 PROVE q[a[r]] = r
    <3>1. CASE r = n + 1
      BY <2>2, <2>3, <3>1
    <3>2. CASE r # n + 1
      <4>1. r \in 1 .. n
        BY <1>0, <3>2
      <4>2. a[r] \in Id /\ a[r] # i /\ row[a[r]] = r
        BY <1>0, <2>2, <2>4, <4>1
      <4> QED
        BY <2>3, <4>2
    <3> QED
      BY <3>1, <3>2
  <2>6. \A j \in Id : q[j] > 0 => q[j] <= n + 1 /\ a[q[j]] = j
    <3> SUFFICES ASSUME NEW j \in Id, q[j] > 0 PROVE q[j] <= n + 1 /\ a[q[j]] = j
      OBVIOUS
    <3>1. CASE j = i
      BY <1>0, <2>2, <2>3, <3>1
    <3>2. CASE j # i
      <4>1. q[j] = row[j] /\ row[j] \in 1 .. n /\ recs[row[j]] = j
        BY <1>0, <2>3, <3>2
      <4> QED
        BY <1>0, <2>2, <4>1
    <3> QED
      BY <3>1, <3>2
  <2>7. Dense(jx)
    BY <1>0, <2>2, <2>3, <2>5, <2>6 DEF Dense
  <2>8. jx.row[i] > 0 /\ VecOf(jx, i) = v
    BY <1>0, <2>2, <2>3 DEF VecOf
  <2>9. ASSUME NEW j \in Id, j # i PROVE SameRow(ix, jx, j)
    <3>1. q[j] = row[j] /\ (row[j] > 0 => row[j] \in 1 .. n)
      BY <1>0, <2>3, <2>9
    <3>2. ix.row = row /\ ix.vecs = vecs
      BY DEF row, vecs
    <3> QED
      BY <2>2, <3>1, <3>2 DEF SameRow, VecOf
  <2> HIDE DEF jx
  <2> QED
    BY <2>1, <2>7, <2>8, <2>9
<1> QED
  BY <1>1, <1>2

LEMMA RemoveKeepsRows ==
    ASSUME NEW ix, Dense(ix), NEW i \in Id
    PROVE  LET jx == IndexRemove(ix, i)
           IN  /\ Dense(jx) /\ jx.row[i] = 0
               /\ \A j \in Id \ {i} : SameRow(ix, jx, j)
<1> DEFINE recs == ix.recs  vecs == ix.vecs  row == ix.row  n == Len(recs)  r == row[i]
<1>0. /\ ix = [recs |-> recs, vecs |-> vecs, row |-> row]
      /\ recs \in Seq(Id) /\ vecs \in Seq(Text) /\ row \in [Id -> Nat]
      /\ Len(recs) = Len(vecs) /\ n \in Nat
      /\ \A s \in 1 .. n : row[recs[s]] = s /\ recs[s] \in Id
      /\ \A j \in Id : row[j] > 0 => row[j] <= n /\ recs[row[j]] = j
  <2>1. \A s \in 1 .. n : recs[s] \in Id
    BY ElementOfSeq DEF Dense
  <2> QED
    BY <2>1 DEF Dense
<1>1. CASE r = 0
  BY <1>1 DEF IndexRemove, SameRow
<1>2. CASE r # 0
  <2> DEFINE Moved(x) == [x EXCEPT ![r] = x[n]]
             a0 == Moved(recs)  w0 == Moved(vecs)
             a == Front(a0)  w == Front(w0)
             q0 == [row EXCEPT ![recs[n]] = r]
             q == [q0 EXCEPT ![i] = 0]
             jx == [recs |-> a, vecs |-> w, row |-> q]
  <2>0. r \in 1 .. n /\ n \in 1 .. n /\ recs[n] \in Id /\ row[recs[n]] = n /\ recs[r] = i
        /\ n - 1 \in Nat
    <3>1. r \in Nat /\ r > 0
      BY <1>0, <1>2
    <3>2. r <= n /\ recs[r] = i
      BY <1>0, <3>1
    <3>3. r \in 1 .. n /\ n \in 1 .. n /\ n - 1 \in Nat
      BY <1>0, <3>1, <3>2
    <3> QED
      BY <1>0, <3>2, <3>3
  <2>1. IndexRemove(ix, i) = jx
    <3>1. r = ix.row[i] /\ n = Len(ix.recs) /\ recs = ix.recs /\ vecs = ix.vecs /\ row = ix.row
      OBVIOUS
    <3>2. q = [row EXCEPT ![recs[n]] = r, ![i] = 0]
      OBVIOUS
    <3> HIDE DEF q, recs, vecs, row, n
    <3> QED
      BY <1>2, <3>1, <3>2 DEF IndexRemove
  <2> HIDE DEF recs, vecs, row, n, r
  <2>2. /\ a0 \in Seq(Id) /\ Len(a0) = n /\ a0[r] = recs[n]
        /\ \A s \in 1 .. n : s # r => a0[s] = recs[s]
        /\ w0 \in Seq(Text) /\ Len(w0) = n /\ w0[r] = vecs[n]
        /\ \A s \in 1 .. n : s # r => w0[s] = vecs[s]
    <3>1. ASSUME NEW X, NEW x \in Seq(X), Len(x) = n
          PROVE  /\ Moved(x) \in Seq(X) /\ Len(Moved(x)) = n /\ Moved(x)[r] = x[n]
                 /\ \A s \in 1 .. n : s # r => Moved(x)[s] = x[s]
      <4>1. x[n] \in X
        BY <2>0, <3>1, ElementOfSeq
      <4>2. Moved(x) \in Seq(X) /\ Len(Moved(x)) = n
        BY <2>0, <3>1, <4>1, ExceptSeq
      <4>3. DOMAIN x = 1 .. n
        BY <3>1
      <4> QED
        BY <2>0, <4>2, <4>3
    <3> HIDE DEF Moved
    <3>2. vecs \in Seq(Text) /\ Len(vecs) = n /\ recs \in Seq(Id) /\ Len(recs) = n
      BY <1>0 DEF n
    <3>3. /\ a0 \in Seq(Id) /\ Len(a0) = n /\ a0[r] = recs[n]
          /\ \A s \in 1 .. n : s # r => a0[s] = recs[s]
      BY <3>1, <3>2
    <3>4. /\ w0 \in Seq(Text) /\ Len(w0) = n /\ w0[r] = vecs[n]
          /\ \A s \in 1 .. n : s # r => w0[s] = vecs[s]
      BY <3>1, <3>2
    <3> QED
      BY <3>3, <3>4
  <2> HIDE DEF a0, w0
  <2>3. /\ a \in Seq(Id) /\ Len(a) = n - 1 /\ \A s \in 1 .. n - 1 : a[s] = a0[s]
        /\ w \in Seq(Text) /\ Len(w) = n - 1 /\ \A s \in 1 .. n - 1 : w[s] = w0[s]
    BY <1>0, <2>0, <2>2 DEF Front
  <2>4. /\ q \in [Id -> Nat] /\ q[i] = 0
        /\ recs[n] # i => q[recs[n]] = r
        /\ \A j \in Id : j # i /\ j # recs[n] => q[j] = row[j]
    BY <1>0, <2>0
  <2> HIDE DEF a, w, q
  <2>5. ASSUME NEW s \in 1 .. n - 1 PROVE q[a[s]] = s
    <3>0. s \in 1 .. n /\ s # n
      BY <1>0
    <3>1. s \in 1 .. n /\ s # n /\ a[s] = IF s = r THEN recs[n] ELSE recs[s]
      BY <3>0, <2>2, <2>3
    <3>2. CASE s = r
      <4>1. recs[n] # i
        BY <1>0, <2>0, <3>1, <3>2
      <4> QED
        BY <2>4, <3>1, <3>2, <4>1
    <3>3. CASE s # r
      <4>1. recs[s] \in Id /\ row[recs[s]] = s /\ recs[s] # i /\ recs[s] # recs[n]
        BY <1>0, <2>0, <3>1, <3>3
      <4> QED
        BY <2>4, <3>1, <3>3, <4>1
    <3> QED
      BY <3>2, <3>3
  <2>6. ASSUME NEW j \in Id, j # i
        PROVE  /\ q[j] > 0 <=> row[j] > 0
               /\ row[j] > 0 => /\ q[j] \in 1 .. n - 1 /\ a[q[j]] = j
                                /\ w[q[j]] = vecs[row[j]]
    <3>1. CASE j = recs[n]
      <4>1. row[j] = n /\ q[j] = r /\ r # n
        BY <1>0, <2>0, <2>4, <2>6, <3>1
      <4>2. r \in 1 .. n - 1
        BY <1>0, <2>0, <4>1
      <4>3. a[r] = recs[n] /\ w[r] = vecs[n]
        BY <2>2, <2>3, <4>2
      <4>4. n > 0 /\ r > 0
        BY <2>0
      <4> QED
        BY <3>1, <4>1, <4>2, <4>3, <4>4
    <3>2. CASE j # recs[n]
      <4>1. q[j] = row[j]
        BY <2>4, <2>6, <3>2
      <4>2. CASE row[j] > 0
        <5>1. row[j] \in 1 .. n /\ recs[row[j]] = j /\ row[j] # r /\ row[j] # n
          BY <1>0, <2>0, <2>6, <3>2, <4>2
        <5>2. row[j] \in 1 .. n - 1
          BY <1>0, <5>1
        <5> QED
          BY <2>2, <2>3, <4>1, <4>2, <5>1, <5>2
      <4> QED
        BY <4>1, <4>2
    <3> QED
      BY <3>1, <3>2
  <2>7. Dense(jx)
    <3>1. \A j \in Id : q[j] > 0 => q[j] <= n - 1 /\ a[q[j]] = j
      BY <1>0, <2>4, <2>6
    <3> QED
      BY <2>3, <2>4, <2>5, <3>1 DEF Dense
  <2>8. ASSUME NEW j \in Id, j # i PROVE SameRow(ix, jx, j)
    <3>1. ix.row = row /\ ix.vecs = vecs
      BY DEF row, vecs
    <3> QED
      BY <2>6, <2>8, <3>1 DEF SameRow, VecOf
  <2>9. jx.row[i] = 0
    BY <2>4
  <2> HIDE DEF jx
  <2> QED
    BY <2>1, <2>7, <2>8, <2>9
<1> QED
  BY <1>1, <1>2

\* Records without a row are no loss to the index.
LEMMA WithoutNone ==
    ASSUME NEW ix, NEW S, \A i \in S : ix.row[i] = 0
    PROVE  IndexWithout(ix, S) = ix
<1> DEFINE N == MaxRecords
           Next1(n, x) == LET i == N + 1 - n IN IF i \in S THEN IndexRemove(x, i) ELSE x
           E(f) == [n \in 0 .. N |-> IF n = 0 THEN ix ELSE Next1(n, f[n - 1])]
           g == [n \in 0 .. N |-> ix]
<1>0. N \in Nat
  BY RecordsAssumption
<1>1. \A n \in 1 .. N : Next1(n, ix) = ix
  BY DEF IndexRemove
<1> HIDE DEF Next1
<1>2. g = E(g)
  <2>1. \A n \in 0 .. N : n # 0 => n \in 1 .. N /\ n - 1 \in 0 .. N
    BY <1>0
  <2>2. \A n \in 0 .. N : n # 0 => Next1(n, g[n - 1]) = ix
    BY <1>1, <2>1
  <2>3. \A n \in 0 .. N : g[n] = IF n = 0 THEN ix ELSE Next1(n, g[n - 1])
    BY <2>2
  <2> QED
    BY <2>3, Zenon
<1> DEFINE f == CHOOSE x : x = E(x)
<1>3. f = E(f)
  BY <1>2, Zenon
<1>4. IndexWithout(ix, S) = f[N]
  BY Zenon DEF IndexWithout, Next1
<1> HIDE DEF f
<1>5. \A n \in 0 .. N : n \in {k \in 0 .. N : f[k] = ix}
  <2> DEFINE T == {k \in 0 .. N : f[k] = ix}
  <2>1. 0 \in T
    BY <1>0, <1>3
  <2>2. ASSUME NEW n \in 1 .. N, n - 1 \in T PROVE n \in T
    <3>1. n \in 0 .. N /\ n # 0 /\ f[n - 1] = ix
      BY <1>0, <2>2
    <3>2. f[n] = Next1(n, f[n - 1])
      BY <1>3, <3>1
    <3> QED
      BY <1>1, <3>1, <3>2
  <2> HIDE DEF T
  <2>3. \A n \in 0 .. N : n \in T
    BY <1>0, <2>1, <2>2, UpTo, Zenon
  <2> QED
    BY <2>3 DEF T
<1> QED
  BY <1>0, <1>4, <1>5

\* Rows that are put one after the other: each has its vector, the others theirs.
LEMMA WithRows ==
    ASSUME NEW ix, Dense(ix), NEW S \in SUBSET Id, NEW vec, \A i \in S : vec[i] \in Text
    PROVE  LET jx == IndexWith(ix, S, vec)
           IN  /\ Dense(jx)
               /\ \A i \in S : jx.row[i] > 0 /\ VecOf(jx, i) = vec[i]
               /\ \A i \in Id \ S : SameRow(ix, jx, i)
<1> DEFINE N == MaxRecords
           Next1(n, x) == IF n \in S THEN IndexPut(x, n, vec[n]) ELSE x
           E(f) == [n \in 0 .. N |-> IF n = 0 THEN ix ELSE Next1(n, f[n - 1])]
           G(g, k) == /\ g = [n \in 0 .. k |-> g[n]] /\ g[0] = ix
                      /\ \A n \in 1 .. k : g[n] = Next1(n, g[n - 1])
<1>0. N \in Nat /\ \A n \in 0 .. N : n # 0 => n \in 1 .. N /\ n - 1 \in 0 .. N
  BY RecordsAssumption
<1> HIDE DEF Next1
<1>1. \A k \in 0 .. N : \E g : G(g, k)
  <2> DEFINE T == {k \in 0 .. N : \E g : G(g, k)}
  <2>1. 0 \in T
    <3>1. G([n \in 0 .. 0 |-> ix], 0)
      OBVIOUS
    <3> HIDE DEF G
    <3> QED
      BY <1>0, <3>1
  <2>2. ASSUME NEW k \in 1 .. N, k - 1 \in T PROVE k \in T
    <3>1. PICK g : G(g, k - 1)
      BY <2>2
    <3> DEFINE h == [n \in 0 .. k |-> IF n = k THEN Next1(k, g[k - 1]) ELSE g[n]]
    <3>2. h = [n \in 0 .. k |-> h[n]] /\ h[0] = ix
      BY <1>0, <3>1
    <3>3. ASSUME NEW n \in 1 .. k PROVE h[n] = Next1(n, h[n - 1])
      <4>1. /\ k \in Nat /\ n \in Nat /\ n - 1 \in 0 .. k - 1 /\ n \in 0 .. k
            /\ n - 1 # k /\ n - 1 \in 0 .. k /\ (n # k => n \in 1 .. k - 1)
        BY <1>0
      <4>2. /\ h[n - 1] = g[n - 1]
            /\ h[n] = IF n = k THEN Next1(k, g[k - 1]) ELSE g[n]
        BY <4>1
      <4> HIDE DEF h
      <4> QED
        BY <3>1, <4>1, <4>2
    <3>4. G(h, k)
      BY <3>2, <3>3
    <3> HIDE DEF G, h
    <3> QED
      BY <1>0, <3>4
  <2> HIDE DEF T
  <2>3. \A k \in 0 .. N : k \in T
    BY <1>0, <2>1, <2>2, UpTo, Zenon
  <2> QED
    BY <2>3 DEF T
<1>2. PICK g : G(g, N)
  <2> HIDE DEF G
  <2>1. N \in 0 .. N
    BY <1>0
  <2> QED
    BY <1>1, <2>1
<1>3. g = E(g)
  <2>1. \A n \in 0 .. N : g[n] = IF n = 0 THEN ix ELSE Next1(n, g[n - 1])
    BY <1>0, <1>2, Zenon
  <2>2. g = [n \in 0 .. N |-> g[n]]
    BY <1>2
  <2> QED
    BY <2>1, <2>2, Zenon
<1> DEFINE f == CHOOSE x : x = E(x)
<1>4. f = E(f)
  BY <1>3, Zenon
<1>5. IndexWith(ix, S, vec) = f[N]
  BY Zenon DEF IndexWith, Next1
<1> HIDE DEF f
<1>6. f[0] = ix /\ \A n \in 1 .. N : f[n] = Next1(n, f[n - 1])
  <2>1. 0 \in 0 .. N /\ \A n \in 1 .. N : n \in 0 .. N /\ n # 0
    BY <1>0
  <2>2. \A n \in 0 .. N : f[n] = IF n = 0 THEN ix ELSE Next1(n, f[n - 1])
    BY <1>4
  <2> QED
    BY <2>1, <2>2, Zenon
<1> DEFINE Done(k) ==
             /\ Dense(f[k])
             /\ \A i \in Id : IF i \in S /\ i <= k THEN f[k].row[i] > 0 /\ VecOf(f[k], i) = vec[i]
                              ELSE SameRow(ix, f[k], i)
           T == {k \in 0 .. N : Done(k)}
<1>7. 0 \in T
  <2>1. \A i \in Id : ~(i <= 0) /\ SameRow(ix, ix, i)
    BY <1>0 DEF SameRow, Id
  <2> QED
    BY <1>0, <1>6, <2>1
<1>8. ASSUME NEW k \in 1 .. N, k - 1 \in T PROVE k \in T
  <2>1. k \in Id /\ k \in 0 .. N /\ Done(k - 1) /\ f[k] = Next1(k, f[k - 1])
    BY <1>0, <1>6, <1>8 DEF Id
  <2>2. \A i \in Id : i # k => (i <= k <=> i <= k - 1)
    BY <1>0 DEF Id
  <2>3. ~(k <= k - 1) /\ k <= k
    BY <1>0
  <2>4. CASE k \in S
    <3> DEFINE a == f[k - 1]  b == IndexPut(a, k, vec[k])
    <3>1. Dense(b) /\ b.row[k] > 0 /\ VecOf(b, k) = vec[k] /\ \A j \in Id \ {k} : SameRow(a, b, j)
      BY <2>1, <2>4, PutKeepsRows
    <3>2. f[k] = b
      BY <2>1, <2>4 DEF Next1
    <3>3. ASSUME NEW i \in Id
          PROVE IF i \in S /\ i <= k THEN b.row[i] > 0 /\ VecOf(b, i) = vec[i]
                ELSE SameRow(ix, b, i)
      <4>1. CASE i = k
        BY <2>3, <2>4, <3>1, <4>1
      <4>2. CASE i # k
        <5>1. IF i \in S /\ i <= k THEN a.row[i] > 0 /\ VecOf(a, i) = vec[i]
              ELSE SameRow(ix, a, i)
          BY <2>1, <2>2, <4>2
        <5>2. SameRow(a, b, i)
          BY <3>1, <4>2
        <5> HIDE DEF a, b
        <5> QED
          BY <5>1, <5>2 DEF SameRow
      <4> QED
        BY <4>1, <4>2
    <3> HIDE DEF a, b
    <3> QED
      BY <2>1, <3>1, <3>2, <3>3
  <2>5. CASE k \notin S
    <3>1. f[k] = f[k - 1]
      BY <2>1, <2>5 DEF Next1
    <3> QED
      BY <2>1, <2>2, <2>5, <3>1
  <2> QED
    BY <2>4, <2>5
<1> HIDE DEF T
<1>9. \A k \in 0 .. N : k \in T
  BY <1>0, <1>7, <1>8, UpTo, Zenon
<1>10. Done(N)
  <2>1. N \in 0 .. N
    BY <1>0
  <2> QED
    BY <1>9, <2>1 DEF T
<1>11. \A i \in S : i \in Id /\ i <= N
  BY <1>0 DEF Id
<1> QED
  BY <1>5, <1>10, <1>11

-----------------------------------------------------------------------------
(* Index, cache and records.  A vector is known by the text it was made of. *)

MadeOf(t) == [hash |-> t, vec |-> t]
Entries == {MadeOf(t) : t \in Text} \cup {None}

\* What embeddings.bin holds, or will once the save under way is through.
Saved == IF saver = None THEN cache ELSE saver.entries

RowsCurrent ==
    \A i \in Id : index.row[i] > 0 => i \in Live /\ VecOf(index, i) = table[i].text

FilesTyped ==
    /\ cache \in [Id -> Entries]
    /\ saver # None => saver = [entries |-> saver.entries] /\ saver.entries \in [Id -> Entries]

\* A clean mark: what is saved, or about to be, is what the rows hold now.
CleanIsSaved ==
    ~dirty => \A i \in Id : index.row[i] > 0 => Saved[i] = MadeOf(table[i].text)

IndexInv == Dense(index) /\ RowsCurrent /\ FilesTyped /\ CleanIsSaved

\* What a mutation may do to the rows: one that is new or has another vector is
\* current and marked dirty.
RowStep ==
    /\ Dense(index') /\ UNCHANGED files
    /\ dirty => dirty'
    /\ \A i \in Id : index'.row[i] > 0 =>
          /\ table'[i] # None /\ ~table'[i].retired /\ VecOf(index', i) = table'[i].text
          /\ dirty' \/ (index.row[i] > 0 /\ table'[i].text = table[i].text)

LEMMA RowStepKeeps == ASSUME IndexInv, RowStep PROVE IndexInv'
<1>1. Dense(index)'
  BY DEF RowStep
<1>2. RowsCurrent'
  BY DEF RowStep, RowsCurrent, Live, Known
<1>3. FilesTyped' /\ Saved' = Saved
  BY DEF RowStep, IndexInv, FilesTyped, files, Saved
<1>4. CleanIsSaved'
  BY <1>3 DEF RowStep, IndexInv, CleanIsSaved
<1> QED
  BY <1>1, <1>2, <1>3, <1>4 DEF IndexInv

\* A record that loses its row may become anything.
LEMMA DropSteps ==
    ASSUME RecordsInv, IndexInv, UNCHANGED files, NEW i \in Id, DropRow(i),
           \A j \in Id \ {i} : table'[j] = table[j]
    PROVE  RowStep
<1>1. index' = IndexRemove(index, i) /\ dirty' = (dirty \/ index.row[i] > 0)
  BY DEF DropRow
<1>2. /\ Dense(index') /\ index'.row[i] = 0
      /\ \A j \in Id \ {i} : SameRow(index, index', j)
  BY <1>1, RemoveKeepsRows DEF IndexInv
<1>3. ASSUME NEW j \in Id, index'.row[j] > 0
      PROVE  /\ table'[j] # None /\ ~table'[j].retired /\ VecOf(index', j) = table'[j].text
             /\ index.row[j] > 0 /\ table'[j].text = table[j].text
  <2>1. j # i
    BY <1>2, <1>3
  <2>2. index.row[j] > 0 /\ VecOf(index', j) = VecOf(index, j) /\ table'[j] = table[j]
    BY <1>2, <1>3, <2>1 DEF SameRow
  <2>3. table[j] # None /\ ~table[j].retired /\ VecOf(index, j) = table[j].text
    BY <2>2 DEF IndexInv, RowsCurrent, Live, Known
  <2> QED
    BY <2>2, <2>3
<1>4. dirty => dirty'
  BY <1>1
<1> QED
  BY <1>2, <1>3, <1>4 DEF RowStep

\* The record of the operation gets its new vector, or none.
LEMMA ReindexSteps ==
    ASSUME RecordsInv, IndexInv, UNCHANGED files,
           NEW i \in Id, NEW t \in Text, NEW embedded, Reindex(i, t, embedded),
           table'[i] # None /\ ~table'[i].retired /\ table'[i].text = t,
           \A j \in Id \ {i} : table'[j] = table[j]
    PROVE  RowStep
<1>1. CASE embedded
  <2>1. index' = IndexPut(index, i, t) /\ dirty'
    BY <1>1 DEF Reindex, PutRow
  <2>2. /\ Dense(index') /\ VecOf(index', i) = t
        /\ \A j \in Id \ {i} : SameRow(index, index', j)
    BY <2>1, PutKeepsRows DEF IndexInv
  <2>3. ASSUME NEW j \in Id, index'.row[j] > 0
        PROVE  table'[j] # None /\ ~table'[j].retired /\ VecOf(index', j) = table'[j].text
    <3>1. CASE j = i
      BY <2>2, <3>1
    <3>2. CASE j # i
      <4>1. index.row[j] > 0 /\ VecOf(index', j) = VecOf(index, j) /\ table'[j] = table[j]
        BY <2>2, <2>3, <3>2 DEF SameRow
      <4>2. table[j] # None /\ ~table[j].retired /\ VecOf(index, j) = table[j].text
        BY <4>1 DEF IndexInv, RowsCurrent, Live, Known
      <4> QED
        BY <4>1, <4>2
    <3> QED
      BY <3>1, <3>2
  <2> QED
    BY <2>1, <2>2, <2>3 DEF RowStep
<1>2. CASE ~embedded
  BY <1>2, DropSteps DEF Reindex
<1> QED
  BY <1>1, <1>2

\* The rows stay when those that have one stay live with their text.
LEMMA QuietSteps ==
    ASSUME IndexInv, UNCHANGED <<index, dirty, files>>,
           \A i \in Live : /\ table'[i] # None /\ ~table'[i].retired
                           /\ table'[i].text = table[i].text
    PROVE  RowStep
BY DEF RowStep, IndexInv, RowsCurrent, files

LEMMA InsertSteps ==
    ASSUME RecordsInv, IndexInv, UNCHANGED files,
           NEW section \in {"identity", "context"}, NEW t \in Text, NEW evidence \in {"host", "inferred"},
           NEW locked \in BOOLEAN, NEW embedded, Insert(section, t, evidence, locked, embedded)
    PROVE  RowStep
<1> DEFINE i == used + 1
           r == [section |-> section, text |-> t, evidence |-> evidence, locked |-> locked,
                 retired |-> FALSE, since |-> 0]
<1>1. i \in Id /\ table \in [Id -> Record \cup {None}]
  BY RecordsAssumption DEF Insert, RecordsInv, RecordsTypeOK, Id
<1>2. r \in Record /\ ~r.retired /\ r.text = t
  BY DEF Record
<1>4. None \notin Record
  BY RecordsAssumption
<1>3. table' = [table EXCEPT ![i] = r] /\ Reindex(i, t, embedded)
  BY DEF Insert
<1> HIDE DEF r, i
<1> QED
  BY <1>1, <1>2, <1>3, <1>4, ReindexSteps

LEMMA UpdateSteps ==
    ASSUME RecordsInv, IndexInv, UNCHANGED files, NEW i \in Live, NEW t \in Text,
           NEW evidence \in {"host", "inferred"}, NEW embedded, Update(i, t, evidence, embedded)
    PROVE  RowStep
<1>1. i \in Id /\ table \in [Id -> Record \cup {None}] /\ table[i] \in Record /\ ~table[i].retired
  BY DEF RecordsInv, RecordsTypeOK, Live, Known
<1> DEFINE r == [table[i] EXCEPT !.text = t, !.evidence = evidence]
<1>2. r \in Record /\ ~r.retired /\ r.text = t /\ r # None
  BY <1>1, RecordsAssumption DEF Record
<1>3. table' = [table EXCEPT ![i] = r] /\ Reindex(i, t, embedded)
  BY <1>1 DEF Update
<1> HIDE DEF r
<1> QED
  BY <1>1, <1>2, <1>3, ReindexSteps

LEMMA DeprecateSteps ==
    ASSUME RecordsInv, IndexInv, UNCHANGED files, NEW i \in Id, NEW at, Deprecate(i, at)
    PROVE  RowStep
<1>1. \A j \in Id \ {i} : table'[j] = table[j]
  BY DEF Deprecate, RecordsInv, RecordsTypeOK
<1> QED
  BY <1>1, DropSteps DEF Deprecate

LEMMA KeepSteps ==
    ASSUME RecordsInv, IndexInv, UNCHANGED files, NEW i \in Known, NEW embedded,
           Keep(i, embedded)
    PROVE  RowStep
<1>1. i \in Id /\ table \in [Id -> Record \cup {None}] /\ table[i] \in Record
  BY DEF RecordsInv, RecordsTypeOK, Known
<1> DEFINE r == [table[i] EXCEPT !.retired = FALSE, !.since = 0]
<1>2. r \in Record /\ ~r.retired /\ r.text = table[i].text /\ r # None /\ r.text \in Text
  <2>1. r \in Record
    BY <1>1 DEF Record
  <2>2. ~r.retired /\ r.text = table[i].text /\ table[i].text \in Text
    BY <1>1 DEF Record
  <2>3. None \notin Record
    BY RecordsAssumption
  <2> HIDE DEF r
  <2> QED
    BY <2>1, <2>2, <2>3, Zenon
<1>3. table' = [table EXCEPT ![i] = r]
  BY <1>1 DEF Keep
<1> HIDE DEF r
<1>4. table'[i] = r /\ \A j \in Id \ {i} : table'[j] = table[j]
  BY <1>1, <1>3
<1>5. CASE index.row[i] > 0
  <2>1. UNCHANGED <<index, dirty>>
    BY <1>5 DEF Keep
  <2>2. \A j \in Live : j \in Id /\ table[j] # None /\ ~table[j].retired
    BY DEF Live, Known
  <2> QED
    BY <1>2, <1>4, <2>1, <2>2, QuietSteps
<1>6. CASE ~(index.row[i] > 0)
  BY <1>1, <1>2, <1>4, <1>6, ReindexSteps DEF Keep
<1> QED
  BY <1>5, <1>6

\* What the curator's operations leave of the rows, refused or not.
LEMMA FunnelRows ==
    ASSUME RecordsInv, IndexInv, UNCHANGED files,
           NEW i \in Id, NEW kind, NEW t \in Text, Funnel(i, kind, t)
    PROVE  RowStep
<1>1. CASE Refused
  BY <1>1, QuietSteps DEF Refused, records, Live, Known
<1>2. CASE ~Refused
  <2>1. CASE kind = "update" /\ CuratorUpdate(i, t)
    <3>1. /\ i \in Live
          /\ \E embedded \in BOOLEAN : Update(i, t, "inferred", embedded)
      BY <1>2, <2>1 DEF CuratorUpdate, Updatable
    <3> QED
      BY <3>1, UpdateSteps
  <2>2. CASE kind = "deprecate" /\ CuratorDeprecate(i)
    BY <1>2, <2>2, DeprecateSteps DEF CuratorDeprecate
  <2> QED
    BY <2>1, <2>2 DEF Funnel
<1> QED
  BY <1>1, <1>2

LEMMA RefusedRows ==
    ASSUME IndexInv, UNCHANGED files, UNCHANGED records
    PROVE  RowStep
BY QuietSteps DEF records, Live, Known

\* Every operation of hosts, cycles and reviews.
LEMMA ActsStepRows == RecordsInv /\ IndexInv /\ (HostActs \/ CycleActs \/ ReviewActs) => RowStep
<1> SUFFICES ASSUME RecordsInv, IndexInv, HostActs \/ CycleActs \/ ReviewActs PROVE RowStep
  OBVIOUS
<1>1. CASE HostActs
  <2>1. ASSUME NEW s \in {"identity", "context"}, NEW t \in Text,
               NEW v \in {"host", "inferred"}, NEW l \in BOOLEAN, NEW e \in BOOLEAN,
               HostInsert(s, t, v, l, e)
        PROVE  RowStep
    BY <2>1, InsertSteps DEF HostInsert, HostStep
  <2>2. ASSUME NEW i \in Id, NEW t \in Text, NEW e \in BOOLEAN, HostUpdate(i, t, e)
        PROVE  RowStep
    BY <2>2, UpdateSteps DEF HostUpdate, HostStep, Updatable
  <2>3. ASSUME NEW i \in Id, HostDeprecate(i) PROVE RowStep
    BY <2>3, DeprecateSteps DEF HostDeprecate, HostStep
  <2>4. ASSUME NEW i \in Id, NEW l \in BOOLEAN, HostSetLocked(i, l) PROVE RowStep
    <3>1. /\ i \in Known /\ UNCHANGED <<index, dirty, files>>
          /\ table' = [table EXCEPT ![i].locked = l]
      BY <2>4 DEF HostSetLocked, HostStep
    <3>2. table \in [Id -> Record \cup {None}] /\ table[i] \in Record /\ i \in Id
      BY <3>1 DEF RecordsInv, RecordsTypeOK, Known
    <3> DEFINE r == [table[i] EXCEPT !.locked = l]
    <3>3. r \in Record /\ r.retired = table[i].retired /\ r.text = table[i].text /\ r # None
      <4>1. r \in Record
        BY <3>2 DEF Record
      <4>2. r.retired = table[i].retired /\ r.text = table[i].text
        BY <3>2 DEF Record
      <4>3. None \notin Record
        BY RecordsAssumption
      <4> HIDE DEF r
      <4> QED
        BY <4>1, <4>2, <4>3, Zenon
    <3>4. table' = [table EXCEPT ![i] = r]
      BY <3>1
    <3> HIDE DEF r
    <3>5. ASSUME NEW j \in Live
          PROVE  table'[j] # None /\ ~table'[j].retired /\ table'[j].text = table[j].text
      <4>1. j \in Id /\ table[j] # None /\ ~table[j].retired
        BY DEF Live, Known
      <4>2. CASE j = i
        BY <3>2, <3>3, <3>4, <4>1, <4>2
      <4>3. CASE j # i
        BY <3>2, <3>4, <4>1, <4>3
      <4> QED
        BY <4>2, <4>3
    <3> QED
      BY <3>1, <3>5, QuietSteps
  <2> QED
    BY <1>1, <2>1, <2>2, <2>3, <2>4 DEF HostActs
<1>2. CASE CycleActs
  <2>1. ASSUME NEW s \in {"identity", "context"}, NEW t \in Text, NEW e \in BOOLEAN,
               CycleInsert(s, t, e)
        PROVE  RowStep
    <3>1. UNCHANGED files /\ (Insert(s, t, "inferred", FALSE, e) \/ Refused)
      BY <2>1 DEF CycleInsert, RunUnchanged
    <3>2. CASE Refused
      BY <3>1, <3>2, RefusedRows DEF Refused
    <3>3. CASE Insert(s, t, "inferred", FALSE, e)
      <4> DEFINE no == FALSE
      <4>1. no \in BOOLEAN /\ Insert(s, t, "inferred", no, e)
        BY <3>3
      <4> HIDE DEF no
      <4> QED
        BY <3>1, <4>1, InsertSteps
    <3> QED
      BY <3>1, <3>2, <3>3
  <2>2. ASSUME NEW i \in Id, NEW k \in {"update", "deprecate"}, NEW t \in Text,
               CycleMutateContext(i, k, t) \/ CycleConfirms(i, k, t)
        PROVE  RowStep
    BY <2>2, FunnelRows DEF CycleMutateContext, CycleConfirms, RunUnchanged
  <2>3. ASSUME NEW i \in Id, NEW k \in {"update", "deprecate"}, NEW t \in Text,
               CycleProposes(i, k, t)
        PROVE  RowStep
    BY <2>3, RefusedRows DEF CycleProposes, Refused, RunUnchanged
  <2> QED
    BY <1>2, <2>1, <2>2, <2>3 DEF CycleActs
<1>3. CASE ReviewActs
  <2>1. ASSUME NEW i \in Id, ReviewDeprecates(i) PROVE RowStep
    BY <2>1, DeprecateSteps, RefusedRows
       DEF ReviewDeprecates, CuratorDeprecate, Refused, RunUnchanged
  <2>2. ASSUME NEW i \in Id, NEW e \in BOOLEAN, ReviewKeeps(i, e) PROVE RowStep
    BY <2>2, KeepSteps, RefusedRows DEF ReviewKeeps, Keepable, Refused, RunUnchanged
  <2> QED
    BY <1>3, <2>1, <2>2 DEF ReviewActs
<1> QED
  BY <1>1, <1>2, <1>3

\* What a save writes is made of the text of every record that has a row.
LEMMA SavedRows ==
    ASSUME NEW ix, Dense(ix), RecordsInv,
           \A i \in Id : ix.row[i] > 0 => i \in Live /\ VecOf(ix, i) = table[i].text
    PROVE  /\ Savable(table, ix) \in [Id -> Entries]
           /\ \A i \in Id : ix.row[i] > 0 => Savable(table, ix)[i] = MadeOf(table[i].text)
<1>1. ASSUME NEW i \in Id
      PROVE  /\ ix.row[i] > 0 => Savable(table, ix)[i] = MadeOf(table[i].text)
             /\ Savable(table, ix)[i] \in Entries
  <2>1. ix.row[i] \in Nat /\ (ix.row[i] > 0 <=> ix.row[i] # 0)
    BY DEF Dense
  <2>2. CASE ix.row[i] = 0
    BY <2>1, <2>2 DEF Savable, Entries
  <2>3. CASE ix.row[i] > 0
    <3>1. table[i] \in Record /\ table[i].text \in Text
      BY <2>3 DEF RecordsInv, RecordsTypeOK, Live, Known, Record
    <3>2. Savable(table, ix)[i] = MadeOf(table[i].text)
      BY <2>1, <2>3 DEF Savable, MadeOf, VecOf
    <3> QED
      BY <3>1, <3>2 DEF Entries
  <2> QED
    BY <2>1, <2>2, <2>3
<1>2. Savable(table, ix) = [i \in Id |-> Savable(table, ix)[i]]
  BY DEF Savable
<1> HIDE DEF Savable
<1> QED
  BY <1>1, <1>2

\* The snapshot of a save is a record, so it is not None.
LEMMA SnapshotIsSome ==
    ASSUME NEW e \in [Id -> Entries] PROVE [entries |-> e] # None
<1>1. e \in [1 .. MaxRecords -> [hash : Text, vec : Text] \cup {None}]
  BY DEF Entries, MadeOf, Id
<1> QED
  BY <1>1, RecordsAssumption

LEMMA SavesKeepIndex == ASSUME RecordsInv, IndexInv, SaveStart \/ SaveEnds \/ SaveFails
                        PROVE  IndexInv'
<1> DEFINE s == Savable(table, index)
<1>0. Dense(index) /\ \A i \in Id : index.row[i] > 0 => i \in Live /\ VecOf(index, i) = table[i].text
  BY DEF IndexInv, RowsCurrent
<1>1. s \in [Id -> Entries] /\ \A i \in Id : index.row[i] > 0 => s[i] = MadeOf(table[i].text)
  BY <1>0, SavedRows
<1>2. UNCHANGED <<table, index>>
  BY DEF SaveStart, SaveEnds, SaveFails, records
<1>3. Dense(index)' /\ RowsCurrent'
  BY <1>2 DEF IndexInv, RowsCurrent, Live, Known
<1>4. CASE SaveStart
  <2>1. saver' = [entries |-> s] /\ UNCHANGED cache
    BY <1>4 DEF SaveStart
  <2> HIDE DEF s
  <2>2. saver' # None /\ saver'.entries = s
    BY <1>1, <2>1, SnapshotIsSome
  <2>3. FilesTyped' /\ Saved' = s
    BY <1>1, <2>1, <2>2 DEF IndexInv, FilesTyped, Saved
  <2>4. CleanIsSaved'
    BY <1>1, <1>2, <2>3 DEF CleanIsSaved
  <2> QED
    BY <1>3, <2>3, <2>4 DEF IndexInv
<1>5. CASE SaveEnds
  <2>1. saver # None /\ cache' = saver.entries /\ saver' = None /\ UNCHANGED dirty
    BY <1>5 DEF SaveEnds, records
  <2>2. FilesTyped' /\ Saved' = Saved
    BY <2>1 DEF IndexInv, FilesTyped, Saved
  <2>3. CleanIsSaved'
    BY <1>2, <2>1, <2>2 DEF IndexInv, CleanIsSaved
  <2> QED
    BY <1>3, <2>2, <2>3 DEF IndexInv
<1>6. CASE SaveFails
  <2>1. saver # None /\ cache' \in {cache, saver.entries} /\ saver' = None /\ dirty'
    BY <1>6 DEF SaveFails
  <2>2. FilesTyped' /\ CleanIsSaved'
    BY <2>1 DEF IndexInv, FilesTyped, CleanIsSaved
  <2> QED
    BY <1>3, <2>2 DEF IndexInv
<1> QED
  BY <1>4, <1>5, <1>6

\* The index of a new context: the cached rows whose text is still the record's,
\* and those embedded anew.
LEMMA ReopenKeepsIndex == ASSUME RecordsInv, IndexInv, Reopen PROVE IndexInv'
<1>1. PICK fresh \in SUBSET (Live \ Cached), saved \in BOOLEAN :
        /\ index' = Rebuilt(fresh)
        /\ cache' = IF fresh # {} /\ saved THEN Savable(table, Rebuilt(fresh)) ELSE cache
        /\ dirty' = (fresh # {} /\ ~saved)
  BY DEF Reopen
<1>2. UNCHANGED table /\ saver' = None
  BY DEF Reopen
<1>3. Cached \subseteq Live /\ Live \subseteq Id /\ fresh \subseteq Id
  BY DEF Cached, Live, Known
<1>4. \A i \in Live : table[i].text \in Text
  BY DEF RecordsInv, RecordsTypeOK, Live, Known, Record
<1>5. ASSUME NEW i \in Cached
      PROVE  cache[i] = MadeOf(table[i].text) /\ cache[i].vec = table[i].text
  <2>1. cache[i] \in Entries /\ cache[i] # None /\ cache[i].hash = table[i].text
    BY <1>3 DEF IndexInv, FilesTyped, Cached
  <2> QED
    BY <2>1 DEF Entries, MadeOf
<1> DEFINE cvec == [i \in Cached |-> cache[i].vec]
           fvec == [i \in fresh |-> table[i].text]
           jx == IndexWith(EmptyIndex, Cached, cvec)
           kx == IndexWith(jx, fresh, fvec)
<1>6. Rebuilt(fresh) = kx
  BY DEF Rebuilt
<1>7. Dense(EmptyIndex) /\ \A i \in Id : EmptyIndex.row[i] = 0
  BY DEF Dense, EmptyIndex
<1>8. /\ Dense(jx)
      /\ \A i \in Cached : jx.row[i] > 0 /\ VecOf(jx, i) = table[i].text
      /\ \A i \in Id \ Cached : SameRow(EmptyIndex, jx, i)
  <2>1. Cached \in SUBSET Id /\ \A i \in Cached : cvec[i] = table[i].text /\ cvec[i] \in Text
    BY <1>3, <1>4, <1>5
  <2> HIDE DEF cvec
  <2>2. Dense(EmptyIndex) /\ \A i \in Cached : cvec[i] \in Text
    BY <1>7, <2>1
  <2>3. /\ Dense(jx)
        /\ \A i \in Cached : jx.row[i] > 0 /\ VecOf(jx, i) = cvec[i]
        /\ \A i \in Id \ Cached : SameRow(EmptyIndex, jx, i)
    BY <2>1, <2>2, WithRows, Zenon
  <2> HIDE DEF jx
  <2> QED
    BY <2>1, <2>3
<1> HIDE DEF jx
<1>9. /\ Dense(kx)
      /\ \A i \in fresh : kx.row[i] > 0 /\ VecOf(kx, i) = table[i].text
      /\ \A i \in Id \ fresh : SameRow(jx, kx, i)
  <2>1. fresh \in SUBSET Id /\ \A i \in fresh : fvec[i] = table[i].text /\ fvec[i] \in Text
    BY <1>3, <1>4
  <2> HIDE DEF fvec
  <2>2. Dense(jx) /\ \A i \in fresh : fvec[i] \in Text
    BY <1>8, <2>1
  <2>3. /\ Dense(kx)
        /\ \A i \in fresh : kx.row[i] > 0 /\ VecOf(kx, i) = fvec[i]
        /\ \A i \in Id \ fresh : SameRow(jx, kx, i)
    BY <2>1, <2>2, WithRows, Zenon
  <2> HIDE DEF kx
  <2> QED
    BY <2>1, <2>3
<1> HIDE DEF kx
<1>10. ASSUME NEW i \in Id, kx.row[i] > 0
       PROVE  /\ i \in Live /\ VecOf(kx, i) = table[i].text
              /\ fresh = {} => cache[i] = MadeOf(table[i].text)
  <2>1. CASE i \in fresh
    BY <1>9, <2>1
  <2>2. CASE i \notin fresh
    <3>1. jx.row[i] > 0 /\ VecOf(kx, i) = VecOf(jx, i)
      BY <1>9, <1>10, <2>2 DEF SameRow
    <3>2. i \in Cached
      BY <1>7, <1>8, <3>1 DEF SameRow
    <3> QED
      BY <1>3, <1>5, <1>8, <3>1, <3>2
  <2> QED
    BY <2>1, <2>2
<1>11. Dense(index)' /\ RowsCurrent'
  BY <1>1, <1>2, <1>6, <1>9, <1>10 DEF RowsCurrent, Live, Known
<1> DEFINE s == Savable(table, kx)
<1>12. s \in [Id -> Entries] /\ \A i \in Id : kx.row[i] > 0 => s[i] = MadeOf(table[i].text)
  BY <1>9, <1>10, SavedRows
<1>13. cache' \in {cache, s} /\ Saved' = cache'
  BY <1>1, <1>2, <1>6 DEF Saved
<1>14. FilesTyped'
  BY <1>2, <1>12, <1>13 DEF IndexInv, FilesTyped
<1>15. CleanIsSaved'
  <2> SUFFICES ASSUME ~dirty', NEW i \in Id, index'.row[i] > 0
               PROVE  cache'[i] = MadeOf(table[i].text)
    BY <1>2, <1>13 DEF CleanIsSaved
  <2>1. kx.row[i] > 0
    BY <1>1, <1>6
  <2>2. CASE fresh = {}
    BY <1>1, <1>10, <2>1, <2>2
  <2>3. CASE fresh # {}
    <3>1. cache' = s
      BY <1>1, <1>6, <2>3
    <3> QED
      BY <1>12, <2>1, <3>1
  <2> QED
    BY <2>2, <2>3
<1> QED
  BY <1>11, <1>14, <1>15 DEF IndexInv

\* A purged record has been retired, and a retired one has no row.
LEMMA CompactKeepsIndex == ASSUME RecordsInv, IndexInv, Compact PROVE IndexInv'
<1>1. \A i \in PurgeDue : index.row[i] = 0
  BY DEF PurgeDue, Known, Live, IndexInv, RowsCurrent, Dense
<1>2. index' = index /\ UNCHANGED <<dirty, files>>
  BY <1>1, WithoutNone DEF Compact
<1>3. \A i \in Live : table'[i] = table[i]
  BY DEF Compact, PurgeDue, Live, Known
<1>4. \A i \in Live : table'[i] # None /\ ~table'[i].retired /\ table'[i].text = table[i].text
  BY <1>3 DEF Live, Known
<1> QED
  BY <1>2, <1>4, QuietSteps, RowStepKeeps

LEMMA IndexInvInit == Init => IndexInv
<1> SUFFICES ASSUME Init PROVE IndexInv
  OBVIOUS
<1>1. index = EmptyIndex /\ cache = [i \in Id |-> None] /\ saver = None
  BY DEF Init
<1>2. Dense(index) /\ \A i \in Id : index.row[i] = 0
  BY <1>1 DEF Dense, EmptyIndex
<1>3. FilesTyped
  BY <1>1 DEF FilesTyped, Entries
<1> QED
  BY <1>2, <1>3 DEF IndexInv, RowsCurrent, CleanIsSaved

LEMMA IndexInvStep == RecordsInv /\ IndexInv /\ [Next]_vars => IndexInv'
<1> SUFFICES ASSUME RecordsInv, IndexInv, [Next]_vars PROVE IndexInv'
  OBVIOUS
<1>1. CASE HostActs \/ CycleActs \/ ReviewActs
  BY <1>1, ActsStepRows, RowStepKeeps
<1>2. CASE UNCHANGED records /\ UNCHANGED files
  BY <1>2, RefusedRows, RowStepKeeps
<1>3. CASE CycleStart \/ ReviewStart \/ RunEnds \/ TimePasses \/ UNCHANGED vars
  BY <1>2, <1>3 DEF CycleStart, ReviewStart, StartRun, RunEnds, TimePasses, vars
<1>4. CASE Compact
  BY <1>4, CompactKeepsIndex
<1>5. CASE SaveStart \/ SaveEnds \/ SaveFails
  BY <1>5, SavesKeepIndex
<1>6. CASE Reopen
  BY <1>6, ReopenKeepsIndex
<1> QED
  BY <1>1, <1>3, <1>4, <1>5, <1>6 DEF Next

-----------------------------------------------------------------------------
(* The theorems.                                                           *)

\* The invariant holds in every state, whoever takes the steps.
THEOREM RecordsInvAlways == Spec => []RecordsInv
<1>1. Init => RecordsInv
  BY RecordsInvInit
<1>2. RecordsInv /\ [Next]_vars => RecordsInv'
  BY RecordsInvStep
<1> QED
  BY <1>1, <1>2, PTL DEF Spec

\* No cycle or review rewrites what a host declared or observed, however long
\* ago it took its copies (apply_validate under the write lock).
THEOREM HostEvidenceStands == Spec => HostTextStands
<1>1. RecordsInv /\ [Next]_vars =>
        [\A i \in Known : Curating /\ table[i].evidence = "host" /\ table'[i] # None
            => table'[i].text = table[i].text /\ table'[i].evidence = "host"]_vars
  BY HostTextKept DEF HostKept
<1> QED
  BY <1>1, RecordsInvAlways, PTL DEF Spec, HostTextStands

\* The curator changes an identity record only on the vote of an earlier cycle
\* inside the window (quorum_check, cycle_seen_has).
THEOREM QuorumOfTwo == Spec => IdentityNeedsTwoCycles
<1>1. RecordsInv /\ [Next]_vars =>
        [\A i \in Known :
            Curating /\ table[i].section = "identity" /\ table'[i] # table[i] =>
               \E v \in votes :
                   /\ v.cycle < runs /\ run.at - v.at <= ConfirmWindow
                   /\ v.change \in {Change(i, "update", table'[i].text),
                                    Change(i, "deprecate", None)}]_vars
  BY IdentityAgreed DEF Agreed
<1> QED
  BY <1>1, RecordsInvAlways, PTL DEF Spec, IdentityNeedsTwoCycles

\* Hosts, cycles, reviews and compaction together implement the law of a record:
\* each of their steps is one of its steps, or changes nothing it speaks of.
THEOREM RecordsObeyTheLaw == Spec => LawSpec
<1>1. Init => Law!Init
  BY LawInit
<1>2. RecordsInv /\ RecordsInv' /\ [Next]_vars => [Law!Next]_(Law!vars)
  BY StepsOfTheTable, LawStep
<1> QED
  BY <1>1, <1>2, RecordsInvAlways, PTL DEF Spec, LawSpec, Law!Spec

\* Rows, records and cache stay in step, from the first record on.
THEOREM IndexInvAlways == Spec => []IndexInv
<1>1. Init => IndexInv
  BY IndexInvInit
<1>2. RecordsInv /\ IndexInv /\ [Next]_vars => IndexInv'
  BY IndexInvStep
<1> QED
  BY <1>1, <1>2, RecordsInvAlways, PTL DEF Spec

\* Row numbers are exact after any order of puts and swap-removes, only live
\* records have a row, and it was made of the text they have now (index.c, the
\* UPDATE of api.c, the hash check of cache.c).
THEOREM IndexFollowsTable == Spec => []IndexAgrees
<1>1. IndexInv => IndexAgrees
  <2> SUFFICES ASSUME IndexInv PROVE IndexAgrees
    OBVIOUS
  <2>1. Dense(index) /\ DOMAIN index.recs = 1 .. Len(index.recs)
    BY DEF IndexInv, Dense
  <2> QED
    BY <2>1 DEF IndexInv, Dense, RowsCurrent, VecOf, IndexAgrees
<1> QED
  BY <1>1, IndexInvAlways, PTL

\* A clean mark means the file holds what the rows do: a mutation that lands
\* while a save writes is not forgotten (asper_cache_save).
THEOREM CleanMarkIsSaved == Spec => []CacheCurrent
<1>1. RecordsInv /\ IndexInv => CacheCurrent
  <2> SUFFICES ASSUME RecordsInv, IndexInv, ~dirty, saver = None,
                      NEW i \in Id, index.row[i] > 0
               PROVE  cache[i] = Savable(table, index)[i]
    BY DEF CacheCurrent
  <2>0. Dense(index) /\ \A j \in Id : index.row[j] > 0 => j \in Live /\ VecOf(index, j) = table[j].text
    BY DEF IndexInv, RowsCurrent
  <2>1. Savable(table, index)[i] = MadeOf(table[i].text)
    BY <2>0, SavedRows
  <2> QED
    BY <2>1 DEF IndexInv, CleanIsSaved, Saved
<1> QED
  BY <1>1, RecordsInvAlways, IndexInvAlways, PTL
=============================================================================
