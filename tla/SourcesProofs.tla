----------------------------- MODULE SourcesProofs -----------------------------
(***************************************************************************)
(* One scope's sources, for any hosts, calls, texts and page size, with    *)
(* any number of failures, crashes and power failures.  A call that let go *)
(* of source_mu holds what it saw: the proof says of each kind of call how *)
(* that still relates to the disk, and that whatever other calls do, a log *)
(* that only grows and objects that stay keep it so.                       *)
(***************************************************************************)
EXTENDS Sources, SequenceTheorems, TLAPS

-----------------------------------------------------------------------------
(* The log: what an append acknowledged stays.  The index is only ever a   *)
(* hint.  It may be short, torn, damaged or of another moment, but each of *)
(* its rows is unreadable or gives the end its frame has; so an index that *)
(* is believed is the whole one of a log without a torn tail, and the next *)
(* event's sequence is the next number.                                    *)

RowsAligned == \A i \in DOMAIN index.rows : index.rows[i] \in {0, SizeOf(i)}
InSequence  == \A i \in DOMAIN frames : frames[i].seq = i
AckedDurable ==
    /\ durable <= Len(frames)
    /\ \A a \in acked : a.seq \in 1..durable /\ frames[a.seq].body = a.body

LogInv == LogTypeOK /\ RowsAligned /\ InSequence /\ AckedDurable

Indexes == [usable : BOOLEAN, rows : Seq(Nat)]
Aligned(x) == \A i \in DOMAIN x.rows : x.rows[i] \in {0, SizeOf(i)}

-----------------------------------------------------------------------------
\* An index built from n frames is an index of n aligned rows.
LEMMA FullIndexIsAligned ==
    ASSUME NEW n \in Nat
    PROVE  /\ FullIndex(n) \in Indexes /\ Aligned(FullIndex(n))
           /\ Len(FullIndex(n).rows) = n
<1>1. RowsFor(n) \in Seq(Nat) /\ Len(RowsFor(n)) = n /\ DOMAIN RowsFor(n) = 1..n
  <2>1. \A i \in 1..n : SizeOf(i) \in Nat
    BY DEF SizeOf, FrameSize
  <2>2. RowsFor(n) \in [1..n -> Nat]
    BY <2>1 DEF RowsFor
  <2> QED
    BY <2>2 DEF RowsFor
<1>2. \A i \in 1..n : RowsFor(n)[i] = SizeOf(i)
  BY DEF RowsFor
<1> QED
  BY <1>1, <1>2 DEF FullIndex, Indexes, Aligned

\* One row after aligned rows, for the frame that comes next, is aligned too.
LEMMA AppendKeepsAligned ==
    ASSUME NEW x \in Indexes, Aligned(x), NEW u \in BOOLEAN
    PROVE  LET y == [usable |-> u, rows |-> Append(x.rows, SizeOf(Len(x.rows) + 1))]
               z == [usable |-> u, rows |-> x.rows]
           IN  y \in Indexes /\ Aligned(y) /\ z \in Indexes /\ Aligned(z)
<1> DEFINE n == Len(x.rows)
           r == Append(x.rows, SizeOf(n + 1))
<1>1. x.rows \in Seq(Nat) /\ n \in Nat /\ DOMAIN x.rows = 1..n
  BY DEF Indexes
<1>2. SizeOf(n + 1) \in Nat
  BY <1>1 DEF SizeOf, FrameSize
<1>3. /\ r \in Seq(Nat) /\ DOMAIN r = 1..(n + 1)
      /\ \A i \in 1..n : r[i] = x.rows[i]
      /\ r[n + 1] = SizeOf(n + 1)
  <2> HIDE DEF n
  <2> QED
    BY <1>1, <1>2, AppendProperties DEF n
<1>4. \A i \in DOMAIN r : r[i] \in {0, SizeOf(i)}
  <2> HIDE DEF r, n
  <2>1. \A i \in 1..n : x.rows[i] \in {0, SizeOf(i)}
    BY <1>1 DEF Aligned
  <2>2. \A i \in 1..(n + 1) : i \in 1..n \/ i = n + 1
    BY <1>1
  <2> QED
    BY <1>3, <2>1, <2>2
<1> QED
  BY <1>1, <1>3, <1>4 DEF Indexes, Aligned

\* An index that is believed is complete, and the log has no torn tail: the end
\* a row gives is even and the end of a torn log is odd.
LEMMA AcceptedIsComplete ==
    ASSUME LogInv, IndexAccepted
    PROVE  torn = FALSE /\ Len(index.rows) = Len(frames)
<1> DEFINE n == Len(index.rows)
<1>1. /\ Len(frames) \in Nat /\ n \in Nat /\ torn \in BOOLEAN
      /\ DOMAIN index.rows = 1..n
  BY DEF LogInv, LogTypeOK
<1>2. Bytes = 2 * Len(frames) + (IF torn THEN 1 ELSE 0)
  BY <1>1 DEF Bytes, SizeOf, FrameSize
<1>3. CASE n = 0 /\ Bytes = 0
  BY <1>1, <1>2, <1>3
<1>4. CASE RowReadable(index.rows, n, Bytes) /\ index.rows[n] = Bytes
  <2>1. index.rows[n] = 2 * n
    BY <1>1, <1>4 DEF LogInv, RowsAligned, RowReadable, SizeOf, FrameSize
  <2> QED
    BY <1>1, <1>2, <1>4, <2>1
<1> QED
  BY <1>3, <1>4 DEF IndexAccepted

\* A successful open leaves the frames alone and an aligned index.
LEMMA OpenKeeps ==
    ASSUME LogInv, AfterOpen, UNCHANGED acked, logFaults' \in Nat
    PROVE  LogInv'
<1>1. CASE IndexAccepted
  BY <1>1 DEF AfterOpen, LogInv, LogTypeOK, RowsAligned, InSequence, AckedDurable
<1>2. CASE ~IndexAccepted
  <2>1. /\ Len(frames) \in Nat /\ durable \in Nat /\ durable <= Len(frames)
        /\ UNCHANGED <<frames, acked>> /\ torn' = FALSE
        /\ index' = FullIndex(Len(frames)) /\ durable' \in {durable, Len(frames)}
    BY <1>2 DEF AfterOpen, LogInv, LogTypeOK, AckedDurable
  <2>2. index' \in Indexes /\ RowsAligned'
    BY <2>1, FullIndexIsAligned DEF Aligned, RowsAligned
  <2>3. AckedDurable' /\ InSequence'
    BY <2>1 DEF LogInv, LogTypeOK, AckedDurable, InSequence
  <2> QED
    BY <2>1, <2>2, <2>3 DEF LogInv, LogTypeOK, Indexes
<1> QED
  BY <1>1, <1>2

\* What the next event's sequence and the rows before its own are.
LEMMA OpenCountIsLength ==
    ASSUME LogInv
    PROVE  /\ OpenCount = Len(frames)
           /\ LET before == IF IndexAccepted THEN index.rows ELSE RowsFor(Len(frames))
                  x == [usable |-> TRUE, rows |-> before]
              IN  x \in Indexes /\ Aligned(x) /\ Len(before) = Len(frames)
<1>1. CASE IndexAccepted
  BY <1>1, AcceptedIsComplete
     DEF OpenCount, LogInv, LogTypeOK, RowsAligned, Indexes, Aligned
<1>2. CASE ~IndexAccepted
  <2>1. Len(frames) \in Nat
    BY DEF LogInv, LogTypeOK
  <2> QED
    BY <1>2, <2>1, FullIndexIsAligned DEF OpenCount, FullIndex
<1> QED
  BY <1>1, <1>2

\* A frame at the end, with the next sequence, disturbs none before it.
LEMMA AppendFrame ==
    ASSUME LogInv, NEW body \in Bodies,
           frames' = Append(frames, [seq |-> OpenCount + 1, body |-> body, ok |-> TRUE])
    PROVE  /\ frames' \in Seq(Frames) /\ InSequence'
           /\ Len(frames') = Len(frames) + 1
           /\ \A i \in 1..Len(frames) : frames'[i] = frames[i]
           /\ frames'[Len(frames) + 1].body = body
<1> DEFINE n == Len(frames)
           event == [seq |-> n + 1, body |-> body, ok |-> TRUE]
<1>1. frames \in Seq(Frames) /\ n \in Nat /\ DOMAIN frames = 1..n
  BY DEF LogInv, LogTypeOK
<1>2. event \in Frames
  BY <1>1 DEF Frames
<1>3. frames' = Append(frames, event)
  BY OpenCountIsLength
<1>4. /\ frames' \in Seq(Frames) /\ Len(frames') = n + 1
      /\ DOMAIN frames' = 1..(n + 1)
      /\ \A i \in 1..n : frames'[i] = frames[i]
      /\ frames'[n + 1] = event
  <2> HIDE DEF n, event
  <2> QED
    BY <1>1, <1>2, <1>3, AppendProperties DEF n
<1>5. InSequence'
  <2>1. \A i \in 1..n : frames[i].seq = i
    BY <1>1 DEF LogInv, InSequence
  <2>2. \A i \in 1..(n + 1) : i \in 1..n \/ i = n + 1
    BY <1>1
  <2> QED
    BY <1>4, <2>1, <2>2 DEF InSequence
<1> QED
  BY <1>4, <1>5

-----------------------------------------------------------------------------
\* The append that is acknowledged: its sequence is its place, and it is synced.
LEMMA AppendOkKeeps ==
    ASSUME LogInv, NEW body \in Bodies, AppendOk(body)
    PROVE  LogInv'
<1> DEFINE n == Len(frames)
           before == IF IndexAccepted THEN index.rows ELSE RowsFor(Len(frames))
           x == [usable |-> TRUE, rows |-> before]
<1>1. n \in Nat /\ durable \in Nat /\ durable <= n
  BY DEF LogInv, LogTypeOK, AckedDurable
<1>2. x \in Indexes /\ Aligned(x) /\ Len(x.rows) = n
  BY OpenCountIsLength
<1>3. /\ frames' \in Seq(Frames) /\ InSequence' /\ Len(frames') = n + 1
      /\ \A i \in 1..n : frames'[i] = frames[i]
      /\ frames'[n + 1].body = body
  BY AppendFrame DEF AppendOk
<1>4. index' \in Indexes /\ RowsAligned'
  <2>1. index' \in {[usable |-> TRUE, rows |-> Append(x.rows, SizeOf(n + 1))],
                   [usable |-> TRUE, rows |-> x.rows],
                   [usable |-> FALSE, rows |-> x.rows]}
    BY DEF AppendOk
  <2>2. \A u \in BOOLEAN :
          LET y == [usable |-> u, rows |-> Append(x.rows, SizeOf(n + 1))]
              z == [usable |-> u, rows |-> x.rows]
          IN  y \in Indexes /\ Aligned(y) /\ z \in Indexes /\ Aligned(z)
    BY <1>2, AppendKeepsAligned
  <2>3. index' \in Indexes /\ Aligned(index')
    BY <2>1, <2>2
  <2> QED
    BY <2>3 DEF Aligned, RowsAligned
<1>5. AckedDurable'
  <2>1. durable' = n + 1 /\ acked' = acked \cup {[seq |-> n + 1, body |-> body]}
    BY OpenCountIsLength DEF AppendOk
  <2>2. \A a \in acked : a.seq \in 1..n /\ frames[a.seq].body = a.body
    BY <1>1 DEF LogInv, AckedDurable
  <2> QED
    BY <1>1, <1>3, <2>1, <2>2 DEF AckedDurable
<1>6. /\ torn' \in BOOLEAN /\ durable' \in Nat /\ logFaults' \in Nat
      /\ acked' \subseteq [seq : Nat, body : Bodies]
  <2>1. [seq |-> n + 1, body |-> body] \in [seq : Nat, body : Bodies]
    BY <1>1
  <2>2. /\ acked' = acked \cup {[seq |-> n + 1, body |-> body]}
        /\ torn' = FALSE /\ durable' = n + 1 /\ logFaults' = logFaults
    BY OpenCountIsLength DEF AppendOk
  <2> QED
    BY <1>1, <2>1, <2>2 DEF LogInv, LogTypeOK
<1> QED
  BY <1>3, <1>4, <1>5, <1>6 DEF LogInv, LogTypeOK, Indexes

\* An append that fails acknowledges nothing, whether or not its frame is there.
LEMMA AppendFailsKeeps ==
    ASSUME LogInv, NEW body \in Bodies, AppendFails(body)
    PROVE  LogInv'
<1>1. /\ Len(frames) \in Nat /\ durable \in Nat /\ durable <= Len(frames)
      /\ torn \in BOOLEAN /\ UNCHANGED acked /\ durable' \in {durable, Len(frames)}
      /\ logFaults' \in Nat
  BY DEF AppendFails, LogFault, LogInv, LogTypeOK, AckedDurable
<1>2. index' \in Indexes /\ RowsAligned'
  <2>1. index' \in {index, FullIndex(Len(frames))}
    BY DEF AppendFails
  <2>2. index \in Indexes /\ Aligned(index)
    BY DEF LogInv, LogTypeOK, RowsAligned, Indexes, Aligned
  <2> QED
    BY <1>1, <2>1, <2>2, FullIndexIsAligned DEF Aligned, RowsAligned
<1>3. CASE torn' \in BOOLEAN /\ UNCHANGED frames
  <2>1. AckedDurable' /\ InSequence'
    BY <1>1, <1>3 DEF LogInv, LogTypeOK, AckedDurable, InSequence
  <2> QED
    BY <1>1, <1>2, <1>3, <2>1 DEF LogInv, LogTypeOK, Indexes
<1>4. CASE /\ frames' = Append(frames, [seq |-> OpenCount + 1, body |-> body,
                                       ok |-> TRUE])
           /\ torn' = FALSE
  <2>1. /\ frames' \in Seq(Frames) /\ InSequence' /\ Len(frames') = Len(frames) + 1
        /\ \A i \in 1..Len(frames) : frames'[i] = frames[i]
    BY <1>4, AppendFrame
  <2>2. AckedDurable'
    <3>1. \A a \in acked : a.seq \in 1..durable /\ frames[a.seq].body = a.body
      BY DEF LogInv, AckedDurable
    <3> QED
      BY <1>1, <2>1, <3>1 DEF AckedDurable
  <2> QED
    BY <1>1, <1>2, <1>4, <2>1, <2>2 DEF LogInv, LogTypeOK, Indexes
<1> QED
  BY <1>3, <1>4 DEF AppendFails

\* A power failure drops frames from the end, none of them synced.
LEMMA PowerFailureKeeps ==
    ASSUME LogInv, PowerFailure
    PROVE  LogInv'
<1>1. PICK n \in durable..Len(frames) :
        /\ frames' = SubSeq(frames, 1, n)
        /\ torn' \in BOOLEAN
        /\ durable' = n
  BY DEF PowerFailure
<1>2. /\ frames \in Seq(Frames) /\ Len(frames) \in Nat /\ durable \in Nat
      /\ DOMAIN frames = 1..Len(frames)
      /\ n \in Nat /\ n <= Len(frames) /\ durable <= n
      /\ UNCHANGED acked /\ logFaults' \in Nat
  BY <1>1 DEF PowerFailure, LogFault, LogInv, LogTypeOK
<1>3. /\ frames' \in Seq(Frames) /\ Len(frames') = n
      /\ \A i \in 1..n : frames'[i] = frames[i]
  <2>1. \A i \in 1..n : frames[i] \in Frames
    BY <1>2
  <2>2. frames' = [i \in 1..n |-> frames[i]]
    BY <1>1, <1>2
  <2> QED
    BY <1>2, <2>1, <2>2
<1>4. InSequence' /\ AckedDurable'
  <2>1. \A i \in 1..n : frames[i].seq = i
    BY <1>2 DEF LogInv, InSequence
  <2>2. \A a \in acked : a.seq \in 1..n /\ frames[a.seq].body = a.body
    BY <1>2 DEF LogInv, AckedDurable
  <2> QED
    BY <1>1, <1>2, <1>3, <2>1, <2>2 DEF InSequence, AckedDurable
<1>5. index' \in Indexes /\ RowsAligned'
  <2>1. PICK u \in BOOLEAN, m \in 0..Len(index.rows), hole \in 0..Len(index.rows) :
          index' = [usable |-> u,
                    rows |-> [i \in 1..m |-> IF i = hole THEN 0 ELSE index.rows[i]]]
    BY DEF PowerFailure, IndexesLeft
  <2>2. index.rows \in Seq(Nat) /\ Len(index.rows) \in Nat /\ m \in Nat
        /\ 1..m \subseteq DOMAIN index.rows
    BY DEF LogInv, LogTypeOK
  <2>3. \A i \in 1..m : index.rows[i] \in Nat /\ index.rows[i] \in {0, SizeOf(i)}
    BY <2>2 DEF LogInv, RowsAligned
  <2>4. index'.rows \in [1..m -> Nat]
    BY <2>1, <2>3
  <2>5. index'.rows \in Seq(Nat) /\ DOMAIN index'.rows = 1..m
    BY <2>2, <2>4, SeqDef
  <2> QED
    BY <2>1, <2>3, <2>5 DEF Indexes, RowsAligned
<1> QED
  BY <1>1, <1>2, <1>3, <1>4, <1>5 DEF LogInv, LogTypeOK, Indexes

\* Damage changes whether a frame can be read, not its place in the log.
LEMMA DamageKeeps ==
    ASSUME LogInv, Damage
    PROVE  LogInv'
<1>1. PICK i \in DOMAIN frames : frames' = [frames EXCEPT ![i].ok = FALSE]
  BY DEF Damage
<1>2. /\ frames \in Seq(Frames) /\ DOMAIN frames = 1..Len(frames)
      /\ Len(frames) \in Nat /\ logFaults' \in Nat
      /\ UNCHANGED <<torn, index, durable, acked>>
  BY DEF Damage, LogFault, LogInv, LogTypeOK
<1>3. \A j \in 1..Len(frames) : frames[j] \in Frames
  BY <1>2
<1>4. \A j \in 1..Len(frames) :
        /\ frames'[j] \in Frames
        /\ frames'[j].seq = frames[j].seq /\ frames'[j].body = frames[j].body
  BY <1>1, <1>2, <1>3 DEF Frames
<1>5. /\ frames' \in Seq(Frames) /\ Len(frames') = Len(frames)
      /\ DOMAIN frames' = 1..Len(frames)
  <2>1. DOMAIN frames' = 1..Len(frames)
    BY <1>1, <1>2
  <2>2. frames' \in [1..Len(frames) -> Frames]
    BY <1>1, <1>2, <1>4
  <2> QED
    BY <1>2, <2>1, <2>2
<1>6. InSequence'
  BY <1>2, <1>4, <1>5 DEF LogInv, InSequence
<1>7. AckedDurable'
  <2>1. durable \in Nat /\ durable <= Len(frames)
    BY DEF LogInv, LogTypeOK, AckedDurable
  <2>2. \A a \in acked : a.seq \in 1..durable /\ frames[a.seq].body = a.body
    BY DEF LogInv, AckedDurable
  <2>3. \A a \in acked : frames'[a.seq].body = a.body
    BY <1>2, <1>4, <2>1, <2>2
  <2> QED
    BY <1>2, <1>5, <2>1, <2>2, <2>3 DEF AckedDurable
<1> QED
  BY <1>2, <1>5, <1>6, <1>7 DEF LogInv, LogTypeOK, RowsAligned

\* One step per action of the log.
LEMMA LogInvIsInductive == LogInv /\ [LogNext]_logVars => LogInv'
<1> SUFFICES ASSUME LogInv, [LogNext]_logVars PROVE LogInv'
  OBVIOUS
<1>1. logFaults \in Nat /\ Len(frames) \in Nat
  BY DEF LogInv, LogTypeOK
<1>2. CASE Open
  BY <1>1, <1>2, OpenKeeps DEF Open
<1>3. CASE OpenFails
  <2>1. /\ UNCHANGED <<frames, index, durable, acked>>
        /\ torn' \in BOOLEAN /\ logFaults' \in Nat
    <3>1. torn \in BOOLEAN /\ (torn' = torn \/ torn' = FALSE)
      BY <1>3 DEF OpenFails, LogInv, LogTypeOK
    <3>2. torn' \in BOOLEAN
      BY <3>1, Zenon
    <3> QED
      BY <1>1, <1>3, <3>2 DEF OpenFails, LogFault
  <2>2. LogTypeOK'
    BY <2>1 DEF LogInv, LogTypeOK
  <2> QED
    BY <2>1, <2>2 DEF LogInv, RowsAligned, InSequence, AckedDurable
<1>4. CASE AppendRefused
  <2>1. CASE Openable
    BY <1>1, <1>4, <2>1, OpenKeeps DEF AppendRefused
  <2>2. CASE ~Openable
    BY <1>4, <2>2 DEF AppendRefused, LogInv, LogTypeOK, RowsAligned, InSequence,
                      AckedDurable
  <2> QED
    BY <2>1, <2>2
<1>5. CASE PowerFailure
  BY <1>5, PowerFailureKeeps
<1>6. CASE Damage
  BY <1>6, DamageKeeps
<1>7. ASSUME NEW n \in 0..Len(frames), ReaderRebuilds(n) PROVE LogInv'
  <2>1. index' \in Indexes /\ RowsAligned'
    BY <1>1, <1>7, FullIndexIsAligned DEF ReaderRebuilds, Aligned, RowsAligned
  <2> QED
    BY <1>7, <2>1 DEF ReaderRebuilds, LogInv, LogTypeOK, InSequence, AckedDurable,
                      Indexes
<1>8. ASSUME NEW body \in Bodies, AppendOk(body) \/ AppendFails(body) PROVE LogInv'
  BY <1>8, AppendOkKeeps, AppendFailsKeeps
<1>9. CASE UNCHANGED logVars
  BY <1>9 DEF logVars, LogInv, LogTypeOK, RowsAligned, InSequence, AckedDurable
<1> QED
  BY <1>2, <1>3, <1>4, <1>5, <1>6, <1>7, <1>8, <1>9 DEF LogNext

LEMMA LogInvHolds == LogSpec => []LogInv
<1>1. LogInit => LogInv
  <2> SUFFICES ASSUME LogInit PROVE LogInv
    OBVIOUS
  <2>1. index \in Indexes /\ RowsAligned
    BY FullIndexIsAligned DEF LogInit, Aligned, RowsAligned
  <2>2. frames = << >> /\ frames \in Seq(Frames) /\ Len(frames) = 0
    BY EmptySeq DEF LogInit
  <2>3. LogTypeOK
    BY <2>1, <2>2 DEF LogInit, LogTypeOK, Indexes
  <2>4. InSequence
    BY <2>2 DEF InSequence
  <2>5. AckedDurable
    BY <2>2 DEF LogInit, AckedDurable
  <2> QED
    BY <2>1, <2>3, <2>4, <2>5 DEF LogInv
<1> QED
  BY <1>1, LogInvIsInductive, PTL DEF LogSpec

-----------------------------------------------------------------------------
\* event_log.c, event_index.c: the disk state is always of its type.
THEOREM LogTypeCorrect == LogSpec => []LogTypeOK
<1>1. LogInv => LogTypeOK
  BY DEF LogInv
<1> QED
  BY <1>1, LogInvHolds, PTL

\* asper_event_log_append, asper_event_files_open: an event that was acknowledged
\* stays in the log under its sequence, whatever calls fail, whatever is torn,
\* damaged, rebuilt or lost with the power afterwards.
THEOREM AcknowledgedEventsStay == LogSpec => []DurableKept
<1>1. LogInv => DurableKept
  <2> SUFFICES ASSUME LogInv, NEW a \in acked
               PROVE  /\ a.seq \in 1..Len(frames)
                      /\ frames[a.seq].seq = a.seq /\ frames[a.seq].body = a.body
    BY DEF DurableKept
  <2>1. a.seq \in 1..Len(frames) /\ frames[a.seq].body = a.body
    BY DEF LogInv, LogTypeOK, AckedDurable
  <2>2. DOMAIN frames = 1..Len(frames)
    BY DEF LogInv, LogTypeOK
  <2> QED
    BY <2>1, <2>2 DEF LogInv, InSequence
<1> QED
  BY <1>1, LogInvHolds, PTL

-----------------------------------------------------------------------------
(* The scope.                                                              *)

(* What is said of a call, of the disk as it is then.                      *)

\* The object is stored, or its store had failed after it became visible.
HasObject(stored, doubts, ref) == stored[ref] # "none" \/ ref \in doubts

\* The log has the CHECKPOINT event of a text where a power failure keeps it.
CheckpointAt(log, synced, seq, text) ==
    /\ seq \in 1..synced
    /\ log[seq].body.kind = "checkpoint" /\ log[seq].body.ref = text

Seqs(done) == {c.seq : c \in done}

FineAppend(c, stored, doubts) ==
    /\ c.op = "append"
    /\ c = [op |-> "append", at |-> c.at, body |-> c.body]
    /\ c.at \in {"origin", "log"} /\ c.body \in Bodies
    /\ c.body.ref \in Refs \cup {NoRef}
    /\ c.at = "origin" => c.body.ref = Origin
    /\ c.at = "log" /\ c.body.ref # NoRef => HasObject(stored, doubts, c.body.ref)

FineCommit(c, log, synced, stored, doubts, done) ==
    /\ c.op = "commit"
    /\ c = [op |-> "commit", at |-> c.at, text |-> c.text, seq |-> c.seq, id |-> c.id,
            before |-> c.before]
    /\ c.at \in {"put", "event", "file"} /\ c.text \in Texts
    /\ Body(c.id, "checkpoint", c.text, FALSE) \in Bodies
    /\ c.before \subseteq Seqs(done)
    /\ c.at \in {"event", "file"} => HasObject(stored, doubts, c.text)
    /\ c.at = "file" => CheckpointAt(log, synced, c.seq, c.text) /\ c.seq \notin Seqs(done)

FineWalk(c, log) ==
    /\ c.op = "walk"
    /\ c = [op |-> "walk", cursor |-> c.cursor, seen |-> c.seen]
    /\ c.seen \in Seq({body.id : body \in Bodies})
    /\ c.cursor = Len(c.seen) /\ c.cursor <= Len(log)
    /\ \A i \in 1..c.cursor : c.seen[i] = log[i].body.id

FinePin(c) ==
    /\ c.op = "pin"
    /\ c = [op |-> "pin", at |-> c.at, id |-> c.id, value |-> c.value, cursor |-> c.cursor]
    /\ c.at \in {"search", "row"}

FineView(c, log) ==
    /\ c.op = "view"
    /\ c = [op |-> "view", count |-> c.count, size |-> c.size, touched |-> c.touched,
            rows |-> c.rows, pins |-> c.pins, was |-> c.was, got |-> c.got]
    /\ c.count \in 0..Len(log)
    /\ \A i \in 1..c.count : c.was[i] = Shown(log, c.pins, i)
    /\ \A e \in c.got : e.seq \in 1..c.count /\ e.shown = c.was[e.seq]

Fine(c, log, synced, stored, doubts, done) ==
    \/ c = Idle
    \/ FineAppend(c, stored, doubts)
    \/ FineCommit(c, log, synced, stored, doubts, done)
    \/ FineWalk(c, log) \/ FinePin(c) \/ FineView(c, log)

CallsFine ==
    /\ call = [h \in Hosts |-> call[h]]
    /\ \A h \in Hosts : Fine(call[h], frames, durable, objects, doubted, commits)

\* Two commits never have the same event.
OwnEvent ==
    \A g, h \in Hosts :
        /\ call[g].op = "commit" /\ call[g].at = "file"
        /\ call[h].op = "commit" /\ call[h].at = "file"
        /\ call[g].seq = call[h].seq
        => g = h

(* What is said of the disk. *)

ScopeLines == {"none", "volatile", "synced", "durable", "torn"}

SidesTyped ==
    /\ objects \in [Refs -> {"none", "volatile", "durable"}]
    /\ scope \in ScopeLines
    /\ checkpoint = [now |-> checkpoint.now, safe |-> checkpoint.safe]
    /\ calls \in Nat

\* What is visible and not synced is what a failed store left.
DoubtsKnown ==
    /\ \A ref \in Refs : objects[ref] = "volatile" => ref \in doubted
    /\ scope = "volatile" => "scope" \in doubted

FramesBacked ==
    \A i \in 1..Len(frames) :
        LET ref == frames[i].body.ref IN
        ref \in Refs \cup {NoRef} /\ (ref # NoRef => HasObject(objects, doubted, ref))

ScopeKnown ==
    frames # << >> =>
        scope \notin {"none", "torn"} \/ "scope" \in doubted \/ "index" \in doubted

FileBacked(file) ==
    file # NoFile => CheckpointAt(frames, durable, file.seq, file.text)

FilesBacked == FileBacked(checkpoint.now) /\ FileBacked(checkpoint.safe)

CommitsFresh ==
    \A c \in commits :
        /\ c.seq \in 1..durable /\ c.before \subseteq Seqs(commits)
        /\ checkpoint.now # NoFile /\ checkpoint.now.seq \notin c.before
        /\ checkpoint.safe # NoFile /\ checkpoint.safe.seq \notin c.before

DiskInv == /\ SidesTyped /\ DoubtsKnown /\ FramesBacked /\ ScopeKnown
           /\ FilesBacked /\ CommitsFresh

SourcesInv == LogInv /\ DiskInv /\ CallsFine /\ OwnEvent

-----------------------------------------------------------------------------
(* What a step does to the log, for those who only read it. *)

\* The log is right, and has all its events and perhaps new ones.
LogGrows(new) ==
    /\ LogInv'
    /\ Len(frames) <= Len(frames') /\ durable <= durable'
    /\ \A i \in 1..Len(frames) : frames'[i].body = frames[i].body
    /\ \A i \in 1..Len(frames') : i \in 1..Len(frames) \/ frames'[i].body \in new

LEMMA LogSizes ==
    ASSUME LogInv
    PROVE  /\ Len(frames) \in Nat /\ durable \in Nat /\ durable <= Len(frames)
           /\ frames \in Seq(Frames) /\ DOMAIN frames = 1..Len(frames)
           /\ logFaults \in Nat
           /\ \A i \in 1..Len(frames) : frames[i] \in Frames /\ frames[i].body \in Bodies
<1>1. \A i \in 1..Len(frames) : frames[i] \in Frames
  BY ElementOfSeq DEF LogInv, LogTypeOK
<1>2. \A f \in Frames : f.body \in Bodies
  BY DEF Frames
<1> QED
  BY <1>1, <1>2 DEF LogInv, LogTypeOK, AckedDurable

LEMMA FramesStay ==
    ASSUME LogInv, LogInv', UNCHANGED frames, durable <= durable'
    PROVE  LogGrows({})
BY LogSizes DEF LogGrows

\* A fault that leaves the log alone.
LEMMA QuietLog ==
    ASSUME LogInv, UNCHANGED <<frames, torn, index, durable, acked>>, logFaults' \in Nat
    PROVE  LogGrows({})
<1>1. LogInv'
  BY DEF LogInv, LogTypeOK, RowsAligned, InSequence, AckedDurable
<1> QED
  BY <1>1, FramesStay, LogSizes

LEMMA FaultCounts == ASSUME LogInv, LogFault PROVE logFaults' \in Nat
BY LogSizes DEF LogFault

LEMMA OpenGrows ==
    ASSUME LogInv, AfterOpen, UNCHANGED acked, logFaults' \in Nat
    PROVE  LogGrows({})
<1>1. LogInv'
  BY OpenKeeps
<1>2. UNCHANGED frames /\ durable <= durable'
  BY LogSizes DEF AfterOpen
<1> QED
  BY <1>1, <1>2, FramesStay

LEMMA ReadGrows ==
    ASSUME LogInv, Open PROVE LogGrows({})
BY OpenGrows, LogSizes DEF Open

LEMMA RefusedGrows ==
    ASSUME LogInv, AppendRefused PROVE LogGrows({})
<1>1. CASE Openable
  BY <1>1, OpenGrows, LogSizes DEF AppendRefused
<1>2. CASE ~Openable
  BY <1>2, QuietLog, LogSizes DEF AppendRefused
<1> QED
  BY <1>1, <1>2

LEMMA RebuildGrows ==
    ASSUME LogInv, NEW n \in 0..Len(frames), ReaderRebuilds(n)
    PROVE  LogGrows({})
<1>1. LogInv'
  BY LogInvIsInductive DEF LogNext
<1>2. UNCHANGED <<frames, durable>>
  BY DEF ReaderRebuilds
<1> QED
  BY <1>1, <1>2, FramesStay, LogSizes

LEMMA AppendOkGrows ==
    ASSUME LogInv, NEW body \in Bodies, AppendOk(body)
    PROVE  /\ LogGrows({body})
           /\ Len(frames') = Len(frames) + 1 /\ durable' = Len(frames) + 1
           /\ OpenCount = Len(frames)
           /\ frames'[Len(frames) + 1].body = body
<1>1. LogInv'
  BY AppendOkKeeps
<1>2. /\ Len(frames') = Len(frames) + 1
      /\ \A i \in 1..Len(frames) : frames'[i] = frames[i]
      /\ frames'[Len(frames) + 1].body = body
  BY AppendFrame DEF AppendOk
<1>3. durable' = Len(frames) + 1 /\ OpenCount = Len(frames)
  BY OpenCountIsLength DEF AppendOk
<1>4. \A i \in 1..Len(frames) + 1 : i \in 1..Len(frames) \/ i = Len(frames) + 1
  BY LogSizes
<1> QED
  BY <1>1, <1>2, <1>3, <1>4, LogSizes DEF LogGrows

LEMMA AppendFailsGrows ==
    ASSUME LogInv, NEW body \in Bodies, AppendFails(body)
    PROVE  LogGrows({body})
<1>1. LogInv' /\ durable <= durable'
  <2>1. durable' = durable \/ durable' = Len(frames)
    BY DEF AppendFails
  <2> QED
    BY <2>1, AppendFailsKeeps, LogSizes
<1>2. CASE UNCHANGED frames
  BY <1>1, <1>2, FramesStay DEF LogGrows
<1>3. CASE frames' = Append(frames, [seq |-> OpenCount + 1, body |-> body, ok |-> TRUE])
  <2>1. /\ Len(frames') = Len(frames) + 1
        /\ \A i \in 1..Len(frames) : frames'[i] = frames[i]
        /\ frames'[Len(frames) + 1].body = body
    BY <1>3, AppendFrame
  <2>2. \A i \in 1..Len(frames) + 1 : i \in 1..Len(frames) \/ i = Len(frames) + 1
    BY LogSizes
  <2> QED
    BY <1>1, <2>1, <2>2, LogSizes DEF LogGrows
<1> QED
  BY <1>2, <1>3 DEF AppendFails

LEMMA DamageGrows ==
    ASSUME LogInv, Damage PROVE LogGrows({})
<1>1. LogInv'
  BY DamageKeeps
<1>2. PICK i \in DOMAIN frames : frames' = [frames EXCEPT ![i].ok = FALSE]
  BY DEF Damage
<1>3. DOMAIN frames' = DOMAIN frames
  BY <1>2
<1>4. Len(frames') = Len(frames)
  <2>1. DOMAIN frames' = 1..Len(frames') /\ Len(frames') \in Nat
    BY <1>1 DEF LogInv, LogTypeOK
  <2> QED
    BY <1>3, <2>1, LogSizes
<1>5. \A j \in 1..Len(frames) : frames'[j].body = frames[j].body
  BY <1>2, LogSizes DEF Frames
<1>6. durable' = durable
  BY DEF Damage
<1> QED
  BY <1>1, <1>4, <1>5, <1>6, LogSizes DEF LogGrows
-----------------------------------------------------------------------------
(* What a step leaves of what is said of a call. *)

\* Objects stay and doubts are not forgotten.
Stays(stored, doubts, stored2, doubts2) ==
    \A ref \in Refs : HasObject(stored, doubts, ref) => HasObject(stored2, doubts2, ref)

\* The events of a log are those of another one, which may have more.
Extends(log, synced, log2, synced2) ==
    /\ Len(log) \in Nat /\ Len(log2) \in Nat /\ Len(log) <= Len(log2)
    /\ synced \in 0..Len(log) /\ synced2 \in Nat /\ synced <= synced2
    /\ \A i \in 1..Len(log) : log2[i].body = log[i].body

LEMMA CheckpointStays ==
    ASSUME NEW log, NEW synced, NEW log2, NEW synced2,
           Extends(log, synced, log2, synced2),
           NEW seq, NEW text, CheckpointAt(log, synced, seq, text)
    PROVE  CheckpointAt(log2, synced2, seq, text)
BY DEF Extends, CheckpointAt

\* No call is misled by a step that keeps what was.
LEMMA FineStays ==
    ASSUME NEW log, NEW synced, NEW log2, NEW synced2,
           Extends(log, synced, log2, synced2),
           NEW stored, NEW doubts, NEW stored2, NEW doubts2,
           Stays(stored, doubts, stored2, doubts2),
           NEW done, NEW c, Fine(c, log, synced, stored, doubts, done)
    PROVE  Fine(c, log2, synced2, stored2, doubts2, done)
<1>1. CASE c = Idle
  BY <1>1 DEF Fine
<1>2. CASE FineAppend(c, stored, doubts)
  BY <1>2 DEF FineAppend, Fine, Stays
<1>3. CASE FineCommit(c, log, synced, stored, doubts, done)
  <2>1. c.at = "file" => CheckpointAt(log2, synced2, c.seq, c.text)
    BY <1>3, CheckpointStays DEF FineCommit
  <2>2. c.text \in Refs
    BY <1>3 DEF FineCommit, Refs
  <2>3. c.at \in {"event", "file"} => HasObject(stored2, doubts2, c.text)
    BY <1>3, <2>2 DEF FineCommit, Stays
  <2>4. FineCommit(c, log2, synced2, stored2, doubts2, done)
    BY <1>3, <2>1, <2>3 DEF FineCommit
  <2> QED
    BY <2>4 DEF Fine
<1>4. CASE FineWalk(c, log)
  <2>1. FineWalk(c, log2)
    BY <1>4 DEF FineWalk, Extends
  <2> QED
    BY <2>1 DEF Fine
<1>5. CASE FinePin(c)
  BY <1>5 DEF Fine
<1>6. CASE FineView(c, log)
  <2>1. c.count \in 0..Len(log2) /\ \A i \in 1..c.count : i \in 1..Len(log)
    BY <1>6 DEF FineView, Extends
  <2>2. \A i \in 1..c.count : Shown(log2, c.pins, i) = Shown(log, c.pins, i)
    BY <2>1 DEF Extends, Shown
  <2>3. FineView(c, log2)
    BY <1>6, <2>1, <2>2 DEF FineView
  <2> QED
    BY <2>3 DEF Fine
<1> QED
  BY <1>1, <1>2, <1>3, <1>4, <1>5, <1>6 DEF Fine

\* Only a view's note that the file was written changes.
LEMMA NoticingKeeps ==
    ASSUME NEW c, NEW log, NEW synced, NEW stored, NEW doubts, NEW done,
           Fine(c, log, synced, stored, doubts, done)
    PROVE  /\ Fine(Noticing(c), log, synced, stored, doubts, done)
           /\ c.op = "view" => Noticing(c).op = "view"
           /\ c.op # "view" => Noticing(c) = c
<1>1. CASE c.op # "view"
  BY <1>1 DEF Noticing
<1>2. CASE c.op = "view"
  <2>1. FineView(c, log)
    BY <1>2 DEF Fine, Idle, FineAppend, FineCommit, FineWalk, FinePin
  <2>2. Noticing(c) = [op |-> "view", count |-> c.count, size |-> c.size, touched |-> TRUE,
                       rows |-> c.rows, pins |-> c.pins, was |-> c.was, got |-> c.got]
    BY <1>2, <2>1 DEF Noticing, FineView
  <2>3. FineView(Noticing(c), log)
    BY <2>1, <2>2 DEF FineView
  <2> QED
    BY <1>2, <2>2, <2>3 DEF Fine
<1> QED
  BY <1>1, <1>2

\* What is said of a call depends on what it is.
LEMMA FineKind ==
    ASSUME NEW c, NEW log, NEW synced, NEW stored, NEW doubts, NEW done,
           Fine(c, log, synced, stored, doubts, done)
    PROVE  /\ c.op = "append" => FineAppend(c, stored, doubts)
           /\ c.op = "commit" => FineCommit(c, log, synced, stored, doubts, done)
           /\ c.op = "walk" => FineWalk(c, log)
           /\ c.op = "pin" => FinePin(c)
           /\ c.op = "view" => FineView(c, log)
<1>1. c = Idle => c.op = "idle"
  BY DEF Idle
<1>2. FineAppend(c, stored, doubts) => c.op = "append"
  BY DEF FineAppend
<1>3. FineCommit(c, log, synced, stored, doubts, done) => c.op = "commit"
  BY DEF FineCommit
<1>4. FineWalk(c, log) => c.op = "walk"
  BY DEF FineWalk
<1>5. FinePin(c) => c.op = "pin"
  BY DEF FinePin
<1>6. FineView(c, log) => c.op = "view"
  BY DEF FineView
<1> QED
  BY <1>1, <1>2, <1>3, <1>4, <1>5, <1>6 DEF Fine
-----------------------------------------------------------------------------
(* One host's step. *)

\* Of the other hosts' calls, a view at most notices that the file changed.
Others(h) ==
    /\ call' = [g \in Hosts |-> call'[g]]
    /\ \A g \in Hosts \ {h} : call'[g] = call[g] \/ call'[g] = Noticing(call[g])

LEMMA GotoSets ==
    ASSUME CallsFine, NEW h \in Hosts, NEW c, Goto(h, c)
    PROVE  Others(h) /\ call'[h] = c
<1>1. call = [g \in Hosts |-> call[g]] /\ call' = [call EXCEPT ![h] = c]
  BY DEF CallsFine, Goto
<1>2. DOMAIN call = Hosts
  BY <1>1
<1>3. call' = [g \in Hosts |-> IF g = h THEN c ELSE call[g]]
  BY <1>1, <1>2
<1> QED
  BY <1>3 DEF Others

LEMMA GotoWritingSets ==
    ASSUME NEW h \in Hosts, NEW c, GotoWriting(h, c)
    PROVE  Others(h) /\ call'[h] = c
BY DEF GotoWriting, Others

LEMMA LogExtends ==
    ASSUME LogInv, NEW new, LogGrows(new)
    PROVE  Extends(frames, durable, frames', durable')
<1>1. Len(frames') \in Nat /\ durable' \in Nat
  BY DEF LogGrows, LogInv, LogTypeOK
<1> QED
  BY <1>1, LogSizes DEF LogGrows, Extends

\* What other calls hold is kept, and the events of commits stay their own.
LEMMA OthersFine ==
    ASSUME SourcesInv, NEW h \in Hosts, Others(h), NEW new, LogGrows(new),
           Stays(objects, doubted, objects', doubted'), UNCHANGED commits,
           Fine(call'[h], frames', durable', objects', doubted', commits),
           call'[h].op = "commit" /\ call'[h].at = "file" => call'[h].seq \notin 1..durable
    PROVE  CallsFine' /\ OwnEvent'
<1>1. Extends(frames, durable, frames', durable') /\ LogInv
  BY LogExtends DEF SourcesInv
<1>2. \A g \in Hosts : Fine(call[g], frames, durable, objects, doubted, commits)
  BY DEF SourcesInv, CallsFine
<1>3. \A g \in Hosts : Fine(Noticing(call[g]), frames, durable, objects, doubted, commits)
  BY <1>2, NoticingKeeps
<1>4. \A c : Fine(c, frames, durable, objects, doubted, commits)
             => Fine(c, frames', durable', objects', doubted', commits)
  BY <1>1, FineStays
<1>5. \A g \in Hosts : Fine(call'[g], frames', durable', objects', doubted', commits)
  <2> SUFFICES ASSUME NEW g \in Hosts
               PROVE  Fine(call'[g], frames', durable', objects', doubted', commits)
    OBVIOUS
  <2>1. CASE g = h
    BY <2>1
  <2>2. CASE g # h
    <3>1. call'[g] = call[g] \/ call'[g] = Noticing(call[g])
      BY <2>2 DEF Others
    <3> QED
      BY <1>2, <1>3, <1>4, <3>1, Zenon
  <2> QED
    BY <2>1, <2>2
<1>6. CallsFine'
  BY <1>5 DEF CallsFine, Others
<1>7. ASSUME NEW g \in Hosts \ {h}, call'[g].op = "commit", call'[g].at = "file"
      PROVE  call[g].op = "commit" /\ call[g].at = "file" /\ call'[g] = call[g]
  <2>1. /\ call[g].op = "view" => Noticing(call[g]).op = "view"
        /\ call[g].op # "view" => Noticing(call[g]) = call[g]
    BY <1>2, NoticingKeeps
  <2>2. call'[g] = call[g] \/ call'[g] = Noticing(call[g])
    BY DEF Others
  <2>3. "view" # "commit"
    OBVIOUS
  <2> QED
    BY <1>7, <2>1, <2>2, <2>3
<1>8. ASSUME NEW g \in Hosts \ {h}, call'[g].op = "commit", call'[g].at = "file"
      PROVE  call'[g].seq \in 1..durable
  <2>1. call[g].op = "commit" /\ call[g].at = "file" /\ call'[g] = call[g]
    BY <1>7, <1>8
  <2>2. FineCommit(call[g], frames, durable, objects, doubted, commits)
    BY <1>2, <2>1, FineKind
  <2> QED
    BY <2>1, <2>2 DEF FineCommit, CheckpointAt
<1>9. OwnEvent'
  <2> SUFFICES ASSUME NEW g \in Hosts, NEW k \in Hosts,
                      call'[g].op = "commit", call'[g].at = "file",
                      call'[k].op = "commit", call'[k].at = "file",
                      call'[g].seq = call'[k].seq
               PROVE  g = k
    BY DEF OwnEvent
  <2>1. CASE g # h /\ k # h
    <3>1. call'[g] = call[g] /\ call'[k] = call[k]
      BY <1>7, <2>1
    <3> QED
      BY <3>1 DEF SourcesInv, OwnEvent
  <2>2. CASE g = h /\ k # h
    BY <1>8, <2>2
  <2>3. CASE g # h /\ k = h
    BY <1>8, <2>3
  <2>4. CASE g = h /\ k = h
    BY <2>4
  <2> QED
    BY <2>1, <2>2, <2>3, <2>4
<1> QED
  BY <1>6, <1>9

\* The disk is right as long as the new events rest on what is stored.
LEMMA DiskStays ==
    ASSUME SourcesInv, NEW new, LogGrows(new),
           \A b \in new : /\ b.ref \in Refs \cup {NoRef}
                          /\ b.ref # NoRef => HasObject(objects', doubted', b.ref),
           Stays(objects, doubted, objects', doubted'),
           SidesTyped', DoubtsKnown', ScopeKnown', UNCHANGED <<checkpoint, commits>>
    PROVE  DiskInv'
<1>1. Extends(frames, durable, frames', durable') /\ LogInv
  BY LogExtends DEF SourcesInv
<1>2. FramesBacked'
  <2> SUFFICES ASSUME NEW i \in 1..Len(frames')
               PROVE  /\ frames'[i].body.ref \in Refs \cup {NoRef}
                      /\ frames'[i].body.ref # NoRef
                         => HasObject(objects', doubted', frames'[i].body.ref)
    BY DEF FramesBacked
  <2>1. CASE i \in 1..Len(frames)
    <3>1. frames'[i].body = frames[i].body
      BY <2>1 DEF LogGrows
    <3>2. /\ frames[i].body.ref \in Refs \cup {NoRef}
          /\ frames[i].body.ref # NoRef => HasObject(objects, doubted, frames[i].body.ref)
      BY <2>1 DEF SourcesInv, DiskInv, FramesBacked
    <3> QED
      BY <3>1, <3>2 DEF Stays
  <2>2. CASE frames'[i].body \in new
    BY <2>2
  <2> QED
    BY <2>1, <2>2 DEF LogGrows
<1>3. \A seq, text : CheckpointAt(frames, durable, seq, text)
                     => CheckpointAt(frames', durable', seq, text)
  BY <1>1, CheckpointStays
<1>4. FilesBacked'
  BY <1>3 DEF SourcesInv, DiskInv, FilesBacked, FileBacked
<1>5. CommitsFresh'
  <2>1. \A i \in 1..durable : i \in 1..durable'
    BY <1>1 DEF Extends
  <2> QED
    BY <2>1 DEF SourcesInv, DiskInv, CommitsFresh
<1> QED
  BY <1>2, <1>4, <1>5 DEF DiskInv

LEMMA HostStep ==
    ASSUME SourcesInv, NEW h \in Hosts, Others(h), NEW new, LogGrows(new),
           \A b \in new : /\ b.ref \in Refs \cup {NoRef}
                          /\ b.ref # NoRef => HasObject(objects', doubted', b.ref),
           Stays(objects, doubted, objects', doubted'),
           SidesTyped', DoubtsKnown', ScopeKnown', UNCHANGED <<checkpoint, commits>>,
           Fine(call'[h], frames', durable', objects', doubted', commits),
           call'[h].op = "commit" /\ call'[h].at = "file" => call'[h].seq \notin 1..durable
    PROVE  SourcesInv'
<1>1. CallsFine' /\ OwnEvent'
  BY OthersFine
<1>2. DiskInv'
  BY DiskStays
<1>3. LogInv'
  BY DEF LogGrows
<1> QED
  BY <1>1, <1>2, <1>3 DEF SourcesInv

\* A step that only reads the disk, or leaves it alone.
LEMMA SameFrames ==
    ASSUME LogInv, LogGrows({})
    PROVE  Len(frames') = Len(frames) /\ (frames' = << >> <=> frames = << >>)
<1>1. Len(frames) \in Nat /\ Len(frames') \in Nat
  BY LogSizes DEF LogGrows, LogInv, LogTypeOK
<1>2. Len(frames') <= Len(frames)
  <2> SUFFICES ASSUME Len(frames') > Len(frames) PROVE FALSE
    BY <1>1
  <2>1. Len(frames') \in 1..Len(frames')
    BY <1>1
  <2> QED
    BY <1>1, <2>1 DEF LogGrows
<1>3. frames \in Seq(Frames) /\ frames' \in Seq(Frames)
  BY DEF LogGrows, LogInv, LogTypeOK
<1>4. Len(frames') = Len(frames)
  BY <1>1, <1>2 DEF LogGrows
<1> QED
  BY <1>3, <1>4, EmptySeq

LEMMA Bystander ==
    ASSUME SourcesInv, NEW h \in Hosts, Others(h), LogGrows({}),
           UNCHANGED <<objects, scope, checkpoint, doubted, commits>>, calls' \in Nat,
           Fine(call'[h], frames', durable', objects, doubted, commits),
           ~(call'[h].op = "commit" /\ call'[h].at = "file")
    PROVE  SourcesInv'
<1>1. Stays(objects, doubted, objects', doubted')
  BY DEF Stays
<1>2. SidesTyped' /\ DoubtsKnown'
  BY DEF SourcesInv, DiskInv, SidesTyped, DoubtsKnown
<1>3. ScopeKnown'
  BY SameFrames DEF SourcesInv, DiskInv, ScopeKnown
<1>4. Fine(call'[h], frames', durable', objects', doubted', commits)
  OBVIOUS
<1> QED
  BY <1>1, <1>2, <1>3, <1>4, HostStep
-----------------------------------------------------------------------------
(* What is stored before an event: objects and the scope's line. *)

LEMMA PutObjectStores ==
    ASSUME SourcesInv, NEW ref \in Refs, PutObject(ref)
    PROVE  /\ objects' \in [Refs -> {"none", "volatile", "durable"}]
           /\ HasObject(objects', doubted', ref)
           /\ Stays(objects, doubted, objects', doubted')
           /\ DoubtsKnown'
           /\ UNCHANGED <<scope, checkpoint, doubted, commits>>
<1>1. /\ objects \in [Refs -> {"none", "volatile", "durable"}] /\ DoubtsKnown
      /\ UNCHANGED <<scope, checkpoint, doubted, commits>>
  BY DEF SourcesInv, DiskInv, SidesTyped, PutObject
<1>2. CASE objects[ref] = "none"
  <2>1. objects' = [objects EXCEPT ![ref] = "durable"]
    BY <1>2 DEF PutObject
  <2>2. \A r \in Refs : objects'[r] = IF r = ref THEN "durable" ELSE objects[r]
    BY <1>1, <2>1
  <2>3. objects' \in [Refs -> {"none", "volatile", "durable"}]
    BY <1>1, <2>1
  <2>4. "durable" # "none" /\ "durable" # "volatile"
    OBVIOUS
  <2> QED
    BY <1>1, <2>2, <2>3, <2>4 DEF HasObject, Stays, DoubtsKnown
<1>3. CASE objects[ref] # "none"
  <2>1. objects' = objects
    BY <1>3 DEF PutObject
  <2> QED
    BY <1>1, <1>3, <2>1 DEF HasObject, Stays, DoubtsKnown
<1> QED
  BY <1>2, <1>3

LEMMA PutFailsStores ==
    ASSUME SourcesInv, NEW ref \in Refs, PutFails(ref)
    PROVE  /\ objects' \in [Refs -> {"none", "volatile", "durable"}]
           /\ Stays(objects, doubted, objects', doubted')
           /\ DoubtsKnown' /\ doubted \subseteq doubted'
           /\ LogGrows({})
           /\ UNCHANGED <<scope, checkpoint, commits>>
<1>1. /\ objects \in [Refs -> {"none", "volatile", "durable"}] /\ DoubtsKnown /\ LogInv
      /\ UNCHANGED <<frames, torn, index, durable, acked, scope, checkpoint, commits>>
      /\ LogFault
  BY DEF SourcesInv, DiskInv, SidesTyped, PutFails
<1>2. PICK left \in {"none", "volatile"} :
        /\ objects' = [objects EXCEPT ![ref] = left]
        /\ doubted' = IF left = "volatile" THEN doubted \cup {ref} ELSE doubted
  BY DEF PutFails
<1>3. \A r \in Refs : objects'[r] = IF r = ref THEN left ELSE objects[r]
  BY <1>1, <1>2
<1>4. objects' \in [Refs -> {"none", "volatile", "durable"}]
  BY <1>1, <1>2
<1>5. doubted \subseteq doubted' /\ (left = "volatile" => ref \in doubted')
  BY <1>2
<1>6. Stays(objects, doubted, objects', doubted')
  <2>1. objects[ref] = "none"
    BY DEF PutFails
  <2> QED
    BY <1>3, <1>5, <2>1 DEF Stays, HasObject
<1>7. DoubtsKnown'
  BY <1>1, <1>3, <1>5 DEF DoubtsKnown
<1>8. LogGrows({})
  BY <1>1, QuietLog, FaultCounts
<1> QED
  BY <1>1, <1>4, <1>5, <1>6, <1>7, <1>8

\* The scope's line is there once an event is stored.
LEMMA StoreStores ==
    ASSUME SourcesInv, NEW body \in Bodies, Store(body)
    PROVE  /\ UNCHANGED <<objects, checkpoint, doubted, commits>>
           /\ scope' \in ScopeLines /\ scope' \notin {"none", "torn"}
           /\ DoubtsKnown' /\ ScopeKnown'
           /\ LogGrows({body})
           /\ Len(frames') = Len(frames) + 1 /\ durable' = Len(frames) + 1
           /\ OpenCount = Len(frames)
           /\ frames'[Len(frames) + 1].body = body
<1>1. /\ UNCHANGED <<objects, checkpoint, doubted, commits>>
      /\ scope' = (IF scope = "none" THEN "synced" ELSE scope) /\ scope # "torn"
      /\ AppendOk(body) /\ LogInv
      /\ DoubtsKnown /\ scope \in ScopeLines
  BY DEF SourcesInv, DiskInv, SidesTyped, Store, Register
<1>2. scope' \in ScopeLines /\ scope' \notin {"none", "torn"}
      /\ (scope' = "volatile" => scope = "volatile")
  BY <1>1 DEF ScopeLines
<1>3. DoubtsKnown' /\ ScopeKnown'
  BY <1>1, <1>2 DEF DoubtsKnown, ScopeKnown
<1> QED
  BY <1>1, <1>2, <1>3, AppendOkGrows

LEMMA StoreFailsStores ==
    ASSUME SourcesInv, NEW body \in Bodies, StoreFails(body)
    PROVE  /\ UNCHANGED <<objects, checkpoint, commits>>
           /\ scope' \in ScopeLines
           /\ DoubtsKnown' /\ ScopeKnown' /\ doubted \subseteq doubted'
           /\ LogGrows({body})
<1>0. /\ LogInv /\ DoubtsKnown /\ ScopeKnown
      /\ scope \in ScopeLines
  BY DEF SourcesInv, DiskInv, SidesTyped
<1>1. CASE RegisterFails
  <2>1. PICK left \in {"none", "volatile", "torn"} :
          /\ scope' = left
          /\ doubted' = IF left = "volatile" THEN doubted \cup {"scope"} ELSE doubted
    BY <1>1 DEF RegisterFails
  <2>2. /\ UNCHANGED <<frames, torn, index, durable, acked, objects, checkpoint, commits>>
        /\ LogFault /\ scope = "none"
    BY <1>1 DEF RegisterFails
  <2>3. LogGrows({})
    BY <1>0, <2>2, QuietLog, FaultCounts
  <2>4. LogGrows({body})
    BY <2>3 DEF LogGrows
  <2>5. doubted \subseteq doubted' /\ (left = "volatile" => "scope" \in doubted')
    BY <2>1
  <2>6. DoubtsKnown'
    BY <1>0, <2>1, <2>2, <2>5 DEF DoubtsKnown
  <2>7. ScopeKnown'
    BY <1>0, <2>2, <2>5 DEF ScopeKnown
  <2>8. scope' \in ScopeLines
    BY <2>1 DEF ScopeLines
  <2> QED
    BY <2>2, <2>4, <2>5, <2>6, <2>7, <2>8
<1>2. CASE /\ scope # "torn" /\ Register
           /\ AppendRefused \/ AppendFails(body)
           /\ UNCHANGED <<objects, pins, checkpoint, doubted, commits>>
  <2>1. LogGrows({body})
    <3>1. CASE AppendRefused
      BY <1>0, <3>1, RefusedGrows DEF LogGrows
    <3>2. CASE AppendFails(body)
      BY <1>0, <3>2, AppendFailsGrows
    <3> QED
      BY <1>2, <3>1, <3>2
  <2>2. scope' = (IF scope = "none" THEN "synced" ELSE scope) /\ scope # "torn"
    BY <1>2 DEF Register
  <2>3. /\ scope' \in ScopeLines /\ scope' \notin {"none", "torn"}
        /\ (scope' = "volatile" => scope = "volatile")
    BY <1>0, <2>2 DEF ScopeLines
  <2>4. DoubtsKnown' /\ ScopeKnown'
    BY <1>0, <1>2, <2>3 DEF DoubtsKnown, ScopeKnown
  <2> QED
    BY <1>2, <2>1, <2>3, <2>4
<1>3. CASE scope = "torn" /\ UNCHANGED <<logVars, sideVars>>
  <2>1. UNCHANGED <<frames, torn, index, durable, acked, logFaults, objects, scope,
                    checkpoint, doubted, commits>>
    BY <1>3 DEF logVars, sideVars
  <2>2. LogGrows({})
    BY <1>0, <2>1, QuietLog, LogSizes
  <2>3. LogGrows({body})
    BY <2>2 DEF LogGrows
  <2> QED
    BY <1>0, <2>1, <2>3 DEF DoubtsKnown, ScopeKnown
<1> QED
  BY <1>1, <1>2, <1>3 DEF StoreFails
-----------------------------------------------------------------------------
(* asper_event_append. *)

LEMMA BodiesKnown ==
    /\ Earlier \in Nat /\ MaxCalls \in Nat
    /\ \A id \in 1..Earlier : Body(id, "note", NoRef, FALSE) \in Bodies
    /\ \A id \in 1..MaxCalls, text \in Texts : Body(id, "checkpoint", text, FALSE) \in Bodies
    /\ \A id \in 1..MaxCalls, e \in Inputs :
          Body(id, e.kind, IF e.kind = "turn" THEN Origin ELSE NoRef, e.pinned) \in Bodies
BY SourcesAssumption

LEMMA BodyFields ==
    ASSUME NEW id, NEW kind, NEW ref, NEW pinned
    PROVE  /\ Body(id, kind, ref, pinned).id = id
           /\ Body(id, kind, ref, pinned).kind = kind
           /\ Body(id, kind, ref, pinned).ref = ref
BY DEF Body

\* A call that begins leaves the disk alone.
LEMMA BeginCounts ==
    ASSUME SourcesInv, NEW h \in Hosts, NEW op, Begin(h, op)
    PROVE  calls' \in Nat /\ calls' \in 1..MaxCalls
BY BodiesKnown DEF SourcesInv, DiskInv, SidesTyped, Begin

LEMMA LogUntouched ==
    ASSUME SourcesInv, UNCHANGED logVars
    PROVE  LogGrows({})
BY QuietLog, LogSizes DEF SourcesInv, logVars

LEMMA BeginAppendStep ==
    ASSUME SourcesInv, NEW h \in Hosts, BeginAppend(h)
    PROVE  SourcesInv'
<1>1. PICK e \in Inputs :
        Goto(h, [op |-> "append", at |-> IF e.kind = "turn" THEN "origin" ELSE "log",
                 body |-> Body(calls', e.kind,
                               IF e.kind = "turn" THEN Origin ELSE NoRef, e.pinned)])
  BY DEF BeginAppend
<1> DEFINE body == Body(calls', e.kind, IF e.kind = "turn" THEN Origin ELSE NoRef, e.pinned)
           c == [op |-> "append", at |-> IF e.kind = "turn" THEN "origin" ELSE "log",
                 body |-> body]
<1>2. calls' \in Nat /\ calls' \in 1..MaxCalls
  BY BeginCounts DEF BeginAppend
<1>3. body \in Bodies /\ body.ref = IF e.kind = "turn" THEN Origin ELSE NoRef
  BY <1>2, BodiesKnown, BodyFields
<1>4. Others(h) /\ call'[h] = c
  BY <1>1, GotoSets DEF SourcesInv
<1>5. UNCHANGED <<objects, scope, checkpoint, doubted, commits>> /\ LogGrows({})
  BY LogUntouched DEF BeginAppend, sideVars
<1> HIDE DEF body
<1>6. FineAppend(c, objects, doubted)
  BY <1>3 DEF FineAppend, Refs
<1>7. Fine(c, frames', durable', objects, doubted, commits)
  BY <1>6 DEF Fine
<1>8. c.op = "append"
  OBVIOUS
<1> HIDE DEF c
<1> QED
  BY <1>2, <1>4, <1>5, <1>7, <1>8, Bystander

LEMMA AppendOriginStep ==
    ASSUME SourcesInv, NEW h \in Hosts, AppendOrigin(h)
    PROVE  SourcesInv'
<1>0. /\ LogInv /\ FineAppend(call[h], objects, doubted) /\ CallsFine
      /\ call[h].at = "origin" /\ calls' = calls /\ calls \in Nat
      /\ scope \in ScopeLines /\ ScopeKnown
      /\ checkpoint = [now |-> checkpoint.now, safe |-> checkpoint.safe]
  BY FineKind DEF AppendOrigin, SourcesInv, CallsFine, DiskInv, SidesTyped
<1>r. Origin \in Refs
  BY DEF Refs
<1>1. CASE PutObject(Origin) /\ UNCHANGED logVars /\ Goto(h, [call[h] EXCEPT !.at = "log"])
  <2> DEFINE c == [op |-> "append", at |-> "log", body |-> call[h].body]
  <2>1. [call[h] EXCEPT !.at = "log"] = c
    BY <1>0 DEF FineAppend
  <2>2. Others(h) /\ call'[h] = c
    BY <1>0, <1>1, <2>1, GotoSets
  <2>3. /\ objects' \in [Refs -> {"none", "volatile", "durable"}]
        /\ HasObject(objects', doubted', Origin)
        /\ Stays(objects, doubted, objects', doubted') /\ DoubtsKnown'
        /\ UNCHANGED <<scope, checkpoint, doubted, commits>>
    BY <1>1, <1>r, PutObjectStores
  <2>4. LogGrows({}) /\ UNCHANGED frames
    BY <1>1, LogUntouched DEF logVars
  <2>5. FineAppend(c, objects', doubted')
    BY <1>0, <2>3 DEF FineAppend
  <2>6. Fine(c, frames', durable', objects', doubted', commits)
    BY <2>5 DEF Fine
  <2>7. SidesTyped' /\ ScopeKnown'
    BY <1>0, <2>3, <2>4 DEF SidesTyped, ScopeKnown
  <2>8. c.op # "commit"
    OBVIOUS
  <2> HIDE DEF c
  <2> QED
    BY <2>2, <2>3, <2>4, <2>6, <2>7, <2>8, HostStep
<1>2. CASE PutFails(Origin) /\ Goto(h, Idle)
  <2>2. Others(h) /\ call'[h] = Idle
    BY <1>0, <1>2, GotoSets
  <2>3. /\ objects' \in [Refs -> {"none", "volatile", "durable"}]
        /\ Stays(objects, doubted, objects', doubted') /\ DoubtsKnown'
        /\ doubted \subseteq doubted' /\ LogGrows({})
        /\ UNCHANGED <<scope, checkpoint, commits, frames>>
    BY <1>2, <1>r, PutFailsStores DEF PutFails
  <2>6. Fine(Idle, frames', durable', objects', doubted', commits)
    BY DEF Fine
  <2>7. SidesTyped' /\ ScopeKnown'
    BY <1>0, <2>3 DEF SidesTyped, ScopeKnown
  <2>8. Idle.op # "commit"
    BY DEF Idle
  <2> QED
    BY <2>2, <2>3, <2>6, <2>7, <2>8, HostStep
<1> QED
  BY <1>1, <1>2 DEF AppendOrigin

LEMMA AppendEventStep ==
    ASSUME SourcesInv, NEW h \in Hosts, AppendEvent(h)
    PROVE  SourcesInv'
<1> DEFINE body == call[h].body
<1>0. /\ FineAppend(call[h], objects, doubted) /\ call[h].at = "log"
      /\ calls' = calls /\ calls \in Nat
      /\ objects \in [Refs -> {"none", "volatile", "durable"}]
      /\ checkpoint = [now |-> checkpoint.now, safe |-> checkpoint.safe]
  BY FineKind DEF AppendEvent, SourcesInv, CallsFine, DiskInv, SidesTyped
<1>1. /\ body \in Bodies /\ body.ref \in Refs \cup {NoRef}
      /\ body.ref # NoRef => HasObject(objects, doubted, body.ref)
  BY <1>0 DEF FineAppend
<1>2. Others(h) /\ call'[h] = Idle
  BY GotoWritingSets DEF AppendEvent
<1> HIDE DEF body
<1>3. /\ UNCHANGED <<objects, checkpoint, commits>>
      /\ scope' \in ScopeLines
      /\ DoubtsKnown' /\ ScopeKnown' /\ doubted \subseteq doubted'
      /\ LogGrows({body})
  <2>1. CASE Store(body)
    BY <1>1, <2>1, StoreStores
  <2>2. CASE StoreFails(body)
    BY <1>1, <2>2, StoreFailsStores
  <2> QED
    BY <2>1, <2>2 DEF AppendEvent, body
<1>4. Stays(objects, doubted, objects', doubted')
  BY <1>3 DEF Stays, HasObject
<1>5. /\ body.ref \in Refs \cup {NoRef}
      /\ body.ref # NoRef => HasObject(objects', doubted', body.ref)
  BY <1>1, <1>4 DEF Stays
<1>6. SidesTyped'
  BY <1>0, <1>3 DEF SidesTyped
<1>7. Fine(Idle, frames', durable', objects', doubted', commits) /\ Idle.op # "commit"
  BY DEF Fine, Idle
<1> QED
  BY <1>2, <1>3, <1>4, <1>5, <1>6, <1>7, HostStep
-----------------------------------------------------------------------------
(* asper_checkpoint_commit. *)

LEMMA BeginCommitStep ==
    ASSUME SourcesInv, NEW h \in Hosts, BeginCommit(h)
    PROVE  SourcesInv'
<1>1. PICK text \in Texts :
        Goto(h, [op |-> "commit", at |-> "put", text |-> text, seq |-> 0,
                 id |-> calls', before |-> {c.seq : c \in commits}])
  BY DEF BeginCommit
<1> DEFINE c == [op |-> "commit", at |-> "put", text |-> text, seq |-> 0,
                 id |-> calls', before |-> Seqs(commits)]
<1>2. calls' \in Nat /\ calls' \in 1..MaxCalls
  BY BeginCounts DEF BeginCommit
<1>3. Body(calls', "checkpoint", text, FALSE) \in Bodies
  BY <1>2, BodiesKnown
<1>4. Others(h) /\ call'[h] = c
  BY <1>1, GotoSets DEF SourcesInv, Seqs
<1>5. UNCHANGED <<objects, scope, checkpoint, doubted, commits>> /\ LogGrows({})
  BY LogUntouched DEF BeginCommit, sideVars
<1>6. FineCommit(c, frames', durable', objects, doubted, commits)
  BY <1>3 DEF FineCommit
<1>7. Fine(c, frames', durable', objects, doubted, commits)
  BY <1>6 DEF Fine
<1>8. c.at # "file"
  OBVIOUS
<1> HIDE DEF c
<1> QED
  BY <1>2, <1>4, <1>5, <1>7, <1>8, Bystander

LEMMA CommitPutStep ==
    ASSUME SourcesInv, NEW h \in Hosts, CommitPut(h)
    PROVE  SourcesInv'
<1>0. /\ LogInv /\ FineCommit(call[h], frames, durable, objects, doubted, commits)
      /\ CallsFine
      /\ call[h].at = "put" /\ calls' = calls /\ calls \in Nat
      /\ scope \in ScopeLines /\ ScopeKnown
      /\ checkpoint = [now |-> checkpoint.now, safe |-> checkpoint.safe]
  BY FineKind DEF CommitPut, SourcesInv, CallsFine, DiskInv, SidesTyped
<1>r. call[h].text \in Refs
  BY <1>0 DEF Refs, FineCommit
<1>1. CASE PutObject(call[h].text) /\ UNCHANGED logVars
           /\ Goto(h, [call[h] EXCEPT !.at = "event"])
  <2> DEFINE c == [op |-> "commit", at |-> "event", text |-> call[h].text,
                   seq |-> call[h].seq, id |-> call[h].id, before |-> call[h].before]
  <2>1. [call[h] EXCEPT !.at = "event"] = c
    BY <1>0 DEF FineCommit
  <2>2. Others(h) /\ call'[h] = c
    BY <1>0, <1>1, <2>1, GotoSets
  <2>3. /\ objects' \in [Refs -> {"none", "volatile", "durable"}]
        /\ HasObject(objects', doubted', call[h].text)
        /\ Stays(objects, doubted, objects', doubted') /\ DoubtsKnown'
        /\ UNCHANGED <<scope, checkpoint, doubted, commits>>
    BY <1>1, <1>r, PutObjectStores
  <2>4. LogGrows({}) /\ UNCHANGED frames
    BY <1>1, LogUntouched DEF logVars
  <2>5. FineCommit(c, frames', durable', objects', doubted', commits)
    BY <1>0, <2>3 DEF FineCommit
  <2>6. Fine(c, frames', durable', objects', doubted', commits)
    BY <2>5 DEF Fine
  <2>7. SidesTyped' /\ ScopeKnown'
    BY <1>0, <2>3, <2>4 DEF SidesTyped, ScopeKnown
  <2>8. c.at # "file"
    OBVIOUS
  <2> HIDE DEF c
  <2> QED
    BY <2>2, <2>3, <2>4, <2>6, <2>7, <2>8, HostStep
<1>2. CASE PutFails(call[h].text) /\ Goto(h, Idle)
  <2>2. Others(h) /\ call'[h] = Idle
    BY <1>0, <1>2, GotoSets
  <2>3. /\ objects' \in [Refs -> {"none", "volatile", "durable"}]
        /\ Stays(objects, doubted, objects', doubted') /\ DoubtsKnown'
        /\ doubted \subseteq doubted' /\ LogGrows({})
        /\ UNCHANGED <<scope, checkpoint, commits, frames>>
    BY <1>2, <1>r, PutFailsStores DEF PutFails
  <2>6. Fine(Idle, frames', durable', objects', doubted', commits)
    BY DEF Fine
  <2>7. SidesTyped' /\ ScopeKnown'
    BY <1>0, <2>3 DEF SidesTyped, ScopeKnown
  <2>8. Idle.op # "commit"
    BY DEF Idle
  <2> QED
    BY <2>2, <2>3, <2>6, <2>7, <2>8, HostStep
<1> QED
  BY <1>1, <1>2 DEF CommitPut

LEMMA EventNamed ==
    ASSUME NEW c, NEW n,
           c = [op |-> "commit", at |-> c.at, text |-> c.text, seq |-> c.seq, id |-> c.id,
                before |-> c.before]
    PROVE  [c EXCEPT !.at = "file", !.seq = n]
           = [op |-> "commit", at |-> "file", text |-> c.text, seq |-> n, id |-> c.id,
              before |-> c.before]
<1> DEFINE d == [op |-> "commit", at |-> "file", text |-> c.text, seq |-> c.seq,
                 id |-> c.id, before |-> c.before]
<1>1. [c EXCEPT !.at = "file"] = d
  OBVIOUS
<1>2. [d EXCEPT !.seq = n] = [op |-> "commit", at |-> "file", text |-> c.text, seq |-> n,
                              id |-> c.id, before |-> c.before]
  OBVIOUS
<1>3. [c EXCEPT !.at = "file", !.seq = n] = [[c EXCEPT !.at = "file"] EXCEPT !.seq = n]
  OBVIOUS
<1> HIDE DEF d
<1> QED
  BY <1>1, <1>2, <1>3, Zenon

LEMMA CheckpointBody ==
    ASSUME NEW id, NEW text
    PROVE  /\ Body(id, "checkpoint", text, FALSE).ref = text
           /\ Body(id, "checkpoint", text, FALSE).kind = "checkpoint"
BY DEF Body

\* The event of a commit has a sequence that no commit had before.
LEMMA CommitEventStep ==
    ASSUME SourcesInv, NEW h \in Hosts, CommitEvent(h)
    PROVE  SourcesInv'
<1> DEFINE body == Body(call[h].id, "checkpoint", call[h].text, FALSE)
<1>0. /\ FineCommit(call[h], frames, durable, objects, doubted, commits)
      /\ call[h].at = "event" /\ calls' = calls /\ calls \in Nat /\ LogInv
      /\ objects \in [Refs -> {"none", "volatile", "durable"}]
      /\ checkpoint = [now |-> checkpoint.now, safe |-> checkpoint.safe]
      /\ CommitsFresh
  BY FineKind DEF CommitEvent, SourcesInv, CallsFine, DiskInv, SidesTyped
<1>1. /\ body \in Bodies /\ body.ref = call[h].text /\ body.kind = "checkpoint"
      /\ call[h].text \in Refs /\ HasObject(objects, doubted, call[h].text)
  <2>1. body.ref = call[h].text /\ body.kind = "checkpoint"
    BY CheckpointBody
  <2>2. body \in Bodies /\ call[h].text \in Texts
    BY <1>0 DEF FineCommit
  <2>3. HasObject(objects, doubted, call[h].text)
    BY <1>0 DEF FineCommit
  <2> HIDE DEF body
  <2> QED
    BY <2>1, <2>2, <2>3 DEF Refs
<1>n. Len(frames) \in Nat /\ durable \in Nat /\ durable <= Len(frames)
  BY <1>0, LogSizes
<1> HIDE DEF body
<1>2. CASE Store(body)
           /\ GotoWriting(h, [call[h] EXCEPT !.at = "file", !.seq = OpenCount + 1])
  <2> DEFINE c == [op |-> "commit", at |-> "file", text |-> call[h].text,
                   seq |-> Len(frames) + 1, id |-> call[h].id, before |-> call[h].before]
  <2>1. /\ UNCHANGED <<objects, checkpoint, doubted, commits>>
        /\ scope' \in ScopeLines
        /\ DoubtsKnown' /\ ScopeKnown' /\ LogGrows({body})
        /\ durable' = Len(frames) + 1 /\ OpenCount = Len(frames)
        /\ frames'[Len(frames) + 1].body = body
    BY <1>1, <1>2, StoreStores
  <2>2. [call[h] EXCEPT !.at = "file", !.seq = OpenCount + 1] = c
    <3>1. call[h] = [op |-> "commit", at |-> call[h].at, text |-> call[h].text,
                     seq |-> call[h].seq, id |-> call[h].id, before |-> call[h].before]
      BY <1>0 DEF FineCommit
    <3>2. OpenCount + 1 = Len(frames) + 1
      BY <2>1
    <3>3. [call[h] EXCEPT !.at = "file", !.seq = Len(frames) + 1] = c
      BY <3>1, EventNamed, Zenon
    <3> QED
      BY <3>2, <3>3, Zenon
  <2>3. Others(h) /\ call'[h] = c
    BY <1>2, <2>2, GotoWritingSets
  <2>4. Len(frames) + 1 \notin Seqs(commits) /\ Len(frames) + 1 \notin 1..durable
    BY <1>0, <1>n DEF CommitsFresh, Seqs
  <2>5. CheckpointAt(frames', durable', Len(frames) + 1, call[h].text)
    <3>1. Len(frames) + 1 \in 1..Len(frames) + 1
      BY <1>n
    <3> QED
      BY <1>1, <2>1, <3>1 DEF CheckpointAt
  <2>6. HasObject(objects', doubted', call[h].text)
    BY <1>1, <2>1
  <2>7. FineCommit(c, frames', durable', objects', doubted', commits)
    BY <1>0, <2>4, <2>5, <2>6 DEF FineCommit
  <2>8. Fine(c, frames', durable', objects', doubted', commits)
    BY <2>7 DEF Fine
  <2>9. Stays(objects, doubted, objects', doubted') /\ SidesTyped'
    BY <1>0, <2>1 DEF Stays, SidesTyped
  <2>10. c.seq \notin 1..durable
    BY <2>4
  <2> HIDE DEF c
  <2> QED
    BY <1>1, <2>1, <2>3, <2>6, <2>8, <2>9, <2>10, HostStep
<1>3. CASE StoreFails(body) /\ GotoWriting(h, Idle)
  <2>1. Others(h) /\ call'[h] = Idle
    BY <1>3, GotoWritingSets
  <2>2. /\ UNCHANGED <<objects, checkpoint, commits>>
        /\ scope' \in ScopeLines
        /\ DoubtsKnown' /\ ScopeKnown' /\ doubted \subseteq doubted'
        /\ LogGrows({body})
    BY <1>1, <1>3, StoreFailsStores
  <2>3. Stays(objects, doubted, objects', doubted')
    BY <2>2 DEF Stays, HasObject
  <2>4. HasObject(objects', doubted', body.ref) /\ body.ref \in Refs
    BY <1>1, <2>3 DEF Stays
  <2>5. SidesTyped'
    BY <1>0, <2>2 DEF SidesTyped
  <2>6. Fine(Idle, frames', durable', objects', doubted', commits) /\ Idle.op # "commit"
    BY DEF Fine, Idle
  <2> QED
    BY <2>1, <2>2, <2>3, <2>4, <2>5, <2>6, HostStep
<1> QED
  BY <1>2, <1>3 DEF CommitEvent, body

\* The file names an event of its own commit, and of no commit before.
LEMMA CommitFileStep ==
    ASSUME SourcesInv, NEW h \in Hosts, CommitFile(h)
    PROVE  SourcesInv'
<1> DEFINE file == [text |-> call[h].text, seq |-> call[h].seq]
           d == [seq |-> call[h].seq, before |-> call[h].before]
<1>0. /\ FineCommit(call[h], frames, durable, objects, doubted, commits)
      /\ call[h].op = "commit" /\ call[h].at = "file" /\ LogInv
      /\ Goto(h, Idle)
      /\ UNCHANGED <<frames, torn, index, durable, acked, objects, pins, scope, doubted,
                     workload, calls>>
      /\ checkpoint = [now |-> checkpoint.now, safe |-> checkpoint.safe]
      /\ CommitsFresh /\ FilesBacked /\ CallsFine /\ OwnEvent
      /\ SidesTyped /\ DoubtsKnown /\ FramesBacked /\ ScopeKnown
  BY FineKind DEF CommitFile, SourcesInv, CallsFine, DiskInv, SidesTyped
<1>1. /\ CheckpointAt(frames, durable, call[h].seq, call[h].text)
      /\ call[h].seq \notin Seqs(commits) /\ call[h].before \subseteq Seqs(commits)
      /\ call[h].seq \in 1..durable /\ durable \in Nat
  BY <1>0, LogSizes DEF FineCommit, CheckpointAt
<1>2. /\ file # NoFile /\ file.seq = call[h].seq /\ file.text = call[h].text
      /\ d.seq = call[h].seq /\ d.before = call[h].before
  <2>1. file.seq # 0 /\ NoFile.seq = 0
    BY <1>1 DEF NoFile
  <2> QED
    BY <2>1
<1> HIDE DEF file, d
<1>3. Others(h) /\ call'[h] = Idle
  BY <1>0, GotoSets
<1>4. logFaults' \in Nat
  BY <1>0, FaultCounts, LogSizes DEF CommitFile
<1>5. LogInv'
  BY <1>0, <1>4, QuietLog DEF LogGrows
<1>6. \/ /\ checkpoint' = [now |-> file, safe |-> file]
         /\ commits' = commits \cup {d}
      \/ /\ checkpoint' \in {checkpoint, [now |-> file, safe |-> checkpoint.safe]}
         /\ commits' = commits
  <2>1. [checkpoint EXCEPT !.now = file] = [now |-> file, safe |-> checkpoint.safe]
    BY <1>0
  <2> QED
    BY <2>1 DEF CommitFile, file, d
<1>7. \/ checkpoint'.now = file /\ checkpoint'.safe = file /\ commits' = commits \cup {d}
      \/ /\ checkpoint'.now \in {checkpoint.now, file}
         /\ checkpoint'.safe = checkpoint.safe /\ commits' = commits
  BY <1>6
<1>8. checkpoint' = [now |-> checkpoint'.now, safe |-> checkpoint'.safe]
  BY <1>0, <1>6
<1>9. SidesTyped' /\ DoubtsKnown' /\ FramesBacked' /\ ScopeKnown'
  BY <1>0, <1>8 DEF SidesTyped, DoubtsKnown, FramesBacked, ScopeKnown
<1>10. FilesBacked'
  <2>1. file # NoFile => CheckpointAt(frames', durable', file.seq, file.text)
    BY <1>0, <1>1, <1>2
  <2> QED
    BY <1>0, <1>7, <2>1 DEF FilesBacked, FileBacked
<1>11. Seqs(commits) \subseteq Seqs(commits')
  BY <1>7 DEF Seqs
<1>12. CommitsFresh'
  <2> SUFFICES ASSUME NEW x \in commits'
               PROVE  /\ x.seq \in 1..durable' /\ x.before \subseteq Seqs(commits')
                      /\ checkpoint'.now # NoFile /\ checkpoint'.now.seq \notin x.before
                      /\ checkpoint'.safe # NoFile /\ checkpoint'.safe.seq \notin x.before
    BY DEF CommitsFresh
  <2>1. x = d \/ x \in commits
    BY <1>7
  <2>2. /\ x.seq \in 1..durable /\ x.before \subseteq Seqs(commits)
        /\ x \in commits => /\ checkpoint.now # NoFile
                            /\ checkpoint.now.seq \notin x.before
                            /\ checkpoint.safe # NoFile
                            /\ checkpoint.safe.seq \notin x.before
    BY <1>0, <1>1, <1>2, <2>1 DEF CommitsFresh
  <2>3. file.seq \notin x.before
    BY <1>1, <1>2, <2>2
  <2>4. x \notin commits => checkpoint'.now = file /\ checkpoint'.safe = file
    BY <1>7
  <2>5. /\ checkpoint'.now # NoFile /\ checkpoint'.now.seq \notin x.before
        /\ checkpoint'.safe # NoFile /\ checkpoint'.safe.seq \notin x.before
    BY <1>2, <1>7, <2>2, <2>3, <2>4
  <2> QED
    BY <1>0, <1>11, <2>2, <2>5
<1>13. ASSUME NEW g \in Hosts \ {h}
       PROVE  Fine(call'[g], frames', durable', objects', doubted', commits')
  <2>1. call'[g] = call[g]
    BY <1>0 DEF Goto, CallsFine
  <2>2. Fine(call[g], frames, durable, objects, doubted, commits)
    BY <1>0 DEF CallsFine
  <2>3. CASE call[g].op # "commit"
    <3>1. \/ call[g] = Idle \/ FineAppend(call[g], objects, doubted)
          \/ FineWalk(call[g], frames) \/ FinePin(call[g]) \/ FineView(call[g], frames)
      BY <2>2, <2>3 DEF Fine, FineCommit
    <3> QED
      BY <1>0, <2>1, <3>1 DEF Fine
  <2>4. CASE call[g].op = "commit"
    <3>1. FineCommit(call[g], frames, durable, objects, doubted, commits)
      BY <2>2, <2>4, FineKind
    <3>2. call[g].at = "file" => call[g].seq # call[h].seq
      BY <1>0, <2>4 DEF OwnEvent
    <3>3. call[g].at = "file" => call[g].seq \notin Seqs(commits')
      BY <1>2, <1>7, <3>1, <3>2 DEF FineCommit, Seqs
    <3>4. call[g].before \subseteq Seqs(commits')
      BY <1>11, <3>1 DEF FineCommit
    <3>5. FineCommit(call[g], frames, durable, objects, doubted, commits')
      BY <3>1, <3>3, <3>4 DEF FineCommit
    <3> QED
      BY <1>0, <2>1, <3>5 DEF Fine
  <2> QED
    BY <2>3, <2>4
<1>14. Fine(call'[h], frames', durable', objects', doubted', commits')
  BY <1>3 DEF Fine
<1>15. CallsFine'
  BY <1>3, <1>13, <1>14 DEF CallsFine, Others
<1>16. OwnEvent'
  <2>1. \A g \in Hosts : call'[g] = call[g] \/ call'[g] = Idle
    BY <1>0, <1>3 DEF Goto, CallsFine
  <2>2. Idle.op # "commit"
    BY DEF Idle
  <2> QED
    BY <1>0, <2>1, <2>2 DEF OwnEvent
<1> QED
  BY <1>5, <1>9, <1>10, <1>12, <1>15, <1>16 DEF SourcesInv, DiskInv
-----------------------------------------------------------------------------
(* asper_event_search, asper_event_set_pinned. *)

LEMMA OpenKeepsFrames == Open => UNCHANGED frames
BY DEF Open, AfterOpen

\* A page opens the log, or rebuilds the index it opened; neither changes an event.
LEMMA PageGrows ==
    ASSUME LogInv, NEW cursor, ReadPage(cursor)
    PROVE  LogGrows({}) /\ UNCHANGED frames
<1>1. CASE Open
  BY <1>1, ReadGrows, OpenKeepsFrames
<1>2. CASE ReaderRebuilds(OpenCount)
  <2>1. OpenCount \in 0..Len(frames)
    BY OpenCountIsLength, LogSizes
  <2> QED
    BY <1>2, <2>1, RebuildGrows DEF ReaderRebuilds
<1> QED
  BY <1>1, <1>2 DEF ReadPage

LEMMA BeginWalkStep ==
    ASSUME SourcesInv, NEW h \in Hosts, BeginWalk(h)
    PROVE  SourcesInv'
<1> DEFINE c == [op |-> "walk", cursor |-> 0, seen |-> << >>]
<1>1. Others(h) /\ call'[h] = c
  BY GotoSets DEF SourcesInv, BeginWalk
<1>2. UNCHANGED <<objects, scope, checkpoint, doubted, commits>> /\ LogGrows({})
      /\ calls' \in Nat
  BY LogUntouched, BeginCounts DEF BeginWalk, sideVars
<1>3. << >> \in Seq({body.id : body \in Bodies}) /\ Len(<< >>) = 0
  OBVIOUS
<1>4. Len(frames') \in Nat
  BY <1>2 DEF LogGrows, LogInv, LogTypeOK
<1>5. FineWalk(c, frames')
  BY <1>3, <1>4 DEF FineWalk
<1>6. Fine(c, frames', durable', objects, doubted, commits)
  BY <1>5 DEF Fine
<1>7. c.op # "commit"
  OBVIOUS
<1> HIDE DEF c
<1> QED
  BY <1>1, <1>2, <1>6, <1>7, Bystander

\* A page has the events after the cursor, as many as there are up to the limit.
LEMMA PageIsNext ==
    ASSUME LogInv, NEW cursor \in 0..Len(frames)
    PROVE  /\ Len(PageFrom(cursor)) \in 0..(Len(frames) - cursor)
           /\ DOMAIN PageFrom(cursor) = 1..Len(PageFrom(cursor))
           /\ \A i \in 1..Len(PageFrom(cursor)) :
                 PageFrom(cursor)[i].id = frames[cursor + i].body.id
<1> DEFINE last == IF cursor + PageLimit < Len(frames) THEN cursor + PageLimit
                   ELSE Len(frames)
           n == IF last < cursor THEN 0 ELSE last - cursor
<1>1. Len(frames) \in Nat /\ PageLimit \in Nat /\ OpenCount = Len(frames)
  BY LogSizes, OpenCountIsLength, SourcesAssumption
<1>2. n \in 0..(Len(frames) - cursor) /\ n \in Nat
  BY <1>1
<1>3. PageFrom(cursor) = [i \in 1..n |-> Shown(frames, pins.rows, cursor + i)]
  BY <1>1 DEF PageFrom
<1> HIDE DEF n
<1>4. Len(PageFrom(cursor)) = n /\ DOMAIN PageFrom(cursor) = 1..n
  BY <1>2, <1>3
<1>5. \A i \in 1..n : PageFrom(cursor)[i].id = frames[cursor + i].body.id
  BY <1>3 DEF Shown
<1> QED
  BY <1>2, <1>4, <1>5

\* A walk that took m more events, s.
WithPage(c, m, s) == [c EXCEPT !.cursor = @ + m, !.seen = @ \o s]

LEMMA PageTaken ==
    ASSUME NEW c, NEW m, NEW s, c = [op |-> "walk", cursor |-> c.cursor, seen |-> c.seen]
    PROVE  WithPage(c, m, s)
           = [op |-> "walk", cursor |-> c.cursor + m, seen |-> c.seen \o s]
<1> DEFINE d == [op |-> "walk", cursor |-> c.cursor + m, seen |-> c.seen]
<1>1. [c EXCEPT !.cursor = @ + m] = d
  OBVIOUS
<1>2. [d EXCEPT !.seen = @ \o s]
      = [op |-> "walk", cursor |-> c.cursor + m, seen |-> c.seen \o s]
  <2>1. \A v : [d EXCEPT !.seen = v] = [op |-> "walk", cursor |-> c.cursor + m, seen |-> v]
    OBVIOUS
  <2>2. d.seen = c.seen
    OBVIOUS
  <2> HIDE DEF d
  <2>3. [d EXCEPT !.seen = @ \o s] = [d EXCEPT !.seen = d.seen \o s]
    OBVIOUS
  <2> QED
    BY <2>1, <2>2, <2>3
<1>3. [c EXCEPT !.cursor = @ + m, !.seen = @ \o s]
      = [[c EXCEPT !.cursor = @ + m] EXCEPT !.seen = @ \o s]
  OBVIOUS
<1> HIDE DEF d
<1> QED
  BY <1>1, <1>2, <1>3, Zenon DEF WithPage

LEMMA WalkPageStep ==
    ASSUME SourcesInv, NEW h \in Hosts, WalkPage(h)
    PROVE  SourcesInv'
<1> DEFINE cursor == call[h].cursor
           seen == call[h].seen
           page == PageFrom(cursor)
           ids == [i \in DOMAIN page |-> page[i].id]
           Ids == {body.id : body \in Bodies}
<1>0. /\ LogInv /\ FineWalk(call[h], frames) /\ CallsFine
      /\ UNCHANGED <<objects, scope, checkpoint, doubted, commits>>
      /\ calls' = calls /\ calls \in Nat
  BY FineKind DEF WalkPage, SourcesInv, CallsFine, DiskInv, SidesTyped, sideVars
<1>1. /\ cursor \in 0..Len(frames) /\ seen \in Seq(Ids) /\ cursor = Len(seen)
      /\ \A i \in 1..cursor : seen[i] = frames[i].body.id
      /\ Len(frames) \in Nat
  BY <1>0, LogSizes DEF FineWalk
<1>2. /\ Len(page) \in 0..(Len(frames) - cursor) /\ DOMAIN page = 1..Len(page)
      /\ \A i \in 1..Len(page) : page[i].id = frames[cursor + i].body.id
  BY <1>0, <1>1, PageIsNext
<1>d. Fine(Idle, frames', durable', objects, doubted, commits) /\ Idle.op # "commit"
  BY DEF Fine, Idle
<1>3. CASE PageReadable(cursor)
  <2> DEFINE c == [op |-> "walk", cursor |-> cursor + Len(page), seen |-> seen \o ids]
  <2>1. UNCHANGED frames /\ LogGrows({})
    BY <1>0, <1>3, PageGrows DEF WalkPage
  <2>2. CASE pins.torn \/ page = << >>
    <3>1. Others(h) /\ call'[h] = Idle
      BY <1>3, <2>2, GotoWritingSets DEF WalkPage
    <3> QED
      BY <1>0, <1>d, <2>1, <3>1, Bystander
  <2>3. CASE ~(pins.torn \/ page = << >>)
    <3>1. [call[h] EXCEPT !.cursor = @ + Len(page), !.seen = @ \o ids] = c
      <4>1. call[h] = [op |-> "walk", cursor |-> call[h].cursor, seen |-> call[h].seen]
        BY <1>0 DEF FineWalk
      <4>2. c = [op |-> "walk", cursor |-> call[h].cursor + Len(page),
                 seen |-> call[h].seen \o ids]
        OBVIOUS
      <4>3. [call[h] EXCEPT !.cursor = @ + Len(page), !.seen = @ \o ids]
            = WithPage(call[h], Len(page), ids)
        BY Zenon DEF WithPage
      <4> HIDE DEF page, ids, c
      <4> QED
        BY <4>1, <4>2, <4>3, PageTaken
    <3>2. GotoWriting(h, c)
      BY <1>3, <2>3, <3>1 DEF WalkPage
    <3>3. Others(h) /\ call'[h] = c
      BY <3>2, GotoWritingSets
    <3>4. /\ ids \in Seq(Ids) /\ Len(ids) = Len(page)
          /\ \A i \in 1..Len(page) : ids[i] = frames[cursor + i].body.id
      <4>1. \A i \in 1..Len(page) : cursor + i \in 1..Len(frames)
        BY <1>1, <1>2
      <4>2. \A i \in 1..Len(page) : page[i].id \in Ids
        BY <1>0, <1>2, <4>1, LogSizes
      <4>3. ids = [i \in 1..Len(page) |-> page[i].id]
        BY <1>2
      <4> HIDE DEF page, Ids, ids
      <4>4. ids \in [1..Len(page) -> Ids] /\ Len(page) \in Nat
        BY <1>1, <1>2, <4>2, <4>3
      <4>5. ids \in Seq(Ids) /\ Len(ids) = Len(page)
        BY <4>4
      <4> QED
        BY <1>2, <4>3, <4>5
    <3> HIDE DEF page, Ids, ids, seen, cursor
    <3>5. /\ seen \o ids \in Seq(Ids) /\ Len(seen \o ids) = cursor + Len(page)
          /\ \A i \in 1..cursor : (seen \o ids)[i] = seen[i]
          /\ \A i \in 1..cursor + Len(page) : i \notin 1..cursor
                => (seen \o ids)[i] = ids[i - cursor]
      <4>1. /\ seen \o ids \in Seq(Ids) /\ Len(seen \o ids) = Len(seen) + Len(ids)
            /\ \A i \in 1..Len(seen) + Len(ids) :
                  (seen \o ids)[i] = IF i <= Len(seen) THEN seen[i] ELSE ids[i - Len(seen)]
        <5>1. seen \in Seq(Ids) /\ ids \in Seq(Ids)
          BY <1>1, <3>4
        <5> QED
          BY <5>1, ConcatProperties
      <4> QED
        BY <1>1, <1>2, <3>4, <4>1
    <3>6. \A i \in 1..cursor + Len(page) : (seen \o ids)[i] = frames[i].body.id
      <4> SUFFICES ASSUME NEW i \in 1..cursor + Len(page)
                   PROVE  (seen \o ids)[i] = frames[i].body.id
        OBVIOUS
      <4>1. CASE i \in 1..cursor
        BY <1>1, <3>5, <4>1
      <4>2. CASE i \notin 1..cursor
        <5>1. i - cursor \in 1..Len(page) /\ cursor + (i - cursor) = i
          BY <1>1, <1>2, <4>2
        <5>2. ids[i - cursor] = frames[cursor + (i - cursor)].body.id
          BY <3>4, <5>1
        <5> QED
          BY <3>5, <4>2, <5>1, <5>2
      <4> QED
        BY <4>1, <4>2
    <3>7. FineWalk(c, frames)
      BY <1>1, <1>2, <3>5, <3>6 DEF FineWalk, Ids
    <3>8. Fine(c, frames', durable', objects, doubted, commits)
      BY <2>1, <3>7 DEF Fine
    <3>9. c.op # "commit"
      OBVIOUS
    <3> HIDE DEF c
    <3> QED
      BY <1>0, <2>1, <3>3, <3>8, <3>9, Bystander
  <2> QED
    BY <2>2, <2>3
<1>4. CASE ~PageReadable(cursor)
  <2>1. Goto(h, Idle) /\ UNCHANGED logVars
    BY <1>4 DEF WalkPage
  <2>2. LogGrows({})
    BY <2>1, LogUntouched
  <2>3. Others(h) /\ call'[h] = Idle
    BY <1>0, <2>1, GotoSets
  <2> QED
    BY <1>0, <1>d, <2>2, <2>3, Bystander
<1> QED
  BY <1>3, <1>4

LEMMA FineIsPin ==
    ASSUME NEW log, NEW synced, NEW stored, NEW doubts, NEW done,
           NEW at \in {"search", "row"}, NEW id, NEW value, NEW cursor
    PROVE  Fine([op |-> "pin", at |-> at, id |-> id, value |-> value, cursor |-> cursor],
                log, synced, stored, doubts, done)
BY DEF Fine, FinePin

LEMMA BeginPinStep ==
    ASSUME SourcesInv, NEW h \in Hosts, BeginPin(h)
    PROVE  SourcesInv'
<1>1. PICK id \in 1..calls, value \in BOOLEAN :
        Goto(h, [op |-> "pin", at |-> "search", id |-> id, value |-> value, cursor |-> 0])
  BY DEF BeginPin
<1> DEFINE c == [op |-> "pin", at |-> "search", id |-> id, value |-> value, cursor |-> 0]
<1>2. Others(h) /\ call'[h] = c
  BY <1>1, GotoSets DEF SourcesInv
<1>3. UNCHANGED <<objects, scope, checkpoint, doubted, commits>> /\ LogGrows({})
      /\ calls' \in Nat
  BY LogUntouched, BeginCounts DEF BeginPin, sideVars
<1>4. Fine(c, frames', durable', objects, doubted, commits)
  BY FineIsPin
<1>5. c.op # "commit"
  OBVIOUS
<1> HIDE DEF c
<1> QED
  BY <1>2, <1>3, <1>4, <1>5, Bystander

LEMMA PinMoves ==
    ASSUME NEW c, FinePin(c), NEW m, NEW log, NEW synced, NEW stored, NEW doubts, NEW done
    PROVE  /\ Fine([c EXCEPT !.at = "row"], log, synced, stored, doubts, done)
           /\ [c EXCEPT !.at = "row"].op = "pin"
           /\ Fine([c EXCEPT !.cursor = @ + m], log, synced, stored, doubts, done)
           /\ [c EXCEPT !.cursor = @ + m].op = "pin"
<1> DEFINE d == [op |-> "pin", at |-> "row", id |-> c.id, value |-> c.value,
                 cursor |-> c.cursor]
           e == [op |-> "pin", at |-> c.at, id |-> c.id, value |-> c.value,
                 cursor |-> c.cursor + m]
<1>1. c = [op |-> "pin", at |-> c.at, id |-> c.id, value |-> c.value, cursor |-> c.cursor]
      /\ c.at \in {"search", "row"}
  BY DEF FinePin
<1>2. [c EXCEPT !.at = "row"] = d /\ [c EXCEPT !.cursor = @ + m] = e
  BY <1>1
<1>3. /\ Fine(d, log, synced, stored, doubts, done) /\ d.op = "pin"
      /\ Fine(e, log, synced, stored, doubts, done) /\ e.op = "pin"
  BY <1>1, FineIsPin
<1> HIDE DEF d, e
<1> QED
  BY <1>2, <1>3, Zenon

LEMMA PinSearchStep ==
    ASSUME SourcesInv, NEW h \in Hosts, PinSearch(h)
    PROVE  SourcesInv'
<1> DEFINE page == PageFrom(call[h].cursor)
           row == [call[h] EXCEPT !.at = "row"]
           next == [call[h] EXCEPT !.cursor = @ + PageLimit]
<1>0. /\ LogInv /\ FinePin(call[h]) /\ CallsFine
      /\ UNCHANGED <<objects, scope, checkpoint, doubted, commits>>
      /\ calls' = calls /\ calls \in Nat
  BY FineKind DEF PinSearch, SourcesInv, CallsFine, DiskInv, SidesTyped, sideVars
<1>1. /\ Fine(row, frames', durable', objects, doubted, commits) /\ row.op = "pin"
      /\ Fine(next, frames', durable', objects, doubted, commits) /\ next.op = "pin"
      /\ Fine(Idle, frames', durable', objects, doubted, commits) /\ Idle.op # "commit"
  BY <1>0, PinMoves DEF Fine, Idle
<1>2. LogGrows({}) /\ Others(h) /\ call'[h] \in {row, next, Idle}
  <2>1. CASE PageReadable(call[h].cursor)
    <3>1. LogGrows({})
      BY <1>0, <2>1, PageGrows DEF PinSearch
    <3>2. PICK c \in {row, next, Idle} : GotoWriting(h, c)
      BY <2>1 DEF PinSearch
    <3> HIDE DEF row, next
    <3> QED
      BY <3>1, <3>2, GotoWritingSets
  <2>2. CASE ~PageReadable(call[h].cursor)
    <3>1. Goto(h, Idle) /\ UNCHANGED logVars
      BY <2>2 DEF PinSearch
    <3> HIDE DEF row, next
    <3> QED
      BY <1>0, <3>1, GotoSets, LogUntouched
  <2> QED
    BY <2>1, <2>2
<1> HIDE DEF row, next
<1>3. /\ Fine(call'[h], frames', durable', objects, doubted, commits)
      /\ call'[h].op # "commit"
  <2>1. "pin" # "commit"
    OBVIOUS
  <2> QED
    BY <1>1, <1>2, <2>1
<1> QED
  BY <1>0, <1>2, <1>3, Bystander

LEMMA PinRowStep ==
    ASSUME SourcesInv, NEW h \in Hosts, PinRow(h)
    PROVE  SourcesInv'
<1>1. /\ Goto(h, Idle) /\ CallsFine /\ LogInv
      /\ UNCHANGED <<frames, torn, index, durable, acked, objects, scope, checkpoint,
                     doubted, commits, calls>>
      /\ calls \in Nat
  BY DEF PinRow, SourcesInv, DiskInv, SidesTyped
<1>2. logFaults' \in Nat
  BY <1>1, FaultCounts, LogSizes DEF PinRow
<1>3. LogGrows({})
  BY <1>1, <1>2, QuietLog
<1>4. Others(h) /\ call'[h] = Idle
  BY <1>1, GotoSets
<1>5. Fine(Idle, frames', durable', objects, doubted, commits) /\ Idle.op # "commit"
  BY DEF Fine, Idle
<1> QED
  BY <1>1, <1>3, <1>4, <1>5, Bystander
-----------------------------------------------------------------------------
(* asper_source_view_open, _read, _close. *)

LEMMA BeginViewStep ==
    ASSUME SourcesInv, NEW h \in Hosts, BeginView(h)
    PROVE  SourcesInv'
<1>0. /\ LogInv /\ CallsFine /\ calls' \in Nat
      /\ UNCHANGED <<objects, scope, checkpoint, doubted, commits>>
      /\ OpenCount = Len(frames) /\ Len(frames) \in Nat
  BY BeginCounts, OpenCountIsLength, LogSizes DEF BeginView, SourcesInv, sideVars
<1>1. CASE /\ Openable /\ ~pins.torn /\ Open
           /\ LET was == [i \in 1..OpenCount |-> Shown(frames, pins.rows, i)] IN
              GotoWriting(h, [op |-> "view", count |-> OpenCount, size |-> SizeOf(OpenCount),
                              touched |-> FALSE, rows |-> index'.rows,
                              pins |-> pins.rows, was |-> was, got |-> {}])
  <2> DEFINE n == Len(frames)
             was == [i \in 1..n |-> Shown(frames, pins.rows, i)]
             c == [op |-> "view", count |-> n, size |-> SizeOf(n),
                   touched |-> FALSE, rows |-> index'.rows,
                   pins |-> pins.rows, was |-> was, got |-> {}]
  <2>1. Others(h) /\ call'[h] = c
    BY <1>0, <1>1, GotoWritingSets
  <2>2. LogGrows({}) /\ UNCHANGED frames
    BY <1>0, <1>1, ReadGrows, OpenKeepsFrames
  <2>3. FineView(c, frames)
    <3>1. \A i \in 1..n : was[i] = Shown(frames, pins.rows, i)
      OBVIOUS
    <3>2. n \in 0..Len(frames)
      BY <1>0
    <3> HIDE DEF was
    <3> QED
      BY <3>1, <3>2 DEF FineView
  <2>4. Fine(c, frames', durable', objects, doubted, commits)
    BY <2>2, <2>3 DEF Fine
  <2>5. c.op # "commit"
    OBVIOUS
  <2> HIDE DEF c
  <2> QED
    BY <1>0, <2>1, <2>2, <2>4, <2>5, Bystander
<1>2. CASE (~Openable \/ pins.torn) /\ UNCHANGED <<logVars, call>>
  <2>1. LogGrows({}) /\ call' = call
    BY <1>2, LogUntouched
  <2>2. Others(h) /\ call'[h] = Idle
    BY <1>0, <2>1 DEF Others, CallsFine, BeginView, Begin
  <2>3. Fine(Idle, frames', durable', objects, doubted, commits) /\ Idle.op # "commit"
    BY DEF Fine, Idle
  <2> QED
    BY <1>0, <2>1, <2>2, <2>3, Bystander
<1> QED
  BY <1>1, <1>2 DEF BeginView

\* A read hands out an event of the view as it was, and notes where the file is.
LEMMA ReadIsFine ==
    ASSUME NEW c, NEW log, FineView(c, log), NEW seq \in 1..c.count,
           NEW size, NEW rows, NEW d,
           d = [op |-> "view", count |-> c.count, size |-> size, touched |-> FALSE,
                rows |-> rows, pins |-> c.pins, was |-> c.was,
                got |-> c.got \cup {[seq |-> seq, shown |-> Shown(log, c.pins, seq)]}]
    PROVE  FineView(d, log)
<1> DEFINE e == [seq |-> seq, shown |-> Shown(log, c.pins, seq)]
           got == c.got \cup {e}
<1>1. /\ d.op = "view" /\ d.count = c.count /\ d.pins = c.pins /\ d.was = c.was
      /\ d.got = got
      /\ d = [op |-> "view", count |-> d.count, size |-> d.size, touched |-> d.touched,
              rows |-> d.rows, pins |-> d.pins, was |-> d.was, got |-> d.got]
  OBVIOUS
<1>2. e.seq = seq /\ e.shown = c.was[seq]
  BY DEF FineView
<1> HIDE DEF e
<1>3. \A x \in got : x.seq \in 1..c.count /\ x.shown = c.was[x.seq]
  BY <1>2 DEF FineView
<1> HIDE DEF got
<1>4. c.count \in 0..Len(log) /\ \A i \in 1..c.count : c.was[i] = Shown(log, c.pins, i)
  BY DEF FineView
<1> QED
  BY <1>1, <1>3, <1>4 DEF FineView

\* What a read makes of a view, field by field.
ReadOf(c, event, size, rows) ==
    [c EXCEPT !.got = @ \cup {event}, !.size = size, !.touched = FALSE, !.rows = rows]

LEMMA ReadFields ==
    ASSUME NEW c, NEW log, FineView(c, log), NEW event, NEW size, NEW rows
    PROVE  ReadOf(c, event, size, rows)
           = [op |-> "view", count |-> c.count, size |-> size, touched |-> FALSE,
              rows |-> rows, pins |-> c.pins, was |-> c.was, got |-> c.got \cup {event}]
<1> DEFINE more == c.got \cup {event}
           no == FALSE
           R(s, t, r, g) == [op |-> "view", count |-> c.count, size |-> s, touched |-> t,
                             rows |-> r, pins |-> c.pins, was |-> c.was, got |-> g]
           Sized(x) == [x EXCEPT !.size = size]
           Untouched(x) == [x EXCEPT !.touched = no]
           Rowed(x) == [x EXCEPT !.rows = rows]
<1>1. c = R(c.size, c.touched, c.rows, c.got)
  BY DEF FineView
<1>2. [c EXCEPT !.got = more] = R(c.size, c.touched, c.rows, more)
  <2> HIDE DEF more
  <2> QED
    BY <1>1
<1>3. Sized(R(c.size, c.touched, c.rows, more)) = R(size, c.touched, c.rows, more)
  <2> HIDE DEF more
  <2> QED
    OBVIOUS
<1>4. Untouched(R(size, c.touched, c.rows, more)) = R(size, no, c.rows, more)
  <2> HIDE DEF more, no
  <2> QED
    OBVIOUS
<1>5. Rowed(R(size, no, c.rows, more)) = R(size, no, rows, more)
  <2> HIDE DEF more, no
  <2> QED
    OBVIOUS
<1>6. ReadOf(c, event, size, rows) = Rowed(Untouched(Sized([c EXCEPT !.got = more])))
  BY Zenon DEF ReadOf
<1>7. ReadOf(c, event, size, rows) = R(size, no, rows, more)
  <2> HIDE DEF R, more, no, Sized, Untouched, Rowed
  <2> QED
    BY <1>2, <1>3, <1>4, <1>5, <1>6
<1> QED
  BY <1>7, Zenon

LEMMA ViewReadStep ==
    ASSUME SourcesInv, NEW h \in Hosts, ViewRead(h)
    PROVE  SourcesInv'
<1> DEFINE c == call[h]
<1>0. /\ LogInv /\ FineView(c, frames) /\ CallsFine
      /\ UNCHANGED <<objects, scope, checkpoint, doubted, commits>>
      /\ calls' = calls /\ calls \in Nat
  BY FineKind DEF ViewRead, SourcesInv, CallsFine, DiskInv, SidesTyped, sideVars
<1>1. PICK seq \in 1..c.count :
        LET found == RowReadable(c.rows, seq, SizeOf(c.count))
            event == [seq |-> seq, shown |-> Shown(frames, c.pins, seq)]
            read  == [c EXCEPT !.got = @ \cup {event}, !.size = Bytes,
                               !.touched = FALSE,
                               !.rows = IF found THEN @ ELSE RowsFor(c.count)]
        IN  \/ Goto(h, read) /\ UNCHANGED logVars
            \/ ReaderRebuilds(c.count) /\ Goto(h, read)
            \/ Goto(h, Idle) /\ UNCHANGED logVars
  BY Zenon DEF ViewRead
<1> DEFINE event == [seq |-> seq, shown |-> Shown(frames, c.pins, seq)]
           rows == IF RowReadable(c.rows, seq, SizeOf(c.count)) THEN c.rows
                   ELSE RowsFor(c.count)
           read == ReadOf(c, event, Bytes, rows)
<1>2. \/ Goto(h, read) /\ UNCHANGED logVars
      \/ ReaderRebuilds(c.count) /\ Goto(h, read)
      \/ Goto(h, Idle) /\ UNCHANGED logVars
  BY <1>1, Zenon DEF ReadOf
<1>3. read = [op |-> "view", count |-> c.count, size |-> Bytes, touched |-> FALSE,
              rows |-> rows, pins |-> c.pins, was |-> c.was, got |-> c.got \cup {event}]
  <2> HIDE DEF event, rows, c
  <2> QED
    BY <1>0, ReadFields
<1>4. FineView(read, frames)
  <2> HIDE DEF read, rows, c
  <2> QED
    BY <1>0, <1>3, ReadIsFine
<1>5. LogGrows({}) /\ UNCHANGED frames
  <2>1. CASE UNCHANGED logVars
    BY <2>1, LogUntouched DEF logVars
  <2>2. CASE ReaderRebuilds(c.count)
    BY <1>0, <2>2, RebuildGrows DEF FineView, ReaderRebuilds
  <2> HIDE DEF read
  <2> QED
    BY <1>2, <2>1, <2>2
<1>6. Others(h) /\ call'[h] \in {read, Idle}
  <2> HIDE DEF read
  <2> QED
    BY <1>0, <1>2, GotoSets
<1>7. read.op # "commit"
  BY <1>4 DEF FineView
<1> HIDE DEF read
<1>8. Fine(read, frames', durable', objects, doubted, commits)
  BY <1>4, <1>5 DEF Fine
<1>9. Fine(Idle, frames', durable', objects, doubted, commits) /\ Idle.op # "commit"
  BY DEF Fine, Idle
<1> QED
  BY <1>0, <1>5, <1>6, <1>7, <1>8, <1>9, Bystander

LEMMA ViewCloseStep ==
    ASSUME SourcesInv, NEW h \in Hosts, ViewClose(h)
    PROVE  SourcesInv'
<1>1. /\ LogGrows({}) /\ Others(h) /\ call'[h] = Idle
      /\ UNCHANGED <<objects, scope, checkpoint, doubted, commits>>
      /\ calls' = calls /\ calls \in Nat
  BY GotoSets, LogUntouched DEF ViewClose, SourcesInv, DiskInv, SidesTyped, sideVars
<1>2. Fine(Idle, frames', durable', objects, doubted, commits) /\ Idle.op # "commit"
  BY DEF Fine, Idle
<1> QED
  BY <1>1, <1>2, Bystander
-----------------------------------------------------------------------------
(* The process ends, the machine loses power, a frame is damaged. *)

LEMMA IdleCalls ==
    ASSUME call' = [h \in Hosts |-> Idle] PROVE CallsFine' /\ OwnEvent'
<1>1. \A h \in Hosts : call'[h] = Idle
  OBVIOUS
<1>2. Idle.op # "commit"
  BY DEF Idle
<1>3. CallsFine'
  BY <1>1 DEF CallsFine, Fine
<1>4. OwnEvent'
  BY <1>1, <1>2 DEF OwnEvent
<1> QED
  BY <1>3, <1>4

LEMMA SidesStay ==
    ASSUME SourcesInv, LogGrows({}), UNCHANGED sideVars, calls' \in Nat
    PROVE  DiskInv'
<1>1. /\ UNCHANGED <<objects, scope, checkpoint, doubted, commits>>
      /\ SidesTyped /\ DoubtsKnown /\ ScopeKnown /\ LogInv
  BY DEF sideVars, SourcesInv, DiskInv
<1>2. Stays(objects, doubted, objects', doubted')
  BY <1>1 DEF Stays
<1>3. SidesTyped' /\ DoubtsKnown'
  BY <1>1 DEF SidesTyped, DoubtsKnown
<1>4. ScopeKnown'
  BY <1>1, SameFrames DEF ScopeKnown
<1> QED
  BY <1>1, <1>2, <1>3, <1>4, DiskStays

LEMMA CrashStep ==
    ASSUME SourcesInv, Crash PROVE SourcesInv'
<1>1. LogInv /\ logFaults' \in Nat /\ calls \in Nat
  BY FaultCounts DEF Crash, SourcesInv, DiskInv, SidesTyped
<1>2. LogGrows({})
  BY <1>1, QuietLog DEF Crash
<1>3. DiskInv' /\ CallsFine' /\ OwnEvent'
  BY <1>1, <1>2, SidesStay, IdleCalls DEF Crash
<1> QED
  BY <1>2, <1>3 DEF SourcesInv, LogGrows

LEMMA FrameDamagedStep ==
    ASSUME SourcesInv, FrameDamaged PROVE SourcesInv'
<1>1. /\ LogInv /\ LogGrows({}) /\ calls' \in Nat /\ UNCHANGED <<call, sideVars>>
      /\ CallsFine /\ OwnEvent
  BY DamageGrows DEF FrameDamaged, SourcesInv, DiskInv, SidesTyped
<1>2. DiskInv'
  BY <1>1, SidesStay
<1>3. Extends(frames, durable, frames', durable') /\ Stays(objects, doubted, objects, doubted)
  BY <1>1, LogExtends DEF Stays
<1>4. \A c : Fine(c, frames, durable, objects, doubted, commits)
             => Fine(c, frames', durable', objects, doubted, commits)
  BY <1>3, FineStays
<1>5. UNCHANGED <<objects, doubted, commits>>
  BY <1>1 DEF sideVars
<1>6. CallsFine'
  BY <1>1, <1>4, <1>5 DEF CallsFine
<1>7. OwnEvent'
  BY <1>1 DEF OwnEvent
<1> QED
  BY <1>1, <1>2, <1>6, <1>7 DEF SourcesInv, LogGrows

\* The events that go were not synced: no file names one, no commit has one.
LEMMA PowerLossStep ==
    ASSUME SourcesInv, PowerLoss PROVE SourcesInv'
<1>0. /\ LogInv /\ SidesTyped /\ DoubtsKnown /\ FramesBacked /\ ScopeKnown
      /\ FilesBacked /\ CommitsFresh /\ PowerFailure
      /\ UNCHANGED <<commits, calls>>
      /\ call' = [h \in Hosts |-> Idle]
      /\ doubted \subseteq doubted'
      /\ (scope = "synced" /\ scope' = "none" => "index" \in doubted')
  BY DEF SourcesInv, DiskInv, PowerLoss
<1>1. LogInv'
  BY <1>0, PowerFailureKeeps
<1>2. PICK n \in durable..Len(frames) : frames' = SubSeq(frames, 1, n) /\ durable' = n
  BY <1>0 DEF PowerFailure
<1>3. /\ Len(frames) \in Nat /\ durable \in Nat /\ durable <= Len(frames)
      /\ n \in Nat /\ n <= Len(frames) /\ durable <= n
      /\ frames \in Seq(Frames)
  BY <1>0, <1>2, LogSizes
<1>4. Len(frames') = n /\ \A i \in 1..n : frames'[i] = frames[i]
  <2>1. \A i \in 1..n : frames[i] \in Frames
    BY <1>0, <1>3, LogSizes
  <2>2. frames' = [i \in 1..n |-> frames[i]]
    BY <1>2, <1>3
  <2> QED
    BY <1>3, <2>1, <2>2
<1>5. \A ref \in Refs : /\ objects'[ref] \in {"none", "durable"}
                        /\ objects'[ref] \in Settled(objects[ref])
  BY DEF PowerLoss
<1>6. \A ref \in Refs : HasObject(objects, doubted, ref) => HasObject(objects', doubted', ref)
  <2> SUFFICES ASSUME NEW ref \in Refs, HasObject(objects, doubted, ref), ref \notin doubted
               PROVE  objects'[ref] # "none"
    BY <1>0 DEF HasObject
  <2>1. objects[ref] = "durable"
    BY <1>0 DEF HasObject, DoubtsKnown, SidesTyped
  <2>2. objects'[ref] = "durable"
    BY <1>5, <2>1 DEF Settled
  <2> QED
    BY <2>2
<1>7. /\ scope' \in ScopesLeft(scope)
      /\ objects' \in [Refs -> {"none", "durable"}]
  BY DEF PowerLoss
<1>8. PICK file \in {checkpoint.now, checkpoint.safe} :
        checkpoint' = [now |-> file, safe |-> file]
  BY DEF PowerLoss
<1>9. checkpoint'.now = file /\ checkpoint'.safe = file
      /\ checkpoint' = [now |-> checkpoint'.now, safe |-> checkpoint'.safe]
  BY <1>8
<1>10. scope' \in ScopeLines /\ scope' # "volatile"
       /\ (scope \notin {"none", "torn"} =>
             scope' \notin {"none", "torn"} \/ "scope" \in doubted' \/ "index" \in doubted')
  <2>1. scope \in ScopeLines /\ (scope = "volatile" => "scope" \in doubted')
    BY <1>0 DEF SidesTyped, DoubtsKnown
  <2>2. scope = "durable" => scope' = "durable"
    BY <1>7 DEF ScopesLeft
  <2>3. scope = "synced" => scope' \in {"none", "durable"}
    BY <1>7 DEF ScopesLeft
  <2>4. scope' \in {"none", "torn", "durable"}
    BY <1>7 DEF ScopesLeft
  <2> QED
    BY <1>0, <2>1, <2>2, <2>3, <2>4 DEF ScopeLines
<1>11. SidesTyped'
  BY <1>0, <1>7, <1>9, <1>10 DEF SidesTyped
<1>12. DoubtsKnown'
  BY <1>5, <1>10 DEF DoubtsKnown
<1>13. FramesBacked'
  BY <1>0, <1>3, <1>4, <1>6 DEF FramesBacked
<1>14. ScopeKnown'
  <2>1. frames' # << >> => frames # << >>
    <3>1. frames = << >> => Len(frames) = 0
      OBVIOUS
    <3>2. frames' \in Seq(Frames)
      BY <1>1 DEF LogInv, LogTypeOK
    <3>3. Len(frames') = 0 => frames' = << >>
      BY <3>2, EmptySeq
    <3> QED
      BY <1>3, <1>4, <3>1, <3>3
  <2> QED
    BY <1>0, <1>10, <2>1 DEF ScopeKnown
<1>15. \A seq, text : CheckpointAt(frames, durable, seq, text)
                      => CheckpointAt(frames', durable', seq, text)
  BY <1>2, <1>3, <1>4 DEF CheckpointAt
<1>16. FilesBacked'
  BY <1>0, <1>9, <1>15 DEF FilesBacked, FileBacked
<1>17. CommitsFresh'
  <2>1. \A i \in 1..durable : i \in 1..durable'
    BY <1>2, <1>3
  <2> QED
    BY <1>0, <1>9, <2>1 DEF CommitsFresh
<1>18. CallsFine' /\ OwnEvent'
  BY <1>0, IdleCalls
<1> QED
  BY <1>1, <1>11, <1>12, <1>13, <1>14, <1>16, <1>17, <1>18 DEF SourcesInv, DiskInv

-----------------------------------------------------------------------------
(* Every step. *)

LEMMA SourcesStep == SourcesInv /\ [SourcesNext]_sourceVars => SourcesInv'
<1> SUFFICES ASSUME SourcesInv, [SourcesNext]_sourceVars PROVE SourcesInv'
  OBVIOUS
<1>1. CASE Crash \/ PowerLoss \/ FrameDamaged
  BY <1>1, CrashStep, PowerLossStep, FrameDamagedStep
<1>2. ASSUME NEW h \in Hosts,
             \/ BeginAppend(h) \/ AppendOrigin(h) \/ AppendEvent(h)
             \/ BeginCommit(h) \/ CommitPut(h) \/ CommitEvent(h) \/ CommitFile(h)
             \/ BeginWalk(h) \/ WalkPage(h)
             \/ BeginPin(h) \/ PinSearch(h) \/ PinRow(h)
             \/ BeginView(h) \/ ViewRead(h) \/ ViewClose(h)
      PROVE  SourcesInv'
  BY <1>2, BeginAppendStep, AppendOriginStep, AppendEventStep, BeginCommitStep,
     CommitPutStep, CommitEventStep, CommitFileStep, BeginWalkStep, WalkPageStep,
     BeginPinStep, PinSearchStep, PinRowStep, BeginViewStep, ViewReadStep, ViewCloseStep
<1>3. CASE UNCHANGED sourceVars
  <2>1. UNCHANGED <<frames, torn, index, durable, acked, logFaults, call, objects, scope,
                    checkpoint, doubted, commits, calls>>
    BY <1>3 DEF sourceVars, logVars, sideVars
  <2>2. LogInv' /\ DiskInv'
    BY <2>1 DEF SourcesInv, LogInv, LogTypeOK, RowsAligned, InSequence, AckedDurable,
                DiskInv, SidesTyped, DoubtsKnown, FramesBacked, ScopeKnown, FilesBacked,
                FileBacked, CommitsFresh
  <2>3. CallsFine' /\ OwnEvent'
    BY <2>1 DEF SourcesInv, CallsFine, OwnEvent
  <2> QED
    BY <2>2, <2>3 DEF SourcesInv
<1> QED
  BY <1>1, <1>2, <1>3 DEF SourcesNext

\* A scope is new, or has events of an earlier run.
LEMMA SourcesStart == SourcesInit => SourcesInv
<1> SUFFICES ASSUME SourcesInit PROVE SourcesInv
  OBVIOUS
<1> DEFINE Note(i) == Body(i, "note", NoRef, FALSE)
<1>1. PICK n \in {0, Earlier} :
        /\ frames = [i \in 1..n |-> [seq |-> i, body |-> Note(i), ok |-> TRUE]]
        /\ index = FullIndex(n) /\ durable = n
        /\ acked = {[seq |-> i, body |-> frames[i].body] : i \in 1..n}
        /\ scope \in (IF n = 0 THEN {"none"} ELSE {"synced", "durable"})
  BY DEF SourcesInit
<1>2. n \in Nat /\ \A i \in 1..n : Note(i) \in Bodies /\ Note(i).ref = NoRef
  <2>1. \A i \in 1..Earlier : Note(i) \in Bodies
    BY BodiesKnown
  <2>2. \A i : Note(i).ref = NoRef
    BY DEF Body
  <2> HIDE DEF Note
  <2>3. Earlier \in Nat
    BY BodiesKnown
  <2>4. CASE n = 0
    BY <2>4
  <2>5. CASE n = Earlier
    BY <2>1, <2>2, <2>3, <2>5
  <2> QED
    BY <2>4, <2>5
<1>3. /\ torn = FALSE /\ logFaults = 0 /\ call = [h \in Hosts |-> Idle]
      /\ objects = [r \in Refs |-> "none"]
      /\ checkpoint = [now |-> NoFile, safe |-> NoFile]
      /\ doubted = {} /\ commits = {} /\ calls = Earlier
  BY DEF SourcesInit
<1> HIDE DEF Note
<1>4. \A i \in 1..n : /\ frames[i] \in Frames /\ frames[i].seq = i
                      /\ frames[i].body = Note(i)
  BY <1>1, <1>2 DEF Frames
<1>5. frames \in Seq(Frames) /\ Len(frames) = n /\ DOMAIN frames = 1..n
  <2>1. frames \in [1..n -> Frames] /\ DOMAIN frames = 1..n
    BY <1>1, <1>4
  <2> QED
    BY <1>2, <2>1
<1>6. /\ acked \subseteq [seq : Nat, body : Bodies]
      /\ \A a \in acked : a.seq \in 1..durable /\ frames[a.seq].body = a.body
  <2> SUFFICES ASSUME NEW a \in acked
               PROVE  /\ a \in [seq : Nat, body : Bodies]
                      /\ a.seq \in 1..durable /\ frames[a.seq].body = a.body
    OBVIOUS
  <2>1. PICK i \in 1..n : a = [seq |-> i, body |-> frames[i].body]
    BY <1>1
  <2>2. i \in Nat /\ frames[i].body \in Bodies
    BY <1>2, <1>4
  <2> QED
    BY <1>1, <2>1, <2>2
<1>7. index \in Indexes /\ Aligned(index)
  BY <1>1, <1>2, FullIndexIsAligned
<1>8. LogInv
  <2>1. durable = n /\ RowsAligned /\ index \in [usable : BOOLEAN, rows : Seq(Nat)]
    BY <1>1, <1>7 DEF RowsAligned, Aligned, Indexes
  <2>2. torn \in BOOLEAN /\ logFaults \in Nat
    BY <1>3
  <2>3. LogTypeOK
    BY <1>2, <1>5, <1>6, <2>1, <2>2 DEF LogTypeOK
  <2>4. InSequence
    BY <1>4, <1>5 DEF InSequence
  <2>5. AckedDurable
    BY <1>2, <1>5, <1>6, <2>1 DEF AckedDurable
  <2> QED
    BY <2>1, <2>3, <2>4, <2>5 DEF LogInv
<1>9. SidesTyped
  BY <1>1, <1>3, BodiesKnown DEF SidesTyped, ScopeLines
<1>10. DoubtsKnown
  BY <1>1, <1>3 DEF DoubtsKnown
<1>11. FramesBacked
  <2>1. \A i \in 1..Len(frames) : frames[i].body.ref = NoRef
    BY <1>2, <1>4, <1>5
  <2> QED
    BY <2>1 DEF FramesBacked
<1>12. ScopeKnown
  <2>1. n = 0 => frames = << >>
    BY <1>5, EmptySeq
  <2> QED
    BY <1>1, <2>1 DEF ScopeKnown
<1>13. FilesBacked /\ CommitsFresh
  BY <1>3 DEF FilesBacked, FileBacked, CommitsFresh
<1>14. CallsFine
  BY <1>3 DEF CallsFine, Fine
<1>15. OwnEvent
  BY <1>3 DEF OwnEvent, Idle
<1> QED
  BY <1>8, <1>9, <1>10, <1>11, <1>12, <1>13, <1>14, <1>15 DEF SourcesInv, DiskInv

\* What is said above of the calls and of the disk holds in every reachable state,
\* whatever the hosts' calls (src/source_*.c) interleave and however they fail.
THEOREM SourcesAlways == SourcesSpec => []SourcesInv
BY SourcesStart, SourcesStep, PTL DEF SourcesSpec

-----------------------------------------------------------------------------
\* asper_event_append, asper_checkpoint_commit: what an event rests on is stored
\* before it, for any calls that overlap, fail or are lost with the power; the
\* exceptions are a store that failed after its object or line had become visible,
\* and an index.log that went with the power because register_scope_locked had not
\* synced the directory it made the file in.
THEOREM EvidenceFirst == SourcesSpec => []EvidenceBacked
<1>1. SourcesInv => EvidenceBacked
  <2> SUFFICES ASSUME SourcesInv PROVE EvidenceBacked
    OBVIOUS
  <2>1. DOMAIN frames = 1..Len(frames)
    BY LogSizes DEF SourcesInv
  <2>2. \A i \in DOMAIN frames :
          frames[i].body.ref # NoRef
          => objects[frames[i].body.ref] # "none" \/ frames[i].body.ref \in doubted
    BY <2>1 DEF SourcesInv, DiskInv, FramesBacked, HasObject
  <2>3. frames # << >> =>
          scope \notin {"none", "torn"} \/ "scope" \in doubted \/ "index" \in doubted
    BY DEF SourcesInv, DiskInv, ScopeKnown
  <2>4. checkpoint.now # NoFile
        => CheckpointAt(frames, durable, checkpoint.now.seq, checkpoint.now.text)
    BY DEF SourcesInv, DiskInv, FilesBacked, FileBacked
  <2>5. checkpoint.now # NoFile =>
          /\ checkpoint.now.seq <= durable
          /\ frames[checkpoint.now.seq].body.kind = "checkpoint"
          /\ frames[checkpoint.now.seq].body.ref = checkpoint.now.text
    BY <2>4, LogSizes DEF CheckpointAt, SourcesInv
  <2> QED
    BY <2>2, <2>3, <2>5 DEF EvidenceBacked
<1> QED
  BY <1>1, SourcesAlways, PTL

\* asper_event_search, asper_source_view_read: pages and views that let go of the
\* lock between two reads give what they promise, for any page size and any calls
\* in between.
THEOREM ReadersNotMisled == SourcesSpec => []ReadersExact
<1>1. SourcesInv => ReadersExact
  <2> SUFFICES ASSUME SourcesInv, NEW h \in Hosts
               PROVE  /\ call[h].op = "walk" => PagesComplete(call[h])
                      /\ call[h].op = "view" => ViewExact(call[h])
    BY DEF ReadersExact
  <2>1. /\ call[h].op = "walk" => FineWalk(call[h], frames)
        /\ call[h].op = "view" => FineView(call[h], frames)
    BY FineKind DEF SourcesInv, CallsFine
  <2>2. FineWalk(call[h], frames) => PagesComplete(call[h])
    <3> SUFFICES ASSUME FineWalk(call[h], frames) PROVE PagesComplete(call[h])
      OBVIOUS
    <3>1. DOMAIN call[h].seen = 1..Len(call[h].seen)
      BY LenProperties DEF FineWalk
    <3> QED
      BY <3>1 DEF FineWalk, PagesComplete
  <2>3. FineView(call[h], frames) => ViewExact(call[h])
    BY DEF FineView, ViewExact
  <2> QED
    BY <2>1, <2>2, <2>3
<1> QED
  BY <1>1, SourcesAlways, PTL

\* asper_checkpoint_commit, asper_checkpoint_load: a commit that had returned when
\* another began is never loaded again once that one has returned, whatever
\* overlapped, failed or was lost with the power.
THEOREM CheckpointStaysFresh == SourcesSpec => []CheckpointFresh
<1>1. SourcesInv => CheckpointFresh
  <2> SUFFICES ASSUME SourcesInv, NEW c \in commits
               PROVE  LoadedSeq # 0 /\ LoadedSeq \notin c.before
    BY DEF CheckpointFresh
  <2>1. checkpoint.now # NoFile /\ checkpoint.now.seq \notin c.before
    BY DEF SourcesInv, DiskInv, CommitsFresh
  <2>2. LoadedSeq = checkpoint.now.seq
    BY <2>1 DEF LoadedSeq
  <2>3. CheckpointAt(frames, durable, checkpoint.now.seq, checkpoint.now.text)
    BY <2>1 DEF SourcesInv, DiskInv, FilesBacked, FileBacked
  <2>4. checkpoint.now.seq # 0
    BY <2>3, LogSizes DEF CheckpointAt, SourcesInv
  <2> QED
    BY <2>1, <2>2, <2>4
<1> QED
  BY <1>1, SourcesAlways, PTL

\* asper_event_append, asper_event_log_append: with several hosts, readers that
\* rebuild the index and every failure, an acknowledged event still stays.
THEOREM AcknowledgedStayInScope == SourcesSpec => []DurableKept
<1>1. SourcesInv => DurableKept
  <2> SUFFICES ASSUME SourcesInv, NEW a \in acked
               PROVE  /\ a.seq \in 1..Len(frames)
                      /\ frames[a.seq].seq = a.seq /\ frames[a.seq].body = a.body
    BY DEF DurableKept
  <2>1. LogInv
    BY DEF SourcesInv
  <2>2. a.seq \in 1..Len(frames) /\ frames[a.seq].body = a.body
    BY <2>1, LogSizes DEF LogInv, AckedDurable
  <2> QED
    BY <2>1, <2>2, LogSizes DEF LogInv, InSequence
<1> QED
  BY <1>1, SourcesAlways, PTL
=============================================================================
