------------------------------- MODULE EventLog -------------------------------
(***************************************************************************)
(* One exact event log (event_log.c, event_index.c, event_frame.c): a file *)
(* of checksummed frames, which only grows, and beside it a derived index  *)
(* of 48-byte rows with where each frame ends.  A scope's events.log and   *)
(* knowledge.events are both such files.                                   *)
(*                                                                         *)
(* Offsets are counted in half frames: a complete frame is FrameSize = 2   *)
(* long and a torn tail 1.  The caller holds one mutex across an append or *)
(* an open, so each is one step.  A frame's bytes and digests are its `ok' *)
(* bit: whether asper_event_frame_read accepts it.                         *)
(***************************************************************************)
EXTENDS Naturals, Sequences, FiniteSets

CONSTANTS
    Bodies,        \* what a frame carries (id, kind, pin, reference, text)
    MaxFrames,     \* ASPER_EVENT_LOG_BYTES, in frames
    MaxLogFaults   \* bound: failed calls, damaged frames, power failures

ASSUME LogAssumption == MaxFrames \in Nat /\ MaxLogFaults \in Nat

VARIABLES
    frames,     \* disk: the complete frames, [seq, body, ok]
    torn,       \* disk: an incomplete frame follows the last one
    index,      \* disk: [usable, rows]; rows[i] is the end that row i gives,
                \* 0 when the row fails its checksum
    durable,    \* disk: how many frames a power failure keeps
    acked,      \* history: [seq, body] of every append that returned ASPER_OK
    logFaults   \* bound

logVars == <<frames, torn, index, durable, acked, logFaults>>

FrameSize == 2
SizeOf(n) == FrameSize * n
Bytes     == SizeOf(Len(frames)) + (IF torn THEN 1 ELSE 0)
RowsFor(n) == [i \in 1..n |-> SizeOf(i)]
FullIndex(n) == [usable |-> TRUE, rows |-> RowsFor(n)]
Frames == [seq : Nat, body : Bodies, ok : BOOLEAN]

LogFault == logFaults < MaxLogFaults /\ logFaults' = logFaults + 1

LogInit ==
    /\ frames = << >> /\ torn = FALSE
    /\ index = FullIndex(0)
    /\ durable = 0 /\ acked = {} /\ logFaults = 0

-----------------------------------------------------------------------------
(* asper_event_files_open: believe the index, or rebuild it from the log.  *)

\* index_read: row i is there, passes its checksum and ends inside the log.
RowReadable(rows, i, bytes) ==
    /\ i \in 1..Len(rows)
    /\ rows[i] # 0 /\ rows[i] <= bytes

\* Mutation: a last row is believed without looking where the log ends.
IndexAcceptedShort ==
    LET n == Len(index.rows) IN
    /\ index.usable
    /\ \/ n = 0 /\ Bytes = 0
       \/ /\ RowReadable(index.rows, n, Bytes)
          /\ frames[n].ok /\ frames[n].seq = n

\* files_open keeps an index that is empty beside an empty log, or whose last
\* row ends where the log ends and frames the event of that sequence.
IndexAccepted ==
    LET n == Len(index.rows) IN
    /\ index.usable
    /\ \/ n = 0 /\ Bytes = 0
       \/ /\ RowReadable(index.rows, n, Bytes)
          /\ index.rows[n] = Bytes
          /\ LET last == frames[Bytes \div FrameSize]
             IN  last.ok /\ last.seq = n

\* rebuild stops with ASPER_ERR_PARSE at a complete frame that is damaged or
\* out of sequence; it drops nothing.
Intact(n) == \A i \in 1..n : frames[i].ok /\ frames[i].seq = i

OpenCount == IF IndexAccepted THEN Len(index.rows) ELSE Len(frames)
Openable  == IndexAccepted \/ Intact(Len(frames))

\* What a successful open leaves: a torn tail is cut off and synced before the
\* new index replaces the old one.
AfterOpen ==
    IF IndexAccepted
    THEN UNCHANGED <<frames, torn, index, durable>>
    ELSE /\ torn' = FALSE
         /\ index' = FullIndex(Len(frames))
         /\ durable' = IF torn THEN Len(frames) ELSE durable
         /\ UNCHANGED frames

\* A reader opens the log (a page, a view).
Open == Openable /\ AfterOpen /\ UNCHANGED <<acked, logFaults>>

\* An open fails on the way: the tail may already have been cut, and the new
\* index never replaced the old one.
OpenFails ==
    /\ ~IndexAccepted /\ Intact(Len(frames)) /\ LogFault
    /\ torn' \in {torn, FALSE}
    /\ UNCHANGED <<frames, index, durable, acked>>

\* read_event: a reader with the first n frames captured meets an unreadable
\* row and rebuilds the index over its own prefix, whatever the log holds now.
ReaderRebuilds(n) ==
    /\ Intact(n)
    /\ index' = FullIndex(n)
    /\ UNCHANGED <<frames, torn, durable, acked, logFaults>>

-----------------------------------------------------------------------------
(* asper_event_log_append                                                  *)

\* The frame is written and synced, then its derived row: written, lost or torn,
\* none of which revokes the event.
AppendOk(body) ==
    /\ Openable /\ Len(frames) < MaxFrames
    /\ LET event == [seq |-> OpenCount + 1, body |-> body, ok |-> TRUE]
           before == IF IndexAccepted THEN index.rows ELSE RowsFor(Len(frames))
           end == SizeOf(Len(frames) + 1)
       IN  /\ frames' = Append(frames, event)
           /\ acked' = acked \cup {[seq |-> event.seq, body |-> body]}
           /\ index' \in {[usable |-> TRUE, rows |-> Append(before, end)],
                          [usable |-> TRUE, rows |-> before],
                          [usable |-> FALSE, rows |-> before]}
    /\ torn' = FALSE
    /\ durable' = Len(frames) + 1
    /\ UNCHANGED logFaults

\* The log does not open, or it is full: the append is refused.
AppendRefused ==
    /\ ~Openable \/ Len(frames) = MaxFrames
    /\ IF Openable THEN AfterOpen ELSE UNCHANGED <<frames, torn, index, durable>>
    /\ UNCHANGED <<acked, logFaults>>

\* A write, flush or sync fails after the open: the frame is absent, torn or
\* complete, and in any case not known to be durable; no row is written.
AppendFails(body) ==
    /\ Openable /\ Len(frames) < MaxFrames /\ LogFault
    /\ index' = IF IndexAccepted THEN index ELSE FullIndex(Len(frames))
    /\ durable' = IF torn THEN Len(frames) ELSE durable
    /\ \/ torn' \in BOOLEAN /\ UNCHANGED frames
       \/ /\ frames' = Append(frames, [seq |-> OpenCount + 1, body |-> body,
                                       ok |-> TRUE])
          /\ torn' = FALSE
    /\ UNCHANGED acked

-----------------------------------------------------------------------------
(* The storage.                                                            *)

\* Rows are not synced one by one: a power failure keeps some first rows, may
\* lose one of them, and may leave the file unusable.
IndexesLeft ==
    {[usable |-> u, rows |-> [i \in 1..n |-> IF i = hole THEN 0 ELSE index.rows[i]]] :
        u \in BOOLEAN, n \in 0..Len(index.rows), hole \in 0..Len(index.rows)}

\* A power failure keeps the synced frames, perhaps more, perhaps a torn one.
PowerFailure ==
    /\ LogFault
    /\ \E n \in durable..Len(frames) :
         /\ frames' = SubSeq(frames, 1, n)
         /\ torn' \in (IF n < Len(frames) \/ torn THEN BOOLEAN ELSE {FALSE})
         /\ durable' = n
    /\ index' \in IndexesLeft
    /\ UNCHANGED acked

\* A complete frame's bytes change on disk.
Damage ==
    /\ LogFault
    /\ \E i \in DOMAIN frames : frames' = [frames EXCEPT ![i].ok = FALSE]
    /\ UNCHANGED <<torn, index, durable, acked>>

LogNext ==
    \/ Open \/ OpenFails \/ AppendRefused \/ PowerFailure \/ Damage
    \/ \E n \in 0..Len(frames) : ReaderRebuilds(n)
    \/ \E body \in Bodies : AppendOk(body) \/ AppendFails(body)

LogSpec == LogInit /\ [][LogNext]_logVars

-----------------------------------------------------------------------------
LogTypeOK ==
    /\ frames \in Seq(Frames) /\ torn \in BOOLEAN
    /\ index \in [usable : BOOLEAN, rows : Seq(Nat)]
    /\ durable \in Nat /\ logFaults \in Nat
    /\ acked \subseteq [seq : Nat, body : Bodies]

\* Every event an append acknowledged is in the log, under the sequence it was
\* acknowledged with, whatever was torn, rebuilt, damaged or lost since: repair
\* cuts an incomplete tail and nothing else (event_index.c:38).
DurableKept ==
    \A a \in acked :
       /\ a.seq \in 1..Len(frames)
       /\ frames[a.seq].seq = a.seq /\ frames[a.seq].body = a.body
=============================================================================
