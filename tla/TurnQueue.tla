----------------------------- MODULE TurnQueue -----------------------------
(***************************************************************************)
(* The bounded curation queue of src/turn_queue.c with the batch ownership *)
(* of src/curator.c (take_turns, restore_turns, drop_all_turns).           *)
(*                                                                         *)
(* Two threads meet here under ev_mu: the admitting one, which holds       *)
(* replay_mu and so is alone, checks for room, reads the event's metadata  *)
(* WITHOUT ev_mu and then appends; and the curation cycle, which takes a   *)
(* batch, generates without any lock and afterwards settles the batch or   *)
(* puts it back.  The array must never have to grow for a put-back.        *)
(***************************************************************************)
EXTENDS Integers, Sequences

CONSTANTS
    Scope,          \* what take_turns compares: scope, project, workspace, commit
    Bytes,          \* possible sizes of a turn's text, terminator included
    EventQueueMax,  \* cfg.event_queue_max
    QueueEvents,    \* ASPER_QUEUE_EVENTS, 4096
    QueueBytes,     \* ASPER_QUEUE_BYTES, 32 MiB
    FirstCap,       \* the first array size, 16
    TurnBatch,      \* cfg.turn_batch
    BatchMax,       \* CURATION_BATCH_MAX, 256
    MaxAdmitted     \* bound of the model: how many turns are ever admitted

ASSUME QueueAssumption ==
    /\ EventQueueMax \in Int /\ TurnBatch \in Int
    /\ QueueEvents \in Nat \ {0} /\ BatchMax \in Nat \ {0}
    /\ FirstCap \in 1 .. QueueEvents
    /\ QueueBytes \in Nat /\ MaxAdmitted \in Nat
    /\ Bytes \subseteq 1 .. QueueBytes

VARIABLES
    turns,          \* c->turns[0 .. turns_n-1]
    cap,            \* c->turns_cap
    inflight,       \* c->turns_inflight
    turnsBytes,     \* c->turns_bytes
    inflightBytes,  \* c->turns_inflight_bytes
    batch,          \* the turns the running cycle owns
    cycle,          \* where that cycle is
    incoming,       \* the admission under way, after its first room check
    hasCurator,     \* c->has_curator, fixed for the life of the context
    admitted,       \* history: how many turns were admitted
    settled         \* history: the turns a cycle settled, in order

queue == <<turns, cap, turnsBytes>>
flight == <<inflight, inflightBytes, batch, cycle>>
history == <<admitted, settled>>
vars == <<queue, flight, incoming, hasCurator, history>>

Turn == [seq : Nat \ {0}, scope : Scope, bytes : Bytes]
None == <<>>

SizeOf(ts) ==
    LET size[i \in 0 .. Len(ts)] ==
            IF i = 0 THEN 0 ELSE size[i - 1] + ts[i].bytes
    IN  size[Len(ts)]

Limit == IF EventQueueMax < 1 THEN 1
         ELSE IF EventQueueMax > QueueEvents THEN QueueEvents ELSE EventQueueMax

\* Mutation: the turns in flight are not counted.
RoomForQueued(bytes) == /\ Len(turns) < Limit
                        /\ bytes <= QueueBytes - turnsBytes - inflightBytes

Room(bytes) == /\ Len(turns) + inflight < Limit
               /\ bytes <= QueueBytes - turnsBytes - inflightBytes

Init == /\ turns = <<>> /\ cap = 0 /\ inflight = 0
        /\ turnsBytes = 0 /\ inflightBytes = 0
        /\ batch = <<>> /\ cycle = "idle" /\ incoming = None
        /\ hasCurator \in BOOLEAN
        /\ admitted = 0 /\ settled = <<>>
-----------------------------------------------------------------------------
(* Admission: room_for, then the object read outside ev_mu, then the append *)
(* under ev_mu.  A failed read or allocation admits nothing.                *)

CheckRoom(s, b) ==
    /\ incoming = None
    /\ admitted < MaxAdmitted
    /\ Room(b)
    /\ incoming' = [seq |-> admitted + 1, scope |-> s, bytes |-> b]
    /\ UNCHANGED <<queue, flight, history>>

\* The array grows only when every slot is in the FIFO or reserved in flight.
Grown == IF cap = 0 THEN FirstCap
         ELSE IF 2 * cap > QueueEvents THEN QueueEvents ELSE 2 * cap

\* Mutation: the array grows only when the FIFO alone fills it.
EnqueueWithoutReserve ==
    /\ incoming # None
    /\ Room(incoming.bytes)
    /\ cap' = IF Len(turns) = cap THEN Grown ELSE cap
    /\ turns' = Append(turns, incoming)
    /\ turnsBytes' = turnsBytes + incoming.bytes
    /\ incoming' = None
    /\ admitted' = incoming.seq
    /\ UNCHANGED <<flight, settled>>

Enqueue ==
    /\ incoming # None
    /\ Room(incoming.bytes)
    /\ cap' = IF Len(turns) + inflight = cap THEN Grown ELSE cap
    /\ turns' = Append(turns, incoming)
    /\ turnsBytes' = turnsBytes + incoming.bytes
    /\ incoming' = None
    /\ admitted' = incoming.seq
    /\ UNCHANGED <<flight, settled>>

\* BUSY on the second check, an unreadable object or a failed allocation.
EnqueueFails ==
    /\ incoming # None
    /\ incoming' = None
    /\ UNCHANGED <<queue, flight, history>>
-----------------------------------------------------------------------------
(* The cycle. *)

SameScope(n) == \A i \in 1 .. n : turns[i].scope = turns[1].scope

Smaller(m, n) == IF m < n THEN m ELSE n

MostTurns(force) ==
    Smaller(IF force \/ TurnBatch <= 0 THEN Len(turns)
            ELSE Smaller(TurnBatch, Len(turns)), BatchMax)

Take(n) ==
    /\ batch' = SubSeq(turns, 1, n)
    /\ turns' = SubSeq(turns, n + 1, Len(turns))
    /\ inflight' = inflight + n
    /\ turnsBytes' = turnsBytes - SizeOf(SubSeq(turns, 1, n))
    /\ inflightBytes' = inflightBytes + SizeOf(SubSeq(turns, 1, n))

\* The longest prefix of one scope, at most turn_batch turns unless forced.
TakeTurns(force) ==
    /\ hasCurator /\ cycle = "idle"
    /\ turns # <<>>
    /\ \E n \in 1 .. MostTurns(force) :
           /\ SameScope(n)
           /\ n < MostTurns(force) => ~SameScope(n + 1)
           /\ Take(n)
    /\ cycle' = "taken"
    /\ UNCHANGED <<cap, incoming, history>>

\* restore_turns on the turns after the first keep ones of the batch.
Restorable(n) == n <= inflight /\ Len(turns) <= cap /\ n <= cap - Len(turns)

\* Mutation: the turns go back to the tail of the queue.
RestoreAtTail(keep) ==
    LET back == SubSeq(batch, keep + 1, Len(batch))
    IN  /\ Restorable(Len(back))
        /\ turns' = turns \o back
        /\ batch' = SubSeq(batch, 1, keep)
        /\ inflight' = inflight - Len(back)
        /\ turnsBytes' = turnsBytes + SizeOf(back)
        /\ inflightBytes' = inflightBytes - SizeOf(back)

\* Mutation: the bytes that go back stay in flight.
RestoreKeepsBytes(keep) ==
    LET back == SubSeq(batch, keep + 1, Len(batch))
    IN  /\ Restorable(Len(back))
        /\ turns' = back \o turns
        /\ batch' = SubSeq(batch, 1, keep)
        /\ inflight' = inflight - Len(back)
        /\ turnsBytes' = turnsBytes + SizeOf(back)
        /\ UNCHANGED inflightBytes

Restore(keep) ==
    LET back == SubSeq(batch, keep + 1, Len(batch))
    IN  /\ Restorable(Len(back))
        /\ turns' = back \o turns
        /\ batch' = SubSeq(batch, 1, keep)
        /\ inflight' = inflight - Len(back)
        /\ turnsBytes' = turnsBytes + SizeOf(back)
        /\ inflightBytes' = inflightBytes - SizeOf(back)

\* Mutation: what the transcript cannot hold is forgotten.
ShortenBatchForgets(included) ==
    /\ cycle = "taken"
    /\ included \in 1 .. Len(batch)
    /\ batch' = SubSeq(batch, 1, included)
    /\ inflight' = included
    /\ inflightBytes' = SizeOf(SubSeq(batch, 1, included))
    /\ cycle' = "running"
    /\ UNCHANGED <<queue, incoming, history>>

\* The transcript held only a prefix of the batch: the rest goes back.
ShortenBatch(included) ==
    /\ cycle = "taken"
    /\ included \in 1 .. Len(batch)
    /\ IF included < Len(batch) THEN Restore(included)
       ELSE UNCHANGED <<turns, turnsBytes, inflight, inflightBytes, batch>>
    /\ cycle' = "running"
    /\ UNCHANGED <<cap, incoming, history>>

\* Any error of the cycle: the batch returns, and releasing it does nothing.
FailCycle ==
    /\ cycle \in {"taken", "running"}
    /\ Restore(0)
    /\ cycle' = "idle"
    /\ UNCHANGED <<cap, incoming, history>>

\* asper_turn_queue_release after a successful cycle.
Release ==
    /\ cycle = "running"
    /\ inflight' = inflight - Len(batch)
    /\ inflightBytes' = inflightBytes - SizeOf(batch)
    /\ settled' = settled \o batch
    /\ batch' = <<>>
    /\ cycle' = "idle"
    /\ UNCHANGED <<queue, incoming, admitted>>

\* drop_all_turns: a cycle without a curator model forgets the queue.
DropAll ==
    /\ ~hasCurator /\ cycle = "idle"
    /\ settled' = settled \o turns
    /\ turns' = <<>> /\ turnsBytes' = 0
    /\ UNCHANGED <<cap, flight, incoming, admitted>>
-----------------------------------------------------------------------------
Next ==
    /\ UNCHANGED hasCurator
    /\ \/ \E s \in Scope, b \in Bytes : CheckRoom(s, b)
       \/ Enqueue \/ EnqueueFails
       \/ \E force \in BOOLEAN : TakeTurns(force)
       \/ \E included \in 1 .. BatchMax : ShortenBatch(included)
       \/ FailCycle \/ Release \/ DropAll

Spec == Init /\ [][Next]_vars
-----------------------------------------------------------------------------
(* Properties. *)

(* The values every variable of the queue ranges over (BytesExact says it  *)
(* of the two byte counters).                                              *)
TypeOK ==
    /\ turns \in Seq(Turn) /\ batch \in Seq(Turn) /\ settled \in Seq(Turn)
    /\ cap \in Nat /\ inflight \in Nat /\ admitted \in Nat
    /\ cycle \in {"idle", "taken", "running"}
    /\ hasCurator \in BOOLEAN /\ incoming \in Turn \cup {None}

(* Queued and in-flight turns together never exceed the configured limit,  *)
(* and in-flight ones are exactly those the running cycle owns: a counter  *)
(* that leaked one slot per failed cycle would end admission for good.     *)
Bounded ==
    /\ Len(turns) + inflight <= Limit
    /\ inflight = Len(batch)
    /\ cycle = "idle" => batch = <<>>

(* The byte counters match the texts they account for, so the unsigned     *)
(* QueueBytes - turnsBytes - inflightBytes of room_for cannot wrap.        *)
BytesExact ==
    /\ turnsBytes = SizeOf(turns)
    /\ inflightBytes = SizeOf(batch)
    /\ turnsBytes + inflightBytes <= QueueBytes

(* Whatever producers did while the model was generating, the whole batch  *)
(* still fits in the array: "retry never reallocates", so restore_turns    *)
(* cannot fail and no turn is lost after a failed generation.              *)
RestoreFits == Restorable(Len(batch)) /\ cap <= QueueEvents

(* Turns are settled in admission order, each once, none skipped, however  *)
(* often a batch was shortened or put back.                                *)
AdmissionOrder ==
    LET all == settled \o (batch \o turns)
    IN  /\ Len(all) = admitted
        /\ \A i \in 1 .. Len(all) : all[i].seq = i

(* The queue implements the abstract first-in first-out queue, with the    *)
(* batch of the running cycle still at its head.                           *)
Fifo == INSTANCE FifoQueue WITH owned <- batch \o turns
FifoSpec == Fifo!Spec
=============================================================================
