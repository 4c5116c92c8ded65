-------------------------- MODULE TurnQueueProofs --------------------------
(***************************************************************************)
(* Proofs about TurnQueue for every queue limit, batch size and array      *)
(* size: the admission bound, the byte counters, the capacity reserved for *)
(* a retry, the admission order, and that the queue implements FifoQueue.  *)
(***************************************************************************)
EXTENDS TurnQueue, SequenceTheorems, WellFoundedInduction, TLAPS

(* The line of all turns ever admitted, settled ones first. *)
Line == settled \o (batch \o turns)

(* The admission under way carries the next number. *)
IncomingNext == incoming # None => incoming \in Turn /\ incoming.seq = admitted + 1

IInv == TypeOK /\ Bounded /\ RestoreFits /\ AdmissionOrder /\ IncomingNext

-----------------------------------------------------------------------------
(* Cutting a sequence in two and joining the parts again. *)
LEMMA CutSeq ==
    ASSUME NEW S, NEW s \in Seq(S), NEW n \in 0 .. Len(s)
    PROVE  /\ SubSeq(s, 1, n) \in Seq(S)
           /\ Len(SubSeq(s, 1, n)) = n
           /\ \A i \in 1 .. n : SubSeq(s, 1, n)[i] = s[i]
           /\ SubSeq(s, n + 1, Len(s)) \in Seq(S)
           /\ Len(SubSeq(s, n + 1, Len(s))) = Len(s) - n
           /\ SubSeq(s, 1, n) \o SubSeq(s, n + 1, Len(s)) = s
<1>1. Len(s) \in Nat /\ \A i \in 1 .. Len(s) : s[i] \in S
  BY LenProperties, ElementOfSeq
<1>2. /\ SubSeq(s, 1, n) \in Seq(S)
      /\ Len(SubSeq(s, 1, n)) = n
      /\ \A i \in 1 .. n : SubSeq(s, 1, n)[i] = s[i]
  <2>1. \A i \in 1 .. n : s[i] \in S
    BY <1>1
  <2>2. Len(SubSeq(s, 1, n)) = IF 1 <= n THEN n - 1 + 1 ELSE 0
    BY <2>1, SubSeqProperties, <1>1
  <2>3. QED
    BY <2>1, <2>2, SubSeqProperties, <1>1
<1>3. /\ SubSeq(s, n + 1, Len(s)) \in Seq(S)
      /\ Len(SubSeq(s, n + 1, Len(s))) = Len(s) - n
  <2>1. \A i \in n + 1 .. Len(s) : s[i] \in S
    BY <1>1
  <2>2. QED
    BY <2>1, SubSeqProperties, <1>1
<1>4. SubSeq(s, 1, n) \o SubSeq(s, n + 1, Len(s)) = SubSeq(s, 1, Len(s))
  <2>1. /\ 1 \in 1 .. Len(s) + 1 /\ n \in 1 - 1 .. Len(s)
        /\ Len(s) \in n .. Len(s)
    BY <1>1
  <2>2. QED
    BY <2>1, ConcatAdjacentSubSeq, Zenon
<1>5. QED
  BY <1>2, <1>3, <1>4, SubSeqFull

(* The limit is a positive number, at most the hard one. *)
LEMMA LimitType == Limit \in 1 .. QueueEvents
BY QueueAssumption DEF Limit

(* Growing a full array that is below the limit makes room for one more.   *)
LEMMA GrowthSuffices ==
    ASSUME cap \in 0 .. QueueEvents, cap < Limit
    PROVE  Grown \in 1 .. QueueEvents /\ Grown >= cap + 1
BY QueueAssumption DEF Limit, Grown

-----------------------------------------------------------------------------
(* How each action moves the line of turns. *)

LEMMA TypedLine ==
    ASSUME TypeOK
    PROVE  Line \in Seq(Turn) /\ Len(Line) = Len(settled) + Len(batch) + Len(turns)
BY ConcatProperties DEF TypeOK, Line

LEMMA TakeKeepsLine ==
    ASSUME TypeOK, batch = <<>>, NEW n \in 0 .. Len(turns), Take(n)
    PROVE  /\ batch' \in Seq(Turn) /\ turns' \in Seq(Turn)
           /\ Len(batch') = n /\ Len(turns') = Len(turns) - n
           /\ \A i \in 1 .. n : batch'[i] = turns[i]
           /\ batch' \o turns' = turns
           /\ batch \o turns = turns
<1>1. turns \in Seq(Turn)
  BY DEF TypeOK
<1>2. batch' = SubSeq(turns, 1, n) /\ turns' = SubSeq(turns, n + 1, Len(turns))
  BY DEF Take
<1>3. batch \o turns = turns
  BY <1>1, ConcatEmptySeq
<1>4. /\ SubSeq(turns, 1, n) \in Seq(Turn)
      /\ Len(SubSeq(turns, 1, n)) = n
      /\ \A i \in 1 .. n : SubSeq(turns, 1, n)[i] = turns[i]
      /\ SubSeq(turns, n + 1, Len(turns)) \in Seq(Turn)
      /\ Len(SubSeq(turns, n + 1, Len(turns))) = Len(turns) - n
      /\ SubSeq(turns, 1, n) \o SubSeq(turns, n + 1, Len(turns)) = turns
  BY <1>1, CutSeq, Zenon
<1>5. QED
  BY <1>2, <1>3, <1>4, Zenon

LEMMA RestoreKeepsLine ==
    ASSUME TypeOK, NEW keep \in 0 .. Len(batch), Restore(keep)
    PROVE  /\ batch' \in Seq(Turn) /\ turns' \in Seq(Turn)
           /\ Len(batch') = keep
           /\ Len(turns') = Len(turns) + Len(batch) - keep
           /\ inflight' = inflight - (Len(batch) - keep)
           /\ \A i \in 1 .. keep : batch'[i] = batch[i]
           /\ batch' \o turns' = batch \o turns
<1> DEFINE back == SubSeq(batch, keep + 1, Len(batch))
           front == SubSeq(batch, 1, keep)
<1>1. /\ front \in Seq(Turn) /\ back \in Seq(Turn)
      /\ Len(front) = keep /\ Len(back) = Len(batch) - keep
      /\ \A i \in 1 .. keep : front[i] = batch[i]
      /\ front \o back = batch
  BY CutSeq DEF TypeOK
<1>2. batch' = front /\ turns' = back \o turns /\ inflight' = inflight - Len(back)
  BY DEF Restore
<1>3. turns \in Seq(Turn) /\ batch \in Seq(Turn)
  BY DEF TypeOK
<1>. HIDE DEF back, front
<1>4. back \o turns \in Seq(Turn) /\ Len(back \o turns) = Len(back) + Len(turns)
  BY <1>1, <1>3, ConcatProperties, Zenon
<1>5. front \o (back \o turns) = (front \o back) \o turns
  <2>1. /\ front \in Seq(Turn) /\ back \in Seq(Turn) /\ turns \in Seq(Turn)
    BY <1>1, <1>3
  <2>2. (front \o back) \o turns = front \o (back \o turns)
    BY <2>1, ConcatAssociative
  <2>3. QED
    BY <2>2
<1>6. Len(turns) \in Nat /\ Len(batch) \in Nat
  BY <1>3, LenProperties, Zenon
<1>7. QED
  BY <1>1, <1>2, <1>3, <1>4, <1>5, <1>6

(* Appending the admitted turn to the FIFO appends it to the line.         *)
LEMMA EnqueueExtendsLine ==
    ASSUME IInv, Enqueue
    PROVE  /\ turns' \in Seq(Turn) /\ Len(turns') = Len(turns) + 1
           /\ batch' \o turns' = Append(batch \o turns, incoming)
           /\ Line' = Append(Line, incoming)
           /\ Len(Line') = admitted'
           /\ \A i \in 1 .. Len(Line') : Line'[i].seq = i
<1>1. /\ turns \in Seq(Turn) /\ batch \in Seq(Turn) /\ settled \in Seq(Turn)
      /\ incoming \in Turn /\ incoming.seq = admitted + 1 /\ admitted \in Nat
      /\ Line \in Seq(Turn) /\ Len(Line) = admitted
      /\ \A i \in 1 .. Len(Line) : Line[i].seq = i
  BY TypedLine DEF IInv, TypeOK, IncomingNext, Enqueue, AdmissionOrder, Line
<1>2. /\ turns' = Append(turns, incoming) /\ batch' = batch
      /\ settled' = settled /\ admitted' = admitted + 1
  BY <1>1 DEF Enqueue, flight
<1>3. /\ Append(turns, incoming) \in Seq(Turn)
      /\ Len(Append(turns, incoming)) = Len(turns) + 1
  BY <1>1, AppendProperties
<1>4. ASSUME NEW s \in Seq(Turn), NEW t \in Seq(Turn)
      PROVE  s \o Append(t, incoming) = Append(s \o t, incoming)
  <2>1. Append(t, incoming) = t \o <<incoming>>
    BY <1>1, AppendIsConcat
  <2>2. s \o t \in Seq(Turn)
    BY ConcatProperties
  <2>3. Append(s \o t, incoming) = (s \o t) \o <<incoming>>
    BY <1>1, <2>2, AppendIsConcat
  <2>4. <<incoming>> \in Seq(Turn)
    BY <1>1
  <2>5. (s \o t) \o <<incoming>> = s \o (t \o <<incoming>>)
    BY <2>4, ConcatAssociative
  <2>6. QED
    BY <2>1, <2>3, <2>5
<1>5. batch \o turns \in Seq(Turn)
  BY <1>1, ConcatProperties
<1>6. /\ batch \o Append(turns, incoming) = Append(batch \o turns, incoming)
      /\ settled \o Append(batch \o turns, incoming) = Append(Line, incoming)
  BY <1>1, <1>4, <1>5 DEF Line
<1>7. /\ Len(Append(Line, incoming)) = admitted + 1
      /\ \A i \in 1 .. admitted : Append(Line, incoming)[i] = Line[i]
      /\ Append(Line, incoming)[admitted + 1] = incoming
  BY <1>1, AppendProperties
<1>8. Line' = Append(Line, incoming)
  BY <1>2, <1>6 DEF Line
<1>9. \A i \in 1 .. admitted + 1 : Append(Line, incoming)[i].seq = i
  BY <1>1, <1>7
<1>10. QED
  BY <1>2, <1>3, <1>6, <1>7, <1>8, <1>9

(* Settling a batch, or dropping the queue, moves turns within the line.   *)
LEMMA ReleaseKeepsLine ==
    ASSUME TypeOK, Release
    PROVE  /\ settled' \in Seq(Turn) /\ Line' = Line
           /\ batch' \o turns' = turns
<1>1. /\ turns \in Seq(Turn) /\ batch \in Seq(Turn) /\ settled \in Seq(Turn)
      /\ settled' = settled \o batch /\ batch' = <<>> /\ turns' = turns
  BY DEF TypeOK, Release, queue
<1>2. (settled \o batch) \o turns = settled \o (batch \o turns)
  BY <1>1, ConcatAssociative
<1>3. settled \o batch \in Seq(Turn) /\ <<>> \o turns = turns
  BY <1>1, ConcatProperties, ConcatEmptySeq
<1>4. QED
  BY <1>1, <1>2, <1>3 DEF Line

LEMMA DropKeepsLine ==
    ASSUME TypeOK, batch = <<>>, DropAll
    PROVE  /\ settled' \in Seq(Turn) /\ Line' = Line
           /\ batch' \o turns' = <<>> /\ batch \o turns = turns
<1>1. /\ turns \in Seq(Turn) /\ settled \in Seq(Turn) /\ batch' = batch
      /\ settled' = settled \o turns /\ turns' = <<>>
  BY DEF TypeOK, DropAll, flight
<1>2. settled \o turns \in Seq(Turn) /\ <<>> \o turns = turns
  BY <1>1, ConcatProperties, ConcatEmptySeq
<1>3. <<>> \in Seq(Turn) /\ <<>> \o <<>> = <<>>
  BY ConcatEmptySeq
<1>4. (settled \o turns) \o <<>> = settled \o turns
  BY <1>2, ConcatEmptySeq
<1>5. QED
  BY <1>1, <1>2, <1>3, <1>4 DEF Line
-----------------------------------------------------------------------------
(* The inductive invariant. *)

LEMMA InitInv == Init => IInv
<1> SUFFICES ASSUME Init PROVE IInv
  OBVIOUS
<1>1. <<>> \in Seq(Turn) /\ Len(<<>>) = 0 /\ <<>> \o (<<>> \o <<>>) = <<>>
  BY ConcatEmptySeq
<1>2. TypeOK /\ Bounded /\ IncomingNext
  BY <1>1, LimitType DEF Init, TypeOK, Bounded, IncomingNext, None
<1>3. RestoreFits /\ AdmissionOrder
  BY <1>1, QueueAssumption DEF Init, RestoreFits, Restorable, AdmissionOrder
<1>4. QED
  BY <1>2, <1>3 DEF IInv

(* When no turn changes its place in the line, its order is kept.          *)
LEMMA OrderKept ==
    ASSUME AdmissionOrder, Line' = Line, admitted' = admitted
    PROVE  AdmissionOrder'
BY DEF AdmissionOrder, Line

(* The lengths of the parts are numbers. *)
LEMMA Lengths ==
    ASSUME TypeOK
    PROVE  /\ Len(turns) \in Nat /\ Len(batch) \in Nat
           /\ cap \in Nat /\ inflight \in Nat
BY LenProperties DEF TypeOK

LEMMA StepInv == IInv /\ [Next]_vars => IInv'
<1> SUFFICES ASSUME IInv, [Next]_vars PROVE IInv'
  OBVIOUS
<1>0. /\ TypeOK /\ Bounded /\ RestoreFits /\ AdmissionOrder
      /\ IncomingNext /\ Limit \in 1 .. QueueEvents
      /\ Len(turns) \in Nat /\ Len(batch) \in Nat
      /\ cap \in Nat /\ inflight \in Nat /\ inflight = Len(batch)
      /\ Len(turns) + Len(batch) <= cap /\ cap <= QueueEvents
  BY LimitType, Lengths DEF IInv, Bounded, RestoreFits, Restorable
<1>1. ASSUME NEW s \in Scope, NEW b \in Bytes, CheckRoom(s, b),
             UNCHANGED hasCurator
      PROVE  IInv'
  <2>1. UNCHANGED <<turns, cap, batch, inflight, cycle, admitted, settled>>
    BY <1>1 DEF CheckRoom, queue, flight, history
  <2>2. incoming' \in Turn /\ incoming'.seq = admitted' + 1
    BY <1>0, <1>1, <2>1, QueueAssumption DEF CheckRoom, Turn, TypeOK
  <2>3. QED
    BY <1>0, <1>1, <2>1, <2>2 DEF IInv, TypeOK, Bounded, RestoreFits, Restorable,
       AdmissionOrder, IncomingNext
<1>2. CASE Enqueue /\ UNCHANGED hasCurator
  <2>1. /\ turns' \in Seq(Turn) /\ Len(turns') = Len(turns) + 1
        /\ AdmissionOrder'
    BY <1>2, EnqueueExtendsLine DEF AdmissionOrder, Line
  <2>2. /\ UNCHANGED <<inflight, batch, cycle, settled>> /\ incoming' = None
        /\ Len(turns) + inflight < Limit
    BY <1>2 DEF Enqueue, Room, flight
  <2>3. admitted' \in Nat
    BY <1>0, <1>2 DEF Enqueue, IncomingNext, Turn
  <2>4. cap' \in Nat /\ cap' <= QueueEvents /\ Len(turns) + inflight + 1 <= cap'
    <3>1. CASE Len(turns) + inflight = cap
      BY <1>0, <1>2, <2>2, <3>1, GrowthSuffices DEF Enqueue
    <3>2. CASE Len(turns) + inflight # cap
      BY <1>0, <1>2, <3>2 DEF Enqueue
    <3>3. QED
      BY <3>1, <3>2
  <2>5. TypeOK' /\ IncomingNext'
    BY <1>0, <1>2, <2>1, <2>2, <2>3, <2>4
       DEF TypeOK, IncomingNext
  <2>6. Bounded' /\ RestoreFits'
    BY <1>0, <2>1, <2>2, <2>4 DEF Bounded, RestoreFits, Restorable
  <2>7. QED
    BY <2>1, <2>5, <2>6 DEF IInv
<1>3. CASE EnqueueFails /\ UNCHANGED hasCurator
  <2>1. UNCHANGED <<turns, cap, batch, inflight, cycle, admitted, settled>>
        /\ incoming' = None
    BY <1>3 DEF EnqueueFails, queue, flight, history
  <2>2. QED
    BY <1>0, <1>3, <2>1 DEF IInv, TypeOK, Bounded, RestoreFits, Restorable,
       AdmissionOrder, IncomingNext
<1>4. ASSUME NEW force \in BOOLEAN, TakeTurns(force), UNCHANGED hasCurator
      PROVE  IInv'
  <2>1. PICK n \in 1 .. MostTurns(force) : SameScope(n) /\ Take(n)
    BY <1>4 DEF TakeTurns
  <2>2. /\ UNCHANGED <<cap, incoming, admitted, settled>> /\ cycle' = "taken"
        /\ inflight' = inflight + n /\ batch = <<>>
    BY <1>0, <1>4, <2>1 DEF TakeTurns, Take, Bounded, history
  <2>3. n \in 1 .. Len(turns)
    BY <1>0, QueueAssumption DEF MostTurns, Smaller
  <2>4. /\ batch' \in Seq(Turn) /\ turns' \in Seq(Turn)
        /\ Len(batch') = n /\ Len(turns') = Len(turns) - n
        /\ \A i \in 1 .. n : batch'[i] = turns[i]
        /\ batch' \o turns' = turns /\ batch \o turns = turns
    BY <1>0, <2>1, <2>2, <2>3, TakeKeepsLine
  <2>5. AdmissionOrder'
    BY <1>0, <2>2, <2>4, OrderKept DEF Line
  <2>7. Bounded' /\ RestoreFits'
    BY <1>0, <2>2, <2>3, <2>4 DEF Bounded, RestoreFits, Restorable
  <2>8. TypeOK' /\ IncomingNext'
    BY <1>0, <1>4, <2>2, <2>3, <2>4 DEF TypeOK, IncomingNext
  <2>9. QED
    BY <2>5, <2>7, <2>8 DEF IInv
<1>5. ASSUME NEW keep \in 0 .. Len(batch), Restore(keep),
             UNCHANGED <<cap, incoming, hasCurator, admitted, settled>>,
             cycle' \in {"idle", "running"}, cycle' = "idle" => keep = 0
      PROVE  IInv'
  <2>1. /\ batch' \in Seq(Turn) /\ turns' \in Seq(Turn)
        /\ Len(batch') = keep
        /\ Len(turns') = Len(turns) + Len(batch) - keep
        /\ inflight' = inflight - (Len(batch) - keep)
        /\ \A i \in 1 .. keep : batch'[i] = batch[i]
        /\ batch' \o turns' = batch \o turns
    BY <1>0, <1>5, RestoreKeepsLine
  <2>2. AdmissionOrder'
    BY <1>0, <1>5, <2>1, OrderKept DEF Line
  <2>4. keep = 0 => batch' = <<>>
    BY <2>1, EmptySeq
  <2>5. Bounded' /\ RestoreFits'
    BY <1>0, <1>5, <2>1, <2>4 DEF Bounded, RestoreFits, Restorable
  <2>6. TypeOK' /\ IncomingNext'
    BY <1>0, <1>5, <2>1 DEF TypeOK, IncomingNext
  <2>7. QED
    BY <2>2, <2>5, <2>6 DEF IInv
<1>6. ASSUME NEW included \in 1 .. BatchMax, ShortenBatch(included),
             UNCHANGED hasCurator
      PROVE  IInv'
  <2>1. /\ included \in 1 .. Len(batch) /\ cycle' = "running"
        /\ UNCHANGED <<cap, incoming, admitted, settled>>
    BY <1>6 DEF ShortenBatch, history
  <2>2. CASE included < Len(batch)
    <3>1. Restore(included)
      BY <1>6, <2>2 DEF ShortenBatch
    <3>2. QED
      BY <1>0, <1>5, <1>6, <2>1, <3>1
  <2>3. CASE ~(included < Len(batch))
    <3>1. UNCHANGED <<turns, batch, inflight>>
      BY <1>6, <2>3 DEF ShortenBatch
    <3>2. QED
      BY <1>0, <1>6, <2>1, <3>1 DEF IInv, TypeOK, Bounded, RestoreFits,
         Restorable, AdmissionOrder, IncomingNext
  <2>4. QED
    BY <2>2, <2>3
<1>7. CASE FailCycle /\ UNCHANGED hasCurator
  BY <1>0, <1>5, <1>7 DEF FailCycle, history
<1>8. CASE Release /\ UNCHANGED hasCurator
  <2>1. /\ settled' \in Seq(Turn) /\ Line' = Line
    BY <1>0, <1>8, ReleaseKeepsLine
  <2>2. /\ UNCHANGED <<turns, cap, incoming, admitted>>
        /\ batch' = <<>> /\ cycle' = "idle" /\ inflight' = 0
    BY <1>0, <1>8 DEF Release, queue
  <2>3. batch' \in Seq(Turn) /\ Len(batch') = 0
    BY <2>2
  <2>4. AdmissionOrder'
    BY <1>0, <2>1, <2>2, OrderKept
  <2>5. QED
    BY <1>0, <1>8, <2>1, <2>2, <2>3, <2>4 DEF IInv, TypeOK, Bounded,
       RestoreFits, Restorable, IncomingNext
<1>9. CASE DropAll /\ UNCHANGED hasCurator
  <2>1. /\ UNCHANGED <<cap, inflight, batch, cycle, incoming, admitted>>
        /\ turns' = <<>> /\ batch = <<>>
    BY <1>0, <1>9 DEF DropAll, flight, Bounded
  <2>2. settled' \in Seq(Turn) /\ Line' = Line
    BY <1>0, <1>9, <2>1, DropKeepsLine
  <2>3. turns' \in Seq(Turn) /\ Len(turns') = 0
    BY <2>1
  <2>4. AdmissionOrder'
    BY <1>0, <2>1, <2>2, OrderKept
  <2>5. QED
    BY <1>0, <1>9, <2>1, <2>2, <2>3, <2>4 DEF IInv, TypeOK, Bounded,
       RestoreFits, Restorable, IncomingNext
<1>10. CASE UNCHANGED vars
  <2>1. UNCHANGED <<turns, cap, batch, inflight, cycle, incoming, hasCurator,
                    admitted, settled>>
    BY <1>10 DEF vars, queue, flight, history
  <2>2. QED
    BY <1>0, <2>1 DEF IInv, TypeOK, Bounded, RestoreFits, Restorable,
       AdmissionOrder, IncomingNext
<1>11. QED
  BY <1>1, <1>2, <1>3, <1>4, <1>6, <1>7, <1>8, <1>9, <1>10 DEF Next

(* Every state the queue can reach satisfies the inductive invariant.      *)
THEOREM QueueInvariant == Spec => []IInv
BY InitInv, StepInv, PTL DEF Spec

(* Type correctness of the queue, for every limit and batch size.          *)
THEOREM TypeCorrect == Spec => []TypeOK
<1>1. IInv => TypeOK
  BY DEF IInv
<1>2. QED
  BY <1>1, QueueInvariant, PTL

(* Admission never exceeds the limit, and the in-flight counter is exactly *)
(* the batch the cycle owns (src/turn_queue.c room_for and release).       *)
THEOREM QueueBounded == Spec => []Bounded
<1>1. IInv => Bounded
  BY DEF IInv
<1>2. QED
  BY <1>1, QueueInvariant, PTL

(* A failed cycle can always put its whole batch back without growing the  *)
(* array: the checks of restore_turns in src/curator.c never fail.         *)
THEOREM RetryReserved == Spec => []RestoreFits
<1>1. IInv => RestoreFits
  BY DEF IInv
<1>2. QED
  BY <1>1, QueueInvariant, PTL

(* Turns are settled in admission order, each exactly once.                *)
THEOREM OrderPreserved == Spec => []AdmissionOrder
<1>1. IInv => AdmissionOrder
  BY DEF IInv
<1>2. QED
  BY <1>1, QueueInvariant, PTL

-----------------------------------------------------------------------------
(* The queue implements the abstract FIFO. *)

LEMMA InitFifo == Init => Fifo!Init
BY ConcatEmptySeq DEF Init, Fifo!Init

(* The owned turns of the abstract queue, in both states of a step.        *)
LEMMA StepFifo ==
    IInv /\ [Next]_vars => [Fifo!Next]_<<batch \o turns, settled>>
<1> SUFFICES ASSUME IInv, [Next]_vars
             PROVE  \/ Fifo!Next
                    \/ batch' \o turns' = batch \o turns /\ settled' = settled
  BY DEF vars
<1>0. /\ TypeOK /\ Bounded /\ Len(turns) \in Nat /\ Len(batch) \in Nat
      /\ turns \in Seq(Turn) /\ batch \in Seq(Turn) /\ settled \in Seq(Turn)
      /\ batch \o turns \in Seq(Turn)
      /\ Len(batch \o turns) = Len(batch) + Len(turns)
  BY Lengths, ConcatProperties DEF IInv, TypeOK
<1>1. CASE Enqueue
  <2>1. batch' \o turns' = Append(batch \o turns, incoming)
    BY <1>1, EnqueueExtendsLine
  <2>2. incoming \in Turn /\ settled' = settled /\ Len(batch \o turns) < Limit
    BY <1>0, <1>1 DEF Enqueue, Room, Bounded, IInv, IncomingNext
  <2>3. /\ Len(Append(batch \o turns, incoming)) = Len(batch \o turns) + 1
        /\ Append(batch \o turns, incoming)[Len(batch \o turns) + 1] = incoming
        /\ SubSeq(Append(batch \o turns, incoming), 1, Len(batch \o turns))
              = batch \o turns
    <3> DEFINE o == batch \o turns
    <3>1. o \in Seq(Turn) /\ Len(o) \in Nat
      BY <1>0
    <3>. HIDE DEF o
    <3>2. /\ Append(o, incoming) \in Seq(Turn)
          /\ Len(Append(o, incoming)) = Len(o) + 1
          /\ Append(o, incoming)[Len(o) + 1] = incoming
          /\ \A i \in 1 .. Len(o) : Append(o, incoming)[i] = o[i]
      BY <2>2, <3>1, AppendProperties
    <3>3. /\ SubSeq(Append(o, incoming), 1, Len(o)) \in Seq(Turn)
          /\ Len(SubSeq(Append(o, incoming), 1, Len(o))) = Len(o)
          /\ \A i \in 1 .. Len(o) :
                SubSeq(Append(o, incoming), 1, Len(o))[i] = Append(o, incoming)[i]
      BY <3>1, <3>2, CutSeq
    <3>4. SubSeq(Append(o, incoming), 1, Len(o)) = o
      BY <3>1, <3>2, <3>3, SeqEqual
    <3>5. QED
      BY <3>2, <3>4 DEF o
  <2>4. Fifo!Admit
    BY <2>1, <2>2, <2>3 DEF Fifo!Admit
  <2>5. QED
    BY <2>4 DEF Fifo!Next
<1>2. CASE Release
  <2>1. batch' \o turns' = turns /\ settled' = settled \o batch
    BY <1>0, <1>2, ReleaseKeepsLine DEF Release
  <2>2. CASE batch = <<>>
    BY <1>0, <2>1, <2>2, ConcatEmptySeq
  <2>3. CASE batch # <<>>
    <3>1. Len(batch) \in 1 .. Len(batch \o turns)
      BY <1>0, <2>3, EmptySeq
    <3>2. SubSeq(batch \o turns, 1, Len(batch)) = batch
      <4>1. SubSeq(batch \o turns, 1, Len(batch)) = SubSeq(batch, 1, Len(batch))
        BY <1>0, <2>3, EmptySeq, SubSeqOfConcat1
      <4>2. QED
        BY <1>0, <4>1, SubSeqFull
    <3>3. SubSeq(batch \o turns, Len(batch) + 1, Len(batch \o turns)) = turns
      <4> DEFINE rest == SubSeq(batch \o turns, Len(batch) + 1, Len(batch \o turns))
      <4>1. rest \in Seq(Turn) /\ batch \o rest = batch \o turns
        BY <1>0, <3>1, <3>2, CutSeq
      <4>. HIDE DEF rest
      <4>2. rest = turns
        BY <1>0, <4>1, ConcatSimplifications, Zenon
      <4>3. QED
        BY <4>2 DEF rest
    <3>4. Fifo!Settle(Len(batch))
      BY <2>1, <3>2, <3>3 DEF Fifo!Settle
    <3>5. QED
      BY <3>1, <3>4 DEF Fifo!Next
  <2>4. QED
    BY <2>2, <2>3
<1>3. CASE DropAll
  <2>1. batch = <<>>
    BY <1>0, <1>3 DEF DropAll, Bounded
  <2>2. /\ batch \o turns = turns /\ batch' \o turns' = <<>>
        /\ settled' = settled \o turns
    BY <1>0, <1>3, <2>1, DropKeepsLine DEF DropAll
  <2>3. CASE turns = <<>>
    BY <1>0, <2>2, <2>3, ConcatEmptySeq
  <2>4. CASE turns # <<>>
    <3>1. Len(turns) \in 1 .. Len(turns)
      BY <1>0, <2>4, EmptySeq
    <3>2. SubSeq(turns, 1, Len(turns)) = turns
      BY <1>0, SubSeqFull
    <3>3. SubSeq(turns, Len(turns) + 1, Len(turns)) = <<>>
      BY <1>0, SubSeqEmpty
    <3>4. Fifo!Settle(Len(turns))
      BY <2>2, <3>2, <3>3 DEF Fifo!Settle
    <3>5. QED
      BY <2>2, <3>1, <3>4 DEF Fifo!Next
  <2>5. QED
    BY <2>3, <2>4
<1>4. ASSUME NEW force \in BOOLEAN, TakeTurns(force)
      PROVE  batch' \o turns' = batch \o turns /\ settled' = settled
  <2>1. PICK n \in 1 .. MostTurns(force) : Take(n)
    BY <1>4 DEF TakeTurns
  <2>2. n \in 0 .. Len(turns)
    BY <1>0, QueueAssumption DEF MostTurns, Smaller
  <2>3. batch = <<>> /\ settled' = settled
    BY <1>0, <1>4 DEF TakeTurns, Bounded, history
  <2>4. QED
    BY <1>0, <2>1, <2>2, <2>3, TakeKeepsLine
<1>5. ASSUME NEW keep \in 0 .. Len(batch), Restore(keep)
      PROVE  batch' \o turns' = batch \o turns
  BY <1>0, <1>5, RestoreKeepsLine
<1>6. ASSUME NEW included \in 1 .. BatchMax, ShortenBatch(included)
      PROVE  batch' \o turns' = batch \o turns /\ settled' = settled
  <2>1. included \in 1 .. Len(batch) /\ settled' = settled
    BY <1>6 DEF ShortenBatch, history
  <2>2. CASE included < Len(batch)
    <3>1. Restore(included) /\ included \in 0 .. Len(batch)
      BY <1>0, <1>6, <2>1, <2>2 DEF ShortenBatch
    <3>2. QED
      BY <1>5, <2>1, <3>1, Zenon
  <2>3. CASE ~(included < Len(batch))
    BY <1>6, <2>1, <2>3 DEF ShortenBatch
  <2>4. QED
    BY <2>2, <2>3
<1>7. CASE FailCycle
  BY <1>0, <1>5, <1>7 DEF FailCycle, history
<1>8. ASSUME NEW s \in Scope, NEW b \in Bytes, CheckRoom(s, b)
      PROVE  batch' \o turns' = batch \o turns /\ settled' = settled
  BY <1>8 DEF CheckRoom, queue, flight, history
<1>9. CASE EnqueueFails
  BY <1>9 DEF EnqueueFails, queue, flight, history
<1>10. CASE UNCHANGED vars
  BY <1>10 DEF vars, queue, flight, history
<1>11. QED
  BY <1>1, <1>2, <1>3, <1>4, <1>6, <1>7, <1>8, <1>9, <1>10 DEF Next

(* Taking, shortening and restoring batches is invisible: TurnQueue        *)
(* implements the first-in first-out queue of FifoQueue.                   *)
THEOREM ImplementsFifo == Spec => FifoSpec
<1>1. IInv /\ [Next]_vars => [Fifo!Next]_<<batch \o turns, settled>>
  BY StepFifo
<1>2. QED
  BY <1>1, InitFifo, QueueInvariant, PTL DEF Spec, FifoSpec, Fifo!Spec

-----------------------------------------------------------------------------
(* The two byte counters. *)

(* A set of numbers that is not empty has a least one. *)
LEMMA LeastNatural ==
    ASSUME NEW T \in SUBSET Nat, T # {}
    PROVE  \E m \in T : \A n \in T : m <= n
<1>1. IsWellFoundedOn(OpToRel(<,Nat), Nat)
  BY NatLessThanWellFounded
<1>2. PICK m \in T : \A n \in T : <<n, m>> \notin OpToRel(<,Nat)
  BY <1>1, WFMin, Zenon
<1>3. \A n \in T : n \in Nat /\ m \in Nat /\ ~(n < m)
  BY <1>2 DEF OpToRel
<1> QED
  BY <1>3

(* A set that has 0 and, with each number up to N, the next has them all. *)
LEMMA UpTo ==
    ASSUME NEW N \in Nat, NEW S, 0 \in S, \A n \in 1 .. N : n - 1 \in S => n \in S
    PROVE  \A n \in 0 .. N : n \in S
<1> DEFINE T == {n \in 0 .. N : n \notin S}
<1> SUFFICES ASSUME T # {} PROVE FALSE
  OBVIOUS
<1>1. PICK m \in T : \A n \in T : m <= n
  <2>1. T \in SUBSET Nat
    OBVIOUS
  <2> HIDE DEF T
  <2> QED
    BY <2>1, LeastNatural
<1>2. m # 0 /\ m \in 1 .. N /\ m - 1 \in 0 .. N /\ m - 1 < m
  BY <1>1
<1> QED
  BY <1>1, <1>2

LEMMA TurnBytes == \A t \in Turn : t.bytes \in Nat
<1>1. \A b \in Bytes : b \in Nat
  BY QueueAssumption
<1>2. \A t \in Turn : t.bytes \in Bytes
  BY DEF Turn
<1> QED
  BY <1>1, <1>2

(* The running sums of a sequence of turns, from nothing to SizeOf. *)
Sums(s) == {f \in [0 .. Len(s) -> Nat] :
                /\ f[0] = 0
                /\ \A n \in 1 .. Len(s) : f[n] = f[n - 1] + s[n].bytes}

LEMMA SizeSum ==
    ASSUME NEW s \in Seq(Turn)
    PROVE  \E f \in Sums(s) : SizeOf(s) = f[Len(s)]
<1> DEFINE N == Len(s)
           G(g, k) == g \in [0 .. k -> Nat] /\ g[0] = 0 /\ \A n \in 1 .. k : g[n] = g[n - 1] + s[n].bytes
<1>1. N \in Nat /\ \A n \in 1 .. N : s[n].bytes \in Nat
  <2>1. \A n \in 1 .. N : s[n] \in Turn
    BY ElementOfSeq
  <2> QED
    BY <2>1, LenProperties, TurnBytes
<1>2. \A k \in 0 .. N : \E g : G(g, k)
  <2> DEFINE S == {k \in 0 .. N : \E g : G(g, k)}
  <2>1. 0 \in S
    <3>1. G([n \in 0 .. 0 |-> 0], 0)
      OBVIOUS
    <3> HIDE DEF G
    <3> QED
      BY <1>1, <3>1
  <2>2. ASSUME NEW k \in 1 .. N, k - 1 \in S PROVE k \in S
    <3>1. PICK g : G(g, k - 1)
      BY <2>2
    <3> DEFINE h == [n \in 0 .. k |-> IF n = k THEN g[k - 1] + s[k].bytes ELSE g[n]]
    <3>2. h \in [0 .. k -> Nat] /\ h[0] = 0
      BY <1>1, <3>1
    <3>3. ASSUME NEW n \in 1 .. k PROVE h[n] = h[n - 1] + s[n].bytes
      <4>1. /\ k \in Nat /\ n \in Nat /\ n - 1 \in 0 .. k - 1 /\ n \in 0 .. k
            /\ n - 1 # k /\ n - 1 \in 0 .. k /\ (n # k => n \in 1 .. k - 1)
        BY <1>1
      <4>2. /\ h[n - 1] = g[n - 1]
            /\ h[n] = IF n = k THEN g[k - 1] + s[k].bytes ELSE g[n]
        BY <4>1
      <4> HIDE DEF h
      <4> QED
        BY <3>1, <4>1, <4>2
    <3>4. G(h, k)
      BY <3>2, <3>3
    <3> HIDE DEF G, h
    <3> QED
      BY <3>4
  <2> HIDE DEF S
  <2>3. \A k \in 0 .. N : k \in S
    BY <1>1, <2>1, <2>2, UpTo, Zenon
  <2> QED
    BY <2>3 DEF S
<1>3. PICK g : G(g, N)
  <2> HIDE DEF G
  <2>1. N \in 0 .. N
    BY <1>1
  <2> QED
    BY <1>2, <2>1
<1> DEFINE E(f) == [i \in 0 .. N |-> IF i = 0 THEN 0 ELSE f[i - 1] + s[i].bytes]
<1>4. g = E(g)
  <2>1. \A n \in 0 .. N : n # 0 => n \in 1 .. N
    BY <1>1
  <2>2. \A n \in 0 .. N : g[n] = IF n = 0 THEN 0 ELSE g[n - 1] + s[n].bytes
    BY <1>3, <2>1, Zenon
  <2>3. g = [n \in 0 .. N |-> g[n]]
    BY <1>3
  <2> QED
    BY <2>2, <2>3, Zenon
<1> DEFINE f == CHOOSE x : x = E(x)
<1>5. f = E(f)
  BY <1>4, Zenon
<1>6. SizeOf(s) = f[N]
  BY Zenon DEF SizeOf
<1> HIDE DEF f
<1>7. ASSUME NEW n \in 1 .. N PROVE f[n] = f[n - 1] + s[n].bytes
  <2>1. n \in 0 .. N /\ n # 0
    BY <1>1
  <2>2. E(f)[n] = f[n - 1] + s[n].bytes
    BY <2>1, Zenon
  <2> QED
    BY <1>5, <2>2, Zenon
<1>8. \A n \in 0 .. N : n \in {k \in 0 .. N : f[k] \in Nat}
  <2> DEFINE S == {k \in 0 .. N : f[k] \in Nat}
  <2>1. 0 \in S
    BY <1>1, <1>5
  <2>2. ASSUME NEW n \in 1 .. N, n - 1 \in S PROVE n \in S
    BY <1>1, <1>7, <2>2
  <2> HIDE DEF S
  <2>3. \A n \in 0 .. N : n \in S
    BY <1>1, <2>1, <2>2, UpTo, Zenon
  <2> QED
    BY <2>3 DEF S
<1>9. f \in [0 .. N -> Nat] /\ f[0] = 0
  <2>1. 0 \in 0 .. N
    BY <1>1
  <2>2. f[0] = 0
    BY <1>5, <2>1
  <2>3. f = [n \in 0 .. N |-> f[n]]
    BY <1>5
  <2>4. \A n \in 0 .. N : f[n] \in Nat
    BY <1>8
  <2> QED
    BY <2>2, <2>3, <2>4
<1> QED
  BY <1>6, <1>7, <1>9 DEF Sums

LEMMA SizeEmpty == SizeOf(<<>>) = 0
<1>1. <<>> \in Seq(Turn) /\ Len(<<>>) = 0
  OBVIOUS
<1>2. PICK f \in Sums(<<>>) : SizeOf(<<>>) = f[Len(<<>>)]
  BY <1>1, SizeSum
<1> QED
  BY <1>1, <1>2 DEF Sums

(* What a sequence and its continuation hold adds up. *)
LEMMA SizeConcat ==
    ASSUME NEW s \in Seq(Turn), NEW t \in Seq(Turn)
    PROVE  /\ SizeOf(s) \in Nat /\ SizeOf(t) \in Nat
           /\ SizeOf(s \o t) = SizeOf(s) + SizeOf(t)
<1> DEFINE u == s \o t  M == Len(s)  N == Len(t)
<1>1. /\ u \in Seq(Turn) /\ Len(u) = M + N /\ M \in Nat /\ N \in Nat
      /\ \A i \in 1 .. M + N : u[i] = IF i <= M THEN s[i] ELSE t[i - M]
  BY ConcatProperties, LenProperties
<1> HIDE DEF u
<1>2. PICK f \in Sums(s) : SizeOf(s) = f[Len(s)]
  BY SizeSum
<1>3. PICK g \in Sums(t) : SizeOf(t) = g[Len(t)]
  BY SizeSum
<1>4. PICK h \in Sums(u) : SizeOf(u) = h[Len(u)]
  BY <1>1, SizeSum
<1> HIDE DEF M, N
<1>5. /\ f \in [0 .. M -> Nat] /\ f[0] = 0 /\ \A n \in 1 .. M : f[n] = f[n - 1] + s[n].bytes
      /\ g \in [0 .. N -> Nat] /\ g[0] = 0 /\ \A n \in 1 .. N : g[n] = g[n - 1] + t[n].bytes
      /\ h \in [0 .. M + N -> Nat] /\ h[0] = 0
      /\ \A n \in 1 .. M + N : h[n] = h[n - 1] + u[n].bytes
  BY <1>1 DEF Sums, M, N
<1>6. h[M] = f[M]
  <2> DEFINE S == {n \in 0 .. M : h[n] = f[n]}
  <2>1. 0 \in S
    BY <1>1, <1>5
  <2>2. ASSUME NEW n \in 1 .. M, n - 1 \in S PROVE n \in S
    <3>1. n \in 1 .. M + N /\ n <= M /\ n \in 0 .. M
      BY <1>1
    <3> QED
      BY <1>1, <1>5, <2>2, <3>1
  <2> HIDE DEF S
  <2>3. \A n \in 0 .. M : n \in S
    BY <1>1, <2>1, <2>2, UpTo, Zenon
  <2> QED
    BY <1>1, <2>3 DEF S
<1>7. h[M + N] = f[M] + g[N]
  <2> DEFINE S == {n \in 0 .. N : h[M + n] = f[M] + g[n]}
  <2>1. 0 \in S
    BY <1>1, <1>5, <1>6
  <2>2. ASSUME NEW n \in 1 .. N, n - 1 \in S PROVE n \in S
    <3>1. /\ M + n \in 1 .. M + N /\ ~(M + n <= M) /\ (M + n) - M = n /\ n \in 0 .. N
          /\ (M + n) - 1 = M + (n - 1) /\ n - 1 \in 0 .. N
      BY <1>1
    <3>2. u[M + n] = t[n]
      BY <1>1, <3>1
    <3>3. h[M + n] = h[M + (n - 1)] + t[n].bytes
      BY <1>5, <3>1, <3>2
    <3>4. h[M + (n - 1)] = f[M] + g[n - 1] /\ g[n] = g[n - 1] + t[n].bytes
      BY <1>5, <2>2
    <3>5. t[n].bytes \in Nat /\ f[M] \in Nat /\ g[n - 1] \in Nat
      <4>1. t[n] \in Turn
        BY ElementOfSeq DEF N
      <4>2. t[n].bytes \in Nat
        BY <4>1, TurnBytes, Zenon
      <4>3. M \in 0 .. M /\ n - 1 \in 0 .. N
        BY <1>1, <3>1
      <4>4. f[M] \in Nat
        BY <1>5, <4>3
      <4>5. g[n - 1] \in Nat
        BY <1>5, <4>3
      <4> QED
        BY <4>2, <4>4, <4>5
    <3> QED
      BY <3>1, <3>3, <3>4, <3>5
  <2> HIDE DEF S
  <2>3. \A n \in 0 .. N : n \in S
    BY <1>1, <2>1, <2>2, UpTo, Zenon
  <2> QED
    BY <1>1, <2>3 DEF S
<1>8. f[M] \in Nat /\ g[N] \in Nat
  BY <1>1, <1>5
<1> QED
  BY <1>1, <1>2, <1>3, <1>4, <1>7, <1>8 DEF u, M, N

LEMMA SizeAppend ==
    ASSUME NEW s \in Seq(Turn), NEW t \in Turn
    PROVE  SizeOf(Append(s, t)) = SizeOf(s) + t.bytes
<1>1. /\ <<t>> \in Seq(Turn) /\ Len(<<t>>) = 1 /\ <<t>>[1] = t
      /\ Append(s, t) = s \o <<t>>
  BY AppendIsConcat
<1>2. PICK f \in Sums(<<t>>) : SizeOf(<<t>>) = f[Len(<<t>>)]
  BY <1>1, SizeSum
<1>3. 1 \in 1 .. Len(<<t>>) /\ f[1] = f[1 - 1] + <<t>>[1].bytes /\ f[0] = 0
  BY <1>1, <1>2 DEF Sums
<1>4. SizeOf(<<t>>) = t.bytes
  BY <1>1, <1>2, <1>3, TurnBytes
<1> QED
  BY <1>1, <1>4, SizeConcat

(* A batch that goes back, in whole or in part, takes its bytes along.     *)
LEMMA RestoreMovesBytes ==
    ASSUME TypeOK, BytesExact, NEW keep \in 0 .. Len(batch), Restore(keep)
    PROVE  BytesExact'
<1> DEFINE back == SubSeq(batch, keep + 1, Len(batch))
           front == SubSeq(batch, 1, keep)
<1>1. /\ front \in Seq(Turn) /\ back \in Seq(Turn) /\ turns \in Seq(Turn)
      /\ front \o back = batch
  BY CutSeq DEF TypeOK
<1>2. /\ batch' = front /\ turns' = back \o turns
      /\ turnsBytes' = turnsBytes + SizeOf(back)
      /\ inflightBytes' = inflightBytes - SizeOf(back)
  BY DEF Restore
<1> HIDE DEF front, back
<1>3. /\ SizeOf(front) \in Nat /\ SizeOf(back) \in Nat /\ SizeOf(turns) \in Nat
      /\ SizeOf(batch) = SizeOf(front) + SizeOf(back)
      /\ SizeOf(back \o turns) = SizeOf(back) + SizeOf(turns)
  BY <1>1, SizeConcat
<1>4. /\ turnsBytes = SizeOf(turns) /\ inflightBytes = SizeOf(batch)
      /\ turnsBytes + inflightBytes <= QueueBytes /\ QueueBytes \in Nat
  BY QueueAssumption DEF BytesExact
<1>5. /\ turnsBytes' = SizeOf(turns') /\ inflightBytes' = SizeOf(batch')
      /\ turnsBytes' + inflightBytes' <= QueueBytes
  BY <1>2, <1>3, <1>4
<1> QED
  BY <1>5 DEF BytesExact

LEMMA TakeMovesBytes ==
    ASSUME TypeOK, BytesExact, batch = <<>>, NEW n \in 0 .. Len(turns), Take(n)
    PROVE  BytesExact'
<1> DEFINE rest == SubSeq(turns, n + 1, Len(turns))
           head == SubSeq(turns, 1, n)
<1>1. head \in Seq(Turn) /\ rest \in Seq(Turn) /\ head \o rest = turns
  BY CutSeq DEF TypeOK
<1>2. /\ batch' = head /\ turns' = rest
      /\ turnsBytes' = turnsBytes - SizeOf(head)
      /\ inflightBytes' = inflightBytes + SizeOf(head)
  BY DEF Take
<1> HIDE DEF head, rest
<1>3. /\ SizeOf(head) \in Nat /\ SizeOf(rest) \in Nat
      /\ SizeOf(turns) = SizeOf(head) + SizeOf(rest)
  BY <1>1, SizeConcat
<1>4. /\ turnsBytes = SizeOf(turns) /\ inflightBytes = 0
      /\ turnsBytes + inflightBytes <= QueueBytes /\ QueueBytes \in Nat
  BY QueueAssumption, SizeEmpty DEF BytesExact
<1>5. /\ turnsBytes' = SizeOf(turns') /\ inflightBytes' = SizeOf(batch')
      /\ turnsBytes' + inflightBytes' <= QueueBytes
  BY <1>2, <1>3, <1>4
<1> QED
  BY <1>5 DEF BytesExact

LEMMA BytesStep == IInv /\ BytesExact /\ [Next]_vars => BytesExact'
<1> SUFFICES ASSUME IInv, BytesExact, [Next]_vars PROVE BytesExact'
  OBVIOUS
<1>0. /\ TypeOK /\ Bounded /\ IncomingNext
      /\ turns \in Seq(Turn) /\ batch \in Seq(Turn)
      /\ SizeOf(turns) \in Nat /\ SizeOf(batch) \in Nat /\ QueueBytes \in Nat
      /\ turnsBytes = SizeOf(turns) /\ inflightBytes = SizeOf(batch)
      /\ turnsBytes + inflightBytes <= QueueBytes
      /\ Len(turns) \in Nat /\ Len(batch) \in Nat
  BY SizeConcat, QueueAssumption, Lengths DEF IInv, TypeOK, BytesExact
<1>1. ASSUME UNCHANGED <<turns, turnsBytes, inflightBytes, batch>>
      PROVE  BytesExact'
  BY <1>1 DEF BytesExact
<1>2. ASSUME NEW s \in Scope, NEW b \in Bytes, CheckRoom(s, b)
      PROVE  BytesExact'
  BY <1>1, <1>2 DEF CheckRoom, queue, flight
<1>3. CASE Enqueue
  <2>1. /\ incoming \in Turn
        /\ incoming.bytes <= QueueBytes - turnsBytes - inflightBytes
        /\ turns' = Append(turns, incoming)
        /\ turnsBytes' = turnsBytes + incoming.bytes
        /\ batch' = batch /\ inflightBytes' = inflightBytes
    BY <1>0, <1>3 DEF Enqueue, Room, IncomingNext, flight
  <2>2. /\ SizeOf(Append(turns, incoming)) = SizeOf(turns) + incoming.bytes
        /\ incoming.bytes \in Nat
    BY <1>0, <2>1, SizeAppend, TurnBytes
  <2>3. /\ turnsBytes' = SizeOf(turns') /\ inflightBytes' = SizeOf(batch')
        /\ turnsBytes' + inflightBytes' <= QueueBytes
    BY <1>0, <2>1, <2>2
  <2> QED
    BY <2>3 DEF BytesExact
<1>4. CASE EnqueueFails
  BY <1>1, <1>4 DEF EnqueueFails, queue, flight
<1>5. ASSUME NEW force \in BOOLEAN, TakeTurns(force)
      PROVE  BytesExact'
  <2>1. PICK n \in 1 .. MostTurns(force) : Take(n)
    BY <1>5 DEF TakeTurns
  <2>2. n \in 0 .. Len(turns) /\ batch = <<>>
    BY <1>0, <1>5, QueueAssumption DEF MostTurns, Smaller, TakeTurns, Bounded
  <2> QED
    BY <1>0, <2>1, <2>2, TakeMovesBytes
<1>6. ASSUME NEW included \in 1 .. BatchMax, ShortenBatch(included)
      PROVE  BytesExact'
  <2>1. CASE included < Len(batch)
    <3>1. Restore(included) /\ included \in 0 .. Len(batch)
      BY <1>0, <1>6, <2>1 DEF ShortenBatch
    <3> QED
      BY <1>0, <3>1, RestoreMovesBytes
  <2>2. CASE ~(included < Len(batch))
    BY <1>1, <1>6, <2>2 DEF ShortenBatch
  <2> QED
    BY <2>1, <2>2
<1>7. CASE FailCycle
  BY <1>0, <1>7, RestoreMovesBytes DEF FailCycle
<1>8. CASE Release
  <2>1. /\ turns' = turns /\ turnsBytes' = turnsBytes /\ batch' = <<>>
        /\ inflightBytes' = inflightBytes - SizeOf(batch)
    BY <1>8 DEF Release, queue
  <2>2. /\ turnsBytes' = SizeOf(turns') /\ inflightBytes' = SizeOf(batch')
        /\ turnsBytes' + inflightBytes' <= QueueBytes
    BY <1>0, <2>1, SizeEmpty
  <2> QED
    BY <2>2 DEF BytesExact
<1>9. CASE DropAll
  <2>1. /\ batch' = batch /\ inflightBytes' = inflightBytes
        /\ turns' = <<>> /\ turnsBytes' = 0
    BY <1>9 DEF DropAll, flight
  <2>2. /\ turnsBytes' = SizeOf(turns') /\ inflightBytes' = SizeOf(batch')
        /\ turnsBytes' + inflightBytes' <= QueueBytes
    BY <1>0, <2>1, SizeEmpty
  <2> QED
    BY <2>2 DEF BytesExact
<1>10. CASE UNCHANGED vars
  BY <1>1, <1>10 DEF vars, queue, flight
<1>11. QED
  BY <1>2, <1>3, <1>4, <1>5, <1>6, <1>7, <1>8, <1>9, <1>10 DEF Next

(* The byte counters are exactly the texts queued and in flight, so the    *)
(* unsigned subtraction of room_for (src/turn_queue.c) never wraps.        *)
THEOREM BytesAccounted == Spec => []BytesExact
<1>1. Init => BytesExact
  BY SizeEmpty, QueueAssumption DEF Init, BytesExact
<1>2. IInv /\ BytesExact /\ [Next]_vars => BytesExact'
  BY BytesStep
<1>3. QED
  BY <1>1, <1>2, QueueInvariant, PTL DEF Spec
=============================================================================
