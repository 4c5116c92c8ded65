----------------------------- MODULE ThreadProofs -----------------------------
(***************************************************************************)
(* For any number of host threads and any limits: one generation at a time *)
(* and no lost wake-up.  The argument: the flag cycle_busy says whether    *)
(* there is a holder, whoever lets the slot go broadcasts, and a worker    *)
(* that sleeps while the slot is free went to sleep with nothing due and   *)
(* with a timer for whatever may become due by itself.  At the end, the    *)
(* locks: no circle of threads waits for one another, as a lock is only    *)
(* asked for by a thread whose locks all rank lower.                       *)
(***************************************************************************)
EXTENDS CycleSlot, LockOrder, FiniteSetTheorems, TLAPS

CallPc == {"idle", "parked", "awake", "generate", "drain", "cycle", "review", "tail"}
WorkerPc == {"check", "cycle", "review", "compact", "compactFailed", "backoff", "asleep",
             "joined"}

CallState == [op : {"none", "recall", "flush"}, pc : CallPc,
              result : {"ok", "timeout", "failed", "busy"}]
JobState == [owner : Client \cup {None, Worker},
             pc : {"none", "start", "generate", "receipt", "empty", "ok", "failed"}]

SlotTypeOK ==
    /\ busy \in BOOLEAN
    /\ call \in [Client -> CallState]
    /\ job \in JobState
    /\ wpc \in WorkerPc

\* The slot has a holder exactly while it is busy, and no second one.
OneHolder ==
    /\ busy => \E h \in Client \cup {Worker} : Holders = {h}
    /\ ~busy => Holders = {}

\* A cycle under way is its owner's, and its owner is in it.
JobOwned ==
    /\ job.owner = None => job.pc = "none"
    /\ job.owner = Worker => wpc = "cycle"
    /\ job.owner \in Client => call[job.owner].pc = "cycle"

Counted == waiting = Cardinality(Waiters)

NobodyParked == ~busy => Parked = {}

\* Asleep beside a free slot: nothing is due that is not timed.
SleepsWell ==
    wpc = "asleep" /\ CanWork =>
        /\ ~BatchDue
        /\ turns > 0 /\ IdleFlush => "idle" \in timed
        /\ Maintenance => "review" \in timed

SlotInv == SlotTypeOK /\ OneHolder /\ JobOwned /\ Counted /\ NobodyParked /\ SleepsWell

\* There are finitely many waiters to count.
LEMMA WaitersFinite == IsFiniteSet(Waiters)
  BY FS_Subset, SlotAssumption DEF Waiters

\* A client's call keeps its type when it moves on, when it ends with a result,
\* and when a broadcast wakes it.
LEMMA CallsTyped ==
    ASSUME NEW f \in [Client -> CallState], NEW c \in Client
    PROVE  /\ \A p \in CallPc : [f EXCEPT ![c].pc = p] \in [Client -> CallState]
           /\ \A p \in CallPc, r \in {"ok", "timeout", "failed", "busy"} :
                 [f EXCEPT ![c].pc = p, ![c].result = r] \in [Client -> CallState]
           /\ \A x \in CallState : [f EXCEPT ![c] = x] \in [Client -> CallState]
<1>1. \A x \in CallState : [f EXCEPT ![c] = x] \in [Client -> CallState]
  OBVIOUS
<1>2. \A p \in CallPc : [f[c] EXCEPT !.pc = p] \in CallState
  BY DEF CallState
<1>3. \A p \in CallPc, r \in {"ok", "timeout", "failed", "busy"} :
        [f[c] EXCEPT !.pc = p, !.result = r] \in CallState
  BY DEF CallState
<1> QED
  BY <1>1, <1>2, <1>3

\* A broadcast leaves well-typed calls.
LEMMA AwokenTyped == SlotTypeOK => Awoken \in [Client -> CallState]
<1> SUFFICES ASSUME SlotTypeOK, NEW c \in Client
             PROVE  (IF c \in Parked THEN [call[c] EXCEPT !.pc = "awake"] ELSE call[c])
                       \in CallState
  BY DEF Awoken
<1>1. [call[c] EXCEPT !.pc = "awake"] \in CallState
  BY DEF SlotTypeOK, CallState, CallPc
<1> QED
  BY <1>1 DEF SlotTypeOK

\* A context that has just been opened: nobody holds, waits or sleeps.
LEMMA SlotInvInit == Init => SlotInv
<1> SUFFICES ASSUME Init PROVE SlotInv
  OBVIOUS
<1> USE SlotAssumption DEF Init, NoJob, NoCall
<1>1. SlotTypeOK
  BY DEF SlotTypeOK, CallState, JobState, CallPc, WorkerPc
<1>2. Holders = {} /\ Waiters = {} /\ Parked = {}
  BY DEF Holders, Waiters, Parked
<1>3. OneHolder /\ JobOwned /\ NobodyParked /\ SleepsWell
  BY <1>2 DEF OneHolder, JobOwned, NobodyParked, SleepsWell
<1>4. Counted
  BY <1>2, FS_EmptySet DEF Counted
<1> QED
  BY <1>1, <1>3, <1>4 DEF SlotInv

\* Most steps leave holders and waiters alone: the worker moves between states in
\* which it does not hold the slot, or a cycle moves on.  Only its sleep is left
\* to be looked at.
LEMMA Aside ==
    ASSUME SlotInv, UNCHANGED <<busy, waiting, call>>,
           wpc' \in WorkerPc, wpc' # wpc => {wpc, wpc'} \cap {"cycle", "review"} = {},
           job' \in JobState, job'.owner = job.owner, job.owner = None => job' = job,
           SleepsWell'
    PROVE  SlotInv'
<1> USE DEF SlotInv
<1>1. Holders' = Holders /\ Waiters' = Waiters /\ Parked' = Parked
  BY DEF Holders, Waiters, Parked
<1>2. SlotTypeOK' /\ OneHolder' /\ Counted' /\ NobodyParked'
  BY <1>1 DEF SlotTypeOK, OneHolder, Counted, NobodyParked
<1>3. JobOwned'
  BY DEF JobOwned, SlotTypeOK, JobState, WorkerPc
<1> QED
  BY <1>1, <1>2, <1>3

\* While the slot is taken, or somebody waits for it, the worker may sleep.
LEMMA MaySleep == busy' \/ wpc' # "asleep" \/ (waiting' # 0) => SleepsWell'
  BY DEF SleepsWell, CanWork

\* Time passes, a host appends an event, the worker wakes, sleeps, compacts or
\* exits, the context is closed.
LEMMA AsideSteps ==
    ASSUME SlotInv, Timer \/ Event \/ Stop \/ WorkerCompacted \/ WorkerSleeps \/ WorkerExits
    PROVE  SlotInv'
<1> USE DEF SlotInv, SlotTypeOK, slot, demand, worker, clients, WorkerPc
<1>1. CASE IdlePasses
  <2>1. SleepsWell'
    BY <1>1 DEF IdlePasses, SleepsWell, CanWork, BatchDue, Backlog
  <2> QED
    BY <1>1, <2>1, Aside DEF IdlePasses
<1>2. CASE IntervalPasses
  <2>1. SleepsWell'
    BY <1>2 DEF IntervalPasses, SleepsWell, CanWork, BatchDue, Backlog
  <2> QED
    BY <1>2, <2>1, Aside DEF IntervalPasses
<1>3. CASE WorkerTimeout
  <2>1. SleepsWell'
    BY <1>3 DEF WorkerTimeout, SleepsWell
  <2> QED
    BY <1>3, <2>1, Aside DEF WorkerTimeout
<1>4. CASE BackoffEnds
  <2>1. SleepsWell'
    BY <1>4 DEF BackoffEnds, SleepsWell
  <2> QED
    BY <1>4, <2>1, Aside DEF BackoffEnds
<1>5. CASE Event
  <2>1. SleepsWell'
    BY <1>5 DEF Event, WakeWorker, Woken, SleepsWell
  <2> QED
    BY <1>5, <2>1, Aside DEF Event, WakeWorker, Woken
<1>6. CASE Stop
  <2>1. SleepsWell'
    BY <1>6 DEF Stop, Woken, SleepsWell
  <2> QED
    BY <1>6, <2>1, Aside DEF Stop, Woken
<1>7. CASE WorkerCompacted
  <2>1. SleepsWell'
    BY <1>7 DEF WorkerCompacted, AfterFailure, SleepsWell
  <2> QED
    BY <1>7, <2>1, Aside DEF WorkerCompacted, AfterFailure
<1>8. CASE WorkerSleeps
  <2>1. SleepsWell'
    BY <1>8 DEF WorkerSleeps, SleepsWell, CanWork, BatchDue, IdleDue, ReviewDue, Deadlines, Backlog
  <2> QED
    BY <1>8, <2>1, Aside DEF WorkerSleeps
<1>9. CASE WorkerExits
  <2>1. SleepsWell'
    BY <1>9 DEF WorkerExits, SleepsWell
  <2> QED
    BY <1>9, <2>1, Aside DEF WorkerExits
<1> QED
  BY <1>1, <1>2, <1>3, <1>4, <1>5, <1>6, <1>7, <1>8, <1>9 DEF Timer

\* A cycle that is under way holds the slot.
LEMMA JobBusy == SlotInv /\ job.pc # "none" => busy /\ job.owner # None
<1> SUFFICES ASSUME SlotInv, job.pc # "none" PROVE busy /\ job.owner # None
  OBVIOUS
<1>1. job.owner # None /\ job.owner \in Holders
  BY DEF SlotInv, SlotTypeOK, JobState, JobOwned, Holders
<1> QED
  BY <1>1 DEF SlotInv, SlotTypeOK, OneHolder

\* A cycle that moves on, and at most wakes the worker, disturbs nothing.
LEMMA CycleSteps == SlotInv /\ CycleStep => SlotInv'
<1> SUFFICES ASSUME SlotInv, CycleStep PROVE SlotInv'
  OBVIOUS
<1>1. /\ job.pc # "none" /\ UNCHANGED <<busy, waiting, call>>
      /\ job'.owner = job.owner /\ job' \in JobState
      /\ wpc' = wpc \/ wpc' = Woken
  BY DEF CycleStep, TakeBatch, TakeNothing, GenerationFails, BeginReceipt, FinishReceipt,
         SlotInv, SlotTypeOK, JobState, slot, clients, worker, WakeWorker
<1>2. busy' /\ job.owner # None
  BY <1>1, JobBusy
<1>3. wpc' \in WorkerPc /\ (wpc' # wpc => {wpc, wpc'} \cap {"cycle", "review"} = {})
  BY <1>1 DEF SlotInv, SlotTypeOK, WorkerPc, Woken
<1> QED
  BY <1>1, <1>2, <1>3, MaySleep, Aside

\* The worker takes the slot for a cycle or a review, and lets it go.
LEMMA WorkerHolds ==
    ASSUME SlotInv, WorkerCycle \/ WorkerReview
    PROVE  SlotInv'
<1>1. /\ ~busy /\ busy' /\ UNCHANGED <<waiting, call>> /\ wpc' \in {"cycle", "review"}
      /\ wpc = "check" /\ (job' = job \/ job' = [owner |-> Worker, pc |-> "start"])
      /\ job' # job => wpc' = "cycle"
  BY DEF WorkerCycle, WorkerReview, CanWork, clients
<1>2. Holders = {} /\ job.owner = None
  BY <1>1, SlotAssumption DEF SlotInv, OneHolder, JobOwned, Holders, SlotTypeOK, JobState
<1>3. Holders' = {Worker} /\ Waiters' = Waiters
  BY <1>1, <1>2 DEF Holders, Waiters
<1>4. SlotTypeOK'
  BY <1>1 DEF SlotInv, SlotTypeOK, JobState, WorkerPc
<1>5. JobOwned'
  BY <1>1, <1>2, SlotAssumption DEF SlotInv, JobOwned
<1> QED
  BY <1>1, <1>3, <1>4, <1>5, MaySleep DEF SlotInv, OneHolder, Counted, NobodyParked

\* Whatever is broadcast, the waiters stay waiters, and nobody sleeps any more.
LEMMA BroadcastWakes ==
    ASSUME SlotTypeOK
    PROVE  /\ \A c \in Client : Awoken[c].pc \in {"parked", "awake"}
                                    <=> call[c].pc \in {"parked", "awake"}
           /\ \A c \in Client : Awoken[c].pc # "parked"
           /\ \A c \in Client : call[c].pc \notin {"parked"} => Awoken[c] = call[c]
<1> SUFFICES ASSUME NEW c \in Client
             PROVE  /\ Awoken[c].pc \in {"parked", "awake"}
                           <=> call[c].pc \in {"parked", "awake"}
                    /\ Awoken[c].pc # "parked"
                    /\ call[c].pc \notin {"parked"} => Awoken[c] = call[c]
  OBVIOUS
<1>1. CASE call[c].pc = "parked"
  <2>1. Awoken[c] = [call[c] EXCEPT !.pc = "awake"]
    BY <1>1 DEF Awoken, Parked
  <2>2. Awoken[c].pc = "awake"
    BY <2>1 DEF SlotTypeOK, CallState
  <2> QED
    BY <1>1, <2>2
<1>2. CASE call[c].pc # "parked"
  BY <1>2 DEF Awoken, Parked
<1> QED
  BY <1>1, <1>2

\* The worker ends a cycle or a review: done_cv is broadcast, so nobody is parked
\* beside the slot it frees.
LEMMA WorkerLetsGo ==
    ASSUME SlotInv, WorkerCycleEnds \/ WorkerReviewEnds
    PROVE  SlotInv'
<1>1. /\ busy' = FALSE /\ call' = Awoken /\ waiting' = waiting
      /\ wpc \in {"cycle", "review"}
      /\ wpc' \in {"check", "compact", "compactFailed", "backoff"}
  BY DEF WorkerCycleEnds, WorkerReviewEnds, Done, AfterFailure
<1>2. job' = NoJob \/ (job' = job /\ wpc = "review")
  BY DEF WorkerCycleEnds, WorkerReviewEnds
<1>3. Holders = {Worker}
  BY <1>1 DEF SlotInv, OneHolder, Holders, SlotTypeOK
<1>4. \A c \in Client : call[c].pc \notin {"generate", "drain", "cycle", "review"}
  BY <1>3, SlotAssumption DEF Holders
<1>5. \A c \in Client : Awoken[c].pc \notin {"generate", "drain", "cycle", "review"}
  BY <1>4, BroadcastWakes DEF SlotInv
<1>6. Holders' = {} /\ Waiters' = Waiters /\ Parked' = {}
  BY <1>1, <1>5, BroadcastWakes DEF Holders, Waiters, Parked, SlotInv
<1>7. SlotTypeOK'
  <2>1. call' \in [Client -> CallState]
    BY <1>1, AwokenTyped DEF SlotInv
  <2>2. job' \in JobState
    BY <1>2 DEF SlotInv, SlotTypeOK, NoJob, JobState
  <2> QED
    BY <1>1, <2>1, <2>2 DEF SlotTypeOK, WorkerPc
<1>8. JobOwned'
  BY <1>1, <1>2, <1>4, SlotAssumption DEF SlotInv, SlotTypeOK, JobState, JobOwned, NoJob
<1>9. SleepsWell'
  BY <1>1, MaySleep
<1> QED
  BY <1>1, <1>6, <1>7, <1>8, <1>9 DEF SlotInv, OneHolder, Counted, NobodyParked

\* A client that has been waiting takes the slot, waits on, or gives up.
LEMMA WaiterSteps ==
    ASSUME SlotInv, NEW c \in Client, TakesSlot(c) \/ WaitsAgain(c) \/ GivesUp(c)
    PROVE  SlotInv'
<1> USE DEF slot, demand, worker, clients
<1>1. CASE TakesSlot(c)
  <2>1. /\ call[c].pc = "awake" /\ ~busy /\ busy' /\ UNCHANGED <<wpc, job>>
        /\ waiting' = waiting - 1
        /\ call' = [call EXCEPT ![c].pc = Entered(call[c].op)]
        /\ Entered(call[c].op) \in {"generate", "drain"}
    BY <1>1 DEF TakesSlot, Entered
  <2>2. SlotTypeOK'
    BY <2>1, CallsTyped DEF SlotInv, SlotTypeOK, CallPc
  <2>3. call'[c].pc \in {"generate", "drain"} /\ \A d \in Client \ {c} : call'[d] = call[d]
    BY <2>1 DEF SlotInv, SlotTypeOK, CallState
  <2>4. Holders' = {c} /\ job.owner = None
    BY <2>1, <2>3, SlotAssumption DEF SlotInv, SlotTypeOK, JobState, OneHolder, JobOwned, Holders
  <2>5. c \in Waiters /\ Waiters' = Waiters \ {c}
    BY <2>1, <2>3 DEF Waiters
  <2>6. Counted'
    BY <2>1, <2>5, WaitersFinite, FS_RemoveElement DEF SlotInv, Counted
  <2> QED
    BY <2>1, <2>2, <2>4, <2>6, MaySleep, SlotAssumption
       DEF SlotInv, OneHolder, JobOwned, NobodyParked
<1>2. CASE WaitsAgain(c)
  <2>1. /\ call[c].pc = "awake" /\ busy /\ busy' /\ UNCHANGED <<wpc, job, waiting>>
        /\ call' = [call EXCEPT ![c].pc = "parked"]
    BY <1>2 DEF WaitsAgain
  <2>2. SlotTypeOK'
    BY <2>1, CallsTyped DEF SlotInv, SlotTypeOK, CallPc
  <2>3. call'[c].pc = "parked" /\ \A d \in Client \ {c} : call'[d] = call[d]
    BY <2>1 DEF SlotInv, SlotTypeOK, CallState
  <2>4. Holders' = Holders /\ Waiters' = Waiters
    BY <2>1, <2>3 DEF Holders, Waiters
  <2>5. JobOwned'
    BY <2>1, <2>3 DEF SlotInv, JobOwned
  <2> QED
    BY <2>1, <2>2, <2>4, <2>5, MaySleep DEF SlotInv, OneHolder, Counted, NobodyParked
<1>3. CASE GivesUp(c)
  <2>1. /\ call[c].pc = "awake" /\ busy /\ busy' /\ job' = job /\ wpc' = Woken
        /\ waiting' = waiting - 1
        /\ call' = [call EXCEPT ![c].pc = "idle", ![c].result = "timeout"]
    BY <1>3 DEF GivesUp, WakeWorker, SlotInv, SlotTypeOK
  <2>2. /\ wpc' \in WorkerPc
        /\ wpc' # wpc => {wpc, wpc'} \cap {"cycle", "review"} = {}
    BY <2>1 DEF Woken, SlotInv, SlotTypeOK, WorkerPc
  <2>3. SlotTypeOK'
    BY <2>1, <2>2, CallsTyped DEF SlotInv, SlotTypeOK, CallPc
  <2>4. call'[c].pc = "idle" /\ \A d \in Client \ {c} : call'[d] = call[d]
    BY <2>1 DEF SlotInv, SlotTypeOK, CallState
  <2>5. Holders' = Holders
    BY <2>1, <2>2, <2>4 DEF Holders
  <2>6. c \in Waiters /\ Waiters' = Waiters \ {c}
    BY <2>1, <2>4 DEF Waiters
  <2>7. Counted'
    BY <2>1, <2>6, WaitersFinite, FS_RemoveElement DEF SlotInv, Counted
  <2>8. JobOwned'
    BY <2>1, <2>2, <2>4 DEF SlotInv, JobOwned
  <2> QED
    BY <2>1, <2>3, <2>5, <2>7, <2>8, MaySleep DEF SlotInv, OneHolder, NobodyParked
<1> QED
  BY <1>1, <1>2, <1>3

\* A client that holds the slot keeps it, and moves on within it; what the worker
\* does meanwhile, if anything, is to wake.
LEMMA HolderMoves ==
    ASSUME SlotInv, NEW c \in Client,
           call[c].pc \in {"generate", "drain", "cycle", "review"},
           call'[c] \in CallState,
           call'[c].pc \in {"generate", "drain", "cycle", "review"},
           call' = [call EXCEPT ![c] = call'[c]],
           wpc' \in {wpc, Woken}, UNCHANGED <<busy, waiting>>,
           \/ job' = NoJob
           \/ job' = [owner |-> c, pc |-> "start"] /\ call'[c].pc = "cycle"
           \/ job' = job /\ (job.owner = c => call'[c].pc = "cycle")
    PROVE  SlotInv'
<1>1. call' \in [Client -> CallState] /\ \A d \in Client \ {c} : call'[d] = call[d]
  BY CallsTyped DEF SlotInv, SlotTypeOK
<1>2. wpc' \in WorkerPc /\ (wpc' # wpc => {wpc, wpc'} \cap {"cycle", "review"} = {})
  BY DEF Woken, SlotInv, SlotTypeOK, WorkerPc
<1>3. job' \in JobState
  BY SlotAssumption DEF SlotInv, SlotTypeOK, JobState, NoJob
<1>4. Holders' = Holders /\ Waiters' = Waiters /\ c \in Holders
  BY <1>1, <1>2 DEF Holders, Waiters
<1>5. busy
  BY <1>4 DEF SlotInv, SlotTypeOK, OneHolder
<1>6. JobOwned'
  <2>1. CASE job' = NoJob
    BY <2>1, SlotAssumption DEF JobOwned, NoJob
  <2>2. CASE job' = [owner |-> c, pc |-> "start"] /\ call'[c].pc = "cycle"
    BY <2>2, SlotAssumption DEF JobOwned
  <2>3. CASE job' = job /\ (job.owner = c => call'[c].pc = "cycle")
    BY <1>1, <1>2, <2>3 DEF SlotInv, JobOwned
  <2> QED
    BY <2>1, <2>2, <2>3
<1>7. SlotTypeOK'
  BY <1>1, <1>2, <1>3 DEF SlotInv, SlotTypeOK
<1> QED
  BY <1>4, <1>5, <1>6, <1>7, MaySleep DEF SlotInv, OneHolder, Counted, NobodyParked

\* A full flush starts a cycle, takes its result, and ends its drain.
LEMMA FlushSteps ==
    ASSUME SlotInv, NEW c \in Client,
           FlushCycle(c) \/ FlushGoesOn(c) \/ FlushBreaks(c) \/ FlushDrained(c)
    PROVE  SlotInv'
<1> USE DEF slot, demand, worker, clients
<1>1. call \in [Client -> CallState]
  BY DEF SlotInv, SlotTypeOK
<1>2. \A p \in CallPc : [call[c] EXCEPT !.pc = p] \in CallState
                      /\ [call[c] EXCEPT !.pc = p].pc = p
  BY <1>1 DEF CallState
<1>3. CASE FlushCycle(c)
  BY <1>1, <1>2, <1>3, HolderMoves DEF FlushCycle, CallPc
<1>4. CASE FlushGoesOn(c)
  BY <1>1, <1>2, <1>4, HolderMoves DEF FlushGoesOn, CallPc
<1>5. CASE FlushBreaks(c)
  <2>1. PICK r \in {"ok", "timeout", "failed", "busy"} :
            call' = [call EXCEPT ![c].pc = "review", ![c].result = r]
    BY <1>1, <1>5 DEF FlushBreaks, CallState
  <2>2. call'[c] = [call[c] EXCEPT !.pc = "review", !.result = r]
    BY <1>1, <2>1
  <2>3. call'[c] \in CallState /\ call'[c].pc = "review"
    BY <1>1, <2>2 DEF CallState, CallPc
  <2> QED
    BY <1>1, <1>5, <2>1, <2>3, HolderMoves DEF FlushBreaks, Thaw, WakeWorker
<1>6. CASE FlushDrained(c)
  <2>1. job.owner # c
    BY <1>6, SlotAssumption DEF FlushDrained, SlotInv, JobOwned
  <2> QED
    BY <1>1, <1>2, <1>6, <2>1, HolderMoves DEF FlushDrained, Thaw, WakeWorker, CallPc
<1> QED
  BY <1>3, <1>4, <1>5, <1>6

\* A recall's generation ends, or a flush is done with its review: the slot is
\* free, everybody parked is awake, and so is the worker.
LEMMA ClientLetsGo ==
    ASSUME SlotInv, NEW c \in Client, RecallEnds(c) \/ FlushReviewed(c)
    PROVE  SlotInv'
<1>1. PICK p \in {"idle", "tail"} : call' = [Awoken EXCEPT ![c].pc = p]
  BY DEF RecallEnds, FlushReviewed, Release
<1>2. /\ call[c].pc \in {"generate", "review"} /\ busy' = FALSE /\ wpc' = Woken
      /\ UNCHANGED <<waiting, job>>
  BY DEF RecallEnds, FlushReviewed, Release, WakeWorker
<1>3. /\ wpc' \in WorkerPc /\ wpc' # "asleep"
      /\ wpc' # wpc => {wpc, wpc'} \cap {"cycle", "review"} = {}
  BY <1>2 DEF Woken, SlotInv, SlotTypeOK, WorkerPc
<1>4. Awoken \in [Client -> CallState]
  BY AwokenTyped DEF SlotInv
<1>5. /\ call' \in [Client -> CallState] /\ call'[c].pc = p
      /\ \A d \in Client \ {c} : call'[d] = Awoken[d]
  <2>1. call' \in [Client -> CallState]
    BY <1>1, <1>4, CallsTyped DEF CallPc
  <2>2. Awoken[c] \in CallState
    BY <1>4
  <2> QED
    BY <1>1, <1>4, <2>1, <2>2 DEF CallState
<1>6. Holders = {c}
  <2>1. c \in Holders
    BY <1>2 DEF Holders
  <2> QED
    BY <2>1 DEF SlotInv, SlotTypeOK, OneHolder
<1>7. /\ wpc \notin {"cycle", "review"}
      /\ \A d \in Client \ {c} : call[d].pc \notin {"generate", "drain", "cycle", "review"}
  BY <1>6, SlotAssumption DEF Holders
<1>8. \A d \in Client \ {c} : Awoken[d].pc \notin {"generate", "drain", "cycle", "review"}
  BY <1>7, BroadcastWakes DEF SlotInv
<1>9. Holders' = {} /\ Parked' = {}
  BY <1>3, <1>5, <1>7, <1>8, BroadcastWakes DEF Holders, Parked, SlotInv
<1>10. Waiters' = Waiters
  BY <1>2, <1>5, BroadcastWakes DEF Waiters, SlotInv
<1>11. JobOwned'
  <2>1. job.owner # Worker /\ job.owner \notin Client
    BY <1>2, <1>7 DEF SlotInv, JobOwned
  <2> QED
    BY <1>2, <2>1 DEF SlotInv, JobOwned
<1>12. SlotTypeOK'
  BY <1>2, <1>3, <1>5 DEF SlotInv, SlotTypeOK
<1> QED
  BY <1>2, <1>3, <1>9, <1>10, <1>11, <1>12, MaySleep
     DEF SlotInv, OneHolder, Counted, NobodyParked

\* A flush compacts, long after it let the slot go.
LEMMA FlushReturns ==
    ASSUME SlotInv, NEW c \in Client, FlushCompacts(c)
    PROVE  SlotInv'
<1>1. call[c].pc = "tail" /\ UNCHANGED <<slot, demand, worker, job>>
  BY DEF FlushCompacts
<1>2. PICK r \in {"ok", "timeout", "failed", "busy"} :
          call' = [call EXCEPT ![c].pc = "idle", ![c].result = r]
  BY DEF FlushCompacts, SlotInv, SlotTypeOK, CallState
<1>3. /\ call' \in [Client -> CallState] /\ call'[c].pc = "idle"
      /\ \A d \in Client \ {c} : call'[d] = call[d]
  <2>1. call' \in [Client -> CallState]
    BY <1>2, CallsTyped DEF SlotInv, SlotTypeOK, CallPc
  <2>2. call'[c] = [call[c] EXCEPT !.pc = "idle", !.result = r]
    BY <1>2 DEF SlotInv, SlotTypeOK
  <2> QED
    BY <1>2, <2>1, <2>2 DEF SlotInv, SlotTypeOK, CallState
<1>4. Holders' = Holders /\ Waiters' = Waiters /\ Parked' = Parked
  BY <1>1, <1>3 DEF Holders, Waiters, Parked, worker
<1>5. JobOwned'
  BY <1>1, <1>3 DEF SlotInv, JobOwned, worker
<1>6. SleepsWell'
  BY <1>1 DEF SlotInv, SleepsWell, CanWork, BatchDue, Backlog, slot, demand, worker
<1> QED
  BY <1>1, <1>3, <1>4, <1>5, <1>6
     DEF SlotInv, SlotTypeOK, OneHolder, Counted, NobodyParked, slot, worker

\* The deadline of a waiting recall passes.
LEMMA DeadlineStep ==
    ASSUME SlotInv, NEW c \in Client, DeadlinePasses(c)
    PROVE  SlotInv'
<1>1. /\ call[c].pc \in {"parked", "awake"} /\ UNCHANGED <<slot, demand, worker, job>>
      /\ call' = [call EXCEPT ![c].pc = "awake"]
  BY DEF DeadlinePasses
<1>2. /\ call' \in [Client -> CallState] /\ call'[c].pc = "awake"
      /\ \A d \in Client \ {c} : call'[d] = call[d]
  <2>1. call' \in [Client -> CallState]
    BY <1>1, CallsTyped DEF SlotInv, SlotTypeOK, CallPc
  <2>2. call'[c] = [call[c] EXCEPT !.pc = "awake"]
    BY <1>1 DEF SlotInv, SlotTypeOK
  <2> QED
    BY <1>1, <2>1, <2>2 DEF SlotInv, SlotTypeOK, CallState
<1>3. Holders' = Holders /\ Waiters' = Waiters /\ Parked' = Parked \ {c}
  BY <1>1, <1>2 DEF Holders, Waiters, Parked, worker
<1>4. JobOwned'
  BY <1>1, <1>2 DEF SlotInv, JobOwned, worker
<1>5. SleepsWell'
  BY <1>1 DEF SlotInv, SleepsWell, CanWork, BatchDue, Backlog, slot, demand, worker
<1> QED
  BY <1>1, <1>2, <1>3, <1>4, <1>5
     DEF SlotInv, SlotTypeOK, OneHolder, Counted, NobodyParked, slot, worker

\* A recall or a flush is called: it takes the slot or queues up.
LEMMA CallStep ==
    ASSUME SlotInv, NEW c \in Client, NEW op \in {"recall", "flush"}, Call(c, op)
    PROVE  SlotInv'
<1>1. call[c].pc = "idle" /\ UNCHANGED <<demand, worker, job>>
  BY DEF Call
<1>2. CASE busy
  <2>1. /\ call' = [call EXCEPT ![c] = [op |-> op, pc |-> "parked", result |-> "ok"]]
        /\ waiting' = waiting + 1 /\ busy' = busy
    BY <1>2 DEF Call
  <2>2. [op |-> op, pc |-> "parked", result |-> "ok"] \in CallState
    BY DEF CallState, CallPc
  <2>3. /\ call' \in [Client -> CallState] /\ call'[c].pc = "parked"
        /\ \A d \in Client \ {c} : call'[d] = call[d]
    BY <2>1, <2>2, CallsTyped DEF SlotInv, SlotTypeOK
  <2>4. Holders' = Holders /\ c \notin Waiters /\ Waiters' = Waiters \cup {c}
    BY <1>1, <2>3 DEF Holders, Waiters, worker
  <2>5. Counted'
    BY <2>1, <2>4, WaitersFinite, FS_AddElement DEF SlotInv, Counted
  <2>6. JobOwned'
    BY <1>1, <2>3 DEF SlotInv, JobOwned, worker
  <2> QED
    BY <1>1, <1>2, <2>1, <2>3, <2>4, <2>5, <2>6, MaySleep
       DEF SlotInv, SlotTypeOK, OneHolder, NobodyParked, worker
<1>3. CASE ~busy
  <2>1. /\ call' = [call EXCEPT ![c] = [op |-> op, pc |-> Entered(op), result |-> "ok"]]
        /\ busy' = TRUE /\ waiting' = waiting
    BY <1>3 DEF Call
  <2>2. /\ [op |-> op, pc |-> Entered(op), result |-> "ok"] \in CallState
        /\ Entered(op) \in {"generate", "drain"}
    BY DEF CallState, CallPc, Entered
  <2>3. /\ call' \in [Client -> CallState] /\ call'[c].pc \in {"generate", "drain"}
        /\ \A d \in Client \ {c} : call'[d] = call[d]
    BY <2>1, <2>2, CallsTyped DEF SlotInv, SlotTypeOK
  <2>4. Holders = {} /\ Holders' = {c}
    BY <1>1, <1>3, <2>3 DEF SlotInv, OneHolder, Holders, worker
  <2>5. Waiters' = Waiters
    BY <1>1, <2>3 DEF Waiters
  <2>6. JobOwned'
    BY <1>1, <2>3 DEF SlotInv, JobOwned, worker
  <2> QED
    BY <1>1, <2>1, <2>3, <2>4, <2>5, <2>6, MaySleep
       DEF SlotInv, SlotTypeOK, OneHolder, Counted, NobodyParked, worker
<1> QED
  BY <1>2, <1>3 DEF SlotInv, SlotTypeOK

\* Every step of every thread preserves the invariant.
LEMMA SlotInvStep == SlotInv /\ [Next]_vars => SlotInv'
<1> SUFFICES ASSUME SlotInv, [Next]_vars PROVE SlotInv'
  OBVIOUS
<1>1. CASE WorkerStep
  BY <1>1, WorkerHolds, WorkerLetsGo, AsideSteps DEF WorkerStep
<1>2. CASE CycleStep
  BY <1>2, CycleSteps
<1>3. CASE Timer \/ Event \/ Stop
  BY <1>3, AsideSteps
<1>4. ASSUME NEW c \in Client, ClientStep(c) PROVE SlotInv'
  BY <1>4, WaiterSteps, FlushSteps, ClientLetsGo, FlushReturns DEF ClientStep
<1>5. ASSUME NEW c \in Client, DeadlinePasses(c) \/ Call(c, "recall") \/ Call(c, "flush")
      PROVE  SlotInv'
  BY <1>5, DeadlineStep, CallStep
<1>6. CASE UNCHANGED vars
  BY <1>6 DEF vars, slot, demand, worker, clients, SlotInv, SlotTypeOK, OneHolder,
              JobOwned, Counted, NobodyParked, SleepsWell, Holders, Waiters, Parked,
              CanWork, BatchDue, Backlog
<1> QED
  BY <1>1, <1>2, <1>3, <1>4, <1>5, <1>6 DEF Next

\* The parts OneHolder, JobOwned and Counted, as cardinalities.
LEMMA InvOneGeneration == SlotInv => OneGeneration
<1> SUFFICES ASSUME SlotInv PROVE OneGeneration
  OBVIOUS
<1>1. Cardinality(Holders) = IF busy THEN 1 ELSE 0
  BY FS_Singleton, FS_EmptySet DEF SlotInv, OneHolder
<1>2. job.owner # None => job.owner \in Holders
  BY DEF SlotInv, SlotTypeOK, JobState, JobOwned, Holders
<1> QED
  BY <1>1, <1>2 DEF OneGeneration, SlotInv, Counted

\* The parts NobodyParked and SleepsWell: what is due and was not when the worker
\* went to sleep has become so by a timer it set.
LEMMA InvNoLostWakeup == SlotInv => NoLostWakeup
<1> SUFFICES ASSUME SlotInv PROVE NoLostWakeup
  OBVIOUS
<1>1. ASSUME wpc = "asleep", CanWork, BatchDue \/ IdleDue \/ ReviewDue
      PROVE  TimerUp
  BY <1>1 DEF SlotInv, SleepsWell, IdleDue, ReviewDue, TimerUp
<1> QED
  BY <1>1 DEF NoLostWakeup, SlotInv, NobodyParked

\* One generation at a time, for any number of host threads and any limits: the
\* flag cycle_busy is up exactly while one thread runs the model, and
\* recall_waiting counts the threads that wait for it (worker.c, api.c).
THEOREM SlotExclusive == Spec => []OneGeneration
<1>1. Init => SlotInv
  BY SlotInvInit
<1>2. SlotInv /\ [Next]_vars => SlotInv'
  BY SlotInvStep
<1>3. SlotInv => OneGeneration
  BY InvOneGeneration
<1> QED
  BY <1>1, <1>2, <1>3, PTL DEF Spec

\* No wake-up is lost, for any number of host threads and any limits: nobody
\* sleeps on done_cv beside a free slot, and the worker does not sleep on ev_cv
\* through work it could start, unless its timer has run out.
THEOREM WakeupsKept == Spec => []NoLostWakeup
<1>1. Init => SlotInv
  BY SlotInvInit
<1>2. SlotInv /\ [Next]_vars => SlotInv'
  BY SlotInvStep
<1>3. SlotInv => NoLostWakeup
  BY InvNoLostWakeup
<1> QED
  BY <1>1, <1>2, <1>3, PTL DEF Spec

-----------------------------------------------------------------------------
(* The order of the locks.  A thread that waits for the highest lock that  *)
(* anyone waits for waits for one that runs.                               *)

Rank == [replay |-> 1, cache |-> 1, lock |-> 2, source |-> 3, ev |-> 3,
         journal |-> 4, err |-> 5, log |-> 5]

LockTypeOK ==
    /\ held \in [Threads -> SUBSET Locks]
    /\ want \in [Threads -> Locks \cup {Free}]

\* What a thread holds ranks below what it waits for.
Climbing ==
    \A t \in Threads : want[t] # Free =>
        \A h \in held[t] : Rank[h] < Rank[want[t]]

LockInv == LockTypeOK /\ Climbing

\* Each nesting in the source goes up in rank.
LEMMA NestedClimbs ==
    /\ \A l \in Locks : Rank[l] \in 1..5
    /\ \A h, l \in Locks : <<h, l>> \in Nested => Rank[h] < Rank[l]
<1>1. \A l \in Locks : Rank[l] \in 1..5
  BY DEF Locks, Guards, Leaves, Rank
<1>2. \A h, l \in Locks : <<h, l>> \in LeafNesting => Rank[h] < Rank[l]
  BY DEF LeafNesting, Guards, Leaves, Rank
<1>3. \A h, l \in Locks : <<h, l>> \in Nested \ LeafNesting => Rank[h] < Rank[l]
  BY DEF Nested, AdmissionNesting, GroundingNesting, JournalNesting, CacheNesting,
         WorkerNesting, Rank
<1> QED
  BY <1>1, <1>2, <1>3

\* Asking for a lock is the only step that could break the order, and its guard
\* is that every lock held may be held there.
LEMMA LockInvIsInductive == LockInv /\ [LockNext]_lockVars => LockInv'
<1> SUFFICES ASSUME LockInv, [LockNext]_lockVars PROVE LockInv'
  OBVIOUS
<1> USE DEF LockInv, LockTypeOK
<1>1. ASSUME NEW t \in Threads, Acquire(t) PROVE LockInv'
  BY <1>1, FreeAssumption DEF Acquire, Climbing
<1>2. ASSUME NEW t \in Threads, NEW l \in Locks, Ask(t, l) PROVE LockInv'
  <2>1. LockTypeOK'
    BY <1>2 DEF Ask
  <2>2. \A h \in held[t] : Rank[h] < Rank[l]
    BY <1>2, NestedClimbs DEF Ask
  <2>3. Climbing'
    BY <1>2, <2>2 DEF Ask, Climbing
  <2> QED
    BY <2>1, <2>3
<1>3. ASSUME NEW t \in Threads, NEW l \in Locks, Unlock(t, l) PROVE LockInv'
  BY <1>3 DEF Unlock, Climbing
<1>4. CASE UNCHANGED lockVars
  BY <1>4 DEF lockVars, Climbing
<1> QED
  BY <1>1, <1>2, <1>3, <1>4 DEF LockNext

\* A set of ranks that is not empty has a highest one.
LEMMA HighestRank ==
    ASSUME NEW R, R \subseteq 1..5, R # {}
    PROVE  \E r \in R : \A s \in R : s <= r
<1>1. CASE 5 \in R  BY <1>1
<1>2. CASE 5 \notin R /\ 4 \in R  BY <1>2
<1>3. CASE 5 \notin R /\ 4 \notin R /\ 3 \in R  BY <1>3
<1>4. CASE 5 \notin R /\ 4 \notin R /\ 3 \notin R /\ 2 \in R  BY <1>4
<1>5. CASE R \subseteq {1}
  <2>1. 1 \in R /\ \A s \in R : s = 1
    BY <1>5
  <2> QED
    BY <2>1
<1> QED
  BY <1>1, <1>2, <1>3, <1>4, <1>5

\* The thread that waits for the highest lock is blocked by one that runs: if
\* that one were stuck too, it would wait for a lock higher still.
LEMMA OrderFreesSomeone == LockInv => NobodyStuck
<1> SUFFICES ASSUME LockInv, NEW t0 \in Threads, Stuck(t0)
             PROVE  \E u \in Threads : held[u] # {} /\ ~Stuck(u)
  BY DEF NobodyStuck
<1> USE DEF LockInv, LockTypeOK
<1>1. \A t \in Threads : Stuck(t) => want[t] \in Locks /\ Rank[want[t]] \in 1..5
  BY FreeAssumption, NestedClimbs DEF Stuck
<1> DEFINE Waited == {Rank[want[t]] : t \in {x \in Threads : Stuck(x)}}
<1>2. Waited \subseteq 1..5 /\ Waited # {}
  BY <1>1
<1>3. PICK r \in Waited : \A s \in Waited : s <= r
  <2> HIDE DEF Waited
  <2> QED  BY <1>2, HighestRank
<1>4. PICK t \in Threads : Stuck(t) /\ r = Rank[want[t]]
  BY <1>3
<1>5. PICK u \in Threads : want[t] \in held[u]
  BY <1>4 DEF Stuck
<1>6. ~Stuck(u)
  <2> SUFFICES ASSUME Stuck(u) PROVE FALSE
    OBVIOUS
  <2>1. Rank[want[u]] \in Waited
    OBVIOUS
  <2>2. Rank[want[t]] < Rank[want[u]]
    BY <1>1, <1>5, FreeAssumption DEF Climbing
  <2> QED
    BY <1>1, <1>3, <1>4, <2>1, <2>2
<1> QED
  BY <1>5, <1>6

\* The documented lock order (asper_internal.h:30), with the locks added to it
\* since, keeps the threads of a context from waiting for one another.
THEOREM LocksNeverCircular == LockSpec => []NobodyStuck
<1>1. LockInit => LockInv
  BY DEF LockInit, LockInv, LockTypeOK, Climbing
<1> QED
  BY <1>1, LockInvIsInductive, OrderFreesSomeone, PTL DEF LockSpec
=============================================================================
