----------------------------- MODULE CycleSlot -----------------------------
(***************************************************************************)
(* Who runs the curator model, and when: the cycle slot of src/worker.c.   *)
(* The worker thread, recalls (src/api.c) and full flushes take turns      *)
(* under ev_mu; the worker sleeps on ev_cv, the others on done_cv.         *)
(*                                                                         *)
(* A step is what a thread does between two points where it gives ev_mu    *)
(* up.  A signal finds the sleepers of that moment and is lost when there  *)
(* are none; a woken thread looks at the state again before it goes on.    *)
(* The clock is two flags, idleDue and maintDue, which the passing of time *)
(* raises.  What a cycle does to the turns is in Curation; here it takes   *)
(* some, and gives them back when the generation fails.                    *)
(***************************************************************************)
EXTENDS Naturals, FiniteSets

CONSTANTS
    Client,        \* host threads that call asper_recall and asper_flush(1)
    None,          \* nobody
    Worker,        \* the worker thread
    TurnBatch,     \* cfg.turn_batch
    QueueLimit,    \* asper_turn_queue_limit
    IdleFlush,     \* cfg.idle_flush_s > 0
    Maintenance,   \* cfg.maintenance_interval_s > 0
    RecallTimeout, \* cfg.recall_timeout_s > 0
    MaxEvents, MaxCalls, MaxReviews, MaxFailures  \* bounds of the model

ASSUME SlotAssumption ==
    /\ TurnBatch \in Nat /\ QueueLimit \in Nat \ {0}
    /\ IdleFlush \in BOOLEAN /\ Maintenance \in BOOLEAN /\ RecallTimeout \in BOOLEAN
    /\ MaxEvents \in Nat /\ MaxCalls \in Nat
    /\ MaxReviews \in Nat /\ MaxFailures \in Nat
    /\ Worker \notin Client /\ None \notin Client \cup {Worker}
    /\ IsFiniteSet(Client)

VARIABLES
    busy,      \* cycle_busy
    waiting,   \* recall_waiting
    turns,     \* turns_n
    taken,     \* turns_inflight
    unread,    \* durable events the queue had no room for
    idleDue,   \* idle_flush_s has passed since last_turn_at
    maintDue,  \* maintenance_interval_s has passed since the last review
    stop,      \* stop_worker
    wpc,       \* where the worker is
    timed,     \* the deadlines that the sleeping worker's timed wait ends at
    job,       \* the curation cycle under way: whose, and how far
    call,      \* per client: the call it is in, and where in it
    late,      \* the recalls whose deadline has passed
    events, calls, reviews, failures  \* counts against the bounds

demand == <<turns, taken, unread, idleDue>>
slot == <<busy, waiting>>
worker == <<wpc, timed, stop>>
clients == <<call, late>>
bounds == <<events, calls, reviews, failures>>
vars == <<slot, demand, maintDue, worker, job, clients, bounds>>

NoJob == [owner |-> None, pc |-> "none"]
NoCall == [op |-> "none", pc |-> "idle", result |-> "ok"]

Init ==
    /\ busy = FALSE /\ waiting = 0
    /\ turns = 0 /\ taken = 0 /\ unread = 0 /\ idleDue = FALSE /\ maintDue = FALSE
    /\ stop = FALSE /\ wpc = "check" /\ timed = {}
    /\ job = NoJob
    /\ call = [c \in Client |-> NoCall] /\ late = {}
    /\ events = 0 /\ calls = 0 /\ reviews = 0 /\ failures = 0

Backlog == unread > 0
BatchDue == Backlog \/ (TurnBatch > 0 /\ turns >= TurnBatch)
IdleDue == turns > 0 /\ IdleFlush /\ idleDue
ReviewDue == Maintenance /\ maintDue
CanWork == ~busy /\ waiting = 0

Smaller(m, n) == IF m < n THEN m ELSE n
-----------------------------------------------------------------------------
(* Condition variables. *)

Woken == IF wpc \in {"asleep", "backoff"} THEN "check" ELSE wpc

\* os_cond_signal(ev_cv): only the worker ever waits there.
WakeWorker ==
    /\ wpc' = Woken
    /\ timed' = {}
    /\ UNCHANGED stop

Parked == {c \in Client : call[c].pc = "parked"}

Awoken == [c \in Client |-> IF c \in Parked THEN [call[c] EXCEPT !.pc = "awake"]
                            ELSE call[c]]

\* Mutation: the worker ends its cycle without a broadcast.
DoneSilently == call

\* os_cond_broadcast(done_cv): everybody parked looks again.
Done == Awoken

\* Mutation: the slot is let go without a word to the worker.
ReleaseQuietly(next) ==
    /\ busy' = FALSE
    /\ call' = next
    /\ UNCHANGED <<waiting, worker>>

\* A client lets the slot go: the others look again, and so does the worker.
Release(next) ==
    /\ busy' = FALSE
    /\ call' = next
    /\ WakeWorker
    /\ UNCHANGED waiting
-----------------------------------------------------------------------------
(* Time. *)

IdlePasses ==
    /\ IdleFlush /\ turns > 0 /\ ~idleDue
    /\ idleDue' = TRUE
    /\ UNCHANGED <<slot, turns, taken, unread, maintDue, worker, job, clients, bounds>>

IntervalPasses ==
    /\ Maintenance /\ ~maintDue /\ reviews < MaxReviews
    /\ maintDue' = TRUE /\ reviews' = reviews + 1
    /\ UNCHANGED <<slot, demand, worker, job, clients, events, calls, failures>>

DeadlinePasses(c) ==
    /\ RecallTimeout
    /\ call[c].op = "recall" /\ call[c].pc \in {"parked", "awake"}
    /\ c \notin late
    /\ late' = late \cup {c}
    /\ call' = [call EXCEPT ![c].pc = "awake"]
    /\ UNCHANGED <<slot, demand, maintDue, worker, job, bounds>>
-----------------------------------------------------------------------------
(* The hosts' events. *)

Room == turns + taken < QueueLimit

Draining == \E c \in Client : call[c].op = "flush" /\ call[c].pc \in {"drain", "cycle"}

\* A durable turn reaches the queue, or waits in the source when the queue is
\* full or a flush has frozen admission.  Either way the worker is signalled.
Event ==
    /\ ~stop /\ events < MaxEvents /\ wpc # "joined"
    /\ events' = events + 1
    /\ IF Room /\ ~Draining
       THEN turns' = turns + 1 /\ idleDue' = FALSE /\ UNCHANGED <<taken, unread>>
       ELSE unread' = unread + 1 /\ UNCHANGED <<turns, taken, idleDue>>
    /\ WakeWorker
    /\ UNCHANGED <<slot, maintDue, job, clients, calls, reviews, failures>>
-----------------------------------------------------------------------------
(* A curation cycle, run by whoever holds the slot and without ev_mu. *)

\* The number of unread events the refill at the head of a cycle moves: all
\* that fit, or fewer when a flush has frozen the endpoints.
Moved == LET most == Smaller(unread, QueueLimit - turns - taken)
         IN  IF job.owner = Worker THEN {most} ELSE 0 .. most

\* replay_pending, then take_turns: a scope boundary may cut the batch short.
TakeBatch ==
    /\ job.pc = "start"
    /\ \E m \in Moved, n \in 1 .. QueueLimit :
           /\ n <= turns + m
           /\ unread' = unread - m
           /\ turns' = turns + m - n /\ taken' = n
           /\ idleDue' = (idleDue /\ m = 0)
           \* publish and enqueue signal a worker that may be asleep
           /\ IF Backlog THEN WakeWorker ELSE UNCHANGED worker
    /\ job' = [job EXCEPT !.pc = "generate"]
    /\ UNCHANGED <<slot, maintDue, clients, bounds>>

\* There was nothing to take.
TakeNothing ==
    /\ job.pc = "start"
    /\ turns = 0 /\ 0 \in Moved
    /\ job' = [job EXCEPT !.pc = "empty"]
    /\ UNCHANGED <<slot, demand, maintDue, worker, clients, bounds>>

\* The model failed: restore_turns puts the batch back and signals ev_cv.
GenerationFails ==
    /\ job.pc = "generate" /\ failures < MaxFailures
    /\ failures' = failures + 1
    /\ turns' = turns + taken /\ taken' = 0
    /\ job' = [job EXCEPT !.pc = "failed"]
    /\ WakeWorker
    /\ UNCHANGED <<slot, unread, idleDue, maintDue, clients, events, calls, reviews>>

\* asper_curation_begin: from here until the finish a receipt is open.
BeginReceipt ==
    /\ job.pc = "generate"
    /\ job' = [job EXCEPT !.pc = "receipt"]
    /\ UNCHANGED <<slot, demand, maintDue, worker, clients, bounds>>

FinishReceipt ==
    /\ job.pc = "receipt"
    /\ taken' = 0
    /\ job' = [job EXCEPT !.pc = "ok"]
    /\ UNCHANGED <<slot, turns, unread, idleDue, maintDue, worker, clients, bounds>>

ReceiptOpen == job.pc = "receipt"
-----------------------------------------------------------------------------
(* asper_worker_main. *)

WorkerCycle ==
    /\ wpc = "check" /\ ~stop /\ CanWork /\ (BatchDue \/ IdleDue)
    /\ busy' = TRUE
    /\ wpc' = "cycle"
    /\ job' = [owner |-> Worker, pc |-> "start"]
    /\ UNCHANGED <<waiting, demand, maintDue, timed, stop, clients, bounds>>

AfterFailure == IF stop THEN "check" ELSE "backoff"

\* The cycle is over; when the journal is long it is compacted without ev_mu,
\* and after a failure the worker waits before it tries again.
WorkerCycleEnds ==
    /\ wpc = "cycle" /\ job.pc \in {"empty", "ok", "failed"}
    /\ busy' = FALSE
    /\ call' = Done
    /\ wpc' \in IF job.pc = "failed" THEN {"compactFailed", AfterFailure}
               ELSE {"compact", "check"}
    /\ job' = NoJob
    /\ UNCHANGED <<waiting, demand, maintDue, timed, stop, late, bounds>>

\* While it compacts the slot is free.
WorkerCompacted ==
    /\ wpc \in {"compact", "compactFailed"}
    /\ wpc' = IF wpc = "compactFailed" THEN AfterFailure ELSE "check"
    /\ UNCHANGED <<slot, demand, maintDue, timed, stop, job, clients, bounds>>

\* The timed wait of the retry runs out.
BackoffEnds ==
    /\ wpc = "backoff"
    /\ wpc' = "check"
    /\ UNCHANGED <<slot, demand, maintDue, timed, stop, job, clients, bounds>>

WorkerReview ==
    /\ wpc = "check" /\ ~stop /\ CanWork /\ ~(BatchDue \/ IdleDue) /\ ReviewDue
    /\ busy' = TRUE
    /\ wpc' = "review"
    /\ maintDue' = FALSE
    /\ UNCHANGED <<waiting, demand, timed, stop, job, clients, bounds>>

WorkerReviewEnds ==
    /\ wpc = "review"
    /\ busy' = FALSE
    /\ call' = Done
    /\ wpc' \in {"check", "compact"}
    /\ UNCHANGED <<waiting, demand, maintDue, timed, stop, job, late, bounds>>

\* Mutation: only the review interval bounds the wait.
ReviewDeadline == IF Maintenance /\ ~IdleDue /\ ~ReviewDue THEN {"review"} ELSE {}

\* wait_ms: the nearest of the two deadlines, and no deadline at all once one
\* has passed and its work could not start.
Deadlines == IF IdleDue \/ ReviewDue THEN {}
             ELSE {d \in {"idle", "review"} : IF d = "idle" THEN turns > 0 /\ IdleFlush
                                               ELSE Maintenance}

TimerUp == ("idle" \in timed /\ idleDue) \/ ("review" \in timed /\ maintDue)

WorkerSleeps ==
    /\ wpc = "check" /\ ~stop
    /\ ~(CanWork /\ (BatchDue \/ IdleDue \/ ReviewDue))
    /\ wpc' = "asleep"
    /\ timed' = Deadlines
    /\ UNCHANGED <<slot, demand, maintDue, stop, job, clients, bounds>>

WorkerTimeout ==
    /\ wpc = "asleep" /\ TimerUp
    /\ wpc' = "check" /\ timed' = {}
    /\ UNCHANGED <<slot, demand, maintDue, stop, job, clients, bounds>>

WorkerExits ==
    /\ wpc = "check" /\ stop
    /\ wpc' = "joined"
    /\ UNCHANGED <<slot, demand, maintDue, timed, stop, job, clients, bounds>>

\* asper_close, when no other call is under way: stop, broadcast, join.
Stop ==
    /\ ~stop /\ \A c \in Client : call[c].pc = "idle"
    /\ stop' = TRUE
    /\ wpc' = Woken /\ timed' = {}
    /\ UNCHANGED <<slot, demand, maintDue, job, clients, bounds>>
-----------------------------------------------------------------------------
(* Recalls and full flushes. *)

\* What holding the slot means to the call: a recall generates, a flush drains.
Entered(op) == IF op = "recall" THEN "generate" ELSE "drain"

\* asper_recall and asper_cycle_slot_acquire up to their first wait: a free
\* slot is taken at once, whoever else is waiting for it.
Call(c, op) ==
    /\ ~stop /\ calls < MaxCalls /\ call[c].pc = "idle"
    /\ calls' = calls + 1
    /\ late' = late \ {c}
    /\ IF busy
       THEN /\ call' = [call EXCEPT ![c] = [op |-> op, pc |-> "parked", result |-> "ok"]]
            /\ waiting' = waiting + 1 /\ UNCHANGED busy
       ELSE /\ call' = [call EXCEPT ![c] = [op |-> op, pc |-> Entered(op), result |-> "ok"]]
            /\ busy' = TRUE /\ UNCHANGED waiting
    /\ UNCHANGED <<demand, maintDue, worker, job, events, reviews, failures>>

\* Mutation: a woken waiter takes the slot without looking again.
TakesSlotAnyway(c) ==
    /\ call[c].pc = "awake"
    /\ busy' = TRUE /\ waiting' = waiting - 1
    /\ call' = [call EXCEPT ![c].pc = Entered(call[c].op)]
    /\ UNCHANGED <<demand, maintDue, worker, job, late, bounds>>

\* Woken: the slot is free.  A deadline that has passed is not looked at.
TakesSlot(c) ==
    /\ call[c].pc = "awake" /\ ~busy
    /\ busy' = TRUE /\ waiting' = waiting - 1
    /\ call' = [call EXCEPT ![c].pc = Entered(call[c].op)]
    /\ UNCHANGED <<demand, maintDue, worker, job, late, bounds>>

WaitsAgain(c) ==
    /\ call[c].pc = "awake" /\ busy /\ c \notin late
    /\ call' = [call EXCEPT ![c].pc = "parked"]
    /\ UNCHANGED <<slot, demand, maintDue, worker, job, late, bounds>>

GivesUp(c) ==
    /\ call[c].pc = "awake" /\ busy /\ c \in late
    /\ waiting' = waiting - 1
    /\ call' = [call EXCEPT ![c].pc = "idle", ![c].result = "timeout"]
    /\ WakeWorker
    /\ UNCHANGED <<busy, demand, maintDue, job, late, bounds>>

RecallEnds(c) ==
    /\ call[c].op = "recall" /\ call[c].pc = "generate"
    /\ Release([Awoken EXCEPT ![c].pc = "idle"])
    /\ UNCHANGED <<demand, maintDue, job, late, bounds>>

\* A flush runs cycles while there is something to take; Curation counts its
\* budget of batches.
FlushCycle(c) ==
    /\ call[c].op = "flush" /\ call[c].pc = "drain"
    /\ turns + unread > 0
    /\ call' = [call EXCEPT ![c].pc = "cycle"]
    /\ job' = [owner |-> c, pc |-> "start"]
    /\ UNCHANGED <<slot, demand, maintDue, worker, late, bounds>>

\* Admission thaws, and publish signals what is left.
Thaw == IF Backlog THEN WakeWorker ELSE UNCHANGED worker

FlushGoesOn(c) ==
    /\ call[c].pc = "cycle" /\ job.pc = "ok"
    /\ call' = [call EXCEPT ![c].pc = "drain"]
    /\ job' = NoJob
    /\ UNCHANGED <<slot, demand, maintDue, worker, late, bounds>>

FlushBreaks(c) ==
    /\ call[c].pc = "cycle" /\ job.pc \in {"empty", "failed"}
    /\ call' = [call EXCEPT ![c].pc = "review",
                            ![c].result = IF job.pc = "failed" THEN "failed" ELSE @]
    /\ job' = NoJob
    /\ Thaw
    /\ UNCHANGED <<slot, demand, maintDue, late, bounds>>

\* The budget is spent.
FlushDrained(c) ==
    /\ call[c].op = "flush" /\ call[c].pc = "drain"
    /\ turns = 0
    /\ call' = [call EXCEPT ![c].pc = "review"]
    /\ Thaw
    /\ UNCHANGED <<slot, demand, maintDue, job, late, bounds>>

\* The review, then the slot is let go, before the access batch is flushed,
\* the journal synced and the store compacted.
FlushReviewed(c) ==
    /\ call[c].op = "flush" /\ call[c].pc = "review"
    /\ maintDue' = FALSE
    /\ Release([Awoken EXCEPT ![c].pc = "tail"])
    /\ UNCHANGED <<demand, job, late, bounds>>

\* asper_store_compact refuses while a curation receipt is open, whosever.
FlushCompacts(c) ==
    /\ call[c].op = "flush" /\ call[c].pc = "tail"
    /\ call' = [call EXCEPT ![c].pc = "idle",
                            ![c].result = IF @ = "ok" /\ ReceiptOpen THEN "busy" ELSE @]
    /\ UNCHANGED <<slot, demand, maintDue, worker, job, late, bounds>>
-----------------------------------------------------------------------------
WorkerStep == \/ WorkerCycle \/ WorkerCycleEnds \/ WorkerCompacted
              \/ WorkerReview \/ WorkerReviewEnds \/ WorkerSleeps \/ WorkerExits

CycleStep == TakeBatch \/ TakeNothing \/ GenerationFails \/ BeginReceipt \/ FinishReceipt

ClientStep(c) == \/ TakesSlot(c) \/ WaitsAgain(c) \/ GivesUp(c) \/ RecallEnds(c)
                 \/ FlushCycle(c) \/ FlushGoesOn(c) \/ FlushBreaks(c)
                 \/ FlushDrained(c) \/ FlushReviewed(c) \/ FlushCompacts(c)

Timer == IdlePasses \/ IntervalPasses \/ WorkerTimeout \/ BackoffEnds

Next == \/ WorkerStep \/ CycleStep \/ Timer \/ Event \/ Stop
        \/ \E c \in Client :
               \/ ClientStep(c) \/ DeadlinePasses(c)
               \/ Call(c, "recall") \/ Call(c, "flush")

Spec == Init /\ [][Next]_vars

\* The threads run, a generation ends, deadlines pass.  The hosts owe nothing.
FairSpec ==
    /\ Spec
    /\ WF_vars(WorkerStep) /\ WF_vars(CycleStep)
    /\ WF_vars(IdlePasses) /\ WF_vars(WorkerTimeout) /\ WF_vars(BackoffEnds)
    /\ \A c \in Client : WF_vars(ClientStep(c)) /\ WF_vars(DeadlinePasses(c))
-----------------------------------------------------------------------------
(* Properties. *)

Holders == {c \in Client : call[c].pc \in {"generate", "drain", "cycle", "review"}}
           \cup (IF wpc \in {"cycle", "review"} THEN {Worker} ELSE {})

Waiters == {c \in Client : call[c].pc \in {"parked", "awake"}}

\* One generation at a time: the flag cycle_busy is up exactly while one
\* thread, and no second one, runs the model; and recall_waiting counts the
\* threads that wait for it, through every wake-up, timeout and retry.
OneGeneration ==
    /\ Cardinality(Holders) = IF busy THEN 1 ELSE 0
    /\ job.owner # None => job.owner \in Holders
    /\ waiting = Cardinality(Waiters)

\* No wake-up is lost.  Nobody sleeps on done_cv while the slot is free
\* (worker.c:37, worker.c:237, api.c:1007), and the worker does not sleep
\* through work it could start (worker.c:266-279): whenever a batch, an idle
\* deadline or a review is due, the slot is free and nobody waits for it, the
\* worker is awake or its timer has run out.
NoLostWakeup ==
    /\ ~busy => Parked = {}
    /\ wpc = "asleep" /\ CanWork /\ (BatchDue \/ IdleDue \/ ReviewDue) => TimerUp

\* While the hosts make finitely many calls, every turn, of a full batch or
\* of a partial one once idle_flush_s has passed, is taken by a cycle, unless
\* the context is closed: no wake-up is lost and no waiter starves the worker.
TurnsGetTheirCycle == IdleFlush => (turns + unread > 0 ~> turns + unread = 0 \/ stop)

\* Every recall and every full flush gets the slot or its timeout, and returns;
\* and so does asper_close, because a stopping worker is never left asleep or
\* waiting (asper_worker_stop joins it).
EveryCallReturns ==
    /\ \A c \in Client : call[c].pc # "idle" ~> call[c].pc = "idle"
    /\ stop ~> wpc = "joined"

\* include/asper.h:380: a full flush whose drain succeeds runs the compaction, also
\* when the worker has meanwhile started the next cycle.
FlushEndsCompacted ==
    [][\A c \in Client : call[c].pc = "tail" /\ call'[c].pc = "idle"
                             => call'[c].result # "busy"]_vars
=============================================================================
