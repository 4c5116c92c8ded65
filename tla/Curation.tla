------------------------------ MODULE Curation ------------------------------
(***************************************************************************)
(* From a durable event to its acknowledgement: the append path            *)
(* (src/source_events.c), progressive admission (src/source_pending.c),    *)
(* the curation cycle (src/curator.c) with its durable receipts            *)
(* (src/curation_receipt.c), the full flush (src/worker.c), and what a     *)
(* crash, a restart and the offline operator do to them.                   *)
(*                                                                         *)
(* An event is named by its scope and its sequence number, <<s, i>>.  The  *)
(* queue is that of TurnQueue without its byte accounting; a queue write   *)
(* or read under ev_mu is one step, a refill under replay_mu is a step per *)
(* scope and per event because the cycle runs meanwhile.                   *)
(***************************************************************************)
EXTENDS Naturals, Sequences, FiniteSets

CONSTANTS
    Scope,        \* scope names
    Kind,         \* kinds of appended events, out of "turn", "other", "blank"
    Deferred,     \* events the offline curation.deferred policy postpones
    Appender,     \* host threads that append events
    QueueLimit,   \* asper_turn_queue_limit
    TurnBatch,    \* cfg.turn_batch
    None,         \* no receipt, nobody, not loaded
    Faults,       \* the failures this model may inject
    MaxLog, MaxOps, MaxFaults, MaxRestarts, MaxFlushes  \* bounds of the model

Event == Scope \X (1 .. MaxLog)
Receipt == [id : Nat, sources : SUBSET Event, applied : Nat, rejected : Nat,
            outcome : {"prepared", "processed", "interrupted"}]
Admission == [known : Seq(Scope), cursor : [Scope -> Nat], end : [Scope -> Nat],
              refresh : SUBSET Scope, next : Nat, cache : SUBSET Event,
              dirty : BOOLEAN, frozen : BOOLEAN]

ASSUME CurationAssumption ==
    /\ QueueLimit \in Nat \ {0} /\ TurnBatch \in Nat \ {0}
    /\ Kind \subseteq {"turn", "other", "blank"}
    /\ MaxLog \in Nat /\ MaxOps \in Nat /\ MaxFaults \in Nat
    /\ MaxRestarts \in Nat /\ MaxFlushes \in Nat
    /\ None \notin Receipt \cup Admission \cup Appender \cup {"cycle", "worker", "flush", "open"}
    /\ "cycle" \notin Appender

VARIABLES
    \* disk
    log,       \* scopes/<s>/events.log: the kinds of the events, in order
    index,     \* scopes/index.log: the registered scopes, in order
    curated,   \* curated-events.log: the acknowledged events
    pending,   \* curation.pending: the receipt on disk, or None
    archive,   \* the curation history log: terminal receipts, in order
    journal,   \* the receipt of every curator operation in journal.xcdn
    synced,    \* how many of them are known to be on disk
    \* memory of the open context
    up,        \* asper_open has returned
    receipt,   \* store.curation_receipt, or None
    poisoned,  \* store.poisoned
    queue,     \* c->turns
    batch,     \* the turns the running cycle owns
    adm,       \* c->source_pending, or None
    backlog,   \* c->source_backlog
    refill,    \* the refill under way: who holds replay_mu, scopes visited
    app,       \* the append every host thread is in
    run,       \* who owns the cycle slot and where it is
    \* bounds and history
    issued, faults, restarts, flushes,
    returned,  \* turns whose asper_event_append returned success
    flushed    \* turns the last successful full flush was asked to drain

disk == <<log, index, curated, pending, archive, journal, synced>>
work == <<queue, batch>>
guard == <<receipt, poisoned>>
admission == <<adm, backlog, refill>>
bounds == <<issued, faults, restarts, flushes>>
ghosts == <<returned, flushed>>
vars == <<disk, up, work, guard, admission, app, run, bounds, ghosts>>

Elements(seq) == {seq[i] : i \in DOMAIN seq}

Fault(f) == f \in Faults /\ faults < MaxFaults /\ faults' = faults + 1

IdleRun == [owner |-> None, pc |-> "idle", force |-> FALSE, budget |-> 0,
            applied |-> 0, rejected |-> 0, ok |-> TRUE, goal |-> {}]
NoRefill == [holder |-> None, visited |-> 0, filling |-> FALSE, failed |-> FALSE]
IdleApp == [pc |-> "idle", scope |-> None, seq |-> 0]

Init ==
    /\ log = [s \in Scope |-> <<>>] /\ index = <<>> /\ curated = {}
    /\ pending = None /\ archive = <<>> /\ journal = <<>> /\ synced = 0
    /\ up = FALSE /\ receipt = None /\ poisoned = FALSE
    /\ queue = <<>> /\ batch = <<>>
    /\ adm = None /\ backlog = FALSE /\ refill = NoRefill
    /\ app = [a \in Appender |-> IdleApp] /\ run = IdleRun
    /\ issued = 0 /\ faults = 0 /\ restarts = 0 /\ flushes = 0
    /\ returned = {} /\ flushed = {}
-----------------------------------------------------------------------------
(* Admission state. *)

\* Every row of scopes/index.log is added to the known scopes, in order.
Listed(a) ==
    LET add[n \in 0 .. Len(index)] ==
            IF n = 0 THEN a.known
            ELSE IF index[n] \in Elements(add[n - 1]) THEN add[n - 1]
            ELSE Append(add[n - 1], index[n])
    IN  add[Len(index)]

\* inventory: every registered scope is known and due for a new endpoint.
Inventory(a) ==
    [a EXCEPT !.known = Listed(a),
              !.refresh = @ \cup Elements(index),
              !.dirty = FALSE]

\* initialize: load the acknowledged set once, then take the inventory.
Fresh == Inventory([known |-> <<>>, cursor |-> [s \in Scope |-> 0],
                    end |-> [s \in Scope |-> 0], refresh |-> {}, next |-> 1,
                    cache |-> curated, dirty |-> FALSE, frozen |-> FALSE])

Opened == IF adm = None THEN Fresh ELSE adm

AddScope(a, s) ==
    [a EXCEPT !.known = IF s \in Elements(@) THEN @ ELSE Append(@, s),
              !.refresh = @ \cup {s}]

Capture(a, ss) ==
    [a EXCEPT !.end = [s \in Scope |-> IF s \in ss THEN Len(log[s]) ELSE @[s]],
              !.refresh = @ \ ss]

\* Mutation: only cursors count, not the scopes due for a new endpoint.
BacklogOfCursors(a) ==
    a # None /\ (a.dirty \/ \E s \in Elements(a.known) : a.cursor[s] < a.end[s])

\* What publish stores into c->source_backlog.
Backlog(a) == /\ a # None
              /\ \/ a.dirty
                 \/ a.refresh # {}
                 \/ \E s \in Elements(a.known) : a.cursor[s] < a.end[s]

Room == Len(queue) + Len(batch) < QueueLimit
Suspended == receipt # None

BeginRefill(holder, a) ==
    /\ refill' = [NoRefill EXCEPT !.holder = holder]
    /\ adm' = IF a.dirty /\ ~a.frozen THEN Inventory(a) ELSE a
    /\ UNCHANGED backlog

AfterVisit(a) == [a EXCEPT !.next = (@ % Len(a.known)) + 1]

Visited == refill' = [refill EXCEPT !.filling = FALSE, !.visited = @ + 1]

Current == adm.known[adm.next]

Refilling == refill.holder # None /\ ~refill.failed

\* One turn of the loop of refill: capture the endpoint, start to fill.
RefillScope ==
    /\ Refilling /\ ~refill.filling /\ Room
    /\ refill.visited < Len(adm.known)
    /\ LET s == Current
           a == IF s \in adm.refresh /\ ~adm.frozen THEN Capture(adm, {s}) ELSE adm
       IN  IF a.cursor[s] < a.end[s]
           THEN adm' = a /\ refill' = [refill EXCEPT !.filling = TRUE]
           ELSE adm' = AfterVisit(a) /\ Visited
    /\ UNCHANGED <<disk, up, work, guard, backlog, app, run, bounds, ghosts>>

NextEvent == <<Current, adm.cursor[Current] + 1>>
NextKind == log[Current][adm.cursor[Current] + 1]
CanFill == /\ Refilling /\ refill.filling
           /\ adm.cursor[Current] < adm.end[Current] /\ Room
Skippable == \/ NextKind = "other"
             \/ NextEvent \in adm.cache
             \/ NextEvent \in Deferred

\* fill_scope on one event: diagnostics, acknowledged and deferred ones pass,
\* an exact turn is enqueued, and then the cursor moves.
FillEvent ==
    /\ CanFill
    /\ Skippable \/ NextKind = "turn"
    /\ queue' = IF Skippable THEN queue ELSE Append(queue, NextEvent)
    /\ adm' = [adm EXCEPT !.cursor[Current] = @ + 1]
    /\ UNCHANGED <<disk, up, batch, guard, backlog, refill, app, run, bounds, ghosts>>

\* The refill reads the log of the current scope: its endpoint or its events.
Reads == /\ Refilling
         /\ \/ refill.filling
            \/ /\ Room /\ refill.visited < Len(adm.known)
               /\ \/ Current \in adm.refresh /\ ~adm.frozen
                  \/ adm.cursor[Current] < adm.end[Current]

\* asper_enqueue_turn rejects a blank text (INVALID), a read can fail: the
\* refill ends with that error and the cursor stays.
FillFails ==
    /\ \/ CanFill /\ ~Skippable /\ NextKind = "blank" /\ UNCHANGED faults
       \/ Reads /\ Fault("read")
    /\ adm' = AfterVisit(adm)
    /\ refill' = [refill EXCEPT !.filling = FALSE, !.failed = TRUE]
    /\ UNCHANGED <<disk, up, work, guard, backlog, app, run, issued, restarts,
                   flushes, ghosts>>

\* The scope is filled, the queue is full, or the byte budget refuses (BUSY,
\* which needs other retained texts): on to the next scope.
FillScopeDone ==
    /\ Refilling /\ refill.filling
    /\ \/ ~CanFill
       \/ /\ CanFill /\ ~Skippable /\ NextKind = "turn"
          /\ Len(queue) + Len(batch) > 0
    /\ adm' = AfterVisit(adm) /\ Visited
    /\ UNCHANGED <<disk, up, work, guard, backlog, app, run, bounds, ghosts>>

RefillOver == /\ refill.holder # None /\ ~refill.filling
              /\ refill.failed \/ ~Room \/ refill.visited >= Len(adm.known)
-----------------------------------------------------------------------------
(* asper_event_append and asper_source_pending_note. *)

Registered(s) == IF s \in Elements(index) THEN index ELSE Append(index, s)
Returned(e) == returned \cup (IF log[e[1]][e[2]] = "turn" THEN {e} ELSE {})

\* Under source_mu: register the scope, then append the event.  Both are taken as
\* durable from then on; of a store's first line in index.log that holds only once
\* scopes/ is synced (Sources has the rest).
EventAppend(a, s, k) ==
    /\ up /\ app[a].pc = "idle" /\ Len(log[s]) < MaxLog
    /\ index' = Registered(s)
    /\ log' = [log EXCEPT ![s] = Append(@, k)]
    /\ app' = [app EXCEPT ![a] =
                  IF k = "other" THEN IdleApp
                  ELSE [pc |-> "note", scope |-> s, seq |-> Len(log[s]) + 1]]
    /\ UNCHANGED <<curated, pending, archive, journal, synced, up, work, guard,
                   admission, run, bounds, ghosts>>

\* The append returns an error; the event may be in the log all the same.
EventAppendFails(a, s, k) ==
    /\ up /\ app[a].pc = "idle" /\ Len(log[s]) < MaxLog
    /\ Fault("append")
    /\ index' \in {index, Registered(s)}
    /\ \/ UNCHANGED log
       \/ s \in Elements(index') /\ log' = [log EXCEPT ![s] = Append(@, k)]
    /\ UNCHANGED <<curated, pending, archive, journal, synced, up, work, guard,
                   admission, app, run, issued, restarts, flushes, ghosts>>

\* The first half of the note, up to the refill; without one the append ends.
NoteScope(a) ==
    /\ app[a].pc = "note" /\ refill.holder = None
    /\ LET noted == AddScope(Opened, app[a].scope)
       IN  IF Suspended \/ noted.frozen
           THEN /\ adm' = noted /\ backlog' = Backlog(noted)
                /\ app' = [app EXCEPT ![a] = IdleApp]
                /\ returned' = Returned(<<app[a].scope, app[a].seq>>)
                /\ UNCHANGED refill
           ELSE /\ BeginRefill(a, noted)
                /\ app' = [app EXCEPT ![a].pc = "refill"]
                /\ UNCHANGED returned
    /\ UNCHANGED <<disk, up, work, guard, run, bounds, flushed>>

\* The first load fails, there is no memory for a new scope, or a dirty
\* inventory cannot be read again: it is (still) dirty and the append succeeds.
NoteFails(a) ==
    /\ app[a].pc = "note" /\ refill.holder = None
    /\ Fault("note")
    /\ IF adm = None THEN UNCHANGED <<adm, backlog>>
       ELSE /\ \/ /\ app[a].scope \notin Elements(adm.known)
                  /\ adm' = [adm EXCEPT !.dirty = TRUE]
               \/ /\ adm.dirty /\ ~adm.frozen /\ ~Suspended
                  /\ adm' = AddScope(adm, app[a].scope)
            /\ backlog' = TRUE
    /\ app' = [app EXCEPT ![a] = IdleApp]
    /\ returned' = Returned(<<app[a].scope, app[a].seq>>)
    /\ UNCHANGED <<disk, up, work, guard, refill, run, issued, restarts, flushes,
                   flushed>>

\* publish, then release replay_mu; a failed refill is only logged.
NoteReturns(a) ==
    /\ refill.holder = a /\ RefillOver
    /\ backlog' = Backlog(adm)
    /\ refill' = NoRefill
    /\ app' = [app EXCEPT ![a] = IdleApp]
    /\ returned' = Returned(<<app[a].scope, app[a].seq>>)
    /\ UNCHANGED <<disk, up, work, guard, adm, run, bounds, flushed>>
-----------------------------------------------------------------------------
(* The cycle slot: the worker's cycle, the full flush, and opening. *)

Goto(pc) == run' = [run EXCEPT !.pc = pc]

\* The worker takes the slot for a due batch, or for a partial one when the
\* idle deadline has passed.  Under a receipt its cycle is BUSY and changes
\* nothing, which is not modelled as a step.
WorkerStart ==
    /\ up /\ run.owner = None /\ ~Suspended
    /\ backlog \/ queue # <<>>
    /\ run' = [IdleRun EXCEPT !.owner = "worker", !.pc = "replay",
                  !.force = ~backlog /\ Len(queue) < TurnBatch]
    /\ UNCHANGED <<disk, up, work, guard, admission, app, bounds, ghosts>>

\* asper_flush(full) gets the slot and freezes the endpoints of admission.
FlushStart ==
    /\ up /\ run.owner = None /\ flushes < MaxFlushes
    /\ flushes' = flushes + 1
    /\ run' = [IdleRun EXCEPT !.owner = "flush", !.pc = "capture", !.force = TRUE,
                  !.goal = returned]
    /\ UNCHANGED <<disk, up, work, guard, admission, app, issued, faults, restarts,
                   ghosts>>

\* Mutation: the budget counts the scopes that are behind, not their events.
LeftScopes(a) == Cardinality({s \in Elements(a.known) : a.cursor[s] < a.end[s]})

Left(a) ==
    LET sum[n \in 0 .. Len(a.known)] ==
            IF n = 0 THEN 0
            ELSE sum[n - 1] + a.end[a.known[n]] - a.cursor[a.known[n]]
    IN  sum[Len(a.known)]

FlushCapture ==
    /\ run.pc = "capture" /\ refill.holder = None
    /\ LET a == IF Opened.dirty THEN Inventory(Opened) ELSE Opened
           captured == [Capture(a, a.refresh) EXCEPT !.frozen = TRUE]
           budget == Len(queue) + Left(captured)
       IN  /\ adm' = captured
           /\ run' = [run EXCEPT !.budget = budget,
                                 !.pc = IF budget = 0 THEN "release" ELSE "replay"]
    /\ UNCHANGED <<disk, up, work, guard, backlog, refill, app, bounds, ghosts>>

FlushCaptureFails ==
    /\ run.pc = "capture" /\ refill.holder = None
    /\ Fault("read")
    /\ run' = [run EXCEPT !.ok = FALSE, !.pc = "release"]
    /\ UNCHANGED <<disk, up, work, guard, admission, app, issued, restarts, flushes,
                   ghosts>>

\* asper_source_replay_pending: nothing while suspended, else a refill.  The
\* guard of the cycle then refuses queued turns (BUSY).
Replay ==
    /\ run.pc = "replay" /\ refill.holder = None
    /\ IF Suspended
       THEN /\ UNCHANGED <<adm, refill, backlog>>
            /\ run' = IF run.owner = "open" THEN [run EXCEPT !.pc = "opened"]
                      ELSE [run EXCEPT !.pc = "release", !.ok = queue = <<>>]
       ELSE BeginRefill("cycle", Opened) /\ Goto("refill")
    /\ UNCHANGED <<disk, up, work, guard, app, bounds, ghosts>>

\* Mutation: a flush goes on after a failed batch.
EndRunRetries(ok) ==
    CASE run.owner = "worker" -> run' = IdleRun
      [] run.owner = "flush" /\ (~ok \/ run.budget > 1) ->
           run' = [IdleRun EXCEPT !.owner = "flush", !.pc = "replay", !.force = TRUE,
                     !.goal = run.goal,
                     !.budget = IF ok THEN run.budget - 1 ELSE run.budget]
      [] run.owner = "flush" /\ ok /\ run.budget <= 1 ->
           run' = [run EXCEPT !.pc = "release", !.ok = ok]
      [] run.owner = "open" -> run' = [run EXCEPT !.pc = "replay"]

\* How a cycle ends: what the owner of the slot does next.
EndRun(ok) ==
    CASE run.owner = "worker" -> run' = IdleRun
      [] run.owner = "flush" /\ ok /\ run.budget > 1 ->
           run' = [IdleRun EXCEPT !.owner = "flush", !.pc = "replay", !.force = TRUE,
                     !.goal = run.goal, !.budget = run.budget - 1]
      [] run.owner = "flush" /\ ~(ok /\ run.budget > 1) ->
           run' = [run EXCEPT !.pc = "release", !.ok = ok]
      [] run.owner = "open" -> run' = [run EXCEPT !.pc = "replay"]

\* Mutation: a failed batch is dropped.
FailRunDrops ==
    /\ batch' = <<>> /\ UNCHANGED queue
    /\ EndRun(FALSE)

\* Mutation: a failed batch goes to the end of the queue.
FailRunRequeues ==
    /\ queue' = queue \o batch /\ batch' = <<>>
    /\ EndRun(FALSE)

\* Every error of a cycle after take_turns: the batch returns to the head.
FailRun ==
    /\ queue' = batch \o queue /\ batch' = <<>>
    /\ EndRun(FALSE)

\* The first load, or the reload of a dirty inventory, fails.
ReplayFails ==
    /\ run.pc = "replay" /\ refill.holder = None /\ ~Suspended
    /\ IF adm = None THEN TRUE ELSE adm.dirty /\ ~adm.frozen
    /\ Fault("read")
    /\ backlog' = IF adm = None THEN backlog ELSE TRUE
    /\ IF run.owner = "open" THEN Goto("failed") ELSE EndRun(FALSE)
    /\ UNCHANGED <<disk, up, work, guard, adm, refill, app, issued, restarts, flushes,
                   ghosts>>

ReplayReturns ==
    /\ refill.holder = "cycle" /\ RefillOver
    /\ backlog' = Backlog(adm)
    /\ refill' = NoRefill
    /\ IF run.owner = "open" THEN Goto(IF refill.failed THEN "failed" ELSE "opened")
       ELSE IF refill.failed THEN EndRun(FALSE) ELSE Goto("take")
    /\ UNCHANGED <<disk, up, work, guard, adm, app, bounds, ghosts>>

\* take_turns: the longest prefix of one scope; all of it when forced.
TakeTurns ==
    /\ run.pc = "take" /\ queue # <<>>
    /\ LET most == IF run.force \/ Len(queue) <= TurnBatch THEN Len(queue) ELSE TurnBatch
           same(n) == \A i \in 1 .. n : queue[i][1] = queue[1][1]
       IN  \E n \in 1 .. most :
             /\ same(n) /\ (n < most => ~same(n + 1))
             /\ batch' = SubSeq(queue, 1, n)
             /\ queue' = SubSeq(queue, n + 1, Len(queue))
    /\ Goto("generate")
    /\ UNCHANGED <<disk, up, guard, admission, app, bounds, ghosts>>

NothingToTake ==
    /\ run.pc = "take" /\ queue = <<>>
    /\ run' = IF run.owner = "flush" THEN [run EXCEPT !.pc = "release"] ELSE IdleRun
    /\ UNCHANGED <<disk, up, work, guard, admission, app, bounds, ghosts>>

\* Mutation: the whole batch goes back, not what the transcript left over.
GenerateReturnsAll(included) ==
    /\ run.pc = "generate" /\ included \in 1 .. Len(batch)
    /\ batch' = SubSeq(batch, 1, included)
    /\ queue' = (IF included < Len(batch) THEN batch ELSE <<>>) \o queue
    /\ Goto("begin")
    /\ UNCHANGED <<disk, up, guard, admission, app, bounds, ghosts>>

\* The transcript keeps a prefix of the batch, the rest goes back to the head,
\* and the model generates a proposal for that prefix without any lock.
Generate(included) ==
    /\ run.pc = "generate" /\ included \in 1 .. Len(batch)
    /\ batch' = SubSeq(batch, 1, included)
    /\ queue' = SubSeq(batch, included + 1, Len(batch)) \o queue
    /\ Goto("begin")
    /\ UNCHANGED <<disk, up, guard, admission, app, bounds, ghosts>>

\* No transcript fits, retrieval, the model or the parser fails.
GenerateFails ==
    /\ run.pc = "generate" /\ Fault("generate")
    /\ FailRun
    /\ UNCHANGED <<disk, up, guard, admission, app, issued, restarts, flushes, ghosts>>

Prepared == [id |-> issued + 1, sources |-> Elements(batch), outcome |-> "prepared",
             applied |-> 0, rejected |-> 0]

\* asper_curation_begin: sync the journal, then guard and receipt.
Begin ==
    /\ run.pc = "begin" /\ ~poisoned /\ ~Suspended
    /\ synced' = Len(journal)
    /\ issued' = issued + 1
    /\ receipt' = Prepared /\ pending' = Prepared
    /\ Goto("ops")
    /\ UNCHANGED <<log, index, curated, archive, journal, up, work, poisoned, admission,
                   app, faults, restarts, flushes, ghosts>>

\* The journal sync poisons the store; a poisoned store begins nothing; or the
\* receipt may not have reached the disk, and the guard stays all the same.
BeginFails ==
    /\ run.pc = "begin"
    /\ \/ /\ poisoned
          /\ UNCHANGED <<poisoned, receipt, pending, issued, faults>>
       \/ /\ ~poisoned /\ Fault("journal")
          /\ poisoned' = TRUE
          /\ UNCHANGED <<receipt, pending, issued>>
       \/ /\ ~poisoned /\ Fault("receipt")
          /\ receipt' = Prepared /\ pending' \in {pending, Prepared}
          /\ issued' = issued + 1
          /\ UNCHANGED poisoned
    /\ FailRun
    /\ UNCHANGED <<log, index, curated, archive, journal, synced, up, admission, app,
                   restarts, flushes, ghosts>>

OpsLeft == run.pc = "ops" /\ run.applied + run.rejected < MaxOps

\* An operation passes the funnel and is in the journal, not yet on disk.
ApplyOp ==
    /\ OpsLeft /\ ~poisoned
    /\ journal' = Append(journal, receipt)
    /\ run' = [run EXCEPT !.applied = @ + 1]
    /\ UNCHANGED <<log, index, curated, pending, archive, synced, up, work, guard,
                   admission, app, bounds, ghosts>>

\* Malformed, refused by the guardrails, or failed: counted, nothing else.  An
\* append that poisons the store may have left its frame in the journal.
RejectOp ==
    /\ OpsLeft
    /\ run' = [run EXCEPT !.rejected = @ + 1]
    /\ \/ UNCHANGED <<poisoned, journal, faults>>
       \/ /\ ~poisoned /\ Fault("journal")
          /\ poisoned' = TRUE
          /\ journal' \in {journal, Append(journal, receipt)}
    /\ UNCHANGED <<log, index, curated, pending, archive, synced, up, work, receipt,
                   admission, app, issued, restarts, flushes, ghosts>>

\* Meanwhile a host's own mutation may fail and poison the store.
HostPoisons ==
    /\ up /\ ~poisoned /\ Fault("journal")
    /\ poisoned' = TRUE
    /\ UNCHANGED <<disk, up, work, receipt, admission, app, run, issued, restarts,
                   flushes, ghosts>>

\* Mutation: the batch completes on an unsynced journal.
EpilogueWithoutSync ==
    /\ run.pc = "ops" /\ ~poisoned
    /\ Goto("finish")
    /\ UNCHANGED <<disk, up, work, guard, admission, app, bounds, ghosts>>

\* cycle_epilogue: every operation is on disk before the batch completes.
Epilogue ==
    /\ run.pc = "ops" /\ ~poisoned
    /\ synced' = Len(journal)
    /\ Goto("finish")
    /\ UNCHANGED <<log, index, curated, pending, archive, journal, up, work, guard,
                   admission, app, bounds, ghosts>>

\* The store is poisoned, by now or before; or only the access update failed,
\* and what the batch did is on disk.
EpilogueFails ==
    /\ run.pc = "ops"
    /\ \/ poisoned /\ UNCHANGED <<poisoned, synced, faults>>
       \/ ~poisoned /\ Fault("journal") /\ poisoned' = TRUE /\ UNCHANGED synced
       \/ ~poisoned /\ Fault("journal") /\ synced' = Len(journal) /\ UNCHANGED poisoned
    /\ FailRun
    /\ UNCHANGED <<log, index, curated, pending, archive, journal, up, receipt, admission,
                   app, issued, restarts, flushes, ghosts>>

Processed == [receipt EXCEPT !.outcome = "processed", !.applied = run.applied,
                             !.rejected = run.rejected]

\* asper_curation_finish replaces the receipt on disk, then the guard.
Finish ==
    /\ run.pc = "finish" /\ ~poisoned
    /\ pending' = Processed /\ receipt' = Processed
    /\ Goto("archive")
    /\ UNCHANGED <<log, index, curated, archive, journal, synced, up, work, poisoned,
                   admission, app, bounds, ghosts>>

FinishFails ==
    /\ run.pc = "finish"
    /\ \/ poisoned /\ UNCHANGED <<pending, faults>>
       \/ Fault("receipt") /\ pending' \in {pending, Processed}
    /\ FailRun
    /\ UNCHANGED <<log, index, curated, archive, journal, synced, up, guard, admission,
                   app, issued, restarts, flushes, ghosts>>
-----------------------------------------------------------------------------
(* finalize: history, acknowledgement, removal of the receipt, in this     *)
(* order; a crash or an error between two of them leaves the receipt.      *)

Archived == IF archive # <<>> /\ archive[Len(archive)].id = receipt.id
            THEN archive ELSE Append(archive, receipt)

Acknowledged == curated \cup receipt.sources

\* Mutation: the receipt is removed before its sources are acknowledged.
ArchiveReceiptSkipsMark ==
    /\ run.pc = "archive"
    /\ archive' = Archived
    /\ Goto("remove")
    /\ UNCHANGED <<log, index, curated, pending, journal, synced, up, work, guard,
                   admission, app, bounds, ghosts>>

ArchiveReceipt ==
    /\ run.pc = "archive"
    /\ archive' = Archived
    /\ Goto("mark")
    /\ UNCHANGED <<log, index, curated, pending, journal, synced, up, work, guard,
                   admission, app, bounds, ghosts>>

MarkCurated ==
    /\ run.pc = "mark"
    /\ curated' = Acknowledged
    /\ Goto("remove")
    /\ UNCHANGED <<log, index, pending, archive, journal, synced, up, work, guard,
                   admission, app, bounds, ghosts>>

\* The receipt is gone from disk and memory; the batch leaves the queue.
RemoveReceipt ==
    /\ run.pc = "remove"
    /\ pending' = None /\ receipt' = None
    /\ batch' = <<>>
    /\ EndRun(TRUE)
    /\ UNCHANGED <<log, index, curated, archive, journal, synced, up, queue, poisoned,
                   admission, app, bounds, ghosts>>

\* An uncertain write: it may have reached the disk although it failed.
FinalizeFails ==
    /\ run.pc \in {"archive", "mark", "remove"} /\ Fault("finalize")
    /\ \/ run.pc = "archive" /\ archive' \in {archive, Archived}
          /\ UNCHANGED <<curated, pending>>
       \/ run.pc = "mark" /\ curated' \in {curated, Acknowledged}
          /\ UNCHANGED <<archive, pending>>
       \/ run.pc = "remove" /\ pending' \in {pending, None}
          /\ UNCHANGED <<archive, curated>>
    /\ IF run.owner = "open" THEN Goto("failed") /\ UNCHANGED work ELSE FailRun
    /\ UNCHANGED <<log, index, journal, synced, up, guard, admission, app, issued,
                   restarts, flushes, ghosts>>

\* The full flush thaws admission and lets the slot go.  Its review, access
\* flush and compaction refuse to run under a receipt or a poisoned store.
FlushRelease ==
    /\ run.pc = "release" /\ refill.holder = None
    /\ adm' = IF adm = None THEN None ELSE [adm EXCEPT !.frozen = FALSE]
    /\ backlog' = Backlog(adm)
    /\ flushed' = IF run.ok /\ ~Suspended /\ ~poisoned THEN run.goal ELSE flushed
    /\ run' = IdleRun
    /\ UNCHANGED <<disk, up, work, guard, refill, app, bounds, returned>>
-----------------------------------------------------------------------------
(* The process ends and starts again. *)

EmptyMemory ==
    /\ up' = FALSE /\ receipt' = None /\ poisoned' = FALSE
    /\ queue' = <<>> /\ batch' = <<>>
    /\ adm' = None /\ backlog' = FALSE /\ refill' = NoRefill
    /\ app' = [a \in Appender |-> IdleApp] /\ run' = IdleRun
    /\ flushed' = {}

\* Of the operations that were not synced any suffix is lost.
LoseUnsynced ==
    \E k \in synced .. Len(journal) :
        journal' = SubSeq(journal, 1, k) /\ synced' = k

Crash ==
    /\ up \/ run.owner = "open"
    /\ restarts < MaxRestarts /\ restarts' = restarts + 1
    /\ LoseUnsynced
    /\ EmptyMemory
    /\ UNCHANGED <<log, index, curated, pending, archive, issued, faults, flushes,
                   returned>>

\* asper_close: no cycle runs, queued turns are discarded, an intact journal
\* is synced.  A host whose store is guarded or poisoned may always close it.
Close ==
    /\ up /\ run.owner = None /\ \A a \in Appender : app[a].pc = "idle"
    /\ \/ restarts < MaxRestarts /\ restarts' = restarts + 1
       \/ (Suspended \/ poisoned) /\ UNCHANGED restarts
    /\ IF poisoned THEN LoseUnsynced
       ELSE synced' = Len(journal) /\ UNCHANGED journal
    /\ EmptyMemory
    /\ UNCHANGED <<log, index, curated, pending, archive, issued, faults, flushes,
                   returned>>

\* Mutation: a prepared receipt is taken for one that did nothing.
RecoverReplays ==
    /\ ~up /\ run.owner = None
    /\ LET terminal == pending # None /\ pending.outcome # "prepared"
       IN  /\ receipt' = IF terminal THEN pending ELSE None
           /\ pending' = IF terminal THEN pending ELSE None
           /\ run' = [IdleRun EXCEPT !.owner = "open",
                         !.pc = IF terminal THEN "archive" ELSE "replay"]
    /\ UNCHANGED <<log, index, curated, archive, journal, synced, up, work, poisoned,
                   admission, app, bounds, ghosts>>

\* Mutation: only a processed receipt is finalized, not an acknowledged one.
RecoverProcessed ==
    /\ ~up /\ run.owner = None
    /\ receipt' = pending
    /\ run' = [IdleRun EXCEPT !.owner = "open",
                  !.pc = IF pending = None \/ pending.outcome # "processed"
                         THEN "replay" ELSE "archive"]
    /\ UNCHANGED <<disk, up, work, poisoned, admission, app, bounds, ghosts>>

\* asper_open takes the store lock and recovers the receipt: a terminal one is
\* finalized again, a prepared one suspends curation.
Recover ==
    /\ ~up /\ run.owner = None
    /\ receipt' = pending
    /\ run' = [IdleRun EXCEPT !.owner = "open",
                  !.pc = IF pending = None THEN "replay"
                         ELSE IF pending.outcome = "prepared" THEN "replay"
                         ELSE "archive"]
    /\ UNCHANGED <<disk, up, work, poisoned, admission, app, bounds, ghosts>>

OpenReturns ==
    /\ run.pc = "opened"
    /\ up' = TRUE /\ run' = IdleRun
    /\ UNCHANGED <<disk, work, guard, admission, app, bounds, ghosts>>

\* asper_open fails: the context is destroyed and the store stays closed.
OpenFails ==
    /\ run.pc = "failed"
    /\ EmptyMemory
    /\ UNCHANGED <<disk, bounds, returned>>

\* store.py curation acknowledge, on a closed store: the operator accepts the
\* effects of an interrupted batch as they are.
OperatorAcknowledge ==
    /\ ~up /\ run.owner = None
    /\ pending # None /\ pending.outcome = "prepared"
    /\ pending' = [pending EXCEPT !.outcome = "interrupted"]
    /\ UNCHANGED <<log, index, curated, archive, journal, synced, up, work, guard,
                   admission, app, run, bounds, ghosts>>
-----------------------------------------------------------------------------
AppendStep ==
    \E a \in Appender, s \in Scope, k \in Kind :
        EventAppend(a, s, k) \/ EventAppendFails(a, s, k)

NoteStep == \E a \in Appender : NoteScope(a) \/ NoteFails(a) \/ NoteReturns(a)

RefillStep == RefillScope \/ FillEvent \/ FillFails \/ FillScopeDone

\* The steps of whoever owns the cycle slot.
CycleStep ==
    \/ FlushCapture \/ FlushCaptureFails \/ Replay \/ ReplayFails \/ ReplayReturns
    \/ TakeTurns \/ NothingToTake
    \/ \E n \in 1 .. QueueLimit : Generate(n)
    \/ GenerateFails \/ Begin \/ BeginFails \/ ApplyOp \/ RejectOp
    \/ Epilogue \/ EpilogueFails \/ Finish \/ FinishFails
    \/ ArchiveReceipt \/ MarkCurated \/ RemoveReceipt \/ FinalizeFails
    \/ FlushRelease \/ OpenReturns \/ OpenFails

Next ==
    \/ AppendStep \/ NoteStep \/ RefillStep \/ CycleStep
    \/ WorkerStart \/ FlushStart \/ HostPoisons
    \/ Crash \/ Close \/ Recover \/ OperatorAcknowledge

Spec == Init /\ [][Next]_vars

\* The threads of a running context keep going; nobody has to append, flush,
\* close or open.  The generator answers, the number of faults is finite, and
\* a failing worker waits a second or more before it takes replay_mu again, so
\* a host thread that waits for that mutex gets it.
FairSpec ==
    /\ Spec
    /\ SF_vars(NoteStep) /\ WF_vars(RefillStep) /\ WF_vars(CycleStep)
    /\ WF_vars(WorkerStart)

\* Besides, the host reopens a closed store, and does what the BUSY message of
\* asper_curation_guard asks for: it closes the guarded store, and the operator
\* inspects the receipt and acknowledges it.
FairHostSpec ==
    /\ FairSpec
    /\ WF_vars(Recover) /\ SF_vars(Close /\ (Suspended \/ poisoned))
    /\ SF_vars(OperatorAcknowledge)
=============================================================================
