# Asper: a verification development

Asper is an embedded memory store written in C11.  A host appends exact events to *scopes*; a
local model (the *curator*) reads the accumulated turns in batches and proposes operations on a
small table of memory *records*; recall grounds a query on those records.  All state is files in
one directory: an append-only event log per scope, record snapshots, an operation journal, and
the receipts that tie a batch of events to the operations it produced.

This directory holds TLA+ modules that describe the parts of Asper that are hard to test, TLC
configurations that check them on small instances, and TLAPS proofs.  Paths below are relative to
the repository (`src/curator.c` of the library is `src/src/curator.c` in the maps).

Run from here:

    tlasany TurnQueue.tla
    tlc -workers 2 -config MCCurationCrash.cfg MCCuration
    tlapm TurnQueueProofs.tla

## 1. The system

| Component | State it keeps | Operations | Meets |
|---|---|---|---|
| **Curation turn queue** `turn_queue.c` | `turns`, `turns_cap`, byte counters, `turns_inflight` | admit (room check, then append), take, shorten, put back, release, drop | producers and the cycle, under `ev_mu` |
| **Event append, progressive admission** `source_events.c`, `source_pending.c`, `source_replay.c`, `source_deferred.c` | `scopes/index.log`, `scopes/<s>/events.log`, cursors and endpoints per scope, the cached acknowledged set, `source_backlog` | append, note, refill, capture, freeze, thaw | hosts and the cycle, under `source_mu`, `replay_mu`, `ev_mu` |
| **Curation cycle, receipts** `curator.c`, `curation_receipt.c`, `curation_codec.c`, `curation_input.c` | the batch, `curation.pending`, the curation history, `curated-events.log`, `store.curation_receipt` | guard, take, generate, begin, apply, epilogue, finish, finalize, recover | queue, journal, the offline operator |
| **Full flush** `worker.c`, `api.c` | a budget of batches, the frozen prefixes | capture, drain, release, review, compact | owns the cycle slot while it drains |
| **Worker, cycle slot** `worker.c`, `api.c` | `cycle_busy`, `recall_waiting`, `stop_worker`, two condition variables, deadlines | trigger, cycle, review, backoff, sleep, recall, flush, stop | everybody, under `ev_mu` |
| **Operation journal** `journal.c` | `journal.xcdn`, `journal_ops`, `poisoned` | append, sync, replay, reset | the mutation funnel, compaction |
| **Snapshots, compaction** `store_compact.c`, `store_transaction.c`, `store_files.c` | section files, `compact.pending`, `*.compact.bak` | back up, mark, replace, reset, commit, roll back, recover | journal, open |
| **Record table, funnel** `store.c`, `record_*.c`, `api.c` | the table in memory | insert, update, deprecate, keep, lock, access | hosts and curator, under the store lock |
| **Guardrails, quorum, review** `curator.c` | identity proposals of the last cycles | judge an operation, count agreeing proposals, review decayed records | record table |
| **Access batch, decay** `worker.c`, `decay.c` | pending accesses | note, detach, journal, decay | prompt injection, journal |
| **Prompt injection** `api.c`, `inject.c`, `retrieve.c`, `hybrid.c` | none | gather three sections, render a template | record table, access batch |
| **Exact event log** `event_log.c`, `event_index.c`, `event_frame.c`, `source_view.c`, `source_pins.c`, `source_history.c` | framed log, in-memory index, pins | append, rebuild, list, page, pin | hosts, under `source_mu` |
| **Objects, checkpoints** `source_objects.c`, `source_checkpoint.c`, `os_blob.c` | content-addressed objects, checkpoint files | put, commit, latest | event log |
| **Source context** `source_context.c` | none | assemble a read-only view | event log, checkpoints |
| **Knowledge** `knowledge_*.c` | revisions in `knowledge.events`, entries in memory, observed versions | ground, revoke, observe, status, replay | records, source views |
| **Embedding index, cache, retrieval** `index.c`, `cache.c`, `retrieve.c`, `hybrid.c` | vectors by record, `embeddings.bin` | upsert, remove, search, save, load | record table |
| **Manifest, configuration** `manifest.c`, `config.c` | read once at open | load, save | open |
| **Model backends, grammar** `models.c`, `*_llama.c`, `grammar.c`, `output_contract.c` | model handles | generate, embed | the cycle slot |
| **Platform layer** `os_*.c`, `time.c`, `uuid.c`, `sha256.c` | - | atomic replace, sync, locks, conditions | all |
| **MCP server** `mcp/main.c` | one open context | a request loop over the public API | the API |
| **Offline administration** `scripts/store_admin/` | - | acknowledge a receipt, defer events, erase, archive | a closed store |

**Locks.** `lock` (read/write, the record table) is taken before `journal_mu`; `ev_mu` guards the
queue and the cycle slot and is never held while `lock` is taken; `source_mu` guards the event
logs, `replay_mu` the admission cursors, `cache_mu` the embedding snapshot.  `LockOrder` lists every
nesting.  `ev_cv` wakes the worker, `done_cv` everybody who waits
for the slot.

**What is hard.**  The model generates for seconds while no lock is held, and everything that was
read before may have changed when it answers.  Every durable write can fail *after* it became
visible.  Three logs (events, operations, acknowledgements) must agree after a crash between any
two of their writes.  Wake-ups go over two condition variables, with deadlines that pass while
the slot is taken.  `PROJECT.json` lists these hazards line by line.

**What makes each part correct.**

- *Queue*: bounded, exact byte accounting, first in first out, and a failed batch always fits back.
- *Admission*: no turn is skipped or admitted twice; an idle worker has nothing left to do.
- *Cycle*: no source is curated twice; an acknowledgement implies durable effects; turns of a
  scope are curated in order.
- *Flush*: it covers what had been stored when it was called, it ends, it reports what happened.
- *Slot*: one generation at a time, no lost wake-up, every call returns, close joins.
- *Store*: what was reported durable survives; loss is a suffix; purged records stay purged; the
  store always opens again.
- *Records*: the host's lock and text win over a stale judgement; index, cache and table agree; an
  identity changes only after two cycles agreed.
- *Events*: an acknowledged event stays where it is; a page neither skips nor repeats; an open view
  does not change under its reader; what an event refers to is there.
- *Checkpoints, context*: a checkpoint is never hidden by one that was committed before it
  began; the history given to the
  model is the oldest pins, then the newest of the rest.
- *Knowledge*: a revision that was acknowledged is replayed; a record is CURRENT only when its own
  or its supporters' evidence says so now.
- *Prompt*: it shows the records that were gathered, budget and order kept, and notes those, once.
- *Locks*: no circle of threads waits for one another.
- *MCP*: one answer per request and none per notification, which tells whether the tool was run.

## 2. The modules

| Module | Role |
|---|---|
| `FifoQueue` | abstract first-in first-out queue with ownership of its head |
| `TurnQueue` | `turn_queue.c` and the batch ownership of `curator.c`; implements `FifoQueue` |
| `TurnQueueProofs` | its theorems |
| `ClaimLedger` | abstract promise about a source event: at most one claim touches it |
| `Curation` | append, admission, cycle, receipts, flush, crash, recovery, operator; implements `ClaimLedger` |
| `CurationProperties` | its properties and the refinement mapping |
| `CurationProofs` | its theorems |
| `StoreTransaction` | journal, snapshots, compaction and its recovery |
| `StoreTransactionProofs` | its theorems |
| `CycleSlot` | worker, recalls and flushes on the cycle slot |
| `RecordLaw` | abstract life of a record: absent, live, retired, purged, held by its operator |
| `Records` | table and funnel, hosts, cycles and reviews with their copies, quorum, purge, vector index and its cache; implements `RecordLaw` |
| `RecordsProofs` | its theorems |
| `EventLog` | one framed log with its index |
| `Sources` | a scope: the log of `EventLog`, pins, objects, checkpoints, pages and views, used by several hosts |
| `SourcesProofs` | theorems about `EventLog` and `Sources` |
| `SourceHistory` | the choice of history for a context |
| `Knowledge` | revisions, observations, statuses and replay |
| `LockOrder` | the nestings of the locks |
| `ThreadProofs` | theorems about `CycleSlot` and `LockOrder` |
| `Injection` | what a prompt shows and which accesses it notes |
| `McpServer` | the request loop of `asper-mcp` |
| `Lists`, `ListProofs` | arrays as the code uses them: sums, filters, `qsort`; their lemmas |
| `EvidenceProofs` | theorems about `Knowledge`, `SourceHistory`, `McpServer` and `Injection` |
| `MC*` | instances for TLC |

`Curation` composes the queue (without byte accounting, which `TurnQueue` settles), the cycle and
the receipts; it takes the slot as exclusive ownership (`run.owner`), which `CycleSlot` justifies,
and an operation as one frame of the journal, which `StoreTransaction` justifies: a synced frame
survives, unsynced ones are lost from the end.  `Sources` composes `EventLog` with everything that
refers to it.  `Knowledge` takes of its own log what `SourcesProofs` establishes of an event log.  `MCEvidence` puts
six machines that share no state side by side; `focus` chooses the one that moves.

### TurnQueue
`turns`, `batch`, `inflight`, `cap` and the two byte counters are the fields of the context;
`incoming` is an admission between its first room check and its append, for the code reads the
event's metadata in between without `ev_mu`.  `CheckRoom`, `Enqueue` / `EnqueueFails` are
`asper_turn_queue_room` and `_append`, `TakeTurns` is `take_turns`, `ShortenBatch` the put-back of
what the transcript had no room for, `FailCycle` `restore_turns`, `Release` and `DropAll` the ends
of a cycle.  `admitted` and `settled` are history.  A turn's text is its size.

### Curation
An event is `<<scope, sequence>>`.  Disk (`log`, `index`, `curated`, `pending`, `archive`, `journal`,
`synced`) survives a crash, the rest does not.  `app` is where each host thread is in
`asper_event_append` (durable, then noted, then returned), `refill` the walk over scopes under
`replay_mu`, one step per scope and event because the cycle runs meanwhile, and `run` the owner of
the slot: its `pc` goes *guard → replay → take → generate → begin → ops → epilogue → finish →
archive → mark → remove*, with an error path at each.  A write that fails *in doubt* has two
outcomes: visible or not.  `Crash` loses an unsynced tail of the journal; `Close` loses memory only;
`Recover` is the receipt recovery of `asper_open`; `OperatorAcknowledge` is
`store.py curation acknowledge`.

### StoreTransaction
A record is the operation that inserted it.  A compaction copies the files, writes the marker,
replaces every section, resets the journal, removes the marker: one step per file, a failure or
power failure between any two.  `marker` is what the file system shows, `kept` what a power failure
may show instead (a marker whose write or removal was not synced).  A failed append retracts its
bytes or poisons the store.  `Open`, `Restore`, `RestoreDone`, `Load` are `asper_store_open`.

### CycleSlot
A step is what a thread does between two releases of `ev_mu`.  Signals wake those asleep at that
moment and are lost otherwise; a woken thread looks at the state again.  Time is two flags
(`idleDue`, `maintDue`) and a set `late` of recalls past their deadline; `timed` is the deadlines
the worker's timed wait was computed from, since a deadline that passed while the slot was taken is
not waited for.

### Records
`table` holds what the guards read of a record: section, text, evidence (*host* stands for declared
or observed), lock, retirement.  `Insertable`, `Updatable`, `Deprecatable`, `Keepable` are the cases
of `apply_validate`; `Insert`, `Update`, `Deprecate`, `Keep` those of `asper_store_apply` with the
index work `asper_apply_op` adds.  `run` owns the cycle slot: `copies` are the clones
`collect_related` or `review_collect` made, `seen` the same-cycle guard, `left` the rest of the
reply, whose lines are chosen one by one while hosts go on.  `cycle_do_mutate` judges the copy
(`Judged`), then asks the quorum set (`CycleProposes`, `CycleConfirms`), then the funnel, which
judges the record.  `index` is rows, vectors and every record's `emb_row`; a vector is the text it was
made of.  `cache` is `embeddings.bin`, `saver` the snapshot being written without locks.  `Reopen`
is a crash or a close followed by an open: it rebuilds the index from the cache and embeds the rest.
`votes` is history for the quorum property.

### EventLog and Sources
`frames`, `torn` and `index` are the two files; offsets are counted in half frames, so a torn tail is
half a frame and every row says where its frame ends.  `AppendOk`, `AppendFails` and `AppendRefused`
are `asper_event_log_append`, `Open` and `OpenFails` `asper_event_log_load` with `IndexAccepted` for
the checks that decide between the index and a rebuild.  `PowerFailure` keeps what was synced
(`durable`) and any part of the rest; `Damage` makes one frame unreadable.  `acked` is history.

`Sources` adds what hosts do with a scope.  `source_mu` is held for a part of a call at a time, so
`call` says where each host is: an origin or a checkpoint text is put (`PutObject`) before the event
that refers to it is stored (`Store`), the file of the checkpoint follows under a lock of its own
(`CommitFile`), a page is read and its cursor used later (`WalkPage`), a view is captured once and
read event by event (`ViewRead`).  A page that meets an unreadable row of an index that was believed
rebuilds it (`ReadPage`).  `pins` is the overlay of `set_pinned`, `checkpoint` `checkpoint.txt`.

`scope` is the line in `scopes/index.log`, by what a power failure would leave of it (`ScopesLeft`).
`register_scope_locked` syncs the file it appends to and not the directory in which `fopen` made it
(`event_log.c:22` does), so a new line is *synced* and not *durable*: a power failure may take the
file whole, with the event kept.  `doubted` then has *index* in it.  `pins.log` is made in the same way
(`PinsLeft`).  That the mkdir of another scope's directory, or a replaced file beside `pins.log`, may since
have synced the entry is left out: a model that loses more has every behaviour of one that loses
less.

### SourceHistory
`pass` 1 takes pinned events from the oldest on, `pass` 2 fills the rest with the newest; `Look` is
one event of either, `Return` the two recounts (the history with its heading, then the whole).

### Knowledge
`record` is the part of the table that statuses read, `klog` the revisions and `entry` their latest in
memory.  `Ground` and its failures are `asper_memory_ground` and `_revoke`, with what is
refused (`Acceptable`, `Valid`); `Refreshed` is the recomputation in its order: own validity,
supersession, support, contradiction, support again.  A visit of all links (`Visit`) applies the `Effect`
of each in turn; support takes as many rounds as there are entries (`Propagate`; the code stops when one
changes nothing).  `Reaches` is the search of `knowledge_validate` for a circle, as a closure.  Readers
refresh under the lock they read under, so a status is a function of the state.  `Reopen` replays and validates a second time.

### LockOrder
`held` and `want` per thread; an `Ask` is allowed by the pairs of `Nested`, one operator per place of
the source where a lock is taken under another.  The reader-writer lock counts as exclusive.

### Injection
`gathered` is the clones `asper_retrieve` and the identity collection made, each under the lock but one
after another, while `TableChanges` goes on; `Fused` is the reciprocal rank of `hybrid.c` in integers.
`Trimmed` and `Kept` apply the budget, `Heading` and `DropSegment` the surgery on a template that
loses a section.  `Note`, `FlushTakes` and `FlushEnds` are the access batch.

### McpServer
A line is a record of what the handlers distinguish.  `stage` is where the one thread is.  Every exit
of a handler is an action; memory may run out in each (`Starving`), and what is left of the answer
is the code's.  `TOOLS` gives each tool its required and optional arguments.

## 3. The runs

| Run | Module, configuration | Asks | Result |
|---|---|---|---|
| `turn_queue` | `MCTurnQueue` | Does the queue stay bounded, exact, in order, and can a batch always be put back? | holds; 55,610 states |
| `curation_crash` | `MCCuration`, `MCCurationCrash` | Two hosts, every failure, two restarts: is a source ever claimed twice, or acknowledged with its effects gone? | holds; 627,756 states |
| `curation_admission` | `MCCuration`, `MCCurationAdmission` | Two scopes, one deferred event: is a turn lost, queued twice or forgotten? Does a flush cover what it was asked? | holds; 769,479 states |
| `curation_live` | `MCCuration`, `MCCurationLive` | Is every stored turn curated in the end? | holds; 142,926 states |
| `store` | `MCStoreTransaction` | Does a compaction, cut anywhere, keep every promise, and does the store open again? | holds; 94,979 states |
| `cycle_slot` | `MCCycleSlot` | One generation at a time, no lost wake-up, everybody returns? | holds; 122,020 states |
| `records` | `MCRecords` | Does a judgement over stale copies ever override a lock or a host's text, change an identity without a second cycle, or part index, cache and table? | holds; 681,970 states |
| `evidence` | `MCEvidence` | Events, views and checkpoints through a fault; history; grounding and replay; the locks; prompts; the MCP loop: does each keep what section 1 asks of it? | holds; 993,429 states |
| `records_declaration` | `MCRecords`, `MCRecordsDeclared` | tests/test_curator_cycles.c:239 and `curator.c:560` on declarations | violated |
| `curation_rejected` | `MCCuration`, `MCCurationRejected` | docs/SPECS.md:148-149 on rejected operations | violated |
| `curation_blank` | `MCCuration`, `MCCurationBlank` | docs/SPECS.md:246 on replay after restart | violated |
| `cycle_slot_compact` | `MCCycleSlot`, `MCCycleSlotCompact` | include/asper.h:380-381 on a full flush | violated |

**Bounds.**

- `turn_queue`: five turns in two scopes, texts of 1 or 3 bytes, three slots, five bytes.  The
  array grows from 1 over 2 to 3, a batch is taken, shortened and put back while the queue fills,
  and the byte limit bites before the slot limit.
- `curation_crash`: two turns, one operation, two failures of any kind, two restarts, one full
  flush, two host threads.  A double claim needs a receipt that failed or was cut off, a restart
  and a second cycle; two of each leave room for a failure during the recovery of a failure.
- `curation_admission`: two scopes with two events each and room for two turns, so a refill stops
  at a full queue in the middle of a scope; one event is deferred; failures at noting, reading,
  generating and writing a receipt.
- `curation_live`: one turn at a time, two turns in one scope, two failures, one restart.  The
  queue is full after every admission, so each later turn depends on a new wake-up.
- `store`: two section files and the journal, two operations, two failures, two crashes, two
  compactions.  Records alternate between kept and purged, and a compaction follows a recovery.
- `cycle_slot`: two clients, two calls, two events, one failing generation, one review.
  `QueueLimit` 1 with `TurnBatch` 2 makes the second event unread backlog, the only batch trigger.

- `records`: two records, two texts (symmetric), one identity at most, two runs of two lines each, a
  window and a purge age of 0 and 1 time units over two instants, and one budget of three for whatever
  comes from outside: host mutations, failed embeddings, saves, restarts, ticks.  Two rows make the
  swap-remove move a record; two runs are a proposal and its confirmation, and two lines a repetition
  inside one reply; three outside events are a record, a change behind the copy and a tick or a save.
- `evidence`, sources (441,200 states): two hosts, five calls of three mixes, a log of at most three
  frames of which up to two are there at first, pages of one event, one fault.  A page walk spans two
  or three calls with appends and a rebuild between them; two commits overlap at every step.
- `evidence`, history (145,108): every view of up to three events of ten shapes, budgets of 1 to 3, at
  most two events chosen: a pin too large, a pin that is the query, a budget that ends in either pass.
- `evidence`, knowledge (97,640): three records, two of them grounded or none, three operations of
  twelve shapes, one fault.  Three records are the smallest chain of support and of supersession.
- `evidence`, locks: three threads, so that circles of two and of three would show.
- `evidence`, mcp (3,632): every tool with its arguments right, absent and mistyped, with an id and
  without, and every malformed line.  The loop keeps nothing from line to line.
- `evidence`, injection (95,324): three tables of up to seven records, seven requests over four
  templates, two records per search, one change of the table during the call.

Deadlock is not checked: every instance ends when its bounds are spent, and an idle store rightly
waits for its host.  The liveness properties take its place.

**Fairness.**

- `Curation!FairSpec`: weak fairness of the refill, of the owner of the slot and of the worker's
  start (running threads keep running, a generation answers).  *Strong* fairness of the steps by
  which a host thread notes an event: it waits for `replay_mu`, which a failing worker takes over
  and over, but with a retry wait of a second or more in between (`worker.c`), in which the mutex
  is free.
- `FairHostSpec` adds what the host is told to do: open a closed store, close one whose curation is
  suspended or whose journal failed, acknowledge an interrupted receipt.  The last two are strong
  because another open or close may come first.  Only `RecoveryCompletes` needs it.
- `StoreTransaction!FairSpec`: a started compaction goes on, a closed store is opened.
- `CycleSlot!FairSpec`: worker, cycle, each client and the clocks.  Hosts owe nothing.  Their calls
  are bounded, and this matters: the worker yields to every waiting recall, so hosts that recall
  without pause can starve it.

### What the violated runs show

1. **Rejected operations are acknowledged** (`curation_rejected`).  SPECS.md says failed operations
   are rejected *without acknowledging their source events*; `curator.c:786` counts the rejection
   and the receipt is finished and acknowledged all the same.
2. **A blank turn blocks the store** (`curation_blank`).  `asper_event_append` accepts a text that
   `asper_turn_queue_append` refuses.  The refill stops there, and the next `asper_open` fails.
3. **A full flush that does not compact** (`cycle_slot_compact`).  The flush lets the slot go before
   it compacts; the worker may begin a receipt in between, and the compaction returns BUSY although
   the drain had succeeded.

4. **A cycle deprecates what the host has just declared** (`records_declaration`).  A cycle's copy
   shows an inferred record; while the model generates, the host declares it by
   `asper_memory_update`; the cycle's DEPRECATE passes `cycle_do_mutate`, which reads the copy, and
   `apply_validate`, which repeats the evidence check for UPDATE only (`api.c:325-349`).

Other places where text and code differ, without a run of their own: `asper_internal.h:627` says
stopping the worker *drains work*, but `worker.c:308-317` and `api.c:857-858` close without a cycle;
`asper_internal.h:623` says a recall that cannot get the slot returns `ASPER_ERR_BUSY`, but
`api.c:986-993` returns `ASPER_ERR_TIMEOUT`.  And, met while modelling the evidence machines:

- `inject.c:16-20`: accesses are noted for *exactly the records that were injected*.  A template line
  with two placeholders is dropped as a whole when one section is empty; the records of the other
  are noted all the same.  `PromptExact` asks nothing of such templates (`Neat`); without the exception TLC
  finds the case on the template `Crowded`.
- `knowledge_status.c:85-86`: statuses do not depend on the order of visits.  Whether a record is
  CURRENT does not; which bad status a record has that several reasons speak against (STALE,
  UNAVAILABLE, CONTESTED) can depend on the order of UUIDs.
- `knowledge_store.c:96`: a link whose target changed its text since is accepted before a restart and
  makes the claim UNAVAILABLE after it.
- `source_events.c:39-42`: the first line of `scopes/index.log` is synced in a file whose directory is not
  (`SPECS.md:246`: all unfinished curation is replayable after restart; `asper.h:106`: *Synchronous and
  durable*).  After a power failure the store may hold an event of a scope that its inventory does not
  name: it is not curated until something is appended to the scope again.  `EvidenceBacked` names this
  exception (*index*); asked without it, TLC loses the line in one step.  `source_events.c:210`: the
  first row of `pins.log` likewise.
- Supersession is applied by an entry whose own claim no longer matches its record, or is revoked.
- `mcp/main.c`: memory that runs out while a line is read is answered even for a notification; when it
  runs out in the JSON parser the answer is a parse error; when it runs out after the library call
  the error does not say that the effect stands.
- Of two overlapping commits the one whose file is written last wins `checkpoint.txt`, though its event
  may be the older.  `CheckpointFresh` asks only that a commit begun after another returned is never
  hidden by it.

## 4. The proofs

Each theorem assumes only the `ASSUME` of the module it is about, which TLC evaluates in the runs.

| Theorem | Property | Holds for |
|---|---|---|
| `TurnQueueProofs!TypeCorrect` | `[]TypeOK` | all scopes, limits, array, batch and text sizes |
| `TurnQueueProofs!QueueBounded` | `[]Bounded` | " |
| `TurnQueueProofs!RetryReserved` | `[]RestoreFits` | " |
| `TurnQueueProofs!OrderPreserved` | `[]AdmissionOrder` | " |
| `TurnQueueProofs!BytesAccounted` | `[]BytesExact` | " |
| `TurnQueueProofs!ImplementsFifo` | `Spec => FifoSpec` | " |
| `ThreadProofs!SlotExclusive` | `[]OneGeneration` | any finite set of clients, any limits and bounds |
| `ThreadProofs!WakeupsKept` | `[]NoLostWakeup` | " |
| `SourcesProofs!LogTypeCorrect` | `[]LogTypeOK` | any bodies, log sizes and number of faults |
| `SourcesProofs!AcknowledgedEventsStay` | `[]DurableKept` | " |
| `SourcesProofs!EvidenceFirst` | `[]EvidenceBacked` | any hosts, texts, page size, number of calls and faults |
| `SourcesProofs!ReadersNotMisled` | `[]ReadersExact` | " |
| `SourcesProofs!CheckpointStaysFresh` | `[]CheckpointFresh` | " |
| `SourcesProofs!AcknowledgedStayInScope` | `[]DurableKept` | " |
| `CurationProofs!ClaimedOnce` | `[]OneClaimPerSource` | any scopes, kinds, hosts, deferred events, queue and batch limits, log lengths, faults, restarts and flushes |
| `CurationProofs!AcknowledgedIsDurable` | `[]AckNeedsDurableEffects` | " |
| `CurationProofs!NoTurnIsLost` | `[]NoTurnLost` | " |
| `CurationProofs!QueuedAtMostOnce` | `[]QueuedOnce` | " |
| `CurationProofs!AcknowledgedInOrder` | `[]CuratedIsPrefix` | " |
| `CurationProofs!BacklogRemembered` | `[]NoForgottenBacklog` | " |
| `CurationProofs!FlushIsComplete` | `[]FlushCovers` | " |
| `CurationProofs!ImplementsLedger` | `Spec => LedgerSpec` | " |
| `StoreTransactionProofs!PromisesKept` | `[]NoPromiseBroken` | any sections, any number of operations, compactions, failures and crashes |
| `StoreTransactionProofs!LostFromTheEnd` | `[]LossFromTheEnd` | " |
| `StoreTransactionProofs!PurgedStaysGone` | `[]NothingComesBack` | " |
| `StoreTransactionProofs!DiskFollowsMemory` | `[]MemoryMatchesDisk` | " |
| `StoreTransactionProofs!OpenNeverRefused` | no recovery mismatch, no unloadable store | " |
| `RecordsProofs!HostEvidenceStands` | `HostTextStands` | any texts, number of records, host calls, cycles, reviews and restarts |
| `RecordsProofs!QuorumOfTwo` | `IdentityNeedsTwoCycles` | " |
| `RecordsProofs!RecordsObeyTheLaw` | `Spec => LawSpec` | " |
| `RecordsProofs!IndexFollowsTable` | `[]IndexAgrees` | " |
| `RecordsProofs!CleanMarkIsSaved` | `[]CacheCurrent` | " |
| `EvidenceProofs!GroundingsReplay` | `[]RevisionsReplay` | any records, contents, groundings, versions, earlier logs, number of operations and faults |
| `EvidenceProofs!CurrentClaimsEarned` | `[]CurrentIsEarned` | " (record ids 1..n for any n) |
| `EvidenceProofs!HistoryIsExact` | `[]HistoryExact` | any views, costs, budgets, sections, slacks and event limit |
| `EvidenceProofs!AnswersAlwaysTell` | `[]AnswersTell` | any lines and failures |
| `EvidenceProofs!PromptIsExact` | `[]PromptExact` | any tables, templates, budgets, limits and number of changes |
| `ThreadProofs!LocksNeverCircular` | `[]NobodyStuck` | any number of threads |

**TurnQueue.**  The theorems rest on one inductive invariant, proved in `QueueInvariant`:

    IInv == TypeOK /\ Bounded /\ RestoreFits /\ AdmissionOrder /\ IncomingNext

None of the parts is inductive alone.  `RestoreFits` needs `Bounded` (the array is grown for queued
*and* in-flight turns, `GrowthSuffices`); `AdmissionOrder` needs `IncomingNext`, that the turn
between its room check and its append carries the next number, which holds because only one
admission can be under way; and `AdmissionOrder` over a shortened batch needs that the put-back
goes to the head (`RestoreKeepsLine`).  The proof has one step per action; what an action does to
the line *settled, batch, queue* is a lemma about sequences.

`BytesExact` is kept on top of it.  `SizeOf` is a recursive function over positions, so what it gives for
a concatenation (`SizeConcat`) is an induction on the length, stated for sets of naturals (`UpTo`, from
the least element of a non-empty set, `LeastNatural`); taking, restoring and shortening a batch
then move exactly the bytes of the turns they move.

**Curation.**  The invariant `CurationInv` has four groups of parts.

- *Stages*: `RunStages`, `RefillStages`, `Empty`.  Who owns the slot and who holds `replay_mu` at which
  program counter, and that a context which is not open has nothing in memory.  They say which of the
  many interleavings exist at all.
- *Receipts*: `ReceiptStages` relates the receipt in memory, the one on disk and the batch at each step of
  a cycle; `Numbered` says of all claims, in the history, behind the frames of the journal, on disk and in
  memory, that different numbers mean disjoint sources; `InSequence` that the history grows by numbers.
  `Closed` is what makes a new claim safe: whatever is not the claim on disk has all its sources
  acknowledged, and `Settled` keeps those out of the line.  `EffectsCounted` carries the count of a
  receipt from memory (`ops`) over the sync (`finish`) to disk, and `SyncedOK` says that frames which a
  crash may take belong to a claim that is still open.  `OneClaimPerSource`, `AckNeedsDurableEffects` and
  the refinement of `ClaimLedger` follow.
- *The line*: `LineOK` (batch and queue hold curable turns behind their cursors, each scope's in order),
  `Settled`, `NoTurnLost` and `Prefixes` keep one another: a turn is enqueued where the cursor moves over it,
  a batch is a run from the head, and a failed one goes back there.  The acknowledged set is read once, when
  the context opens; that the refill still skips neither too much nor too little is `Settled`: ahead of
  the cursors the cached set is exact.
- *The flag*: `Noticed` (an event whose append returned, or is in its refill, lies under an endpoint, or its
  scope is due for a new one, or the inventory is dirty) and `Awake` (outside a refill, what `publish` would
  compute is what `source_backlog` says, or curation is suspended).

There is one lemma per part, *invariant and step imply the part afterwards*.  Most actions leave most
parts alone; lemmas such as `FilingSteps` (who writes receipts, journal, history), `OwnedSteps` (how the line
changes), `CursorGrows` and `CuratedSteps` say so once.  `Listed` and `Left` are recursive functions: what is
needed of them is proved by a minimal-counterexample argument on sets of numbers (`LeastNatural`, `UpTo`).

A full flush gets an invariant of its own beside it, over the stages in which it still has something to
drain (`Draining`) or has ended well (`Succeeding`):

    FlushInv == GoalReturned /\ GoalFrozen /\ BudgetEnough /\ SweepComplete /\ EndsDrained /\ FlushCovers

The endpoints it froze hold every turn it was asked for (`GoalFrozen`, from `Noticed`).  Its budget is at
least `Work`, the turns in the line and under those endpoints (`BudgetEnough`): an append adds none,
since a scope that joins a frozen admission has nothing ahead (`LeftJoined`), filling a turn moves it
from the log to the line, skipping one leaves less, and every cycle that ends well takes at least one
turn of the line with its one unit.  So the budget runs out only when nothing is left.  The other way to
end, an empty queue after a refill, needs `SweepComplete`: the scopes a refill has passed while the
queue stays empty are at their endpoints, counted by positions round the known scopes (`SweptNext`), and
a refill that does not fail passes them all, because an empty line leaves it room.  `FlushMoves` lists what
a flush that has the slot can have done in a step.

**CycleSlot.**  The invariant is

    SlotInv == SlotTypeOK /\ OneHolder /\ JobOwned /\ Counted /\ NobodyParked /\ SleepsWell

`OneHolder` says that the slot has exactly one holder while it is busy and none otherwise; `JobOwned`
that a cycle under way belongs to a thread that is in it, without which a step of the cycle could
happen beside a free slot.  `NobodyParked` is half of the wake-up property and is kept because
whoever frees the slot broadcasts (`BroadcastWakes`).  The other half, `SleepsWell`, is stronger
than the property: a worker asleep beside a free slot has no batch due *and* a timer for whatever
may become due by itself; time passing then makes the deadline due and the timer run out in the
same step.  Most steps leave holders and waiters alone (`Aside`) and only their effect on the sleep is
looked at.

**EventLog.**  `LogInv == LogTypeOK /\ RowsAligned /\ InSequence /\ AckedDurable`.  The index is only a
hint: whatever became of it, each row is unreadable or gives the end its frame has
(`RowsAligned`), so an index that is accepted is that of the whole log.  With `InSequence` an append
continues the numbering, and `AckedDurable` follows because neither a rebuild nor a power failure
takes a synced frame.

**Sources.**  `SourcesInv == LogInv /\ DiskInv /\ CallsFine /\ OwnEvent`, of the specification `SourcesSpec`
of one scope.  A call that let go of `source_mu` goes on with what it saw, so `CallsFine` says of each
kind of call how that still fits the disk: a text or origin it is about to refer to is stored or in doubt
(`FineAppend`, `FineCommit`), the event of a commit that is about to write its file is synced and
belongs to no other commit, the pages of a walk are the log up to its cursor (`FineWalk`), and what a
view captured is what the log and its pins give (`FineView`).  These survive the steps of other calls
because the log only grows and objects only appear (`FineStays`, `LogGrows`); a crash or a power failure
ends every call, and `AckedDurable` and the durable prefix say what stays.  `DiskInv` says that a thing
which is visible and not synced is one whose store failed (`DoubtsKnown`), that the line of a scope with
events is there unless it was such a thing or went with an unsynced directory (`ScopeKnown`), that both the visible
and the synced `checkpoint.txt` name a synced CHECKPOINT event with their text (`FilesBacked`), and that neither
is one that a returned commit came after (`CommitsFresh`), which needs `OwnEvent`: two commits cannot
have the same event.  The only assumption is that `Bodies` contains what the calls write and that the page limit
and the bounds are numbers.

**StoreTransaction.**  At any moment there are two images of the store on disk: the files and, once
copied, the `.compact.bak` files.  The marker decides which of them recovery takes, and a power
failure may choose between the marker as it is seen and as it was last synced (`kept`).  The invariant

    StoreInv == StoreTypeOK /\ Phases /\ Markers /\ Copied /\ Mirrored /\ Remembered /\ Selectable

says that every image that can be selected is `Sound` (`Selectable`); the other one may be half
written, and its state is described by how far the compaction or the recovery has come (`Copied`).
`Sound` is the heart of it: frames in sequence and in the order of their operations, after all that the
snapshots hold; every promised record within the frames that are safe; nothing purged; at most
one operation that was not acknowledged; and no acknowledged record missing before one that is
there.  It is kept by losing frames from the end (`SoundPrefix`), by an append (`SoundAppend`), by the
snapshots of a compaction (`SoundCompacted`) and by a load (`SoundSynced`).  Where the marker may be
there or not, a failed marker write or a failed commit, both images are sound, for different
reasons: before the first replacement they are equal; after the last one the old image and the
new one differ only by records due for purging.  A recovery that is interrupted may leave the marker
out of sight only after every file is back (`Restored`).  `OutcomeOfSound` turns the invariant into what the
next open finds, and the four properties follow.  `OpenNeverRefused` is the safety half of `OpensAgain`.

**Records.**  `RecordsInv == RecordsTypeOK /\ IdsInOrder /\ CopiesKeepSection /\ ProposalsVoted`.  The three
theorems are about single steps taken on stale copies, and the invariant is what a copy can still be
trusted for: its id was not given to another record (`IdsInOrder`) and its section is the record's
(`CopiesKeepSection`), so the branch without a quorum cannot reach an identity record.
`ProposalsVoted` ties the quorum set to its history: the vote behind a proposal is an earlier cycle's,
or the running one's, which then has the change in `seen`.  Host evidence needs nothing of the copy:
the funnel repeats that check under the write lock.  `StepsOfTheTable` reduces every action to one
of six changes of the table (`TableStep`), over which the section, the ids and each step of the law
are settled once.

Rows and cache get an invariant of their own on top:

    IndexInv == Dense(index) /\ RowsCurrent /\ FilesTyped /\ CleanIsSaved

`Dense` says that row numbers and rows are inverse to one another; the swap-remove keeps it because it
moves the last row into the hole *and* renumbers its record.  `IndexAgrees` alone is not inductive, for a
put relies on the number of rows, and `CacheCurrent` is not because the save writes without the lock:
`CleanIsSaved` covers the snapshot under way, too.  Every action that touches the table is one `RowStep`
(rows stay dense; a row that is new or differs is current and marked dirty), so the index is looked at
per kind of row change, not per caller.  An open rebuilds the rows from a file of any age; what it keeps
is decided by comparing texts, so it needs nothing of the file beyond its type.

**Knowledge.**  `KnowledgeInv` adds to `RevisionsReplay` that the log is typed, that every row whose call
returned lies below `kdurable` (`AcceptedDurable`), and that while the store is not poisoned the latest row of each id
is its entry (`EntryLatest`), and that what a row rests on did not reach its record when it was written
(`GroundedInTurn`).  The append that failed is the hard case: its row may be on disk or not, so
memory no longer follows the log, and it is the poison that keeps a second revision with the same number
from being written behind it; the next open reads whatever is there.  `LatestAppended` says what a row does to the
latest revisions, `AppendReplays` and `PrefixReplays` that a log with one more row, or without its tail, replays.
`StartLogsAssumption` is what the calls and opens that wrote the log a store starts with have checked of it.

`CurrentIsEarned` is a property of the state alone and follows from the invariant, by an account of what a
refresh computes.  The rounds are recursive functions over positions, so facts about them are carried from
one visit to the next as sets of statuses (`VisitKeeps`, `PropagateKeeps`).  Nothing becomes current, or open to
be contested, by a visit, and only a correction ends a contest (`Moves`): what is current in the end was so
at every stage, and what is contested after the third stage stays so.  With this, each clause is that
of one stage: `SupersededGoes` and `NotSuperseded`, `ContestedGo` and `NotContested`, and `PropsLast`, by which a claim
whose links all match is current until something it rests on is not.  The clause on support needs that the
rounds suffice.  `Footed` says that every set of records has one that rests on none of them.  It is an
invariant because a search that does not reach its record leaves it so: in a set with that record, what does not reach it
has a foot of its own, and if all do, the record is one (`FootedExtends`, and `LogFooted` over the log).  So
while some entries have not settled, one of them rests on settled ones alone, and its next round settles it
for good (`VisitSettles`): as many rounds as there are entries leave no link that a visit would change
(`PropagateSettles`).  `Footed` also gives the last clause, that no set of current claims rests on itself alone.

**SourceHistory.**  The passes decide event by event; the property is a declarative choice that mentions
all events ahead.  `Settled` bridges the two: for every event already passed, chosen or not is
what the declarative choice says of it, and events that are still to be looked at are not
chosen.  It survives a step because what is ahead of the event looked at is exactly what has been looked
at (`Ahead` is a total order in the order of the visits), so `Cost(before(i))` is `Cost(Chosen)`.  A
pass also ends when `MaxEvents` are chosen; then every later event has that many ahead of it.

**McpServer.**  `McpInv` lists, stage by stage, what the job can look like: which line it came from, whether
the handler accepted it, whether the tool ran and with which outcome, what has been answered.  The
property is read off the last stage.

**Injection.**  `InjectionInv` types request, table and copies, and says with `PromptSettled` that nothing is
noted before the prompt is rendered and that `PromptExact` holds from then on.  Three arguments carry it.  A ranking is
sorted by fused score, and a record that outdoes another one in every channel has a better rank in each, so a higher
score (`Reciprocal` falls with the rank); so no record is ahead of one that outdoes it.  The marks of
`section_trim` are monotone in the running cost, so what survives is the longest prefix that the budget
affords.  In a `Neat` template the headings of different zones are apart, because the walk up stops at any
other placeholder, so dropping one segment takes nothing of another.  After that, an access only moves:
from the list of the call into the batch, out of it, into the count or among the missed.

**Lists.**  `Total`, `Joined`, `Those` and `Sorted` replace the library's recursive operators, which the provers
cannot expand: three are recursive functions over positions, the last a choice, shown to exist for any finite set
and total order by taking the largest position of a counterexample away (`OrderExists`).  `ListProofs` has
their algebra: totals of concatenations and updates, the elements of joined sequences, a filter of a sequence without repetitions, the
length of a sorted set.

**LockOrder.**  The locks have ranks, and every nesting of the code climbs (`Climbing`): a thread that
waits for the highest lock anybody waits for waits for one that runs.

## 5. What is only model-checked

Every invariant and every action property that a passing run checks is a theorem of section 4, and so are
the three refinements.  What stays with TLC are the liveness properties (`EventuallyCurated`,
`EveryCallReturns`, `FlushEnds`, `OpensAgain`, `RecoveryCompletes` and `TurnsGetTheirCycle`), which depend on fairness
and on ENABLED, outside the prover's reach, and with them that deadlock occurs only where a configuration
allows it.

## 6. What the models leave out

- Text, scores, time and formats.  A generation is an answer or a failure; a transcript is how many
  turns of the batch it holds; identifiers never collide.
- A deferral decision that no longer matches its event (a parse error of the refill).
- `asper_curation_admit`, the quota of a generation, is one of the ways `GenerateFails`.
- A cycle that starts under an open receipt returns BUSY and changes nothing: it is no step.
- The manifest timestamp saved after a compaction's commit: when that save fails, the compaction
  reports an error although it is done.
- Builds without threads, where `asper_tick` runs the worker's driver on the caller.
- In `Curation`, an operation only counts as applied or rejected; what it does to the record table
  is `Records`.
- In `Records`: relevance and access counts (a review may collect any live record that is neither
  locked nor identity), retrieval (a cycle may be given any live records), duplicate detection,
  projects, content and record limits, the knowledge guard; lines the reply wastes on invalid
  verbs; a journal append that fails (`StoreTransaction`); that a compaction writes snapshots (also
  there).  A receipt is open from the first line of a cycle; one left behind by a crash is taken as
  acknowledged before the store is used again.
- The platform: a replaced or removed file is durable once its directory is synced, and condition
  variables behave as POSIX says (a spurious wake-up only makes a thread look again).
- In `EventLog` and `Sources`: bytes (a frame is whole, torn or damaged), slices of objects (reading one
  is reading the object), the lines of other scopes in `scopes/index.log`, and the repair of a file of
  which a row was cut in half (the code refuses it and an operator has to).
- In `Curation`, a line of `scopes/index.log` stays once it is written: its crashes take unsynced
  operations of the journal, and not the file that section 2 describes under `Sources`.  Where a power
  failure takes it, events of the scope are in no inventory until the scope is appended to again, and
  `NoForgottenBacklog`, `EventuallyCurated` and `RecoveryCompletes` would not hold for them.
- In `Knowledge`: the bytes of its log, and the depth of 32 at which the search for a circle of links
  gives up and refuses, so that the model accepts longer chains of support than the code.
- In `LockOrder`: readers that share, the waits on condition variables (`CycleSlot`), the lock inside an
  embedding backend, callbacks of the host.
- In `Injection`: BM25 and cosine (a record has a signal per channel), floating point in the fusion
  (ranks are compared exactly), the cosine-only mode of duplicate detection,
  `asper_memory_list`, decay.
- In `McpServer`: the JSON text, the library behind a tool (its call succeeds or fails).
- **Not modelled**: model backends, grammar and output protocol (inference and text formats: a
  generation is an answer or a failure), manifest and configuration (parsed once at open, no
  later state), the Windows port of the platform layer, offline erase and archive.

## 7. The plan

Done, in this order, the most important behaviour first: `TurnQueue`, `Curation`, `StoreTransaction`,
`CycleSlot`, `Records`, `EventLog` and `Sources`, `Knowledge`, `LockOrder`, `SourceHistory`, `McpServer`,
`Injection`; proofs of every safety property that the passing runs check.

Next, models: the offline erase and archive tools against the log, and `asper_tick` of builds without
threads over `CycleSlot`.
