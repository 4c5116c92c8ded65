------------------------- MODULE CurationProperties -------------------------
(***************************************************************************)
(* What must hold of the life of an event described by Curation.           *)
(***************************************************************************)
EXTENDS Curation

Turns == {e \in Event : e[2] <= Len(log[e[1]]) /\ log[e[1]][e[2]] = "turn"}
Curable == Turns \ Deferred
(* A turn the admission cursor has passed is acknowledged, deferred, in    *)
(* the queue, in the running batch or covered by the live receipt: moving  *)
(* the cursor while a cycle fails, a queue fills or a batch is put back    *)
(* loses none (fill_scope, restore_turns).                                 *)
NoTurnLost ==
    adm # None => \A e \in Curable :
        e[2] <= adm.cursor[e[1]] =>
            \/ e \in curated \cup Elements(queue \o batch)
            \/ Suspended /\ e \in receipt.sources

(* No turn is queued twice, and none that is acknowledged is queued again  *)
(* unless the receipt that covers it is still in the way.                  *)
QueuedOnce ==
    LET owned == batch \o queue
    IN  /\ Cardinality(Elements(owned)) = Len(owned)
        /\ \A e \in Elements(owned) \cap curated :
               Suspended /\ e \in receipt.sources

Quiescent == /\ up /\ ~Suspended /\ refill.holder = None /\ run.owner = None
             /\ \A a \in Appender : app[a].pc = "idle"

(* When everybody is at rest, a turn whose append returned and which is    *)
(* neither acknowledged, queued nor deferred has raised source_backlog,    *)
(* the flag the worker sleeps on: no wake-up is missing.                   *)
NoForgottenBacklog ==
    Quiescent /\ ~(returned \subseteq curated \cup Deferred \cup Elements(queue))
        => backlog

(* Two receipts never name the same event, over all crashes, restarts and  *)
(* uncertain writes: no source is curated twice.                           *)
OneClaimPerSource ==
    LET all == Elements(archive) \cup Elements(journal) \cup ({pending} \ {None})
    IN  /\ \A r, q \in all : r.id # q.id => r.sources \cap q.sources = {}
        /\ \A i, j \in DOMAIN archive : archive[i].id = archive[j].id => i = j

(* An acknowledgement is backed by a terminal receipt in the history, and  *)
(* every operation that receipt counts as applied is on disk: a crash can  *)
(* not leave an event acknowledged with its effects gone.                  *)
AckNeedsDurableEffects ==
    /\ \A e \in curated : \E i \in DOMAIN archive : e \in archive[i].sources
    /\ \A i \in DOMAIN archive :
           Cardinality({j \in 1 .. synced : journal[j].id = archive[i].id})
               >= archive[i].applied

(* Turns of one scope are acknowledged in the order of its log.            *)
CuratedIsPrefix ==
    \A e \in curated, f \in Curable : f[1] = e[1] /\ f[2] < e[2] => f \in curated

(* A full flush that reports success has curated every turn whose append   *)
(* had returned when it was called, deferred ones excepted.                *)
FlushCovers == flushed \subseteq curated \cup Deferred

(* Every turn the host was told is stored gets curated while the context   *)
(* stays open, unless a receipt suspends curation or the journal failed.   *)
EventuallyCurated ==
    \A s \in Scope, i \in 1 .. MaxLog :
        (<<s, i>> \in returned \ Deferred)
            ~> (<<s, i>> \in curated \/ ~up \/ Suspended \/ poisoned)

(* With the documented help of host and operator, every turn the host was  *)
(* told is stored is curated in the end, over crashes and failed writes.   *)
RecoveryCompletes ==
    \A s \in Scope, i \in 1 .. MaxLog :
        (<<s, i>> \in returned \ Deferred) ~> (<<s, i>> \in curated)

(* A full flush comes back although hosts append and batches fail.         *)
FlushEnds == (run.owner = "flush") ~> (run.owner # "flush")

(* docs/SPECS.md: "Failed or malformed operations are rejected without     *)
(* acknowledging their source events."                                     *)
RejectedNotAcknowledged ==
    \A i \in DOMAIN archive :
        archive[i].rejected > 0 => archive[i].sources \cap curated = {}

(* docs/SPECS.md: "All unfinished curation is replayable after restart."   *)
(* Opening a store no write of which ever failed replays its events.       *)
ReplayableAfterRestart == run.pc = "failed" => faults > 0

(* Every step is one of the abstract ledger of claims or leaves it alone.  *)
Ledger == INSTANCE ClaimLedger WITH
    Event <- Event,
    recorded <- Turns,
    claim <- IF pending = None THEN {}
             ELSE {[id |-> pending.id, sources |-> pending.sources]},
    effects <- [j \in DOMAIN journal |->
                   [id |-> journal[j].id, sources |-> journal[j].sources]],
    acked <- curated
LedgerSpec == Ledger!Spec
=============================================================================
