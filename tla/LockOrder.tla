------------------------------- MODULE LockOrder -------------------------------
(***************************************************************************)
(* The locks of one asper_ctx (asper_internal.h:740-746, its log_mu and    *)
(* ev_mu) and the order in which threads nest them.  A thread asks for a   *)
(* lock only at one of the places in the source listed here, by the lock   *)
(* it holds there.  The reader-writer lock is taken as an exclusive one: a *)
(* reader may have to wait for a writer that waits for another reader.  A  *)
(* wait on a condition gives ev_mu up and asks for it again.               *)
(***************************************************************************)
EXTENDS Naturals, FiniteSets

CONSTANTS Threads, Free   \* Free: a model value, no lock is asked for

VARIABLES
    held,    \* the locks each thread holds
    want     \* the lock it is blocked on, or about to take

lockVars == <<held, want>>

Guards == {"replay", "cache", "lock", "source", "ev", "journal"}
Leaves == {"err", "log"}
Locks  == Guards \cup Leaves

ASSUME FreeAssumption == Free \notin Locks

\* Mutation: an append notes its scope before it lets go of source_mu.
AdmissionNestingNoted ==
    {<<"replay", "lock">>, <<"replay", "source">>, <<"replay", "ev">>,
     <<"source", "replay">>}

\* source_pending.c: admission holds replay_mu and looks at the receipt guard,
\* reads the scope index and the views, and publishes the backlog.
AdmissionNesting ==
    {<<"replay", "lock">>, <<"replay", "source">>, <<"replay", "ev">>}

\* knowledge_api.c: grounding checks its sources under c->lock.
GroundingNesting == {<<"lock", "source">>}

\* journal.c, store_compact.c: table changes reach the journal under c->lock.
JournalNesting == {<<"lock", "journal">>}

\* cache.c: a save copies the index, and takes a failure back, under cache_mu.
CacheNesting == {<<"cache", "lock">>}

\* worker.c: the worker reads the operation count with ev_mu held.
WorkerNesting == {<<"ev", "journal">>}

\* api.c, log.c: an error or a message may be set with anything else held.
LeafNesting == Guards \X Leaves

Nested ==
    AdmissionNesting \cup GroundingNesting \cup JournalNesting \cup CacheNesting
    \cup WorkerNesting \cup LeafNesting

LockInit ==
    /\ held = [t \in Threads |-> {}]
    /\ want = [t \in Threads |-> Free]

Ask(t, l) ==
    /\ want[t] = Free /\ \A h \in held[t] : <<h, l>> \in Nested
    /\ want' = [want EXCEPT ![t] = l]
    /\ UNCHANGED held

Acquire(t) ==
    /\ want[t] # Free /\ \A u \in Threads : want[t] \notin held[u]
    /\ held' = [held EXCEPT ![t] = @ \cup {want[t]}]
    /\ want' = [want EXCEPT ![t] = Free]

Unlock(t, l) ==
    /\ want[t] = Free /\ l \in held[t]
    /\ held' = [held EXCEPT ![t] = @ \ {l}]
    /\ UNCHANGED want

LockNext ==
    \E t \in Threads : Acquire(t) \/ \E l \in Locks : Ask(t, l) \/ Unlock(t, l)

LockSpec == LockInit /\ [][LockNext]_lockVars

-----------------------------------------------------------------------------
Stuck(t) == \E u \in Threads : want[t] \in held[u]

\* Whenever a thread waits for a lock, some thread that holds one is running:
\* no circle of threads, on no path through admission, grounding, the journal,
\* compaction, the cache and the worker, waits for one another.
NobodyStuck ==
    (\E t \in Threads : Stuck(t)) => \E u \in Threads : held[u] # {} /\ ~Stuck(u)
=============================================================================
