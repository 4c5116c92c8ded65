-------------------------------- MODULE Sources --------------------------------
(***************************************************************************)
(* One scope's sources (source_events.c, source_view.c, source_pins.c,     *)
(* source_objects.c, source_checkpoint.c): the event log of EventLog, the  *)
(* pin overlay, the content-addressed objects, the checkpoint file and the *)
(* scope's line in scopes/index.log, used by hosts on several threads.     *)
(*                                                                         *)
(* source_mu is taken for one part of a call at a time, so a call is a     *)
(* program of steps between which other calls run: an origin or a          *)
(* checkpoint object is put before its event is appended, a page is read   *)
(* and its cursor used later, a view is opened once and read again and     *)
(* again, a checkpoint's file follows its event.                           *)
(***************************************************************************)
EXTENDS EventLog, SequencesExt

CONSTANTS
    Hosts,      \* threads that call the library
    Texts,      \* what checkpoints say
    Inputs,     \* the events hosts append, [kind, pinned]
    Workloads,  \* bound: a behaviour's calls are those of one of these sets
    PageLimit,  \* limit given to asper_event_search
    Earlier,    \* bound: events a reopened scope may start with
    MaxCalls    \* bound on the calls begun

CONSTANTS Origin, NoRef, NoText      \* model values

VARIABLES
    call,       \* memory: what each host is in the middle of
    objects,    \* disk: how well each object is stored
    pins,       \* disk: pins.log, [rows, torn, durable]
    scope,      \* disk: the scope's line in scopes/index.log
    checkpoint, \* disk: checkpoint.txt, [text, seq, safe]
    doubted,    \* history: the stores that failed after becoming visible, and
                \* "index" once a power failure took index.log whole
    commits,    \* history: the commits that returned ASPER_OK
    workload, calls   \* bounds

sideVars   == <<objects, pins, scope, checkpoint, doubted, commits>>
sourceVars == <<logVars, call, sideVars, workload, calls>>

Idle == [op |-> "idle"]
Refs == Texts \cup {Origin}

\* An object is "none", "volatile" (visible, not synced) or "durable".  The
\* scope's line may also be "torn", or "synced" in a file that is not yet listed
\* on disk: index.log is new and scopes/ was not synced after it was made.
NoFile == [text |-> NoText, seq |-> 0]
NoPins == [rows |-> << >>, torn |-> FALSE, durable |-> 0]

Body(id, kind, ref, pinned) ==
    [id |-> id, kind |-> kind, ref |-> ref, pinned |-> pinned]

ASSUME SourcesAssumption ==
    /\ Earlier \in Nat /\ MaxCalls \in Nat /\ PageLimit \in Nat
    /\ \A id \in 1..Earlier : Body(id, "note", NoRef, FALSE) \in Bodies
    /\ \A id \in 1..MaxCalls :
          /\ \A text \in Texts : Body(id, "checkpoint", text, FALSE) \in Bodies
          /\ \A e \in Inputs : LET ref == IF e.kind = "turn" THEN Origin ELSE NoRef
                               IN  Body(id, e.kind, ref, e.pinned) \in Bodies

\* A scope that is new, or reopened with events appended earlier.
SourcesInit ==
    /\ \E n \in {0, Earlier} :
         /\ frames = [i \in 1..n |-> [seq |-> i, body |-> Body(i, "note", NoRef, FALSE),
                                      ok |-> TRUE]]
         /\ index = FullIndex(n) /\ durable = n
         /\ acked = {[seq |-> i, body |-> frames[i].body] : i \in 1..n}
         /\ scope \in (IF n = 0 THEN {"none"} ELSE {"synced", "durable"})
    /\ torn = FALSE /\ logFaults = 0
    /\ call = [h \in Hosts |-> Idle]
    /\ objects = [r \in Refs |-> "none"]
    /\ pins = NoPins
    /\ checkpoint = [now |-> NoFile, safe |-> NoFile]
    /\ doubted = {} /\ commits = {}
    /\ workload \in Workloads /\ calls = Earlier

-----------------------------------------------------------------------------
(* Helpers.                                                                *)

Goto(h, c) == call' = [call EXCEPT ![h] = c]

\* A view of another thread notices that the log file was written.
Noticing(c) == IF c.op = "view" THEN [c EXCEPT !.touched = TRUE] ELSE c
GotoWriting(h, c) ==
    call' = [g \in Hosts |-> IF g = h THEN c
                             ELSE IF <<frames, torn>>' = <<frames, torn>> THEN call[g]
                             ELSE Noticing(call[g])]

Begin(h, op) == call[h] = Idle /\ op \in workload /\ calls < MaxCalls
                /\ calls' = calls + 1

\* asper_source_pins_apply: the last row for an event decides.
Pinned(rows, body) ==
    LET mine == {i \in DOMAIN rows : rows[i].id = body.id}
    IN  IF mine = {} THEN body.pinned
        ELSE rows[CHOOSE i \in mine : \A j \in mine : j <= i].pinned

\* What a caller gets of the event that is `seq' in a log.
Shown(log, rows, seq) ==
    [id |-> log[seq].body.id, pinned |-> Pinned(rows, log[seq].body)]

-----------------------------------------------------------------------------
(* asper_object_put: an object that is there is verified and trusted.      *)

PutObject(ref) ==
    /\ objects' = IF objects[ref] = "none" THEN [objects EXCEPT ![ref] = "durable"]
                  ELSE objects
    /\ UNCHANGED <<pins, scope, checkpoint, doubted, commits>>

\* The write or the rename fails, or the directory sync after the rename.
PutFails(ref) ==
    /\ objects[ref] = "none" /\ LogFault
    /\ \E left \in {"none", "volatile"} :
         /\ objects' = [objects EXCEPT ![ref] = left]
         /\ doubted' = IF left = "volatile" THEN doubted \cup {ref} ELSE doubted
    /\ UNCHANGED <<frames, torn, index, durable, acked, pins, scope, checkpoint,
                   commits>>

\* register_scope_locked: a line that is there is trusted; a new one is synced
\* with its file, and the directory of the file is not.  Where other scopes made
\* index.log before, the mkdir of this scope's directory may have synced it: that
\* is one of the two outcomes ScopesLeft gives a "synced" line.
Register == scope' = IF scope = "none" THEN "synced" ELSE scope

\* asper_event_append under source_mu: the scope's line, then the event.
Store(body) ==
    /\ scope # "torn" /\ Register
    /\ AppendOk(body)
    /\ UNCHANGED <<objects, pins, checkpoint, doubted, commits>>

\* The index line fails, and the append with it.
RegisterFails ==
    /\ scope = "none" /\ LogFault
    /\ \E left \in {"none", "volatile", "torn"} :
         /\ scope' = left
         /\ doubted' = IF left = "volatile" THEN doubted \cup {"scope"} ELSE doubted
    /\ UNCHANGED <<frames, torn, index, durable, acked, objects, pins, checkpoint,
                   commits>>

StoreFails(body) ==
    \/ RegisterFails
    \/ /\ scope # "torn" /\ Register
       /\ AppendRefused \/ AppendFails(body)
       /\ UNCHANGED <<objects, pins, checkpoint, doubted, commits>>
    \/ scope = "torn" /\ UNCHANGED <<logVars, sideVars>>

-----------------------------------------------------------------------------
(* asper_event_append.                                                     *)

\* A turn without a reference first stores its origin (turn_origin); other
\* kinds go straight to the log.
BeginAppend(h) ==
    /\ Begin(h, "append")
    /\ \E e \in Inputs :
         LET turn == e.kind = "turn" IN
         Goto(h, [op |-> "append", at |-> IF turn THEN "origin" ELSE "log",
                  body |-> Body(calls', e.kind, IF turn THEN Origin ELSE NoRef,
                                e.pinned)])
    /\ UNCHANGED <<logVars, sideVars, workload>>

\* Mutation: the event is appended whether or not its origin was stored.
AppendOriginGoesOn(h) ==
    /\ call[h].op = "append" /\ call[h].at = "origin"
    /\ (PutObject(Origin) /\ UNCHANGED logVars) \/ PutFails(Origin)
    /\ Goto(h, [call[h] EXCEPT !.at = "log"])
    /\ UNCHANGED <<workload, calls>>

AppendOrigin(h) ==
    /\ call[h].op = "append" /\ call[h].at = "origin"
    /\ \/ PutObject(Origin) /\ UNCHANGED logVars /\ Goto(h, [call[h] EXCEPT !.at = "log"])
       \/ PutFails(Origin) /\ Goto(h, Idle)
    /\ UNCHANGED <<workload, calls>>

AppendEvent(h) ==
    /\ call[h].op = "append" /\ call[h].at = "log"
    /\ Store(call[h].body) \/ StoreFails(call[h].body)
    /\ GotoWriting(h, Idle)
    /\ UNCHANGED <<workload, calls>>

-----------------------------------------------------------------------------
(* asper_checkpoint_commit and asper_checkpoint_load.                      *)

BeginCommit(h) ==
    /\ Begin(h, "commit")
    /\ \E text \in Texts :
         Goto(h, [op |-> "commit", at |-> "put", text |-> text, seq |-> 0,
                  id |-> calls', before |-> {c.seq : c \in commits}])
    /\ UNCHANGED <<logVars, sideVars, workload>>

CommitPut(h) ==
    /\ call[h].op = "commit" /\ call[h].at = "put"
    /\ \/ PutObject(call[h].text) /\ UNCHANGED logVars
          /\ Goto(h, [call[h] EXCEPT !.at = "event"])
       \/ PutFails(call[h].text) /\ Goto(h, Idle)
    /\ UNCHANGED <<workload, calls>>

CommitEvent(h) ==
    LET body == Body(call[h].id, "checkpoint", call[h].text, FALSE) IN
    /\ call[h].op = "commit" /\ call[h].at = "event"
    /\ \/ Store(body)
          /\ GotoWriting(h, [call[h] EXCEPT !.at = "file", !.seq = OpenCount + 1])
       \/ StoreFails(body) /\ GotoWriting(h, Idle)
    /\ UNCHANGED <<workload, calls>>

\* Mutation: the commit is reported once its event is stored.
CommitFileReported(h) ==
    LET file == [text |-> call[h].text, seq |-> call[h].seq] IN
    /\ call[h].op = "commit" /\ call[h].at = "file"
    /\ \/ checkpoint' = [now |-> file, safe |-> file] /\ UNCHANGED logFaults
       \/ LogFault /\ checkpoint' \in {checkpoint, [checkpoint EXCEPT !.now = file]}
    /\ commits' = commits \cup {[seq |-> call[h].seq, before |-> call[h].before]}
    /\ Goto(h, Idle)
    /\ UNCHANGED <<frames, torn, index, durable, acked, objects, pins, scope, doubted,
                   workload, calls>>

\* atomic_text: only now is the commit done.
CommitFile(h) ==
    LET file == [text |-> call[h].text, seq |-> call[h].seq] IN
    /\ call[h].op = "commit" /\ call[h].at = "file"
    /\ \/ /\ checkpoint' = [now |-> file, safe |-> file]
          /\ commits' = commits \cup {[seq |-> call[h].seq, before |-> call[h].before]}
          /\ UNCHANGED logFaults
       \/ /\ LogFault
          /\ checkpoint' \in {checkpoint, [checkpoint EXCEPT !.now = file]}
          /\ UNCHANGED commits
    /\ Goto(h, Idle)
    /\ UNCHANGED <<frames, torn, index, durable, acked, objects, pins, scope, doubted,
                   workload, calls>>

\* asper_checkpoint_load reads the file; without one it looks backwards in a
\* view for the newest CHECKPOINT event.
LoadedSeq ==
    IF checkpoint.now # NoFile THEN checkpoint.now.seq
    ELSE Max({0} \cup {i \in DOMAIN frames : frames[i].body.kind = "checkpoint"})

-----------------------------------------------------------------------------
(* asper_event_search, page after page, as asper_event_set_pinned and hosts *)
(* use it: the cursor is the host's, and the log grows between two pages.  *)

\* Mutation: the event at the cursor is given again.
PageFromAt(cursor) ==
    LET last == IF cursor + PageLimit < OpenCount THEN cursor + PageLimit
                ELSE OpenCount
    IN  [i \in 1..(IF last < cursor THEN 0 ELSE last - cursor) |->
            Shown(frames, pins.rows, IF cursor = 0 THEN i ELSE cursor + i - 1)]

\* asper_event_log_page from a cursor: the next events, at most PageLimit.
PageFrom(cursor) ==
    LET last == IF cursor + PageLimit < OpenCount THEN cursor + PageLimit
                ELSE OpenCount
    IN  [i \in 1..(IF last < cursor THEN 0 ELSE last - cursor) |->
            Shown(frames, pins.rows, cursor + i)]

\* An unreadable row of an index that was believed makes read_event rebuild it.
RowsFound(cursor) ==
    ~IndexAccepted \/ \A i \in 1..Len(PageFrom(cursor)) :
                          RowReadable(index.rows, cursor + i, Bytes)
PageReadable(cursor) ==
    /\ Openable
    /\ RowsFound(cursor) \/ Intact(OpenCount)
    /\ \A i \in 1..Len(PageFrom(cursor)) : frames[cursor + i].ok
ReadPage(cursor) == IF RowsFound(cursor) THEN Open ELSE ReaderRebuilds(OpenCount)

BeginWalk(h) ==
    /\ Begin(h, "walk")
    /\ Goto(h, [op |-> "walk", cursor |-> 0, seen |-> << >>])
    /\ UNCHANGED <<logVars, sideVars, workload>>

WalkPage(h) ==
    LET c == call[h] page == PageFrom(c.cursor) IN
    /\ c.op = "walk"
    /\ IF PageReadable(c.cursor)
       THEN /\ ReadPage(c.cursor)
            /\ GotoWriting(h, IF pins.torn \/ page = << >> THEN Idle ELSE
                   [c EXCEPT !.cursor = @ + Len(page),
                             !.seen = @ \o [i \in DOMAIN page |-> page[i].id]])
       ELSE Goto(h, Idle) /\ UNCHANGED logVars
    /\ UNCHANGED <<sideVars, workload, calls>>

\* asper_event_set_pinned looks the event up page by page without holding the
\* lock in between ...
BeginPin(h) ==
    /\ Begin(h, "pin")
    /\ \E id \in 1..calls, value \in BOOLEAN :
         Goto(h, [op |-> "pin", at |-> "search", id |-> id, value |-> value,
                  cursor |-> 0])
    /\ UNCHANGED <<logVars, sideVars, workload>>

PinSearch(h) ==
    LET c == call[h] page == PageFrom(c.cursor) IN
    /\ c.op = "pin" /\ c.at = "search"
    /\ IF PageReadable(c.cursor)
       THEN /\ ReadPage(c.cursor)
            /\ GotoWriting(h,
                 IF pins.torn THEN Idle
                 ELSE IF \E i \in DOMAIN page : page[i].id = c.id THEN [c EXCEPT !.at = "row"]
                 ELSE IF Len(page) = PageLimit
                      THEN [c EXCEPT !.cursor = @ + PageLimit]
                 ELSE Idle)
       ELSE Goto(h, Idle) /\ UNCHANGED logVars
    /\ UNCHANGED <<sideVars, workload, calls>>

\* ... and appends one row; a failed write leaves none, a torn or a whole one.
PinRow(h) ==
    LET rows == Append(pins.rows, [id |-> call[h].id, pinned |-> call[h].value]) IN
    /\ call[h].op = "pin" /\ call[h].at = "row"
    /\ \/ /\ pins' = [pins EXCEPT !.rows = rows, !.durable = Len(rows)]
          /\ UNCHANGED logFaults
       \/ /\ LogFault
          /\ pins' \in {pins, [pins EXCEPT !.torn = TRUE], [pins EXCEPT !.rows = rows]}
    /\ Goto(h, Idle)
    /\ UNCHANGED <<frames, torn, index, durable, acked, objects, scope, checkpoint,
                   doubted, commits, workload, calls>>

-----------------------------------------------------------------------------
(* asper_source_view_open, _read, _close.                                  *)

BeginView(h) ==
    /\ Begin(h, "view")
    /\ \/ /\ Openable /\ ~pins.torn
          /\ Open
          /\ LET was == [i \in 1..OpenCount |-> Shown(frames, pins.rows, i)] IN
             GotoWriting(h, [op |-> "view", count |-> OpenCount, size |-> SizeOf(OpenCount),
                             touched |-> FALSE, rows |-> index'.rows,
                             pins |-> pins.rows, was |-> was, got |-> {}])
       \/ /\ ~Openable \/ pins.torn
          /\ UNCHANGED <<logVars, call>>
    /\ UNCHANGED <<sideVars, workload>>

\* A captured prefix is read again only if the log has not shrunk, nor been
\* rewritten at the size last seen; an unreadable row rebuilds the index over
\* the prefix.
StampHolds(c) == Bytes > c.size \/ (Bytes = c.size /\ ~c.touched)

ViewRead(h) ==
    LET c == call[h] IN
    /\ c.op = "view"
    /\ \E seq \in 1..c.count :
         LET found == RowReadable(c.rows, seq, SizeOf(c.count))
             event == [seq |-> seq,
                       shown |-> Shown(frames, c.pins, seq)]
             read  == [c EXCEPT !.got = @ \cup {event}, !.size = Bytes,
                                !.touched = FALSE,
                                !.rows = IF found THEN @ ELSE RowsFor(c.count)]
         IN  \/ /\ StampHolds(c) /\ found /\ frames[seq].ok
                /\ Goto(h, read) /\ UNCHANGED logVars
             \/ /\ StampHolds(c) /\ ~found /\ Intact(c.count)
                /\ ReaderRebuilds(c.count) /\ Goto(h, read)
             \/ /\ \/ ~StampHolds(c)
                   \/ found /\ ~frames[seq].ok
                   \/ ~found /\ ~Intact(c.count)
                /\ Goto(h, Idle) /\ UNCHANGED logVars
    /\ UNCHANGED <<sideVars, workload, calls>>

ViewClose(h) ==
    /\ call[h].op = "view" /\ Goto(h, Idle)
    /\ UNCHANGED <<logVars, sideVars, workload, calls>>

-----------------------------------------------------------------------------
(* The process ends, or the machine loses power; every call is gone.       *)

Settled(left) == IF left = "volatile" THEN {"none", "durable"} ELSE {left}

\* What a power failure leaves of a line: nothing unless it is durable, part of
\* what was not synced, or all of it -- on disk from then on.
ScopesLeft(line) ==
    (IF line = "durable" THEN {} ELSE {"none"}) \cup
    (IF line \in {"volatile", "torn"} THEN {"torn"} ELSE {}) \cup
    (IF line \in {"volatile", "synced", "durable"} THEN {"durable"} ELSE {})

\* What it leaves of pins.log: the synced rows, perhaps more, perhaps a torn one;
\* or no file, for asper_event_set_pinned does not sync the directory it makes the
\* file in.  That another write may since have synced it is left out.
PinsLeft ==
    {NoPins} \cup
    UNION {[rows    : {SubSeq(pins.rows, 1, n)},
            torn    : IF n < Len(pins.rows) \/ pins.torn THEN BOOLEAN ELSE {FALSE},
            durable : {n}] : n \in pins.durable..Len(pins.rows)}

Crash ==
    /\ LogFault /\ call' = [h \in Hosts |-> Idle]
    /\ UNCHANGED <<frames, torn, index, durable, acked, sideVars, workload, calls>>

PowerLoss ==
    /\ PowerFailure
    /\ call' = [h \in Hosts |-> Idle]
    /\ objects' \in [Refs -> {"none", "durable"}]
    /\ \A r \in Refs : objects'[r] \in Settled(objects[r])
    /\ scope' \in ScopesLeft(scope)
    /\ doubted' = IF scope = "synced" /\ scope' = "none" THEN doubted \cup {"index"}
                  ELSE doubted
    /\ pins' \in PinsLeft
    /\ \E file \in {checkpoint.now, checkpoint.safe} :
         checkpoint' = [now |-> file, safe |-> file]
    /\ UNCHANGED <<commits, workload, calls>>

FrameDamaged == Damage /\ UNCHANGED <<call, sideVars, workload, calls>>

SourcesNext ==
    \/ Crash \/ PowerLoss \/ FrameDamaged
    \/ \E h \in Hosts :
         \/ BeginAppend(h) \/ AppendOrigin(h) \/ AppendEvent(h)
         \/ BeginCommit(h) \/ CommitPut(h) \/ CommitEvent(h) \/ CommitFile(h)
         \/ BeginWalk(h) \/ WalkPage(h)
         \/ BeginPin(h) \/ PinSearch(h) \/ PinRow(h)
         \/ BeginView(h) \/ ViewRead(h) \/ ViewClose(h)

SourcesSpec == SourcesInit /\ [][SourcesNext]_sourceVars

-----------------------------------------------------------------------------
(* Properties.                                                             *)

\* Readers that let go of the lock between two reads are not misled: pages give
\* every event once, in order, from the first, however the log grows, fails or
\* is repaired between them, and a view hands out the events and the pins of the
\* moment it was opened.
PagesComplete(c) ==
    /\ c.cursor = Len(c.seen) /\ c.cursor <= Len(frames)
    /\ \A i \in DOMAIN c.seen : c.seen[i] = frames[i].body.id
ViewExact(c) == \A e \in c.got : e.shown = c.was[e.seq]
ReadersExact ==
    \A h \in Hosts : /\ call[h].op = "walk" => PagesComplete(call[h])
                     /\ call[h].op = "view" => ViewExact(call[h])

\* What an event rests on is stored before it: a turn's origin and a
\* checkpoint's object resolve, the scope can be found after a restart, and
\* checkpoint.txt says what a CHECKPOINT event says -- except where a store
\* failed after it became visible and was trusted later, and where a power
\* failure took an index.log whose directory nothing had synced: register_scope_
\* locked does not, so an event can outlive the line that leads to it.
EvidenceBacked ==
    /\ \A i \in DOMAIN frames :
          LET ref == frames[i].body.ref IN
          ref # NoRef => objects[ref] # "none" \/ ref \in doubted
    /\ frames # << >> =>
          scope \notin {"none", "torn"} \/ "scope" \in doubted \/ "index" \in doubted
    /\ checkpoint.now # NoFile =>
          /\ checkpoint.now.seq <= durable
          /\ LET event == frames[checkpoint.now.seq].body
             IN  event.kind = "checkpoint" /\ event.ref = checkpoint.now.text

\* Two commits that overlap may leave either text in checkpoint.txt; one that
\* began after another had returned is never hidden by it again.
CheckpointFresh ==
    \A c \in commits : LoadedSeq # 0 /\ LoadedSeq \notin c.before
=============================================================================
