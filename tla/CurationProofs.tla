--------------------------- MODULE CurationProofs ---------------------------
(***************************************************************************)
(* The life of a source event, for any scopes, hosts, limits, failures,    *)
(* crashes and restarts.                                                   *)
(***************************************************************************)
EXTENDS CurationProperties, FiniteSetTheorems, SequenceTheorems, FunctionTheorems,
        WellFoundedInduction, TLAPS

\* A set of numbers that is not empty has a least one.
LEMMA LeastNatural ==
    ASSUME NEW T \in SUBSET Nat, T # {}
    PROVE  \E m \in T : \A n \in T : m <= n
<1>1. IsWellFoundedOn(OpToRel(<,Nat), Nat)
  BY NatLessThanWellFounded
<1>2. PICK m \in T : \A n \in T : <<n, m>> \notin OpToRel(<,Nat)
  BY <1>1, WFMin, Zenon
<1>3. \A n \in T : n \in Nat /\ m \in Nat /\ ~(n < m)
  BY <1>2 DEF OpToRel
<1> QED
  BY <1>3

\* A set of numbers up to N that has 0, and with each the next, has them all.
LEMMA UpTo ==
    ASSUME NEW N \in Nat, NEW S, 0 \in S, \A n \in 1 .. N : n - 1 \in S => n \in S
    PROVE  \A n \in 0 .. N : n \in S
<1> DEFINE T == {n \in 0 .. N : n \notin S}
<1> SUFFICES ASSUME T # {} PROVE FALSE
  OBVIOUS
<1>1. PICK m \in T : \A n \in T : m <= n
  <2>1. T \in SUBSET Nat
    OBVIOUS
  <2> HIDE DEF T
  <2> QED
    BY <2>1, LeastNatural
<1>2. m # 0 /\ m \in 1 .. N /\ m - 1 \in 0 .. N /\ m - 1 < m
  BY <1>1
<1> QED
  BY <1>1, <1>2

\* The work that is left of an admission sums up over the known scopes.
LEMMA LeftSum ==
    ASSUME NEW a \in Admission, \A s \in Scope : a.cursor[s] <= a.end[s]
    PROVE  \E f \in [0 .. Len(a.known) -> Nat] :
               /\ f[0] = 0 /\ Left(a) = f[Len(a.known)]
               /\ \A n \in 1 .. Len(a.known) :
                      f[n] = f[n - 1] + (a.end[a.known[n]] - a.cursor[a.known[n]])
<1> DEFINE N == Len(a.known)
           D(n) == a.end[a.known[n]] - a.cursor[a.known[n]]
           G(g, k) == g \in [0 .. k -> Nat] /\ g[0] = 0 /\ \A n \in 1 .. k : g[n] = g[n - 1] + a.end[a.known[n]] - a.cursor[a.known[n]]
<1>1. N \in Nat /\ \A n \in 1 .. N : D(n) \in Nat /\ a.end[a.known[n]] \in Nat /\ a.cursor[a.known[n]] \in Nat
  BY DEF Admission
<1>2. \A k \in 0 .. N : \E g : G(g, k)
  <2> DEFINE S == {k \in 0 .. N : \E g : G(g, k)}
  <2>1. 0 \in S
    <3>1. G([n \in 0 .. 0 |-> 0], 0)
      OBVIOUS
    <3> HIDE DEF G
    <3> QED
      BY <1>1, <3>1
  <2>2. ASSUME NEW k \in 1 .. N, k - 1 \in S PROVE k \in S
    <3>1. PICK g : G(g, k - 1)
      BY <2>2
    <3> DEFINE h == [n \in 0 .. k |-> IF n = k THEN g[k - 1] + D(k) ELSE g[n]]
    <3>2. h \in [0 .. k -> Nat] /\ h[0] = 0
      BY <1>1, <3>1
    <3>3. \A n \in 1 .. k : h[n] = h[n - 1] + a.end[a.known[n]] - a.cursor[a.known[n]]
      <4> SUFFICES ASSUME NEW n \in 1 .. k
                   PROVE  h[n] = h[n - 1] + a.end[a.known[n]] - a.cursor[a.known[n]]
        OBVIOUS
      <4>1. k \in Nat /\ n \in Nat /\ n - 1 \in 0 .. k - 1 /\ n \in 0 .. k /\ n - 1 # k
            /\ n - 1 \in 0 .. k /\ (n # k => n \in 1 .. k - 1)
        BY <1>1
      <4>2. h[n - 1] = g[n - 1] /\ h[n] = IF n = k THEN g[k - 1] + D(k) ELSE g[n]
        BY <4>1
      <4>3. g[n - 1] \in Nat
        BY <3>1, <4>1
      <4> HIDE DEF h
      <4>4. CASE n = k
        <5>1. h[n] = g[n - 1] + (a.end[a.known[n]] - a.cursor[a.known[n]])
          BY <4>2, <4>4
        <5>2. a.end[a.known[n]] \in Nat /\ a.cursor[a.known[n]] \in Nat
          BY <1>1, <2>2, <4>4
        <5> QED
          BY <4>2, <4>3, <5>1, <5>2
      <4>5. CASE n # k
        BY <3>1, <4>1, <4>2, <4>5
      <4> QED
        BY <4>4, <4>5
    <3>4. G(h, k)
      BY <3>2, <3>3
    <3> HIDE DEF G, h
    <3> QED
      BY <3>4
  <2> HIDE DEF S
  <2>3. \A k \in 0 .. N : k \in S
    BY <1>1, <2>1, <2>2, UpTo, Zenon
  <2> QED
    BY <2>3 DEF S
<1>3. PICK g : G(g, N)
  <2> HIDE DEF G
  <2>1. N \in 0 .. N
    BY <1>1
  <2> QED
    BY <1>2, <2>1
<1> DEFINE E(f) == [n \in 0 .. N |-> IF n = 0 THEN 0 ELSE f[n - 1] + a.end[a.known[n]] - a.cursor[a.known[n]]]
<1>4. g = E(g)
  <2>1. \A n \in 0 .. N : n # 0 => n \in 1 .. N
    BY <1>1
  <2>2. \A n \in 0 .. N :
            g[n] = IF n = 0 THEN 0 ELSE g[n - 1] + a.end[a.known[n]] - a.cursor[a.known[n]]
    BY <1>3, <2>1, Zenon
  <2>3. g = [n \in 0 .. N |-> g[n]]
    BY <1>3
  <2> QED
    BY <2>2, <2>3, Zenon
<1> DEFINE f == CHOOSE x : x = E(x)
<1>5. f = E(f)
  BY <1>4, Zenon
<1>6. Left(a) = f[N]
  BY Zenon DEF Left
<1> HIDE DEF f
<1>7. \A n \in 0 .. N : n \in {k \in 0 .. N : f[k] \in Nat}
  <2> DEFINE S == {k \in 0 .. N : f[k] \in Nat}
  <2>1. 0 \in S
    BY <1>1, <1>5
  <2>2. ASSUME NEW n \in 1 .. N, n - 1 \in S PROVE n \in S
    <3>1. f[n] = f[n - 1] + a.end[a.known[n]] - a.cursor[a.known[n]]
      <4>1. n \in 0 .. N /\ n # 0
        BY <1>1
      <4>2. E(f)[n] = f[n - 1] + a.end[a.known[n]] - a.cursor[a.known[n]]
        BY <4>1, Zenon
      <4> QED
        BY <1>5, <4>2, Zenon
    <3> QED
      BY <1>1, <2>2, <3>1
  <2> HIDE DEF S
  <2>3. \A n \in 0 .. N : n \in S
    BY <1>1, <2>1, <2>2, UpTo, Zenon
  <2> QED
    BY <2>3 DEF S
<1>8. f[0] = 0
  BY <1>1, <1>5
<1>9. \A n \in 1 .. N : f[n] = f[n - 1] + (a.end[a.known[n]] - a.cursor[a.known[n]])
  <2> SUFFICES ASSUME NEW n \in 1 .. N
               PROVE  f[n] = f[n - 1] + (a.end[a.known[n]] - a.cursor[a.known[n]])
    OBVIOUS
  <2>1. n \in 0 .. N /\ n # 0 /\ n - 1 \in 0 .. N
    BY <1>1
  <2>2. E(f)[n] = f[n - 1] + a.end[a.known[n]] - a.cursor[a.known[n]]
    BY <2>1, Zenon
  <2>3. f[n] = f[n - 1] + a.end[a.known[n]] - a.cursor[a.known[n]]
    BY <1>5, <2>2, Zenon
  <2>4. f[n - 1] \in Nat
    BY <1>7, <2>1
  <2> QED
    BY <1>1, <2>3, <2>4
<1>10. f \in [0 .. N -> Nat]
  <2>1. f = [n \in 0 .. N |-> f[n]]
    BY <1>5
  <2> QED
    BY <1>7, <2>1
<1> QED
  BY <1>6, <1>8, <1>9, <1>10

\* The work that is left of an admission is a number.
LEMMA LeftTyped ==
    ASSUME NEW a \in Admission, \A s \in Scope : a.cursor[s] <= a.end[s]
    PROVE  Left(a) \in Nat
<1>1. Len(a.known) \in Nat /\ Len(a.known) \in 0 .. Len(a.known)
  BY DEF Admission
<1> QED
  BY <1>1, LeftSum

\* The elements of a sequence one longer.
LEMMA ElementsAppend ==
    ASSUME NEW S, NEW q \in Seq(S), NEW x \in S
    PROVE  Elements(Append(q, x)) = Elements(q) \cup {x}
<1> DEFINE p == Append(q, x)
<1>1. Len(q) \in Nat /\ DOMAIN q = 1 .. Len(q) /\ DOMAIN p = 1 .. Len(q) + 1
      /\ p[Len(q) + 1] = x /\ \A i \in 1 .. Len(q) : p[i] = q[i]
  OBVIOUS
<1> HIDE DEF p
<1>2. Elements(p) \subseteq Elements(q) \cup {x}
  BY <1>1 DEF Elements
<1>3. Elements(q) \cup {x} \subseteq Elements(p)
  BY <1>1 DEF Elements
<1> QED
  BY <1>2, <1>3 DEF p

\* The scopes an inventory lists are those that were known and the registered.
LEMMA ListedTyped ==
    ASSUME NEW a \in Admission, index \in Seq(Scope)
    PROVE  /\ Listed(a) \in Seq(Scope) /\ Len(a.known) <= Len(Listed(a))
           /\ Elements(Listed(a)) = Elements(a.known) \cup Elements(index)
<1> DEFINE N == Len(index)
           Next1(q, n) == IF index[n] \in Elements(q) THEN q ELSE Append(q, index[n])
           Long(n) == {q \in Seq(Scope) : /\ Len(a.known) <= Len(q)
                                          /\ Elements(q) = Elements(a.known) \cup {index[i] : i \in 1 .. n}}
           G(g, k) == /\ g = [n \in 0 .. k |-> g[n]] /\ g[0] = a.known
                      /\ \A n \in 0 .. k : g[n] \in Long(n)
                      /\ \A n \in 1 .. k : g[n] = Next1(g[n - 1], n)
<1>1. N \in Nat /\ a.known \in Long(0) /\ \A n \in 1 .. N : index[n] \in Scope
  BY DEF Admission
<1>2. ASSUME NEW n \in 1 .. N, NEW q \in Long(n - 1) PROVE Next1(q, n) \in Long(n)
  <2>1. {index[i] : i \in 1 .. n} = {index[i] : i \in 1 .. n - 1} \cup {index[n]}
    OBVIOUS
  <2>2. CASE index[n] \in Elements(q)
    BY <2>1, <2>2
  <2>3. CASE index[n] \notin Elements(q)
    <3>1. Append(q, index[n]) \in Seq(Scope) /\ Len(Append(q, index[n])) = Len(q) + 1
          /\ Len(q) \in Nat /\ Len(a.known) <= Len(q) /\ Len(a.known) \in Nat
      BY <1>1
    <3>2. Elements(Append(q, index[n])) = Elements(q) \cup {index[n]}
      BY <1>1, ElementsAppend
    <3> QED
      BY <2>1, <2>3, <3>1, <3>2
  <2> QED
    BY <2>2, <2>3
<1> HIDE DEF Long, Next1
<1>3. \A k \in 0 .. N : \E g : G(g, k)
  <2> DEFINE S == {k \in 0 .. N : \E g : G(g, k)}
  <2>1. 0 \in S
    <3>1. G([n \in 0 .. 0 |-> a.known], 0)
      BY <1>1
    <3> HIDE DEF G
    <3> QED
      BY <1>1, <3>1
  <2>2. ASSUME NEW k \in 1 .. N, k - 1 \in S PROVE k \in S
    <3>1. PICK g : G(g, k - 1)
      BY <2>2
    <3> DEFINE Last(n) == IF n = k THEN Next1(g[k - 1], k) ELSE g[n]
               h == [n \in 0 .. k |-> Last(n)]
    <3>6. \A n \in 0 .. k : h[n] = Last(n)
      OBVIOUS
    <3>2. h = [n \in 0 .. k |-> h[n]] /\ h[0] = a.known
      <4>1. h = [n \in 0 .. k |-> h[n]]
        BY <3>6, Zenon
      <4>2. h[0] = a.known
        BY <3>1, <3>6
      <4> QED
        BY <4>1, <4>2, Zenon
    <3>3. \A n \in 1 .. k : h[n] = Next1(h[n - 1], n)
      <4> HIDE DEF h
      <4>1. \A n \in 1 .. k : n \in 0 .. k /\ n - 1 \in 0 .. k /\ n - 1 # k /\ (n # k => n \in 1 .. k - 1)
        BY <1>1
      <4> QED
        BY <3>1, <3>6, <4>1
    <3>4. \A n \in 0 .. k : h[n] \in Long(n)
      <4>1. Next1(g[k - 1], k) \in Long(k)
        BY <1>2, <3>1
      <4> QED
        BY <3>1, <4>1
    <3>5. G(h, k)
      BY <3>2, <3>3, <3>4
    <3> HIDE DEF G, h
    <3> QED
      BY <3>5
  <2> HIDE DEF S
  <2>3. \A k \in 0 .. N : k \in S
    BY <1>1, <2>1, <2>2, UpTo, Zenon
  <2> QED
    BY <2>3 DEF S
<1>4. PICK g : G(g, N)
  <2> HIDE DEF G
  <2>1. N \in 0 .. N
    BY <1>1
  <2> QED
    BY <1>3, <2>1
<1> DEFINE E(f) == [n \in 0 .. N |-> IF n = 0 THEN a.known ELSE Next1(f[n - 1], n)]
<1>5. g = E(g)
  <2>1. \A n \in 0 .. N : n # 0 => n \in 1 .. N
    BY <1>1
  <2>2. \A n \in 0 .. N : g[n] = IF n = 0 THEN a.known ELSE Next1(g[n - 1], n)
    BY <1>4, <2>1, Zenon
  <2>3. g = [n \in 0 .. N |-> g[n]]
    BY <1>4
  <2> QED
    BY <2>2, <2>3, Zenon
<1> DEFINE f == CHOOSE x : x = E(x)
<1>6. f = E(f)
  BY <1>5, Zenon
<1>7. Listed(a) = f[N]
  BY Zenon DEF Listed, Next1
<1> HIDE DEF f
<1>8. \A n \in 0 .. N : f[n] \in Long(n)
  <2> DEFINE S == {k \in 0 .. N : f[k] \in Long(k)}
  <2>1. 0 \in S
    BY <1>1, <1>6
  <2>2. ASSUME NEW n \in 1 .. N, n - 1 \in S PROVE n \in S
    <3>1. f[n] = Next1(f[n - 1], n)
      <4>1. n \in 0 .. N /\ n # 0
        BY <1>1
      <4>2. E(f)[n] = Next1(f[n - 1], n)
        BY <4>1, Zenon
      <4> QED
        BY <1>6, <4>2, Zenon
    <3> QED
      BY <1>1, <1>2, <2>2, <3>1
  <2> HIDE DEF S
  <2>3. \A n \in 0 .. N : n \in S
    BY <1>1, <2>1, <2>2, UpTo, Zenon
  <2> QED
    BY <2>3 DEF S
<1>9. f[N] \in Long(N)
  BY <1>1, <1>8
<1>10. Elements(index) = {index[i] : i \in 1 .. N}
  <2>1. DOMAIN index = 1 .. N
    OBVIOUS
  <2> QED
    BY <2>1, Zenon DEF Elements
<1> QED
  BY <1>7, <1>9, <1>10 DEF Long
-----------------------------------------------------------------------------
(* The invariant: types and stages.                                        *)

Owner == {"worker", "flush", "open"}
Finalizing == {"archive", "mark", "remove"}
Guarded == {"ops", "finish"} \cup Finalizing
Cycle == {"generate", "begin"} \cup Guarded

Pc == {"idle", "capture", "replay", "refill", "take", "opened", "failed", "release"} \cup Cycle

RunType == [owner : Owner \cup {None}, pc : Pc, force : BOOLEAN, budget : Nat,
            applied : Nat, rejected : Nat, ok : BOOLEAN, goal : SUBSET Event]
RefillType == [holder : Appender \cup {"cycle", None}, visited : Nat, filling : BOOLEAN,
               failed : BOOLEAN]
AppType == [pc : {"idle", "note", "refill"}, scope : Scope \cup {None}, seq : Nat]

DiskTypeOK ==
    /\ log \in [Scope -> Seq(Kind)] /\ \A s \in Scope : Len(log[s]) <= MaxLog
    /\ index \in Seq(Scope) /\ curated \in SUBSET Event
    /\ pending \in Receipt \cup {None} /\ archive \in Seq(Receipt)
    /\ journal \in Seq(Receipt) /\ synced \in 0 .. Len(journal)

MemoryTypeOK ==
    /\ up \in BOOLEAN /\ receipt \in Receipt \cup {None} /\ poisoned \in BOOLEAN
    /\ queue \in Seq(Event) /\ batch \in Seq(Event)
    /\ adm \in Admission \cup {None} /\ backlog \in BOOLEAN
    /\ refill \in RefillType /\ app \in [Appender -> AppType] /\ run \in RunType
    /\ issued \in Nat /\ returned \in SUBSET Event /\ flushed \in SUBSET Event

\* Cursors stay within endpoints and endpoints within the logs, of known scopes.
Sound(a) ==
    /\ a \in Admission
    /\ a.next = 1 \/ a.next \in 1 .. Len(a.known)
    /\ \A s \in Scope : a.cursor[s] <= a.end[s] /\ a.end[s] <= Len(log[s])
    /\ \A s \in Scope : a.cursor[s] < a.end[s] => s \in Elements(a.known)
    /\ a.refresh \subseteq Elements(a.known)

AdmissionOK == adm # None => Sound(adm)

\* Who may be where: the owner of the cycle slot,
RunStages ==
    /\ run.pc = "idle" <=> run.owner = None
    /\ run.owner = "open" =>
          ~up /\ run.pc \in {"replay", "refill", "opened", "failed"} \cup Finalizing
    /\ run.owner \in {"worker", "flush"} => up /\ run.pc \notin {"opened", "failed"}
    /\ run.pc \in {"capture", "release"} => run.owner = "flush"

\* and who holds replay_mu.
RefillStages ==
    /\ run.pc = "refill" <=> refill.holder = "cycle"
    /\ \A a \in Appender : /\ app[a].pc = "refill" <=> refill.holder = a
                           /\ app[a].pc # "idle" =>
                                 /\ up /\ app[a].scope \in Scope
                                 /\ app[a].seq \in 1 .. Len(log[app[a].scope])
    /\ refill.holder # None => adm # None
    /\ refill.filling => refill.holder # None /\ adm.known # <<>>

\* A context that is not open, or not yet, has nothing in memory.
Empty ==
    /\ ~up /\ run.owner = None => receipt = None /\ ~poisoned /\ adm = None
    /\ run.owner = "open" /\ run.pc \in Finalizing => adm = None
    /\ adm = None => queue = <<>> /\ batch = <<>>
    /\ (up \/ run.pc = "opened") /\ adm = None => Suspended
    /\ batch # <<>> <=> run.pc \in Cycle /\ run.owner # "open"
-----------------------------------------------------------------------------
(* The invariant: receipts.                                                *)

Claims == Elements(archive) \cup Elements(journal) \cup ({pending, receipt} \ {None})

\* The operations under claim id among the first n frames of js.
Frames(js, n, id) == {j \in 1 .. n : js[j].id = id}
Count(js, n, id) == Cardinality(Frames(js, n, id))

\* The receipt in memory and the one on disk, step by step.
ReceiptStages ==
    /\ (up \/ run.owner = "open") /\ receipt = None => pending = None
    /\ pending # None /\ receipt # None =>
          pending.id = receipt.id /\ pending.sources = receipt.sources
    /\ run.pc \in Guarded => receipt # None /\ pending = receipt
    /\ run.pc \in {"refill", "take", "generate", "begin"} => ~Suspended
    /\ run.pc = "replay" /\ run.owner = "worker" => ~Suspended
    /\ run.pc \in Guarded /\ run.owner # "open" => receipt.sources = Elements(batch)
    /\ run.pc \in {"ops", "finish", "archive"} /\ run.owner # "open" =>
          receipt.sources \cap curated = {}
    /\ run.pc \in {"mark", "remove"} =>
          archive # <<>> /\ archive[Len(archive)].id = receipt.id
    /\ run.pc = "remove" => receipt.sources \subseteq curated

\* Claims have their own numbers and their own sources,
Numbered ==
    /\ \A r \in Claims : r.id <= issued
    /\ \A r, q \in Claims : IF r.id = q.id THEN r.sources = q.sources
                            ELSE r.sources \cap q.sources = {}

\* they are archived in the order of their numbers,
InSequence ==
    /\ \A i, j \in DOMAIN archive : i < j => archive[i].id < archive[j].id
    /\ \A i \in DOMAIN archive, c \in {pending, receipt} \ {None} : archive[i].id <= c.id

\* and what is not the claim on disk is closed.
Closed ==
    \A r \in Elements(archive) \cup Elements(journal) :
        r.sources \subseteq curated \/ (pending # None /\ r.id = pending.id)

\* What is acknowledged is in the history, what the history counts is on disk,
\* and what is not on disk is part of the claim that is open.
Backed == \A e \in curated : \E i \in DOMAIN archive : e \in archive[i].sources

EffectsCounted ==
    /\ \A r \in Elements(archive) \cup ({pending} \ {None}) :
          r.applied <= Count(journal, synced, r.id)
    /\ run.pc = "ops" => run.applied <= Count(journal, Len(journal), receipt.id)
    /\ run.pc = "finish" => run.applied <= Count(journal, synced, receipt.id)

Early == {"capture", "replay", "refill", "take", "generate", "begin"}
AppliedOK == run.pc \in Early \/ run.owner = "open" => run.applied = 0

SyncedOK ==
    /\ \A j \in synced + 1 .. Len(journal) :
          /\ pending # None /\ journal[j].id = pending.id
          /\ ~(journal[j].sources \subseteq curated)
    /\ ~up \/ run.pc \in {"finish"} \cup Finalizing => synced = Len(journal)
-----------------------------------------------------------------------------
(* The invariant: the line of turns.                                       *)

Owned == batch \o queue

\* The turns in the line are behind their cursors, each scope's in its order.
LineOK ==
    /\ \A e \in Elements(Owned) :
          e \in Curable /\ adm # None /\ e[2] <= adm.cursor[e[1]]
    /\ \A i, j \in DOMAIN Owned :
          i < j /\ Owned[i][1] = Owned[j][1] => Owned[i][2] < Owned[j][2]

\* What is acknowledged is not queued, and ahead of a cursor it is known to be.
Settled ==
    /\ \A e \in Elements(Owned) \cap curated : Suspended /\ e \in receipt.sources
    /\ adm # None => /\ adm.cache \subseteq curated
                     /\ \A e \in curated : e[2] <= adm.cursor[e[1]] \/ e \in adm.cache

Complete(S) ==
    /\ S \subseteq Turns
    /\ \A e \in S, f \in Curable : f[1] = e[1] /\ f[2] < e[2] => f \in S

Prefixes ==
    /\ Complete(curated)
    /\ pending # None => Complete(curated \cup pending.sources)

\* The admission has the endpoint of an event, or will take it.
Seen(s, i) == adm.dirty \/ s \in adm.refresh \/ i <= adm.end[s]

\* What was appended is registered, what returned is recorded,
Indexed == \A s \in Scope : log[s] # <<>> => s \in Elements(index)
Recorded == returned \subseteq Turns

\* known to the admission, or will be at its next look,
Noticed ==
    adm # None =>
        /\ \A e \in returned : Seen(e[1], e[2])
        /\ \A a \in Appender : app[a].pc = "refill" => Seen(app[a].scope, app[a].seq)

\* and the worker is told.
Awake ==
    refill.holder = None /\ Backlog(adm) =>
        backlog \/ (Suspended /\ run.pc \notin Guarded)

CurationInv ==
    /\ DiskTypeOK /\ MemoryTypeOK /\ AdmissionOK /\ RunStages /\ RefillStages /\ Empty
    /\ ReceiptStages /\ Numbered /\ InSequence /\ Closed
    /\ Backed /\ EffectsCounted /\ AppliedOK /\ SyncedOK
    /\ LineOK /\ Settled /\ NoTurnLost /\ Prefixes
    /\ Indexed /\ Recorded /\ Noticed /\ Awake
-----------------------------------------------------------------------------
(* What the operations of the admission do to it.                          *)

\* Taking the inventory keeps an admission sound and moves no cursor.
LEMMA InventorySound ==
    ASSUME NEW a, Sound(a), index \in Seq(Scope)
    PROVE  /\ Sound(Inventory(a))
           /\ Inventory(a).cursor = a.cursor /\ Inventory(a).end = a.end
           /\ Inventory(a).cache = a.cache /\ Inventory(a).frozen = a.frozen
           /\ Inventory(a).dirty = FALSE
           /\ Inventory(a).refresh = a.refresh \cup Elements(index)
           /\ Elements(Inventory(a).known) = Elements(a.known) \cup Elements(index)
           /\ Len(a.known) <= Len(Inventory(a).known)
<1>1. a \in Admission
  BY DEF Sound
<1> DEFINE q == Listed(a)
           b == [a EXCEPT !.known = q, !.refresh = @ \cup Elements(index), !.dirty = FALSE]
<1>2. q \in Seq(Scope) /\ Len(a.known) <= Len(q) /\ Elements(q) = Elements(a.known) \cup Elements(index)
  BY <1>1, ListedTyped
<1>3. Inventory(a) = b
  BY Zenon DEF Inventory
<1>4. Elements(index) \subseteq Scope
  BY DEF Elements
<1> HIDE DEF q
<1>5. /\ b \in Admission /\ b.cursor = a.cursor /\ b.end = a.end /\ b.cache = a.cache
      /\ b.frozen = a.frozen /\ b.dirty = FALSE /\ b.refresh = a.refresh \cup Elements(index)
      /\ b.known = q /\ b.next = a.next
  BY <1>1, <1>2, <1>4 DEF Admission
<1> HIDE DEF b
<1>6. a.next = 1 \/ a.next \in 1 .. Len(q)
  <2>1. Len(a.known) \in Nat /\ Len(q) \in Nat
    BY <1>1, <1>2 DEF Admission
  <2> QED
    BY <1>2, <2>1 DEF Sound
<1>7. Sound(b)
  <2>1. a.refresh \cup Elements(index) \subseteq Elements(a.known) \cup Elements(index)
    BY DEF Sound
  <2> QED
    BY <1>2, <1>5, <1>6, <2>1 DEF Sound
<1> QED
  BY <1>2, <1>3, <1>5, <1>7

\* The admission a caller finds, or the first it makes, is sound.
LEMMA OpenedSound ==
    ASSUME DiskTypeOK, AdmissionOK
    PROVE  /\ Sound(Opened)
           /\ adm = None => /\ Opened.cursor = [s \in Scope |-> 0] /\ Opened.cache = curated
                            /\ Opened.dirty = FALSE /\ Opened.frozen = FALSE
                            /\ Elements(index) \subseteq Opened.refresh
<1> DEFINE a == [known |-> <<>>, cursor |-> [s \in Scope |-> 0],
                 end |-> [s \in Scope |-> 0], refresh |-> {}, next |-> 1,
                 cache |-> curated, dirty |-> FALSE, frozen |-> FALSE]
<1>1. CASE adm # None
  BY <1>1 DEF Opened, AdmissionOK
<1>2. CASE adm = None
  <2>1. a \in Admission
    BY DEF Admission, DiskTypeOK
  <2>2. \A s \in Scope : Len(log[s]) \in Nat
    BY DEF DiskTypeOK
  <2>3. Sound(a)
    BY <2>1, <2>2 DEF Sound
  <2>4. Opened = Inventory(a)
    BY <1>2 DEF Opened, Fresh
  <2>5. index \in Seq(Scope)
    BY DEF DiskTypeOK
  <2>6. a.cursor = [s \in Scope |-> 0] /\ a.cache = curated /\ a.frozen = FALSE
    OBVIOUS
  <2> HIDE DEF a
  <2> QED
    BY <1>2, <2>3, <2>4, <2>5, <2>6, InventorySound
<1> QED
  BY <1>1, <1>2

\* A noted scope is known and due for a new endpoint.
LEMMA AddScopeSound ==
    ASSUME NEW a, Sound(a), NEW s \in Scope
    PROVE  /\ Sound(AddScope(a, s))
           /\ AddScope(a, s).cursor = a.cursor /\ AddScope(a, s).end = a.end
           /\ AddScope(a, s).cache = a.cache /\ AddScope(a, s).frozen = a.frozen
           /\ AddScope(a, s).dirty = a.dirty /\ AddScope(a, s).refresh = a.refresh \cup {s}
           /\ Elements(AddScope(a, s).known) = Elements(a.known) \cup {s}
<1>1. a \in Admission /\ a.known \in Seq(Scope)
  BY DEF Sound, Admission
<1> DEFINE q == IF s \in Elements(a.known) THEN a.known ELSE Append(a.known, s)
           b == [a EXCEPT !.known = q, !.refresh = @ \cup {s}]
<1>2. AddScope(a, s) = b
  BY <1>1 DEF AddScope, Admission
<1>3. q \in Seq(Scope) /\ Elements(q) = Elements(a.known) \cup {s} /\ Len(a.known) <= Len(q)
      /\ Len(a.known) \in Nat /\ Len(q) \in Nat
  <2>1. CASE s \in Elements(a.known)
    BY <1>1, <2>1
  <2>2. CASE s \notin Elements(a.known)
    BY <1>1, <2>2, ElementsAppend
  <2> QED
    BY <2>1, <2>2
<1> HIDE DEF q
<1>4. /\ b \in Admission /\ b.cursor = a.cursor /\ b.end = a.end /\ b.cache = a.cache
      /\ b.frozen = a.frozen /\ b.dirty = a.dirty /\ b.refresh = a.refresh \cup {s}
      /\ b.known = q /\ b.next = a.next
  BY <1>1, <1>3 DEF Admission
<1> HIDE DEF b
<1>5. a.next = 1 \/ a.next \in 1 .. Len(q)
  BY <1>3 DEF Sound
<1>6. a.refresh \cup {s} \subseteq Elements(a.known) \cup {s}
  BY DEF Sound
<1>7. Sound(b)
  BY <1>3, <1>4, <1>5, <1>6 DEF Sound
<1> QED
  BY <1>2, <1>3, <1>4, <1>7

\* Capturing endpoints of scopes that are due moves no cursor.
LEMMA CaptureSound ==
    ASSUME NEW a, Sound(a), DiskTypeOK, NEW ss \in SUBSET a.refresh
    PROVE  LET b == Capture(a, ss)
           IN  /\ Sound(b)
               /\ b.cursor = a.cursor /\ b.cache = a.cache /\ b.frozen = a.frozen
               /\ b.dirty = a.dirty /\ b.refresh = a.refresh \ ss /\ b.known = a.known
               /\ b.end = [s \in Scope |-> IF s \in ss THEN Len(log[s]) ELSE a.end[s]]
<1>1. a \in Admission
  BY DEF Sound
<1>2. \A s \in Scope : Len(log[s]) \in Nat
  BY DEF DiskTypeOK
<1> DEFINE e == [s \in Scope |-> IF s \in ss THEN Len(log[s]) ELSE a.end[s]]
           b == [a EXCEPT !.end = e, !.refresh = @ \ ss]
<1>3. Capture(a, ss) = b
  BY <1>1 DEF Capture, Admission
<1>4. e \in [Scope -> Nat]
  BY <1>1, <1>2 DEF Admission
<1>5. \A s \in Scope : a.cursor[s] <= e[s] /\ e[s] <= Len(log[s])
  BY <1>1, <1>2 DEF Admission, Sound
<1>6. \A s \in Scope : a.cursor[s] < e[s] => s \in Elements(a.known)
  BY DEF Sound
<1> HIDE DEF e
<1>7. /\ b \in Admission /\ b.cursor = a.cursor /\ b.cache = a.cache /\ b.end = e
      /\ b.frozen = a.frozen /\ b.dirty = a.dirty /\ b.refresh = a.refresh \ ss
      /\ b.known = a.known /\ b.next = a.next
  BY <1>1, <1>4 DEF Admission
<1> HIDE DEF b
<1>8. Sound(b)
  BY <1>5, <1>6, <1>7 DEF Sound
<1> QED
  BY <1>3, <1>7, <1>8 DEF e

\* The next scope is another known one.
LEMMA AfterVisitSound ==
    ASSUME NEW a, Sound(a), a.known # <<>>
    PROVE  LET b == AfterVisit(a)
           IN  /\ Sound(b) /\ b.cursor = a.cursor /\ b.end = a.end /\ b.cache = a.cache
               /\ b.frozen = a.frozen /\ b.dirty = a.dirty /\ b.refresh = a.refresh
               /\ b.known = a.known
<1>1. a \in Admission
  BY DEF Sound
<1> DEFINE n == (a.next % Len(a.known)) + 1
           b == [a EXCEPT !.next = n]
<1>2. AfterVisit(a) = b
  BY <1>1 DEF AfterVisit, Admission
<1>3. n \in 1 .. Len(a.known) /\ n \in Nat
  <2>1. Len(a.known) \in Nat \ {0} /\ a.next \in Nat
    BY <1>1 DEF Admission
  <2> QED
    BY <2>1
<1> HIDE DEF n
<1>4. /\ b \in Admission /\ b.cursor = a.cursor /\ b.end = a.end /\ b.cache = a.cache
      /\ b.frozen = a.frozen /\ b.dirty = a.dirty /\ b.refresh = a.refresh
      /\ b.known = a.known /\ b.next = n
  BY <1>1, <1>3 DEF Admission
<1> HIDE DEF b
<1>5. Sound(b)
  BY <1>3, <1>4 DEF Sound
<1> QED
  BY <1>2, <1>4, <1>5
-----------------------------------------------------------------------------
(* Types.                                                                  *)

\* Receipts are built from what the cycle has.
LEMMA ReceiptsTyped ==
    ASSUME DiskTypeOK, MemoryTypeOK
    PROVE  /\ Prepared \in Receipt
           /\ receipt \in Receipt => Processed \in Receipt /\ Archived \in Seq(Receipt)
<1>1. Elements(batch) \in SUBSET Event
  BY DEF MemoryTypeOK, Elements
<1>2. Prepared \in Receipt
  BY <1>1 DEF Prepared, Receipt, MemoryTypeOK
<1>3. ASSUME receipt \in Receipt PROVE Processed \in Receipt
  BY <1>3 DEF Processed, Receipt, MemoryTypeOK, RunType
<1>4. ASSUME receipt \in Receipt PROVE Archived \in Seq(Receipt)
  BY <1>4 DEF Archived, DiskTypeOK
<1> QED
  BY <1>2, <1>3, <1>4

\* An event goes to the end of the log of its scope.
LEMMA LogTyped ==
    ASSUME DiskTypeOK, NEW s \in Scope, NEW k \in Kind, Len(log[s]) < MaxLog
    PROVE  LET l == [log EXCEPT ![s] = Append(@, k)]
           IN  /\ l \in [Scope -> Seq(Kind)] /\ \A t \in Scope : Len(l[t]) <= MaxLog
               /\ l[s] = Append(log[s], k) /\ Len(l[s]) = Len(log[s]) + 1
               /\ \A t \in Scope : t # s => l[t] = log[t]
<1>1. log[s] \in Seq(Kind) /\ Len(log[s]) \in Nat /\ MaxLog \in Nat
  BY CurationAssumption DEF DiskTypeOK
<1>2. Append(log[s], k) \in Seq(Kind) /\ Len(Append(log[s], k)) = Len(log[s]) + 1
  BY <1>1
<1> QED
  BY <1>1, <1>2 DEF DiskTypeOK

\* A registered scope stays so.
LEMMA RegisteredTyped ==
    ASSUME DiskTypeOK, NEW s \in Scope
    PROVE  /\ Registered(s) \in Seq(Scope)
           /\ Elements(Registered(s)) = Elements(index) \cup {s}
  BY ElementsAppend DEF Registered, DiskTypeOK

\* Cut off frames leave a journal.
LEMMA LoseTyped ==
    ASSUME DiskTypeOK, LoseUnsynced
    PROVE  /\ journal' \in Seq(Receipt) /\ synced' \in 0 .. Len(journal')
           /\ synced' = Len(journal') /\ synced <= synced' /\ Len(journal') <= Len(journal)
           /\ \A j \in 1 .. Len(journal') : journal'[j] = journal[j]
<1>1. PICK k \in synced .. Len(journal) : journal' = SubSeq(journal, 1, k) /\ synced' = k
  BY DEF LoseUnsynced
<1>2. journal \in Seq(Receipt) /\ synced \in 0 .. Len(journal) /\ Len(journal) \in Nat
  BY DEF DiskTypeOK
<1>3. k \in Nat /\ k <= Len(journal)
  BY <1>1, <1>2
<1>4. /\ SubSeq(journal, 1, k) \in Seq(Receipt) /\ Len(SubSeq(journal, 1, k)) = k
      /\ \A j \in 1 .. k : SubSeq(journal, 1, k)[j] = journal[j]
  BY <1>2, <1>3
<1> QED
  BY <1>1, <1>2, <1>3, <1>4

\* What is on disk keeps its type.
LEMMA DiskTypeStep == CurationInv /\ [Next]_vars => DiskTypeOK'
<1> SUFFICES ASSUME CurationInv, [Next]_vars PROVE DiskTypeOK'
  OBVIOUS
<1>0. /\ DiskTypeOK /\ MemoryTypeOK
      /\ run.pc \in Guarded => receipt # None
  BY DEF CurationInv, ReceiptStages
<1>1. run.pc \in Guarded => receipt \in Receipt /\ Processed \in Receipt /\ Archived \in Seq(Receipt)
  BY <1>0, ReceiptsTyped DEF MemoryTypeOK
<1>2. Prepared \in Receipt
  BY <1>0, ReceiptsTyped
<1>3. ASSUME UNCHANGED disk PROVE DiskTypeOK'
  BY <1>0, <1>3 DEF disk, DiskTypeOK
<1>4. ASSUME NEW a \in Appender, NEW s \in Scope, NEW k \in Kind, EventAppend(a, s, k) PROVE DiskTypeOK'
  BY <1>0, <1>4, LogTyped, RegisteredTyped DEF EventAppend, DiskTypeOK
<1>5. ASSUME NEW a \in Appender, NEW s \in Scope, NEW k \in Kind, EventAppendFails(a, s, k) PROVE DiskTypeOK'
  <2>1. index' \in Seq(Scope)
    BY <1>0, <1>5, RegisteredTyped DEF EventAppendFails, DiskTypeOK
  <2>2. log' \in [Scope -> Seq(Kind)] /\ \A t \in Scope : Len(log'[t]) <= MaxLog
    BY <1>0, <1>5, LogTyped DEF EventAppendFails, DiskTypeOK
  <2> QED
    BY <1>0, <1>5, <2>1, <2>2 DEF EventAppendFails, DiskTypeOK
<1>6. CASE Begin
  BY <1>0, <1>2, <1>6 DEF Begin, DiskTypeOK
<1>7. CASE BeginFails
  BY <1>0, <1>2, <1>7 DEF BeginFails, DiskTypeOK
<1>8. CASE ApplyOp
  BY <1>0, <1>1, <1>8 DEF ApplyOp, OpsLeft, Guarded, DiskTypeOK
<1>9. CASE RejectOp
  <2>1. receipt \in Receipt
    BY <1>1, <1>9 DEF RejectOp, OpsLeft, Guarded
  <2>2. /\ Append(journal, receipt) \in Seq(Receipt)
        /\ Len(Append(journal, receipt)) = Len(journal) + 1 /\ Len(journal) \in Nat
    BY <1>0, <2>1 DEF DiskTypeOK
  <2>3. CASE UNCHANGED journal
    BY <1>0, <1>9, <2>3 DEF RejectOp, DiskTypeOK
  <2>4. CASE journal' = Append(journal, receipt)
    <3>1. synced \in 0 .. Len(journal')
      BY <1>0, <2>2, <2>4 DEF DiskTypeOK
    <3> QED
      BY <1>0, <1>9, <2>2, <2>4, <3>1 DEF RejectOp, DiskTypeOK
  <2> QED
    BY <1>9, <2>3, <2>4 DEF RejectOp
<1>10. CASE Epilogue \/ EpilogueFails
  BY <1>0, <1>10 DEF Epilogue, EpilogueFails, DiskTypeOK
<1>11. CASE Finish \/ FinishFails
  BY <1>0, <1>1, <1>11 DEF Finish, FinishFails, Guarded, DiskTypeOK
<1>12. CASE ArchiveReceipt \/ MarkCurated \/ RemoveReceipt \/ FinalizeFails
  <2>1. run.pc \in Finalizing => receipt.sources \in SUBSET Event
    BY <1>1 DEF Guarded, Receipt
  <2> QED
    BY <1>0, <1>1, <1>12, <2>1 DEF ArchiveReceipt, MarkCurated, RemoveReceipt, FinalizeFails,
       Guarded, Finalizing, Acknowledged, DiskTypeOK
<1>13. CASE Crash
  BY <1>0, <1>13, LoseTyped DEF Crash, DiskTypeOK
<1>14. CASE Close
  BY <1>0, <1>14, LoseTyped DEF Close, DiskTypeOK
<1>15. CASE OperatorAcknowledge
  BY <1>0, <1>15 DEF OperatorAcknowledge, DiskTypeOK, Receipt
<1> QED
  BY <1>3, <1>4, <1>5, <1>6, <1>7, <1>8, <1>9, <1>10, <1>11, <1>12, <1>13, <1>14, <1>15
  DEF Next, AppendStep, NoteStep, RefillStep, CycleStep, vars, NoteScope, NoteFails, NoteReturns,
      RefillScope, FillEvent, FillFails, FillScopeDone, FlushCapture, FlushCaptureFails, Replay,
      ReplayFails, ReplayReturns, TakeTurns, NothingToTake, Generate, GenerateFails, FlushRelease,
      OpenReturns, OpenFails, WorkerStart, FlushStart, HostPoisons, Recover

\* A refill has a scope to look at.
CurrentOK == /\ adm # None /\ Sound(adm) /\ adm.known # <<>>
             /\ Current \in Scope /\ Current \in Elements(adm.known)

\* A refill that goes on looks at a known scope.
LEMMA CurrentTyped ==
    ASSUME CurationInv
    PROVE  /\ Refilling /\ refill.visited < Len(adm.known) => CurrentOK
           /\ refill.filling => CurrentOK
<1>1. ASSUME adm # None, adm.known # <<>> PROVE CurrentOK
  <2>1. Sound(adm) /\ adm \in Admission
    BY <1>1 DEF CurationInv, AdmissionOK, Sound
  <2>2. adm.known \in Seq(Scope) /\ Len(adm.known) \in Nat /\ Len(adm.known) >= 1
    BY <1>1, <2>1 DEF Admission
  <2>3. adm.next \in DOMAIN adm.known
    BY <2>1, <2>2 DEF Sound
  <2> QED
    BY <1>1, <2>1, <2>2, <2>3 DEF CurrentOK, Current, Elements
<1>2. refill.holder # None => adm # None
  BY DEF CurationInv, RefillStages
<1>3. refill.visited \in Nat
  BY DEF CurationInv, MemoryTypeOK, RefillType
<1>4. ASSUME Refilling, refill.visited < Len(adm.known) PROVE adm.known # <<>> /\ adm # None
  BY <1>2, <1>3, <1>4 DEF Refilling
<1>5. refill.filling => adm # None /\ adm.known # <<>>
  BY <1>2 DEF CurationInv, RefillStages
<1> QED
  BY <1>1, <1>4, <1>5

\* Passing an event moves the cursor of the current scope.
LEMMA FillSound ==
    ASSUME CurationInv, CanFill
    PROVE  LET b == [adm EXCEPT !.cursor[Current] = @ + 1]
           IN  /\ CurrentOK /\ Sound(b) /\ b.known = adm.known /\ b.end = adm.end
               /\ b.cache = adm.cache /\ b.frozen = adm.frozen /\ b.dirty = adm.dirty
               /\ b.refresh = adm.refresh
               /\ b.cursor = [adm.cursor EXCEPT ![Current] = @ + 1]
               /\ NextEvent \in Event /\ NextEvent[2] <= Len(log[Current])
<1>1. CurrentOK
  BY CurrentTyped DEF CanFill
<1>2. adm \in Admission /\ Current \in Scope /\ Sound(adm)
  BY <1>1 DEF CurrentOK, Sound
<1> DEFINE c == [adm.cursor EXCEPT ![Current] = @ + 1]
           b == [adm EXCEPT !.cursor[Current] = @ + 1]
<1>3. c \in [Scope -> Nat] /\ c[Current] = adm.cursor[Current] + 1 /\ adm.cursor[Current] \in Nat
      /\ \A s \in Scope : s # Current => c[s] = adm.cursor[s]
  BY <1>2 DEF Admission
<1>4. /\ b \in Admission /\ b.cursor = c /\ b.end = adm.end /\ b.cache = adm.cache
      /\ b.frozen = adm.frozen /\ b.dirty = adm.dirty /\ b.refresh = adm.refresh
      /\ b.known = adm.known /\ b.next = adm.next
  BY <1>2, <1>3 DEF Admission
<1>5. adm.cursor[Current] < adm.end[Current] /\ adm.end[Current] \in Nat
      /\ adm.end[Current] <= Len(log[Current]) /\ Len(log[Current]) \in Nat
      /\ Len(log[Current]) <= MaxLog /\ MaxLog \in Nat
  BY <1>2, CurationAssumption DEF CanFill, Sound, Admission, CurationInv, DiskTypeOK
<1> HIDE DEF c, b
<1>6. \A s \in Scope : c[s] <= adm.end[s] /\ (c[s] < adm.end[s] => s \in Elements(adm.known))
  <2>1. Current \in Elements(adm.known)
    BY <1>1 DEF CurrentOK
  <2> QED
    BY <1>2, <1>3, <1>5, <2>1 DEF Sound
<1>7. Sound(b)
  BY <1>2, <1>4, <1>6 DEF Sound
<1>8. NextEvent \in Event /\ NextEvent[2] <= Len(log[Current])
  BY <1>2, <1>3, <1>5 DEF NextEvent, Event
<1> QED
  BY <1>1, <1>4, <1>7, <1>8 DEF b, c

\* What an action other than a fill and the end of the context may do to the
\* admission: look at scopes, never move a cursor.
Looks == \/ adm' = adm
         \/ /\ adm' # None /\ Sound(adm') /\ Sound(Opened)
            /\ adm'.cursor = Opened.cursor /\ adm'.cache = Opened.cache

\* An admission is not the absence of one.
LEMMA NotNone == ASSUME NEW a \in Admission PROVE a # None
  BY CurationAssumption

\* A refill starts from a sound admission.
LEMMA BeginRefillSound ==
    ASSUME DiskTypeOK, NEW a, Sound(a), NEW h, BeginRefill(h, a)
    PROVE  /\ adm' # None /\ Sound(adm') /\ adm'.cursor = a.cursor /\ adm'.cache = a.cache
           /\ adm'.end = a.end /\ adm'.frozen = a.frozen
           /\ a.refresh \subseteq adm'.refresh
           /\ ~adm'.dirty => Elements(index) \subseteq adm'.refresh \/ ~a.dirty
<1>1. index \in Seq(Scope)
  BY DEF DiskTypeOK
<1>2. CASE a.dirty /\ ~a.frozen
  BY <1>1, <1>2, InventorySound, NotNone DEF BeginRefill, Sound
<1>3. CASE ~(a.dirty /\ ~a.frozen)
  BY <1>3, NotNone DEF BeginRefill, Sound
<1> QED
  BY <1>2, <1>3

\* These steps look, and nothing more.
LEMMA LooksAt ==
    ASSUME CurationInv,
           \/ \E a \in Appender : NoteScope(a) \/ NoteFails(a) \/ NoteReturns(a)
           \/ RefillScope \/ FillFails \/ FillScopeDone
           \/ FlushCapture \/ Replay \/ FlushRelease
    PROVE  Looks
<1>0. DiskTypeOK /\ AdmissionOK /\ (adm # None => Sound(adm) /\ Opened = adm)
  BY DEF CurationInv, AdmissionOK, Opened
<1>1. Sound(Opened) /\ Opened # None
  BY <1>0, OpenedSound, NotNone DEF Sound
<1>2. ASSUME NEW a \in Appender, NoteScope(a) PROVE Looks
  <2> DEFINE b == AddScope(Opened, app[a].scope)
  <2>1. app[a].scope \in Scope
    BY <1>2 DEF NoteScope, CurationInv, RefillStages
  <2>2. Sound(b) /\ b.cursor = Opened.cursor /\ b.cache = Opened.cache /\ b # None
    BY <1>1, <2>1, AddScopeSound, NotNone DEF Sound
  <2>3. CASE adm' = b
    <3> HIDE DEF b
    <3> QED
      BY <1>0, <1>1, <1>2, <2>2, <2>3 DEF Looks, Sound, NoteScope, disk
  <2>4. CASE BeginRefill(a, b)
    <3> HIDE DEF b
    <3>1. adm' # None /\ Sound(adm') /\ adm'.cursor = b.cursor /\ adm'.cache = b.cache
      BY <1>0, <2>2, <2>4, BeginRefillSound
    <3> QED
      BY <1>1, <1>2, <2>2, <3>1 DEF Looks
  <2> QED
    BY <1>2, <2>3, <2>4 DEF NoteScope
<1>3. ASSUME NEW a \in Appender, NoteFails(a) PROVE Looks
  <2>1. app[a].scope \in Scope
    BY <1>3 DEF NoteFails, CurationInv, RefillStages
  <2>2. CASE adm = None
    BY <1>3, <2>2 DEF NoteFails, Looks
  <2>3. CASE adm # None
    <3> DEFINE b == AddScope(adm, app[a].scope)
               d == [adm EXCEPT !.dirty = TRUE]
    <3>1. Sound(b) /\ b.cursor = adm.cursor /\ b.cache = adm.cache /\ b # None
      BY <1>0, <2>1, <2>3, AddScopeSound, NotNone DEF Sound
    <3>2. Sound(d) /\ d.cursor = adm.cursor /\ d.cache = adm.cache /\ d # None
      <4>1. d \in Admission
        BY <1>0, <2>3 DEF Sound, Admission
      <4>2. d.cursor = adm.cursor /\ d.cache = adm.cache /\ d.known = adm.known /\ d.end = adm.end
            /\ d.refresh = adm.refresh /\ d.next = adm.next
        BY <1>0, <2>3 DEF Sound, Admission
      <4> HIDE DEF d
      <4> QED
        BY <1>0, <2>3, <4>1, <4>2, NotNone DEF Sound
    <3>3. adm' = b \/ adm' = d
      BY <1>3, <2>3 DEF NoteFails
    <3> HIDE DEF b, d
    <3> QED
      BY <1>0, <2>3, <3>1, <3>2, <3>3 DEF Looks
  <2> QED
    BY <2>2, <2>3
<1>4. ASSUME RefillScope PROVE Looks
  <2>1. CurrentOK
    BY <1>4, CurrentTyped DEF RefillScope
  <2> DEFINE a == IF Current \in adm.refresh /\ ~adm.frozen THEN Capture(adm, {Current}) ELSE adm
  <2>2. Sound(a) /\ a.cursor = adm.cursor /\ a.cache = adm.cache /\ a.known = adm.known
    <3>1. CASE Current \in adm.refresh /\ ~adm.frozen
      <4>1. {Current} \in SUBSET adm.refresh
        BY <3>1
      <4>2. a = Capture(adm, {Current})
        BY <3>1, Zenon
      <4> HIDE DEF a
      <4> QED
        BY <1>0, <2>1, <4>1, <4>2, CaptureSound DEF CurrentOK
    <3>2. CASE ~(Current \in adm.refresh /\ ~adm.frozen)
      BY <1>0, <2>1, <3>2 DEF CurrentOK
    <3> QED
      BY <3>1, <3>2
  <2>3. adm' = a \/ adm' = AfterVisit(a)
    BY <1>4 DEF RefillScope
  <2> HIDE DEF a
  <2>4. Sound(adm') /\ adm'.cursor = adm.cursor /\ adm'.cache = adm.cache
    BY <2>1, <2>2, <2>3, AfterVisitSound DEF CurrentOK
  <2> QED
    BY <1>0, <2>1, <2>4, NotNone DEF Looks, CurrentOK, Sound
<1>5. ASSUME FillFails \/ FillScopeDone PROVE Looks
  <2>1. CurrentOK
    BY <1>5, CurrentTyped DEF FillFails, FillScopeDone, Reads, CanFill
  <2>2. adm' = AfterVisit(adm)
    BY <1>5 DEF FillFails, FillScopeDone
  <2> QED
    BY <1>0, <2>1, <2>2, AfterVisitSound, NotNone DEF Looks, CurrentOK, Sound
<1>6. ASSUME FlushCapture PROVE Looks
  <2> DEFINE a == IF Opened.dirty THEN Inventory(Opened) ELSE Opened
             b == Capture(a, a.refresh)
             d == [b EXCEPT !.frozen = TRUE]
  <2>1. Sound(a) /\ a.cursor = Opened.cursor /\ a.cache = Opened.cache
    BY <1>0, <1>1, InventorySound DEF DiskTypeOK
  <2>2. Sound(b) /\ b.cursor = Opened.cursor /\ b.cache = Opened.cache
    <3> HIDE DEF a
    <3> QED
      BY <1>0, <2>1, CaptureSound
  <2>3. adm' = d
    BY <1>6 DEF FlushCapture
  <2> HIDE DEF b
  <2>4. Sound(d) /\ d.cursor = b.cursor /\ d.cache = b.cache /\ d # None
    <3>1. d \in Admission /\ d.cursor = b.cursor /\ d.cache = b.cache /\ d.known = b.known
          /\ d.end = b.end /\ d.refresh = b.refresh /\ d.next = b.next
      BY <2>2 DEF Sound, Admission
    <3> HIDE DEF d
    <3> QED
      BY <2>2, <3>1, NotNone DEF Sound
  <2> HIDE DEF d
  <2> QED
    BY <1>1, <2>2, <2>3, <2>4 DEF Looks
<1>7. ASSUME Replay PROVE Looks
  <2>1. CASE Suspended
    BY <1>7, <2>1 DEF Replay, Looks
  <2>2. CASE ~Suspended
    <3>1. BeginRefill("cycle", Opened)
      BY <1>7, <2>2 DEF Replay
    <3> QED
      BY <1>0, <1>1, <3>1, BeginRefillSound DEF Looks
  <2> QED
    BY <2>1, <2>2
<1>8. ASSUME FlushRelease PROVE Looks
  <2>1. CASE adm = None
    BY <1>8, <2>1 DEF FlushRelease, Looks
  <2>2. CASE adm # None
    <3> DEFINE d == [adm EXCEPT !.frozen = FALSE]
    <3>1. d \in Admission /\ d.cursor = adm.cursor /\ d.cache = adm.cache /\ d.known = adm.known
          /\ d.end = adm.end /\ d.refresh = adm.refresh /\ d.next = adm.next
      BY <1>0, <2>2 DEF Sound, Admission
    <3>2. adm' = d
      BY <1>8, <2>2 DEF FlushRelease
    <3> HIDE DEF d
    <3>3. Sound(d) /\ d # None
      BY <1>0, <2>2, <3>1, NotNone DEF Sound
    <3> QED
      BY <1>0, <2>2, <3>1, <3>2, <3>3 DEF Looks
  <2> QED
    BY <2>1, <2>2
<1>9. (\E a \in Appender : NoteReturns(a)) => Looks
  BY DEF NoteReturns, Looks
<1> QED
  BY <1>2, <1>3, <1>4, <1>5, <1>6, <1>7, <1>8, <1>9

\* The admission stays sound.
LEMMA AdmissionStep == CurationInv /\ [Next]_vars => AdmissionOK'
<1> SUFFICES ASSUME CurationInv, [Next]_vars PROVE AdmissionOK'
  OBVIOUS
<1>0. AdmissionOK /\ DiskTypeOK
  BY DEF CurationInv
<1>1. ASSUME log' = log, adm' = None \/ Sound(adm') PROVE AdmissionOK'
  BY <1>1 DEF AdmissionOK, Sound
<1>2. ASSUME Looks, log' = log PROVE AdmissionOK'
  BY <1>0, <1>1, <1>2 DEF Looks, AdmissionOK
<1>3. ASSUME adm' = adm, log' = log PROVE AdmissionOK'
  BY <1>2, <1>3 DEF Looks
<1>4. ASSUME NEW a \in Appender, NEW s \in Scope, NEW k \in Kind,
             EventAppend(a, s, k) \/ EventAppendFails(a, s, k) PROVE AdmissionOK'
  <2>1. adm' = adm
    BY <1>4 DEF EventAppend, EventAppendFails, admission
  <2>2. \A t \in Scope : Len(log[t]) \in Nat /\ Len(log'[t]) \in Nat /\ Len(log[t]) <= Len(log'[t])
    <3>1. \A t \in Scope : Len(log[t]) \in Nat
      BY <1>0 DEF DiskTypeOK
    <3>2. CASE log' = log
      BY <3>1, <3>2
    <3>3. CASE Len(log[s]) < MaxLog /\ log' = [log EXCEPT ![s] = Append(@, k)]
      BY <1>0, <3>1, <3>3, LogTyped
    <3> QED
      BY <1>4, <3>2, <3>3 DEF EventAppend, EventAppendFails
  <2>3. adm \in Admission => \A t \in Scope : adm.end[t] \in Nat
    BY DEF Admission
  <2> QED
    BY <1>0, <2>1, <2>2, <2>3 DEF AdmissionOK, Sound
<1>5. CASE FillEvent
  <2>1. Sound(adm') /\ log' = log
    BY <1>5, FillSound DEF FillEvent, disk
  <2> QED
    BY <1>1, <2>1
<1>6. CASE Crash \/ Close \/ OpenFails
  BY <1>6 DEF Crash, Close, OpenFails, EmptyMemory, AdmissionOK
<1>7. CASE NoteStep \/ RefillScope \/ FillFails \/ FillScopeDone \/ FlushCapture \/ Replay \/ FlushRelease
  <2>1. Looks
    BY <1>7, LooksAt DEF NoteStep
  <2>2. log' = log
    BY <1>7 DEF NoteStep, NoteScope, NoteFails, NoteReturns, RefillScope, FillFails, FillScopeDone,
       FlushCapture, Replay, FlushRelease, disk
  <2> QED
    BY <1>2, <2>1, <2>2
<1>8. CASE UNCHANGED vars
  BY <1>3, <1>8 DEF vars, disk, admission
<1>9. CASE WorkerStart \/ FlushStart \/ HostPoisons \/ Recover \/ OperatorAcknowledge
  BY <1>3, <1>9 DEF WorkerStart, FlushStart, HostPoisons, Recover, OperatorAcknowledge, disk, admission
<1>10. CASE \/ FlushCaptureFails \/ ReplayFails \/ ReplayReturns \/ TakeTurns \/ NothingToTake
            \/ (\E n \in 1 .. QueueLimit : Generate(n))
            \/ GenerateFails \/ Begin \/ BeginFails \/ ApplyOp \/ RejectOp
            \/ Epilogue \/ EpilogueFails \/ Finish \/ FinishFails
            \/ ArchiveReceipt \/ MarkCurated \/ RemoveReceipt \/ FinalizeFails \/ OpenReturns
  BY <1>3, <1>10 DEF FlushCaptureFails, ReplayFails, ReplayReturns, TakeTurns, NothingToTake, Generate,
     GenerateFails, Begin, BeginFails, ApplyOp, RejectOp, Epilogue, EpilogueFails, Finish, FinishFails,
     ArchiveReceipt, MarkCurated, RemoveReceipt, FinalizeFails, OpenReturns, disk, admission
<1> QED
  BY <1>4, <1>5, <1>6, <1>7, <1>8, <1>9, <1>10 DEF Next, AppendStep, RefillStep, CycleStep

\* Moving on keeps the owner and the counters.
LEMMA GotoTyped ==
    ASSUME run \in RunType, NEW p \in Pc, Goto(p)
    PROVE  /\ run' \in RunType /\ run'.pc = p /\ run'.owner = run.owner
           /\ run'.applied = run.applied /\ run'.budget = run.budget /\ run'.goal = run.goal
           /\ run'.ok = run.ok
  BY DEF Goto, RunType

\* How a cycle ends for each owner of the slot.
LEMMA EndRunTyped ==
    ASSUME run \in RunType, run.owner # None, NEW ok \in BOOLEAN, EndRun(ok)
    PROVE  /\ run' \in RunType
           /\ \/ run.owner = "worker" /\ run' = IdleRun
              \/ run.owner = "flush" /\ run'.owner = "flush" /\ run'.pc = "release"
                 /\ run'.ok = ok /\ run'.goal = run.goal
              \/ run.owner = "flush" /\ run'.owner = "flush" /\ run'.pc = "replay"
                 /\ run'.applied = 0 /\ run'.goal = run.goal /\ ok
              \/ run.owner = "open" /\ run'.owner = "open" /\ run'.pc = "replay"
                 /\ run'.applied = run.applied
<1>1. run.owner \in Owner
  BY DEF RunType
<1>2. CASE run.owner = "worker"
  <2>1. run' = IdleRun
    BY <1>2 DEF EndRun
  <2>2. IdleRun \in RunType
    BY DEF IdleRun, RunType, Pc
  <2> QED
    BY <1>2, <2>1, <2>2
<1>3. CASE run.owner = "flush" /\ ok /\ run.budget > 1
  <2>1. run' = [IdleRun EXCEPT !.owner = "flush", !.pc = "replay", !.force = TRUE,
                     !.goal = run.goal, !.budget = run.budget - 1]
    BY <1>3 DEF EndRun
  <2>2. run.budget \in Nat /\ run.goal \in SUBSET Event
    BY DEF RunType
  <2>3. run.budget - 1 \in Nat
    BY <1>3, <2>2
  <2>4. run' \in RunType
    BY <2>1, <2>2, <2>3 DEF IdleRun, RunType, Owner, Pc
  <2> QED
    BY <1>3, <2>1, <2>4 DEF IdleRun
<1>4. CASE run.owner = "flush" /\ ~(ok /\ run.budget > 1)
  <2>1. run' = [run EXCEPT !.pc = "release", !.ok = ok]
    BY <1>4 DEF EndRun
  <2> QED
    BY <1>4, <2>1 DEF RunType, Pc
<1>5. CASE run.owner = "open"
  <2>1. run' = [run EXCEPT !.pc = "replay"]
    BY <1>5 DEF EndRun
  <2> QED
    BY <1>5, <2>1 DEF RunType, Pc
<1> QED
  BY <1>1, <1>2, <1>3, <1>4, <1>5 DEF Owner

\* The cycle slot has one owner at a time, who is where it may be.
LEMMA RunStep == CurationInv /\ [Next]_vars => run' \in RunType /\ RunStages'
<1> SUFFICES ASSUME CurationInv, [Next]_vars PROVE run' \in RunType /\ RunStages'
  OBVIOUS
<1>0. run \in RunType /\ RunStages /\ None \notin Owner
      /\ None # "worker" /\ None # "flush" /\ None # "open"
  BY CurationAssumption DEF CurationInv, MemoryTypeOK, Owner
<1>1. ASSUME UNCHANGED <<run, up>> PROVE run' \in RunType /\ RunStages'
  BY <1>0, <1>1 DEF RunStages
<1>2. ASSUME run.owner # None, up' = up, run.pc \notin {"opened", "failed"},
             NEW ok \in BOOLEAN, EndRun(ok)
      PROVE  run' \in RunType /\ RunStages'
  BY <1>0, <1>2, EndRunTyped DEF RunStages, IdleRun, Finalizing
<1>3. ASSUME up' = up, NEW p \in Pc \ {"idle", "capture", "release", "opened", "failed"},
             run.owner \in {"worker", "flush"}, Goto(p)
      PROVE  run' \in RunType /\ RunStages'
  BY <1>0, <1>3, GotoTyped DEF RunStages
<1>4. ASSUME up' = up, run.owner = "open", Goto("opened") \/ Goto("failed") \/ Goto("mark")
                 \/ Goto("remove") \/ Goto("refill") \/ Goto("replay")
      PROVE  run' \in RunType /\ RunStages'
  <2>1. {"opened", "failed", "mark", "remove", "refill", "replay"} \subseteq Pc
    BY DEF Pc, Cycle, Guarded, Finalizing
  <2> QED
    BY <1>0, <1>4, <2>1, GotoTyped DEF RunStages, Finalizing
<1>5. IdleRun \in RunType /\ IdleRun.pc = "idle" /\ IdleRun.owner = None
  BY DEF IdleRun, RunType, Pc
<1>6. ASSUME run' = IdleRun PROVE run' \in RunType /\ RunStages'
  BY <1>0, <1>5, <1>6 DEF RunStages, Owner
<1>7. run.owner \in {"worker", "flush", "open"} \/ run.owner = None
  BY <1>0 DEF RunType, Owner
<1>8. ASSUME run' \in RunType, run'.pc = "release", run'.owner = "flush", up, up' = up
      PROVE  run' \in RunType /\ RunStages'
  BY <1>0, <1>8 DEF RunStages
<1>9. run.owner = None => run.pc = "idle"
  BY <1>0 DEF RunStages
<1>10. CASE FlushCapture
  <2> DEFINE a == IF Opened.dirty THEN Inventory(Opened) ELSE Opened
             b == Capture(a, a.refresh)
             captured == [b EXCEPT !.frozen = TRUE]
             budget == Len(queue) + Left(captured)
  <2>1. run' = [run EXCEPT !.budget = budget, !.pc = IF budget = 0 THEN "release" ELSE "replay"]
    BY <1>10 DEF FlushCapture
  <2>2. budget \in Nat
    <3>1. Sound(Opened)
      BY OpenedSound DEF CurationInv
    <3>2. Sound(a)
      BY <3>1, InventorySound DEF CurationInv, DiskTypeOK
    <3> HIDE DEF a
    <3>3. Sound(b)
      BY <3>2, CaptureSound DEF CurationInv
    <3> HIDE DEF b
    <3>4. captured \in Admission /\ \A s \in Scope : captured.cursor[s] <= captured.end[s]
      BY <3>3 DEF Sound, Admission
    <3> HIDE DEF captured
    <3>5. Left(captured) \in Nat
      BY <3>4, LeftTyped
    <3>6. Len(queue) \in Nat
      BY DEF CurationInv, MemoryTypeOK
    <3> QED
      BY <3>5, <3>6
  <2> HIDE DEF budget
  <2>3. run' \in RunType /\ run'.pc \in {"release", "replay"} /\ run'.owner = run.owner
    BY <1>0, <2>1, <2>2 DEF RunType, Pc
  <2>4. run.owner = "flush" /\ up' = up
    BY <1>0, <1>10 DEF FlushCapture, RunStages
  <2> QED
    BY <1>0, <2>3, <2>4 DEF RunStages
<1>11. CASE FlushCaptureFails
  <2>1. run.owner = "flush" /\ up /\ up' = up
    BY <1>0, <1>11 DEF FlushCaptureFails, RunStages
  <2>2. run' = [run EXCEPT !.ok = FALSE, !.pc = "release"]
    BY <1>11 DEF FlushCaptureFails
  <2>3. run' \in RunType /\ run'.pc = "release" /\ run'.owner = "flush"
    BY <1>0, <2>1, <2>2 DEF RunType, Pc
  <2> QED
    BY <1>8, <2>1, <2>3
<1>12. CASE Replay
  <2>1. run.pc = "replay" /\ run.owner # None /\ up' = up
    BY <1>12, <1>9 DEF Replay
  <2>2. CASE run.owner = "open"
    <3>1. Goto("opened") \/ Goto("refill")
      BY <1>12, <2>2 DEF Replay, Goto
    <3> QED
      BY <1>4, <2>1, <2>2, <3>1
  <2>3. CASE run.owner # "open" /\ ~Suspended
    <3>1. Goto("refill") /\ run.owner \in {"worker", "flush"}
      BY <1>7, <1>12, <2>1, <2>3 DEF Replay
    <3>2. "refill" \in Pc \ {"idle", "capture", "release", "opened", "failed"}
      BY DEF Pc
    <3> QED
      BY <1>3, <2>1, <3>1, <3>2
  <2>4. CASE run.owner = "flush" /\ Suspended
    <3>1. run' = [run EXCEPT !.pc = "release", !.ok = (queue = <<>>)]
      BY <1>12, <2>4 DEF Replay
    <3>2. run' \in RunType /\ run'.pc = "release" /\ run'.owner = "flush"
      BY <1>0, <2>4, <3>1 DEF RunType, Pc
    <3> QED
      BY <1>0, <1>8, <2>1, <2>4, <3>2 DEF RunStages
  <2>5. CASE run.owner = "worker" /\ Suspended
    BY <2>1, <2>5 DEF CurationInv, ReceiptStages
  <2> QED
    BY <1>7, <2>1, <2>2, <2>3, <2>4, <2>5
<1>13. CASE ReplayFails
  <2>1. run.pc = "replay" /\ run.owner # None /\ up' = up
    BY <1>13, <1>9 DEF ReplayFails
  <2>2. CASE run.owner = "open"
    BY <1>4, <1>13, <2>1, <2>2 DEF ReplayFails
  <2>3. CASE run.owner # "open"
    BY <1>2, <1>13, <2>1, <2>3 DEF ReplayFails
  <2> QED
    BY <2>2, <2>3
<1>14. CASE ReplayReturns
  <2>1. run.pc = "refill" /\ run.owner # None /\ up' = up
    BY <1>14, <1>9 DEF ReplayReturns, CurationInv, RefillStages
  <2>2. CASE run.owner = "open"
    BY <1>4, <1>14, <2>1, <2>2 DEF ReplayReturns
  <2>3. CASE run.owner # "open" /\ refill.failed
    BY <1>2, <1>14, <2>1, <2>3 DEF ReplayReturns
  <2>4. CASE run.owner # "open" /\ ~refill.failed
    <3>1. Goto("take") /\ run.owner \in {"worker", "flush"}
      BY <1>7, <1>14, <2>1, <2>4 DEF ReplayReturns
    <3>2. "take" \in Pc \ {"idle", "capture", "release", "opened", "failed"}
      BY DEF Pc
    <3> QED
      BY <1>3, <2>1, <3>1, <3>2
  <2> QED
    BY <2>2, <2>3, <2>4
<1>15. CASE NothingToTake
  <2>1. run.pc = "take" /\ run.owner \in {"worker", "flush"} /\ up' = up
    BY <1>0, <1>7, <1>9, <1>15 DEF NothingToTake, RunStages, Finalizing
  <2>2. CASE run.owner = "flush"
    <3>1. run' = [run EXCEPT !.pc = "release"]
      BY <1>15, <2>2 DEF NothingToTake
    <3>2. run' \in RunType /\ run'.pc = "release" /\ run'.owner = "flush"
      BY <1>0, <2>2, <3>1 DEF RunType, Pc
    <3> QED
      BY <1>0, <1>8, <2>1, <2>2, <3>2 DEF RunStages
  <2>3. CASE run.owner # "flush"
    BY <1>6, <1>15, <2>3 DEF NothingToTake
  <2> QED
    BY <2>2, <2>3
<1>16. ASSUME NEW p \in {"generate", "begin", "ops", "finish", "archive", "mark", "remove"},
              run.pc \in {"take", "generate", "begin", "ops", "finish"}, up' = up, Goto(p)
       PROVE  run' \in RunType /\ RunStages'
  <2>1. p \in Pc \ {"idle", "capture", "release", "opened", "failed"}
    BY DEF Pc, Cycle, Guarded, Finalizing
  <2>2. run.owner \in {"worker", "flush"}
    BY <1>0, <1>7, <1>9, <1>16 DEF RunStages, Finalizing
  <2> QED
    BY <1>3, <1>16, <2>1, <2>2
<1>17. CASE TakeTurns \/ (\E n \in 1 .. QueueLimit : Generate(n)) \/ Begin \/ Epilogue \/ Finish
  BY <1>16, <1>17 DEF TakeTurns, Generate, Begin, Epilogue, Finish
<1>18. ASSUME NEW p \in {"mark", "remove"}, run.pc \in {"archive", "mark"}, up' = up, Goto(p)
       PROVE  run' \in RunType /\ RunStages'
  <2>1. p \in Pc \ {"idle", "capture", "release", "opened", "failed"}
    BY DEF Pc, Cycle, Guarded, Finalizing
  <2> QED
    BY <1>3, <1>4, <1>7, <1>9, <1>18, <2>1
<1>19. CASE ArchiveReceipt \/ MarkCurated
  BY <1>18, <1>19 DEF ArchiveReceipt, MarkCurated
<1>20. CASE RemoveReceipt
  BY <1>2, <1>9, <1>20 DEF RemoveReceipt
<1>21. CASE GenerateFails \/ BeginFails \/ EpilogueFails \/ FinishFails
  <2>1. EndRun(FALSE) /\ run.pc \notin {"idle", "opened", "failed"} /\ up' = up
    BY <1>21 DEF GenerateFails, BeginFails, EpilogueFails, FinishFails, FailRun
  <2> QED
    BY <1>2, <1>9, <2>1
<1>22. CASE FinalizeFails
  <2>1. run.pc \in {"archive", "mark", "remove"} /\ up' = up /\ run.owner # None
    BY <1>9, <1>22 DEF FinalizeFails
  <2>2. CASE run.owner = "open"
    BY <1>4, <1>22, <2>1, <2>2 DEF FinalizeFails
  <2>3. CASE run.owner # "open"
    BY <1>2, <1>22, <2>1, <2>3 DEF FinalizeFails, FailRun
  <2> QED
    BY <2>2, <2>3
<1>23. CASE ApplyOp \/ RejectOp
  <2>1. run.pc = "ops" /\ up' = up
    BY <1>23 DEF ApplyOp, RejectOp, OpsLeft
  <2>2. run' = [run EXCEPT !.applied = @ + 1] \/ run' = [run EXCEPT !.rejected = @ + 1]
    BY <1>23 DEF ApplyOp, RejectOp
  <2>3. run' \in RunType /\ run'.pc = run.pc /\ run'.owner = run.owner
    BY <1>0, <2>2 DEF RunType
  <2> QED
    BY <1>0, <2>1, <2>3 DEF RunStages
<1>24. CASE FlushRelease \/ OpenFails \/ Crash \/ Close
  BY <1>6, <1>24 DEF FlushRelease, OpenFails, Crash, Close, EmptyMemory
<1>25. CASE OpenReturns
  BY <1>6, <1>25 DEF OpenReturns
<1>26. CASE WorkerStart \/ FlushStart
  <2>1. up /\ up' = up
    BY <1>26 DEF WorkerStart, FlushStart
  <2>2. returned \in SUBSET Event /\ run'.owner \in {"worker", "flush"}
        /\ run'.pc \in {"replay", "capture"} /\ (run'.pc = "capture" => run'.owner = "flush")
    BY <1>26 DEF CurationInv, MemoryTypeOK, WorkerStart, FlushStart, IdleRun
  <2>3. run' \in RunType
    <3>1. CASE WorkerStart
      <4> DEFINE force == ~backlog /\ Len(queue) < TurnBatch
      <4>1. run' = [IdleRun EXCEPT !.owner = "worker", !.pc = "replay", !.force = force]
        BY <3>1 DEF WorkerStart
      <4>2. force \in BOOLEAN
        OBVIOUS
      <4> HIDE DEF force
      <4> QED
        BY <4>1, <4>2 DEF IdleRun, RunType, Pc, Owner
    <3>2. CASE FlushStart
      BY <2>2, <3>2 DEF FlushStart, IdleRun, RunType, Pc, Owner
    <3> QED
      BY <1>26, <3>1, <3>2
  <2> QED
    BY <1>0, <2>1, <2>2, <2>3 DEF RunStages
<1>27. CASE Recover
  <2> DEFINE p == IF pending = None THEN "replay"
                  ELSE IF pending.outcome = "prepared" THEN "replay" ELSE "archive"
  <2>1. run' = [IdleRun EXCEPT !.owner = "open", !.pc = p] /\ ~up /\ up' = up
    BY <1>27 DEF Recover
  <2>2. p \in {"replay", "archive"}
    OBVIOUS
  <2> HIDE DEF p
  <2>3. run' \in RunType /\ run'.owner = "open" /\ run'.pc \in {"replay", "archive"}
    BY <2>1, <2>2 DEF IdleRun, RunType, Pc, Owner, Cycle, Guarded, Finalizing
  <2> QED
    BY <1>0, <2>1, <2>3 DEF RunStages, Finalizing
<1>28. CASE AppendStep \/ NoteStep \/ RefillStep \/ HostPoisons \/ OperatorAcknowledge \/ UNCHANGED vars
  BY <1>1, <1>28 DEF AppendStep, NoteStep, RefillStep, HostPoisons, OperatorAcknowledge, vars, EventAppend,
     EventAppendFails, NoteScope, NoteFails, NoteReturns, RefillScope, FillEvent, FillFails, FillScopeDone
<1> QED
  BY <1>10, <1>11, <1>12, <1>13, <1>14, <1>15, <1>17, <1>19, <1>20, <1>21, <1>22, <1>23, <1>24, <1>25,
     <1>26, <1>27, <1>28 DEF Next, CycleStep

\* The queue and the batch are sequences of events.
LEMMA LineTypeStep == CurationInv /\ [Next]_vars => queue' \in Seq(Event) /\ batch' \in Seq(Event)
<1> SUFFICES ASSUME CurationInv, [Next]_vars PROVE queue' \in Seq(Event) /\ batch' \in Seq(Event)
  OBVIOUS
<1>0. queue \in Seq(Event) /\ batch \in Seq(Event) /\ <<>> \in Seq(Event)
  BY DEF CurationInv, MemoryTypeOK
<1>1. CASE FillEvent
  BY <1>0, <1>1, FillSound DEF FillEvent
<1>2. CASE TakeTurns
  <2>1. PICK n \in Nat : batch' = SubSeq(queue, 1, n) /\ queue' = SubSeq(queue, n + 1, Len(queue)) /\ n <= Len(queue)
    BY <1>0, <1>2, CurationAssumption DEF TakeTurns
  <2> QED
    BY <1>0, <2>1
<1>3. ASSUME NEW n \in 1 .. QueueLimit, Generate(n) PROVE queue' \in Seq(Event) /\ batch' \in Seq(Event)
  <2>1. n \in 1 .. Len(batch) /\ batch' = SubSeq(batch, 1, n) /\ queue' = SubSeq(batch, n + 1, Len(batch)) \o queue
    BY <1>3 DEF Generate
  <2> QED
    BY <1>0, <2>1
<1>4. CASE GenerateFails \/ BeginFails \/ EpilogueFails \/ FinishFails \/ FinalizeFails
  <2>1. UNCHANGED work \/ (queue' = batch \o queue /\ batch' = <<>>)
    BY <1>4 DEF GenerateFails, BeginFails, EpilogueFails, FinishFails, FinalizeFails, FailRun
  <2>2. batch \o queue \in Seq(Event)
    BY <1>0
  <2> QED
    BY <1>0, <2>1, <2>2 DEF work
<1>5. CASE RemoveReceipt
  BY <1>0, <1>5 DEF RemoveReceipt
<1>6. CASE Crash \/ Close \/ OpenFails
  BY <1>0, <1>6 DEF Crash, Close, OpenFails, EmptyMemory
<1>7. ASSUME UNCHANGED work PROVE queue' \in Seq(Event) /\ batch' \in Seq(Event)
  BY <1>0, <1>7 DEF work
<1>8. CASE AppendStep \/ NoteStep
  BY <1>7, <1>8 DEF AppendStep, NoteStep, EventAppend, EventAppendFails, NoteScope, NoteFails, NoteReturns
<1>9. CASE RefillScope \/ FillFails \/ FillScopeDone
  BY <1>7, <1>9 DEF RefillScope, FillFails, FillScopeDone
<1>10. CASE FlushCapture \/ FlushCaptureFails \/ Replay \/ ReplayFails \/ ReplayReturns \/ NothingToTake
            \/ Begin \/ ApplyOp \/ RejectOp \/ Epilogue \/ Finish \/ ArchiveReceipt \/ MarkCurated
            \/ FlushRelease \/ OpenReturns
  BY <1>7, <1>10 DEF FlushCapture, FlushCaptureFails, Replay, ReplayFails, ReplayReturns, NothingToTake,
     Begin, ApplyOp, RejectOp, Epilogue, Finish, ArchiveReceipt, MarkCurated, FlushRelease, OpenReturns
<1>11. CASE WorkerStart \/ FlushStart \/ HostPoisons \/ Recover \/ OperatorAcknowledge \/ UNCHANGED vars
  BY <1>7, <1>11 DEF WorkerStart, FlushStart, HostPoisons, Recover, OperatorAcknowledge, vars
<1> QED
  BY <1>1, <1>2, <1>3, <1>4, <1>5, <1>6, <1>8, <1>9, <1>10, <1>11 DEF Next, RefillStep, CycleStep

\* The receipt in memory is one that was prepared, processed or found.
LEMMA ReceiptTypeStep ==
    CurationInv /\ [Next]_vars =>
        receipt' \in Receipt \cup {None} /\ issued' \in Nat /\ issued <= issued'
<1> SUFFICES ASSUME CurationInv, [Next]_vars
             PROVE  receipt' \in Receipt \cup {None} /\ issued' \in Nat /\ issued <= issued'
  OBVIOUS
<1>0. /\ receipt \in Receipt \cup {None} /\ issued \in Nat /\ Prepared \in Receipt
      /\ pending \in Receipt \cup {None}
      /\ run.pc = "finish" => Processed \in Receipt
  BY ReceiptsTyped DEF CurationInv, MemoryTypeOK, DiskTypeOK, ReceiptStages, Guarded
<1>1. ASSUME UNCHANGED <<receipt, issued>>
      PROVE  receipt' \in Receipt \cup {None} /\ issued' \in Nat /\ issued <= issued'
  BY <1>0, <1>1
<1>2. CASE Begin \/ BeginFails
  BY <1>0, <1>2 DEF Begin, BeginFails
<1>3. CASE Finish
  BY <1>0, <1>3 DEF Finish, bounds
<1>4. CASE RemoveReceipt
  BY <1>0, <1>4 DEF RemoveReceipt, bounds
<1>5. CASE Recover
  BY <1>0, <1>5 DEF Recover, bounds
<1>6. CASE Crash \/ Close \/ OpenFails
  BY <1>0, <1>6 DEF Crash, Close, OpenFails, EmptyMemory, bounds
<1>7. CASE AppendStep \/ NoteStep \/ RefillStep
  BY <1>1, <1>7 DEF AppendStep, NoteStep, RefillStep, EventAppend, EventAppendFails, NoteScope, NoteFails,
     NoteReturns, RefillScope, FillEvent, FillFails, FillScopeDone, guard, bounds
<1>8. CASE FlushCapture \/ FlushCaptureFails \/ Replay \/ ReplayFails \/ ReplayReturns \/ NothingToTake
           \/ TakeTurns \/ (\E n \in 1 .. QueueLimit : Generate(n)) \/ GenerateFails
           \/ ApplyOp \/ RejectOp \/ Epilogue \/ EpilogueFails \/ FinishFails \/ ArchiveReceipt
           \/ MarkCurated \/ FinalizeFails \/ FlushRelease \/ OpenReturns
  BY <1>1, <1>8 DEF FlushCapture, FlushCaptureFails, Replay, ReplayFails, ReplayReturns, NothingToTake,
     TakeTurns, Generate, GenerateFails, ApplyOp, RejectOp, Epilogue, EpilogueFails, FinishFails,
     ArchiveReceipt, MarkCurated, FinalizeFails, FlushRelease, OpenReturns, guard, bounds
<1>9. CASE WorkerStart \/ FlushStart \/ HostPoisons \/ OperatorAcknowledge \/ UNCHANGED vars
  BY <1>1, <1>9 DEF WorkerStart, FlushStart, HostPoisons, OperatorAcknowledge, vars, guard, bounds
<1> QED
  BY <1>2, <1>3, <1>4, <1>5, <1>6, <1>7, <1>8, <1>9 DEF Next, CycleStep

\* A turn that is reported as stored is an event of the log.
LEMMA ReturnedTyped ==
    ASSUME CurationInv, NEW a \in Appender, app[a].pc # "idle"
    PROVE  LET e == <<app[a].scope, app[a].seq>>
           IN  /\ e \in Event /\ e[2] <= Len(log[e[1]])
               /\ Returned(e) \in SUBSET Event
               /\ Returned(e) = returned \cup (IF log[e[1]][e[2]] = "turn" THEN {e} ELSE {})
<1>1. app[a].scope \in Scope /\ app[a].seq \in 1 .. Len(log[app[a].scope])
  BY DEF CurationInv, RefillStages
<1>2. Len(log[app[a].scope]) \in Nat /\ Len(log[app[a].scope]) <= MaxLog /\ MaxLog \in Nat
      /\ returned \in SUBSET Event
  BY <1>1, CurationAssumption DEF CurationInv, DiskTypeOK, MemoryTypeOK
<1>3. <<app[a].scope, app[a].seq>> \in Event /\ app[a].seq <= Len(log[app[a].scope])
  BY <1>1, <1>2 DEF Event
<1> QED
  BY <1>2, <1>3 DEF Returned

\* The rest of the memory keeps its type.
LEMMA OtherTypeStep ==
    CurationInv /\ [Next]_vars =>
        /\ up' \in BOOLEAN /\ poisoned' \in BOOLEAN /\ backlog' \in BOOLEAN
        /\ returned' \in SUBSET Event /\ flushed' \in SUBSET Event
<1> DEFINE Good == /\ up' \in BOOLEAN /\ poisoned' \in BOOLEAN /\ backlog' \in BOOLEAN
                   /\ returned' \in SUBSET Event /\ flushed' \in SUBSET Event
<1> SUFFICES ASSUME CurationInv, [Next]_vars PROVE Good
  OBVIOUS
<1>0. /\ up \in BOOLEAN /\ poisoned \in BOOLEAN /\ backlog \in BOOLEAN
      /\ returned \in SUBSET Event /\ flushed \in SUBSET Event /\ run.goal \in SUBSET Event
  BY DEF CurationInv, MemoryTypeOK, RunType
<1>1. \A a : Backlog(a) \in BOOLEAN
  BY DEF Backlog
<1>2. ASSUME NEW a \in Appender, NEW s \in Scope, NEW k \in Kind, EventAppend(a, s, k) \/ EventAppendFails(a, s, k) PROVE Good
  BY <1>0, <1>2 DEF EventAppend, EventAppendFails, guard, admission, ghosts
<1>3. ASSUME NEW a \in Appender, NoteScope(a) \/ NoteFails(a) PROVE Good
  <2>1. Returned(<<app[a].scope, app[a].seq>>) \in SUBSET Event
    BY <1>3, ReturnedTyped DEF NoteScope, NoteFails
  <2> QED
    BY <1>0, <1>1, <1>3, <2>1 DEF NoteScope, NoteFails, BeginRefill, guard
<1>4. ASSUME NEW a \in Appender, NoteReturns(a) PROVE Good
  <2>1. app[a].pc # "idle"
    BY <1>4 DEF NoteReturns, CurationInv, RefillStages
  <2>2. Returned(<<app[a].scope, app[a].seq>>) \in SUBSET Event
    BY <2>1, ReturnedTyped
  <2> QED
    BY <1>0, <1>1, <1>4, <2>2 DEF NoteReturns, guard
<1>5. CASE RefillStep
  BY <1>0, <1>5 DEF RefillStep, RefillScope, FillEvent, FillFails, FillScopeDone, guard, ghosts
<1>6. CASE FlushCapture \/ FlushCaptureFails \/ ReplayFails \/ ReplayReturns \/ NothingToTake
           \/ TakeTurns \/ (\E n \in 1 .. QueueLimit : Generate(n)) \/ GenerateFails \/ FlushRelease
  BY <1>0, <1>1, <1>6 DEF FlushCapture, FlushCaptureFails, ReplayFails, ReplayReturns, NothingToTake,
     TakeTurns, Generate, GenerateFails, FlushRelease, guard, ghosts, admission
<1>7. CASE Replay
  BY <1>0, <1>7 DEF Replay, BeginRefill, guard, ghosts
<1>8. CASE Begin \/ BeginFails \/ ApplyOp \/ RejectOp \/ Epilogue \/ EpilogueFails \/ Finish \/ FinishFails
           \/ ArchiveReceipt \/ MarkCurated \/ RemoveReceipt \/ FinalizeFails \/ OpenReturns
  BY <1>0, <1>8 DEF Begin, BeginFails, ApplyOp, RejectOp, Epilogue, EpilogueFails, Finish, FinishFails,
     ArchiveReceipt, MarkCurated, RemoveReceipt, FinalizeFails, OpenReturns, guard, ghosts, admission
<1>9. CASE WorkerStart \/ FlushStart \/ HostPoisons \/ Recover \/ OperatorAcknowledge \/ UNCHANGED vars
  BY <1>0, <1>9 DEF WorkerStart, FlushStart, HostPoisons, Recover, OperatorAcknowledge, vars, guard, ghosts, admission
<1>10. CASE Crash \/ Close \/ OpenFails
  BY <1>0, <1>10 DEF Crash, Close, OpenFails, EmptyMemory
<1> QED
  BY <1>2, <1>3, <1>4, <1>5, <1>6, <1>7, <1>8, <1>9, <1>10 DEF Next, AppendStep, NoteStep, CycleStep

\* Only the cycle's own refill starts and ends the cycle's wait for it.
LEMMA RefillPc ==
    ASSUME CurationInv,
           \/ FlushCapture \/ FlushCaptureFails \/ ReplayFails \/ NothingToTake
           \/ TakeTurns \/ (\E n \in 1 .. QueueLimit : Generate(n)) \/ GenerateFails \/ FlushRelease
           \/ Begin \/ BeginFails \/ ApplyOp \/ RejectOp \/ Epilogue \/ EpilogueFails \/ Finish \/ FinishFails
           \/ ArchiveReceipt \/ MarkCurated \/ RemoveReceipt \/ FinalizeFails \/ OpenReturns
           \/ WorkerStart \/ FlushStart \/ Recover
    PROVE  run.pc # "refill" /\ run'.pc # "refill"
<1>0. run \in RunType /\ RunStages
  BY DEF CurationInv, MemoryTypeOK
<1>1. ASSUME NEW ok \in BOOLEAN, run.owner # None, EndRun(ok) PROVE run'.pc # "refill"
  BY <1>0, <1>1, EndRunTyped DEF IdleRun
<1>2. ASSUME NEW p \in Pc \ {"refill"}, Goto(p) PROVE run'.pc # "refill"
  BY <1>0, <1>2, GotoTyped
<1>3. {"generate", "begin", "ops", "finish", "archive", "mark", "remove", "failed"} \subseteq Pc \ {"refill"}
  BY DEF Pc, Cycle, Guarded, Finalizing
<1>4. CASE FlushCapture \/ FlushCaptureFails
  BY <1>0, <1>4 DEF FlushCapture, FlushCaptureFails, RunType
<1>5. CASE ReplayFails
  BY <1>0, <1>1, <1>2, <1>3, <1>5 DEF ReplayFails, RunStages
<1>6. CASE NothingToTake \/ FlushRelease \/ OpenReturns
  BY <1>0, <1>6 DEF NothingToTake, FlushRelease, OpenReturns, RunType, IdleRun
<1>7. CASE TakeTurns \/ (\E n \in 1 .. QueueLimit : Generate(n)) \/ Begin \/ Epilogue \/ Finish
           \/ ArchiveReceipt \/ MarkCurated
  BY <1>2, <1>3, <1>7 DEF TakeTurns, Generate, Begin, Epilogue, Finish, ArchiveReceipt, MarkCurated
<1>8. CASE GenerateFails \/ BeginFails \/ EpilogueFails \/ FinishFails \/ RemoveReceipt
  <2>1. run.pc # "refill" /\ run.pc # "idle" /\ \E ok \in BOOLEAN : EndRun(ok)
    BY <1>8 DEF GenerateFails, BeginFails, EpilogueFails, FinishFails, RemoveReceipt, FailRun
  <2> QED
    BY <1>0, <1>1, <2>1 DEF RunStages
<1>9. CASE ApplyOp \/ RejectOp
  BY <1>0, <1>9 DEF ApplyOp, RejectOp, OpsLeft, RunType
<1>10. CASE FinalizeFails
  <2>1. run.pc # "refill" /\ run.pc # "idle" /\ (Goto("failed") \/ EndRun(FALSE))
    BY <1>10 DEF FinalizeFails, FailRun
  <2> QED
    BY <1>0, <1>1, <1>2, <1>3, <2>1 DEF RunStages
<1>11. CASE WorkerStart \/ FlushStart \/ Recover
  BY <1>0, <1>11 DEF WorkerStart, FlushStart, Recover, IdleRun, RunStages
<1> QED
  BY <1>4, <1>5, <1>6, <1>7, <1>8, <1>9, <1>10, <1>11

\* A visited scope is counted.
LEMMA VisitedTyped ==
    ASSUME refill \in RefillType, Visited
    PROVE  refill' \in RefillType /\ refill'.holder = refill.holder /\ ~refill'.filling
<1>1. refill.visited + 1 \in Nat
  BY DEF RefillType
<1>2. refill' = [refill EXCEPT !.filling = FALSE, !.visited = refill.visited + 1]
  BY DEF Visited, RefillType
<1> QED
  BY <1>1, <1>2 DEF RefillType

\* One refill at a time, and it belongs to somebody who is in it.
LEMMA RefillStageStep ==
    CurationInv /\ [Next]_vars =>
        refill' \in RefillType /\ app' \in [Appender -> AppType] /\ RefillStages'
<1> DEFINE Good == refill' \in RefillType /\ app' \in [Appender -> AppType] /\ RefillStages'
<1> SUFFICES ASSUME CurationInv, [Next]_vars PROVE Good
  OBVIOUS
<1>0. /\ refill \in RefillType /\ app \in [Appender -> AppType] /\ RefillStages
      /\ None \notin Appender /\ "cycle" \notin Appender /\ None # "cycle"
      /\ DiskTypeOK /\ AdmissionOK
  BY CurationAssumption DEF CurationInv, MemoryTypeOK
<1>1. /\ refill.holder = None => ~refill.filling
      /\ \A a \in Appender : /\ refill.holder = None => app[a].pc # "refill"
                             /\ refill.holder = "cycle" => app[a].pc # "refill"
      /\ \A s \in Scope : Len(log[s]) \in Nat
  BY <1>0 DEF RefillStages, DiskTypeOK
<1>2. NoRefill \in RefillType /\ NoRefill.holder = None /\ ~NoRefill.filling /\ IdleApp \in AppType
      /\ IdleApp.pc = "idle"
  BY DEF NoRefill, RefillType, IdleApp, AppType
<1>3. ASSUME UNCHANGED <<refill, app, log>>, up => up', run'.pc = "refill" <=> run.pc = "refill",
             \/ adm' = adm
             \/ adm' # None /\ adm'.known = adm.known
             \/ refill.holder = None
      PROVE  Good
  BY <1>0, <1>1, <1>3 DEF RefillStages
<1>4. ASSUME NEW a \in Appender, NEW s \in Scope, NEW k \in Kind, EventAppend(a, s, k) PROVE Good
  <2>1. UNCHANGED <<up, run, refill, adm>> /\ up
    BY <1>4 DEF EventAppend, admission
  <2>2. \A t \in Scope : Len(log'[t]) \in Nat /\ Len(log[t]) <= Len(log'[t])
    BY <1>0, <1>1, <1>4, LogTyped DEF EventAppend
  <2>3. Len(log'[s]) = Len(log[s]) + 1
    BY <1>0, <1>4, LogTyped DEF EventAppend
  <2> DEFINE r == IF k = "other" THEN IdleApp ELSE [pc |-> "note", scope |-> s, seq |-> Len(log[s]) + 1]
  <2>4. r \in AppType /\ r.pc # "refill" /\ (r.pc # "idle" => r.scope = s /\ r.seq = Len(log[s]) + 1)
    BY <1>1, <1>2 DEF AppType
  <2>5. app' = [app EXCEPT ![a] = r] /\ app[a].pc = "idle"
    BY <1>4 DEF EventAppend
  <2> HIDE DEF r
  <2>6. app' \in [Appender -> AppType] /\ app'[a] = r /\ \A b \in Appender : b # a => app'[b] = app[b]
    BY <1>0, <2>4, <2>5
  <2>7. refill.holder # a
    BY <1>0, <2>5 DEF RefillStages
  <2>8. \A b \in Appender : b # a => (app'[b].pc # "idle" => up /\ app'[b].scope \in Scope
                 /\ app'[b].seq \in 1 .. Len(log'[app'[b].scope]))
    <3> SUFFICES ASSUME NEW b \in Appender, b # a, app'[b].pc # "idle"
                 PROVE  up /\ app'[b].scope \in Scope /\ app'[b].seq \in 1 .. Len(log'[app'[b].scope])
      OBVIOUS
    <3>1. app'[b] = app[b]
      BY <2>6
    <3>2. up /\ app[b].scope \in Scope /\ app[b].seq \in 1 .. Len(log[app[b].scope])
      BY <1>0, <3>1 DEF RefillStages
    <3> QED
      BY <1>1, <2>2, <3>1, <3>2
  <2>9. r.pc # "idle" => r.scope \in Scope /\ r.seq \in 1 .. Len(log'[r.scope])
    BY <1>1, <2>2, <2>3, <2>4
  <2> QED
    BY <1>0, <2>1, <2>4, <2>6, <2>7, <2>8, <2>9 DEF RefillStages
<1>5. ASSUME NEW a \in Appender, NEW s \in Scope, NEW k \in Kind, EventAppendFails(a, s, k) PROVE Good
  <2>1. UNCHANGED <<up, run, refill, adm, app>> /\ up
    BY <1>5 DEF EventAppendFails, admission
  <2>2. \A t \in Scope : Len(log'[t]) \in Nat /\ Len(log[t]) <= Len(log'[t])
    <3>1. CASE log' = log
      BY <1>1, <3>1
    <3>2. CASE log' = [log EXCEPT ![s] = Append(@, k)]
      BY <1>0, <1>1, <1>5, <3>2, LogTyped DEF EventAppendFails
    <3> QED
      BY <1>5, <3>1, <3>2 DEF EventAppendFails
  <2>3. \A b \in Appender : app[b].pc # "idle" => app[b].seq \in 1 .. Len(log'[app[b].scope])
    <3> SUFFICES ASSUME NEW b \in Appender, app[b].pc # "idle"
                 PROVE  app[b].seq \in 1 .. Len(log'[app[b].scope])
      OBVIOUS
    <3>1. app[b].scope \in Scope /\ app[b].seq \in 1 .. Len(log[app[b].scope])
      BY <1>0 DEF RefillStages
    <3> QED
      BY <1>1, <2>2, <3>1
  <2> QED
    BY <1>0, <2>1, <2>3 DEF RefillStages
<1>6. ASSUME NEW a \in Appender, app' = [app EXCEPT ![a] = IdleApp], UNCHANGED <<up, run, log>>,
             refill' = NoRefill \/ (refill' = refill /\ refill.holder = None),
             refill.holder \in {a, None}
      PROVE  Good
  <2>1. app' \in [Appender -> AppType] /\ app'[a] = IdleApp /\ \A b \in Appender : b # a => app'[b] = app[b]
    BY <1>0, <1>2, <1>6
  <2>2. refill'.holder = None /\ ~refill'.filling
    BY <1>0, <1>1, <1>2, <1>6
  <2> QED
    BY <1>0, <1>1, <1>2, <1>6, <2>1, <2>2 DEF RefillStages
<1>7. ASSUME NEW a \in Appender, NoteScope(a) PROVE Good
  <2>1. refill.holder = None /\ UNCHANGED <<up, run, log>> /\ app[a].pc = "note"
    BY <1>7 DEF NoteScope, disk
  <2>2. CASE app' = [app EXCEPT ![a] = IdleApp] /\ UNCHANGED refill
    BY <1>6, <2>1, <2>2
  <2>3. CASE app' = [app EXCEPT ![a].pc = "refill"]
               /\ \E b : b = AddScope(Opened, app[a].scope) /\ BeginRefill(a, b)
    <3>1. refill' = [NoRefill EXCEPT !.holder = a]
      BY <2>3 DEF BeginRefill
    <3>2. refill' \in RefillType /\ refill'.holder = a /\ ~refill'.filling
      BY <3>1 DEF NoRefill, RefillType
    <3>3. app' \in [Appender -> AppType] /\ app'[a] = [app[a] EXCEPT !.pc = "refill"]
          /\ \A b \in Appender : b # a => app'[b] = app[b]
      BY <1>0, <2>3 DEF AppType
    <3>4. app[a] \in AppType
      BY <1>0
    <3>5. app'[a].pc = "refill" /\ app'[a].scope = app[a].scope /\ app'[a].seq = app[a].seq
      BY <3>3, <3>4 DEF AppType
    <3>6. adm' # None
      <4>1. Sound(Opened) /\ app[a].scope \in Scope
        BY <1>0, <2>1, OpenedSound DEF RefillStages
      <4>2. PICK b : Sound(b) /\ BeginRefill(a, b)
        BY <2>3, <4>1, AddScopeSound
      <4> QED
        BY <1>0, <4>2, BeginRefillSound
    <3>7. run'.pc # "refill" /\ refill'.holder # "cycle"
      BY <1>0, <2>1, <3>2 DEF RefillStages
    <3>8. \A b \in Appender : b # a => app'[b].pc # "refill" /\ refill'.holder # b
      BY <1>1, <2>1, <3>2, <3>3
    <3>9. \A b \in Appender : app'[b].pc # "idle" => up /\ app'[b].scope \in Scope
                                   /\ app'[b].seq \in 1 .. Len(log[app'[b].scope])
      BY <1>0, <2>1, <3>3, <3>5 DEF RefillStages
    <3> QED
      BY <2>1, <3>2, <3>3, <3>5, <3>6, <3>7, <3>8, <3>9 DEF RefillStages
  <2> QED
    BY <1>7, <2>2, <2>3 DEF NoteScope
<1>8. ASSUME NEW a \in Appender, NoteFails(a) PROVE Good
  BY <1>6, <1>8 DEF NoteFails, disk
<1>9. ASSUME NEW a \in Appender, NoteReturns(a) PROVE Good
  BY <1>6, <1>9 DEF NoteReturns, disk
<1>10. ASSUME UNCHANGED <<up, run, app, log>>, Sound(adm'), adm' # None, refill' \in RefillType,
              refill'.holder = refill.holder, refill.holder # None,
              refill'.filling => adm'.known # <<>>
       PROVE  Good
  BY <1>0, <1>10 DEF RefillStages
<1>11. CASE RefillScope
  <2>1. CurrentOK
    BY <1>11, CurrentTyped DEF RefillScope
  <2>2. adm \in Admission /\ adm.known # <<>> /\ refill.holder # None
    BY <1>11, <2>1 DEF CurrentOK, Sound, RefillScope, Refilling
  <2>3. adm' # None /\ adm'.known = adm.known
    <3> DEFINE a == IF Current \in adm.refresh /\ ~adm.frozen THEN Capture(adm, {Current}) ELSE adm
    <3>1. a \in Admission /\ a.known = adm.known
      <4>1. Sound(adm)
        BY <2>1 DEF CurrentOK
      <4>2. CASE Current \in adm.refresh /\ ~adm.frozen
        <5>1. {Current} \in SUBSET adm.refresh
          BY <4>2
        <5>2. a = Capture(adm, {Current})
          BY <4>2, Zenon
        <5> HIDE DEF a
        <5> QED
          BY <1>0, <4>1, <5>1, <5>2, CaptureSound DEF Sound
      <4>3. CASE ~(Current \in adm.refresh /\ ~adm.frozen)
        BY <2>2, <4>3
      <4> QED
        BY <4>2, <4>3
    <3>2. adm' = a \/ adm' = AfterVisit(a)
      BY <1>11 DEF RefillScope
    <3> HIDE DEF a
    <3>3. (adm'.known = adm.known /\ adm' \in Admission) \/ adm' = AfterVisit(a)
      BY <3>1, <3>2
    <3>4. AfterVisit(a).known = a.known /\ AfterVisit(a) # None
      <4>1. Len(a.known) \in Nat \ {0} /\ a.next \in Nat
        BY <2>2, <3>1 DEF Admission
      <4>2. (a.next % Len(a.known)) + 1 \in Nat
        BY <4>1
      <4>3. AfterVisit(a) \in Admission /\ AfterVisit(a).known = a.known
        BY <3>1, <4>2 DEF AfterVisit, Admission
      <4> QED
        BY <4>3, NotNone
    <3> QED
      BY <3>1, <3>3, <3>4, NotNone
  <2>4. Looks
    BY <1>11, LooksAt
  <2>5. Sound(adm')
    BY <1>0, <2>2, <2>3, <2>4 DEF Looks, AdmissionOK
  <2>6. refill' \in RefillType /\ refill'.holder = refill.holder
    <3>1. refill' = [refill EXCEPT !.filling = TRUE] \/ Visited
      BY <1>11 DEF RefillScope
    <3>2. CASE refill' = [refill EXCEPT !.filling = TRUE]
      BY <1>0, <3>2 DEF RefillType
    <3> QED
      BY <1>0, <3>1, <3>2, VisitedTyped
  <2>7. UNCHANGED <<up, run, app, log>>
    BY <1>11 DEF RefillScope, disk
  <2> QED
    BY <1>10, <2>2, <2>3, <2>5, <2>6, <2>7
<1>12. CASE FillEvent
  BY <1>3, <1>12, FillSound, NotNone DEF FillEvent, disk, CurrentOK, Sound
<1>13. CASE FillFails \/ FillScopeDone
  <2>1. CurrentOK
    BY <1>13, CurrentTyped DEF FillFails, FillScopeDone, Reads, CanFill
  <2>2. refill.holder # None
    BY <1>13 DEF FillFails, FillScopeDone, Reads, CanFill, Refilling
  <2>3. adm' = AfterVisit(adm) /\ UNCHANGED <<up, run, app, log>>
    BY <1>13 DEF FillFails, FillScopeDone, disk
  <2>4. Sound(adm')
    BY <2>1, <2>3, AfterVisitSound DEF CurrentOK
  <2>5. refill' \in RefillType /\ refill'.holder = refill.holder /\ ~refill'.filling
    <3>1. refill' = [refill EXCEPT !.filling = FALSE, !.failed = TRUE] \/ Visited
      BY <1>13 DEF FillFails, FillScopeDone
    <3>2. CASE refill' = [refill EXCEPT !.filling = FALSE, !.failed = TRUE]
      BY <1>0, <3>2 DEF RefillType
    <3> QED
      BY <1>0, <3>1, <3>2, VisitedTyped
  <2> QED
    BY <1>10, <2>2, <2>3, <2>4, <2>5, NotNone DEF Sound
<1>14. CASE Replay
  <2>1. run.pc = "replay" /\ refill.holder = None /\ UNCHANGED <<up, app, log>>
    BY <1>14 DEF Replay, disk
  <2>2. CASE Suspended
    <3>1. run' = [run EXCEPT !.pc = "opened"] \/ run' = [run EXCEPT !.pc = "release", !.ok = (queue = <<>>)]
      BY <1>14, <2>2 DEF Replay
    <3>2. run'.pc # "refill"
      BY <3>1 DEF CurationInv, MemoryTypeOK, RunType
    <3>3. UNCHANGED <<refill, adm>>
      BY <1>14, <2>2 DEF Replay
    <3> QED
      BY <1>3, <2>1, <3>2, <3>3
  <2>3. CASE ~Suspended
    <3>1. BeginRefill("cycle", Opened) /\ Goto("refill")
      BY <1>14, <2>3 DEF Replay
    <3>2. adm' # None
      BY <1>0, <3>1, OpenedSound, BeginRefillSound
    <3>3. refill' \in RefillType /\ refill'.holder = "cycle" /\ ~refill'.filling
      BY <3>1 DEF BeginRefill, NoRefill, RefillType
    <3>4. run'.pc = "refill"
      BY <3>1 DEF Goto, CurationInv, MemoryTypeOK, RunType
    <3> QED
      BY <1>0, <1>1, <2>1, <3>2, <3>3, <3>4 DEF RefillStages
  <2> QED
    BY <2>2, <2>3
<1>15. CASE ReplayReturns
  <2>1. refill.holder = "cycle" /\ UNCHANGED <<up, app, log>> /\ refill' = NoRefill
    BY <1>15 DEF ReplayReturns, disk
  <2>2. run \in RunType /\ run.owner # None
    BY <2>1 DEF CurationInv, MemoryTypeOK, RunStages, RefillStages
  <2>3. run'.pc # "refill"
    <3>1. {"failed", "opened", "take"} \subseteq Pc
      BY DEF Pc
    <3>2. Goto("failed") \/ Goto("opened") \/ Goto("take") \/ EndRun(FALSE)
      BY <1>15 DEF ReplayReturns
    <3> QED
      <4>1. \A p \in {"failed", "opened", "take"} : Goto(p) => run'.pc # "refill"
        BY <2>2, <3>1, GotoTyped
      <4>2. ASSUME NEW ok \in BOOLEAN, EndRun(ok) PROVE run'.pc # "refill"
        BY <2>2, <4>2, EndRunTyped DEF IdleRun
      <4> QED
        BY <3>2, <4>1, <4>2
  <2> QED
    BY <1>0, <1>1, <1>2, <2>1, <2>3 DEF RefillStages
<1>16. CASE FlushCapture \/ FlushRelease
  <2>1. refill.holder = None /\ UNCHANGED <<up, refill, app, log>>
    BY <1>16 DEF FlushCapture, FlushRelease, disk
  <2> QED
    BY <1>3, <1>16, <2>1, RefillPc
<1>17. CASE \/ FlushCaptureFails \/ ReplayFails \/ NothingToTake
            \/ TakeTurns \/ (\E n \in 1 .. QueueLimit : Generate(n)) \/ GenerateFails
            \/ Begin \/ BeginFails \/ ApplyOp \/ RejectOp \/ Epilogue \/ EpilogueFails \/ Finish \/ FinishFails
            \/ ArchiveReceipt \/ MarkCurated \/ RemoveReceipt \/ FinalizeFails \/ OpenReturns
            \/ WorkerStart \/ FlushStart \/ Recover
  <2>1. UNCHANGED <<refill, app, log, adm>> /\ (up => up')
    <3>1. CASE FlushCaptureFails \/ NothingToTake
      BY <3>1 DEF FlushCaptureFails, NothingToTake, disk, admission
    <3>10. CASE ReplayFails
      BY <3>10 DEF ReplayFails, disk
    <3>11. CASE TakeTurns
      BY <3>11 DEF TakeTurns, disk, admission
    <3>2. CASE (\E n \in 1 .. QueueLimit : Generate(n)) \/ GenerateFails
      BY <3>2 DEF Generate, GenerateFails, disk, admission
    <3>3. CASE OpenReturns
      BY <3>3 DEF OpenReturns, disk, admission
    <3>5. CASE Begin \/ BeginFails \/ ApplyOp \/ RejectOp
      BY <3>5 DEF Begin, BeginFails, ApplyOp, RejectOp, admission
    <3>6. CASE Epilogue \/ EpilogueFails \/ Finish \/ FinishFails
      BY <3>6 DEF Epilogue, EpilogueFails, Finish, FinishFails, admission
    <3>7. CASE ArchiveReceipt \/ MarkCurated
      BY <3>7 DEF ArchiveReceipt, MarkCurated, admission
    <3>8. CASE RemoveReceipt
      BY <3>8 DEF RemoveReceipt, admission
    <3>9. CASE FinalizeFails
      BY <3>9 DEF FinalizeFails, admission
    <3>4. CASE WorkerStart \/ FlushStart \/ Recover
      BY <3>4 DEF WorkerStart, FlushStart, Recover, disk, admission
    <3> QED
      BY <1>17, <3>1, <3>2, <3>3, <3>4, <3>5, <3>6, <3>7, <3>8, <3>9,
         <3>10, <3>11
  <2>2. run.pc # "refill" /\ run'.pc # "refill"
    BY <1>17, RefillPc
  <2> QED
    BY <1>3, <2>1, <2>2
<1>18. CASE HostPoisons \/ OperatorAcknowledge \/ UNCHANGED vars
  BY <1>3, <1>18 DEF HostPoisons, OperatorAcknowledge, vars, disk, admission
<1>19. CASE Crash \/ Close \/ OpenFails
  <2>1. refill' = NoRefill /\ app' = [a \in Appender |-> IdleApp] /\ run' = IdleRun
    BY <1>19 DEF Crash, Close, OpenFails, EmptyMemory
  <2> QED
    BY <1>0, <1>2, <2>1 DEF RefillStages, IdleRun
<1> QED
  BY <1>4, <1>5, <1>7, <1>8, <1>9, <1>11, <1>12, <1>13, <1>14, <1>15, <1>16, <1>17, <1>18, <1>19
  DEF Next, AppendStep, NoteStep, RefillStep, CycleStep

\* What is in memory before the store is open, and what is not.
LEMMA EmptyStep == CurationInv /\ [Next]_vars => Empty'
<1> SUFFICES ASSUME CurationInv, [Next]_vars PROVE Empty'
  OBVIOUS
<1>0. /\ run \in RunType /\ RunStages /\ RefillStages /\ Empty /\ AdmissionOK /\ DiskTypeOK
      /\ queue \in Seq(Event) /\ batch \in Seq(Event) /\ ReceiptStages
      /\ None # "worker" /\ None # "flush" /\ None # "open"
  BY CurationAssumption DEF CurationInv, MemoryTypeOK
<1> DEFINE Busy == {"generate", "begin", "ops", "finish", "archive", "mark", "remove"}
<1>1. Cycle = Busy /\ Finalizing = {"archive", "mark", "remove"} /\ Busy \subseteq Pc
  BY DEF Cycle, Guarded, Finalizing, Pc
<1>2. run.owner = None => run.pc = "idle" /\ batch = <<>>
  BY <1>0, <1>1 DEF RunStages, Empty
<1>3. run.pc \in Busy => run.owner = "open" \/ (adm # None /\ batch # <<>>)
  BY <1>0, <1>1 DEF Empty
<1>4. ASSUME UNCHANGED <<run, up, receipt, poisoned, batch>>,
             UNCHANGED <<adm, queue>> \/ (adm' # None /\ (adm # None \/ up))
      PROVE  Empty'
  BY <1>0, <1>1, <1>4 DEF Empty, Suspended, RunStages
<1>5. ASSUME run' = run, up, up' = up, batch' = batch, UNCHANGED <<adm, queue, receipt>> PROVE Empty'
  BY <1>0, <1>1, <1>5 DEF Empty, Suspended, RunStages
<1>6. ASSUME run.owner # "open", run.owner # None, up' = up, adm' # None,
             run'.pc \notin Busy, run'.owner # "open", batch' = <<>>
      PROVE  Empty'
  BY <1>0, <1>1, <1>6 DEF Empty, RunStages, RunType, Owner
<1>7. ASSUME run.owner # "open", run.owner # None, up' = up, adm' # None,
             run'.pc \in Busy, run'.owner # "open", batch' # <<>>
      PROVE  Empty'
  BY <1>0, <1>1, <1>7 DEF Empty, RunStages, RunType, Owner
<1>8. ASSUME run.owner = "open", run'.owner = "open", up' = up, run'.pc \notin Busy, batch' = batch,
             adm' # None \/ UNCHANGED <<adm, queue>>, run'.pc = "opened" /\ adm' = None => receipt' # None
      PROVE  Empty'
  <2>1. ~up
    BY <1>0, <1>8 DEF RunStages
  <2>2. batch = <<>>
    BY <1>0, <1>8 DEF Empty
  <2> QED
    BY <1>0, <1>1, <1>8, <2>1, <2>2 DEF Empty, Suspended
<1>9. ASSUME run.owner = "open", run'.owner = "open", up' = up, run.pc \in Finalizing,
             UNCHANGED <<adm, queue, batch>>, run'.pc # "opened"
      PROVE  Empty'
  <2>1. ~up
    BY <1>0, <1>9 DEF RunStages
  <2>2. batch = <<>> /\ adm = None
    BY <1>0, <1>9 DEF Empty
  <2> QED
    BY <1>0, <1>1, <1>9, <2>1, <2>2 DEF Empty, Suspended
<1>10. ASSUME run.pc \in Busy, run.owner # "open", FailRun, up' = up, adm' = adm PROVE Empty'
  <2>1. run.owner # None
    BY <1>2, <1>10
  <2>2. EndRun(FALSE) /\ batch' = <<>>
    BY <1>10 DEF FailRun
  <2>3. run'.pc \notin Busy /\ run'.owner # "open"
    <3>1. ASSUME NEW ok \in BOOLEAN, EndRun(ok) PROVE run'.pc \notin Busy /\ run'.owner # "open"
      BY <1>0, <1>10, <2>1, <3>1, EndRunTyped DEF IdleRun
    <3> QED
      BY <2>2, <3>1
  <2> QED
    BY <1>3, <1>6, <1>10, <2>1, <2>2, <2>3
<1>11. ASSUME run.pc \in Busy, run.owner # "open", NEW p \in Busy, Goto(p), UNCHANGED <<up, adm, batch>>
       PROVE  Empty'
  BY <1>0, <1>1, <1>2, <1>3, <1>7, <1>11, GotoTyped
<1>12. ASSUME NEW a \in Appender, NEW s \in Scope, NEW k \in Kind, EventAppend(a, s, k) \/ EventAppendFails(a, s, k)
       PROVE  Empty'
  BY <1>4, <1>12 DEF EventAppend, EventAppendFails, work, guard, admission
<1>13. ASSUME NEW a \in Appender, NoteScope(a) PROVE Empty'
  <2>1. up /\ app[a].scope \in Scope
    BY <1>0, <1>13 DEF NoteScope, RefillStages
  <2>2. adm' # None
    <3>1. Sound(Opened)
      BY <1>0, OpenedSound
    <3>2. PICK b : Sound(b) /\ (adm' = b \/ BeginRefill(a, b))
      BY <1>13, <2>1, <3>1, AddScopeSound DEF NoteScope
    <3> QED
      BY <1>0, <3>2, BeginRefillSound, NotNone DEF Sound
  <2> QED
    BY <1>4, <1>13, <2>1, <2>2 DEF NoteScope, work, guard
<1>14. ASSUME NEW a \in Appender, NoteFails(a) PROVE Empty'
  <2>1. adm = None \/ adm' # None
    <3>1. Looks
      BY <1>14, LooksAt
    <3> QED
      BY <3>1 DEF Looks
  <2>2. adm = None => adm' = adm
    BY <1>14 DEF NoteFails
  <2> QED
    BY <1>4, <1>14, <2>1, <2>2 DEF NoteFails, work, guard
<1>15. ASSUME NEW a \in Appender, NoteReturns(a) PROVE Empty'
  BY <1>4, <1>15 DEF NoteReturns, work, guard
<1>16. CASE RefillScope \/ FillFails \/ FillScopeDone
  <2>1. adm # None
    BY <1>0, <1>16 DEF RefillScope, FillFails, FillScopeDone, Reads, CanFill, Refilling, RefillStages
  <2>2. adm' # None
    <3>1. Looks
      BY <1>16, LooksAt
    <3> QED
      BY <2>1, <3>1 DEF Looks
  <2> QED
    BY <1>4, <1>16, <2>1, <2>2 DEF RefillScope, FillFails, FillScopeDone, work, guard
<1>17. CASE FillEvent
  <2>1. adm # None /\ adm' # None
    BY <1>17, FillSound, NotNone DEF FillEvent, CurrentOK, Sound
  <2> QED
    BY <1>4, <1>17, <2>1 DEF FillEvent, guard
<1>18. CASE FlushCapture \/ FlushCaptureFails
  <2>1. run.owner = "flush" /\ batch = <<>> /\ run.pc = "capture"
    BY <1>0, <1>1, <1>18 DEF FlushCapture, FlushCaptureFails, RunStages, Empty
  <2>2. up /\ UNCHANGED <<up, batch, queue, receipt>>
    BY <1>0, <1>18, <2>1 DEF FlushCapture, FlushCaptureFails, RunStages, work, guard
  <2>3. run'.pc \notin Busy /\ run'.owner = "flush"
    BY <1>0, <1>18, <2>1 DEF FlushCapture, FlushCaptureFails, RunType
  <2>4. adm' # None \/ adm' = adm
    <3>1. CASE FlushCapture
      <4>1. Looks
        BY <3>1, LooksAt
      <4> QED
        BY <4>1 DEF Looks
    <3>2. CASE FlushCaptureFails
      BY <3>2 DEF FlushCaptureFails, admission
    <3> QED
      BY <1>18, <3>1, <3>2
  <2> QED
    BY <1>0, <1>1, <2>1, <2>2, <2>3, <2>4 DEF Empty, Suspended
<1>19. CASE Replay
  <2>1. run.pc = "replay" /\ run.owner # None /\ UNCHANGED <<up, queue, batch, receipt>> /\ batch = <<>>
    BY <1>0, <1>1, <1>2, <1>19 DEF Replay, work, guard, Empty
  <2>2. CASE Suspended
    <3>1. adm' = adm /\ run'.owner = run.owner /\ run'.pc \in {"opened", "release"}
          /\ (run'.pc = "opened" => run.owner = "open") /\ (run.owner = "open" => run'.pc = "opened")
      BY <1>0, <1>19, <2>2 DEF Replay, RunType
    <3> QED
      BY <1>0, <1>1, <2>1, <2>2, <3>1 DEF Empty, Suspended, RunStages
  <2>3. CASE ~Suspended
    <3>1. BeginRefill("cycle", Opened) /\ Goto("refill")
      BY <1>19, <2>3 DEF Replay
    <3>2. adm' # None
      BY <1>0, <3>1, OpenedSound, BeginRefillSound
    <3>3. run'.pc = "refill" /\ run'.owner = run.owner
      BY <1>0, <3>1 DEF Goto, RunType
    <3> QED
      BY <1>0, <1>1, <2>1, <3>2, <3>3 DEF Empty
  <2> QED
    BY <2>2, <2>3
<1>20. CASE ReplayFails
  <2>1. run.pc = "replay" /\ run.owner # None /\ UNCHANGED <<up, queue, batch, receipt, adm>> /\ batch = <<>>
    BY <1>0, <1>1, <1>2, <1>20 DEF ReplayFails, work, guard, Empty
  <2>2. CASE run.owner = "open"
    <3>1. Goto("failed")
      BY <1>20, <2>2 DEF ReplayFails
    <3>2. run'.pc = "failed" /\ run'.owner = "open"
      BY <1>0, <2>2, <3>1 DEF Goto, RunType
    <3> QED
      BY <1>8, <2>1, <2>2, <3>2
  <2>3. CASE run.owner # "open"
    <3>1. EndRun(FALSE) /\ ~Suspended
      BY <1>20, <2>3 DEF ReplayFails
    <3>2. ASSUME NEW ok \in BOOLEAN, EndRun(ok) PROVE run'.pc \notin Busy /\ run'.owner # "open"
      BY <1>0, <2>1, <2>3, <3>2, EndRunTyped DEF IdleRun
    <3>3. adm # None
      BY <1>0, <2>1, <2>3, <3>1 DEF Empty, RunStages, RunType, Owner
    <3> QED
      BY <1>6, <2>1, <2>3, <3>1, <3>2, <3>3
  <2> QED
    BY <2>2, <2>3
<1>21. CASE ReplayReturns
  <2>1. run.pc = "refill" /\ run.owner # None /\ UNCHANGED <<up, queue, batch, receipt, adm>> /\ batch = <<>>
        /\ adm # None
    <3>1. refill.holder = "cycle" /\ UNCHANGED <<up, queue, batch, receipt, adm>>
      BY <1>21 DEF ReplayReturns, work, guard
    <3>2. run.pc = "refill" /\ adm # None
      BY <1>0, <3>1, CurationAssumption DEF RefillStages
    <3>3. run.owner # None
      BY <1>2, <3>2
    <3>4. batch = <<>>
      BY <1>0, <1>1, <3>2 DEF Empty
    <3> QED
      BY <3>1, <3>2, <3>3, <3>4
  <2>2. CASE run.owner = "open"
    <3>1. Goto("failed") \/ Goto("opened")
      BY <1>21, <2>2 DEF ReplayReturns
    <3>2. run'.pc \in {"failed", "opened"} /\ run'.owner = "open"
      BY <1>0, <2>2, <3>1 DEF Goto, RunType
    <3> QED
      BY <1>8, <2>1, <2>2, <3>2
  <2>3. CASE run.owner # "open"
    <3>1. EndRun(FALSE) \/ Goto("take")
      BY <1>21, <2>3 DEF ReplayReturns
    <3>2. ASSUME NEW ok \in BOOLEAN, EndRun(ok) PROVE run'.pc \notin Busy /\ run'.owner # "open"
      BY <1>0, <2>1, <2>3, <3>2, EndRunTyped DEF IdleRun
    <3>3. Goto("take") => run'.pc \notin Busy /\ run'.owner # "open"
      BY <1>0, <2>3 DEF Goto, RunType
    <3> QED
      BY <1>6, <2>1, <2>3, <3>1, <3>2, <3>3
  <2> QED
    BY <2>2, <2>3
<1>22. CASE TakeTurns
  <2>1. run.pc = "take" /\ run.owner \notin {"open", None} /\ queue # <<>> /\ Goto("generate")
        /\ UNCHANGED <<up, adm>>
    BY <1>0, <1>1, <1>2, <1>22 DEF TakeTurns, RunStages, admission
  <2>2. adm # None
    BY <1>0, <2>1 DEF Empty
  <2>3. batch' # <<>>
    <3>1. PICK n \in Nat \ {0} : batch' = SubSeq(queue, 1, n) /\ n <= Len(queue)
      BY <1>0, <1>22, CurationAssumption DEF TakeTurns
    <3>2. Len(SubSeq(queue, 1, n)) = n
      BY <1>0, <3>1
    <3> QED
      BY <3>1, <3>2
  <2>4. run'.pc = "generate" /\ run'.owner = run.owner
    BY <1>0, <2>1 DEF Goto, RunType
  <2> QED
    BY <1>7, <2>1, <2>2, <2>3, <2>4
<1>23. CASE NothingToTake
  <2>1. run.pc = "take" /\ run.owner \notin {"open", None} /\ batch = <<>> /\ UNCHANGED <<up, adm, batch, queue, receipt>> /\ up
    BY <1>0, <1>1, <1>2, <1>23 DEF NothingToTake, RunStages, RunType, Owner, admission, work, guard, Empty
  <2>2. run'.pc \notin Busy /\ run'.owner # "open"
    BY <1>0, <1>23, <2>1 DEF NothingToTake, RunType, IdleRun
  <2> QED
    BY <1>0, <1>1, <2>1, <2>2 DEF Empty, Suspended
<1>24. ASSUME NEW n \in 1 .. QueueLimit, Generate(n) PROVE Empty'
  <2>1. run.pc = "generate" /\ n \in 1 .. Len(batch) /\ batch' = SubSeq(batch, 1, n) /\ Goto("begin")
        /\ UNCHANGED <<up, adm>>
    BY <1>24 DEF Generate, admission
  <2>2. run.owner \notin {"open", None}
    BY <1>0, <1>1, <1>2, <2>1 DEF RunStages
  <2>3. batch' # <<>>
    <3>1. Len(SubSeq(batch, 1, n)) = n /\ n # 0
      BY <1>0, <2>1
    <3> QED
      BY <2>1, <3>1
  <2>4. run'.pc = "begin" /\ run'.owner = run.owner
    BY <1>0, <2>1 DEF Goto, RunType
  <2> QED
    BY <1>3, <1>7, <2>1, <2>2, <2>3, <2>4
<1>25. CASE GenerateFails \/ BeginFails \/ EpilogueFails \/ FinishFails
  <2>1. run.pc \in {"generate", "begin", "ops", "finish"} /\ FailRun /\ up' = up /\ adm' = adm
    BY <1>25 DEF GenerateFails, BeginFails, EpilogueFails, FinishFails, admission
  <2>2. run.owner # "open"
    BY <1>0, <1>1, <2>1 DEF RunStages
  <2> QED
    BY <1>10, <2>1, <2>2
<1>26. CASE Begin \/ Epilogue \/ Finish
  <2>1. run.pc \in {"begin", "ops", "finish"} /\ UNCHANGED <<up, adm, batch>>
        /\ (Goto("ops") \/ Goto("finish") \/ Goto("archive"))
    BY <1>26 DEF Begin, Epilogue, Finish, admission, work
  <2>2. run.owner # "open"
    BY <1>0, <1>1, <2>1 DEF RunStages
  <2> QED
    BY <1>11, <2>1, <2>2
<1>27. CASE ApplyOp \/ RejectOp
  <2>1. run.pc = "ops" /\ UNCHANGED <<up, adm, batch>> /\ run'.pc = run.pc /\ run'.owner = run.owner
    BY <1>0, <1>27 DEF ApplyOp, RejectOp, OpsLeft, RunType, admission, work
  <2>2. run.owner \notin {"open", None}
    BY <1>0, <1>1, <1>2, <2>1 DEF RunStages
  <2> QED
    BY <1>3, <1>7, <2>1, <2>2
<1>28. CASE ArchiveReceipt \/ MarkCurated
  <2>1. run.pc \in {"archive", "mark"} /\ UNCHANGED <<up, adm, batch, queue>> /\ (Goto("mark") \/ Goto("remove"))
    BY <1>28 DEF ArchiveReceipt, MarkCurated, admission, work
  <2>2. run'.pc \in {"mark", "remove"} /\ run'.owner = run.owner
    BY <1>0, <2>1 DEF Goto, RunType
  <2> QED
    BY <1>1, <1>9, <1>11, <2>1, <2>2
<1>29. CASE RemoveReceipt
  <2>1. run.pc = "remove" /\ UNCHANGED <<up, adm, queue>> /\ batch' = <<>> /\ run.owner # None
    BY <1>2, <1>29 DEF RemoveReceipt, admission
  <2>2. ASSUME NEW ok \in BOOLEAN, EndRun(ok)
        PROVE  run'.pc \notin Busy /\ run'.pc # "opened" /\ (run'.owner = "open" <=> run.owner = "open")
    BY <1>0, <2>1, <2>2, EndRunTyped DEF IdleRun
  <2>3. run'.pc \notin Busy /\ run'.pc # "opened" /\ (run'.owner = "open" <=> run.owner = "open")
    BY <1>29, <2>2 DEF RemoveReceipt
  <2>4. CASE run.owner = "open"
    <3>1. batch = <<>>
      BY <1>0, <2>4 DEF Empty
    <3> QED
      BY <1>1, <1>9, <2>1, <2>3, <2>4, <3>1
  <2>5. CASE run.owner # "open"
    BY <1>3, <1>6, <2>1, <2>3, <2>5
  <2> QED
    BY <2>4, <2>5
<1>30. CASE FinalizeFails
  <2>1. run.pc \in {"archive", "mark", "remove"} /\ UNCHANGED <<up, adm>>
    BY <1>30 DEF FinalizeFails, admission
  <2>2. CASE run.owner = "open"
    <3>1. Goto("failed") /\ UNCHANGED work
      BY <1>30, <2>2 DEF FinalizeFails
    <3>2. run'.pc = "failed" /\ run'.owner = "open"
      BY <1>0, <2>2, <3>1 DEF Goto, RunType
    <3> QED
      BY <1>1, <1>9, <2>1, <2>2, <3>1, <3>2 DEF work
  <2>3. CASE run.owner # "open"
    <3>1. FailRun
      BY <1>30, <2>3 DEF FinalizeFails
    <3> QED
      BY <1>10, <2>1, <2>3, <3>1
  <2> QED
    BY <2>2, <2>3
<1>31. CASE FlushRelease
  <2>1. run.pc = "release" /\ run.owner = "flush" /\ up /\ UNCHANGED <<up, queue, batch, receipt>> /\ run' = IdleRun
    BY <1>0, <1>31 DEF FlushRelease, RunStages, work, guard
  <2>2. (adm' = None) = (adm = None)
    <3>1. Looks
      BY <1>31, LooksAt
    <3> QED
      BY <1>31, <3>1 DEF Looks, FlushRelease
  <2> QED
    BY <1>0, <1>1, <2>1, <2>2 DEF Empty, Suspended, IdleRun
<1>32. CASE OpenReturns
  BY <1>0, <1>1, <1>32 DEF OpenReturns, Empty, Suspended, IdleRun, work, guard, admission
<1>33. CASE Crash \/ Close \/ OpenFails
  BY <1>1, <1>33 DEF Crash, Close, OpenFails, EmptyMemory, Empty, IdleRun
<1>34. CASE WorkerStart \/ FlushStart
  <2>1. run.owner = None /\ up /\ up' = up /\ UNCHANGED <<adm, queue, batch, receipt>>
        /\ run'.pc \notin Busy /\ run'.owner # "open" /\ run'.pc # "opened"
    BY <1>34 DEF WorkerStart, FlushStart, IdleRun, work, guard, admission
  <2> QED
    BY <1>0, <1>1, <1>2, <2>1 DEF Empty, Suspended
<1>35. CASE Recover
  <2>1. ~up /\ run.owner = None /\ up' = up /\ UNCHANGED <<adm, queue, batch>>
        /\ run'.pc \in {"replay", "archive"} /\ run'.owner = "open"
    BY <1>35 DEF Recover, IdleRun, work, admission
  <2> QED
    BY <1>0, <1>1, <1>2, <2>1 DEF Empty
<1>36. CASE OperatorAcknowledge \/ UNCHANGED vars
  BY <1>4, <1>36 DEF OperatorAcknowledge, vars, work, guard, admission
<1>37. CASE HostPoisons
  BY <1>5, <1>37 DEF HostPoisons, work, admission
<1> QED
  BY <1>12, <1>13, <1>14, <1>15, <1>16, <1>17, <1>18, <1>19, <1>20, <1>21, <1>22, <1>23, <1>24, <1>25, <1>26,
     <1>27, <1>28, <1>29, <1>30, <1>31, <1>32, <1>33, <1>34, <1>35, <1>36, <1>37
  DEF Next, AppendStep, NoteStep, RefillStep, CycleStep
-----------------------------------------------------------------------------
(* Receipts.                                                               *)

\* The receipt written to the history is its last one.
LEMMA ArchivedLast ==
    ASSUME archive \in Seq(Receipt), receipt \in Receipt
    PROVE  /\ Archived \in Seq(Receipt) /\ Archived # <<>>
           /\ Archived[Len(Archived)].id = receipt.id
           /\ \/ Archived = archive /\ archive # <<>> /\ archive[Len(archive)].id = receipt.id
              \/ Archived = Append(archive, receipt)
<1>1. CASE archive # <<>> /\ archive[Len(archive)].id = receipt.id
  BY <1>1 DEF Archived
<1>2. CASE ~(archive # <<>> /\ archive[Len(archive)].id = receipt.id)
  <2>1. Archived = Append(archive, receipt)
    BY <1>2 DEF Archived
  <2> DEFINE q == Append(archive, receipt)
  <2>2. q \in Seq(Receipt) /\ Len(q) = Len(archive) + 1 /\ q[Len(archive) + 1] = receipt /\ q # <<>>
    OBVIOUS
  <2> HIDE DEF q
  <2> QED
    BY <2>1, <2>2 DEF q
<1> QED
  BY <1>1, <1>2

\* A batch that is about to be claimed is nobody's yet.
LEMMA BatchFresh ==
    ASSUME CurationInv, run.pc = "begin"
    PROVE  receipt = None /\ pending = None /\ Elements(batch) \cap curated = {}
<1>1. receipt = None
  BY DEF CurationInv, ReceiptStages, Suspended
<1>2. up \/ run.owner = "open"
  BY DEF CurationInv, RunStages, MemoryTypeOK, RunType, Owner
<1>3. pending = None
  BY <1>1, <1>2 DEF CurationInv, ReceiptStages
<1>4. Elements(batch) \subseteq Elements(Owned)
  <2>1. batch \in Seq(Event) /\ queue \in Seq(Event)
    BY DEF CurationInv, MemoryTypeOK
  <2>2. \A i \in DOMAIN batch : i \in DOMAIN (batch \o queue) /\ (batch \o queue)[i] = batch[i]
    BY <2>1
  <2> QED
    BY <2>2 DEF Elements, Owned
<1> QED
  BY <1>1, <1>3, <1>4 DEF CurationInv, Settled, Suspended

\* How the receipt in memory and the one on disk go together.
LEMMA ReceiptStagesStep == CurationInv /\ [Next]_vars => ReceiptStages'
<1> SUFFICES ASSUME CurationInv, [Next]_vars PROVE ReceiptStages'
  OBVIOUS
<1>0. /\ run \in RunType /\ RunStages /\ Empty /\ ReceiptStages
      /\ receipt \in Receipt \cup {None} /\ pending \in Receipt \cup {None}
      /\ archive \in Seq(Receipt) /\ batch \in Seq(Event) /\ curated \in SUBSET Event
      /\ None # "worker" /\ None # "flush" /\ None # "open" /\ None \notin Receipt
  BY CurationAssumption DEF CurationInv, MemoryTypeOK, DiskTypeOK
<1> DEFINE Begun == {"refill", "take", "generate", "begin"}
<1>1. Guarded = {"ops", "finish", "archive", "mark", "remove"}
      /\ Finalizing = {"archive", "mark", "remove"}
      /\ Cycle = {"generate", "begin", "ops", "finish", "archive", "mark", "remove"}
      /\ Cycle \subseteq Pc /\ {"refill", "take", "failed", "opened"} \subseteq Pc
  BY DEF Guarded, Finalizing, Cycle, Pc
<1>2. run.pc # "idle" => run.owner # None /\ (up \/ run.owner = "open")
  BY <1>0 DEF RunStages, RunType, Owner
<1>3. ASSUME UNCHANGED <<up, run, receipt, pending, batch, curated, archive>> PROVE ReceiptStages'
  BY <1>0, <1>3 DEF ReceiptStages, Suspended
<1>4. ASSUME run'.pc \notin Guarded, receipt' = None => pending' = None,
             pending' # None /\ receipt' # None => pending'.id = receipt'.id /\ pending'.sources = receipt'.sources,
             run'.pc \in Begun => receipt' = None,
             run'.pc = "replay" /\ run'.owner = "worker" => receipt' = None
      PROVE  ReceiptStages'
  BY <1>1, <1>4 DEF ReceiptStages, Suspended
<1>5. ASSUME run'.pc \notin Guarded, UNCHANGED <<receipt, pending>>, up \/ run.owner = "open",
             run'.pc \in Begun => receipt = None,
             run'.pc = "replay" /\ run'.owner = "worker" => receipt = None
      PROVE  ReceiptStages'
  BY <1>0, <1>4, <1>5 DEF ReceiptStages
<1>6. ASSUME NEW ok \in BOOLEAN, EndRun(ok), run.owner # None
      PROVE  /\ run'.pc \notin Guarded \cup Begun /\ (run'.pc = "replay" => run'.owner # "worker")
  BY <1>0, <1>1, <1>6, EndRunTyped DEF IdleRun
<1>7. ASSUME EndRun(FALSE) \/ EndRun(TRUE), run.owner # None
      PROVE  /\ run'.pc \notin Guarded \cup Begun /\ (run'.pc = "replay" => run'.owner # "worker")
  BY <1>6, <1>7
<1>8. ASSUME NEW p \in Pc, Goto(p) PROVE run'.pc = p /\ run'.owner = run.owner
  BY <1>0, <1>8, GotoTyped
<1>9. CASE AppendStep \/ NoteStep \/ RefillStep \/ HostPoisons \/ UNCHANGED vars
  <2>1. UNCHANGED <<up, run, receipt, pending, batch, curated, archive>>
    <3>1. CASE AppendStep
      BY <3>1 DEF AppendStep, EventAppend, EventAppendFails, work, guard
    <3>2. CASE NoteStep
      BY <3>2 DEF NoteStep, NoteScope, NoteFails, NoteReturns, work, guard, disk
    <3>3. CASE RefillStep
      BY <3>3 DEF RefillStep, RefillScope, FillEvent, FillFails, FillScopeDone, work, guard, disk
    <3>4. CASE HostPoisons \/ UNCHANGED vars
      BY <3>4 DEF HostPoisons, vars, work, guard, disk
    <3> QED
      BY <1>9, <3>1, <3>2, <3>3, <3>4
  <2> QED
    BY <1>3, <2>1
<1>10. CASE FlushCapture \/ FlushCaptureFails
  <2>1. run.pc = "capture" /\ run'.pc \in {"release", "replay"} /\ run'.owner = run.owner /\ run.owner = "flush"
        /\ UNCHANGED <<receipt, pending>>
    BY <1>0, <1>10 DEF FlushCapture, FlushCaptureFails, RunType, RunStages, guard, disk
  <2> QED
    BY <1>1, <1>2, <1>5, <2>1
<1>11. CASE Replay
  <2>1. run.pc = "replay" /\ UNCHANGED <<receipt, pending>>
    BY <1>11 DEF Replay, guard, disk
  <2>2. CASE Suspended
    <3>1. run'.pc \in {"opened", "release"}
      BY <1>0, <1>11, <2>2 DEF Replay, RunType
    <3> QED
      BY <1>1, <1>2, <1>5, <2>1, <3>1
  <2>3. CASE ~Suspended
    <3>1. run'.pc = "refill"
      BY <1>0, <1>11, <2>3 DEF Replay, Goto, RunType
    <3> QED
      BY <1>1, <1>2, <1>5, <2>1, <2>3, <3>1 DEF Suspended
  <2> QED
    BY <2>2, <2>3
<1>12. CASE ReplayFails
  <2>1. run.pc = "replay" /\ UNCHANGED <<receipt, pending>> /\ (Goto("failed") \/ EndRun(FALSE))
    BY <1>12 DEF ReplayFails, guard, disk
  <2>2. Goto("failed") => run'.pc = "failed"
    BY <1>1, <1>8
  <2> QED
    BY <1>1, <1>2, <1>5, <1>7, <2>1, <2>2
<1>13. CASE ReplayReturns
  <2>1. run.pc = "refill" /\ UNCHANGED <<receipt, pending>>
        /\ (Goto("failed") \/ Goto("opened") \/ Goto("take") \/ EndRun(FALSE))
    BY <1>13 DEF ReplayReturns, guard, disk, CurationInv, RefillStages
  <2>2. run'.pc \in {"failed", "opened", "take"} \/ (run'.pc \notin Guarded \cup Begun /\ (run'.pc = "replay" => run'.owner # "worker"))
    BY <1>1, <1>2, <1>7, <1>8, <2>1
  <2>3. receipt = None
    BY <1>0, <2>1 DEF ReceiptStages, Suspended
  <2> QED
    BY <1>1, <1>2, <1>5, <2>1, <2>2, <2>3
<1>14. CASE TakeTurns \/ NothingToTake \/ (\E n \in 1 .. QueueLimit : Generate(n))
  <2>1. run.pc \in {"take", "generate"} /\ UNCHANGED <<receipt, pending>>
    BY <1>14 DEF TakeTurns, NothingToTake, Generate, guard, disk
  <2>2. run'.pc \in {"generate", "begin", "release", "idle"}
    BY <1>0, <1>14 DEF TakeTurns, NothingToTake, Generate, Goto, RunType, IdleRun
  <2>3. receipt = None
    BY <1>0, <2>1 DEF ReceiptStages, Suspended
  <2> QED
    BY <1>1, <1>2, <1>5, <2>1, <2>2, <2>3
<1>15. CASE GenerateFails \/ EpilogueFails
  <2>1. run.pc \in {"generate", "ops"} /\ UNCHANGED <<receipt, pending>> /\ EndRun(FALSE)
    BY <1>15 DEF GenerateFails, EpilogueFails, FailRun, guard, disk
  <2> QED
    BY <1>2, <1>5, <1>7, <2>1
<1>16. CASE Begin
  <2>1. run.pc = "begin" /\ receipt' = Prepared /\ pending' = Prepared /\ Goto("ops")
        /\ UNCHANGED <<batch, curated, archive>>
    BY <1>16 DEF Begin, work
  <2>2. Prepared \in Receipt /\ Prepared.sources = Elements(batch)
    BY ReceiptsTyped DEF CurationInv, Prepared
  <2>3. Elements(batch) \cap curated = {}
    BY <2>1, BatchFresh
  <2>4. run'.pc = "ops"
    BY <1>1, <1>8, <2>1
  <2>5. Prepared # None
    BY <1>0, <2>2
  <2> QED
    BY <1>1, <2>1, <2>2, <2>3, <2>4, <2>5 DEF ReceiptStages, Suspended
<1>17. CASE BeginFails
  <2>1. run.pc = "begin" /\ EndRun(FALSE) /\ run.owner # None
        /\ (UNCHANGED <<receipt, pending>> \/ (receipt' = Prepared /\ pending' \in {pending, Prepared}))
    BY <1>2, <1>17 DEF BeginFails, FailRun
  <2>2. receipt = None /\ pending = None
    BY <2>1, BatchFresh
  <2>3. Prepared # None
    BY <1>0, ReceiptsTyped DEF CurationInv
  <2> QED
    BY <1>4, <1>7, <2>1, <2>2, <2>3
<1>18. ASSUME UNCHANGED <<up, receipt, pending, batch, curated, archive>>, run'.pc = run.pc, run'.owner = run.owner
       PROVE  ReceiptStages'
  BY <1>0, <1>18 DEF ReceiptStages, Suspended
<1>19. CASE ApplyOp \/ RejectOp
  <2>1. UNCHANGED <<up, receipt, pending, batch, curated, archive>>
    BY <1>19 DEF ApplyOp, RejectOp, work, guard
  <2>2. run'.pc = run.pc /\ run'.owner = run.owner
    BY <1>0, <1>19 DEF ApplyOp, RejectOp, RunType
  <2> QED
    BY <1>18, <2>1, <2>2
<1>20. CASE Epilogue
  <2>1. run.pc = "ops" /\ run'.pc = "finish" /\ run'.owner = run.owner
    BY <1>1, <1>8, <1>20 DEF Epilogue
  <2>2. UNCHANGED <<up, receipt, pending, batch, curated, archive>>
    BY <1>20 DEF Epilogue, work, guard
  <2> QED
    BY <1>0, <1>1, <2>1, <2>2 DEF ReceiptStages, Suspended
<1>21. run.pc = "finish" => Processed # None /\ Processed.id = receipt.id /\ Processed.sources = receipt.sources
  <2> SUFFICES ASSUME run.pc = "finish" PROVE Processed # None /\ Processed.id = receipt.id /\ Processed.sources = receipt.sources
    OBVIOUS
  <2>1. receipt \in Receipt
    BY <1>0, <1>1 DEF ReceiptStages
  <2>2. Processed \in Receipt
    BY <2>1, ReceiptsTyped DEF CurationInv
  <2> QED
    BY <1>0, <2>1, <2>2 DEF Processed, Receipt
<1>22. CASE Finish
  <2>1. run.pc = "finish" /\ run'.pc = "archive" /\ run'.owner = run.owner /\ receipt' = Processed /\ pending' = Processed
    BY <1>1, <1>8, <1>22 DEF Finish
  <2>2. UNCHANGED <<up, batch, curated, archive>>
    BY <1>22 DEF Finish, work
  <2> QED
    BY <1>0, <1>1, <1>21, <2>1, <2>2 DEF ReceiptStages, Suspended
<1>23. CASE FinishFails
  <2>1. run.pc = "finish" /\ EndRun(FALSE) /\ run.owner # None /\ receipt' = receipt /\ pending' \in {pending, Processed}
    BY <1>2, <1>23 DEF FinishFails, FailRun, guard
  <2>2. receipt # None /\ pending = receipt
    BY <1>0, <1>1, <2>1 DEF ReceiptStages
  <2> QED
    BY <1>4, <1>7, <1>21, <2>1, <2>2
<1>24. run.pc \in Finalizing => receipt \in Receipt /\ pending = receipt
  BY <1>0, <1>1 DEF ReceiptStages
<1>25. CASE ArchiveReceipt
  <2>1. run.pc = "archive" /\ run'.pc = "mark" /\ run'.owner = run.owner /\ archive' = Archived
    BY <1>1, <1>8, <1>25 DEF ArchiveReceipt
  <2>2. UNCHANGED <<up, receipt, pending, batch, curated>>
    BY <1>25 DEF ArchiveReceipt, work, guard
  <2>3. Archived # <<>> /\ Archived[Len(Archived)].id = receipt.id
    BY <1>0, <1>1, <1>24, <2>1, ArchivedLast
  <2> QED
    BY <1>0, <1>1, <2>1, <2>2, <2>3 DEF ReceiptStages, Suspended
<1>26. CASE MarkCurated
  <2>1. run.pc = "mark" /\ run'.pc = "remove" /\ run'.owner = run.owner /\ receipt.sources \subseteq curated'
    BY <1>1, <1>8, <1>26 DEF MarkCurated, Acknowledged
  <2>2. UNCHANGED <<up, receipt, pending, batch, archive>>
    BY <1>26 DEF MarkCurated, work, guard
  <2> QED
    BY <1>0, <1>1, <2>1, <2>2 DEF ReceiptStages, Suspended
<1>27. CASE RemoveReceipt
  <2>1. run.pc = "remove" /\ EndRun(TRUE) /\ receipt' = None /\ pending' = None
    BY <1>27 DEF RemoveReceipt
  <2> QED
    BY <1>2, <1>4, <1>7, <2>1
<1>28. CASE FinalizeFails
  <2>1. run.pc \in Finalizing /\ receipt' = receipt /\ pending' \in {pending, None}
        /\ (Goto("failed") \/ EndRun(FALSE))
    BY <1>1, <1>28 DEF FinalizeFails, FailRun, guard
  <2>2. Goto("failed") => run'.pc = "failed"
    BY <1>1, <1>8
  <2>3. run'.pc \notin Guarded \cup Begun /\ (run'.pc = "replay" => run'.owner # "worker")
    BY <1>1, <1>2, <1>7, <2>1, <2>2
  <2> QED
    BY <1>0, <1>4, <1>24, <2>1, <2>3
<1>29. CASE FlushRelease \/ OpenReturns
  <2>1. run.pc \in {"release", "opened"} /\ UNCHANGED <<receipt, pending>> /\ run'.pc = "idle"
    BY <1>29 DEF FlushRelease, OpenReturns, IdleRun, guard, disk
  <2> QED
    BY <1>1, <1>2, <1>5, <2>1
<1>30. CASE Crash \/ Close \/ OpenFails
  <2>1. receipt' = None /\ ~up' /\ run'.owner = None /\ run'.pc = "idle"
    BY <1>30 DEF Crash, Close, OpenFails, EmptyMemory, IdleRun
  <2> QED
    BY <1>0, <1>1, <2>1 DEF ReceiptStages, Suspended
<1>31. CASE WorkerStart \/ FlushStart
  <2>1. up /\ UNCHANGED <<receipt, pending>> /\ run'.pc \in {"replay", "capture"}
        /\ (run'.owner = "worker" => receipt = None)
    BY <1>0, <1>31 DEF WorkerStart, FlushStart, IdleRun, Suspended, guard, disk
  <2> QED
    BY <1>1, <1>5, <2>1
<1>32. CASE Recover
  <2>1. ~up /\ up' = up /\ receipt' = pending /\ pending' = pending /\ run'.owner = "open"
        /\ run'.pc \in {"replay", "archive"} /\ (pending = None => run'.pc = "replay")
    BY <1>32 DEF Recover, IdleRun, disk
  <2> QED
    BY <1>0, <1>1, <2>1 DEF ReceiptStages, Suspended
<1>33. CASE OperatorAcknowledge
  <2>1. ~up /\ ~up' /\ run.owner = None /\ run' = run /\ receipt' = receipt
    BY <1>33 DEF OperatorAcknowledge, guard
  <2>2. receipt = None /\ run.pc = "idle"
    BY <1>0, <2>1 DEF Empty, RunStages
  <2> QED
    BY <1>0, <1>1, <2>1, <2>2 DEF ReceiptStages, Suspended
<1> QED
  BY <1>9, <1>10, <1>11, <1>12, <1>13, <1>14, <1>15, <1>16, <1>17, <1>19, <1>20, <1>22, <1>23, <1>25, <1>26,
     <1>27, <1>28, <1>29, <1>30, <1>31, <1>32, <1>33 DEF Next, CycleStep
-----------------------------------------------------------------------------
(* Claims and their effects.                                               *)

\* What is neither written to disk nor to the receipt in memory.
Filed == <<archive, journal, synced, pending, receipt, issued, curated>>

\* Most steps file nothing.
LEMMA NothingFiled ==
    ASSUME \/ AppendStep \/ NoteStep \/ RefillStep \/ HostPoisons \/ UNCHANGED vars
           \/ FlushCapture \/ FlushCaptureFails \/ Replay \/ ReplayFails \/ ReplayReturns
           \/ TakeTurns \/ NothingToTake \/ (\E n \in 1 .. QueueLimit : Generate(n))
           \/ GenerateFails \/ FlushRelease \/ OpenReturns \/ WorkerStart \/ FlushStart
    PROVE  UNCHANGED Filed
<1>1. CASE AppendStep
  BY <1>1 DEF AppendStep, EventAppend, EventAppendFails, guard, bounds, Filed
<1>2. CASE NoteStep
  BY <1>2 DEF NoteStep, NoteScope, NoteFails, NoteReturns, guard, disk, bounds, Filed
<1>3. CASE RefillStep
  BY <1>3 DEF RefillStep, RefillScope, FillEvent, FillFails, FillScopeDone, guard, disk, bounds, Filed
<1>4. CASE HostPoisons \/ UNCHANGED vars
  BY <1>4 DEF HostPoisons, vars, guard, disk, bounds, Filed
<1>5. CASE FlushCapture \/ FlushCaptureFails
  BY <1>5 DEF FlushCapture, FlushCaptureFails, guard, disk, bounds, Filed
<1>6. CASE Replay
  BY <1>6 DEF Replay, guard, disk, bounds, Filed
<1>7. CASE ReplayFails \/ ReplayReturns
  BY <1>7 DEF ReplayFails, ReplayReturns, guard, disk, bounds, Filed
<1>8. CASE TakeTurns \/ NothingToTake
  BY <1>8 DEF TakeTurns, NothingToTake, guard, disk, bounds, Filed
<1>9. CASE (\E n \in 1 .. QueueLimit : Generate(n)) \/ GenerateFails
  BY <1>9 DEF Generate, GenerateFails, guard, disk, bounds, Filed
<1>10. CASE FlushRelease \/ OpenReturns \/ WorkerStart \/ FlushStart
  BY <1>10 DEF FlushRelease, OpenReturns, WorkerStart, FlushStart, guard, disk, bounds, Filed
<1> QED
  BY <1>1, <1>2, <1>3, <1>4, <1>5, <1>6, <1>7, <1>8, <1>9, <1>10

\* The steps that do file something.
LEMMA FilingSteps ==
    ASSUME [Next]_vars
    PROVE  \/ UNCHANGED Filed
           \/ Begin \/ BeginFails \/ ApplyOp \/ RejectOp \/ Epilogue \/ EpilogueFails \/ Finish \/ FinishFails
           \/ ArchiveReceipt \/ MarkCurated \/ RemoveReceipt \/ FinalizeFails
           \/ Crash \/ Close \/ OpenFails \/ Recover \/ OperatorAcknowledge
  BY NothingFiled DEF Next, CycleStep

\* What the steps that file something find: the claim in memory is on disk.
LEMMA InHand ==
    ASSUME CurationInv
    PROVE  /\ run.pc \in Guarded => receipt \in Receipt /\ pending = receipt /\ receipt \in Claims
           /\ run.pc \in {"ops", "finish", "archive", "mark", "remove"} <=> run.pc \in Guarded
           /\ archive \in Seq(Receipt) /\ journal \in Seq(Receipt) /\ issued \in Nat
           /\ pending \in Receipt \cup {None} /\ receipt \in Receipt \cup {None} /\ None \notin Receipt
           /\ \A r \in Claims : r \in Receipt /\ r.id \in Nat /\ r.sources \in SUBSET Event
<1>1. /\ archive \in Seq(Receipt) /\ journal \in Seq(Receipt) /\ issued \in Nat
      /\ pending \in Receipt \cup {None} /\ receipt \in Receipt \cup {None} /\ None \notin Receipt
  BY CurationAssumption DEF CurationInv, DiskTypeOK, MemoryTypeOK
<1>2. run.pc \in Guarded => receipt \in Receipt /\ pending = receipt /\ receipt \in Claims
  BY <1>1 DEF CurationInv, ReceiptStages, Claims
<1>3. \A r \in Claims : r \in Receipt
  BY <1>1 DEF Claims, Elements
<1>4. \A r \in Receipt : r.id \in Nat /\ r.sources \in SUBSET Event
  BY DEF Receipt
<1> QED
  BY <1>1, <1>2, <1>3, <1>4 DEF Guarded, Finalizing

\* Claims change in memory and on disk only by one that is new or the same.
LEMMA NumberedStep == CurationInv /\ [Next]_vars => Numbered'
<1> SUFFICES ASSUME CurationInv, [Next]_vars PROVE Numbered'
  OBVIOUS
<1>0. Numbered /\ Closed /\ DiskTypeOK
  BY DEF CurationInv
<1>1. issued' \in Nat /\ issued <= issued' /\ issued \in Nat
  BY ReceiptTypeStep, InHand
<1>2. ASSUME \A r \in Claims' : \E q \in Claims : q.id = r.id /\ q.sources = r.sources
      PROVE  Numbered'
  <2>1. \A r \in Claims' : r.id <= issued'
    BY <1>0, <1>1, <1>2, InHand DEF Numbered
  <2>2. \A r, q \in Claims' : IF r.id = q.id THEN r.sources = q.sources ELSE r.sources \cap q.sources = {}
    BY <1>0, <1>2 DEF Numbered
  <2> QED
    BY <2>1, <2>2 DEF Numbered
<1>3. ASSUME Claims' \subseteq Claims PROVE Numbered'
  BY <1>2, <1>3
<1>4. CASE UNCHANGED Filed
  <2>1. Claims' = Claims
    BY <1>4 DEF Filed, Claims, Elements
  <2> QED
    BY <1>3, <2>1
<1>5. CASE Begin \/ BeginFails
  <2>1. run.pc = "begin"
    BY <1>5 DEF Begin, BeginFails
  <2>2. receipt = None /\ pending = None /\ Elements(batch) \cap curated = {}
    BY <2>1, BatchFresh
  <2>3. archive' = archive /\ journal' = journal
        /\ \/ receipt' = receipt /\ pending' = pending
           \/ receipt' = Prepared /\ pending' \in {pending, Prepared} /\ issued' = issued + 1
    BY <1>5 DEF Begin, BeginFails
  <2>4. Claims = Elements(archive) \cup Elements(journal)
    BY <2>2 DEF Claims
  <2>5. CASE receipt' = receipt /\ pending' = pending
    BY <1>3, <2>3, <2>5 DEF Claims, Elements
  <2>6. CASE receipt' = Prepared /\ pending' \in {pending, Prepared} /\ issued' = issued + 1
    <3>1. Claims' \subseteq Claims \cup {Prepared}
      BY <2>2, <2>3, <2>4, <2>6 DEF Claims, Elements
    <3>2. \A q \in Claims : q.sources \subseteq curated
      BY <1>0, <2>2, <2>4 DEF Closed
    <3>3. Prepared.id = issued + 1 /\ Prepared.sources = Elements(batch)
      BY DEF Prepared
    <3>4. \A q \in Claims : q.id <= issued /\ q.id \in Nat
      BY <1>0, InHand DEF Numbered
    <3>5. \A q \in Claims : q.id # Prepared.id /\ q.sources \cap Prepared.sources = {}
      BY <1>1, <2>2, <3>2, <3>3, <3>4
    <3>6. \A r \in Claims' : r.id <= issued'
      BY <1>1, <2>6, <3>1, <3>3, <3>4
    <3>7. \A r, q \in Claims \cup {Prepared} : IF r.id = q.id THEN r.sources = q.sources ELSE r.sources \cap q.sources = {}
      BY <1>0, <3>5 DEF Numbered
    <3> QED
      BY <3>1, <3>6, <3>7 DEF Numbered
  <2> QED
    BY <2>3, <2>5, <2>6
<1>6. CASE ApplyOp \/ RejectOp
  <2>1. run.pc = "ops" /\ UNCHANGED <<archive, pending, receipt>>
        /\ (journal' = journal \/ journal' = Append(journal, receipt))
    BY <1>6 DEF ApplyOp, RejectOp, OpsLeft, guard
  <2>2. receipt \in Claims /\ receipt \in Receipt /\ journal \in Seq(Receipt)
    BY <2>1, InHand
  <2>3. Elements(journal') \subseteq Elements(journal) \cup {receipt}
    BY <2>1, <2>2, ElementsAppend
  <2>4. Elements(archive)' = Elements(archive) /\ Elements(journal)' = Elements(journal')
    BY <2>1 DEF Elements
  <2>5. Claims' \subseteq Claims
    BY <2>1, <2>2, <2>3, <2>4 DEF Claims
  <2> QED
    BY <1>3, <2>5
<1>7. CASE Epilogue \/ EpilogueFails
  <2>1. Claims' = Claims
    BY <1>7 DEF Epilogue, EpilogueFails, Claims, Elements, guard
  <2> QED
    BY <1>3, <2>1
<1>8. CASE Finish \/ FinishFails
  <2>1. run.pc = "finish" /\ UNCHANGED <<archive, journal>> /\ receipt' \in {receipt, Processed}
        /\ pending' \in {pending, Processed}
    BY <1>8 DEF Finish, FinishFails, guard
  <2>2. receipt \in Claims /\ receipt \in Receipt /\ Processed.id = receipt.id /\ Processed.sources = receipt.sources
    <3>1. receipt \in Claims /\ receipt \in Receipt
      BY <2>1, InHand
    <3> QED
      BY <3>1 DEF Processed, Receipt
  <2>3. Claims' \subseteq Claims \cup {Processed}
    BY <2>1 DEF Claims, Elements
  <2> QED
    BY <1>2, <2>2, <2>3
<1>9. CASE ArchiveReceipt \/ FinalizeFails
  <2>1. run.pc \in Guarded /\ UNCHANGED <<journal, receipt>> /\ pending' \in {pending, None}
        /\ archive' \in {archive, Archived}
    BY <1>9 DEF ArchiveReceipt, FinalizeFails, guard, Guarded, Finalizing
  <2>2. receipt \in Claims /\ receipt \in Receipt /\ archive \in Seq(Receipt)
    BY <2>1, InHand
  <2>3. Elements(archive') \subseteq Elements(archive) \cup {receipt}
    BY <2>1, <2>2, ArchivedLast, ElementsAppend
  <2>4. Elements(archive)' = Elements(archive') /\ Elements(journal)' = Elements(journal)
    BY <2>1 DEF Elements
  <2>5. Claims' \subseteq Claims
    BY <2>1, <2>2, <2>3, <2>4 DEF Claims
  <2> QED
    BY <1>3, <2>5
<1>10. CASE MarkCurated \/ RemoveReceipt \/ OpenFails \/ Recover
  <2>1. UNCHANGED <<archive, journal>> /\ pending' \in {pending, None} /\ receipt' \in {receipt, None, pending}
    BY <1>10 DEF MarkCurated, RemoveReceipt, OpenFails, Recover, EmptyMemory, disk, guard
  <2>2. Claims' \subseteq Claims
    BY <2>1 DEF Claims, Elements
  <2> QED
    BY <1>3, <2>2
<1>11. CASE Crash \/ Close
  <2>1. UNCHANGED <<archive, pending>> /\ receipt' = None /\ (LoseUnsynced \/ journal' = journal)
    BY <1>11 DEF Crash, Close, EmptyMemory
  <2>2. Elements(journal)' \subseteq Elements(journal)
    <3>1. CASE LoseUnsynced
      <4>1. journal' \in Seq(Receipt) /\ journal \in Seq(Receipt) /\ Len(journal') <= Len(journal)
            /\ \A j \in 1 .. Len(journal') : journal'[j] = journal[j]
        BY <1>0, <3>1, LoseTyped DEF DiskTypeOK
      <4> QED
        BY <4>1 DEF Elements
    <3>2. CASE journal' = journal
      BY <3>2 DEF Elements
    <3> QED
      BY <2>1, <3>1, <3>2
  <2>3. Elements(archive)' = Elements(archive)
    BY <2>1 DEF Elements
  <2>4. Claims' \subseteq Claims
    BY <2>1, <2>2, <2>3 DEF Claims
  <2> QED
    BY <1>3, <2>4
<1>12. CASE OperatorAcknowledge
  <2>1. UNCHANGED <<archive, journal, receipt>> /\ pending # None /\ pending' = [pending EXCEPT !.outcome = "interrupted"]
    BY <1>12 DEF OperatorAcknowledge, guard
  <2>2. pending \in Receipt
    BY <2>1, InHand
  <2>3. pending \in Claims /\ pending'.id = pending.id /\ pending'.sources = pending.sources
    BY <2>1, <2>2 DEF Claims, Receipt
  <2>4. Claims' \subseteq Claims \cup {pending'}
    BY <2>1 DEF Claims, Elements
  <2> QED
    BY <1>2, <2>3, <2>4
<1> QED
  BY <1>4, <1>5, <1>6, <1>7, <1>8, <1>9, <1>10, <1>11, <1>12, FilingSteps

\* The history is in the order of the numbers.
LEMMA InSequenceStep == CurationInv /\ [Next]_vars => InSequence'
<1> SUFFICES ASSUME CurationInv, [Next]_vars PROVE InSequence'
  OBVIOUS
<1>0. Numbered /\ InSequence
  BY DEF CurationInv
<1>1. archive \in Seq(Receipt) /\ issued \in Nat /\ None \notin Receipt
  BY InHand
<1>2. \A i \in DOMAIN archive : archive[i] \in Claims /\ archive[i].id \in Nat
  BY InHand DEF Claims, Elements
<1>3. ASSUME archive' = archive,
             \A c \in {pending', receipt'} \ {None} :
                 \/ \E d \in {pending, receipt} \ {None} : c.id = d.id
                 \/ c.id = issued + 1
      PROVE  InSequence'
  <2>1. \A i \in DOMAIN archive, c \in {pending', receipt'} \ {None} : archive[i].id <= c.id
    <3> SUFFICES ASSUME NEW i \in DOMAIN archive, NEW c \in {pending', receipt'} \ {None}
                 PROVE  archive[i].id <= c.id
      OBVIOUS
    <3>1. CASE \E d \in {pending, receipt} \ {None} : c.id = d.id
      BY <1>0, <3>1 DEF InSequence
    <3>2. CASE c.id = issued + 1
      <4>1. archive[i].id <= issued
        BY <1>0, <1>2 DEF Numbered
      <4> QED
        BY <1>1, <1>2, <3>2, <4>1
    <3> QED
      BY <1>3, <3>1, <3>2
  <2> QED
    BY <1>0, <1>3, <2>1 DEF InSequence
<1>4. CASE UNCHANGED Filed
  BY <1>0, <1>4 DEF Filed, InSequence
<1>5. CASE Begin \/ BeginFails
  <2>1. archive' = archive /\ receipt' \in {receipt, Prepared} /\ pending' \in {pending, Prepared}
    BY <1>5 DEF Begin, BeginFails
  <2>2. Prepared.id = issued + 1
    BY DEF Prepared
  <2> QED
    BY <1>3, <2>1, <2>2
<1>6. CASE ApplyOp \/ RejectOp \/ Epilogue \/ EpilogueFails \/ MarkCurated
  BY <1>0, <1>6 DEF ApplyOp, RejectOp, Epilogue, EpilogueFails, MarkCurated, guard, InSequence
<1>7. CASE Finish \/ FinishFails
  <2>1. run.pc = "finish" /\ archive' = archive /\ receipt' \in {receipt, Processed} /\ pending' \in {pending, Processed}
    BY <1>7 DEF Finish, FinishFails, guard
  <2>2. receipt \in Receipt
    BY <2>1, InHand
  <2>3. Processed.id = receipt.id
    BY <2>2 DEF Processed, Receipt
  <2> QED
    BY <1>1, <1>3, <2>1, <2>2, <2>3
<1>8. ASSUME archive' = archive, pending' \in {pending, None}, receipt' \in {receipt, None, pending}
      PROVE  InSequence'
  BY <1>3, <1>8
<1>9. CASE RemoveReceipt \/ OpenFails \/ Recover \/ Crash \/ Close
  BY <1>8, <1>9 DEF RemoveReceipt, OpenFails, Recover, Crash, Close, EmptyMemory, disk
<1>10. CASE OperatorAcknowledge
  <2>1. archive' = archive /\ receipt' = receipt /\ pending # None /\ pending' = [pending EXCEPT !.outcome = "interrupted"]
    BY <1>10 DEF OperatorAcknowledge, guard
  <2>2. pending \in Receipt
    BY <2>1, InHand
  <2>3. pending'.id = pending.id
    BY <2>1, <2>2 DEF Receipt
  <2> QED
    BY <1>3, <2>1, <2>3
<1>11. CASE ArchiveReceipt \/ FinalizeFails
  <2>1. run.pc \in Guarded /\ receipt' = receipt /\ pending' \in {pending, None} /\ archive' \in {archive, Archived}
    BY <1>11 DEF ArchiveReceipt, FinalizeFails, guard, Guarded, Finalizing
  <2>2. receipt \in Receipt /\ receipt # None /\ receipt.id \in Nat /\ pending = receipt
    BY <1>1, <2>1, InHand DEF Receipt
  <2>3. \A i \in DOMAIN archive : archive[i].id <= receipt.id
    BY <1>0, <2>2 DEF InSequence
  <2>4. CASE archive' = archive
    BY <1>8, <2>1, <2>4
  <2>5. CASE archive' = Append(archive, receipt)
               /\ ~(archive # <<>> /\ archive[Len(archive)].id = receipt.id)
    <3> DEFINE q == Append(archive, receipt)
               n == Len(archive)
    <3>1. n \in Nat /\ DOMAIN archive = 1 .. n /\ DOMAIN q = 1 .. n + 1 /\ q[n + 1] = receipt
          /\ \A i \in 1 .. n : q[i] = archive[i]
      BY <1>1, <2>2
    <3> HIDE DEF q
    <3>2. \A i \in 1 .. n : archive[i].id < receipt.id
      <4> SUFFICES ASSUME NEW i \in 1 .. n PROVE archive[i].id < receipt.id
        OBVIOUS
      <4>1. archive # <<>> /\ n \in DOMAIN archive /\ i \in DOMAIN archive /\ (i = n \/ i < n)
        <5>3. n \in Nat
          BY <3>1
        <5>1. n >= 1 /\ n \in 1 .. n /\ (i = n \/ i < n)
          BY <5>3
        <5>2. archive # <<>>
          BY <5>1
        <5> QED
          BY <3>1, <5>1, <5>2
      <4> HIDE DEF n
      <4>2. archive[n].id < receipt.id
        <5>1. archive[n].id \in Nat /\ archive[n].id <= receipt.id
          BY <1>2, <2>3, <4>1
        <5>2. archive[n].id # receipt.id
          BY <2>5, <4>1 DEF n
        <5> QED
          BY <2>2, <5>1, <5>2
      <4>3. i = n \/ archive[i].id < archive[n].id
        BY <1>0, <4>1 DEF InSequence
      <4> QED
        BY <1>2, <2>2, <3>1, <4>1, <4>2, <4>3
    <3>3. \A i, j \in 1 .. n + 1 : i < j => q[i].id < q[j].id
      BY <1>0, <3>1, <3>2 DEF InSequence
    <3>4. \A i \in 1 .. n + 1 : q[i].id <= receipt.id
      BY <2>2, <2>3, <3>1
    <3> QED
      BY <2>1, <2>2, <2>5, <3>1, <3>3, <3>4 DEF InSequence, q
  <2> QED
    BY <2>1, <2>4, <2>5 DEF Archived
<1> QED
  BY <1>4, <1>5, <1>6, <1>7, <1>9, <1>10, <1>11, FilingSteps

\* Only the claim on disk has sources that are not acknowledged.
LEMMA ClosedStep == CurationInv /\ [Next]_vars => Closed'
<1> SUFFICES ASSUME CurationInv, [Next]_vars PROVE Closed'
  OBVIOUS
<1>0. Numbered /\ Closed /\ DiskTypeOK /\ ReceiptStages
  BY DEF CurationInv
<1>1. ASSUME curated \subseteq curated', pending # None => pending' # None /\ pending'.id = pending.id,
             \A r \in Elements(archive') \cup Elements(journal') :
                 \/ r \in Elements(archive) \cup Elements(journal)
                 \/ pending' # None /\ r.id = pending'.id
      PROVE  Closed'
  <2>1. Elements(archive') = Elements(archive)' /\ Elements(journal') = Elements(journal)'
    BY DEF Elements
  <2> QED
    BY <1>0, <1>1, <2>1 DEF Closed
<1>2. ASSUME curated \subseteq curated', pending # None => pending' # None /\ pending'.id = pending.id,
             UNCHANGED <<archive, journal>>
      PROVE  Closed'
  BY <1>1, <1>2
<1>3. CASE UNCHANGED Filed
  BY <1>2, <1>3 DEF Filed
<1>4. CASE Begin \/ BeginFails
  <2>1. run.pc = "begin" /\ UNCHANGED <<archive, journal, curated>>
    BY <1>4 DEF Begin, BeginFails
  <2>2. pending = None
    BY <2>1, BatchFresh
  <2> QED
    BY <1>2, <2>1, <2>2
<1>5. CASE ApplyOp \/ RejectOp
  <2>1. run.pc = "ops" /\ UNCHANGED <<archive, pending, curated>>
        /\ (journal' = journal \/ journal' = Append(journal, receipt))
    BY <1>5 DEF ApplyOp, RejectOp, OpsLeft
  <2>2. receipt \in Receipt /\ journal \in Seq(Receipt) /\ pending = receipt /\ pending # None
    BY <2>1, InHand
  <2>3. Elements(journal') \subseteq Elements(journal) \cup {receipt}
    BY <2>1, <2>2, ElementsAppend
  <2> QED
    BY <1>1, <2>1, <2>2, <2>3
<1>6. CASE Epilogue \/ EpilogueFails \/ OpenFails \/ Recover
  BY <1>2, <1>6 DEF Epilogue, EpilogueFails, OpenFails, Recover, disk
<1>7. CASE MarkCurated
  BY <1>2, <1>7 DEF MarkCurated, Acknowledged
<1>8. CASE Finish \/ FinishFails
  <2>1. run.pc = "finish" /\ UNCHANGED <<archive, journal, curated>> /\ pending' \in {pending, Processed}
    BY <1>8 DEF Finish, FinishFails
  <2>2. receipt \in Receipt /\ pending = receipt /\ None \notin Receipt /\ Processed \in Receipt
    BY <2>1, InHand, ReceiptsTyped DEF CurationInv
  <2>3. Processed.id = receipt.id
    BY <2>2 DEF Processed, Receipt
  <2> QED
    BY <1>2, <2>1, <2>2, <2>3
<1>9. CASE ArchiveReceipt \/ (FinalizeFails /\ run.pc = "archive")
  <2>1. run.pc = "archive" /\ UNCHANGED <<pending, journal, curated>> /\ archive' \in {archive, Archived}
    BY <1>9 DEF ArchiveReceipt, FinalizeFails
  <2>2. receipt \in Receipt /\ pending = receipt /\ pending # None /\ archive \in Seq(Receipt)
    BY <2>1, InHand
  <2>3. Elements(archive') \subseteq Elements(archive) \cup {receipt}
    BY <2>1, <2>2, ArchivedLast, ElementsAppend
  <2> QED
    BY <1>1, <2>1, <2>2, <2>3
<1>10. CASE FinalizeFails /\ run.pc = "mark"
  BY <1>2, <1>10 DEF FinalizeFails, Acknowledged
<1>11. CASE RemoveReceipt \/ (FinalizeFails /\ run.pc = "remove")
  <2>1. run.pc = "remove" /\ UNCHANGED <<archive, journal, curated>> /\ pending' \in {pending, None}
    BY <1>11 DEF RemoveReceipt, FinalizeFails
  <2>2. receipt \in Claims /\ pending = receipt
    BY <2>1, InHand
  <2>3. receipt.sources \subseteq curated
    BY <1>0, <2>1 DEF ReceiptStages
  <2>4. \A r \in Elements(archive) \cup Elements(journal) : r.sources \subseteq curated
    <3> SUFFICES ASSUME NEW r \in Elements(archive) \cup Elements(journal) PROVE r.sources \subseteq curated
      OBVIOUS
    <3>1. CASE r.id = receipt.id
      <4>1. r \in Claims
        BY DEF Claims
      <4>2. r.sources = receipt.sources
        BY <1>0, <2>2, <3>1, <4>1 DEF Numbered
      <4> QED
        BY <2>3, <4>2
    <3>2. CASE r.id # receipt.id
      BY <1>0, <2>2, <3>2 DEF Closed
    <3> QED
      BY <3>1, <3>2
  <2>5. Elements(archive)' = Elements(archive) /\ Elements(journal)' = Elements(journal)
    BY <2>1 DEF Elements
  <2> QED
    BY <2>1, <2>4, <2>5 DEF Closed
<1>12. CASE Crash \/ Close
  <2>1. UNCHANGED <<archive, pending, curated>> /\ (LoseUnsynced \/ journal' = journal)
    BY <1>12 DEF Crash, Close
  <2>2. Elements(journal') \subseteq Elements(journal)
    <3>1. CASE LoseUnsynced
      <4>1. journal' \in Seq(Receipt) /\ journal \in Seq(Receipt) /\ Len(journal') <= Len(journal)
            /\ \A j \in 1 .. Len(journal') : journal'[j] = journal[j]
        BY <1>0, <3>1, LoseTyped DEF DiskTypeOK
      <4> QED
        BY <4>1 DEF Elements
    <3>2. CASE journal' = journal
      BY <3>2 DEF Elements
    <3> QED
      BY <2>1, <3>1, <3>2
  <2> QED
    BY <1>1, <2>1, <2>2
<1>13. CASE OperatorAcknowledge
  <2>1. UNCHANGED <<archive, journal, curated>> /\ pending # None /\ pending' = [pending EXCEPT !.outcome = "interrupted"]
    BY <1>13 DEF OperatorAcknowledge
  <2>2. pending \in Receipt /\ None \notin Receipt
    BY <2>1, InHand
  <2>3. pending' \in Receipt /\ pending'.id = pending.id
    BY <2>1, <2>2 DEF Receipt
  <2> QED
    BY <1>2, <2>1, <2>2, <2>3
<1>14. CASE FinalizeFails
  <2>1. run.pc \in {"archive", "mark", "remove"}
    BY <1>14 DEF FinalizeFails
  <2> QED
    BY <1>9, <1>10, <1>11, <1>14, <2>1
<1> QED
  BY <1>3, <1>4, <1>5, <1>6, <1>7, <1>8, <1>9, <1>11, <1>12, <1>13, <1>14, FilingSteps

\* Whatever is acknowledged is in the history.
LEMMA BackedStep == CurationInv /\ [Next]_vars => Backed'
<1> SUFFICES ASSUME CurationInv, [Next]_vars PROVE Backed'
  OBVIOUS
<1>0. Numbered /\ Backed /\ ReceiptStages
  BY DEF CurationInv
<1>1. CASE UNCHANGED <<archive, curated>>
  BY <1>0, <1>1 DEF Backed
<1>2. CASE run.pc \in Guarded /\ curated' = curated /\ archive' = Archived
  <2>1. receipt \in Receipt /\ archive \in Seq(Receipt)
    BY <1>2, InHand
  <2>2. \A i \in DOMAIN archive : i \in DOMAIN Archived /\ Archived[i] = archive[i]
    BY <2>1, ArchivedLast
  <2> QED
    BY <1>0, <1>2, <2>2 DEF Backed
<1>3. CASE run.pc = "mark" /\ archive' = archive /\ curated' = Acknowledged
  <2>1. receipt \in Claims /\ archive \in Seq(Receipt)
    BY <1>3, InHand
  <2> DEFINE n == Len(archive)
  <2>2. archive # <<>> /\ archive[n].id = receipt.id
    BY <1>0, <1>3 DEF ReceiptStages
  <2>3. n \in DOMAIN archive
    BY <2>1, <2>2
  <2>4. archive[n] \in Claims
    BY <2>3 DEF Claims, Elements
  <2>5. archive[n].sources = receipt.sources
    BY <1>0, <2>1, <2>2, <2>4 DEF Numbered
  <2> QED
    BY <1>0, <1>3, <2>3, <2>5 DEF Backed, Acknowledged
<1>4. CASE UNCHANGED Filed
  BY <1>1, <1>4 DEF Filed
<1>5. CASE Begin \/ BeginFails \/ ApplyOp \/ RejectOp \/ Epilogue \/ EpilogueFails \/ Finish \/ FinishFails
           \/ RemoveReceipt \/ Crash \/ Close \/ OpenFails \/ Recover \/ OperatorAcknowledge
  BY <1>1, <1>5 DEF Begin, BeginFails, ApplyOp, RejectOp, Epilogue, EpilogueFails, Finish, FinishFails,
     RemoveReceipt, Crash, Close, OpenFails, Recover, OperatorAcknowledge, disk
<1>6. CASE ArchiveReceipt \/ MarkCurated \/ FinalizeFails
  BY <1>1, <1>2, <1>3, <1>6 DEF ArchiveReceipt, MarkCurated, FinalizeFails, Guarded, Finalizing
<1> QED
  BY <1>4, <1>5, <1>6, FilingSteps

\* A longer journal has no fewer frames of a claim.
LEMMA CountGrows ==
    ASSUME NEW js, NEW ks, NEW n \in Nat, NEW m \in Nat, n <= m,
           \A j \in 1 .. n : ks[j] = js[j], NEW id
    PROVE  /\ Count(js, n, id) \in Nat /\ Count(ks, m, id) \in Nat
           /\ Count(js, n, id) <= Count(ks, m, id)
<1>1. IsFiniteSet(1 .. m)
  BY FS_Interval
<1>2. Frames(ks, m, id) \subseteq 1 .. m /\ Frames(js, n, id) \subseteq Frames(ks, m, id)
  BY DEF Frames
<1>3. IsFiniteSet(Frames(ks, m, id))
  BY <1>1, <1>2, FS_Subset
<1>4. IsFiniteSet(Frames(js, n, id)) /\ Cardinality(Frames(js, n, id)) <= Cardinality(Frames(ks, m, id))
  BY <1>2, <1>3, FS_Subset
<1> QED
  BY <1>3, <1>4, FS_CardinalityType DEF Count

\* An operation of a claim is one more frame of it.
LEMMA CountAppend ==
    ASSUME NEW js \in Seq(Receipt), NEW r \in Receipt
    PROVE  /\ Count(js, Len(js), r.id) \in Nat
           /\ Count(Append(js, r), Len(js) + 1, r.id) = Count(js, Len(js), r.id) + 1
<1> DEFINE n == Len(js)
           ks == Append(js, r)
<1>1. n \in Nat /\ ks[n + 1] = r /\ \A j \in 1 .. n : ks[j] = js[j]
  OBVIOUS
<1> HIDE DEF ks
<1>2. Frames(ks, n + 1, r.id) = Frames(js, n, r.id) \cup {n + 1} /\ n + 1 \notin Frames(js, n, r.id)
  BY <1>1 DEF Frames
<1>3. IsFiniteSet(Frames(js, n, r.id))
  <2>1. IsFiniteSet(1 .. n)
    <3>1. n \in Nat
      BY <1>1
    <3> HIDE DEF n
    <3>2. 1 \in Int /\ n \in Int
      BY <3>1
    <3> QED
      BY <3>2, FS_Interval
  <2>2. Frames(js, n, r.id) \subseteq 1 .. n
    BY DEF Frames
  <2> QED
    BY <2>1, <2>2, FS_Subset
<1> QED
  BY <1>2, <1>3, FS_AddElement, FS_CardinalityType DEF Count, ks

\* A step that files nothing leaves the slot alone or leaves it elsewhere.
LEMMA QuietRun ==
    ASSUME CurationInv,
           \/ AppendStep \/ NoteStep \/ RefillStep \/ HostPoisons \/ UNCHANGED vars
           \/ FlushCapture \/ FlushCaptureFails \/ Replay \/ ReplayFails \/ ReplayReturns
           \/ TakeTurns \/ NothingToTake \/ (\E n \in 1 .. QueueLimit : Generate(n))
           \/ GenerateFails \/ FlushRelease \/ OpenReturns \/ WorkerStart \/ FlushStart
    PROVE  run' = run \/ run'.pc \notin Guarded
<1>0. run \in RunType /\ RunStages
  BY DEF CurationInv, MemoryTypeOK
<1>1. Guarded = {"ops", "finish", "archive", "mark", "remove"}
      /\ {"refill", "take", "failed", "opened", "generate", "begin"} \subseteq Pc
  BY DEF Guarded, Finalizing, Cycle, Pc
<1>2. ASSUME EndRun(FALSE), run.pc # "idle" PROVE run'.pc \notin Guarded
  <2>1. run.owner # None
    BY <1>0, <1>2 DEF RunStages
  <2>2. ASSUME NEW ok \in BOOLEAN, EndRun(ok) PROVE run'.pc \notin Guarded
    BY <1>0, <1>1, <2>1, <2>2, EndRunTyped DEF IdleRun
  <2> QED
    BY <1>2, <2>2
<1>3. ASSUME NEW p \in Pc, Goto(p) PROVE run'.pc = p
  BY <1>0, <1>3, GotoTyped
<1>4. CASE AppendStep \/ NoteStep \/ RefillStep \/ HostPoisons \/ UNCHANGED vars
  BY <1>4 DEF AppendStep, EventAppend, EventAppendFails, NoteStep, NoteScope, NoteFails, NoteReturns,
     RefillStep, RefillScope, FillEvent, FillFails, FillScopeDone, HostPoisons, vars
<1>5. CASE FlushCapture \/ FlushCaptureFails \/ NothingToTake
  <2>1. ASSUME FlushCapture PROVE run'.pc \in {"release", "replay"}
    <3>1. PICK b : run' = [run EXCEPT !.budget = b, !.pc = IF b = 0 THEN "release" ELSE "replay"]
      BY <2>1, Zenon DEF FlushCapture
    <3> QED
      BY <1>0, <3>1 DEF RunType
  <2>2. ASSUME FlushCaptureFails PROVE run'.pc = "release"
    BY <1>0, <2>2 DEF FlushCaptureFails, RunType
  <2>3. ASSUME NothingToTake PROVE run'.pc \in {"release", "idle"}
    BY <1>0, <2>3 DEF NothingToTake, RunType, IdleRun
  <2> QED
    BY <1>1, <1>5, <2>1, <2>2, <2>3
<1>6. CASE Replay
  <2>1. Goto("refill") \/ run'.pc \in {"opened", "release"}
    BY <1>0, <1>6 DEF Replay, RunType
  <2> QED
    BY <1>1, <1>3, <2>1
<1>7. CASE ReplayFails
  <2>1. run.pc = "replay" /\ (Goto("failed") \/ EndRun(FALSE))
    BY <1>7 DEF ReplayFails
  <2>2. Goto("failed") => run'.pc = "failed"
    BY <1>1, <1>3
  <2> QED
    BY <1>1, <1>2, <2>1, <2>2
<1>8. CASE ReplayReturns
  <2>1. run.pc = "refill"
    BY <1>8 DEF ReplayReturns, CurationInv, RefillStages
  <2>2. Goto("failed") \/ Goto("opened") \/ Goto("take") \/ EndRun(FALSE)
    BY <1>8 DEF ReplayReturns
  <2>3. \A p \in {"failed", "opened", "take"} : Goto(p) => run'.pc = p
    BY <1>1, <1>3
  <2> QED
    BY <1>1, <1>2, <2>1, <2>2, <2>3
<1>9. CASE TakeTurns \/ (\E n \in 1 .. QueueLimit : Generate(n))
  BY <1>1, <1>3, <1>9 DEF TakeTurns, Generate
<1>10. CASE GenerateFails
  BY <1>1, <1>2, <1>10 DEF GenerateFails, FailRun
<1>11. CASE FlushRelease \/ OpenReturns \/ WorkerStart \/ FlushStart
  <2>1. ASSUME FlushRelease \/ OpenReturns PROVE run'.pc = "idle"
    BY <2>1 DEF FlushRelease, OpenReturns, IdleRun
  <2>2. ASSUME WorkerStart PROVE run'.pc = "replay"
    <3>1. PICK f : run' = [IdleRun EXCEPT !.owner = "worker", !.pc = "replay", !.force = f]
      BY <2>2, Zenon DEF WorkerStart
    <3> QED
      BY <3>1 DEF IdleRun
  <2>3. ASSUME FlushStart PROVE run'.pc = "capture"
    BY <2>3 DEF FlushStart, IdleRun
  <2> QED
    BY <1>1, <1>11, <2>1, <2>2, <2>3
<1> QED
  BY <1>4, <1>5, <1>6, <1>7, <1>8, <1>9, <1>10, <1>11

\* Nothing is counted as applied before a batch has begun.
LEMMA AppliedStep == CurationInv /\ [Next]_vars => AppliedOK'
<1> SUFFICES ASSUME CurationInv, [Next]_vars PROVE AppliedOK'
  OBVIOUS
<1>0. run \in RunType /\ RunStages /\ AppliedOK /\ None # "open"
  BY CurationAssumption DEF CurationInv, MemoryTypeOK
<1>1. Guarded = {"ops", "finish", "archive", "mark", "remove"}
      /\ {"refill", "take", "failed", "opened", "generate", "begin", "ops", "finish", "archive", "mark",
          "remove"} \subseteq Pc
  BY DEF Guarded, Finalizing, Cycle, Pc
<1>2. ASSUME EndRun(FALSE) \/ EndRun(TRUE), run.pc # "idle" PROVE AppliedOK'
  <2>1. run.owner # None
    BY <1>0, <1>2 DEF RunStages
  <2>2. ASSUME NEW ok \in BOOLEAN, EndRun(ok) PROVE AppliedOK'
    BY <1>0, <2>1, <2>2, EndRunTyped DEF IdleRun, AppliedOK, Early
  <2> QED
    BY <1>2, <2>2
<1>3. ASSUME NEW p \in Pc, Goto(p), run.pc \in Early \/ p \notin Early PROVE AppliedOK'
  BY <1>0, <1>3, GotoTyped DEF AppliedOK
<1>4. CASE AppendStep \/ NoteStep \/ RefillStep \/ HostPoisons \/ OperatorAcknowledge \/ UNCHANGED vars
  BY <1>0, <1>4 DEF AppendStep, EventAppend, EventAppendFails, NoteStep, NoteScope, NoteFails, NoteReturns,
     RefillStep, RefillScope, FillEvent, FillFails, FillScopeDone, HostPoisons, OperatorAcknowledge, vars,
     AppliedOK
<1>5. CASE FlushCapture \/ FlushCaptureFails \/ NothingToTake
  <2>1. ASSUME run'.applied = run.applied, run.pc \in Early PROVE AppliedOK'
    BY <1>0, <2>1 DEF AppliedOK
  <2>2. ASSUME FlushCapture PROVE run'.applied = run.applied /\ run.pc \in Early
    <3>1. PICK b, p : run' = [run EXCEPT !.budget = b, !.pc = p]
      BY <2>2, Zenon DEF FlushCapture
    <3>2. run.pc = "capture"
      BY <2>2 DEF FlushCapture
    <3> QED
      BY <1>0, <3>1, <3>2 DEF RunType, Early
  <2>3. ASSUME FlushCaptureFails PROVE run'.applied = run.applied /\ run.pc \in Early
    BY <1>0, <2>3 DEF FlushCaptureFails, RunType, Early
  <2>4. ASSUME NothingToTake PROVE run'.applied = 0 \/ (run'.applied = run.applied /\ run.pc \in Early)
    BY <1>0, <2>4 DEF NothingToTake, RunType, IdleRun, Early
  <2>5. run'.applied = 0 => AppliedOK'
    BY DEF AppliedOK
  <2> QED
    BY <1>5, <2>1, <2>2, <2>3, <2>4, <2>5
<1>6. CASE Replay
  <2>1. Goto("refill") \/ (run'.pc \in {"opened", "release"} /\ run'.owner = run.owner /\ run'.applied = run.applied)
    BY <1>0, <1>6 DEF Replay, RunType
  <2>2. run.pc \in Early
    BY <1>6 DEF Replay, Early
  <2> QED
    BY <1>0, <1>1, <1>3, <2>1, <2>2 DEF AppliedOK
<1>7. CASE ReplayFails
  <2>1. run.pc = "replay" /\ (Goto("failed") \/ EndRun(FALSE))
    BY <1>7 DEF ReplayFails
  <2> QED
    BY <1>1, <1>2, <1>3, <2>1 DEF Early
<1>8. CASE ReplayReturns
  <2>1. run.pc = "refill"
    BY <1>8 DEF ReplayReturns, CurationInv, RefillStages
  <2>2. Goto("failed") \/ Goto("opened") \/ Goto("take") \/ EndRun(FALSE)
    BY <1>8 DEF ReplayReturns
  <2> QED
    BY <1>1, <1>2, <1>3, <2>1, <2>2 DEF Early
<1>9. CASE TakeTurns \/ (\E n \in 1 .. QueueLimit : Generate(n))
  <2>1. run.pc \in Early /\ (Goto("generate") \/ Goto("begin"))
    BY <1>9 DEF TakeTurns, Generate, Early
  <2> QED
    BY <1>1, <1>3, <2>1
<1>10. CASE GenerateFails \/ BeginFails \/ EpilogueFails \/ FinishFails \/ RemoveReceipt
  BY <1>2, <1>10 DEF GenerateFails, BeginFails, EpilogueFails, FinishFails, RemoveReceipt, FailRun
<1>11. CASE FlushRelease \/ OpenReturns \/ WorkerStart \/ FlushStart \/ Recover
  <2>1. ASSUME FlushRelease \/ OpenReturns PROVE run'.applied = 0
    BY <2>1 DEF FlushRelease, OpenReturns, IdleRun
  <2>2. ASSUME WorkerStart PROVE run'.applied = 0
    <3>1. PICK f : run' = [IdleRun EXCEPT !.owner = "worker", !.pc = "replay", !.force = f]
      BY <2>2, Zenon DEF WorkerStart
    <3> QED
      BY <3>1 DEF IdleRun
  <2>3. ASSUME FlushStart PROVE run'.applied = 0
    BY <2>3 DEF FlushStart, IdleRun
  <2>4. ASSUME Recover PROVE run'.applied = 0
    <3>1. PICK p : run' = [IdleRun EXCEPT !.owner = "open", !.pc = p]
      BY <2>4, Zenon DEF Recover
    <3> QED
      BY <3>1 DEF IdleRun
  <2> QED
    BY <1>11, <2>1, <2>2, <2>3, <2>4 DEF AppliedOK
<1>12. CASE Begin \/ Epilogue \/ Finish \/ ArchiveReceipt \/ MarkCurated
  <2>1. PICK p \in {"ops", "finish", "archive", "mark", "remove"} : Goto(p)
    BY <1>12 DEF Begin, Epilogue, Finish, ArchiveReceipt, MarkCurated
  <2> QED
    BY <1>1, <1>3, <2>1 DEF Early
<1>13. CASE ApplyOp \/ RejectOp
  <2>1. run.pc = "ops" /\ run'.pc = "ops" /\ run'.owner = run.owner
    BY <1>0, <1>13 DEF ApplyOp, RejectOp, OpsLeft, RunType
  <2>2. run.owner # "open"
    BY <1>0, <2>1 DEF RunStages, Finalizing
  <2> QED
    BY <2>1, <2>2 DEF AppliedOK, Early
<1>14. CASE FinalizeFails
  <2>1. run.pc \in {"archive", "mark", "remove"} /\ (Goto("failed") \/ EndRun(FALSE))
    BY <1>14 DEF FinalizeFails, FailRun
  <2> QED
    BY <1>1, <1>2, <1>3, <2>1 DEF Early
<1>15. CASE Crash \/ Close \/ OpenFails
  BY <1>0, <1>15 DEF Crash, Close, OpenFails, EmptyMemory, IdleRun, AppliedOK, Early
<1> QED
  BY <1>4, <1>5, <1>6, <1>7, <1>8, <1>9, <1>10, <1>11, <1>12, <1>13, <1>14, <1>15 DEF Next, CycleStep

\* A cycle that ends leaves the guarded part.
LEMMA EndRunQuiet ==
    ASSUME CurationInv, run.pc # "idle", EndRun(FALSE) \/ EndRun(TRUE)
    PROVE  run'.pc \notin Guarded
<1>1. run \in RunType /\ run.owner # None
  BY DEF CurationInv, MemoryTypeOK, RunStages
<1>2. Guarded = {"ops", "finish", "archive", "mark", "remove"}
  BY DEF Guarded, Finalizing
<1>3. ASSUME NEW ok \in BOOLEAN, EndRun(ok) PROVE run'.pc \notin Guarded
  BY <1>1, <1>2, <1>3, EndRunTyped DEF IdleRun
<1> QED
  BY <1>3

\* Such a step does not close the context either.
LEMMA QuietUp ==
    ASSUME \/ AppendStep \/ NoteStep \/ RefillStep \/ HostPoisons \/ UNCHANGED vars
           \/ FlushCapture \/ FlushCaptureFails \/ Replay \/ ReplayFails \/ ReplayReturns
           \/ TakeTurns \/ NothingToTake \/ (\E n \in 1 .. QueueLimit : Generate(n))
           \/ GenerateFails \/ FlushRelease \/ OpenReturns \/ WorkerStart \/ FlushStart
    PROVE  ~up' => ~up
<1>1. CASE AppendStep \/ NoteStep \/ RefillStep \/ HostPoisons \/ UNCHANGED vars
  BY <1>1 DEF AppendStep, EventAppend, EventAppendFails, NoteStep, NoteScope, NoteFails, NoteReturns,
     RefillStep, RefillScope, FillEvent, FillFails, FillScopeDone, HostPoisons, vars
<1>2. CASE FlushCapture \/ FlushCaptureFails \/ Replay \/ ReplayFails \/ ReplayReturns \/ FlushRelease
           \/ OpenReturns \/ WorkerStart \/ FlushStart
  BY <1>2 DEF FlushCapture, FlushCaptureFails, Replay, ReplayFails, ReplayReturns, FlushRelease, OpenReturns,
     WorkerStart, FlushStart
<1>3. CASE TakeTurns \/ NothingToTake \/ (\E n \in 1 .. QueueLimit : Generate(n)) \/ GenerateFails
  BY <1>3 DEF TakeTurns, NothingToTake, Generate, GenerateFails
<1> QED
  BY <1>1, <1>2, <1>3

\* The steps that file something, and what the others do to the slot.
LEMMA QuietSteps ==
    ASSUME CurationInv, [Next]_vars
    PROVE  \/ UNCHANGED Filed /\ (run' = run \/ run'.pc \notin Guarded) /\ (~up' => ~up)
           \/ Begin \/ BeginFails \/ ApplyOp \/ RejectOp \/ Epilogue \/ EpilogueFails \/ Finish \/ FinishFails
           \/ ArchiveReceipt \/ MarkCurated \/ RemoveReceipt \/ FinalizeFails
           \/ Crash \/ Close \/ OpenFails \/ Recover \/ OperatorAcknowledge
  BY NothingFiled, QuietRun, QuietUp DEF Next, CycleStep

\* Every effect that a receipt counts is in the journal, and on disk once the
\* receipt says so.
LEMMA EffectsCountedStep == CurationInv /\ [Next]_vars => EffectsCounted'
<1> SUFFICES ASSUME CurationInv, [Next]_vars PROVE EffectsCounted'
  OBVIOUS
<1>0. /\ EffectsCounted /\ DiskTypeOK /\ AppliedOK /\ run \in RunType /\ RunStages
      /\ Guarded = {"ops", "finish", "archive", "mark", "remove"}
  BY DEF CurationInv, MemoryTypeOK, Guarded, Finalizing
<1>1. /\ journal \in Seq(Receipt) /\ synced \in Nat /\ Len(journal) \in Nat /\ synced <= Len(journal)
      /\ synced \in 0 .. Len(journal) /\ archive \in Seq(Receipt) /\ None \notin Receipt
      /\ \A r \in Elements(archive) \cup ({pending} \ {None}) : r \in Receipt /\ r.applied \in Nat
  <2>1. \A r \in Elements(archive) \cup ({pending} \ {None}) : r \in Receipt
    BY InHand DEF Elements
  <2>2. \A r \in Receipt : r.applied \in Nat
    BY DEF Receipt
  <2> QED
    BY <1>0, <2>1, <2>2, InHand DEF DiskTypeOK
<1> DEFINE Counts(r) == r.applied <= Count(journal, synced, r.id)
           Terminal == Elements(archive) \cup ({pending} \ {None})
<1>2. \A r \in Terminal : Counts(r)
  BY <1>0 DEF EffectsCounted
<1>3. ASSUME synced <= synced', synced' \in Nat, \A j \in 1 .. synced : journal'[j] = journal[j],
             NEW r, r.applied \in Nat, Counts(r)
      PROVE  r.applied <= Count(journal', synced', r.id)
  <2>1. /\ Count(journal, synced, r.id) \in Nat /\ Count(journal', synced', r.id) \in Nat
        /\ Count(journal, synced, r.id) <= Count(journal', synced', r.id)
    BY <1>1, <1>3, CountGrows
  <2> QED
    BY <1>3, <2>1
<1>4. ASSUME synced <= synced', synced' \in Nat, \A j \in 1 .. synced : journal'[j] = journal[j],
             \A r \in Elements(archive') \cup ({pending'} \ {None}) :
                 r \in Terminal \/ (r.applied \in Nat /\ Counts(r)),
             run'.pc \notin {"ops", "finish"}
      PROVE  EffectsCounted'
  <2>1. \A r \in Elements(archive') \cup ({pending'} \ {None}) : r.applied <= Count(journal', synced', r.id)
    BY <1>1, <1>2, <1>3, <1>4
  <2>2. Elements(archive') = Elements(archive)'
    BY DEF Elements
  <2>3. \A r : Count(journal', synced', r.id) = (Count(journal, synced, r.id))'
    BY DEF Count, Frames
  <2> QED
    BY <1>4, <2>1, <2>2, <2>3 DEF EffectsCounted
<1>5. ASSUME UNCHANGED <<archive, journal, synced, pending>>, run'.pc \notin {"ops", "finish"}
      PROVE  EffectsCounted'
  BY <1>1, <1>4, <1>5
<1>6. CASE UNCHANGED Filed /\ (run' = run \/ run'.pc \notin Guarded)
  <2>1. CASE run' = run
    BY <1>0, <1>6, <2>1 DEF Filed, EffectsCounted, Count, Frames, Elements
  <2>2. CASE run'.pc \notin Guarded
    BY <1>0, <1>5, <1>6, <2>2 DEF Filed
  <2> QED
    BY <1>6, <2>1, <2>2
<1>7. ASSUME EndRun(FALSE) \/ EndRun(TRUE), run.pc # "idle" PROVE run'.pc \notin {"ops", "finish"}
  BY <1>0, <1>7, EndRunQuiet
<1>8. CASE Begin
  <2>1. run.pc = "begin" /\ run' = [run EXCEPT !.pc = "ops"] /\ pending' = Prepared /\ receipt' = Prepared
        /\ synced' = Len(journal) /\ UNCHANGED <<archive, journal>>
    BY <1>8 DEF Begin, Goto
  <2>2. run'.pc = "ops" /\ run'.applied = 0
    BY <1>0, <2>1 DEF RunType, AppliedOK, Early
  <2>3. Prepared.applied = 0 /\ Prepared # None
    BY <1>0, <1>1, ReceiptsTyped DEF Prepared, CurationInv
  <2>4. \A id : Count(journal', synced', id) \in Nat /\ Count(journal', Len(journal'), id) \in Nat
    BY <1>1, <2>1, CountGrows
  <2>5. \A r \in Elements(archive') \cup ({pending'} \ {None}) : r.applied <= Count(journal', synced', r.id)
    <3>1. \A r \in Elements(archive') : r.applied <= Count(journal', synced', r.id)
      <4>1. Elements(archive') = Elements(archive)
        BY <2>1
      <4> QED
        BY <1>1, <1>2, <1>3, <2>1, <4>1
    <3> QED
      BY <2>1, <2>3, <2>4, <3>1
  <2>6. run'.applied <= Count(journal', Len(journal'), receipt'.id)
    BY <2>2, <2>4
  <2>7. /\ Elements(archive') = Elements(archive)'
        /\ \A r : Count(journal', synced', r.id) = (Count(journal, synced, r.id))'
        /\ Count(journal', Len(journal'), receipt'.id) = Count(journal, Len(journal), receipt.id)'
    BY DEF Elements, Count, Frames
  <2> QED
    BY <2>2, <2>5, <2>6, <2>7 DEF EffectsCounted
<1>9. CASE BeginFails
  <2>1. run.pc = "begin" /\ pending' \in {pending, Prepared} /\ UNCHANGED <<archive, journal, synced>> /\ EndRun(FALSE)
    BY <1>9 DEF BeginFails, FailRun
  <2>2. Prepared.applied = 0
    BY DEF Prepared
  <2>3. Count(journal, synced, Prepared.id) \in Nat
    BY <1>1, CountGrows
  <2>4. Prepared.applied \in Nat /\ Counts(Prepared)
    BY <2>2, <2>3
  <2>5. \A r \in Elements(archive') \cup ({pending'} \ {None}) : r \in Terminal \/ r = Prepared
    BY <2>1
  <2> QED
    BY <1>1, <1>4, <1>7, <2>1, <2>4, <2>5
<1>10. CASE ApplyOp \/ RejectOp
  <2>1. run.pc = "ops" /\ UNCHANGED <<archive, pending, receipt, synced>>
        /\ (\/ journal' = Append(journal, receipt) /\ run' = [run EXCEPT !.applied = @ + 1]
            \/ journal' \in {journal, Append(journal, receipt)} /\ run' = [run EXCEPT !.rejected = @ + 1])
    BY <1>10 DEF ApplyOp, RejectOp, OpsLeft, guard
  <2>2. receipt \in Receipt
    BY <1>0, <2>1, InHand
  <2>3. run'.pc = "ops" /\ run.applied \in Nat /\ run.applied <= Count(journal, Len(journal), receipt.id)
        /\ (\/ journal' = Append(journal, receipt) /\ run'.applied = run.applied + 1
            \/ journal' \in {journal, Append(journal, receipt)} /\ run'.applied = run.applied)
    BY <1>0, <2>1 DEF RunType, EffectsCounted
  <2>4. /\ Count(journal, Len(journal), receipt.id) \in Nat
        /\ Count(Append(journal, receipt), Len(journal) + 1, receipt.id) = Count(journal, Len(journal), receipt.id) + 1
    BY <1>1, <2>2, CountAppend
  <2>5. Len(Append(journal, receipt)) = Len(journal) + 1 /\ \A j \in 1 .. synced : Append(journal, receipt)[j] = journal[j]
    BY <1>1, <2>2
  <2>6. run'.applied <= Count(journal', Len(journal'), receipt'.id)
    <3>1. CASE journal' = journal
      <4>1. run'.applied = run.applied
        <5>1. Append(journal, receipt) # journal
          BY <1>1, <2>5
        <5> QED
          BY <2>3, <3>1, <5>1
      <4> QED
        BY <2>1, <2>3, <3>1, <4>1
    <3>2. CASE journal' = Append(journal, receipt)
      <4>1. Count(journal', Len(journal'), receipt'.id) = Count(journal, Len(journal), receipt.id) + 1
        BY <2>1, <2>4, <2>5, <3>2
      <4>2. run'.applied = run.applied \/ run'.applied = run.applied + 1
        BY <2>3
      <4> QED
        BY <2>3, <2>4, <4>1, <4>2
    <3> QED
      BY <2>3, <3>1, <3>2
  <2>7. \A r \in Elements(archive') \cup ({pending'} \ {None}) : r.applied <= Count(journal', synced', r.id)
    <3>1. \A j \in 1 .. synced : journal'[j] = journal[j]
      BY <2>3, <2>5
    <3>2. Elements(archive') \cup ({pending'} \ {None}) = Terminal
      BY <2>1
    <3> QED
      BY <1>1, <1>2, <1>3, <2>1, <3>1, <3>2
  <2>8. /\ Elements(archive') = Elements(archive)'
        /\ \A r : Count(journal', synced', r.id) = (Count(journal, synced, r.id))'
        /\ Count(journal', Len(journal'), receipt'.id) = Count(journal, Len(journal), receipt.id)'
    BY DEF Elements, Count, Frames
  <2> QED
    BY <2>3, <2>6, <2>7, <2>8 DEF EffectsCounted
<1>11. CASE Epilogue
  <2>1. run.pc = "ops" /\ run' = [run EXCEPT !.pc = "finish"] /\ synced' = Len(journal)
        /\ UNCHANGED <<archive, pending, receipt, journal>>
    BY <1>11 DEF Epilogue, Goto, guard
  <2>2. run'.pc = "finish" /\ run'.applied = run.applied
    BY <1>0, <2>1 DEF RunType
  <2>3. run'.applied <= Count(journal', synced', receipt'.id)
    BY <1>0, <2>1, <2>2 DEF EffectsCounted
  <2>4. \A r \in Elements(archive') \cup ({pending'} \ {None}) : r.applied <= Count(journal', synced', r.id)
    BY <1>1, <1>2, <1>3, <2>1
  <2>5. /\ Elements(archive') = Elements(archive)'
        /\ \A r : Count(journal', synced', r.id) = (Count(journal, synced, r.id))'
        /\ Count(journal', synced', receipt'.id) = Count(journal, synced, receipt.id)'
    BY DEF Elements, Count, Frames
  <2> QED
    BY <2>2, <2>3, <2>4, <2>5 DEF EffectsCounted
<1>12. CASE EpilogueFails
  <2>1. run.pc = "ops" /\ synced' \in {synced, Len(journal)} /\ UNCHANGED <<archive, pending, journal>> /\ EndRun(FALSE)
    BY <1>12 DEF EpilogueFails, FailRun
  <2> QED
    BY <1>1, <1>4, <1>7, <2>1
<1>13. CASE Finish \/ FinishFails
  <2>1. /\ run.pc = "finish" /\ UNCHANGED <<archive, journal, synced>> /\ pending' \in {pending, Processed}
        /\ run' = [run EXCEPT !.pc = "archive"] \/ EndRun(FALSE)
    BY <1>13 DEF Finish, FinishFails, Goto, FailRun
  <2>2. receipt \in Receipt
    BY <1>0, <2>1, InHand
  <2>3. Processed.applied = run.applied /\ Processed.id = receipt.id /\ run.applied \in Nat
    BY <1>0, <2>2 DEF Processed, Receipt, RunType
  <2>4. Counts(Processed)
    BY <1>0, <2>1, <2>3 DEF EffectsCounted
  <2>5. run' = [run EXCEPT !.pc = "archive"] => run'.pc = "archive"
    BY <1>0 DEF RunType
  <2>6. run'.pc \notin {"ops", "finish"}
    BY <1>7, <2>1, <2>5
  <2>7. \A r \in Elements(archive') \cup ({pending'} \ {None}) : r \in Terminal \/ r = Processed
    BY <2>1
  <2> QED
    BY <1>1, <1>4, <2>1, <2>3, <2>4, <2>6, <2>7
<1>14. CASE ArchiveReceipt \/ MarkCurated \/ RemoveReceipt \/ FinalizeFails
  <2>1. /\ run.pc \in {"archive", "mark", "remove"} /\ UNCHANGED <<journal, synced>>
        /\ archive' \in {archive, Archived} /\ pending' \in {pending, None}
        /\ \/ \E p \in {"mark", "remove", "failed"} : run' = [run EXCEPT !.pc = p]
           \/ EndRun(FALSE) \/ EndRun(TRUE)
    BY <1>14 DEF ArchiveReceipt, MarkCurated, RemoveReceipt, FinalizeFails, Goto, FailRun
  <2>2. receipt \in Receipt /\ receipt \in Terminal /\ pending = receipt
    BY <1>0, <1>1, <2>1, InHand
  <2>3. Elements(archive') \subseteq Elements(archive) \cup {receipt}
    <3>1. Archived = archive \/ Archived = Append(archive, receipt)
      BY DEF Archived
    <3>2. Elements(Append(archive, receipt)) = Elements(archive) \cup {receipt}
      BY <1>1, <2>2, ElementsAppend
    <3> QED
      BY <2>1, <3>1, <3>2
  <2>4. \A r \in Elements(archive') \cup ({pending'} \ {None}) : r \in Terminal
    BY <2>1, <2>2, <2>3
  <2>5. \A p \in {"mark", "remove", "failed"} : run' = [run EXCEPT !.pc = p] => run'.pc = p
    BY <1>0 DEF RunType
  <2>6. run'.pc \notin {"ops", "finish"}
    BY <1>7, <2>1, <2>5
  <2> QED
    BY <1>1, <1>4, <2>1, <2>4, <2>6
<1>15. CASE Crash \/ Close
  <2>1. UNCHANGED <<archive, pending>> /\ run' = IdleRun
        /\ (LoseUnsynced \/ (journal' = journal /\ synced' = Len(journal)))
    BY <1>15 DEF Crash, Close, EmptyMemory
  <2>2. synced <= synced' /\ synced' \in Nat /\ \A j \in 1 .. synced : journal'[j] = journal[j]
    <3>1. CASE LoseUnsynced
      <4>1. /\ synced' = Len(journal') /\ synced <= synced' /\ journal' \in Seq(Receipt)
            /\ \A j \in 1 .. Len(journal') : journal'[j] = journal[j]
        BY <1>0, <3>1, LoseTyped
      <4>2. Len(journal') \in Nat
        BY <4>1
      <4> QED
        BY <1>1, <4>1, <4>2
    <3> QED
      BY <1>1, <2>1, <3>1
  <2>3. run'.pc \notin {"ops", "finish"}
    BY <2>1 DEF IdleRun
  <2> QED
    BY <1>4, <2>1, <2>2, <2>3
<1>16. CASE OpenFails \/ Recover
  <2>1. run'.pc \notin {"ops", "finish"}
    <3>1. ASSUME OpenFails PROVE run'.pc = "idle"
      BY <3>1 DEF OpenFails, EmptyMemory, IdleRun
    <3>2. ASSUME Recover PROVE run'.pc \in {"replay", "archive"}
      BY <3>2 DEF Recover, IdleRun
    <3> QED
      BY <1>16, <3>1, <3>2
  <2> QED
    BY <1>5, <1>16, <2>1 DEF OpenFails, Recover, disk
<1>17. CASE OperatorAcknowledge
  <2>1. UNCHANGED <<archive, journal, synced, run>> /\ pending # None
        /\ pending' = [pending EXCEPT !.outcome = "interrupted"] /\ run.owner = None
    BY <1>17 DEF OperatorAcknowledge
  <2>2. run'.pc = "idle"
    BY <1>0, <2>1 DEF RunStages
  <2>3. pending \in Receipt /\ pending \in Terminal
    BY <1>1, <2>1
  <2>4. pending'.id = pending.id /\ pending'.applied = pending.applied
    BY <2>1, <2>3 DEF Receipt
  <2>5. pending'.applied \in Nat /\ Counts(pending')
    BY <1>1, <1>2, <2>3, <2>4
  <2>6. \A r \in Elements(archive') \cup ({pending'} \ {None}) : r \in Terminal \/ r = pending'
    BY <2>1
  <2> HIDE DEF Counts, Terminal
  <2>7. \A j \in 1 .. synced : journal'[j] = journal[j]
    BY <2>1
  <2>8. run'.pc \notin {"ops", "finish"}
    BY <2>2
  <2>9. synced <= synced' /\ synced' \in Nat
    BY <1>1, <2>1
  <2> QED
    BY <1>4, <2>5, <2>6, <2>7, <2>8, <2>9
<1> QED
  BY <1>6, <1>8, <1>9, <1>10, <1>11, <1>12, <1>13, <1>14, <1>15, <1>16, <1>17, QuietSteps

\* The frames that are not on disk yet are the open claim's, and when the
\* store is closed or a batch completes there are none.
LEMMA SyncedOKStep == CurationInv /\ [Next]_vars => SyncedOK'
<1> SUFFICES ASSUME CurationInv, [Next]_vars PROVE SyncedOK'
  OBVIOUS
<1>0. /\ SyncedOK /\ DiskTypeOK /\ run \in RunType /\ RunStages /\ ReceiptStages /\ Empty
      /\ Guarded = {"ops", "finish", "archive", "mark", "remove"}
      /\ Finalizing = {"archive", "mark", "remove"} /\ Guarded \subseteq Cycle
      /\ Owner = {"worker", "flush", "open"} /\ None \notin Owner
  BY CurationAssumption DEF CurationInv, MemoryTypeOK, Guarded, Finalizing, Owner, Cycle
<1>1. journal \in Seq(Receipt) /\ Len(journal) \in Nat /\ synced \in Nat /\ synced <= Len(journal)
  BY <1>0 DEF DiskTypeOK
<1>2. ASSUME synced' = Len(journal'), Len(journal') \in Nat PROVE SyncedOK'
  <2>1. synced' + 1 .. Len(journal') = {}
    BY <1>2
  <2> QED
    BY <1>2, <2>1 DEF SyncedOK
<1>3. ASSUME UNCHANGED <<journal, synced>>, synced = Len(journal) PROVE SyncedOK'
  BY <1>1, <1>2, <1>3
<1>4. CASE UNCHANGED Filed /\ (run' = run \/ run'.pc \notin Guarded) /\ (~up' => ~up)
  BY <1>0, <1>4 DEF Filed, SyncedOK
<1>5. ASSUME run.pc \in Guarded, run.owner # "open" PROVE up
  BY <1>0, <1>5 DEF RunStages, RunType
<1>6. ASSUME run.pc \in {"ops", "finish"} PROVE run.owner # "open" /\ up
  BY <1>0, <1>5, <1>6 DEF RunStages
<1>7. CASE Begin \/ Epilogue
  BY <1>1, <1>2, <1>7 DEF Begin, Epilogue
<1>8. CASE BeginFails
  <2>1. run.pc = "begin" /\ UNCHANGED <<journal, synced>>
    BY <1>8 DEF BeginFails
  <2>2. pending = None
    BY <2>1, BatchFresh
  <2>3. synced = Len(journal)
    BY <1>0, <1>1, <2>2 DEF SyncedOK
  <2> QED
    BY <1>3, <2>1, <2>3
<1>9. CASE ApplyOp \/ RejectOp
  <2>1. run.pc = "ops" /\ UNCHANGED <<pending, receipt, synced, curated, up>>
        /\ journal' \in {journal, Append(journal, receipt)}
        /\ (run' = [run EXCEPT !.applied = @ + 1] \/ run' = [run EXCEPT !.rejected = @ + 1])
    BY <1>9 DEF ApplyOp, RejectOp, OpsLeft, guard
  <2>2. run'.pc = "ops" /\ up' /\ run.owner # "open"
    BY <1>0, <1>6, <2>1 DEF RunType
  <2>3. pending = receipt /\ receipt # None /\ receipt \in Receipt
    BY <1>0, <2>1, InHand
  <2>4. ~(receipt.sources \subseteq curated)
    <3>1. receipt.sources = Elements(batch) /\ receipt.sources \cap curated = {} /\ batch # <<>>
      BY <1>0, <2>1, <2>2 DEF ReceiptStages, Empty
    <3>2. batch \in Seq(Event)
      BY DEF CurationInv, MemoryTypeOK
    <3>3. 1 \in DOMAIN batch
      BY <3>1, <3>2
    <3> QED
      BY <3>1, <3>3 DEF Elements
  <2>5. \A j \in synced' + 1 .. Len(journal') :
            pending' # None /\ journal'[j].id = pending'.id /\ ~(journal'[j].sources \subseteq curated')
    <3>1. CASE journal' = journal
      BY <1>0, <2>1, <3>1 DEF SyncedOK
    <3>2. CASE journal' = Append(journal, receipt)
      <4>1. Len(journal') = Len(journal) + 1 /\ journal'[Len(journal) + 1] = receipt
            /\ \A j \in 1 .. Len(journal) : journal'[j] = journal[j]
        BY <1>1, <2>3, <3>2
      <4>2. \A j \in synced + 1 .. Len(journal) + 1 : j = Len(journal) + 1 \/ (j \in synced + 1 .. Len(journal) /\ j \in 1 .. Len(journal))
        BY <1>1
      <4> QED
        BY <1>0, <2>1, <2>3, <2>4, <4>1, <4>2 DEF SyncedOK
    <3> QED
      BY <2>1, <3>1, <3>2
  <2> QED
    BY <1>0, <2>2, <2>5 DEF SyncedOK
<1>10. CASE EpilogueFails
  <2>1. run.pc = "ops" /\ synced' \in {synced, Len(journal)} /\ UNCHANGED <<pending, journal, curated, up>> /\ EndRun(FALSE)
    BY <1>10 DEF EpilogueFails, FailRun
  <2>2. run'.pc \notin Guarded /\ up'
    BY <1>6, <2>1, EndRunQuiet
  <2>3. CASE synced' = synced
    BY <1>0, <2>1, <2>2, <2>3 DEF SyncedOK
  <2> QED
    BY <1>1, <1>2, <2>1, <2>3
<1>11. CASE Finish \/ FinishFails \/ ArchiveReceipt \/ MarkCurated \/ RemoveReceipt \/ FinalizeFails
  <2>1. run.pc \in {"finish", "archive", "mark", "remove"} /\ UNCHANGED <<journal, synced>>
    BY <1>11 DEF Finish, FinishFails, ArchiveReceipt, MarkCurated, RemoveReceipt, FinalizeFails
  <2> QED
    BY <1>0, <1>3, <2>1 DEF SyncedOK
<1>12. CASE Crash \/ Close
  <2>1. LoseUnsynced \/ (journal' = journal /\ synced' = Len(journal))
    BY <1>12 DEF Crash, Close
  <2>2. CASE LoseUnsynced
    <3>1. synced' = Len(journal') /\ journal' \in Seq(Receipt)
      BY <1>0, <2>2, LoseTyped
    <3> QED
      BY <1>2, <3>1
  <2> QED
    BY <1>1, <1>2, <2>1, <2>2
<1>13. CASE OpenFails \/ Recover \/ OperatorAcknowledge
  <2>1. ~up
    BY <1>0, <1>13 DEF OpenFails, Recover, OperatorAcknowledge, RunStages, RunType
  <2>2. UNCHANGED <<journal, synced>>
    BY <1>13 DEF OpenFails, Recover, OperatorAcknowledge, disk
  <2> QED
    BY <1>0, <1>3, <2>1, <2>2 DEF SyncedOK
<1> QED
  BY <1>4, <1>7, <1>8, <1>9, <1>10, <1>11, <1>12, <1>13, QuietSteps
-----------------------------------------------------------------------------
(* The line of turns.                                                      *)

\* What becomes of the admission: it is looked at, filled from, or thrown away.
LEMMA AdmissionSteps ==
    ASSUME CurationInv, [Next]_vars
    PROVE  Looks \/ FillEvent \/ (EmptyMemory /\ (Crash \/ Close \/ OpenFails))
<1>1. adm' = adm => Looks
  BY DEF Looks
<1>2. CASE Crash \/ Close \/ OpenFails
  BY <1>2 DEF Crash, Close, OpenFails
<1>3. CASE NoteStep \/ RefillScope \/ FillFails \/ FillScopeDone \/ FlushCapture \/ Replay \/ FlushRelease
  BY <1>3, LooksAt DEF NoteStep
<1>4. CASE AppendStep \/ UNCHANGED vars
  BY <1>1, <1>4 DEF AppendStep, EventAppend, EventAppendFails, vars, admission
<1>5. CASE WorkerStart \/ FlushStart \/ HostPoisons \/ Recover \/ OperatorAcknowledge
  BY <1>1, <1>5 DEF WorkerStart, FlushStart, HostPoisons, Recover, OperatorAcknowledge, admission
<1>6. CASE \/ FlushCaptureFails \/ ReplayFails \/ ReplayReturns \/ TakeTurns \/ NothingToTake
           \/ (\E n \in 1 .. QueueLimit : Generate(n))
           \/ GenerateFails \/ Begin \/ BeginFails \/ ApplyOp \/ RejectOp
           \/ Epilogue \/ EpilogueFails \/ Finish \/ FinishFails
           \/ ArchiveReceipt \/ MarkCurated \/ RemoveReceipt \/ FinalizeFails \/ OpenReturns
  BY <1>1, <1>6 DEF FlushCaptureFails, ReplayFails, ReplayReturns, TakeTurns, NothingToTake, Generate,
     GenerateFails, Begin, BeginFails, ApplyOp, RejectOp, Epilogue, EpilogueFails, Finish, FinishFails,
     ArchiveReceipt, MarkCurated, RemoveReceipt, FinalizeFails, OpenReturns, admission
<1> QED
  BY <1>2, <1>3, <1>4, <1>5, <1>6 DEF Next, RefillStep, CycleStep

\* The elements of two sequences put together.
LEMMA ElementsConcat ==
    \A p, q \in Seq(Event) : Elements(p \o q) = Elements(p) \cup Elements(q)
<1> SUFFICES ASSUME NEW p \in Seq(Event), NEW q \in Seq(Event)
             PROVE  Elements(p \o q) = Elements(p) \cup Elements(q)
  OBVIOUS
<1> DEFINE r == p \o q
<1>1. /\ Len(p) \in Nat /\ Len(q) \in Nat /\ DOMAIN p = 1 .. Len(p) /\ DOMAIN q = 1 .. Len(q)
      /\ DOMAIN r = 1 .. Len(p) + Len(q)
      /\ \A i \in 1 .. Len(p) : r[i] = p[i]
      /\ \A i \in 1 .. Len(q) : r[Len(p) + i] = q[i]
  OBVIOUS
<1> HIDE DEF r
<1>2. \A i \in 1 .. Len(p) + Len(q) : i \in 1 .. Len(p) \/ (i - Len(p) \in 1 .. Len(q) /\ i = Len(p) + (i - Len(p)))
  BY <1>1
<1>3. Elements(r) \subseteq Elements(p) \cup Elements(q)
  <2> SUFFICES ASSUME NEW i \in DOMAIN r PROVE r[i] \in Elements(p) \cup Elements(q)
    BY DEF Elements
  <2>1. CASE i \in 1 .. Len(p)
    BY <1>1, <2>1 DEF Elements
  <2>2. CASE i - Len(p) \in 1 .. Len(q) /\ i = Len(p) + (i - Len(p))
    <3>1. r[i] = q[i - Len(p)]
      BY <1>1, <2>2
    <3> QED
      BY <1>1, <2>2, <3>1 DEF Elements
  <2> QED
    BY <1>1, <1>2, <2>1, <2>2
<1>4. \A i \in 1 .. Len(p) : i \in DOMAIN r
  BY <1>1
<1>5. \A i \in 1 .. Len(q) : Len(p) + i \in DOMAIN r
  BY <1>1
<1>6. Elements(p) \subseteq Elements(r)
  BY <1>1, <1>4 DEF Elements
<1>7. Elements(q) \subseteq Elements(r)
  BY <1>1, <1>5 DEF Elements
<1> QED
  BY <1>3, <1>6, <1>7 DEF r

\* The line is the batch and then the queue.
LEMMA OwnedTyped ==
    ASSUME queue \in Seq(Event), batch \in Seq(Event)
    PROVE  /\ Owned \in Seq(Event) /\ Len(Owned) = Len(batch) + Len(queue) /\ DOMAIN Owned = 1 .. Len(Owned)
           /\ Len(batch) \in Nat /\ Len(queue) \in Nat
           /\ \A i \in 1 .. Len(batch) : Owned[i] = batch[i]
           /\ \A i \in 1 .. Len(queue) : Owned[Len(batch) + i] = queue[i]
           /\ Elements(Owned) = Elements(batch) \cup Elements(queue)
           /\ Elements(queue \o batch) = Elements(Owned)
<1>2. Elements(Owned) = Elements(batch) \cup Elements(queue) /\ Elements(queue \o batch) = Elements(batch) \cup Elements(queue)
  BY ElementsConcat DEF Owned
<1>3. /\ Owned \in Seq(Event) /\ Len(Owned) = Len(batch) + Len(queue) /\ DOMAIN Owned = 1 .. Len(Owned)
      /\ Len(batch) \in Nat /\ Len(queue) \in Nat
      /\ \A i \in 1 .. Len(batch) : Owned[i] = batch[i]
      /\ \A i \in 1 .. Len(queue) : Owned[Len(batch) + i] = queue[i]
  BY DEF Owned
<1> QED
  BY <1>2, <1>3

\* Taking turns, putting them back and cutting a batch leave the line alone:
\* a turn enters it when it is filled, and leaves it with its receipt or with
\* the memory of the context.
LEMMA OwnedSteps ==
    ASSUME CurationInv, [Next]_vars
    PROVE  \/ Owned' = Owned
           \/ FillEvent /\ ~Skippable /\ Owned' = Append(Owned, NextEvent)
           \/ RemoveReceipt /\ Owned' = queue
           \/ EmptyMemory /\ Owned' = <<>>
<1>0. queue \in Seq(Event) /\ batch \in Seq(Event) /\ <<>> \in Seq(Event) /\ Empty
  BY DEF CurationInv, MemoryTypeOK
<1>1. UNCHANGED work => Owned' = Owned
  BY DEF work, Owned
<1>2. \A q \in Seq(Event) : <<>> \o q = q
  BY ConcatEmptySeq
<1>3. CASE FillEvent
  <2>1. CASE Skippable
    BY <1>3, <2>1 DEF FillEvent, Owned
  <2>2. CASE ~Skippable
    <3>1. queue' = Append(queue, NextEvent) /\ batch' = batch /\ NextEvent \in Event
      BY <1>3, <2>2, FillSound DEF FillEvent
    <3>2. batch \o Append(queue, NextEvent) = Append(batch \o queue, NextEvent)
      <4>1. <<NextEvent>> \in Seq(Event) /\ batch \o queue \in Seq(Event)
        BY <1>0, <3>1
      <4>2. Append(queue, NextEvent) = queue \o <<NextEvent>>
        BY <1>0, <3>1, AppendIsConcat
      <4>3. Append(batch \o queue, NextEvent) = (batch \o queue) \o <<NextEvent>>
        BY <3>1, <4>1, AppendIsConcat
      <4>4. (batch \o queue) \o <<NextEvent>> = batch \o (queue \o <<NextEvent>>)
        BY <1>0, <4>1, ConcatAssociative
      <4> QED
        BY <4>2, <4>3, <4>4
    <3> QED
      BY <1>3, <2>2, <3>1, <3>2 DEF Owned
  <2> QED
    BY <2>1, <2>2
<1>4. CASE TakeTurns
  <2>1. PICK n \in Nat : batch' = SubSeq(queue, 1, n) /\ queue' = SubSeq(queue, n + 1, Len(queue)) /\ n <= Len(queue)
    BY <1>0, <1>4, CurationAssumption DEF TakeTurns
  <2>2. batch = <<>>
    <3>1. run.pc = "take" /\ "take" \notin Cycle
      BY <1>4 DEF TakeTurns, Cycle, Guarded, Finalizing
    <3> QED
      BY <1>0, <3>1 DEF Empty
  <2>3. SubSeq(queue, 1, n) \o SubSeq(queue, n + 1, Len(queue)) = SubSeq(queue, 1, Len(queue))
    <3>1. Len(queue) \in Nat
      BY <1>0
    <3>2. 1 \in 1 .. Len(queue) + 1 /\ n \in 1 - 1 .. Len(queue) /\ Len(queue) \in n .. Len(queue)
      BY <2>1, <3>1
    <3> QED
      BY <1>0, <3>2, ConcatAdjacentSubSeq
  <2>4. SubSeq(queue, 1, Len(queue)) = queue
    BY <1>0, SubSeqFull
  <2> QED
    BY <1>0, <1>2, <2>1, <2>2, <2>3, <2>4 DEF Owned
<1>5. ASSUME NEW n \in 1 .. QueueLimit, Generate(n) PROVE Owned' = Owned
  <2>1. n \in 1 .. Len(batch) /\ batch' = SubSeq(batch, 1, n) /\ queue' = SubSeq(batch, n + 1, Len(batch)) \o queue
    BY <1>5 DEF Generate
  <2>2. SubSeq(batch, 1, n) \o SubSeq(batch, n + 1, Len(batch)) = SubSeq(batch, 1, Len(batch))
    <3>1. Len(batch) \in Nat
      BY <1>0
    <3>2. 1 \in 1 .. Len(batch) + 1 /\ n \in 1 - 1 .. Len(batch) /\ Len(batch) \in n .. Len(batch)
      BY <2>1, <3>1
    <3> QED
      BY <1>0, <3>2, ConcatAdjacentSubSeq
  <2>3. SubSeq(batch, 1, Len(batch)) = batch
    BY <1>0, SubSeqFull
  <2>4. SubSeq(batch, 1, n) \in Seq(Event) /\ SubSeq(batch, n + 1, Len(batch)) \in Seq(Event)
    BY <1>0, <2>1
  <2> DEFINE b == SubSeq(batch, 1, n)
             q == SubSeq(batch, n + 1, Len(batch))
  <2>5. b \in Seq(Event) /\ q \in Seq(Event) /\ b \o q = batch /\ batch' = b /\ queue' = q \o queue
    BY <2>1, <2>2, <2>3, <2>4
  <2> HIDE DEF b, q
  <2>6. (b \o q) \o queue = b \o (q \o queue)
    <3>1. b \in Seq(Event) /\ q \in Seq(Event) /\ queue \in Seq(Event)
      BY <1>0, <2>5
    <3>2. \A s, t, v \in Seq(Event) : (s \o t) \o v = s \o (t \o v)
      BY ConcatAssociative
    <3> QED
      BY <3>1, <3>2
  <2> QED
    BY <2>5, <2>6 DEF Owned
<1>6. CASE GenerateFails \/ BeginFails \/ EpilogueFails \/ FinishFails \/ FinalizeFails
  <2>1. UNCHANGED work \/ (queue' = batch \o queue /\ batch' = <<>>)
    BY <1>6 DEF GenerateFails, BeginFails, EpilogueFails, FinishFails, FinalizeFails, FailRun
  <2>2. batch \o queue \in Seq(Event)
    BY <1>0
  <2> QED
    BY <1>1, <1>2, <2>1, <2>2 DEF Owned
<1>7. CASE RemoveReceipt
  <2>1. batch' = <<>> /\ queue' = queue
    BY <1>7 DEF RemoveReceipt
  <2> QED
    BY <1>0, <1>2, <1>7, <2>1 DEF Owned
<1>8. CASE Crash \/ Close \/ OpenFails
  <2>1. EmptyMemory
    BY <1>8 DEF Crash, Close, OpenFails
  <2>2. batch' = <<>> /\ queue' = <<>>
    BY <2>1 DEF EmptyMemory
  <2> QED
    BY <1>0, <1>2, <2>1, <2>2 DEF Owned
<1>9. CASE AppendStep \/ NoteStep
  BY <1>1, <1>9 DEF AppendStep, NoteStep, EventAppend, EventAppendFails, NoteScope, NoteFails, NoteReturns
<1>10. CASE RefillScope \/ FillFails \/ FillScopeDone
  BY <1>1, <1>10 DEF RefillScope, FillFails, FillScopeDone
<1>11. CASE FlushCapture \/ FlushCaptureFails \/ Replay \/ ReplayFails \/ ReplayReturns \/ NothingToTake
            \/ Begin \/ ApplyOp \/ RejectOp \/ Epilogue \/ Finish \/ ArchiveReceipt \/ MarkCurated
            \/ FlushRelease \/ OpenReturns
  BY <1>1, <1>11 DEF FlushCapture, FlushCaptureFails, Replay, ReplayFails, ReplayReturns, NothingToTake,
     Begin, ApplyOp, RejectOp, Epilogue, Finish, ArchiveReceipt, MarkCurated, FlushRelease, OpenReturns
<1>12. CASE WorkerStart \/ FlushStart \/ HostPoisons \/ Recover \/ OperatorAcknowledge \/ UNCHANGED vars
  BY <1>1, <1>12 DEF WorkerStart, FlushStart, HostPoisons, Recover, OperatorAcknowledge, vars
<1> QED
  BY <1>3, <1>4, <1>5, <1>6, <1>7, <1>8, <1>9, <1>10, <1>11, <1>12 DEF Next, RefillStep, CycleStep

\* The exact logs only grow.
LEMMA LogGrows ==
    ASSUME CurationInv, [Next]_vars
    PROVE  \A s \in Scope : /\ Len(log[s]) \in Nat /\ Len(log'[s]) \in Nat /\ Len(log[s]) <= Len(log'[s])
                            /\ \A i \in 1 .. Len(log[s]) : log'[s][i] = log[s][i]
<1>0. DiskTypeOK /\ \A s \in Scope : Len(log[s]) \in Nat
  BY DEF CurationInv, DiskTypeOK
<1>1. CASE log' = log
  BY <1>0, <1>1
<1>2. ASSUME NEW a \in Appender, NEW s \in Scope, NEW k \in Kind,
             EventAppend(a, s, k) \/ EventAppendFails(a, s, k), log' # log
      PROVE  \A t \in Scope : /\ Len(log[t]) \in Nat /\ Len(log'[t]) \in Nat /\ Len(log[t]) <= Len(log'[t])
                              /\ \A i \in 1 .. Len(log[t]) : log'[t][i] = log[t][i]
  <2>1. Len(log[s]) < MaxLog /\ log' = [log EXCEPT ![s] = Append(@, k)]
    BY <1>2 DEF EventAppend, EventAppendFails
  <2>2. log'[s] = Append(log[s], k) /\ \A t \in Scope : t # s => log'[t] = log[t]
    BY <1>0, <2>1, LogTyped
  <2>3. Len(log'[s]) = Len(log[s]) + 1 /\ \A i \in 1 .. Len(log[s]) : log'[s][i] = log[s][i]
    <3>1. log[s] \in Seq(Kind)
      BY <1>0 DEF DiskTypeOK
    <3> QED
      BY <2>2, <3>1
  <2> QED
    BY <1>0, <2>2, <2>3
<1>3. CASE AppendStep
  BY <1>1, <1>2, <1>3 DEF AppendStep
<1>4. CASE NoteStep \/ RefillStep
  BY <1>1, <1>4 DEF NoteStep, RefillStep, NoteScope, NoteFails, NoteReturns,
      RefillScope, FillEvent, FillFails, FillScopeDone, disk
<1>5. CASE \/ FlushCapture \/ FlushCaptureFails \/ Replay \/ ReplayFails \/ ReplayReturns
           \/ TakeTurns \/ NothingToTake \/ (\E n \in 1 .. QueueLimit : Generate(n))
           \/ GenerateFails \/ FlushRelease \/ OpenReturns \/ OpenFails
  BY <1>1, <1>5 DEF FlushCapture, FlushCaptureFails, Replay,
      ReplayFails, ReplayReturns, TakeTurns, NothingToTake, Generate, GenerateFails, FlushRelease,
      OpenReturns, OpenFails, disk
<1>6. CASE \/ Begin \/ BeginFails \/ ApplyOp \/ RejectOp \/ Epilogue \/ EpilogueFails \/ Finish \/ FinishFails
           \/ ArchiveReceipt \/ MarkCurated \/ RemoveReceipt \/ FinalizeFails
  BY <1>1, <1>6 DEF Begin, BeginFails, ApplyOp, RejectOp, Epilogue, EpilogueFails, Finish, FinishFails,
      ArchiveReceipt, MarkCurated, RemoveReceipt, FinalizeFails
<1>7. CASE WorkerStart \/ FlushStart \/ HostPoisons \/ Crash \/ Close \/ Recover \/ OperatorAcknowledge \/ UNCHANGED vars
  BY <1>1, <1>7 DEF WorkerStart, FlushStart, HostPoisons, Crash, Close, Recover, OperatorAcknowledge, vars, disk
<1> QED
  BY <1>3, <1>4, <1>5, <1>6, <1>7 DEF Next, CycleStep

\* A turn that is recorded stays one, and a new one is at the end of its log.
LEMMA TurnsGrow ==
    ASSUME CurationInv, [Next]_vars
    PROVE  /\ Turns \subseteq Turns' /\ Curable \subseteq Curable'
           /\ \A e \in Turns' : e[2] <= Len(log[e[1]]) => e \in Turns
           /\ \A e \in Event : e[1] \in Scope /\ e[2] \in Nat /\ e[2] >= 1 /\ Len(log[e[1]]) \in Nat
<1>1. \A e \in Event : e[1] \in Scope /\ e[2] \in 1 .. MaxLog /\ e[2] \in Nat /\ e[2] >= 1
  BY CurationAssumption DEF Event
<1>2. \A e \in Event : /\ Len(log[e[1]]) \in Nat /\ Len(log'[e[1]]) \in Nat /\ Len(log[e[1]]) <= Len(log'[e[1]])
                       /\ e[2] <= Len(log[e[1]]) => log'[e[1]][e[2]] = log[e[1]][e[2]]
  BY <1>1, LogGrows
<1>3. Turns \subseteq Turns'
  BY <1>1, <1>2 DEF Turns
<1>4. \A e \in Turns' : e[2] <= Len(log[e[1]]) => e \in Turns
  BY <1>1, <1>2 DEF Turns
<1> QED
  BY <1>1, <1>2, <1>3, <1>4 DEF Curable

\* Cursors only move forward while the admission lives, and what it knows to
\* be acknowledged is loaded once.
LEMMA CursorGrows ==
    ASSUME CurationInv, [Next]_vars, adm # None, adm' # None
    PROVE  /\ adm'.cache = adm.cache
           /\ \A s \in Scope : adm.cursor[s] \in Nat /\ adm'.cursor[s] \in Nat /\ adm.cursor[s] <= adm'.cursor[s]
           /\ ~FillEvent => adm'.cursor = adm.cursor
<1>0. Sound(adm) /\ adm \in Admission /\ Opened = adm
  BY DEF CurationInv, AdmissionOK, Sound, Opened
<1>1. \A s \in Scope : adm.cursor[s] \in Nat
  BY <1>0 DEF Admission
<1>2. ~EmptyMemory
  BY DEF EmptyMemory
<1>3. CASE Looks
  <2>1. adm'.cache = adm.cache /\ adm'.cursor = adm.cursor
    BY <1>0, <1>3 DEF Looks
  <2> QED
    BY <1>1, <2>1
<1>4. CASE FillEvent
  <2>1. CanFill /\ adm' = [adm EXCEPT !.cursor[Current] = @ + 1]
    BY <1>4 DEF FillEvent
  <2>2. adm'.cache = adm.cache /\ adm'.cursor = [adm.cursor EXCEPT ![Current] = @ + 1]
    BY <2>1, FillSound
  <2>3. adm.cursor \in [Scope -> Nat]
    BY <1>0 DEF Admission
  <2> QED
    BY <1>1, <1>4, <2>2, <2>3
<1> QED
  BY <1>2, <1>3, <1>4, AdmissionSteps

\* Where the cursor of a filled turn was and is.
LEMMA Filled ==
    ASSUME CurationInv, FillEvent
    PROVE  /\ NextEvent \in Event /\ NextEvent[1] = Current /\ NextEvent[2] = adm.cursor[Current] + 1
           /\ adm # None /\ adm' # None /\ adm'.cursor[Current] = adm.cursor[Current] + 1
           /\ adm.cursor[Current] \in Nat
           /\ \A s \in Scope : s # Current => adm'.cursor[s] = adm.cursor[s]
           /\ ~Skippable => NextEvent \in Curable /\ NextEvent \notin adm.cache
           /\ Skippable /\ NextEvent \in Curable => NextEvent \in adm.cache
<1>1. CanFill /\ adm' = [adm EXCEPT !.cursor[Current] = @ + 1] /\ (Skippable \/ NextKind = "turn")
  BY DEF FillEvent
<1>2. /\ CurrentOK /\ Sound(adm') /\ adm'.cursor = [adm.cursor EXCEPT ![Current] = @ + 1]
      /\ NextEvent \in Event /\ NextEvent[2] <= Len(log[Current])
  BY <1>1, FillSound
<1>3. adm # None /\ adm \in Admission /\ Current \in Scope /\ adm' # None
  BY <1>2, NotNone DEF CurrentOK, Sound
<1>4. adm.cursor \in [Scope -> Nat]
  BY <1>3 DEF Admission
<1>5. NextEvent[1] = Current /\ NextEvent[2] = adm.cursor[Current] + 1
  BY DEF NextEvent
<1>6. NextKind = log[NextEvent[1]][NextEvent[2]]
  BY <1>5 DEF NextKind
<1>7. NextKind = "turn" => NextEvent \in Turns
  BY <1>2, <1>5, <1>6 DEF Turns
<1>8. NextEvent \in Turns => NextKind = "turn"
  BY <1>6 DEF Turns
<1> QED
  BY <1>1, <1>2, <1>3, <1>4, <1>5, <1>7, <1>8 DEF Skippable, Curable

\* The line stays in order and behind its cursors.
LEMMA LineOKStep == CurationInv /\ [Next]_vars => LineOK'
<1> SUFFICES ASSUME CurationInv, [Next]_vars PROVE LineOK'
  OBVIOUS
<1>0. LineOK /\ queue \in Seq(Event) /\ batch \in Seq(Event)
  BY DEF CurationInv, MemoryTypeOK
<1> DEFINE O == Owned
           Good(q) == /\ \A i \in DOMAIN q : /\ q[i] \in Curable' /\ adm' # None
                                             /\ q[i][2] <= adm'.cursor[q[i][1]]
                      /\ \A i, j \in DOMAIN q : i < j /\ q[i][1] = q[j][1] => q[i][2] < q[j][2]
<1>1. ASSUME Good(Owned') PROVE LineOK'
  BY <1>1 DEF LineOK, Elements
<1>2. /\ O \in Seq(Event) /\ Len(O) \in Nat /\ DOMAIN O = 1 .. Len(O) /\ Len(O) = Len(batch) + Len(queue)
      /\ Len(batch) \in Nat /\ Len(queue) \in Nat /\ DOMAIN queue = 1 .. Len(queue)
      /\ \A i \in 1 .. Len(queue) : O[Len(batch) + i] = queue[i]
  BY <1>0, OwnedTyped
<1>3. /\ \A i \in DOMAIN O : O[i] \in Event /\ O[i] \in Curable /\ adm # None /\ O[i][2] <= adm.cursor[O[i][1]]
      /\ \A i, j \in DOMAIN O : i < j /\ O[i][1] = O[j][1] => O[i][2] < O[j][2]
  BY <1>0, <1>2 DEF LineOK, Elements, Curable, Turns
<1>4. Curable \subseteq Curable' /\ \A e \in Event : e[1] \in Scope /\ e[2] \in Nat
  BY TurnsGrow
<1>5. ASSUME adm' # None PROVE \A i \in DOMAIN O : O[i] \in Curable' /\ adm' # None /\ O[i][2] <= adm'.cursor[O[i][1]]
  <2> SUFFICES ASSUME NEW i \in DOMAIN O
               PROVE  O[i] \in Curable' /\ adm' # None /\ O[i][2] <= adm'.cursor[O[i][1]]
    OBVIOUS
  <2> DEFINE s == O[i][1]
  <2>1. adm # None /\ O[i] \in Curable /\ s \in Scope /\ O[i][2] \in Nat /\ O[i][2] <= adm.cursor[s]
    BY <1>3, <1>4
  <2>2. adm.cursor[s] \in Nat /\ adm'.cursor[s] \in Nat /\ adm.cursor[s] <= adm'.cursor[s]
    BY <1>5, <2>1, CursorGrows
  <2> QED
    BY <1>4, <1>5, <2>1, <2>2
<1> HIDE DEF O
<1>6. CASE EmptyMemory /\ Owned' = <<>>
  BY <1>1, <1>6
<1>7. ASSUME ~EmptyMemory, adm # None PROVE adm' # None
  <2>1. CASE Looks
    BY <1>7, <2>1 DEF Looks
  <2>2. CASE FillEvent
    BY <2>2, Filled
  <2> QED
    BY <1>7, <2>1, <2>2, AdmissionSteps
<1>8. CASE Owned' = Owned
  <2>1. CASE O = <<>>
    BY <1>1, <1>8, <2>1 DEF O
  <2>2. CASE EmptyMemory
    <3>1. Owned' = <<>>
      <4>1. batch' = <<>> /\ queue' = <<>>
        BY <2>2 DEF EmptyMemory
      <4>2. <<>> \o <<>> = <<>>
        BY ConcatEmptySeq, EmptySeq
      <4> QED
        BY <4>1, <4>2 DEF Owned
    <3> QED
      BY <1>1, <3>1
  <2>3. CASE O # <<>> /\ ~EmptyMemory
    <3>1. 1 \in DOMAIN O
      BY <1>2, <2>3
    <3>2. adm' # None
      BY <1>3, <1>7, <2>3, <3>1
    <3>3. Good(O)
      BY <1>3, <1>5, <3>2
    <3> QED
      BY <1>1, <1>8, <3>3 DEF O
  <2> QED
    BY <2>1, <2>2, <2>3
<1>9. CASE FillEvent /\ ~Skippable /\ Owned' = Append(Owned, NextEvent)
  <2> DEFINE n == Len(O)
             q == Append(O, NextEvent)
  <2>1. /\ NextEvent \in Event /\ NextEvent[1] = Current /\ NextEvent[2] = adm.cursor[Current] + 1
        /\ adm # None /\ adm' # None /\ adm'.cursor[Current] = adm.cursor[Current] + 1
        /\ adm.cursor[Current] \in Nat /\ NextEvent \in Curable
    BY <1>9, Filled
  <2>2. n \in Nat /\ DOMAIN q = 1 .. n + 1 /\ q[n + 1] = NextEvent /\ \A i \in 1 .. n : q[i] = O[i]
    <3>1. O \in Seq(Event) /\ NextEvent \in Event
      BY <1>2, <2>1
    <3>2. /\ Append(O, NextEvent) \in Seq(Event) /\ Len(Append(O, NextEvent)) = Len(O) + 1
          /\ \A i \in 1 .. Len(O) : Append(O, NextEvent)[i] = O[i]
          /\ Append(O, NextEvent)[Len(O) + 1] = NextEvent
      BY <3>1, AppendProperties
    <3> QED
      BY <1>2, <3>2
  <2> HIDE DEF q, n
  <2>3. \A i \in 1 .. n + 1 : q[i] \in Curable' /\ q[i][2] <= adm'.cursor[q[i][1]]
    <3>1. \A i \in 1 .. n : q[i] \in Curable' /\ q[i][2] <= adm'.cursor[q[i][1]]
      BY <1>2, <1>5, <2>1, <2>2 DEF n
    <3>2. q[n + 1] \in Curable' /\ q[n + 1][2] <= adm'.cursor[q[n + 1][1]]
      BY <1>4, <2>1, <2>2
    <3> QED
      BY <2>2, <3>1, <3>2
  <2>4. \A i \in 1 .. n : O[i][1] = Current => O[i][2] < NextEvent[2]
    <3> SUFFICES ASSUME NEW i \in 1 .. n, O[i][1] = Current PROVE O[i][2] < NextEvent[2]
      OBVIOUS
    <3>1. i \in DOMAIN O /\ O[i] \in Event /\ O[i][2] <= adm.cursor[Current]
      BY <1>2, <1>3 DEF n
    <3>2. O[i][2] \in Nat
      BY <1>4, <3>1
    <3> QED
      BY <2>1, <3>1, <3>2
  <2>5. \A i, j \in 1 .. n + 1 : i < j /\ q[i][1] = q[j][1] => q[i][2] < q[j][2]
    <3> SUFFICES ASSUME NEW i \in 1 .. n + 1, NEW j \in 1 .. n + 1, i < j, q[i][1] = q[j][1]
                 PROVE  q[i][2] < q[j][2]
      OBVIOUS
    <3>1. i \in 1 .. n
      BY <2>2
    <3>2. CASE j = n + 1
      BY <2>1, <2>2, <2>4, <3>1, <3>2
    <3>3. CASE j \in 1 .. n
      BY <1>2, <1>3, <2>2, <3>1, <3>3 DEF n
    <3> QED
      BY <2>2, <3>2, <3>3
  <2>6. Good(q)
    BY <2>1, <2>2, <2>3, <2>5
  <2> QED
    BY <1>1, <1>9, <2>6 DEF q, O
<1>10. CASE RemoveReceipt /\ Owned' = queue
  <2>1. adm' = adm
    BY <1>10 DEF RemoveReceipt, admission
  <2>2. \A i \in 1 .. Len(queue) : Len(batch) + i \in DOMAIN O
    BY <1>2
  <2>3. \A i \in 1 .. Len(queue) : queue[i] \in Curable' /\ adm' # None /\ queue[i][2] <= adm'.cursor[queue[i][1]]
    BY <1>2, <1>3, <1>4, <2>1, <2>2
  <2>4. \A i, j \in 1 .. Len(queue) : i < j /\ queue[i][1] = queue[j][1] => queue[i][2] < queue[j][2]
    <3> SUFFICES ASSUME NEW i \in 1 .. Len(queue), NEW j \in 1 .. Len(queue), i < j, queue[i][1] = queue[j][1]
                 PROVE  queue[i][2] < queue[j][2]
      OBVIOUS
    <3>1. Len(batch) + i < Len(batch) + j
      BY <1>2
    <3> QED
      BY <1>2, <1>3, <2>2, <3>1
  <2>5. Good(queue)
    BY <1>2, <2>3, <2>4
  <2> QED
    BY <1>1, <1>10, <2>5
<1> QED
  BY <1>6, <1>8, <1>9, <1>10, OwnedSteps

\* Acknowledging adds the sources of the claim in hand.
LEMMA CuratedSteps ==
    ASSUME CurationInv, [Next]_vars
    PROVE  \/ curated' = curated
           \/ /\ run.pc = "mark" /\ curated' = curated \cup receipt.sources /\ receipt # None
              /\ UNCHANGED <<adm, receipt, pending>> /\ pending = receipt
<1>1. CASE MarkCurated \/ (FinalizeFails /\ run.pc = "mark")
  <2>1. /\ run.pc = "mark" /\ curated' \in {curated, curated \cup receipt.sources}
        /\ UNCHANGED <<adm, receipt, pending>>
    BY <1>1 DEF MarkCurated, FinalizeFails, guard, admission, Acknowledged
  <2>2. receipt # None /\ pending = receipt
    BY <2>1, InHand
  <2> QED
    BY <2>1, <2>2
<1>2. CASE UNCHANGED Filed
  BY <1>2 DEF Filed
<1>3. CASE Begin \/ BeginFails \/ ApplyOp \/ RejectOp \/ Epilogue \/ EpilogueFails \/ Finish \/ FinishFails
           \/ ArchiveReceipt \/ RemoveReceipt \/ (FinalizeFails /\ run.pc # "mark")
           \/ Crash \/ Close \/ OpenFails \/ Recover \/ OperatorAcknowledge
  BY <1>3 DEF Begin, BeginFails, ApplyOp, RejectOp, Epilogue, EpilogueFails, Finish, FinishFails,
     ArchiveReceipt, RemoveReceipt, FinalizeFails, Crash, Close, OpenFails, Recover, OperatorAcknowledge, disk
<1> QED
  BY <1>1, <1>2, <1>3, FilingSteps

\* A receipt in memory covers the same sources until it is removed.
LEMMA CoverSteps ==
    ASSUME CurationInv, [Next]_vars, receipt # None
    PROVE  \/ receipt' # None /\ receipt'.sources = receipt.sources
           \/ RemoveReceipt \/ EmptyMemory
<1>1. receipt \in Receipt /\ None \notin Receipt
  BY InHand
<1>2. Processed \in Receipt /\ Processed.sources = receipt.sources
  <2>1. Processed \in Receipt
    BY <1>1, ReceiptsTyped DEF CurationInv
  <2> QED
    BY <1>1, <2>1 DEF Processed, Receipt
<1>3. CASE receipt' = receipt
  BY <1>3
<1>4. CASE UNCHANGED Filed
  BY <1>3, <1>4 DEF Filed
<1>5. CASE Begin \/ BeginFails
  <2>1. run.pc = "begin"
    BY <1>5 DEF Begin, BeginFails
  <2> QED
    BY <2>1, BatchFresh
<1>6. CASE ApplyOp \/ RejectOp \/ Epilogue \/ EpilogueFails \/ FinishFails \/ ArchiveReceipt \/ MarkCurated
           \/ FinalizeFails \/ OperatorAcknowledge
  BY <1>3, <1>6 DEF ApplyOp, RejectOp, Epilogue, EpilogueFails, FinishFails, ArchiveReceipt, MarkCurated,
     FinalizeFails, OperatorAcknowledge, guard
<1>7. CASE Finish
  BY <1>1, <1>2, <1>7 DEF Finish
<1>8. CASE Crash \/ Close \/ OpenFails
  BY <1>8 DEF Crash, Close, OpenFails
<1>9. CASE Recover
  BY <1>9 DEF Recover, CurationInv, Empty
<1> QED
  BY <1>4, <1>5, <1>6, <1>7, <1>8, <1>9, FilingSteps

\* A batch that is removed is acknowledged, and the queue has none of it.
LEMMA Removed ==
    ASSUME CurationInv, RemoveReceipt
    PROVE  /\ adm' = adm /\ curated' = curated /\ receipt # None /\ receipt.sources \subseteq curated
           /\ run.owner # "open" => receipt.sources = Elements(batch)
           /\ run.owner = "open" => queue = <<>> /\ batch = <<>>
           /\ Elements(queue) \cap Elements(batch) = {}
<1>0. /\ ReceiptStages /\ Empty /\ LineOK /\ queue \in Seq(Event) /\ batch \in Seq(Event)
  BY DEF CurationInv, MemoryTypeOK
<1>1. adm' = adm /\ curated' = curated /\ run.pc = "remove"
  BY DEF RemoveReceipt, admission
<1>2. receipt # None /\ receipt.sources \subseteq curated
  BY <1>0, <1>1, InHand DEF ReceiptStages
<1>3. run.owner # "open" => receipt.sources = Elements(batch)
  BY <1>0, <1>1 DEF ReceiptStages, Guarded, Finalizing
<1>4. run.owner = "open" => queue = <<>> /\ batch = <<>>
  BY <1>0, <1>1 DEF Empty, Finalizing
<1>5. Elements(queue) \cap Elements(batch) = {}
  <2> SUFFICES ASSUME NEW i \in DOMAIN batch, NEW j \in DOMAIN queue, batch[i] = queue[j] PROVE FALSE
    BY DEF Elements
  <2>1. /\ Len(batch) \in Nat /\ Len(queue) \in Nat /\ i \in 1 .. Len(batch) /\ j \in 1 .. Len(queue)
    BY <1>0
  <2>2. Owned[i] = batch[i] /\ Owned[Len(batch) + j] = queue[j] /\ DOMAIN Owned = 1 .. Len(batch) + Len(queue)
    BY <1>0, <2>1, OwnedTyped
  <2>3. i \in DOMAIN Owned /\ Len(batch) + j \in DOMAIN Owned /\ i < Len(batch) + j
    BY <2>1, <2>2
  <2>4. Owned[i][2] < Owned[Len(batch) + j][2]
    BY <1>0, <2>2, <2>3 DEF LineOK
  <2>5. batch[i] \in Event
    BY <1>0
  <2>6. batch[i][2] \in Nat
    BY <2>5 DEF Event
  <2> QED
    BY <2>2, <2>4, <2>6
<1> QED
  BY <1>1, <1>2, <1>3, <1>4, <1>5

\* What is acknowledged is not queued, and ahead of a cursor it is known to be.
LEMMA SettledStep == CurationInv /\ [Next]_vars => Settled'
<1> SUFFICES ASSUME CurationInv, [Next]_vars PROVE Settled'
  OBVIOUS
<1>0. /\ Settled /\ LineOK /\ Empty /\ ReceiptStages /\ AdmissionOK /\ DiskTypeOK
      /\ queue \in Seq(Event) /\ batch \in Seq(Event)
  BY DEF CurationInv, MemoryTypeOK
<1>1. Elements(batch) \subseteq Elements(Owned) /\ Elements(queue) \subseteq Elements(Owned) /\ Owned \in Seq(Event)
  BY <1>0, OwnedTyped
<1>2. Elements(Owned') = Elements(Owned)'
  BY DEF Elements
<1> DEFINE Covered == receipt' # None
           Apart == \A e \in Elements(Owned') \cap curated' : receipt' # None /\ e \in receipt'.sources
           Known == adm' # None => /\ adm'.cache \subseteq curated'
                                   /\ \A e \in curated' : e[2] <= adm'.cursor[e[1]] \/ e \in adm'.cache
<1>3. Apart
  <2>1. CASE EmptyMemory /\ Owned' = <<>>
    BY <2>1 DEF Elements
  <2>2. CASE RemoveReceipt /\ Owned' = queue
    <3>1. \A e \in Elements(queue) \cap curated : receipt # None /\ e \in receipt.sources
      BY <1>0, <1>1 DEF Settled, Suspended
    <3>2. curated' = curated /\ Elements(queue) \cap Elements(batch) = {}
          /\ (run.owner # "open" => receipt.sources = Elements(batch))
          /\ (run.owner = "open" => queue = <<>>)
      BY <2>2, Removed
    <3>3. CASE run.owner = "open"
      BY <2>2, <3>2, <3>3 DEF Elements
    <3>4. CASE run.owner # "open"
      BY <2>2, <3>1, <3>2, <3>4
    <3> QED
      BY <3>3, <3>4
  <2>3. CASE FillEvent /\ ~Skippable /\ Owned' = Append(Owned, NextEvent)
    <3>1. /\ NextEvent \in Event /\ NextEvent[1] = Current /\ NextEvent[2] = adm.cursor[Current] + 1
          /\ adm # None /\ adm.cursor[Current] \in Nat /\ NextEvent \notin adm.cache
      BY <2>3, Filled
    <3>2. curated' = curated /\ receipt' = receipt
      BY <2>3 DEF FillEvent, disk, guard
    <3>3. NextEvent \notin curated
      BY <1>0, <3>1 DEF Settled
    <3>4. Elements(Owned') = Elements(Owned) \cup {NextEvent}
      BY <1>1, <2>3, <3>1, ElementsAppend
    <3> QED
      BY <1>0, <3>2, <3>3, <3>4 DEF Settled, Suspended
  <2>4. CASE Owned' = Owned
    <3>1. CASE EmptyMemory
      <4>1. batch' = <<>> /\ queue' = <<>>
        BY <3>1 DEF EmptyMemory
      <4>2. <<>> \o <<>> = <<>>
        BY ConcatEmptySeq, EmptySeq
      <4> QED
        BY <2>1, <3>1, <4>1, <4>2 DEF Owned
    <3>2. CASE RemoveReceipt
      <4>1. batch' = <<>> /\ queue' = queue
        BY <3>2 DEF RemoveReceipt
      <4>2. <<>> \o queue = queue
        BY <1>0, ConcatEmptySeq
      <4> QED
        BY <2>2, <3>2, <4>1, <4>2 DEF Owned
    <3>3. CASE ~EmptyMemory /\ ~RemoveReceipt
      <4> SUFFICES ASSUME NEW e \in Elements(Owned), e \in curated' PROVE receipt' # None /\ e \in receipt'.sources
        BY <2>4
      <4>1. CASE e \in curated
        <5>1. receipt # None /\ e \in receipt.sources
          BY <1>0, <4>1 DEF Settled, Suspended
        <5> QED
          BY <3>3, <5>1, CoverSteps
      <4>2. CASE e \notin curated
        BY <4>2, CuratedSteps
      <4> QED
        BY <4>1, <4>2
    <3> QED
      BY <3>1, <3>2, <3>3
  <2> QED
    BY <2>1, <2>2, <2>3, <2>4, OwnedSteps
<1>4. Known
  <2> SUFFICES ASSUME adm' # None PROVE Known
    OBVIOUS
  <2>1. CASE adm = None
    <3>1. Looks /\ adm' # adm
      <4>1. ~EmptyMemory
        BY DEF EmptyMemory
      <4>2. ~FillEvent
        BY <2>1, Filled
      <4> QED
        BY <2>1, <4>1, <4>2, AdmissionSteps
    <3>2. adm'.cursor = Opened.cursor /\ adm'.cache = Opened.cache
      BY <3>1 DEF Looks
    <3>3. Opened.cache = curated
      BY <1>0, <2>1, OpenedSound
    <3>4. curated' = curated
      BY <3>1, CuratedSteps
    <3> QED
      BY <3>2, <3>3, <3>4
  <2>2. CASE adm # None
    <3>1. /\ adm'.cache = adm.cache
          /\ \A s \in Scope : adm.cursor[s] \in Nat /\ adm'.cursor[s] \in Nat /\ adm.cursor[s] <= adm'.cursor[s]
      BY <2>2, CursorGrows
    <3>2. adm.cache \subseteq curated /\ \A e \in curated : e[2] <= adm.cursor[e[1]] \/ e \in adm.cache
      BY <1>0, <2>2 DEF Settled
    <3>3. \A e \in Event : e[1] \in Scope /\ e[2] \in Nat
      BY TurnsGrow
    <3>4. curated \subseteq Event
      BY <1>0 DEF DiskTypeOK
    <3>5. curated \subseteq curated'
      BY CuratedSteps
    <3>6. \A e \in curated : e[2] <= adm'.cursor[e[1]] \/ e \in adm'.cache
      <4> SUFFICES ASSUME NEW e \in curated, e \notin adm.cache PROVE e[2] <= adm'.cursor[e[1]]
        BY <3>1
      <4>1. e[1] \in Scope /\ e[2] \in Nat /\ e[2] <= adm.cursor[e[1]]
        BY <3>2, <3>3, <3>4
      <4> QED
        BY <3>1, <4>1
    <3>7. \A e \in curated' \ curated : e[2] <= adm'.cursor[e[1]]
      <4> SUFFICES ASSUME NEW e \in curated', e \notin curated PROVE e[2] <= adm'.cursor[e[1]]
        OBVIOUS
      <4>1. run.pc = "mark" /\ e \in receipt.sources /\ adm' = adm
        BY CuratedSteps
      <4>2. run.owner # "open"
        BY <1>0, <2>2, <4>1 DEF Empty, Finalizing
      <4>3. e \in Elements(batch)
        BY <1>0, <4>1, <4>2 DEF ReceiptStages, Guarded, Finalizing
      <4> QED
        BY <1>0, <1>1, <4>1, <4>3 DEF LineOK
    <3> QED
      BY <3>1, <3>2, <3>5, <3>6, <3>7
  <2> QED
    BY <2>1, <2>2
<1> QED
  BY <1>2, <1>3, <1>4 DEF Settled, Suspended

\* A turn behind the cursor is acknowledged, in the line or covered.
LEMMA Behind ==
    ASSUME CurationInv, adm # None, NEW e \in Curable, e[2] <= adm.cursor[e[1]]
    PROVE  e \in curated \/ e \in Elements(Owned) \/ (receipt # None /\ e \in receipt.sources)
<1>1. e \in curated \cup Elements(queue \o batch) \/ (Suspended /\ e \in receipt.sources)
  BY DEF CurationInv, NoTurnLost
<1>2. Elements(queue \o batch) = Elements(Owned)
  BY OwnedTyped DEF CurationInv, MemoryTypeOK
<1> QED
  BY <1>1, <1>2 DEF Suspended

\* No turn behind the cursor is lost.
LEMMA NoTurnLostStep == CurationInv /\ [Next]_vars => NoTurnLost'
<1> SUFFICES ASSUME CurationInv, [Next]_vars PROVE NoTurnLost'
  OBVIOUS
<1>0. /\ AdmissionOK /\ DiskTypeOK /\ Settled /\ queue \in Seq(Event) /\ batch \in Seq(Event)
      /\ queue' \in Seq(Event) /\ batch' \in Seq(Event)
  BY LineTypeStep DEF CurationInv, MemoryTypeOK
<1>1. Elements(queue' \o batch') = Elements(Owned')
  <2>1. Elements(Owned') = Elements(batch') \cup Elements(queue')
    BY <1>0, ElementsConcat DEF Owned
  <2>2. Elements(queue' \o batch') = Elements(queue') \cup Elements(batch')
    BY <1>0, ElementsConcat
  <2> QED
    BY <2>1, <2>2
<1>2. Owned \in Seq(Event) /\ Elements(Owned) = Elements(batch) \cup Elements(queue)
  BY <1>0, OwnedTyped
<1> SUFFICES ASSUME adm' # None, NEW e \in Curable', e[2] <= adm'.cursor[e[1]]
             PROVE  e \in curated' \/ e \in Elements(Owned') \/ (receipt' # None /\ e \in receipt'.sources)
  <2>1. Elements(queue \o batch)' = Elements(queue' \o batch')
    BY DEF Elements
  <2> QED
    BY <1>1, <2>1 DEF NoTurnLost, Suspended
<1>3. e \in Event /\ e \in Turns' /\ e[1] \in Scope /\ e[2] \in Nat /\ e[2] >= 1 /\ e \notin Deferred
  <2>1. e \in Event /\ e \in Turns' /\ e \notin Deferred
    BY DEF Curable, Turns
  <2> QED
    BY <2>1, TurnsGrow
<1>4. ~EmptyMemory
  BY DEF EmptyMemory
<1>5. adm # None
  <2> SUFFICES ASSUME adm = None PROVE FALSE
    OBVIOUS
  <2>1. ~FillEvent
    BY Filled
  <2>2. adm'.cursor = Opened.cursor
    BY <1>4, <2>1, AdmissionSteps DEF Looks
  <2>3. Opened.cursor = [s \in Scope |-> 0]
    BY <1>0, OpenedSound
  <2> QED
    BY <1>3, <2>2, <2>3
<1>6. e[2] <= adm.cursor[e[1]] => e \in Curable
  <2>1. /\ adm.cursor[e[1]] <= adm.end[e[1]] /\ adm.end[e[1]] <= Len(log[e[1]])
        /\ adm.cursor[e[1]] \in Nat /\ adm.end[e[1]] \in Nat /\ Len(log[e[1]]) \in Nat
    <3>1. Sound(adm) /\ adm \in Admission
      BY <1>0, <1>5 DEF AdmissionOK, Sound
    <3> QED
      BY <1>3, <3>1, TurnsGrow DEF Sound, Admission
  <2>2. e[2] <= adm.cursor[e[1]] => e[2] <= Len(log[e[1]])
    BY <1>3, <2>1
  <2> QED
    BY <1>3, <2>2, TurnsGrow DEF Curable
<1>7. ASSUME e[2] <= adm.cursor[e[1]]
      PROVE  e \in curated' \/ e \in Elements(Owned') \/ (receipt' # None /\ e \in receipt'.sources)
  <2>1. e \in curated \/ e \in Elements(Owned) \/ (receipt # None /\ e \in receipt.sources)
    BY <1>5, <1>6, <1>7, Behind
  <2>2. CASE e \in curated
    BY <2>2, CuratedSteps
  <2>3. CASE e \in Elements(Owned)
    <3>1. CASE Owned' = Owned
      BY <2>3, <3>1
    <3>2. CASE FillEvent /\ ~Skippable /\ Owned' = Append(Owned, NextEvent)
      <4>1. NextEvent \in Event
        BY <3>2, Filled
      <4> QED
        BY <1>2, <2>3, <3>2, <4>1, ElementsAppend
    <3>3. CASE RemoveReceipt /\ Owned' = queue
      <4>1. CASE e \in Elements(queue)
        BY <3>3, <4>1
      <4>2. CASE e \in Elements(batch)
        <5>1. run.owner # "open"
          BY <3>3, <4>2, Removed DEF Elements
        <5> QED
          BY <3>3, <4>2, <5>1, Removed
      <4> QED
        BY <1>2, <2>3, <4>1, <4>2
    <3> QED
      BY <1>4, <3>1, <3>2, <3>3, OwnedSteps
  <2>4. CASE receipt # None /\ e \in receipt.sources
    BY <1>4, <2>4, CoverSteps, Removed
  <2> QED
    BY <2>1, <2>2, <2>3, <2>4
<1>8. CASE ~FillEvent
  <2>1. adm'.cursor = adm.cursor
    BY <1>5, <1>8, CursorGrows
  <2> QED
    BY <1>7, <2>1
<1>9. CASE FillEvent /\ ~(e[2] <= adm.cursor[e[1]])
  <2>1. /\ NextEvent \in Event /\ NextEvent[1] = Current /\ NextEvent[2] = adm.cursor[Current] + 1
        /\ adm'.cursor[Current] = adm.cursor[Current] + 1 /\ adm.cursor[Current] \in Nat
        /\ \A s \in Scope : s # Current => adm'.cursor[s] = adm.cursor[s]
    BY <1>9, Filled
  <2>2. e[1] = Current /\ e[2] = adm.cursor[Current] + 1
    BY <1>3, <1>9, <2>1
  <2>3. e = NextEvent
    <3>1. \A x, y \in Event : x[1] = y[1] /\ x[2] = y[2] => x = y
      BY DEF Event
    <3> QED
      BY <1>3, <2>1, <2>2, <3>1
  <2>4. UNCHANGED <<log, curated>>
    BY <1>9 DEF FillEvent, disk
  <2>5. e \in Curable
    BY <2>4 DEF Curable, Turns
  <2>6. CASE Skippable
    <3>1. e \in adm.cache
      BY <1>9, <2>3, <2>5, <2>6, Filled
    <3> QED
      BY <1>0, <1>5, <2>4, <3>1 DEF Settled
  <2>7. CASE ~Skippable
    <3>1. Owned' = Append(Owned, NextEvent)
      <4>1. batch' = batch /\ queue' = Append(queue, NextEvent)
        BY <1>9, <2>7 DEF FillEvent
      <4>2. e \in Elements(Owned') \/ Owned' = Append(Owned, NextEvent)
        <5>2. Elements(queue') = Elements(queue) \cup {e}
          BY <1>0, <2>1, <2>3, <4>1, ElementsAppend
        <5>3. Elements(Owned') = Elements(batch') \cup Elements(queue')
          BY <1>0, ElementsConcat DEF Owned
        <5> QED
          BY <5>2, <5>3
      <4>3. ~RemoveReceipt
        BY <1>9, <2>1 DEF FillEvent, RemoveReceipt, admission
      <4> QED
        BY <1>4, <1>9, <2>7, <4>1, <4>3, OwnedSteps DEF Owned
    <3> QED
      BY <1>2, <2>1, <2>3, <3>1, ElementsAppend
  <2> QED
    BY <2>6, <2>7
<1> QED
  BY <1>7, <1>8, <1>9

\* A set of turns without a gap stays one while the logs grow.
LEMMA StaysComplete ==
    ASSUME CurationInv, [Next]_vars, NEW S, Complete(S)
    PROVE  S \subseteq Turns' /\ \A e \in S, f \in Curable' : f[1] = e[1] /\ f[2] < e[2] => f \in S
<1>1. S \subseteq Turns /\ S \subseteq Turns'
  BY TurnsGrow DEF Complete
<1> SUFFICES ASSUME NEW e \in S, NEW f \in Curable', f[1] = e[1], f[2] < e[2] PROVE f \in S
  BY <1>1
<1>2. e \in Turns /\ e \in Event /\ f \in Event /\ f \in Turns' /\ f \notin Deferred
  BY <1>1 DEF Turns, Curable
<1>3. e[2] <= Len(log[e[1]]) /\ e[2] \in Nat /\ f[2] \in Nat /\ Len(log[e[1]]) \in Nat
  BY <1>2, TurnsGrow DEF Turns
<1>4. f[2] <= Len(log[f[1]])
  BY <1>3
<1>5. f \in Curable
  BY <1>2, <1>4, TurnsGrow DEF Curable
<1> QED
  BY <1>5 DEF Complete

\* A batch that is about to begin leaves no gap behind it.
LEMMA BatchComplete ==
    ASSUME CurationInv, run.pc = "begin"
    PROVE  Complete(curated \cup Elements(batch))
<1>0. /\ LineOK /\ Prefixes /\ Empty /\ RunStages /\ queue \in Seq(Event) /\ batch \in Seq(Event)
  BY DEF CurationInv, MemoryTypeOK
<1>1. receipt = None
  BY BatchFresh
<1>2. Elements(batch) \subseteq Elements(Owned) /\ Elements(Owned) = Elements(batch) \cup Elements(queue)
  BY <1>0, OwnedTyped
<1>3. Elements(batch) \subseteq Turns /\ Complete(curated)
  BY <1>0, <1>2 DEF LineOK, Curable, Prefixes
<1>4. ASSUME NEW e \in Elements(batch), NEW f \in Curable, f[1] = e[1], f[2] < e[2]
      PROVE  f \in curated \cup Elements(batch)
  <2>1. e \in Turns /\ e \in Event /\ f \in Event /\ adm # None /\ e[2] <= adm.cursor[e[1]]
    BY <1>0, <1>2, <1>3 DEF LineOK, Turns, Curable
  <2>2. e[1] \in Scope /\ e[2] \in Nat /\ f[2] \in Nat /\ adm.cursor[e[1]] \in Nat
    <3>1. adm \in Admission
      BY <2>1 DEF CurationInv, AdmissionOK, Sound
    <3>2. e[1] \in Scope /\ e[2] \in Nat /\ f[2] \in Nat
      BY <2>1, CurationAssumption DEF Event
    <3> QED
      BY <3>1, <3>2 DEF Admission
  <2>3. f[2] <= adm.cursor[f[1]]
    BY <1>4, <2>1, <2>2
  <2>4. f \in curated \/ f \in Elements(Owned)
    BY <1>1, <2>1, <2>3, Behind
  <2>5. f \notin Elements(queue)
    <3> SUFFICES ASSUME NEW j \in DOMAIN queue, f = queue[j] PROVE FALSE
      BY DEF Elements
    <3>1. PICK i \in DOMAIN batch : e = batch[i]
      BY DEF Elements
    <3>2. /\ Len(batch) \in Nat /\ Len(queue) \in Nat /\ i \in 1 .. Len(batch) /\ j \in 1 .. Len(queue)
      BY <1>0
    <3>3. Owned[i] = e /\ Owned[Len(batch) + j] = f /\ DOMAIN Owned = 1 .. Len(batch) + Len(queue)
      BY <1>0, <3>1, <3>2, OwnedTyped
    <3>4. i \in DOMAIN Owned /\ Len(batch) + j \in DOMAIN Owned /\ i < Len(batch) + j
      BY <3>2, <3>3
    <3>5. e[2] < f[2]
      BY <1>0, <1>4, <3>3, <3>4 DEF LineOK
    <3> QED
      BY <1>4, <2>2, <3>5
  <2> QED
    BY <1>2, <2>4, <2>5
<1> QED
  BY <1>3, <1>4 DEF Complete

\* The claim on disk appears with a batch, keeps its sources and goes.
LEMMA PendingSteps ==
    ASSUME CurationInv, [Next]_vars
    PROVE  \/ pending' = pending \/ pending' = None
           \/ pending # None /\ pending'.sources = pending.sources /\ curated' = curated
           \/ run.pc = "begin" /\ pending' = Prepared /\ curated' = curated
<1>1. CASE UNCHANGED Filed
  BY <1>1 DEF Filed
<1>2. CASE Begin \/ BeginFails
  BY <1>2 DEF Begin, BeginFails
<1>3. CASE ApplyOp \/ RejectOp \/ Epilogue \/ EpilogueFails \/ ArchiveReceipt \/ MarkCurated \/ RemoveReceipt
           \/ FinalizeFails \/ Crash \/ Close \/ OpenFails \/ Recover
  BY <1>3 DEF ApplyOp, RejectOp, Epilogue, EpilogueFails, ArchiveReceipt, MarkCurated, RemoveReceipt,
     FinalizeFails, Crash, Close, OpenFails, Recover, disk
<1>4. CASE Finish \/ FinishFails
  <2>1. run.pc = "finish" /\ curated' = curated /\ pending' \in {pending, Processed}
    BY <1>4 DEF Finish, FinishFails
  <2>2. receipt \in Receipt /\ pending = receipt /\ receipt # None
    BY <2>1, InHand
  <2>3. Processed.sources = receipt.sources
    BY <2>2 DEF Processed, Receipt
  <2> QED
    BY <2>1, <2>2, <2>3
<1>5. CASE OperatorAcknowledge
  <2>1. curated' = curated /\ pending # None /\ pending' = [pending EXCEPT !.outcome = "interrupted"]
    BY <1>5 DEF OperatorAcknowledge
  <2>2. pending \in Receipt
    BY <2>1, InHand
  <2>3. pending'.sources = pending.sources
    BY <2>1, <2>2 DEF Receipt
  <2> QED
    BY <2>1, <2>3
<1> QED
  BY <1>1, <1>2, <1>3, <1>4, <1>5, FilingSteps

\* What is acknowledged has no gap, with the open claim or without.
LEMMA PrefixesStep == CurationInv /\ [Next]_vars => Prefixes'
<1> SUFFICES ASSUME CurationInv, [Next]_vars PROVE Prefixes'
  OBVIOUS
<1>0. Complete(curated) /\ (pending # None => Complete(curated \cup pending.sources))
  BY DEF CurationInv, Prefixes
<1> DEFINE Whole(S) == S \subseteq Turns' /\ \A e \in S, f \in Curable' : f[1] = e[1] /\ f[2] < e[2] => f \in S
<1>1. ASSUME NEW S, Complete(S) PROVE Whole(S)
  BY <1>1, StaysComplete
<1> HIDE DEF Whole
<1>2. Whole(curated')
  <2>1. CASE curated' = curated
    BY <1>0, <1>1, <2>1
  <2>2. CASE curated' = curated \cup pending.sources /\ pending # None
    BY <1>0, <1>1, <2>2
  <2> QED
    BY <2>1, <2>2, CuratedSteps
<1>3. pending' # None => Whole(curated' \cup pending'.sources)
  <2>1. CASE pending' = pending /\ pending # None
    <3>1. curated' \cup pending'.sources = curated \cup pending.sources
      BY <2>1, CuratedSteps
    <3> QED
      BY <1>0, <1>1, <2>1, <3>1
  <2>2. CASE pending # None /\ pending'.sources = pending.sources /\ curated' = curated
    BY <1>0, <1>1, <2>2
  <2>3. CASE run.pc = "begin" /\ pending' = Prepared /\ curated' = curated
    <3>1. Complete(curated \cup Elements(batch))
      BY <2>3, BatchComplete
    <3>2. pending'.sources = Elements(batch)
      BY <2>3 DEF Prepared
    <3> QED
      BY <1>1, <2>3, <3>1, <3>2
  <2> QED
    BY <2>1, <2>2, <2>3, PendingSteps
<1> QED
  BY <1>2, <1>3 DEF Prefixes, Complete, Whole
-----------------------------------------------------------------------------
(* What the admission knows.                                               *)

\* A scope is registered before its first event is appended.
LEMMA IndexedStep == CurationInv /\ [Next]_vars => Indexed'
<1> SUFFICES ASSUME CurationInv, [Next]_vars PROVE Indexed'
  OBVIOUS
<1>0. Indexed /\ DiskTypeOK
  BY DEF CurationInv
<1>1. CASE UNCHANGED <<log, index>>
  BY <1>0, <1>1 DEF Indexed, Elements
<1>2. ASSUME NEW a \in Appender, NEW s \in Scope, NEW k \in Kind,
             EventAppend(a, s, k) \/ EventAppendFails(a, s, k)
      PROVE  Indexed'
  <2>1. /\ index' \in {index, Registered(s)}
        /\ \/ log' = log
           \/ s \in Elements(index') /\ Len(log[s]) < MaxLog /\ log' = [log EXCEPT ![s] = Append(@, k)]
    BY <1>0, <1>2, RegisteredTyped DEF EventAppend, EventAppendFails
  <2>2. Elements(index) \subseteq Elements(index') /\ Elements(index') = Elements(index)'
    <3>1. Elements(index) \subseteq Elements(index')
      BY <1>0, <2>1, RegisteredTyped
    <3> QED
      BY <3>1 DEF Elements
  <2>3. CASE log' = log
    BY <1>0, <2>2, <2>3 DEF Indexed
  <2>4. CASE s \in Elements(index') /\ Len(log[s]) < MaxLog /\ log' = [log EXCEPT ![s] = Append(@, k)]
    <3>1. \A t \in Scope : t # s => log'[t] = log[t]
      BY <1>0, <2>4, LogTyped
    <3> QED
      BY <1>0, <2>2, <2>4, <3>1 DEF Indexed
  <2> QED
    BY <2>1, <2>3, <2>4
<1>3. CASE AppendStep
  BY <1>2, <1>3 DEF AppendStep
<1>4. CASE NoteStep \/ RefillStep
  BY <1>1, <1>4 DEF NoteStep, RefillStep, NoteScope, NoteFails, NoteReturns,
      RefillScope, FillEvent, FillFails, FillScopeDone, disk
<1>5. CASE \/ FlushCapture \/ FlushCaptureFails \/ Replay \/ ReplayFails \/ ReplayReturns
           \/ TakeTurns \/ NothingToTake \/ (\E n \in 1 .. QueueLimit : Generate(n))
           \/ GenerateFails \/ FlushRelease \/ OpenReturns \/ OpenFails
  BY <1>1, <1>5 DEF FlushCapture, FlushCaptureFails, Replay,
      ReplayFails, ReplayReturns, TakeTurns, NothingToTake, Generate, GenerateFails, FlushRelease,
      OpenReturns, OpenFails, disk
<1>6. CASE \/ Begin \/ BeginFails \/ ApplyOp \/ RejectOp \/ Epilogue \/ EpilogueFails \/ Finish \/ FinishFails
           \/ ArchiveReceipt \/ MarkCurated \/ RemoveReceipt \/ FinalizeFails
  BY <1>1, <1>6 DEF Begin, BeginFails, ApplyOp, RejectOp, Epilogue, EpilogueFails, Finish, FinishFails,
      ArchiveReceipt, MarkCurated, RemoveReceipt, FinalizeFails
<1>7. CASE WorkerStart \/ FlushStart \/ HostPoisons \/ Crash \/ Close \/ Recover \/ OperatorAcknowledge \/ UNCHANGED vars
  BY <1>1, <1>7 DEF WorkerStart, FlushStart, HostPoisons, Crash, Close, Recover, OperatorAcknowledge, vars, disk
<1> QED
  BY <1>3, <1>4, <1>5, <1>6, <1>7 DEF Next, CycleStep

\* The host only learns of an append from the note of its event.
LEMMA ReturnedSteps ==
    ASSUME CurationInv, [Next]_vars
    PROVE  \/ returned' = returned
           \/ \E a \in Appender : /\ NoteScope(a) \/ NoteFails(a) \/ NoteReturns(a)
                                  /\ app[a].pc # "idle"
                                  /\ returned' = Returned(<<app[a].scope, app[a].seq>>)
<1>1. CASE NoteStep
  <2>1. PICK a \in Appender : NoteScope(a) \/ NoteFails(a) \/ NoteReturns(a)
    BY <1>1 DEF NoteStep
  <2>2. app[a].pc # "idle"
    <3>1. CASE NoteReturns(a)
      BY <3>1 DEF NoteReturns, CurationInv, RefillStages
    <3> QED
      BY <2>1, <3>1 DEF NoteScope, NoteFails
  <2>3. returned' = returned \/ returned' = Returned(<<app[a].scope, app[a].seq>>)
    BY <2>1 DEF NoteScope, NoteFails, NoteReturns
  <2> QED
    BY <2>1, <2>2, <2>3
<1>2. CASE AppendStep \/ RefillStep
  BY <1>2 DEF AppendStep, EventAppend, EventAppendFails, RefillStep,
      RefillScope, FillEvent, FillFails, FillScopeDone, ghosts
<1>3. CASE \/ FlushCapture \/ FlushCaptureFails \/ Replay \/ ReplayFails \/ ReplayReturns
           \/ TakeTurns \/ NothingToTake \/ (\E n \in 1 .. QueueLimit : Generate(n))
           \/ GenerateFails \/ FlushRelease \/ OpenReturns \/ OpenFails
  BY <1>3 DEF FlushCapture, FlushCaptureFails, Replay,
      ReplayFails, ReplayReturns, TakeTurns, NothingToTake, Generate, GenerateFails, FlushRelease,
      OpenReturns, OpenFails, ghosts
<1>4. CASE \/ Begin \/ BeginFails \/ ApplyOp \/ RejectOp \/ Epilogue \/ EpilogueFails \/ Finish \/ FinishFails
           \/ ArchiveReceipt \/ MarkCurated \/ RemoveReceipt \/ FinalizeFails
  BY <1>4 DEF Begin, BeginFails, ApplyOp, RejectOp, Epilogue, EpilogueFails, Finish, FinishFails,
      ArchiveReceipt, MarkCurated, RemoveReceipt, FinalizeFails, ghosts
<1>5. CASE WorkerStart \/ FlushStart \/ HostPoisons \/ Crash \/ Close \/ Recover \/ OperatorAcknowledge \/ UNCHANGED vars
  BY <1>5 DEF WorkerStart, FlushStart, HostPoisons, Crash, Close, Recover, OperatorAcknowledge, vars, ghosts
<1> QED
  BY <1>1, <1>2, <1>3, <1>4, <1>5 DEF Next, CycleStep

\* What the host was told is stored is.
LEMMA RecordedStep == CurationInv /\ [Next]_vars => Recorded'
<1> SUFFICES ASSUME CurationInv, [Next]_vars PROVE Recorded'
  OBVIOUS
<1>1. returned \subseteq Turns'
  BY TurnsGrow DEF CurationInv, Recorded
<1>2. ASSUME NEW a \in Appender, app[a].pc # "idle", returned' = Returned(<<app[a].scope, app[a].seq>>)
      PROVE  returned' \subseteq Turns'
  <2> DEFINE e == <<app[a].scope, app[a].seq>>
  <2>1. /\ e \in Event /\ e[2] <= Len(log[e[1]])
        /\ returned' = returned \cup (IF log[e[1]][e[2]] = "turn" THEN {e} ELSE {})
    BY <1>2, ReturnedTyped
  <2> HIDE DEF e
  <2>2. log[e[1]][e[2]] = "turn" => e \in Turns
    BY <2>1 DEF Turns
  <2> QED
    BY <1>1, <2>1, <2>2, TurnsGrow
<1> QED
  BY <1>1, <1>2, ReturnedSteps DEF Recorded

\* The admission never forgets an event it has seen, and sees every recorded
\* one when it is loaded.
LEMMA SeenKept ==
    ASSUME CurationInv, [Next]_vars, adm' # None, NEW s \in Scope, NEW i \in Nat, 1 <= i, i <= Len(log[s]),
           adm = None \/ Seen(s, i)
    PROVE  adm'.dirty \/ s \in adm'.refresh \/ i <= adm'.end[s]
<1>0. /\ DiskTypeOK /\ AdmissionOK /\ s \in Elements(index) /\ index \in Seq(Scope)
  <2>1. log[s] # <<>>
    BY DEF CurationInv, DiskTypeOK
  <2> QED
    BY <2>1 DEF CurationInv, Indexed, DiskTypeOK
<1> DEFINE Sees(a) == a.dirty \/ s \in a.refresh \/ i <= a.end[s]
<1>1. Sound(Opened) /\ Sees(Opened) /\ (adm # None => Opened = adm)
  <2>1. CASE adm = None
    BY <1>0, <2>1, OpenedSound
  <2>2. CASE adm # None
    BY <1>0, <2>2, OpenedSound DEF Opened, Seen
  <2> QED
    BY <2>1, <2>2
<1>2. ASSUME NEW a, Sound(a), Sees(a), NEW ss \in SUBSET a.refresh PROVE Sees(Capture(a, ss))
  <2>1. /\ Capture(a, ss).dirty = a.dirty /\ Capture(a, ss).refresh = a.refresh \ ss
        /\ Capture(a, ss).end = [t \in Scope |-> IF t \in ss THEN Len(log[t]) ELSE a.end[t]]
    BY <1>0, <1>2, CaptureSound
  <2> QED
    BY <1>2, <2>1
<1>3. ASSUME NEW a, Sound(a), Sees(a), NEW h, BeginRefill(h, a) PROVE Sees(adm')
  <2>1. /\ adm'.end = a.end /\ a.refresh \subseteq adm'.refresh
        /\ ~adm'.dirty => Elements(index) \subseteq adm'.refresh \/ ~a.dirty
    BY <1>0, <1>3, BeginRefillSound
  <2> QED
    BY <1>0, <1>3, <2>1
<1>4. ASSUME adm # None, adm'.dirty = adm.dirty, adm'.refresh = adm.refresh, adm'.end = adm.end PROVE Sees(adm')
  BY <1>1, <1>4
<1>5. ASSUME NEW a \in Appender, NoteScope(a) PROVE Sees(adm')
  <2> DEFINE b == AddScope(Opened, app[a].scope)
  <2>1. app[a].scope \in Scope
    BY <1>5 DEF NoteScope, CurationInv, RefillStages
  <2>2. Sound(b) /\ Sees(b)
    BY <1>1, <2>1, AddScopeSound
  <2>3. adm' = b \/ BeginRefill(a, b)
    BY <1>5 DEF NoteScope
  <2> HIDE DEF b, Sees
  <2> QED
    BY <1>3, <2>2, <2>3
<1>6. ASSUME NEW a \in Appender, NoteFails(a) PROVE Sees(adm')
  <2>1. app[a].scope \in Scope /\ adm # None
    BY <1>6 DEF NoteFails, CurationInv, RefillStages
  <2>2. adm' = [adm EXCEPT !.dirty = TRUE] \/ (adm.dirty /\ adm' = AddScope(adm, app[a].scope))
    BY <1>6, <2>1 DEF NoteFails
  <2>3. adm \in Admission
    BY <1>0, <2>1 DEF AdmissionOK, Sound
  <2>4. adm' = [adm EXCEPT !.dirty = TRUE] => adm'.dirty
    BY <2>3 DEF Admission
  <2>5. AddScope(adm, app[a].scope).dirty = adm.dirty
    BY <1>1, <2>1, AddScopeSound
  <2> QED
    BY <2>2, <2>4, <2>5
<1>7. ASSUME RefillScope PROVE Sees(adm')
  <2>1. CurrentOK
    BY <1>7, CurrentTyped DEF RefillScope
  <2> DEFINE a == IF Current \in adm.refresh /\ ~adm.frozen THEN Capture(adm, {Current}) ELSE adm
  <2>2. Sound(adm) /\ Sees(adm) /\ adm.known # <<>>
    BY <1>1, <2>1 DEF CurrentOK
  <2>3. Sound(a) /\ Sees(a) /\ a.known = adm.known
    <3>1. CASE Current \in adm.refresh /\ ~adm.frozen
      <4>1. {Current} \in SUBSET adm.refresh
        BY <3>1
      <4>2. a = Capture(adm, {Current})
        BY <3>1
      <4> HIDE DEF a, Sees
      <4>3. Sound(Capture(adm, {Current})) /\ Capture(adm, {Current}).known = adm.known
        BY <1>0, <2>2, <4>1, CaptureSound
      <4> QED
        BY <1>2, <2>2, <4>1, <4>2, <4>3
    <3>2. CASE ~(Current \in adm.refresh /\ ~adm.frozen)
      BY <2>2, <3>2
    <3> QED
      BY <3>1, <3>2
  <2>4. adm' = a \/ adm' = AfterVisit(a)
    BY <1>7 DEF RefillScope
  <2> HIDE DEF a
  <2>5. AfterVisit(a).end = a.end /\ AfterVisit(a).dirty = a.dirty /\ AfterVisit(a).refresh = a.refresh
    BY <2>2, <2>3, AfterVisitSound
  <2> QED
    BY <2>3, <2>4, <2>5
<1>8. ASSUME FillFails \/ FillScopeDone PROVE Sees(adm')
  <2>1. CurrentOK
    BY <1>8, CurrentTyped DEF FillFails, FillScopeDone, Reads, CanFill
  <2>2. adm' = AfterVisit(adm)
    BY <1>8 DEF FillFails, FillScopeDone
  <2> QED
    BY <1>4, <2>1, <2>2, AfterVisitSound DEF CurrentOK
<1>9. ASSUME FillEvent PROVE Sees(adm')
  <2>1. CanFill /\ adm' = [adm EXCEPT !.cursor[Current] = @ + 1]
    BY <1>9 DEF FillEvent
  <2>2. adm'.dirty = adm.dirty /\ adm'.refresh = adm.refresh /\ adm'.end = adm.end /\ CurrentOK
    BY <2>1, FillSound
  <2> QED
    BY <1>4, <2>2 DEF CurrentOK
<1>10. ASSUME FlushCapture PROVE Sees(adm')
  <2> DEFINE a == IF Opened.dirty THEN Inventory(Opened) ELSE Opened
             b == Capture(a, a.refresh)
             d == [b EXCEPT !.frozen = TRUE]
  <2>1. Sound(a) /\ Sees(a)
    BY <1>0, <1>1, InventorySound
  <2>2. Sound(b) /\ Sees(b)
    <3> HIDE DEF a, Sees
    <3>1. a.refresh \in SUBSET a.refresh
      OBVIOUS
    <3> QED
      BY <1>0, <1>2, <2>1, <3>1, CaptureSound
  <2>3. adm' = d
    BY <1>10, Zenon DEF FlushCapture
  <2> HIDE DEF b
  <2>4. d.dirty = b.dirty /\ d.refresh = b.refresh /\ d.end = b.end
    BY <2>2 DEF Sound, Admission
  <2> QED
    BY <2>2, <2>3, <2>4
<1>11. ASSUME Replay PROVE Sees(adm')
  <2>1. CASE Suspended
    BY <1>1, <1>11, <2>1 DEF Replay
  <2>2. CASE ~Suspended
    <3>1. BeginRefill("cycle", Opened)
      BY <1>11, <2>2 DEF Replay
    <3> HIDE DEF Sees
    <3> QED
      BY <1>1, <1>3, <3>1
  <2> QED
    BY <2>1, <2>2
<1>12. ASSUME FlushRelease PROVE Sees(adm')
  <2>1. adm # None /\ adm' = [adm EXCEPT !.frozen = FALSE]
    BY <1>12 DEF FlushRelease
  <2>2. adm \in Admission
    BY <1>0, <2>1 DEF AdmissionOK, Sound
  <2>3. adm'.dirty = adm.dirty /\ adm'.refresh = adm.refresh /\ adm'.end = adm.end
    BY <2>1, <2>2 DEF Admission
  <2> QED
    BY <1>4, <2>1, <2>3
<1>13. CASE adm' = adm
  BY <1>1, <1>13
<1>14. CASE Crash \/ Close \/ OpenFails
  BY <1>14 DEF Crash, Close, OpenFails, EmptyMemory
<1>15. CASE AppendStep \/ UNCHANGED vars \/ (\E a \in Appender : NoteReturns(a))
  BY <1>13, <1>15 DEF AppendStep, EventAppend, EventAppendFails, NoteReturns, vars, admission
<1>16. CASE WorkerStart \/ FlushStart \/ HostPoisons \/ Recover \/ OperatorAcknowledge
  BY <1>13, <1>16 DEF WorkerStart, FlushStart, HostPoisons, Recover, OperatorAcknowledge, admission
<1>17. CASE \/ FlushCaptureFails \/ ReplayFails \/ ReplayReturns \/ TakeTurns \/ NothingToTake
            \/ (\E n \in 1 .. QueueLimit : Generate(n))
            \/ GenerateFails \/ Begin \/ BeginFails \/ ApplyOp \/ RejectOp
            \/ Epilogue \/ EpilogueFails \/ Finish \/ FinishFails
            \/ ArchiveReceipt \/ MarkCurated \/ RemoveReceipt \/ FinalizeFails \/ OpenReturns
  BY <1>13, <1>17 DEF FlushCaptureFails, ReplayFails, ReplayReturns, TakeTurns, NothingToTake, Generate,
     GenerateFails, Begin, BeginFails, ApplyOp, RejectOp, Epilogue, EpilogueFails, Finish, FinishFails,
     ArchiveReceipt, MarkCurated, RemoveReceipt, FinalizeFails, OpenReturns, admission
<1> QED
  BY <1>5, <1>6, <1>7, <1>8, <1>9, <1>10, <1>11, <1>12, <1>14, <1>15, <1>16, <1>17
  DEF Next, NoteStep, RefillStep, CycleStep

\* An append is about to be noted, and noted it is.
LEMMA NotedSteps ==
    ASSUME CurationInv, [Next]_vars, adm' # None, NEW a \in Appender, app'[a].pc = "refill"
    PROVE  /\ app'[a].scope = app[a].scope /\ app'[a].seq = app[a].seq /\ app[a].pc # "idle"
           /\ app[a].pc = "refill" \/ NoteScope(a)
<1>0. app \in [Appender -> AppType]
  BY DEF CurationInv, MemoryTypeOK
<1>1. CASE app' = app
  BY <1>1
<1>2. ASSUME NEW b \in Appender, NEW s \in Scope, NEW k \in Kind, EventAppend(b, s, k) \/ EventAppendFails(b, s, k)
      PROVE  app'[a] = app[a]
  <2>1. CASE EventAppendFails(b, s, k)
    BY <2>1 DEF EventAppendFails
  <2>2. CASE EventAppend(b, s, k)
    <3> DEFINE x == [pc |-> "note", scope |-> s, seq |-> Len(log[s]) + 1]
    <3>1. app' = [app EXCEPT ![b] = IF k = "other" THEN IdleApp ELSE x]
      BY <2>2 DEF EventAppend
    <3>2. IdleApp.pc = "idle" /\ x.pc = "note"
      BY DEF IdleApp
    <3> HIDE DEF x
    <3>3. CASE k = "other"
      BY <1>0, <3>1, <3>2, <3>3
    <3>4. CASE k # "other"
      BY <1>0, <3>1, <3>2, <3>4
    <3> QED
      BY <3>3, <3>4
  <2> QED
    BY <1>2, <2>1, <2>2
<1>3. ASSUME NEW b \in Appender, NoteScope(b) \/ NoteFails(b) \/ NoteReturns(b)
      PROVE  \/ app'[a] = app[a]
             \/ NoteScope(a) /\ app'[a].scope = app[a].scope /\ app'[a].seq = app[a].seq /\ app[a].pc = "note"
  <2>1. CASE NoteFails(b) \/ NoteReturns(b)
    <3>1. app' = [app EXCEPT ![b] = IdleApp]
      BY <2>1 DEF NoteFails, NoteReturns
    <3> QED
      BY <1>0, <3>1 DEF IdleApp
  <2>2. CASE NoteScope(b)
    <3>1. app[b].pc = "note" /\ (app' = [app EXCEPT ![b] = IdleApp] \/ app' = [app EXCEPT ![b].pc = "refill"])
      BY <2>2 DEF NoteScope
    <3>2. CASE app' = [app EXCEPT ![b] = IdleApp]
      BY <1>0, <3>2 DEF IdleApp
    <3>3. CASE app' = [app EXCEPT ![b].pc = "refill"]
      BY <1>0, <2>2, <3>1, <3>3 DEF AppType
    <3> QED
      BY <3>1, <3>2, <3>3
  <2> QED
    BY <1>3, <2>1, <2>2
<1>4. CASE Crash \/ Close \/ OpenFails
  BY <1>4 DEF Crash, Close, OpenFails, EmptyMemory
<1>5. CASE RefillStep \/ WorkerStart \/ FlushStart \/ HostPoisons \/ Recover \/ OperatorAcknowledge \/ UNCHANGED vars
  BY <1>1, <1>5 DEF RefillStep, RefillScope, FillEvent, FillFails, FillScopeDone, WorkerStart, FlushStart,
     HostPoisons, Recover, OperatorAcknowledge, vars
<1>6. CASE \/ FlushCapture \/ FlushCaptureFails \/ Replay \/ ReplayFails \/ ReplayReturns
           \/ TakeTurns \/ NothingToTake \/ (\E n \in 1 .. QueueLimit : Generate(n))
           \/ GenerateFails \/ FlushRelease \/ OpenReturns
  BY <1>1, <1>6 DEF FlushCapture, FlushCaptureFails, Replay,
      ReplayFails, ReplayReturns, TakeTurns, NothingToTake, Generate, GenerateFails, FlushRelease,
      OpenReturns
<1>7. CASE \/ Begin \/ BeginFails \/ ApplyOp \/ RejectOp \/ Epilogue \/ EpilogueFails \/ Finish \/ FinishFails
           \/ ArchiveReceipt \/ MarkCurated \/ RemoveReceipt \/ FinalizeFails
  BY <1>1, <1>7 DEF Begin, BeginFails, ApplyOp, RejectOp, Epilogue, EpilogueFails, Finish, FinishFails,
      ArchiveReceipt, MarkCurated, RemoveReceipt, FinalizeFails
<1> QED
  BY <1>2, <1>3, <1>4, <1>5, <1>6, <1>7 DEF Next, AppendStep, NoteStep, CycleStep

\* The scope of an append is due for a new endpoint when it is noted.
LEMMA NotedSeen ==
    ASSUME CurationInv, adm' # None, NEW a \in Appender, NoteScope(a) \/ NoteFails(a)
    PROVE  adm'.dirty \/ app[a].scope \in adm'.refresh
<1>0. DiskTypeOK /\ AdmissionOK /\ app[a].scope \in Scope
  BY DEF CurationInv, RefillStages, NoteScope, NoteFails
<1>1. Sound(Opened) /\ (adm # None => Opened = adm)
  BY <1>0, OpenedSound DEF Opened
<1>2. CASE NoteScope(a)
  <2> DEFINE b == AddScope(Opened, app[a].scope)
  <2>1. Sound(b) /\ app[a].scope \in b.refresh
    BY <1>0, <1>1, AddScopeSound
  <2>2. adm' = b \/ BeginRefill(a, b)
    BY <1>2 DEF NoteScope
  <2> HIDE DEF b
  <2>3. BeginRefill(a, b) => b.refresh \subseteq adm'.refresh
    BY <1>0, <2>1, BeginRefillSound
  <2> QED
    BY <2>1, <2>2, <2>3
<1>3. CASE NoteFails(a)
  <2>1. adm # None
    BY <1>3 DEF NoteFails
  <2>2. adm' = [adm EXCEPT !.dirty = TRUE] \/ (adm.dirty /\ adm' = AddScope(adm, app[a].scope))
    BY <1>3, <2>1 DEF NoteFails
  <2>3. adm \in Admission
    BY <1>0, <2>1 DEF AdmissionOK, Sound
  <2>4. adm' = [adm EXCEPT !.dirty = TRUE] => adm'.dirty
    BY <2>3 DEF Admission
  <2>5. app[a].scope \in AddScope(adm, app[a].scope).refresh
    BY <1>0, <1>1, <2>1, AddScopeSound
  <2> QED
    BY <2>2, <2>4, <2>5
<1> QED
  BY <1>2, <1>3

\* What returned, or is being noted, is known or will be looked at.
LEMMA NoticedStep == CurationInv /\ [Next]_vars => Noticed'
<1> SUFFICES ASSUME CurationInv, [Next]_vars PROVE Noticed'
  OBVIOUS
<1> DEFINE Sees(s, i) == adm'.dirty \/ s \in adm'.refresh \/ i <= adm'.end[s]
<1> SUFFICES ASSUME adm' # None
             PROVE  /\ \A e \in returned' : Sees(e[1], e[2])
                    /\ \A a \in Appender : app'[a].pc = "refill" => Sees(app'[a].scope, app'[a].seq)
  BY DEF Noticed, Seen
<1>0. /\ Noticed /\ Recorded
      /\ \A a \in Appender : app[a].pc # "idle" => app[a].scope \in Scope /\ app[a].seq \in 1 .. Len(log[app[a].scope])
  BY DEF CurationInv, RefillStages
<1>1. ASSUME NEW s \in Scope, NEW i \in Nat, 1 <= i, i <= Len(log[s]), adm = None \/ Seen(s, i)
      PROVE  Sees(s, i)
  BY <1>1, SeenKept
<1> HIDE DEF Sees
<1>2. ASSUME NEW e \in returned PROVE Sees(e[1], e[2])
  <2>1. e \in Turns /\ e \in Event /\ e[2] <= Len(log[e[1]])
    BY <1>0, <1>2 DEF Recorded, Turns
  <2>2. e[1] \in Scope /\ e[2] \in Nat /\ 1 <= e[2]
    BY <2>1, TurnsGrow
  <2>3. adm = None \/ Seen(e[1], e[2])
    BY <1>0, <1>2 DEF Noticed
  <2> QED
    BY <1>1, <2>1, <2>2, <2>3
<1>3. ASSUME NEW a \in Appender, app[a].pc = "refill" PROVE Sees(app[a].scope, app[a].seq)
  <2>1. app[a].scope \in Scope /\ app[a].seq \in 1 .. Len(log[app[a].scope])
    BY <1>0, <1>3
  <2>2. app[a].seq \in Nat /\ 1 <= app[a].seq /\ app[a].seq <= Len(log[app[a].scope])
    <3>1. Len(log[app[a].scope]) \in Nat
      BY <2>1, LogGrows
    <3> QED
      BY <2>1, <3>1
  <2>3. adm = None \/ Seen(app[a].scope, app[a].seq)
    BY <1>0, <1>3 DEF Noticed
  <2> QED
    BY <1>1, <2>1, <2>2, <2>3
<1>4. ASSUME NEW a \in Appender, NoteScope(a) \/ NoteFails(a) PROVE Sees(app[a].scope, app[a].seq)
  BY <1>4, NotedSeen DEF Sees
<1>5. ASSUME NEW a \in Appender, NoteScope(a) \/ NoteFails(a) \/ NoteReturns(a), app[a].pc # "idle",
             returned' = Returned(<<app[a].scope, app[a].seq>>)
      PROVE  \A e \in returned' : Sees(e[1], e[2])
  <2>1. Sees(app[a].scope, app[a].seq)
    <3>1. CASE NoteReturns(a)
      <4>1. app[a].pc = "refill"
        BY <3>1 DEF NoteReturns, CurationInv, RefillStages
      <4> QED
        BY <1>3, <4>1
    <3> QED
      BY <1>4, <1>5, <3>1
  <2>2. returned' \subseteq returned \cup {<<app[a].scope, app[a].seq>>}
    BY <1>5 DEF Returned
  <2> QED
    BY <1>2, <2>1, <2>2
<1>6. \A e \in returned' : Sees(e[1], e[2])
  BY <1>2, <1>5, ReturnedSteps
<1>7. \A a \in Appender : app'[a].pc = "refill" => Sees(app'[a].scope, app'[a].seq)
  BY <1>3, <1>4, NotedSteps
<1> QED
  BY <1>6, <1>7

\* An admission that is not loaded has no backlog.
LEMMA NoBacklog == ~Backlog(None)
  BY DEF Backlog

\* Capturing the endpoints finds no backlog that was not there.
LEMMA CapturedBacklog ==
    ASSUME CurationInv, FlushCapture, adm # None, Backlog(adm')
    PROVE  Backlog(adm)
<1>0. DiskTypeOK /\ Sound(adm) /\ Opened = adm /\ adm \in Admission
  BY DEF CurationInv, AdmissionOK, Sound, Opened
<1>1. CASE adm.dirty
  BY <1>1 DEF Backlog
<1>2. CASE ~adm.dirty
  <2> DEFINE b == Capture(adm, adm.refresh)
             d == [b EXCEPT !.frozen = TRUE]
  <2>1. adm' = d
    BY <1>0, <1>2, Zenon DEF FlushCapture
  <2>2. /\ Sound(b) /\ b.cursor = adm.cursor /\ b.dirty = adm.dirty /\ b.known = adm.known
        /\ b.refresh = {}
        /\ b.end = [s \in Scope |-> IF s \in adm.refresh THEN Len(log[s]) ELSE adm.end[s]]
    <3>1. adm.refresh \in SUBSET adm.refresh /\ adm.refresh \ adm.refresh = {}
      OBVIOUS
    <3> QED
      BY <1>0, <3>1, CaptureSound
  <2> HIDE DEF b
  <2>3. d.cursor = b.cursor /\ d.end = b.end /\ d.refresh = b.refresh /\ d.dirty = b.dirty /\ d.known = b.known
    BY <2>2 DEF Sound, Admission
  <2> HIDE DEF d
  <2>4. PICK s \in Elements(adm.known) : adm.cursor[s] < d.end[s]
    BY <1>2, <2>1, <2>2, <2>3 DEF Backlog
  <2>5. s \in Scope
    BY <1>0, <2>4 DEF Admission, Elements
  <2>6. s \in adm.refresh \/ adm.cursor[s] < adm.end[s]
    BY <2>2, <2>3, <2>4, <2>5
  <2> QED
    BY <2>4, <2>6 DEF Backlog
<1> QED
  BY <1>1, <1>2

\* The backlog the admission has is the one the worker sleeps on.
LEMMA AwakeStep == CurationInv /\ [Next]_vars => Awake'
<1> SUFFICES ASSUME CurationInv, [Next]_vars PROVE Awake'
  OBVIOUS
<1>0. /\ Awake /\ Empty /\ RunStages /\ RefillStages /\ run \in RunType /\ refill \in RefillType
      /\ None # "cycle" /\ None \notin Appender /\ None # "flush"
  BY CurationAssumption DEF CurationInv, MemoryTypeOK
<1>1. Backlog(adm)' = Backlog(adm')
  BY DEF Backlog, Elements
<1>2. ASSUME adm' = None \/ backlog' = Backlog(adm') \/ backlog' = TRUE \/ refill'.holder # None PROVE Awake'
  BY <1>1, <1>2, NoBacklog DEF Awake
<1>3. ASSUME UNCHANGED <<adm, refill, backlog>>,
             ~Suspended \/ run.pc \in Guarded \/ (receipt' = receipt /\ run'.pc \notin Guarded)
      PROVE  Awake'
  BY <1>0, <1>1, <1>3 DEF Awake, Suspended
<1>4. ASSUME UNCHANGED admission, UNCHANGED Filed, run' = run \/ run'.pc \notin Guarded PROVE Awake'
  BY <1>3, <1>4 DEF admission, Filed
<1>5. CASE AppendStep \/ HostPoisons \/ FlushCaptureFails \/ TakeTurns \/ NothingToTake
           \/ (\E n \in 1 .. QueueLimit : Generate(n)) \/ GenerateFails \/ OpenReturns \/ WorkerStart
           \/ FlushStart \/ UNCHANGED vars
  <2>1. UNCHANGED admission
    BY <1>5 DEF AppendStep, EventAppend, EventAppendFails, HostPoisons, FlushCaptureFails, TakeTurns,
       NothingToTake, Generate, GenerateFails, OpenReturns, WorkerStart, FlushStart, vars
  <2>2. UNCHANGED Filed /\ (run' = run \/ run'.pc \notin Guarded)
    BY <1>5, NothingFiled, QuietRun
  <2> QED
    BY <1>4, <2>1, <2>2
<1>6. CASE Begin \/ BeginFails \/ ApplyOp \/ RejectOp \/ Epilogue \/ EpilogueFails \/ Finish \/ FinishFails
           \/ ArchiveReceipt \/ MarkCurated \/ RemoveReceipt \/ FinalizeFails
  <2>1. UNCHANGED admission
    BY <1>6 DEF Begin, BeginFails, ApplyOp, RejectOp, Epilogue, EpilogueFails, Finish, FinishFails,
       ArchiveReceipt, MarkCurated, RemoveReceipt, FinalizeFails
  <2>2. run.pc = "begin" \/ run.pc \in Guarded
    BY <1>6 DEF Begin, BeginFails, ApplyOp, RejectOp, OpsLeft, Epilogue, EpilogueFails, Finish, FinishFails,
       ArchiveReceipt, MarkCurated, RemoveReceipt, FinalizeFails, Guarded, Finalizing
  <2>3. run.pc = "begin" => ~Suspended
    BY BatchFresh DEF Suspended
  <2> QED
    BY <1>3, <2>1, <2>2, <2>3 DEF admission
<1>7. CASE Crash \/ Close \/ OpenFails
  BY <1>2, <1>7 DEF Crash, Close, OpenFails, EmptyMemory
<1>8. CASE Recover \/ OperatorAcknowledge
  <2>1. adm = None
    BY <1>0, <1>8 DEF Recover, OperatorAcknowledge, Empty
  <2> QED
    BY <1>2, <1>8, <2>1 DEF Recover, OperatorAcknowledge, admission
<1>9. CASE NoteStep
  <2>1. PICK a \in Appender : NoteScope(a) \/ NoteFails(a) \/ NoteReturns(a)
    BY <1>9 DEF NoteStep
  <2>2. CASE NoteScope(a)
    <3>1. (\E noted : adm' = noted /\ backlog' = Backlog(noted)) \/ (\E noted : BeginRefill(a, noted))
      BY <2>2 DEF NoteScope
    <3>2. CASE \E noted : BeginRefill(a, noted)
      BY <1>0, <1>2, <3>2 DEF BeginRefill, NoRefill
    <3> QED
      BY <1>2, <3>1, <3>2
  <2>3. CASE NoteFails(a)
    BY <1>2, <2>3 DEF NoteFails
  <2>4. CASE NoteReturns(a)
    BY <1>2, <2>4 DEF NoteReturns
  <2> QED
    BY <2>1, <2>2, <2>3, <2>4
<1>10. CASE RefillStep
  <2>1. refill.holder # None
    BY <1>10 DEF RefillStep, RefillScope, FillEvent, FillFails, FillScopeDone, Refilling, CanFill, Reads
  <2>2. refill'.holder = refill.holder
    BY <1>0, <1>10 DEF RefillStep, RefillScope, FillEvent, FillFails, FillScopeDone, Visited, RefillType
  <2> QED
    BY <1>2, <2>1, <2>2
<1>11. CASE Replay
  <2>1. CASE Suspended
    <3>1. UNCHANGED Filed /\ (run' = run \/ run'.pc \notin Guarded)
      BY <1>11, NothingFiled, QuietRun
    <3> QED
      BY <1>4, <1>11, <2>1, <3>1 DEF Replay, admission
  <2>2. CASE ~Suspended
    BY <1>0, <1>2, <1>11, <2>2 DEF Replay, BeginRefill, NoRefill
  <2> QED
    BY <2>1, <2>2
<1>12. CASE ReplayFails \/ ReplayReturns
  BY <1>2, <1>12 DEF ReplayFails, ReplayReturns
<1>13. CASE FlushCapture
  <2>1. /\ run.pc = "capture" /\ UNCHANGED <<backlog, refill, receipt, pending>>
        /\ run' = run \/ run'.pc \notin Guarded
    BY <1>13, NothingFiled, QuietRun DEF FlushCapture, guard, disk
  <2>2. run' = run => run'.pc \notin Guarded
    BY <2>1 DEF Guarded, Finalizing
  <2>3. CASE adm = None
    <3>1. Suspended
      BY <1>0, <2>1, <2>3 DEF RunStages, Empty
    <3> QED
      BY <2>1, <2>2, <3>1 DEF Awake, Suspended
  <2>4. CASE adm # None
    <3>1. Backlog(adm') => Backlog(adm)
      BY <1>13, <2>4, CapturedBacklog
    <3> QED
      BY <1>0, <1>1, <2>1, <2>2, <3>1 DEF Awake, Suspended
  <2> QED
    BY <2>3, <2>4
<1>14. CASE FlushRelease
  <2>1. CASE adm = None
    BY <1>2, <1>14, <2>1 DEF FlushRelease
  <2>2. CASE adm # None
    <3>1. adm' = [adm EXCEPT !.frozen = FALSE] /\ backlog' = Backlog(adm)
      BY <1>14, <2>2 DEF FlushRelease
    <3>2. adm \in Admission
      BY <2>2 DEF CurationInv, AdmissionOK, Sound
    <3>3. /\ adm'.known = adm.known /\ adm'.cursor = adm.cursor /\ adm'.end = adm.end
          /\ adm'.refresh = adm.refresh /\ adm'.dirty = adm.dirty
      BY <3>1, <3>2 DEF Admission
    <3>4. Backlog(adm') => Backlog(adm)
      BY <2>2, <3>3 DEF Backlog
    <3> QED
      BY <1>1, <3>1, <3>4 DEF Awake
  <2> QED
    BY <2>1, <2>2
<1> QED
  BY <1>5, <1>6, <1>7, <1>8, <1>9, <1>10, <1>11, <1>12, <1>13, <1>14 DEF Next, CycleStep
-----------------------------------------------------------------------------
(* The invariant holds always.                                             *)

\* A store that was never opened is in order.
LEMMA InitCuration == Init => CurationInv
<1> SUFFICES ASSUME Init PROVE CurationInv
  OBVIOUS
<1> USE DEF Init
<1>0. /\ Elements(<<>>) = {} /\ <<>> \in Seq(Event) /\ <<>> \in Seq(Receipt) /\ <<>> \in Seq(Scope) /\ <<>> \in Seq(Kind)
      /\ Len(<<>>) = 0 /\ DOMAIN <<>> = {} /\ <<>> \o <<>> = <<>>
      /\ None # "worker" /\ None # "flush" /\ None # "open" /\ None # "cycle" /\ None \notin Appender
  BY CurationAssumption DEF Elements
<1>1. DiskTypeOK
  BY <1>0, CurationAssumption DEF DiskTypeOK
<1>2. MemoryTypeOK
  <2>1. run \in RunType
    BY DEF IdleRun, RunType, Pc
  <2>2. refill \in RefillType
    BY DEF NoRefill, RefillType
  <2>3. app \in [Appender -> AppType]
    BY DEF IdleApp, AppType
  <2> QED
    BY <1>0, <2>1, <2>2, <2>3 DEF MemoryTypeOK
<1>3. AdmissionOK /\ Noticed /\ NoTurnLost
  BY DEF AdmissionOK, Noticed, NoTurnLost
<1>4. run.pc = "idle" /\ run.owner = None /\ refill.holder = None /\ ~refill.filling /\ run.applied = 0
      /\ \A a \in Appender : app[a].pc = "idle"
  BY DEF IdleRun, NoRefill, IdleApp
<1>5. RunStages /\ Empty /\ AppliedOK
  BY <1>0, <1>4 DEF RunStages, Empty, AppliedOK, Cycle, Guarded, Finalizing, Early
<1>6. RefillStages
  BY <1>0, <1>4 DEF RefillStages
<1>7. ReceiptStages
  BY <1>0, <1>4 DEF ReceiptStages, Suspended, Guarded, Finalizing
<1>8. Claims = {}
  BY <1>0 DEF Claims
<1>9. Numbered /\ InSequence /\ Closed /\ Backed
  BY <1>0, <1>8 DEF Numbered, InSequence, Closed, Backed
<1>10. EffectsCounted /\ SyncedOK
  BY <1>0, <1>4 DEF EffectsCounted, SyncedOK
<1>11. LineOK /\ Settled
  BY <1>0 DEF LineOK, Settled, Owned
<1>12. Prefixes /\ Indexed /\ Recorded /\ Awake
  BY <1>0 DEF Prefixes, Complete, Indexed, Recorded, Awake, Backlog
<1> QED
  BY <1>1, <1>2, <1>3, <1>5, <1>6, <1>7, <1>9, <1>10, <1>11, <1>12 DEF CurationInv

\* Every step of hosts, worker, flush, open, crash and operator keeps it.
LEMMA CurationStep == CurationInv /\ [Next]_vars => CurationInv'
<1> SUFFICES ASSUME CurationInv, [Next]_vars PROVE CurationInv'
  OBVIOUS
<1>1. MemoryTypeOK'
  <2>1. adm' \in Admission \cup {None}
    BY AdmissionStep DEF AdmissionOK, Sound
  <2>2. run' \in RunType
    BY RunStep
  <2>3. refill' \in RefillType /\ app' \in [Appender -> AppType]
    BY RefillStageStep
  <2>4. queue' \in Seq(Event) /\ batch' \in Seq(Event)
    BY LineTypeStep
  <2>5. receipt' \in Receipt \cup {None} /\ issued' \in Nat
    BY ReceiptTypeStep
  <2>6. /\ up' \in BOOLEAN /\ poisoned' \in BOOLEAN /\ backlog' \in BOOLEAN
        /\ returned' \in SUBSET Event /\ flushed' \in SUBSET Event
    BY OtherTypeStep
  <2> QED
    BY <2>1, <2>2, <2>3, <2>4, <2>5, <2>6 DEF MemoryTypeOK
<1>2. DiskTypeOK' /\ AdmissionOK' /\ RunStages' /\ RefillStages' /\ Empty'
  BY DiskTypeStep, AdmissionStep, RunStep, RefillStageStep, EmptyStep
<1>3. ReceiptStages' /\ Numbered' /\ InSequence' /\ Closed'
  BY ReceiptStagesStep, NumberedStep, InSequenceStep, ClosedStep
<1>4. Backed' /\ EffectsCounted' /\ AppliedOK' /\ SyncedOK'
  BY BackedStep, EffectsCountedStep, AppliedStep, SyncedOKStep
<1>5. LineOK' /\ Settled' /\ NoTurnLost' /\ Prefixes'
  BY LineOKStep, SettledStep, NoTurnLostStep, PrefixesStep
<1>6. Indexed' /\ Recorded' /\ Noticed' /\ Awake'
  BY IndexedStep, RecordedStep, NoticedStep, AwakeStep
<1> QED
  BY <1>1, <1>2, <1>3, <1>4, <1>5, <1>6 DEF CurationInv

(* The inductive invariant of the life of an event: types and stages, the  *)
(* receipt in memory against the one on disk, numbered claims, counted     *)
(* effects, the line of turns, and the admission with its wake-up flag.    *)
THEOREM CurationAlways == Spec => []CurationInv
<1>1. Init => CurationInv
  BY InitCuration
<1>2. CurationInv /\ [Next]_vars => CurationInv'
  BY CurationStep
<1> QED
  BY <1>1, <1>2, PTL DEF Spec
-----------------------------------------------------------------------------
(* What the runs check.                                                    *)

(* No source is claimed twice: two receipts with different numbers, in the *)
(* history, on disk or behind an operation of the journal, share no event, *)
(* and no number is archived twice (asper_curation_begin, finalize).       *)
THEOREM ClaimedOnce == Spec => []OneClaimPerSource
<1>1. CurationInv => OneClaimPerSource
  <2> SUFFICES ASSUME CurationInv PROVE OneClaimPerSource
    OBVIOUS
  <2>1. Numbered /\ InSequence /\ archive \in Seq(Receipt)
    BY DEF CurationInv, DiskTypeOK
  <2>2. Elements(archive) \cup Elements(journal) \cup ({pending} \ {None}) \subseteq Claims
    BY DEF Claims
  <2>3. \A i, j \in DOMAIN archive : archive[i].id = archive[j].id => i = j
    <3> SUFFICES ASSUME NEW i \in DOMAIN archive, NEW j \in DOMAIN archive,
                        archive[i].id = archive[j].id, i # j
                 PROVE  FALSE
      OBVIOUS
    <3>1. i \in Nat /\ j \in Nat /\ archive[i] \in Receipt /\ archive[j] \in Receipt
      BY <2>1
    <3>2. archive[i].id \in Nat /\ archive[j].id \in Nat
      BY <3>1 DEF Receipt
    <3> QED
      BY <2>1, <3>1, <3>2 DEF InSequence
  <2> QED
    BY <2>1, <2>2, <2>3 DEF Numbered, OneClaimPerSource
<1> QED
  BY <1>1, CurationAlways, PTL

(* An event is acknowledged only under a receipt of the history all whose  *)
(* operations are on disk (cycle_epilogue syncs before                     *)
(* asper_curation_finish).                                                 *)
THEOREM AcknowledgedIsDurable == Spec => []AckNeedsDurableEffects
<1>1. CurationInv => AckNeedsDurableEffects
  BY DEF CurationInv, Backed, EffectsCounted, Count, Frames, Elements, DiskTypeOK, Receipt, AckNeedsDurableEffects
<1> QED
  BY <1>1, CurationAlways, PTL

(* The admission cursor passes no turn that is not taken care of           *)
(* (fill_scope, restore_turns).                                            *)
THEOREM NoTurnIsLost == Spec => []NoTurnLost
<1>1. CurationInv => NoTurnLost
  BY DEF CurationInv
<1> QED
  BY <1>1, CurationAlways, PTL

(* No turn is in the line twice, nor after its acknowledgement, except     *)
(* under the receipt that covers it (fill_scope, take_turns,               *)
(* restore_turns).                                                         *)
THEOREM QueuedAtMostOnce == Spec => []QueuedOnce
<1>1. CurationInv => QueuedOnce
  <2> SUFFICES ASSUME CurationInv PROVE QueuedOnce
    OBVIOUS
  <2>1. LineOK /\ Settled /\ Owned \in Seq(Event)
    BY OwnedTyped DEF CurationInv, MemoryTypeOK
  <2> DEFINE q == Owned
             n == Len(q)
  <2>2. n \in Nat /\ DOMAIN q = 1 .. n /\ q \in [1 .. n -> Elements(q)]
    BY <2>1 DEF Elements
  <2>3. \A i, j \in 1 .. n : q[i] = q[j] => i = j
    <3> SUFFICES ASSUME NEW i \in 1 .. n, NEW j \in 1 .. n, q[i] = q[j], i < j PROVE FALSE
      BY <2>2
    <3>1. q[i][2] < q[j][2]
      BY <2>1, <2>2 DEF LineOK
    <3>2. q[i] \in Event
      BY <2>1
    <3>3. q[i][2] \in Nat
      BY <3>2 DEF Event
    <3> QED
      BY <3>1, <3>3
  <2>4. \A e \in Elements(q) : \E i \in 1 .. n : q[i] = e
    BY <2>2 DEF Elements
  <2> HIDE DEF q, n
  <2>5. q \in Bijection(1 .. n, Elements(q))
    BY <2>2, <2>3, <2>4, Fun_IsBij
  <2>6. Cardinality(Elements(q)) = n
    BY <2>2, <2>5, FS_CountingElements DEF ExistsBijection
  <2> QED
    BY <2>1, <2>6 DEF q, n, Settled, QueuedOnce, Owned
<1> QED
  BY <1>1, CurationAlways, PTL

(* Acknowledgements follow the order of every log: a batch is a run of one *)
(* scope from the head of the line, and a failed one goes back there       *)
(* (take_turns, restore_turns).                                            *)
THEOREM AcknowledgedInOrder == Spec => []CuratedIsPrefix
<1>1. CurationInv => CuratedIsPrefix
  BY DEF CurationInv, Prefixes, Complete, CuratedIsPrefix
<1> QED
  BY <1>1, CurationAlways, PTL

(* When everybody rests, whatever returned and still waits in a log has    *)
(* raised the flag the worker sleeps on (publish).                         *)
THEOREM BacklogRemembered == Spec => []NoForgottenBacklog
<1>1. CurationInv => NoForgottenBacklog
  <2> SUFFICES ASSUME CurationInv, Quiescent, NEW e \in returned,
                      e \notin curated, e \notin Deferred, e \notin Elements(queue)
               PROVE  backlog
    BY DEF NoForgottenBacklog
  <2>1. /\ run.pc = "idle" /\ receipt = None /\ refill.holder = None /\ up
        /\ batch = <<>> /\ adm # None /\ queue \in Seq(Event)
    BY DEF Quiescent, CurationInv, RunStages, Empty, Suspended, Cycle, Guarded, Finalizing, MemoryTypeOK
  <2>2. e \in Curable /\ e \in Event /\ Sound(adm)
    BY <2>1 DEF CurationInv, Recorded, Curable, Turns, AdmissionOK
  <2>3. queue \o batch = queue
    BY <2>1
  <2>4. ~(e[2] <= adm.cursor[e[1]])
    BY <2>1, <2>2, <2>3 DEF CurationInv, NoTurnLost, Suspended
  <2>5. Seen(e[1], e[2])
    BY <2>1 DEF CurationInv, Noticed
  <2>6. e[1] \in Scope /\ e[2] \in Nat /\ adm.cursor[e[1]] \in Nat /\ adm.end[e[1]] \in Nat
    BY <2>2 DEF Event, Sound, Admission
  <2>7. Backlog(adm)
    BY <2>1, <2>2, <2>4, <2>5, <2>6 DEF Seen, Backlog, Sound
  <2> QED
    BY <2>1, <2>7 DEF CurationInv, Awake, Suspended, Guarded, Finalizing
<1> QED
  BY <1>1, CurationAlways, PTL
-----------------------------------------------------------------------------
(* The ledger of claims.                                                   *)

\* What the ledger sees of a receipt, of the receipt on disk, of the journal.
Stub(r) == [id |-> r.id, sources |-> r.sources]
ClaimOf(p) == IF p = None THEN {} ELSE {Stub(p)}
EffectsOf(js) == [j \in DOMAIN js |-> Stub(js[j])]
ClaimType == [id : Nat, sources : SUBSET Event]

\* The journal of the ledger is as long as the journal.
LEMMA EffectsTyped ==
    ASSUME NEW js \in Seq(Receipt)
    PROVE  /\ EffectsOf(js) \in Seq(ClaimType) /\ Len(EffectsOf(js)) = Len(js)
           /\ \A j \in 1 .. Len(js) : EffectsOf(js)[j] = Stub(js[j])
<1>1. Len(js) \in Nat /\ DOMAIN js = 1 .. Len(js) /\ \A j \in 1 .. Len(js) : js[j] \in Receipt
  OBVIOUS
<1>2. \A r \in Receipt : Stub(r) \in ClaimType
  BY DEF Receipt, ClaimType, Stub
<1> HIDE DEF Stub, ClaimType
<1>3. EffectsOf(js) = [j \in 1 .. Len(js) |-> Stub(js[j])]
  BY <1>1 DEF EffectsOf
<1>4. EffectsOf(js) \in [1 .. Len(js) -> ClaimType]
  BY <1>1, <1>2, <1>3
<1> QED
  BY <1>1, <1>3, <1>4

\* One operation more in the journal is one effect more in the ledger.
LEMMA EffectsAppend ==
    ASSUME NEW js \in Seq(Receipt), NEW r \in Receipt
    PROVE  EffectsOf(Append(js, r)) = Append(EffectsOf(js), Stub(r))
<1> DEFINE ks == Append(js, r)
           e == EffectsOf(js)
           f == Append(e, Stub(r))
<1>1. ks \in Seq(Receipt) /\ Len(ks) = Len(js) + 1 /\ Len(js) \in Nat /\ ks[Len(js) + 1] = r
      /\ \A j \in 1 .. Len(js) : ks[j] = js[j]
  OBVIOUS
<1> HIDE DEF ks
<1>2. /\ EffectsOf(ks) \in Seq(ClaimType) /\ Len(EffectsOf(ks)) = Len(js) + 1
      /\ \A j \in 1 .. Len(js) + 1 : EffectsOf(ks)[j] = Stub(ks[j])
  BY <1>1, EffectsTyped
<1>3. /\ e \in Seq(ClaimType) /\ Len(e) = Len(js)
      /\ \A j \in 1 .. Len(js) : e[j] = Stub(js[j])
  BY EffectsTyped
<1>4. Stub(r) \in ClaimType
  BY DEF Stub, ClaimType, Receipt
<1> HIDE DEF e
<1>5. f \in Seq(ClaimType) /\ Len(f) = Len(js) + 1 /\ f[Len(js) + 1] = Stub(r)
      /\ \A j \in 1 .. Len(js) : f[j] = e[j]
  BY <1>3, <1>4
<1> HIDE DEF f, Stub
<1>6. \A j \in 1 .. Len(js) + 1 : EffectsOf(ks)[j] = f[j]
  <2> SUFFICES ASSUME NEW j \in 1 .. Len(js) + 1 PROVE EffectsOf(ks)[j] = f[j]
    OBVIOUS
  <2>1. CASE j = Len(js) + 1
    BY <1>1, <1>2, <1>5, <2>1
  <2>2. CASE j \in 1 .. Len(js)
    BY <1>1, <1>2, <1>3, <1>5, <2>2
  <2> QED
    BY <1>1, <2>1, <2>2
<1>7. EffectsOf(ks) = f
  BY <1>2, <1>5, <1>6, SeqEqual
<1> QED
  BY <1>7 DEF ks, f, e

\* A journal cut short is a ledger cut short.
LEMMA EffectsCut ==
    ASSUME NEW js \in Seq(Receipt), NEW k \in 0 .. Len(js)
    PROVE  EffectsOf(SubSeq(js, 1, k)) = SubSeq(EffectsOf(js), 1, k)
<1> DEFINE ks == SubSeq(js, 1, k)
           e == EffectsOf(js)
           f == SubSeq(e, 1, k)
<1>1. ks \in Seq(Receipt) /\ Len(ks) = k /\ k \in Nat /\ Len(js) \in Nat /\ \A j \in 1 .. k : ks[j] = js[j]
  OBVIOUS
<1> HIDE DEF ks
<1>2. /\ EffectsOf(ks) \in Seq(ClaimType) /\ Len(EffectsOf(ks)) = k
      /\ \A j \in 1 .. k : EffectsOf(ks)[j] = Stub(js[j])
  BY <1>1, EffectsTyped
<1>3. /\ e \in Seq(ClaimType) /\ Len(e) = Len(js)
      /\ \A j \in 1 .. k : e[j] = Stub(js[j])
  BY <1>1, EffectsTyped
<1> HIDE DEF e
<1>5. f \in Seq(ClaimType) /\ Len(f) = k /\ \A j \in 1 .. k : f[j] = e[j]
  BY <1>1, <1>3
<1> HIDE DEF f, Stub
<1>6. EffectsOf(ks) = f
  BY <1>1, <1>2, <1>3, <1>5, SeqEqual
<1> QED
  BY <1>6 DEF ks, f, e

\* An empty store is an empty ledger.
LEMMA InitLedger == Init => Ledger!Init
<1> SUFFICES ASSUME Init PROVE Ledger!Init
  OBVIOUS
<1>1. journal = <<>> /\ <<>> \in Seq(Receipt) /\ pending = None /\ curated = {}
  BY DEF Init
<1>2. EffectsOf(<<>>) = <<>>
  <2>1. EffectsOf(<<>>) \in Seq(ClaimType) /\ Len(EffectsOf(<<>>)) = Len(<<>>)
    BY <1>1, EffectsTyped
  <2>2. Len(<<>>) = 0
    OBVIOUS
  <2> QED
    BY <2>1, <2>2, EmptySeq
<1>3. \A s \in Scope : log[s] = <<>> /\ Len(<<>>) = 0
  BY DEF Init
<1>4. Turns = {}
  BY <1>3 DEF Turns, Event
<1> QED
  BY <1>1, <1>2, <1>4 DEF Ledger!Init, EffectsOf, Stub

\* The same claims, effects and acknowledgements: at most events are recorded.
LEMMA OnlyRecords ==
    ASSUME CurationInv, [Next]_vars, ClaimOf(pending') = ClaimOf(pending),
           UNCHANGED <<journal, curated>>
    PROVE  Ledger!Next
<1>1. Turns \subseteq Turns' /\ Turns' \subseteq Event
  BY TurnsGrow DEF Turns
<1> QED
  BY <1>1 DEF Ledger!Next, Ledger!Record, ClaimOf, Stub

\* The receipt that is written opens a claim of its own.
LEMMA ClaimOpens ==
    ASSUME CurationInv, run.pc = "begin", pending' = Prepared, UNCHANGED <<log, journal, curated>>
    PROVE  Ledger!Next
<1>0. /\ DiskTypeOK /\ MemoryTypeOK /\ LineOK /\ Numbered /\ pending = None
      /\ Elements(batch) \cap curated = {}
  BY BatchFresh DEF CurationInv
<1>1. Turns' = Turns
  BY DEF Turns
<1>2. Elements(batch) \subseteq Turns
  <2>1. Elements(Owned) = Elements(batch) \cup Elements(queue)
    BY <1>0, ElementsConcat DEF Owned, MemoryTypeOK
  <2> QED
    BY <1>0, <2>1 DEF LineOK, Curable
<1>3. Prepared \in Receipt /\ Stub(Prepared) = [id |-> issued + 1, sources |-> Elements(batch)]
  BY <1>0, ReceiptsTyped DEF Prepared, Stub
<1>4. \A j \in DOMAIN journal : journal[j].id # issued + 1
  <2> SUFFICES ASSUME NEW j \in DOMAIN journal PROVE journal[j].id # issued + 1
    OBVIOUS
  <2>1. journal[j] \in Claims /\ journal[j] \in Receipt
    BY <1>0 DEF Claims, Elements, DiskTypeOK
  <2>2. journal[j].id <= issued /\ journal[j].id \in Nat /\ issued \in Nat
    BY <1>0, <2>1 DEF Numbered, Receipt, MemoryTypeOK
  <2> QED
    BY <2>2
<1> DEFINE c == [id |-> issued + 1, sources |-> Elements(batch)]
<1>5. ClaimOf(pending) = {} /\ ClaimOf(pending') = {c}
  <2>1. Prepared # None
    BY <1>3, CurationAssumption
  <2> QED
    BY <1>0, <1>3, <2>1 DEF ClaimOf
<1>6. Ledger!Claim
  <2>1. c.sources \subseteq Turns \ curated
    BY <1>0, <1>2
  <2>2. \A j \in DOMAIN EffectsOf(journal) : EffectsOf(journal)[j].id # c.id
    BY <1>4 DEF EffectsOf, Stub
  <2> QED
    BY <1>1, <1>5, <2>1, <2>2 DEF Ledger!Claim, ClaimOf, EffectsOf, Stub
<1> QED
  BY <1>6 DEF Ledger!Next

\* An operation in the journal is an effect of the claim that is open.
LEMMA EffectJoins ==
    ASSUME CurationInv, run.pc = "ops", journal' = Append(journal, receipt),
           UNCHANGED <<log, pending, curated>>
    PROVE  Ledger!Next
<1>0. /\ receipt \in Receipt /\ pending = receipt /\ receipt # None /\ journal \in Seq(Receipt)
      /\ receipt.sources = Elements(batch) /\ receipt.sources \cap curated = {} /\ batch # <<>>
      /\ batch \in Seq(Event)
  BY InHand DEF CurationInv, RunStages, ReceiptStages, Empty, DiskTypeOK, MemoryTypeOK, Cycle, Guarded, Finalizing
<1>1. Turns' = Turns
  BY DEF Turns
<1>2. receipt.sources # {}
  <2>1. 1 \in DOMAIN batch
    BY <1>0
  <2> QED
    BY <1>0, <2>1 DEF Elements
<1>3. EffectsOf(journal') = Append(EffectsOf(journal), Stub(receipt))
  BY <1>0, EffectsAppend
<1>4. ClaimOf(pending) = {Stub(receipt)}
  BY <1>0 DEF ClaimOf
<1>5. ~(Stub(receipt).sources \subseteq curated)
  BY <1>0, <1>2 DEF Stub
<1>6. Ledger!Effect
  <2>1. Ledger!Open(Stub(receipt))
    BY <1>4, <1>5 DEF Ledger!Open, ClaimOf, Stub
  <2>2. UNCHANGED <<Turns, ClaimOf(pending), curated>>
    BY <1>1 DEF ClaimOf, Stub
  <2> QED
    BY <1>3, <1>4, <2>1, <2>2 DEF Ledger!Effect, ClaimOf, EffectsOf, Stub
<1> QED
  BY <1>6 DEF Ledger!Next

\* What a crash takes back of the journal are effects of the claim on disk.
LEMMA CrashLoses ==
    ASSUME CurationInv, LoseUnsynced, UNCHANGED <<log, pending, curated>>
    PROVE  Ledger!Next
<1>0. DiskTypeOK /\ SyncedOK /\ Numbered /\ journal \in Seq(Receipt) /\ synced \in Nat /\ Len(journal) \in Nat
  BY DEF CurationInv, DiskTypeOK
<1>1. Turns' = Turns
  BY DEF Turns
<1>2. PICK k \in synced .. Len(journal) : journal' = SubSeq(journal, 1, k)
  BY DEF LoseUnsynced
<1>3. k \in 0 .. Len(journal)
  BY <1>0
<1>4. EffectsOf(journal') = SubSeq(EffectsOf(journal), 1, k)
  BY <1>0, <1>2, <1>3, EffectsCut
<1>5. Len(EffectsOf(journal)) = Len(journal) /\ \A j \in 1 .. Len(journal) : EffectsOf(journal)[j] = Stub(journal[j])
  BY <1>0, EffectsTyped
<1>6. ASSUME NEW j \in k + 1 .. Len(journal) PROVE Ledger!Open(EffectsOf(journal)[j])
  <2>1. j \in synced + 1 .. Len(journal) /\ j \in 1 .. Len(journal) /\ j \in DOMAIN journal
    BY <1>0, <1>3
  <2>2. /\ pending # None /\ journal[j].id = pending.id /\ ~(journal[j].sources \subseteq curated)
    BY <1>0, <2>1 DEF SyncedOK
  <2>3. journal[j] \in Claims /\ pending \in Claims
    BY <2>1, <2>2 DEF Claims, Elements
  <2>4. journal[j].sources = pending.sources
    BY <1>0, <2>2, <2>3 DEF Numbered
  <2>5. Stub(journal[j]) = Stub(pending) /\ ClaimOf(pending) = {Stub(pending)}
    BY <2>2, <2>4 DEF Stub, ClaimOf
  <2>6. ~(Stub(pending).sources \subseteq curated)
    BY <2>2, <2>4 DEF Stub
  <2> QED
    BY <1>5, <2>1, <2>5, <2>6 DEF Ledger!Open, ClaimOf, Stub
<1>7. Ledger!Lose(k)
  <2>1. UNCHANGED <<Turns, ClaimOf(pending), curated>>
    BY <1>1 DEF ClaimOf, Stub
  <2> QED
    BY <1>4, <1>5, <1>6, <2>1 DEF Ledger!Lose, ClaimOf, EffectsOf, Stub
<1> QED
  BY <1>3, <1>5, <1>7 DEF Ledger!Next, EffectsOf, Stub

\* The sources of the claim are acknowledged.
LEMMA ClaimAcknowledged ==
    ASSUME CurationInv, run.pc = "mark", curated' = Acknowledged, UNCHANGED <<log, pending, journal>>
    PROVE  Ledger!Next
<1>0. receipt \in Receipt /\ pending = receipt /\ receipt # None
  BY InHand DEF CurationInv, ReceiptStages, Guarded, Finalizing
<1>1. Turns' = Turns
  BY DEF Turns
<1>2. ClaimOf(pending) = {Stub(receipt)} /\ Stub(receipt).sources = receipt.sources
  BY <1>0 DEF ClaimOf, Stub
<1>3. curated' = curated \cup Stub(receipt).sources
  BY <1>2 DEF Acknowledged
<1> QED
  BY <1>1, <1>2, <1>3 DEF Ledger!Next, Ledger!Acknowledge, ClaimOf, EffectsOf, Stub

\* The receipt is removed from disk after its sources are acknowledged.
LEMMA ClaimCloses ==
    ASSUME CurationInv, run.pc = "remove", pending' = None, UNCHANGED <<log, curated, journal>>
    PROVE  Ledger!Next
<1>0. receipt \in Receipt /\ pending = receipt /\ receipt # None /\ receipt.sources \subseteq curated
  BY InHand DEF CurationInv, ReceiptStages, Guarded, Finalizing
<1>1. Turns' = Turns
  BY DEF Turns
<1>2. ClaimOf(pending) = {Stub(receipt)} /\ Stub(receipt).sources \subseteq curated /\ ClaimOf(pending') = {}
  BY <1>0 DEF ClaimOf, Stub
<1> QED
  BY <1>1, <1>2 DEF Ledger!Next, Ledger!CloseClaim, ClaimOf, EffectsOf, Stub

\* Every step is one of the ledger or leaves it alone.
LEMMA LedgerStep == CurationInv /\ [Next]_vars => Ledger!Next
<1> SUFFICES ASSUME CurationInv, [Next]_vars PROVE Ledger!Next
  OBVIOUS
<1>0. /\ run.pc \in Guarded => receipt \in Receipt /\ pending = receipt /\ receipt # None
      /\ Guarded = {"ops", "finish", "archive", "mark", "remove"}
  BY InHand DEF CurationInv, ReceiptStages, Guarded, Finalizing
<1>1. CASE UNCHANGED Filed \/ Epilogue \/ EpilogueFails \/ ArchiveReceipt \/ OpenFails \/ Recover
  <2>1. UNCHANGED <<pending, journal, curated>>
    BY <1>1 DEF Filed, Epilogue, EpilogueFails, ArchiveReceipt, OpenFails, Recover, disk
  <2>2. ClaimOf(pending') = ClaimOf(pending)
    BY <2>1
  <2> QED
    BY <2>1, <2>2, OnlyRecords
<1>2. CASE Begin \/ BeginFails
  <2>1. run.pc = "begin" /\ (pending' = Prepared \/ pending' = pending) /\ UNCHANGED <<log, journal, curated>>
    BY <1>2 DEF Begin, BeginFails
  <2>2. CASE pending' = pending
    BY <2>1, <2>2, OnlyRecords
  <2> QED
    BY <2>1, <2>2, ClaimOpens
<1>3. CASE ApplyOp \/ RejectOp
  <2>1. run.pc = "ops" /\ (journal' = Append(journal, receipt) \/ journal' = journal) /\ UNCHANGED <<log, pending, curated>>
    BY <1>3 DEF ApplyOp, RejectOp, OpsLeft
  <2>2. CASE journal' = journal
    BY <2>1, <2>2, OnlyRecords
  <2> QED
    BY <2>1, <2>2, EffectJoins
<1>4. CASE Finish \/ FinishFails
  <2>1. run.pc = "finish" /\ (pending' = Processed \/ pending' = pending) /\ UNCHANGED <<log, journal, curated>>
    BY <1>4 DEF Finish, FinishFails
  <2>2. receipt \in Receipt /\ pending = receipt
    BY <1>0, <2>1
  <2>3. Processed.id = receipt.id /\ Processed.sources = receipt.sources /\ Processed # None /\ receipt # None
    BY <2>2, ReceiptsTyped, CurationAssumption DEF CurationInv, Processed, Receipt
  <2>4. ClaimOf(pending') = ClaimOf(pending)
    BY <2>1, <2>2, <2>3 DEF ClaimOf, Stub
  <2> QED
    BY <2>1, <2>4, OnlyRecords
<1>5. CASE MarkCurated
  BY <1>5, ClaimAcknowledged DEF MarkCurated
<1>6. CASE RemoveReceipt
  BY <1>6, ClaimCloses DEF RemoveReceipt
<1>7. CASE FinalizeFails
  <2>1. UNCHANGED <<log, journal>>
    BY <1>7 DEF FinalizeFails
  <2>2. \/ UNCHANGED <<curated, pending>>
        \/ run.pc = "mark" /\ curated' \in {curated, Acknowledged} /\ UNCHANGED pending
        \/ run.pc = "remove" /\ pending' \in {pending, None} /\ UNCHANGED curated
    BY <1>7 DEF FinalizeFails
  <2>3. CASE UNCHANGED <<curated, pending>>
    BY <2>1, <2>3, OnlyRecords
  <2>4. CASE run.pc = "mark" /\ curated' = Acknowledged /\ UNCHANGED pending
    BY <2>1, <2>4, ClaimAcknowledged
  <2>5. CASE run.pc = "remove" /\ pending' = None /\ UNCHANGED curated
    BY <2>1, <2>5, ClaimCloses
  <2> QED
    BY <2>2, <2>3, <2>4, <2>5
<1>8. CASE Crash \/ Close
  <2>1. UNCHANGED <<log, pending, curated>> /\ (LoseUnsynced \/ journal' = journal)
    BY <1>8 DEF Crash, Close
  <2>2. CASE journal' = journal
    BY <2>1, <2>2, OnlyRecords
  <2> QED
    BY <2>1, <2>2, CrashLoses
<1>9. CASE OperatorAcknowledge
  <2>1. /\ pending # None /\ pending' = [pending EXCEPT !.outcome = "interrupted"]
        /\ UNCHANGED <<log, journal, curated>>
    BY <1>9 DEF OperatorAcknowledge
  <2>2. pending \in Receipt /\ pending' \in Receipt /\ pending'.id = pending.id /\ pending'.sources = pending.sources
    BY <2>1 DEF CurationInv, DiskTypeOK, Receipt
  <2>3. pending' # None
    BY <2>2, CurationAssumption
  <2>4. ClaimOf(pending') = ClaimOf(pending)
    BY <2>1, <2>2, <2>3 DEF ClaimOf, Stub
  <2> QED
    BY <2>1, <2>4, OnlyRecords
<1> QED
  BY <1>1, <1>2, <1>3, <1>4, <1>5, <1>6, <1>7, <1>8, <1>9, FilingSteps

(* The curation of events implements the ledger of claims: over crashes,   *)
(* failed writes and the operator's acknowledgement one claim at most ever *)
(* touches an event, and what a closed claim did stays done.               *)
THEOREM ImplementsLedger == Spec => LedgerSpec
<1>1. CurationInv /\ [Next]_vars => [Ledger!Next]_(Ledger!vars)
  BY LedgerStep
<1> QED
  BY <1>1, InitLedger, CurationAlways, PTL DEF Spec, LedgerSpec, Ledger!Spec
-----------------------------------------------------------------------------
(* What is left for a flush to do.                                         *)

\* The turns an admission has yet to take from a scope.
Ahead(a, s) == a.end[s] - a.cursor[s]

\* The work left is at least that of any known scope.
LEMMA LeftAbove ==
    ASSUME NEW a, Sound(a), NEW s \in Elements(a.known)
    PROVE  Ahead(a, s) \in Nat /\ Ahead(a, s) <= Left(a)
<1> DEFINE N == Len(a.known)
           D(n) == a.end[a.known[n]] - a.cursor[a.known[n]]
<1>1. a \in Admission /\ N \in Nat /\ \A n \in 1 .. N : a.known[n] \in Scope
  BY DEF Sound, Admission
<1>2. \A n \in 1 .. N : D(n) \in Nat
  BY <1>1 DEF Sound, Admission
<1>3. PICK f \in [0 .. N -> Nat] :
          f[0] = 0 /\ Left(a) = f[N] /\ \A n \in 1 .. N : f[n] = f[n - 1] + D(n)
  BY <1>1, LeftSum DEF Sound
<1>4. PICK m \in 1 .. N : a.known[m] = s
  BY <1>1 DEF Elements, Admission
<1> HIDE DEF D
<1> DEFINE S == {n \in 0 .. N : n >= m => D(m) <= f[n]}
<1>5. 0 \in S
  BY <1>1
<1>6. ASSUME NEW n \in 1 .. N, n - 1 \in S PROVE n \in S
  <2>1. n \in 0 .. N /\ n - 1 \in 0 .. N /\ n \in Nat /\ m \in Nat
    BY <1>1
  <2>2. f[n] = f[n - 1] + D(n) /\ f[n - 1] \in Nat /\ D(n) \in Nat /\ D(m) \in Nat
    BY <1>2, <1>3, <2>1
  <2>3. CASE n = m
    BY <2>1, <2>2, <2>3
  <2>4. CASE n # m
    <3>1. n >= m => n - 1 >= m
      BY <2>1, <2>4
    <3> QED
      BY <1>6, <2>1, <2>2, <3>1
  <2> QED
    BY <2>3, <2>4
<1>7. N \in S
  <2> HIDE DEF S
  <2>1. \A n \in 0 .. N : n \in S
    BY <1>1, <1>5, <1>6, UpTo, Zenon
  <2> QED
    BY <1>1, <2>1
<1>8. D(m) <= Left(a) /\ D(m) \in Nat
  BY <1>1, <1>2, <1>3, <1>7
<1> QED
  BY <1>4, <1>8 DEF D, Ahead

\* Where no scope has more left, there is no more left, and less where a scope
\* has less.
LEMMA LeftMonotonic ==
    ASSUME NEW a, NEW b, Sound(a), Sound(b), b.known = a.known,
           \A s \in Elements(a.known) : Ahead(b, s) <= Ahead(a, s)
    PROVE  /\ Left(a) \in Nat /\ Left(b) \in Nat /\ Left(b) <= Left(a)
           /\ (\E s \in Elements(a.known) : Ahead(b, s) < Ahead(a, s)) => Left(b) < Left(a)
<1> DEFINE N == Len(a.known)
           D(n) == a.end[a.known[n]] - a.cursor[a.known[n]]
           C(n) == b.end[a.known[n]] - b.cursor[a.known[n]]
<1>1. a \in Admission /\ b \in Admission /\ N \in Nat /\ \A n \in 1 .. N : a.known[n] \in Scope
  BY DEF Sound, Admission
<1>2. \A n \in 1 .. N : D(n) \in Nat /\ C(n) \in Nat
  <2>1. \A s \in Scope : a.end[s] - a.cursor[s] \in Nat
    BY <1>1 DEF Sound, Admission
  <2>2. \A s \in Scope : b.end[s] - b.cursor[s] \in Nat
    BY <1>1 DEF Sound, Admission
  <2> QED
    BY <1>1, <2>1, <2>2
<1>3. PICK f \in [0 .. N -> Nat] :
          f[0] = 0 /\ Left(a) = f[N] /\ \A n \in 1 .. N : f[n] = f[n - 1] + D(n)
  BY <1>1, LeftSum DEF Sound
<1>4. PICK g \in [0 .. N -> Nat] :
          g[0] = 0 /\ Left(b) = g[N] /\ \A n \in 1 .. N : g[n] = g[n - 1] + C(n)
  <2>1. \A s \in Scope : b.cursor[s] <= b.end[s]
    BY DEF Sound
  <2>2. \E g \in [0 .. Len(b.known) -> Nat] :
            /\ g[0] = 0 /\ Left(b) = g[Len(b.known)]
            /\ \A n \in 1 .. Len(b.known) :
                   g[n] = g[n - 1] + (b.end[b.known[n]] - b.cursor[b.known[n]])
    BY <1>1, <2>1, LeftSum
  <2> QED
    BY <2>2
<1>5. \A n \in 1 .. N : C(n) <= D(n)
  <2>1. \A n \in 1 .. N : a.known[n] \in Elements(a.known)
    BY <1>1 DEF Elements, Admission
  <2> QED
    BY <2>1 DEF Ahead
<1> HIDE DEF C, D
<1>6. \A n \in 0 .. N : g[n] <= f[n]
  <2> DEFINE S == {n \in 0 .. N : g[n] <= f[n]}
  <2>1. 0 \in S
    BY <1>1, <1>3, <1>4
  <2>2. ASSUME NEW n \in 1 .. N, n - 1 \in S PROVE n \in S
    <3>1. n \in 0 .. N /\ n - 1 \in 0 .. N
      BY <1>1
    <3>2. /\ f[n] = f[n - 1] + D(n) /\ f[n - 1] \in Nat /\ D(n) \in Nat
          /\ g[n] = g[n - 1] + C(n) /\ g[n - 1] \in Nat /\ C(n) \in Nat
      BY <1>2, <1>3, <1>4, <3>1
    <3> QED
      BY <1>5, <2>2, <3>1, <3>2
  <2> HIDE DEF S
  <2>3. \A n \in 0 .. N : n \in S
    BY <1>1, <2>1, <2>2, UpTo, Zenon
  <2> QED
    BY <2>3 DEF S
<1>7. ASSUME NEW m \in 1 .. N, C(m) < D(m) PROVE g[N] < f[N]
  <2> DEFINE S == {n \in 0 .. N : n >= m => g[n] < f[n]}
  <2>1. 0 \in S
    BY <1>1
  <2>2. ASSUME NEW n \in 1 .. N, n - 1 \in S PROVE n \in S
    <3>1. n \in 0 .. N /\ n - 1 \in 0 .. N /\ n \in Nat /\ m \in Nat
      BY <1>1
    <3>2. /\ f[n] = f[n - 1] + D(n) /\ f[n - 1] \in Nat /\ D(n) \in Nat
          /\ g[n] = g[n - 1] + C(n) /\ g[n - 1] \in Nat /\ C(n) \in Nat
      BY <1>2, <1>3, <1>4, <3>1
    <3>3. CASE n = m
      <4>1. g[n - 1] <= f[n - 1] /\ C(n) < D(n)
        BY <1>6, <1>7, <3>1, <3>3
      <4>2. g[n] < f[n]
        BY <3>2, <4>1
      <4> QED
        BY <3>1, <4>2
    <3>4. CASE n # m
      <4>1. n >= m => n - 1 >= m
        BY <3>1, <3>4
      <4> QED
        BY <1>5, <2>2, <3>1, <3>2, <4>1
    <3> QED
      BY <3>3, <3>4
  <2>3. N \in S
    <3> HIDE DEF S
    <3>1. \A n \in 0 .. N : n \in S
      BY <1>1, <2>1, <2>2, UpTo, Zenon
    <3> QED
      BY <1>1, <3>1
  <2> QED
    BY <1>1, <2>3
<1>8. N \in 0 .. N /\ f[N] \in Nat /\ g[N] \in Nat
  BY <1>1
<1>9. ASSUME NEW s \in Elements(a.known), Ahead(b, s) < Ahead(a, s) PROVE Left(b) < Left(a)
  <2>1. PICK m \in 1 .. N : a.known[m] = s
    BY <1>1 DEF Elements, Admission
  <2>2. C(m) < D(m)
    BY <1>9, <2>1 DEF C, D, Ahead
  <2> QED
    BY <1>3, <1>4, <1>7, <2>2
<1> QED
  BY <1>3, <1>4, <1>6, <1>8, <1>9

\* A scope that joins with nothing ahead adds nothing.
LEMMA LeftJoined ==
    ASSUME NEW a, Sound(a), NEW s \in Scope
    PROVE  Left(AddScope(a, s)) = Left(a)
<1> DEFINE b == AddScope(a, s)
           N == Len(a.known)
           D(n) == a.end[a.known[n]] - a.cursor[a.known[n]]
<1>1. a \in Admission /\ N \in Nat /\ a.known \in Seq(Scope)
  BY DEF Sound, Admission
<1>2. Sound(b) /\ b.cursor = a.cursor /\ b.end = a.end /\ b \in Admission
  BY AddScopeSound DEF Sound
<1>3. b.known = IF s \in Elements(a.known) THEN a.known ELSE Append(a.known, s)
  BY <1>1 DEF AddScope, Admission
<1> HIDE DEF b
<1>4. CASE s \in Elements(a.known)
  <2>1. b.known = a.known
    BY <1>3, <1>4
  <2>2. \A t \in Elements(a.known) : Ahead(b, t) <= Ahead(a, t) /\ Ahead(a, t) <= Ahead(b, t)
    <3>1. \A t \in Elements(a.known) : Ahead(a, t) \in Nat /\ Ahead(b, t) = Ahead(a, t)
      BY <1>2, LeftAbove DEF Ahead
    <3> QED
      BY <3>1
  <2>3. Left(b) <= Left(a) /\ Left(a) \in Nat /\ Left(b) \in Nat
    BY <1>2, <2>1, <2>2, LeftMonotonic
  <2>4. Left(a) <= Left(b)
    BY <1>2, <2>1, <2>2, LeftMonotonic
  <2> QED
    BY <2>3, <2>4 DEF b
<1>5. CASE s \notin Elements(a.known)
  <2>1. b.known = Append(a.known, s)
    BY <1>3, <1>5
  <2>2. Len(b.known) = N + 1 /\ b.known[N + 1] = s /\ \A n \in 1 .. N : b.known[n] = a.known[n]
    BY <1>1, <2>1
  <2>3. a.end[s] = a.cursor[s] /\ a.end[s] \in Nat
    BY <1>1, <1>5 DEF Sound, Admission
  <2>4. PICK f \in [0 .. N -> Nat] :
            f[0] = 0 /\ Left(a) = f[N] /\ \A n \in 1 .. N : f[n] = f[n - 1] + D(n)
    BY <1>1, LeftSum DEF Sound
  <2>5. PICK g \in [0 .. N + 1 -> Nat] :
            /\ g[0] = 0 /\ Left(b) = g[N + 1]
            /\ \A n \in 1 .. N + 1 : g[n] = g[n - 1] + (a.end[b.known[n]] - a.cursor[b.known[n]])
    <3>1. \A t \in Scope : b.cursor[t] <= b.end[t]
      BY <1>2 DEF Sound
    <3>2. \E g \in [0 .. Len(b.known) -> Nat] :
              /\ g[0] = 0 /\ Left(b) = g[Len(b.known)]
              /\ \A n \in 1 .. Len(b.known) :
                     g[n] = g[n - 1] + (b.end[b.known[n]] - b.cursor[b.known[n]])
      BY <1>2, <3>1, LeftSum
    <3>3. Len(b.known) = N + 1
      BY <2>2
    <3>4. \E g \in [0 .. N + 1 -> Nat] :
              /\ g[0] = 0 /\ Left(b) = g[N + 1]
              /\ \A n \in 1 .. N + 1 :
                     g[n] = g[n - 1] + (b.end[b.known[n]] - b.cursor[b.known[n]])
      BY <3>2, <3>3, Zenon
    <3>5. b.end = a.end /\ b.cursor = a.cursor
      BY <1>2
    <3> QED
      BY <3>4, <3>5, Zenon
  <2>6. \A n \in 1 .. N : g[n] = g[n - 1] + D(n)
    <3> SUFFICES ASSUME NEW n \in 1 .. N PROVE g[n] = g[n - 1] + D(n)
      OBVIOUS
    <3>1. n \in 1 .. N + 1
      BY <1>1
    <3> QED
      BY <2>2, <2>5, <3>1
  <2>7. g[N + 1] = g[N]
    <3>1. N + 1 \in 1 .. N + 1 /\ (N + 1) - 1 = N /\ N \in 0 .. N + 1
      BY <1>1
    <3>2. g[N + 1] = g[N] + (a.end[s] - a.cursor[s]) /\ g[N] \in Nat
      BY <2>2, <2>5, <3>1
    <3> QED
      BY <2>3, <3>2
  <2> HIDE DEF D
  <2> DEFINE S == {n \in 0 .. N : g[n] = f[n]}
  <2>8. 0 \in S
    BY <1>1, <2>4, <2>5
  <2>9. ASSUME NEW n \in 1 .. N, n - 1 \in S PROVE n \in S
    <3>1. n \in 0 .. N
      BY <1>1
    <3> QED
      BY <2>4, <2>6, <2>9, <3>1
  <2>10. N \in S
    <3> HIDE DEF S
    <3>1. \A n \in 0 .. N : n \in S
      BY <1>1, <2>8, <2>9, UpTo, Zenon
    <3> QED
      BY <1>1, <3>1
  <2> QED
    BY <2>4, <2>5, <2>7, <2>10 DEF b
<1> QED
  BY <1>4, <1>5

\* Nor does it matter where the next refill starts, or what is due for a look.
LEMMA LeftSame ==
    ASSUME NEW a, NEW b, Sound(a), Sound(b),
           b.known = a.known, b.cursor = a.cursor, b.end = a.end
    PROVE  Left(a) \in Nat /\ Left(b) = Left(a)
<1>1. \A s \in Elements(a.known) : Ahead(b, s) = Ahead(a, s)
  BY DEF Ahead
<1>2. \A s \in Elements(a.known) : Ahead(a, s) \in Nat
  BY LeftAbove
<1>3. \A s \in Elements(a.known) : Ahead(b, s) <= Ahead(a, s)
  BY <1>1, <1>2
<1>4. \A s \in Elements(b.known) : Ahead(a, s) <= Ahead(b, s)
  BY <1>1, <1>2
<1>5. Left(a) \in Nat /\ Left(b) \in Nat /\ Left(b) <= Left(a)
  BY <1>3, LeftMonotonic
<1>6. Left(a) <= Left(b)
  BY <1>4, LeftMonotonic
<1> QED
  BY <1>5, <1>6

\* An event that passes leaves less.
LEMMA LeftFilled ==
    ASSUME CurationInv, FillEvent
    PROVE  Left(adm) \in Nat /\ Left(adm') \in Nat /\ Left(adm') + 1 <= Left(adm)
<1>1. CanFill /\ adm' = [adm EXCEPT !.cursor[Current] = @ + 1]
  BY DEF FillEvent
<1>2. /\ CurrentOK /\ Sound(adm') /\ adm'.known = adm.known /\ adm'.end = adm.end
      /\ adm'.cursor = [adm.cursor EXCEPT ![Current] = @ + 1]
  BY <1>1, FillSound
<1>3. Sound(adm) /\ Current \in Scope /\ Current \in Elements(adm.known)
      /\ adm.cursor \in [Scope -> Nat] /\ adm.end \in [Scope -> Nat]
      /\ Elements(adm.known) \subseteq Scope
  BY <1>2 DEF CurrentOK, Sound, Admission, Elements
<1>4. /\ adm'.cursor[Current] = adm.cursor[Current] + 1
      /\ \A s \in Scope : s # Current => adm'.cursor[s] = adm.cursor[s]
  BY <1>2, <1>3
<1>5. \A s \in Elements(adm.known) : Ahead(adm', s) <= Ahead(adm, s)
  <2> SUFFICES ASSUME NEW s \in Elements(adm.known) PROVE Ahead(adm', s) <= Ahead(adm, s)
    OBVIOUS
  <2>1. adm.end[s] \in Nat /\ adm.cursor[s] \in Nat
    BY <1>3
  <2>2. adm'.cursor[s] = adm.cursor[s] \/ adm'.cursor[s] = adm.cursor[s] + 1
    BY <1>3, <1>4
  <2> QED
    BY <1>2, <2>1, <2>2 DEF Ahead
<1>6. Ahead(adm', Current) < Ahead(adm, Current)
  <2>1. adm.end[Current] \in Nat /\ adm.cursor[Current] \in Nat
    BY <1>3
  <2> QED
    BY <1>2, <1>4, <2>1 DEF Ahead
<1>7. Left(adm) \in Nat /\ Left(adm') \in Nat /\ Left(adm') < Left(adm)
  BY <1>2, <1>3, <1>5, <1>6, LeftMonotonic
<1> QED
  BY <1>7

\* A frozen admission keeps its endpoints until the flush lets go, and no
\* append adds to what is left of it.
LEMMA FrozenSteps ==
    ASSUME CurationInv, [Next]_vars, adm # None, adm.frozen, ~EmptyMemory, ~FlushCapture, ~FlushRelease
    PROVE  /\ adm' # None /\ Sound(adm') /\ adm'.frozen /\ adm'.end = adm.end
           /\ ~FillEvent => adm'.cursor = adm.cursor
           /\ Left(adm) \in Nat /\ Left(adm') \in Nat /\ Left(adm') <= Left(adm)
           /\ FillEvent => Left(adm') + 1 <= Left(adm)
<1> DEFINE Kept == /\ adm' # None /\ Sound(adm') /\ adm'.frozen /\ adm'.end = adm.end
                   /\ ~FillEvent => adm'.cursor = adm.cursor
                   /\ Left(adm) \in Nat /\ Left(adm') \in Nat /\ Left(adm') <= Left(adm)
                   /\ FillEvent => Left(adm') + 1 <= Left(adm)
<1> SUFFICES Kept
  OBVIOUS
<1>0. Sound(adm) /\ Opened = adm /\ adm \in Admission /\ DiskTypeOK
  BY DEF CurationInv, AdmissionOK, Sound, Opened
<1>1. Left(adm) \in Nat
  BY <1>0, LeftSame
<1>2. ASSUME NEW b, adm' = b, Sound(b), b.frozen, b.end = adm.end, b.cursor = adm.cursor,
             Left(b) = Left(adm), ~FillEvent
      PROVE  Kept
  <2>1. adm' # None
    BY <1>2, NotNone DEF Sound
  <2> QED
    BY <1>1, <1>2, <2>1
<1>3. CASE FillEvent
  <2>1. CanFill /\ adm' = [adm EXCEPT !.cursor[Current] = @ + 1]
    BY <1>3 DEF FillEvent
  <2>2. Sound(adm') /\ adm'.frozen = adm.frozen /\ adm'.end = adm.end
    BY <2>1, FillSound
  <2>3. adm' # None
    BY <2>2, NotNone DEF Sound
  <2>4. Left(adm) \in Nat /\ Left(adm') \in Nat /\ Left(adm') + 1 <= Left(adm)
    BY <1>3, LeftFilled
  <2> QED
    BY <1>3, <2>2, <2>3, <2>4
<1>4. CASE ~FillEvent /\ adm' = adm
  BY <1>0, <1>2, <1>4, Zenon
<1>5. ASSUME ~FillEvent, adm' = AfterVisit(adm), adm.known # <<>> PROVE Kept
  <2> DEFINE b == AfterVisit(adm)
  <2>1. /\ Sound(b) /\ b.cursor = adm.cursor /\ b.end = adm.end /\ b.frozen = adm.frozen
        /\ b.known = adm.known
    BY <1>0, <1>5, AfterVisitSound
  <2> HIDE DEF b
  <2>2. Left(b) = Left(adm)
    BY <1>0, <2>1, LeftSame
  <2>3. adm' = b
    BY <1>5 DEF b
  <2> HIDE DEF Kept
  <2> QED
    BY <1>2, <1>5, <2>1, <2>2, <2>3
<1>6. ASSUME ~FillEvent, NEW a \in Appender, NoteScope(a) PROVE Kept
  <2> DEFINE b == AddScope(adm, app[a].scope)
  <2>1. app[a].scope \in Scope
    BY <1>6 DEF NoteScope, CurationInv, RefillStages
  <2>2. Sound(b) /\ b.cursor = adm.cursor /\ b.end = adm.end /\ b.frozen = adm.frozen
    BY <1>0, <2>1, AddScopeSound
  <2>3. Left(b) = Left(adm)
    BY <1>0, <2>1, LeftJoined
  <2>4. b = AddScope(Opened, app[a].scope)
    BY <1>0
  <2> HIDE DEF b, Kept
  <2>5. adm' = b
    BY <1>6, <2>2, <2>4 DEF NoteScope
  <2> QED
    BY <1>2, <1>6, <2>2, <2>3, <2>5
<1>7. ASSUME ~FillEvent, NEW a \in Appender, NoteFails(a) PROVE Kept
  <2> DEFINE b == [adm EXCEPT !.dirty = TRUE]
  <2>1. /\ b \in Admission /\ b.cursor = adm.cursor /\ b.end = adm.end /\ b.frozen = adm.frozen
        /\ b.known = adm.known /\ b.refresh = adm.refresh /\ b.next = adm.next
    BY <1>0 DEF Admission
  <2>2. adm' = b
    BY <1>7 DEF NoteFails
  <2> HIDE DEF b, Kept
  <2>3. Sound(b)
    BY <1>0, <2>1 DEF Sound
  <2>4. Left(b) = Left(adm)
    BY <1>0, <2>1, <2>3, LeftSame
  <2> QED
    BY <1>2, <1>7, <2>1, <2>2, <2>3, <2>4
<1>8. ASSUME ~FillEvent, RefillScope PROVE Kept
  <2>1. CurrentOK
    BY <1>8, CurrentTyped DEF RefillScope
  <2>2. adm' = adm \/ adm' = AfterVisit(adm)
    BY <1>8 DEF RefillScope
  <2> HIDE DEF Kept
  <2> QED
    BY <1>4, <1>5, <1>8, <2>1, <2>2 DEF CurrentOK
<1>9. ASSUME ~FillEvent, FillFails \/ FillScopeDone PROVE Kept
  <2>1. CurrentOK
    BY <1>9, CurrentTyped DEF FillFails, FillScopeDone, Reads, CanFill
  <2>2. adm' = AfterVisit(adm)
    BY <1>9 DEF FillFails, FillScopeDone
  <2> HIDE DEF Kept
  <2> QED
    BY <1>5, <1>9, <2>1, <2>2 DEF CurrentOK
<1>10. ASSUME ~FillEvent, Replay PROVE Kept
  <2>1. Suspended => adm' = adm
    BY <1>10 DEF Replay
  <2>2. ~Suspended => adm' = adm
    BY <1>0, <1>10 DEF Replay, BeginRefill
  <2> HIDE DEF Kept
  <2> QED
    BY <1>4, <1>10, <2>1, <2>2
<1>11. ~(Crash \/ Close \/ OpenFails)
  BY DEF Crash, Close, OpenFails
<1>12. AppendStep \/ UNCHANGED vars \/ (\E a \in Appender : NoteReturns(a)) => adm' = adm
  BY DEF AppendStep, EventAppend, EventAppendFails, NoteReturns, vars, admission
<1>13. WorkerStart \/ FlushStart \/ HostPoisons \/ Recover \/ OperatorAcknowledge => adm' = adm
  BY DEF WorkerStart, FlushStart, HostPoisons, Recover, OperatorAcknowledge, admission
<1>14. \/ FlushCaptureFails \/ ReplayFails \/ ReplayReturns \/ TakeTurns \/ NothingToTake
       \/ (\E n \in 1 .. QueueLimit : Generate(n))
       \/ GenerateFails \/ Begin \/ BeginFails \/ ApplyOp \/ RejectOp
       \/ Epilogue \/ EpilogueFails \/ Finish \/ FinishFails
       \/ ArchiveReceipt \/ MarkCurated \/ RemoveReceipt \/ FinalizeFails \/ OpenReturns
       => adm' = adm
  BY DEF FlushCaptureFails, ReplayFails, ReplayReturns, TakeTurns, NothingToTake, Generate,
     GenerateFails, Begin, BeginFails, ApplyOp, RejectOp, Epilogue, EpilogueFails, Finish, FinishFails,
     ArchiveReceipt, MarkCurated, RemoveReceipt, FinalizeFails, OpenReturns, admission
<1> HIDE DEF Kept
<1> QED
  BY <1>3, <1>4, <1>6, <1>7, <1>8, <1>9, <1>10, <1>11, <1>12, <1>13, <1>14
  DEF Next, NoteStep, RefillStep, CycleStep
-----------------------------------------------------------------------------
(* The moves of a full flush.                                              *)

\* How a cycle that ends hands over to its flush.
LEMMA EndRunFlush ==
    ASSUME run \in RunType, run.owner = "flush", NEW ok \in BOOLEAN, EndRun(ok)
    PROVE  /\ run'.goal = run.goal
           /\ IF ok /\ run.budget > 1
              THEN run'.pc = "replay" /\ run'.ok /\ run'.budget = run.budget - 1
              ELSE run'.pc = "release" /\ run'.ok = ok
<1>1. CASE ok /\ run.budget > 1
  <2>1. run' = [IdleRun EXCEPT !.owner = "flush", !.pc = "replay", !.force = TRUE,
                     !.goal = run.goal, !.budget = run.budget - 1]
    BY <1>1 DEF EndRun
  <2> QED
    BY <1>1, <2>1 DEF IdleRun
<1>2. CASE ~(ok /\ run.budget > 1)
  <2>1. run' = [run EXCEPT !.pc = "release", !.ok = ok]
    BY <1>2 DEF EndRun
  <2> QED
    BY <1>2, <2>1 DEF RunType
<1> QED
  BY <1>1, <1>2

\* The stages of a flush that still has something to drain.
Draining == run.owner = "flush" /\ run.pc \notin {"capture", "release"}

\* What the others do while a flush waits or refills,
Aside ==
    /\ AppendStep \/ NoteStep \/ RefillStep \/ HostPoisons \/ UNCHANGED vars
    /\ run' = run /\ receipt' = receipt
    /\ FillEvent \/ UNCHANGED work
    /\ NoteStep => refill.holder # "cycle"

\* the steps from one stage of a flush to the next,
Onward ==
    /\ Draining /\ run'.goal = run.goal /\ receipt' = receipt
    /\ \/ Replay /\ run'.pc = "refill" /\ run'.budget = run.budget /\ refill'.visited = 0
       \/ ReplayReturns /\ ~refill.failed /\ run'.pc = "take" /\ run'.budget = run.budget
       \/ NothingToTake /\ run'.pc = "release"

\* those of a cycle with a batch,
Batching ==
    /\ Draining /\ run'.goal = run.goal
    /\ \/ run'.pc \in Cycle /\ run'.budget = run.budget /\ adm' = adm /\ Len(Owned') = Len(Owned)
       \/ RemoveReceipt /\ run.budget > 1 /\ run'.pc = "replay" /\ run'.budget = run.budget - 1
       \/ RemoveReceipt /\ run.budget <= 1 /\ run'.pc = "release"

\* and those that give up.
GivesUp ==
    /\ run'.goal = run.goal /\ run'.pc = "release"
    /\ ~run'.ok \/ (Suspended /\ receipt' = receipt)

\* What a flush that has the slot after a step has done in it.
LEMMA FlushMoves ==
    ASSUME CurationInv, [Next]_vars, run'.owner = "flush"
    PROVE  \/ FlushStart
           \/ run.owner = "flush" /\ (Aside \/ FlushCapture \/ Onward \/ Batching \/ GivesUp)
<1> DEFINE Moved == Aside \/ FlushCapture \/ Onward \/ Batching \/ GivesUp
<1>0. /\ run \in RunType /\ RunStages /\ RefillStages /\ refill \in RefillType
      /\ queue \in Seq(Event) /\ batch \in Seq(Event)
      /\ None # "flush" /\ None # "cycle" /\ IdleRun.owner # "flush" /\ "cycle" \notin Appender
  BY CurationAssumption DEF CurationInv, MemoryTypeOK, IdleRun
<1>1. /\ {"take", "generate", "begin", "ops", "finish", "archive", "mark", "remove", "refill"} \subseteq Pc
      /\ {"generate", "begin", "ops", "finish", "archive", "mark", "remove"} \subseteq Cycle
      /\ "failed" \in Pc /\ "opened" \in Pc
      /\ \A p \in Cycle : p \notin {"capture", "release"}
  BY DEF Pc, Cycle, Guarded, Finalizing
<1>2. CASE FlushStart
  BY <1>2
<1>3. CASE Crash \/ Close \/ OpenFails \/ WorkerStart \/ Recover \/ FlushRelease \/ OpenReturns
  BY <1>0, <1>3 DEF Crash, Close, OpenFails, EmptyMemory, WorkerStart, Recover, FlushRelease, OpenReturns, IdleRun
<1>4. CASE OperatorAcknowledge
  BY <1>0, <1>4 DEF OperatorAcknowledge
<1>5. CASE AppendStep \/ NoteStep \/ RefillStep \/ HostPoisons \/ UNCHANGED vars
  <2>1. run' = run /\ receipt' = receipt /\ (FillEvent \/ UNCHANGED work)
    <3>1. AppendStep => UNCHANGED <<run, receipt, work>>
      BY DEF AppendStep, EventAppend, EventAppendFails, guard
    <3>2. NoteStep => UNCHANGED <<run, receipt, work>>
      BY DEF NoteStep, NoteScope, NoteFails, NoteReturns, guard
    <3>3. RefillStep => UNCHANGED <<run, receipt>> /\ (FillEvent \/ UNCHANGED work)
      BY DEF RefillStep, RefillScope, FillEvent, FillFails, FillScopeDone, guard
    <3>4. HostPoisons \/ UNCHANGED vars => UNCHANGED <<run, receipt, work>>
      BY DEF HostPoisons, vars, guard
    <3> QED
      BY <1>5, <3>1, <3>2, <3>3, <3>4
  <2>2. NoteStep => refill.holder # "cycle"
    BY <1>0 DEF NoteStep, NoteScope, NoteFails, NoteReturns
  <2> QED
    BY <1>5, <2>1, <2>2 DEF Aside
<1>6. ASSUME run.pc # "idle", ~(run.owner = "worker" /\ run' = IdleRun), run'.owner = run.owner
      PROVE  run.owner = "flush"
  BY <1>6
<1>7. CASE FlushCapture
  <2>1. run.owner = "flush"
    BY <1>0, <1>7 DEF FlushCapture, RunStages
  <2> QED
    BY <1>7, <2>1
<1>8. CASE FlushCaptureFails
  <2>1. run.owner = "flush" /\ run' = [run EXCEPT !.ok = FALSE, !.pc = "release"]
    BY <1>0, <1>8 DEF FlushCaptureFails, RunStages
  <2> QED
    BY <1>0, <2>1 DEF GivesUp, RunType
<1>9. ASSUME NEW p \in Pc, Goto(p) PROVE /\ run.owner = "flush" /\ run'.goal = run.goal
                                         /\ run'.pc = p /\ run'.budget = run.budget
  BY <1>0, <1>9, GotoTyped
<1>10. ASSUME NEW ok \in BOOLEAN, run.pc # "idle", EndRun(ok) PROVE run.owner = "flush"
  <2>1. run.owner # None
    BY <1>0, <1>10 DEF RunStages
  <2>2. IdleRun.owner = None
    BY DEF IdleRun
  <2> QED
    BY <1>0, <1>10, <2>1, EndRunTyped
<1>11. ASSUME run.pc # "idle", EndRun(FALSE) PROVE run.owner = "flush" /\ GivesUp
  <2>1. run.owner = "flush"
    BY <1>10, <1>11
  <2>2. run'.goal = run.goal /\ run'.pc = "release" /\ run'.ok = FALSE
    BY <1>0, <1>11, <2>1, EndRunFlush
  <2> QED
    BY <2>1, <2>2 DEF GivesUp
<1>12. CASE Replay
  <2>1. CASE Suspended
    <3>1. run.owner = "open" => run' = [run EXCEPT !.pc = "opened"]
      BY <1>12, <2>1 DEF Replay
    <3>2. run.owner # "open"
      BY <1>0, <3>1 DEF RunType
    <3>3. run' = [run EXCEPT !.pc = "release", !.ok = queue = <<>>]
      BY <1>12, <2>1, <3>2 DEF Replay
    <3>4. receipt' = receipt
      BY <1>12 DEF Replay, guard
    <3> QED
      BY <1>0, <2>1, <3>3, <3>4 DEF GivesUp, RunType
  <2>2. CASE ~Suspended
    <3>1. Goto("refill") /\ refill'.visited = 0 /\ receipt' = receipt /\ run.pc = "replay"
      BY <1>12, <2>2 DEF Replay, BeginRefill, NoRefill, guard
    <3> QED
      BY <1>1, <1>9, <1>12, <3>1 DEF Onward, Draining
  <2> QED
    BY <2>1, <2>2
<1>13. CASE ReplayFails
  <2>1. run.pc = "replay" /\ (Goto("failed") \/ EndRun(FALSE)) /\ (Goto("failed") => run.owner = "open" \/ EndRun(FALSE))
    BY <1>13 DEF ReplayFails
  <2> QED
    BY <1>1, <1>9, <1>11, <2>1
<1>14. CASE ReplayReturns
  <2>1. run.pc = "refill" /\ receipt' = receipt
    BY <1>0, <1>14 DEF ReplayReturns, RefillStages, guard
  <2>2. CASE run.owner = "open"
    <3>1. Goto("failed") \/ Goto("opened")
      BY <1>14, <2>2 DEF ReplayReturns
    <3> QED
      BY <1>1, <1>9, <2>2, <3>1
  <2>3. CASE run.owner # "open" /\ refill.failed
    BY <1>11, <1>14, <2>1, <2>3 DEF ReplayReturns
  <2>4. CASE run.owner # "open" /\ ~refill.failed
    <3>1. Goto("take")
      BY <1>14, <2>4 DEF ReplayReturns
    <3> QED
      BY <1>1, <1>9, <1>14, <2>1, <2>4, <3>1 DEF Onward, Draining
  <2> QED
    BY <2>2, <2>3, <2>4
<1>15. CASE NothingToTake
  <2>1. run.owner = "flush" /\ run' = [run EXCEPT !.pc = "release"] /\ run.pc = "take" /\ receipt' = receipt
    BY <1>0, <1>15 DEF NothingToTake, guard
  <2> QED
    BY <1>0, <1>15, <2>1 DEF Onward, Draining, RunType
<1>16. CASE TakeTurns \/ (\E n \in 1 .. QueueLimit : Generate(n)) \/ Begin \/ ApplyOp \/ RejectOp
            \/ Epilogue \/ Finish \/ ArchiveReceipt \/ MarkCurated
  <2>1. run.pc = "take" \/ run.pc \in Cycle
    BY <1>1, <1>16 DEF TakeTurns, Generate, Begin, ApplyOp, RejectOp, OpsLeft, Epilogue, Finish,
       ArchiveReceipt, MarkCurated
  <2>2. run.owner = "flush" /\ run'.goal = run.goal /\ run'.pc \in Cycle /\ run'.budget = run.budget
    <3>1. CASE ApplyOp \/ RejectOp
      <4>1. run.pc = "ops" /\ (run' = [run EXCEPT !.applied = @ + 1] \/ run' = [run EXCEPT !.rejected = @ + 1])
        BY <3>1 DEF ApplyOp, RejectOp, OpsLeft
      <4> QED
        BY <1>0, <1>1, <4>1 DEF RunType
    <3>2. CASE TakeTurns \/ (\E n \in 1 .. QueueLimit : Generate(n)) \/ Begin
               \/ Epilogue \/ Finish \/ ArchiveReceipt \/ MarkCurated
      <4>1. Goto("generate") \/ Goto("begin") \/ Goto("ops") \/ Goto("finish") \/ Goto("archive")
            \/ Goto("mark") \/ Goto("remove")
        BY <3>2 DEF TakeTurns, Generate, Begin, Epilogue, Finish, ArchiveReceipt, MarkCurated
      <4> QED
        BY <1>1, <1>9, <4>1
    <3> QED
      BY <1>16, <3>1, <3>2
  <2>3. adm' = adm
    BY <1>16 DEF TakeTurns, Generate, Begin, ApplyOp, RejectOp, Epilogue, Finish,
       ArchiveReceipt, MarkCurated, admission
  <2>4. Owned' = Owned
    <3>1. ~EmptyMemory /\ ~FillEvent /\ ~RemoveReceipt
      <4>1. ~EmptyMemory
        BY <1>0 DEF EmptyMemory, IdleRun
      <4>2. ~FillEvent
        BY <2>3, Filled
      <4>3. RemoveReceipt => run.pc = "remove" /\ run.owner = "flush"
        BY <2>2 DEF RemoveReceipt
      <4>4. RemoveReceipt => run'.pc \in {"replay", "release"}
        <5>1. RemoveReceipt => EndRun(TRUE)
          BY DEF RemoveReceipt
        <5> QED
          BY <1>0, <2>2, <5>1, EndRunFlush
      <4>5. "replay" \notin Cycle /\ "release" \notin Cycle
        BY DEF Cycle, Guarded, Finalizing
      <4> QED
        BY <2>2, <4>1, <4>2, <4>4, <4>5
    <3> QED
      BY <3>1, OwnedSteps
  <2>5. Draining
    BY <1>1, <2>1, <2>2 DEF Draining
  <2> QED
    BY <2>2, <2>3, <2>4, <2>5 DEF Batching
<1>17. CASE GenerateFails \/ BeginFails \/ EpilogueFails \/ FinishFails
  <2>1. run.pc # "idle" /\ EndRun(FALSE)
    BY <1>17 DEF GenerateFails, BeginFails, EpilogueFails, FinishFails, FailRun
  <2> QED
    BY <1>11, <2>1
<1>18. CASE RemoveReceipt
  <2>1. run.pc = "remove" /\ EndRun(TRUE)
    BY <1>18 DEF RemoveReceipt
  <2>2. run.owner = "flush"
    BY <1>10, <2>1
  <2>3. /\ run'.goal = run.goal
        /\ IF run.budget > 1
           THEN run'.pc = "replay" /\ run'.budget = run.budget - 1
           ELSE run'.pc = "release"
    BY <1>0, <2>1, <2>2, EndRunFlush
  <2>4. run.budget \in Nat
    BY <1>0 DEF RunType
  <2> QED
    BY <1>18, <2>1, <2>2, <2>3, <2>4 DEF Batching, Draining
<1>19. CASE FinalizeFails
  <2>1. run.pc # "idle" /\ (IF run.owner = "open" THEN Goto("failed") ELSE EndRun(FALSE))
    BY <1>19 DEF FinalizeFails, FailRun
  <2> QED
    BY <1>1, <1>9, <1>11, <2>1
<1> QED
  BY <1>2, <1>3, <1>4, <1>5, <1>7, <1>8, <1>12, <1>13, <1>14, <1>15, <1>16, <1>17, <1>18, <1>19
  DEF Next, CycleStep
-----------------------------------------------------------------------------
(* The invariant of a full flush.                                          *)

\* Nothing known is left to admit; nothing is left of the scopes a refill has
\* passed; and the work between the logs and the acknowledgement, in turns.
Drained(a) == \A s \in Scope : a.cursor[s] = a.end[s]

Swept(a, v) ==
    \A i \in 1 .. Len(a.known) :
        (i < a.next /\ a.next <= i + v) \/ a.next + Len(a.known) <= i + v
            => a.cursor[a.known[i]] = a.end[a.known[i]]

Work == Len(queue) + Len(batch) + Left(adm)

Succeeding == run.owner = "flush" /\ run.pc = "release" /\ run.ok /\ ~Suspended

\* A flush wants what had returned; it has all of that under frozen endpoints,
GoalReturned == run.owner = "flush" => run.goal \subseteq returned
GoalFrozen ==
    Draining \/ Succeeding =>
        /\ adm # None /\ adm.frozen
        /\ \A e \in run.goal : e[2] <= adm.end[e[1]]

\* its budget is enough for the work left, which no append adds to;
BudgetEnough == Draining => Work <= run.budget

\* it finds an empty queue only when nothing is left, and ends well only then.
SweepComplete ==
    run.owner = "flush" /\ queue = <<>> =>
        /\ run.pc = "refill" /\ ~refill.failed => Swept(adm, refill.visited)
        /\ run.pc = "take" => Drained(adm)
EndsDrained == Succeeding => queue = <<>> /\ Drained(adm)

FlushInv == GoalReturned /\ GoalFrozen /\ BudgetEnough /\ SweepComplete /\ EndsDrained /\ FlushCovers

\* A flush starts from what had returned, and returned it stays.
LEMMA GoalReturnedStep == CurationInv /\ GoalReturned /\ [Next]_vars => GoalReturned'
<1> SUFFICES ASSUME CurationInv, GoalReturned, [Next]_vars, run'.owner = "flush"
             PROVE  run'.goal \subseteq returned'
  BY DEF GoalReturned
<1>1. returned \subseteq returned'
  BY ReturnedSteps DEF Returned
<1>2. CASE FlushStart
  <2>1. run'.goal = returned /\ returned' = returned
    BY <1>2 DEF FlushStart, ghosts, IdleRun
  <2> QED
    BY <2>1
<1>3. CASE run.owner = "flush" /\ (Aside \/ FlushCapture \/ Onward \/ Batching \/ GivesUp)
  <2>1. run'.goal = run.goal
    <3>1. FlushCapture => run'.goal = run.goal
      BY DEF FlushCapture, CurationInv, MemoryTypeOK, RunType
    <3> QED
      BY <1>3, <3>1 DEF Aside, Onward, Batching, GivesUp
  <2> QED
    BY <1>1, <1>3, <2>1 DEF GoalReturned
<1> QED
  BY <1>2, <1>3, FlushMoves

\* What a capture leaves: every endpoint taken, and a budget of what is left.
LEMMA Captured ==
    ASSUME CurationInv, FlushCapture
    PROVE  /\ run.owner = "flush" /\ adm' # None /\ Sound(adm') /\ adm'.frozen
           /\ ~adm'.dirty /\ adm'.refresh = {} /\ receipt' = receipt
           /\ run'.goal = run.goal /\ queue' = queue /\ batch = <<>> /\ batch' = <<>>
           /\ run'.budget = Len(queue) + Left(adm')
           /\ run'.pc = IF run'.budget = 0 THEN "release" ELSE "replay"
<1>0. /\ DiskTypeOK /\ AdmissionOK /\ run \in RunType /\ index \in Seq(Scope)
  BY DEF CurationInv, MemoryTypeOK, DiskTypeOK
<1>1. Sound(Opened)
  BY <1>0, OpenedSound
<1> DEFINE a == IF Opened.dirty THEN Inventory(Opened) ELSE Opened
           b == Capture(a, a.refresh)
           d == [b EXCEPT !.frozen = TRUE]
<1>2. Sound(a) /\ ~a.dirty
  BY <1>0, <1>1, InventorySound
<1>3. Sound(b) /\ b.refresh = {} /\ b.dirty = a.dirty
  <2> HIDE DEF a
  <2>1. a.refresh \in SUBSET a.refresh /\ a.refresh \ a.refresh = {}
    OBVIOUS
  <2>2. /\ Sound(Capture(a, a.refresh)) /\ Capture(a, a.refresh).refresh = a.refresh \ a.refresh
        /\ Capture(a, a.refresh).dirty = a.dirty
    BY <1>0, <1>2, <2>1, CaptureSound
  <2> QED
    BY <2>1, <2>2
<1>4. /\ adm' = d
      /\ run' = [run EXCEPT !.budget = Len(queue) + Left(d),
                            !.pc = IF Len(queue) + Left(d) = 0 THEN "release" ELSE "replay"]
  BY Zenon DEF FlushCapture
<1> HIDE DEF a, b
<1>5. /\ d \in Admission /\ d.cursor = b.cursor /\ d.known = b.known /\ d.end = b.end
      /\ d.refresh = b.refresh /\ d.next = b.next /\ d.dirty = b.dirty /\ d.frozen
  BY <1>3 DEF Sound, Admission
<1> HIDE DEF d
<1>6. Sound(d) /\ d # None
  BY <1>3, <1>5, NotNone DEF Sound
<1>7. /\ run'.goal = run.goal /\ run'.budget = Len(queue) + Left(d)
      /\ run'.pc = IF Len(queue) + Left(d) = 0 THEN "release" ELSE "replay"
  BY <1>0, <1>4 DEF RunType
<1>8. run.owner = "flush" /\ batch = <<>>
  <2>1. run.pc = "capture" /\ "capture" \notin Cycle
    BY DEF FlushCapture, Cycle, Guarded, Finalizing
  <2> QED
    BY <2>1 DEF CurationInv, RunStages, Empty
<1>9. queue' = queue /\ batch' = batch /\ receipt' = receipt
  BY DEF FlushCapture, work, guard
<1> QED
  BY <1>2, <1>3, <1>4, <1>5, <1>6, <1>7, <1>8, <1>9

\* While a flush drains, or has drained, its admission stays as it froze it.
LEMMA DrainingSteps ==
    ASSUME CurationInv, GoalFrozen, [Next]_vars, Draining \/ Succeeding, run'.owner = "flush",
           run.pc # "release" \/ run'.pc = "release"
    PROVE  /\ adm # None /\ adm' # None /\ Sound(adm) /\ Sound(adm') /\ adm'.frozen /\ adm'.end = adm.end
           /\ ~FillEvent => adm'.cursor = adm.cursor
           /\ Left(adm) \in Nat /\ Left(adm') \in Nat /\ Left(adm') <= Left(adm)
           /\ FillEvent => Left(adm') + 1 <= Left(adm)
<1>1. adm # None /\ adm.frozen /\ Sound(adm)
  BY DEF GoalFrozen, CurationInv, AdmissionOK
<1>2. ~EmptyMemory /\ ~FlushRelease
  BY CurationAssumption DEF EmptyMemory, FlushRelease, IdleRun
<1>3. ~FlushCapture
  BY DEF FlushCapture, Draining, Succeeding
<1> QED
  BY <1>1, <1>2, <1>3, FrozenSteps

\* A flush whose next stage drains, or ends well, came from one that does, or
\* from its capture.
LEMMA DrainsFrom ==
    ASSUME CurationInv, [Next]_vars, Draining' \/ Succeeding'
    PROVE  /\ run.owner = "flush" /\ run'.owner = "flush" /\ run'.goal = run.goal
           /\ \/ FlushCapture
              \/ Draining /\ (Aside \/ Onward \/ Batching)
              \/ Succeeding /\ Aside
<1>1. run'.owner = "flush" /\ run'.pc # "capture"
  BY DEF Draining, Succeeding
<1>2. ~FlushStart
  BY <1>1 DEF FlushStart, IdleRun
<1>3. ~GivesUp
  BY DEF GivesUp, Draining, Succeeding, Suspended
<1>4. run.owner = "flush" /\ (Aside \/ FlushCapture \/ Onward \/ Batching)
  BY <1>1, <1>2, <1>3, FlushMoves
<1>5. Aside => Draining \/ Succeeding
  BY DEF Aside, Draining, Succeeding, Suspended
<1>6. FlushCapture => run'.goal = run.goal
  BY Captured
<1>7. Onward \/ Batching => Draining /\ run'.goal = run.goal
  BY DEF Onward, Batching
<1>8. Aside => run'.goal = run.goal
  BY DEF Aside
<1> QED
  BY <1>1, <1>4, <1>5, <1>6, <1>7, <1>8

\* What a flush wants stays under the endpoints it froze.
LEMMA GoalFrozenStep == CurationInv /\ GoalReturned /\ GoalFrozen /\ [Next]_vars => GoalFrozen'
<1> SUFFICES ASSUME CurationInv, GoalReturned, GoalFrozen, [Next]_vars, Draining' \/ Succeeding'
             PROVE  /\ adm' # None /\ adm'.frozen
                    /\ \A e \in run'.goal : e[2] <= adm'.end[e[1]]
  BY DEF GoalFrozen
<1>1. /\ run.owner = "flush" /\ run'.owner = "flush" /\ run'.goal = run.goal
      /\ \/ FlushCapture
         \/ Draining /\ (Aside \/ Onward \/ Batching)
         \/ Succeeding /\ Aside
  BY DrainsFrom
<1>2. CASE FlushCapture
  <2>1. adm' # None /\ adm'.frozen /\ ~adm'.dirty /\ adm'.refresh = {}
    BY <1>2, Captured
  <2>2. ASSUME NEW e \in run.goal PROVE e[2] <= adm'.end[e[1]]
    <3>1. e \in returned /\ e \in Turns /\ e \in Event /\ e[2] <= Len(log[e[1]])
      BY <1>1, <2>2 DEF GoalReturned, CurationInv, Recorded, Turns
    <3>2. e[1] \in Scope /\ e[2] \in Nat /\ 1 <= e[2]
      BY <3>1, TurnsGrow
    <3>3. adm = None \/ Seen(e[1], e[2])
      BY <3>1 DEF CurationInv, Noticed
    <3>4. adm'.dirty \/ e[1] \in adm'.refresh \/ e[2] <= adm'.end[e[1]]
      BY <2>1, <3>1, <3>2, <3>3, SeenKept
    <3> QED
      BY <2>1, <3>4
  <2> QED
    BY <1>1, <2>1, <2>2
<1>3. CASE (Draining /\ (Aside \/ Onward \/ Batching)) \/ (Succeeding /\ Aside)
  <2>1. run.pc # "release" \/ run'.pc = "release"
    BY <1>3 DEF Draining, Succeeding, Aside
  <2>2. adm' # None /\ adm'.frozen /\ adm'.end = adm.end
    BY <1>1, <1>3, <2>1, DrainingSteps
  <2> QED
    BY <1>1, <1>3, <2>2 DEF GoalFrozen
<1> QED
  BY <1>1, <1>2, <1>3

\* A flush has the budget for what is left: every batch takes one turn at least.
LEMMA BudgetEnoughStep == CurationInv /\ GoalFrozen /\ BudgetEnough /\ [Next]_vars => BudgetEnough'
<1> SUFFICES ASSUME CurationInv, GoalFrozen, BudgetEnough, [Next]_vars, Draining'
             PROVE  Work' <= run'.budget
  BY DEF BudgetEnough
<1>1. /\ run.owner = "flush" /\ run'.owner = "flush"
      /\ \/ FlushCapture
         \/ Draining /\ (Aside \/ Onward \/ Batching)
         \/ Succeeding /\ Aside
  BY DrainsFrom
<1>2. Work' = Len(queue') + Len(batch') + Left(adm')
  BY DEF Work, Left
<1>3. /\ queue' \in Seq(Event) /\ batch' \in Seq(Event)
      /\ Len(queue') \in Nat /\ Len(batch') \in Nat /\ Len(queue) \in Nat /\ Len(batch) \in Nat
      /\ Len(Owned) = Len(queue) + Len(batch) /\ Len(Owned') = Len(queue') + Len(batch')
  <2>1. queue' \in Seq(Event) /\ batch' \in Seq(Event)
    BY LineTypeStep
  <2>2. queue \in Seq(Event) /\ batch \in Seq(Event)
    BY DEF CurationInv, MemoryTypeOK
  <2>3. \A p, q \in Seq(Event) : Len(p) \in Nat /\ Len(q) \in Nat /\ Len(p \o q) = Len(q) + Len(p)
    OBVIOUS
  <2> QED
    BY <2>1, <2>2, <2>3 DEF Owned
<1>4. CASE FlushCapture
  <2>1. queue' = queue /\ batch' = <<>> /\ run'.budget = Len(queue) + Left(adm') /\ Sound(adm')
    BY <1>4, Captured
  <2>2. Left(adm') \in Nat /\ Len(<<>>) = 0
    BY <2>1, LeftSame
  <2> QED
    BY <1>2, <1>3, <2>1, <2>2
<1>5. CASE Draining /\ (Aside \/ Onward \/ Batching)
  <2>1. run.pc # "release"
    BY <1>5 DEF Draining
  <2>2. /\ Left(adm) \in Nat /\ Left(adm') \in Nat /\ Left(adm') <= Left(adm)
        /\ FillEvent => Left(adm') + 1 <= Left(adm)
    BY <1>1, <1>5, <2>1, DrainingSteps
  <2>3. Len(Owned) + Left(adm) <= run.budget /\ run.budget \in Nat /\ Work' = Len(Owned') + Left(adm')
    BY <1>2, <1>3, <1>5 DEF BudgetEnough, Work, CurationInv, MemoryTypeOK, RunType
  <2>4. ASSUME run'.budget = run.budget, Len(Owned') = Len(Owned) PROVE Work' <= run'.budget
    BY <1>3, <2>2, <2>3, <2>4
  <2>5. CASE FillEvent /\ run'.budget = run.budget
    <3>1. Len(Owned') = Len(Owned) \/ Len(Owned') = Len(Owned) + 1
      <4>1. batch' = batch /\ (queue' = queue \/ queue' = Append(queue, NextEvent))
        BY <2>5 DEF FillEvent
      <4>2. NextEvent \in Event
        BY <2>5, Filled
      <4>3. Len(queue') = Len(queue) \/ Len(queue') = Len(queue) + 1
        BY <1>3, <4>1, <4>2 DEF CurationInv, MemoryTypeOK
      <4>4. Len(batch') = Len(batch)
        BY <4>1
      <4> QED
        BY <1>3, <4>3, <4>4
    <3> QED
      BY <1>3, <2>2, <2>3, <2>5, <3>1
  <2>6. CASE Aside
    <3>1. run'.budget = run.budget
      BY <2>6 DEF Aside
    <3>2. CASE UNCHANGED work
      <4>1. Len(Owned') = Len(Owned)
        BY <1>3, <3>2 DEF work
      <4> QED
        BY <2>4, <3>1, <4>1
    <3> QED
      BY <2>5, <2>6, <3>1, <3>2 DEF Aside
  <2>7. CASE Onward
    <3>1. run'.pc # "release"
      BY DEF Draining
    <3>2. UNCHANGED work /\ run'.budget = run.budget
      BY <2>7, <3>1 DEF Onward, Replay, ReplayReturns
    <3>3. Len(Owned') = Len(Owned)
      BY <1>3, <3>2 DEF work
    <3> QED
      BY <2>4, <3>2, <3>3
  <2>8. CASE Batching
    <3>1. run'.pc # "release"
      BY DEF Draining
    <3>2. CASE run'.budget = run.budget /\ Len(Owned') = Len(Owned)
      BY <2>4, <3>2
    <3>3. CASE RemoveReceipt /\ run.budget > 1 /\ run'.budget = run.budget - 1
      <4>1. queue' = queue /\ batch' = <<>> /\ run.pc = "remove"
        BY <3>3 DEF RemoveReceipt
      <4>2. batch # <<>>
        BY <1>1, <4>1 DEF CurationInv, Empty, Cycle, Guarded, Finalizing
      <4>3. Len(batch) >= 1 /\ Len(batch') = 0
        BY <1>3, <4>1, <4>2 DEF CurationInv, MemoryTypeOK
      <4> QED
        BY <1>3, <2>2, <2>3, <3>3, <4>1, <4>3
    <3> QED
      BY <2>8, <3>1, <3>2, <3>3 DEF Batching
  <2> QED
    BY <1>5, <2>6, <2>7, <2>8
<1>6. CASE Succeeding /\ Aside
  BY <1>6 DEF Succeeding, Aside, Draining
<1> QED
  BY <1>1, <1>4, <1>5, <1>6

\* Where nothing is left, every scope is drained.
LEMMA NothingLeft ==
    ASSUME NEW a, Sound(a), Left(a) = 0
    PROVE  Drained(a)
<1> SUFFICES ASSUME NEW s \in Scope PROVE a.cursor[s] = a.end[s]
  BY DEF Drained
<1>1. a.cursor[s] \in Nat /\ a.end[s] \in Nat /\ a.cursor[s] <= a.end[s]
  BY DEF Sound, Admission
<1>2. CASE s \in Elements(a.known)
  <2>1. Ahead(a, s) \in Nat /\ Ahead(a, s) <= 0
    BY <1>2, LeftAbove
  <2> QED
    BY <1>1, <2>1 DEF Ahead
<1>3. CASE s \notin Elements(a.known)
  BY <1>1, <1>3 DEF Sound
<1> QED
  BY <1>2, <1>3

\* A drained admission that stays frozen stays drained.
LEMMA DrainedKept ==
    ASSUME CurationInv, adm # None, Drained(adm)
    PROVE  ~FillEvent /\ (adm'.cursor = adm.cursor /\ adm'.end = adm.end => Drained(adm'))
<1>1. ASSUME FillEvent PROVE FALSE
  <2>1. CanFill /\ CurrentOK
    BY <1>1, FillSound DEF FillEvent
  <2>2. Current \in Scope /\ adm.cursor[Current] \in Nat
    BY <1>1, <2>1, Filled DEF CurrentOK
  <2> QED
    BY <2>1, <2>2 DEF CanFill, Drained
<1> QED
  BY <1>1 DEF Drained

\* The position after n of L, round and round.
LEMMA NextPosition ==
    ASSUME NEW L \in Nat \ {0}, NEW n \in 1 .. L
    PROVE  (n % L) + 1 = IF n = L THEN 1 ELSE n + 1
<1>1. CASE n = L
  <2>1. L % L = 0
    BY SMT
  <2> QED
    BY <1>1, <2>1
<1>2. CASE n # L
  <2>1. n \in Nat /\ n < L
    BY <1>2
  <2>2. n % L = n
    BY <2>1, SMT
  <2> QED
    BY <1>2, <2>2
<1> QED
  BY <1>1, <1>2

\* A scope that is passed with nothing left extends what is swept.
LEMMA SweptNext ==
    ASSUME NEW a, Sound(a), a.known # <<>>, NEW v \in Nat, Swept(a, v),
           a.cursor[a.known[a.next]] = a.end[a.known[a.next]]
    PROVE  Swept(AfterVisit(a), v + 1)
<1> DEFINE b == AfterVisit(a)
           L == Len(a.known)
           n == a.next
           m == (n % L) + 1
<1>1. a \in Admission /\ L \in Nat /\ L >= 1 /\ n \in 1 .. L
  <2>1. a \in Admission /\ a.known \in Seq(Scope)
    BY DEF Sound, Admission
  <2>2. L \in Nat /\ L >= 1
    BY <2>1
  <2> QED
    BY <2>1, <2>2 DEF Sound
<1>2. b.known = a.known /\ b.cursor = a.cursor /\ b.end = a.end
  BY AfterVisitSound
<1>3. b.next = m
  BY <1>1 DEF AfterVisit, Admission
<1>4. m = IF n = L THEN 1 ELSE n + 1
  <2>1. L \in Nat \ {0}
    BY <1>1
  <2> HIDE DEF L, n
  <2> QED
    BY <1>1, <2>1, NextPosition DEF m
<1> HIDE DEF b, m
<1> SUFFICES ASSUME NEW i \in 1 .. L, (i < m /\ m <= i + (v + 1)) \/ m + L <= i + (v + 1)
             PROVE  a.cursor[a.known[i]] = a.end[a.known[i]]
  BY <1>2, <1>3 DEF b, Swept
<1>5. i = n \/ (i < n /\ n <= i + v) \/ n + L <= i + v
  <2>1. i \in Nat /\ n \in Nat /\ i <= L /\ n <= L /\ 1 <= i
    BY <1>1
  <2>2. CASE n = L
    BY <1>1, <1>4, <2>1, <2>2
  <2>3. CASE n # L
    BY <1>1, <1>4, <2>1, <2>3
  <2> QED
    BY <2>2, <2>3
<1> QED
  BY <1>5 DEF Swept

\* What is swept stays so while cursors only reach endpoints.
LEMMA SweptKept ==
    ASSUME NEW a, NEW b, NEW v, Swept(a, v), b.known = a.known, b.next = a.next,
           a.known \in Seq(Scope),
           \A s \in Scope : a.cursor[s] = a.end[s] => b.cursor[s] = b.end[s]
    PROVE  Swept(b, v)
<1>1. \A i \in 1 .. Len(a.known) : a.known[i] \in Scope
  OBVIOUS
<1> QED
  BY <1>1 DEF Swept

\* A whole round of the known scopes sweeps them all.
LEMMA SweptAll ==
    ASSUME NEW a, Sound(a), NEW v \in Nat, Swept(a, v), Len(a.known) <= v
    PROVE  Drained(a)
<1> SUFFICES ASSUME NEW s \in Scope PROVE a.cursor[s] = a.end[s]
  BY DEF Drained
<1>1. a.cursor[s] \in Nat /\ a.end[s] \in Nat /\ a.cursor[s] <= a.end[s] /\ a.known \in Seq(Scope)
  BY DEF Sound, Admission
<1>2. CASE s \in Elements(a.known)
  <2>1. PICK i \in 1 .. Len(a.known) : a.known[i] = s
    BY <1>1, <1>2 DEF Elements
  <2>2. Len(a.known) \in Nat /\ i \in Nat /\ 1 <= i /\ i <= Len(a.known) /\ a.next \in 1 .. Len(a.known)
    BY <1>1, <2>1 DEF Sound
  <2>3. (i < a.next /\ a.next <= i + v) \/ a.next + Len(a.known) <= i + v
    BY <2>2
  <2> QED
    BY <2>1, <2>3 DEF Swept
<1>3. CASE s \notin Elements(a.known)
  BY <1>1, <1>3 DEF Sound
<1> QED
  BY <1>2, <1>3

\* Under a flush's own refill the scopes it passes have nothing left, as long
\* as the queue stays empty.
LEMMA SweepSteps ==
    ASSUME CurationInv, [Next]_vars, Aside, adm # None, adm.frozen, run.pc = "refill",
           ~refill.failed => Swept(adm, refill.visited),
           queue = <<>>, queue' = <<>>, ~refill'.failed
    PROVE  Swept(adm', refill'.visited)
<1>0. /\ Sound(adm) /\ adm \in Admission /\ refill \in RefillType /\ refill.visited \in Nat
      /\ refill.holder = "cycle" /\ batch = <<>> /\ run.owner # None
  <2>1. "refill" \notin Cycle
    BY DEF Cycle, Guarded, Finalizing
  <2> QED
    BY <2>1 DEF CurationInv, AdmissionOK, Sound, MemoryTypeOK, RefillType, RefillStages, RunStages, Empty
<1>1. CASE AppendStep \/ HostPoisons \/ UNCHANGED vars
  <2>1. adm' = adm /\ refill' = refill
    BY <1>1 DEF AppendStep, EventAppend, EventAppendFails, HostPoisons, vars, admission
  <2> QED
    BY <2>1
<1>2. ~NoteStep
  BY <1>0 DEF Aside
<1>3. ASSUME CurrentOK, ~refill.failed, adm' = AfterVisit(adm), Visited,
             adm.cursor[Current] = adm.end[Current]
      PROVE  Swept(adm', refill'.visited)
  <2>1. refill'.visited = refill.visited + 1
    BY <1>0, <1>3 DEF Visited, RefillType
  <2>2. adm.known # <<>> /\ adm.cursor[adm.known[adm.next]] = adm.end[adm.known[adm.next]]
    BY <1>3 DEF CurrentOK, Current
  <2>3. Swept(AfterVisit(adm), refill.visited + 1)
    BY <1>0, <1>3, <2>2, SweptNext
  <2> QED
    BY <1>3, <2>1, <2>3
<1>4. CASE RefillScope
  <2>1. CurrentOK
    BY <1>4, CurrentTyped DEF RefillScope
  <2>2. ~refill.failed
    BY <1>4 DEF RefillScope, Refilling
  <2>3. IF adm.cursor[Current] < adm.end[Current]
        THEN adm' = adm /\ refill' = [refill EXCEPT !.filling = TRUE]
        ELSE adm' = AfterVisit(adm) /\ Visited
    BY <1>4 DEF RefillScope
  <2>4. CASE adm.cursor[Current] < adm.end[Current]
    <3>1. refill'.visited = refill.visited
      BY <1>0, <2>3, <2>4 DEF RefillType
    <3> QED
      BY <2>2, <2>3, <2>4, <3>1
  <2>5. CASE ~(adm.cursor[Current] < adm.end[Current])
    <3>1. adm.cursor[Current] = adm.end[Current]
      BY <1>0, <2>1, <2>5 DEF CurrentOK, Sound, Admission
    <3> QED
      BY <1>3, <2>1, <2>2, <2>3, <2>5, <3>1
  <2> QED
    BY <2>4, <2>5
<1>5. CASE FillEvent
  <2>1. CanFill /\ adm' = [adm EXCEPT !.cursor[Current] = @ + 1] /\ refill' = refill
    BY <1>5 DEF FillEvent
  <2>2. ~refill.failed /\ adm.cursor[Current] < adm.end[Current]
    BY <2>1 DEF CanFill, Refilling
  <2>3. adm'.known = adm.known /\ adm'.end = adm.end
    BY <2>1, FillSound
  <2>4. adm'.next = adm.next
    BY <1>0, <2>1 DEF Admission
  <2>5. \A s \in Scope : adm.cursor[s] = adm.end[s] => adm'.cursor[s] = adm'.end[s]
    <3>1. Current \in Scope /\ adm.cursor[Current] \in Nat
      BY <1>5, <2>1, Filled, FillSound DEF CurrentOK
    <3>2. adm.cursor[Current] # adm.end[Current]
      BY <2>2, <3>1
    <3> QED
      BY <1>5, <2>3, <3>2, Filled
  <2>6. adm.known \in Seq(Scope)
    BY <1>0 DEF Admission
  <2>7. Swept(adm', refill.visited)
    BY <2>2, <2>3, <2>4, <2>5, <2>6, SweptKept
  <2> QED
    BY <2>1, <2>7
<1>6. CASE FillFails
  <2>1. refill' = [refill EXCEPT !.filling = FALSE, !.failed = TRUE]
    BY <1>6 DEF FillFails
  <2> QED
    BY <1>0, <2>1 DEF RefillType
<1>7. CASE FillScopeDone
  <2>1. Refilling /\ refill.filling /\ adm' = AfterVisit(adm) /\ Visited
    BY <1>7 DEF FillScopeDone
  <2>2. CurrentOK /\ ~refill.failed
    BY <2>1, CurrentTyped DEF Refilling
  <2>3. Len(queue) + Len(batch) = 0 /\ Room
    <3>1. Len(queue) = 0 /\ Len(batch) = 0
      BY <1>0
    <3>2. QueueLimit \in Nat \ {0}
      BY CurationAssumption
    <3> QED
      BY <3>1, <3>2 DEF Room
  <2>4. ~CanFill
    BY <1>7, <2>3 DEF FillScopeDone
  <2>5. ~(adm.cursor[Current] < adm.end[Current])
    BY <2>1, <2>3, <2>4 DEF CanFill
  <2>6. adm.cursor[Current] = adm.end[Current]
    BY <1>0, <2>2, <2>5 DEF CurrentOK, Sound, Admission
  <2> QED
    BY <1>3, <2>1, <2>2, <2>6
<1> QED
  BY <1>1, <1>2, <1>4, <1>5, <1>6, <1>7 DEF Aside, RefillStep

\* A flush that finds its queue empty after a refill has drained the admission.
LEMMA SweepCompleteStep == CurationInv /\ GoalFrozen /\ SweepComplete /\ [Next]_vars => SweepComplete'
<1> SUFFICES ASSUME CurationInv, GoalFrozen, SweepComplete, [Next]_vars,
                    run'.owner = "flush", queue' = <<>>
             PROVE  /\ run'.pc = "refill" /\ ~refill'.failed => Swept(adm', refill'.visited)
                    /\ run'.pc = "take" => Drained(adm')
  BY DEF SweepComplete, Swept, Drained
<1> SUFFICES ASSUME run'.pc \in {"refill", "take"}
             PROVE  /\ run'.pc = "refill" /\ ~refill'.failed => Swept(adm', refill'.visited)
                    /\ run'.pc = "take" => Drained(adm')
  OBVIOUS
<1>1. Draining'
  BY DEF Draining
<1>2. /\ run.owner = "flush"
      /\ \/ FlushCapture
         \/ Draining /\ (Aside \/ Onward \/ Batching)
         \/ Succeeding /\ Aside
  BY <1>1, DrainsFrom
<1>3. ~FlushCapture
  BY Captured
<1>4. ~(Succeeding /\ Aside)
  BY DEF Succeeding, Aside
<1>5. ~Batching
  BY DEF Batching, Cycle, Guarded, Finalizing
<1>6. Draining /\ (Aside \/ Onward)
  BY <1>2, <1>3, <1>4, <1>5
<1>7. adm # None /\ adm.frozen /\ Sound(adm)
  BY <1>6 DEF GoalFrozen, CurationInv, AdmissionOK
<1>8. CASE Aside
  <2>1. run' = run /\ queue = <<>>
    <3>1. queue \in Seq(Event) /\ Len(queue) \in Nat
      BY DEF CurationInv, MemoryTypeOK
    <3>2. Len(queue') = 0
      OBVIOUS
    <3>3. ASSUME FillEvent, queue' # queue PROVE FALSE
      <4>1. queue' = Append(queue, NextEvent) /\ NextEvent \in Event
        BY <3>3, Filled DEF FillEvent
      <4>2. Len(queue') = Len(queue) + 1
        BY <3>1, <4>1
      <4> QED
        BY <3>1, <3>2, <4>2
    <3> QED
      BY <1>8, <3>3 DEF Aside, work
  <2>2. CASE run.pc = "take"
    <3>1. Drained(adm)
      BY <1>2, <2>1, <2>2 DEF SweepComplete
    <3>2. ~FillEvent /\ (adm'.cursor = adm.cursor /\ adm'.end = adm.end => Drained(adm'))
      BY <1>7, <3>1, DrainedKept
    <3>3. adm'.end = adm.end /\ (~FillEvent => adm'.cursor = adm.cursor)
      BY <1>6, <2>2, DrainingSteps
    <3> QED
      BY <2>1, <2>2, <3>2, <3>3
  <2>3. CASE run.pc = "refill"
    <3>1. ~refill.failed => Swept(adm, refill.visited)
      BY <1>2, <2>1, <2>3 DEF SweepComplete
    <3>2. ~refill'.failed => Swept(adm', refill'.visited)
      BY <1>7, <1>8, <2>1, <2>3, <3>1, SweepSteps
    <3> QED
      BY <2>1, <2>3, <3>2
  <2> QED
    BY <2>1, <2>2, <2>3
<1>9. CASE Onward /\ Replay
  <2>1. run'.pc = "refill" /\ refill'.visited = 0
    BY <1>9 DEF Onward, ReplayReturns, NothingToTake, Replay, CurationInv, RefillStages
  <2>2. Sound(adm') /\ adm' # None
    <3>1. run.pc # "release" /\ run'.owner = "flush"
      BY <1>6 DEF Draining
    <3> QED
      BY <1>6, <3>1, DrainingSteps
  <2>3. Len(adm'.known) \in Nat /\ adm'.next \in Nat /\ adm'.next >= 1
    BY <2>2 DEF Sound, Admission
  <2>4. Swept(adm', 0)
    BY <2>3 DEF Swept
  <2> QED
    BY <2>1, <2>4
<1>10. CASE Onward /\ ReplayReturns /\ ~refill.failed
  <2>1. refill.holder = "cycle" /\ RefillOver /\ adm' = adm /\ queue' = queue
    BY <1>10 DEF ReplayReturns, work
  <2>2. run.pc = "refill" /\ batch = <<>> /\ refill.visited \in Nat
    <3>1. "refill" \notin Cycle
      BY DEF Cycle, Guarded, Finalizing
    <3> QED
      BY <2>1, <3>1 DEF CurationInv, RefillStages, Empty, MemoryTypeOK, RefillType
  <2>3. Swept(adm, refill.visited)
    BY <1>2, <1>10, <2>1, <2>2 DEF SweepComplete
  <2>4. Room
    <3>1. Len(queue) = 0 /\ Len(batch) = 0
      BY <2>1, <2>2
    <3>2. QueueLimit \in Nat \ {0}
      BY CurationAssumption
    <3> QED
      BY <3>1, <3>2 DEF Room
  <2>5. Len(adm.known) \in Nat /\ refill.visited >= Len(adm.known)
    BY <1>7, <1>10, <2>1, <2>4 DEF RefillOver, Sound, Admission
  <2>6. Drained(adm)
    BY <1>7, <2>2, <2>3, <2>5, SweptAll
  <2>7. run'.pc # "refill"
    BY <1>10 DEF Onward, Replay, NothingToTake, ReplayReturns, CurationInv, RefillStages
  <2> QED
    BY <2>1, <2>6, <2>7
<1>11. Onward => (Onward /\ Replay) \/ (Onward /\ ReplayReturns /\ ~refill.failed)
  BY DEF Onward
<1> QED
  BY <1>6, <1>8, <1>9, <1>10, <1>11

\* A flush that ends well has drained the line and the admission.
LEMMA EndsDrainedStep ==
    CurationInv /\ GoalFrozen /\ BudgetEnough /\ SweepComplete /\ EndsDrained /\ [Next]_vars => EndsDrained'
<1> SUFFICES ASSUME CurationInv, GoalFrozen, BudgetEnough, SweepComplete, EndsDrained, [Next]_vars,
                    Succeeding'
             PROVE  queue' = <<>> /\ Drained(adm')
  BY DEF EndsDrained, Drained
<1>1. /\ run.owner = "flush" /\ run'.owner = "flush" /\ run'.pc = "release"
      /\ \/ FlushCapture
         \/ Draining /\ (Aside \/ Onward \/ Batching)
         \/ Succeeding /\ Aside
  BY DrainsFrom DEF Succeeding
<1>2. /\ queue \in Seq(Event) /\ batch \in Seq(Event) /\ Len(queue) \in Nat /\ Len(batch) \in Nat
      /\ run.budget \in Nat
  BY DEF CurationInv, MemoryTypeOK, RunType
<1>3. CASE FlushCapture
  <2>1. /\ Sound(adm') /\ queue' = queue /\ run'.budget = Len(queue) + Left(adm')
        /\ run'.pc = IF run'.budget = 0 THEN "release" ELSE "replay"
    BY <1>3, Captured
  <2>2. Left(adm') \in Nat
    BY <2>1, LeftSame
  <2>3. Len(queue) = 0 /\ Left(adm') = 0
    BY <1>1, <1>2, <2>1, <2>2
  <2>4. Drained(adm')
    BY <2>1, <2>3, NothingLeft
  <2> QED
    BY <1>2, <2>1, <2>3, <2>4
<1>4. CASE Draining /\ Aside
  BY <1>1, <1>4 DEF Draining, Aside
<1>5. CASE Draining /\ Onward
  <2>1. NothingToTake
    BY <1>1, <1>5 DEF Onward
  <2>2. run.pc = "take" /\ queue = <<>> /\ adm' = adm /\ queue' = queue
    BY <2>1 DEF NothingToTake, work, admission
  <2>3. Drained(adm)
    BY <1>1, <2>2 DEF SweepComplete
  <2> QED
    BY <2>2, <2>3
<1>6. CASE Draining /\ Batching
  <2>1. RemoveReceipt /\ run.budget <= 1
    BY <1>1, <1>6 DEF Batching, Cycle, Guarded, Finalizing
  <2>2. run.pc = "remove" /\ adm' = adm /\ queue' = queue
    BY <2>1 DEF RemoveReceipt, admission
  <2>3. batch # <<>>
    BY <1>1, <2>2 DEF CurationInv, Empty, Cycle, Guarded, Finalizing
  <2>4. Len(batch) >= 1
    BY <1>2, <2>3
  <2>5. Sound(adm) /\ Len(queue) + Len(batch) + Left(adm) <= run.budget
    BY <1>6 DEF GoalFrozen, BudgetEnough, Work, CurationInv, AdmissionOK
  <2>6. Left(adm) \in Nat
    BY <2>5, LeftSame
  <2>7. Len(queue) = 0 /\ Left(adm) = 0
    BY <1>2, <2>1, <2>4, <2>5, <2>6
  <2>8. Drained(adm)
    BY <2>5, <2>7, NothingLeft
  <2> QED
    BY <1>2, <2>2, <2>7, <2>8
<1>7. CASE Succeeding /\ Aside
  <2>1. queue = <<>> /\ Drained(adm) /\ adm # None
    BY <1>7 DEF EndsDrained, GoalFrozen
  <2>2. ~FillEvent /\ (adm'.cursor = adm.cursor /\ adm'.end = adm.end => Drained(adm'))
    BY <2>1, DrainedKept
  <2>3. adm'.end = adm.end /\ (~FillEvent => adm'.cursor = adm.cursor)
    BY <1>1, <1>7, DrainingSteps
  <2>4. queue' = queue
    BY <1>7, <2>2 DEF Aside, work
  <2> QED
    BY <2>1, <2>2, <2>3, <2>4
<1> QED
  BY <1>1, <1>3, <1>4, <1>5, <1>6, <1>7

\* What a drained flush wanted is acknowledged, or deferred.
LEMMA GoalCurated ==
    ASSUME CurationInv, GoalReturned, GoalFrozen, EndsDrained, Succeeding
    PROVE  run.goal \subseteq curated \cup Deferred
<1> SUFFICES ASSUME NEW e \in run.goal, e \notin Deferred PROVE e \in curated
  OBVIOUS
<1>1. e \in Turns /\ e \in Event /\ adm # None /\ Sound(adm)
  BY DEF GoalReturned, GoalFrozen, Succeeding, CurationInv, Recorded, Turns, AdmissionOK
<1>2. e \in Curable /\ e[1] \in Scope
  BY <1>1 DEF Curable, Event
<1>3. e[2] <= adm.end[e[1]] /\ adm.cursor[e[1]] = adm.end[e[1]]
  BY <1>2 DEF GoalFrozen, EndsDrained, Drained
<1>4. queue = <<>> /\ batch = <<>> /\ receipt = None
  <2>1. run.pc = "release" /\ "release" \notin Cycle
    BY DEF Succeeding, Cycle, Guarded, Finalizing
  <2> QED
    BY <2>1 DEF EndsDrained, Succeeding, Suspended, CurationInv, Empty
<1>5. Elements(Owned) = {}
  <2>1. Elements(Owned) = Elements(batch) \cup Elements(queue)
    BY OwnedTyped DEF CurationInv, MemoryTypeOK
  <2>2. Elements(<<>>) = {}
    BY DEF Elements
  <2> QED
    BY <1>4, <2>1, <2>2
<1> QED
  BY <1>1, <1>2, <1>3, <1>4, <1>5, Behind

\* Only a flush that ends well reports, and it reports what it wanted.
LEMMA FlushedSteps ==
    ASSUME CurationInv, [Next]_vars
    PROVE  flushed' = flushed \/ flushed' = {} \/ (Succeeding /\ flushed' = run.goal)
<1>1. CASE FlushRelease
  <2>1. run.pc = "release" /\ flushed' = IF run.ok /\ ~Suspended /\ ~poisoned THEN run.goal ELSE flushed
    BY <1>1 DEF FlushRelease
  <2>2. run.owner = "flush"
    BY <2>1 DEF CurationInv, RunStages
  <2> QED
    BY <2>1, <2>2 DEF Succeeding
<1>2. CASE Crash \/ Close \/ OpenFails
  BY <1>2 DEF Crash, Close, OpenFails, EmptyMemory
<1>3. CASE NoteStep
  BY <1>3 DEF NoteStep, NoteScope, NoteFails, NoteReturns
<1>4. CASE AppendStep \/ RefillStep
  BY <1>4 DEF AppendStep, EventAppend, EventAppendFails, RefillStep,
      RefillScope, FillEvent, FillFails, FillScopeDone, ghosts
<1>5. CASE \/ FlushCapture \/ FlushCaptureFails \/ Replay \/ ReplayFails \/ ReplayReturns
           \/ TakeTurns \/ NothingToTake \/ (\E n \in 1 .. QueueLimit : Generate(n))
           \/ GenerateFails \/ OpenReturns
  BY <1>5 DEF FlushCapture, FlushCaptureFails, Replay,
      ReplayFails, ReplayReturns, TakeTurns, NothingToTake, Generate, GenerateFails, OpenReturns, ghosts
<1>6. CASE \/ Begin \/ BeginFails \/ ApplyOp \/ RejectOp \/ Epilogue \/ EpilogueFails \/ Finish \/ FinishFails
           \/ ArchiveReceipt \/ MarkCurated \/ RemoveReceipt \/ FinalizeFails
  BY <1>6 DEF Begin, BeginFails, ApplyOp, RejectOp, Epilogue, EpilogueFails, Finish, FinishFails,
      ArchiveReceipt, MarkCurated, RemoveReceipt, FinalizeFails, ghosts
<1>7. CASE WorkerStart \/ FlushStart \/ HostPoisons \/ Recover \/ OperatorAcknowledge \/ UNCHANGED vars
  BY <1>7 DEF WorkerStart, FlushStart, HostPoisons, Recover, OperatorAcknowledge, vars, ghosts
<1> QED
  BY <1>1, <1>2, <1>3, <1>4, <1>5, <1>6, <1>7 DEF Next, CycleStep

\* A reported flush covers what it was asked for.
LEMMA FlushCoversStep ==
    CurationInv /\ GoalReturned /\ GoalFrozen /\ EndsDrained /\ FlushCovers /\ [Next]_vars => FlushCovers'
<1> SUFFICES ASSUME CurationInv, GoalReturned, GoalFrozen, EndsDrained, FlushCovers, [Next]_vars
             PROVE  flushed' \subseteq curated' \cup Deferred
  BY DEF FlushCovers
<1>1. curated \subseteq curated'
  BY CuratedSteps
<1>2. Succeeding => run.goal \subseteq curated \cup Deferred
  BY GoalCurated
<1> QED
  BY <1>1, <1>2, FlushedSteps DEF FlushCovers

\* The invariant of a flush is inductive beside that of the store.
LEMMA FlushAlways == Spec => []FlushInv
<1>1. Init => FlushInv
  <2> SUFFICES ASSUME Init PROVE FlushInv
    OBVIOUS
  <2>1. run.owner = None /\ None # "flush" /\ flushed = {}
    BY CurationAssumption DEF Init, IdleRun
  <2> QED
    BY <2>1 DEF FlushInv, GoalReturned, GoalFrozen, BudgetEnough, SweepComplete, EndsDrained,
       FlushCovers, Draining, Succeeding
<1>2. CurationInv /\ FlushInv /\ [Next]_vars => FlushInv'
  <2> SUFFICES ASSUME CurationInv, FlushInv, [Next]_vars PROVE FlushInv'
    OBVIOUS
  <2>1. /\ GoalReturned /\ GoalFrozen /\ BudgetEnough /\ SweepComplete /\ EndsDrained /\ FlushCovers
    BY DEF FlushInv
  <2>2. GoalReturned' /\ GoalFrozen' /\ BudgetEnough'
    BY <2>1, GoalReturnedStep, GoalFrozenStep, BudgetEnoughStep
  <2>3. SweepComplete' /\ EndsDrained' /\ FlushCovers'
    BY <2>1, SweepCompleteStep, EndsDrainedStep, FlushCoversStep
  <2> QED
    BY <2>2, <2>3 DEF FlushInv
<1> QED
  BY <1>1, <1>2, CurationAlways, PTL DEF Spec

(* A full flush that reports success has curated every turn whose append   *)
(* had returned when it was called: the endpoints it froze hold them all,  *)
(* its budget is enough for the turns below them, whatever hosts append    *)
(* and refills skip meanwhile, and an empty queue after a refill means     *)
(* that nothing is left (asper_flush, asper_source_pending_capture).       *)
THEOREM FlushIsComplete == Spec => []FlushCovers
<1>1. FlushInv => FlushCovers
  BY DEF FlushInv
<1> QED
  BY <1>1, FlushAlways, PTL
=============================================================================
