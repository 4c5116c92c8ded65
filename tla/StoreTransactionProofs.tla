----------------------- MODULE StoreTransactionProofs -----------------------
(***************************************************************************)
(* For any section files, records, compactions, failed writes and power    *)
(* failures: what the next open finds.  There are at most two images of    *)
(* the store on disk, the one in the files and the one in the backups, and *)
(* the marker says which of them recovery will take.  The invariant is     *)
(* that each image a power failure may select is sound; the other one may  *)
(* be half written.                                                        *)
(***************************************************************************)
EXTENDS StoreTransaction, FiniteSetTheorems, SequenceTheorems, TLAPS

\* What snapshots holding h and the first n frames of js stand for.
Image(h, js, n) == h \cup {js[i].record : i \in 1 .. n}

\* Frames are in sequence and in the order of their operations, after every
\* record of the snapshots.
InOrder(h, js) ==
    /\ \A i \in 1 .. Len(js) : js[i].seq = i
    /\ \A i, j \in 1 .. Len(js) : i < j => js[i].record.id < js[j].record.id
    /\ \A r \in h, i \in 1 .. Len(js) : r.id < js[i].record.id

\* An image of which n frames are safe from a power failure, judged by what was
\* acknowledged (a), promised (p), purged (g) and set out to be purged (d).
Sound(h, js, n, a, p, g, d, top) ==
    LET all == Image(h, js, Len(js))
    IN  /\ InOrder(h, js)
        /\ \A r \in all : r.id <= top /\ r \notin g
        /\ p \ d \subseteq Image(h, js, n)
        /\ \E x : all \subseteq a \cup {x}
        /\ \A r \in all, q \in a \ d : q.id < r.id => q \in all

FilesSound == Sound(Held(snap), journal, synced, acked, promised, gone, dropped, issued)
BackupSound == Sound(Held(backup.snap), backup.journal, Len(backup.journal),
                     acked, promised, gone, dropped, issued)
-----------------------------------------------------------------------------
(* The invariant.                                                          *)

StoreTypeOK ==
    /\ snap \in [Section -> Snapshot \cup {None}]
    /\ journal \in Journal /\ synced \in 0 .. Len(journal)
    /\ backup \in Copies
    /\ up \in BOOLEAN /\ poisoned \in BOOLEAN /\ table \in SUBSET Record
    /\ journalOps \in Nat /\ before \in Nat /\ due \in SUBSET Record
    /\ issued \in Nat /\ acked \in SUBSET Record /\ promised \in SUBSET Record
    /\ gone \in SUBSET Record /\ dropped \in SUBSET Record

Replacing == {"write", "reset", "commit", "rollback"}
Restoring == {"rollback", "recover"}

Phases ==
    /\ pc \in IF up THEN {"idle", "backup", "marker"} \cup Replacing
              ELSE {"idle", "recover", "load"}
    /\ poisoned => up /\ pc = "idle"
    /\ pc = "backup" => at \in 1 .. Len(Files)
    /\ pc = "write" => at \in 1 .. Len(Sections)
    /\ pc \in Restoring => at \in 1 .. Len(Files) + 1

\* Nothing was replaced yet since the store was last known to be whole.
Whole == up /\ ~poisoned /\ pc \in {"idle", "backup", "marker"}

\* A marker is that of the backups; where a power failure may choose between a
\* marker and none, both images are complete.
Markers ==
    /\ marker \in {None, backup} /\ kept \in {None, backup}
    /\ marker # None \/ kept # None => backup.journal \in Journal
    /\ Whole \/ pc = "load" => marker = None
    /\ Whole => kept = None
    /\ pc \in Replacing => marker = backup /\ kept = backup
    /\ pc = "recover" => marker = backup
    /\ marker = backup /\ kept = None => snap = backup.snap /\ journal = backup.journal

\* The file f and its backup are the same.
Same(f) == IF f = "journal" THEN backup.journal = journal ELSE backup.snap[f] = snap[f]
AllCopied == \A i \in 1 .. Len(Files) : Same(Files[i])

Copied ==
    /\ pc = "backup" \/ pc \in Restoring => \A j \in 1 .. Len(Files) : j < at => Same(Files[j])
    /\ pc = "marker" => backup = [snap |-> snap, journal |-> journal]
    /\ pc = "write" => \A j \in 1 .. Len(Sections) :
                            j < at => snap[Sections[j]] = Projected(Sections[j])
    /\ pc \in {"reset", "commit"} => \A s \in Section : snap[s] = Projected(s)
    /\ pc = "commit" => journal = <<>>
    /\ pc \in Restoring => \A j \in 1 .. Len(Files) :
                               j < at /\ Files[j] = "journal" => synced = Len(journal)

\* The table is what the image stands for that recovery would take.
Mirrored ==
    /\ up => /\ table \subseteq acked /\ acked \ dropped \subseteq table
             /\ gone \cap table = {}
    /\ Whole => /\ Image(Held(snap), journal, Len(journal)) = table
                /\ journalOps = Len(journal)
                /\ pc # "idle" => before = Len(journal)
    /\ pc \in Replacing =>
          /\ Image(Held(backup.snap), backup.journal, Len(backup.journal)) = table
          /\ before = Len(backup.journal)
          /\ pc = "commit" => journalOps = 0

Remembered ==
    /\ promised \subseteq acked /\ due \subseteq dropped
    /\ \A r \in acked \cup gone \cup due : r.id <= issued

Selectable ==
    /\ marker = None \/ kept = None => FilesSound
    /\ marker # None \/ kept # None => BackupSound

StoreInv == StoreTypeOK /\ Phases /\ Markers /\ Copied /\ Mirrored /\ Remembered /\ Selectable

-----------------------------------------------------------------------------
(* Images.                                                                 *)

\* The first n frames of a journal.
LEMMA Prefix ==
    ASSUME NEW js \in Journal, NEW n \in 0 .. Len(js)
    PROVE  /\ SubSeq(js, 1, n) \in Journal /\ Len(SubSeq(js, 1, n)) = n
           /\ \A i \in 1 .. n : SubSeq(js, 1, n)[i] = js[i] /\ i \in 1 .. Len(js)
<1>1. js \in Seq(Operation) /\ Len(js) \in Nat /\ DOMAIN js = 1 .. Len(js)
  BY DEF Journal
<1>2. \A i \in 1 .. n : js[i] \in Operation /\ i \in 1 .. Len(js)
  BY <1>1
<1>3. SubSeq(js, 1, n) = [i \in 1 .. n |-> js[i]]
  BY <1>1
<1>4. [i \in 1 .. n |-> js[i]] \in Seq(Operation) /\ Len([i \in 1 .. n |-> js[i]]) = n
  BY <1>2, IsASeq
<1>5. \A i \in 1 .. n : [k \in 1 .. n |-> js[k]][i] = js[i]
  OBVIOUS
<1> QED
  BY <1>2, <1>3, <1>4, <1>5, Zenon DEF Journal

\* The frames replayed from a journal, or from a part of it, are an image.
LEMMA ImageOfJournal ==
    ASSUME NEW h, NEW js \in Journal, NEW n \in 0 .. Len(js)
    PROVE  /\ h \cup Replayed(SubSeq(js, 1, n)) = Image(h, js, n)
           /\ h \cup Replayed(js) = Image(h, js, Len(js))
<1> DEFINE ks == SubSeq(js, 1, n)
<1>1. ks \in Journal /\ Len(ks) = n /\ \A i \in 1 .. n : ks[i] = js[i]
  BY Prefix, Zenon
<1> HIDE DEF ks
<1>2. DOMAIN js = 1 .. Len(js) /\ DOMAIN ks = 1 .. n
  BY <1>1 DEF Journal
<1>3. Replayed(ks) = {js[i].record : i \in 1 .. n}
  BY <1>1, <1>2 DEF Replayed
<1> QED
  BY <1>2, <1>3 DEF Image, Replayed, ks

\* An image is made of records.
LEMMA ImageTyped ==
    ASSUME NEW h \in SUBSET Record, NEW js \in Journal
    PROVE  \A r \in Image(h, js, Len(js)) : r \in Record /\ r.id \in Nat
<1>1. \A i \in 1 .. Len(js) : js[i] \in Operation
  BY DEF Journal
<1> QED
  BY <1>1 DEF Image, Operation, Record

\* A power failure leaves a sound image sound: it takes frames from the end,
\* none of those that are safe.
LEMMA SoundPrefix ==
    ASSUME NEW h \in SUBSET Record, NEW js \in Journal, NEW n \in 0 .. Len(js),
           NEW k \in n .. Len(js), NEW a \in SUBSET Record, NEW p, NEW g, NEW d,
           NEW top, Sound(h, js, n, a, p, g, d, top)
    PROVE  Sound(h, SubSeq(js, 1, k), k, a, p, g, d, top)
<1> DEFINE ks == SubSeq(js, 1, k)
           all == Image(h, js, Len(js))
           left == Image(h, ks, Len(ks))
<1>1. k \in 0 .. Len(js) /\ Len(js) \in Nat
  BY DEF Journal
<1>2. Len(ks) = k /\ (\A i \in 1 .. k : ks[i] = js[i] /\ i \in 1 .. Len(js))
  BY <1>1, Prefix, Zenon
<1> HIDE DEF ks
<1>3. \A i \in 1 .. Len(js) : js[i].record \in Record /\ js[i].record.id \in Nat
  <2>1. \A i \in 1 .. Len(js) : js[i] \in Operation
    BY DEF Journal
  <2> QED
    BY <2>1 DEF Operation, Record
<1>4. \A r \in h : r.id \in Nat
  BY DEF Record
<1>5. /\ InOrder(h, js) /\ (\A r \in all : r.id <= top /\ r \notin g)
      /\ p \ d \subseteq Image(h, js, n) /\ (\E x : all \subseteq a \cup {x})
      /\ \A r \in all, q \in a \ d : q.id < r.id => q \in all
  BY DEF Sound
<1>6. left \subseteq all /\ Image(h, js, n) \subseteq left
  BY <1>1, <1>2 DEF Image
<1>7. InOrder(h, ks)
  BY <1>2, <1>5 DEF InOrder
<1>8. ASSUME NEW r \in left, NEW q \in a \ d, q.id < r.id PROVE q \in left
  <2>1. q \in all
    BY <1>5, <1>6, <1>8
  <2>2. CASE q \in h
    BY <2>2 DEF Image
  <2>3. CASE q \notin h
    <3>1. PICK j \in 1 .. Len(js) : q = js[j].record
      BY <2>1, <2>3 DEF Image
    <3>2. r \notin h
      BY <1>3, <1>4, <1>5, <1>8, <3>1 DEF InOrder
    <3>3. PICK i \in 1 .. k : r = js[i].record
      BY <1>2, <3>2 DEF Image
    <3>4. j < i
      <4>1. js[j].record.id < js[i].record.id
        BY <1>8, <3>1, <3>3
      <4>2. i \in 1 .. Len(js) /\ i \in Nat /\ j \in Nat
        BY <1>2
      <4> QED
        BY <1>3, <1>5, <4>1, <4>2 DEF InOrder
    <3>5. j \in 1 .. k /\ ks[j] = js[j]
      BY <1>2, <3>4
    <3> QED
      BY <1>2, <3>1, <3>5 DEF Image
  <2> QED
    BY <2>2, <2>3
<1> QED
  BY <1>2, <1>5, <1>6, <1>7, <1>8 DEF Sound, ks

\* Frames that become safe, by a sync, make nothing unsound, nor do records that
\* are set out to be purged or numbers that are given away.
LEMMA SoundSafer ==
    ASSUME NEW h, NEW js \in Journal, NEW n \in 0 .. Len(js), NEW k \in n .. Len(js),
           NEW a, NEW p, NEW g, NEW d, NEW e, d \subseteq e, NEW top \in Nat,
           NEW more \in Nat, top <= more, h \in SUBSET Record,
           Sound(h, js, n, a, p, g, d, top)
    PROVE  Sound(h, js, k, a, p, g, e, more)
<1>1. Image(h, js, n) \subseteq Image(h, js, k)
  BY DEF Image
<1>2. \A r \in Image(h, js, Len(js)) : r.id \in Nat
  BY ImageTyped, Zenon DEF Record
<1> QED
  BY <1>1, <1>2 DEF Sound

\* What an open that loads all records from snapshots h and frames js finds.
Found(h, js, all, a, p, g, d) ==
    /\ p \ d \subseteq all
    /\ Cardinality(all \ a) <= 1
    /\ \A r \in all, q \in a \ d : q.id < r.id => q \in all
    /\ h \cap Replayed(js) = {} /\ g \cap all = {}

\* What a sound image says of its records, whoever reads the first k frames of it.
LEMMA SoundLoads ==
    ASSUME NEW h \in SUBSET Record, NEW js \in Journal, NEW n \in 0 .. Len(js),
           NEW k \in n .. Len(js), NEW a \in SUBSET Record, NEW p, NEW g, NEW d,
           NEW top, Sound(h, js, n, a, p, g, d, top),
           NEW all, all = h \cup Replayed(SubSeq(js, 1, k))
    PROVE  Found(h, SubSeq(js, 1, k), all, a, p, g, d)
<1> DEFINE ks == SubSeq(js, 1, k)
<1>1. k \in 0 .. Len(js)
  BY DEF Journal
<1>2. ks \in Journal /\ Len(ks) = k /\ all = Image(h, ks, k)
  <2>1. ks \in Journal /\ Len(ks) = k /\ \A i \in 1 .. k : ks[i] = js[i]
    BY <1>1, Prefix, Zenon
  <2>2. all = Image(h, js, k)
    BY <1>1, ImageOfJournal, Zenon
  <2> QED
    BY <2>1, <2>2 DEF Image
<1>3. Sound(h, ks, k, a, p, g, d, top)
  BY SoundPrefix
<1> HIDE DEF ks
<1>4. /\ InOrder(h, ks) /\ (\A r \in all : r \notin g) /\ p \ d \subseteq all
      /\ \A r \in all, q \in a \ d : q.id < r.id => q \in all
  BY <1>1, <1>2, <1>3 DEF Sound
<1>5. Cardinality(all \ a) <= 1
  <2>1. PICK x : all \subseteq a \cup {x}
    BY <1>1, <1>2, <1>3 DEF Sound
  <2>2. all \ a = {} \/ all \ a = {x}
    BY <2>1
  <2>3. Cardinality(all \ a) \in {0, 1}
    BY <2>2, FS_EmptySet, FS_Singleton, Zenon
  <2> QED
    BY <2>3
<1>6. h \cap Replayed(ks) = {}
  <2>1. DOMAIN ks = 1 .. k
    BY <1>2 DEF Journal
  <2>2. \A r \in h : r.id \in Nat
    BY DEF Record
  <2> QED
    BY <1>1, <1>4, <2>1, <2>2 DEF InOrder, Replayed
<1> QED
  BY <1>4, <1>5, <1>6 DEF ks, Found

\* An image that holds what was acknowledged, and the frame that comes next.
Complete(h, js, a, g, d, top) ==
    /\ Image(h, js, Len(js)) \subseteq a /\ a \ d \subseteq Image(h, js, Len(js))
    /\ \A r \in g : r.id <= top
Ahead(f, js, top) == f \in Operation /\ f.seq = Len(js) + 1 /\ f.record.id = top + 1

\* The frame leaves b acknowledged and q promised, with m frames safe.
Recorded(f, js, n, a, p, m, b, q) ==
    /\ b \in {a, a \cup {f.record}} /\ m \in n .. Len(js) + 1
    /\ q = p \/ (m = Len(js) + 1 /\ q = b)

\* An operation appended to a sound image that holds what was acknowledged: it
\* is acknowledged (b) or not, and safe (m) or not.
LEMMA SoundAppend ==
    ASSUME NEW h \in SUBSET Record, NEW js \in Journal, NEW n \in 0 .. Len(js),
           NEW a, NEW p, NEW g, NEW d, NEW top \in Nat,
           Sound(h, js, n, a, p, g, d, top), Complete(h, js, a, g, d, top),
           NEW f, Ahead(f, js, top),
           NEW m, NEW b, NEW q, Recorded(f, js, n, a, p, m, b, q)
    PROVE  Sound(h, Append(js, f), m, b, q, g, d, top + 1)
<1> DEFINE ks == Append(js, f)
           all == Image(h, js, Len(js))
<1>1. /\ Len(js) \in Nat /\ js \in Seq(Operation)
      /\ f \in Operation /\ f.seq = Len(js) + 1 /\ f.record.id = top + 1
      /\ all \subseteq a /\ a \ d \subseteq all /\ (\A r \in g : r.id <= top)
      /\ b \in {a, a \cup {f.record}} /\ m \in n .. Len(js) + 1
      /\ (q = p \/ (m = Len(js) + 1 /\ q = b))
  BY DEF Journal, Ahead, Complete, Recorded
<1>2. Len(ks) = Len(js) + 1 /\ (\A i \in 1 .. Len(js) : ks[i] = js[i])
      /\ ks[Len(js) + 1] = f
  BY <1>1
<1> HIDE DEF ks
<1>3. Image(h, ks, Len(js) + 1) = all \cup {f.record}
  BY <1>1, <1>2 DEF Image
<1>4. Image(h, js, n) = Image(h, ks, n) /\ Image(h, ks, n) \subseteq Image(h, ks, m)
  BY <1>1, <1>2 DEF Image
<1>5. \A r \in all : r.id \in Nat /\ r.id <= top /\ r \notin g
  BY ImageTyped, Zenon DEF Sound
<1>6. InOrder(h, ks)
  <2>1. \A i \in 1 .. Len(js) : js[i].record \in all
    BY DEF Image
  <2>2. h \subseteq all
    BY DEF Image
  <2>3. InOrder(h, js)
    BY DEF Sound
  <2>4. \A i \in 1 .. Len(ks) : i \in 1 .. Len(js) \/ i = Len(js) + 1
    BY <1>1, <1>2
  <2>5. \A i \in 1 .. Len(ks) : ks[i].seq = i
    BY <1>1, <1>2, <2>3, <2>4 DEF InOrder
  <2>6. ASSUME NEW i \in 1 .. Len(ks), NEW j \in 1 .. Len(ks), i < j
        PROVE  ks[i].record.id < ks[j].record.id
    BY <1>1, <1>2, <1>5, <2>1, <2>3, <2>4, <2>6 DEF InOrder
  <2>7. ASSUME NEW r \in h, NEW i \in 1 .. Len(ks)
        PROVE  r.id < ks[i].record.id
    BY <1>1, <1>2, <1>5, <2>2, <2>3, <2>4 DEF InOrder
  <2> QED
    BY <2>5, <2>6, <2>7 DEF InOrder
<1>7. \A r \in all \cup {f.record} : r.id <= top + 1 /\ r \notin g
  BY <1>1, <1>5
<1>8. q \ d \subseteq Image(h, ks, m)
  <2>1. p \ d \subseteq Image(h, js, n)
    BY DEF Sound
  <2> QED
    BY <1>1, <1>3, <1>4, <2>1
<1>9. all \cup {f.record} \subseteq b \cup {f.record}
  BY <1>1
<1>10. \A r \in all \cup {f.record}, w \in b \ d : w.id < r.id => w \in all \cup {f.record}
  BY <1>1
<1> QED
  BY <1>2, <1>3, <1>6, <1>7, <1>8, <1>9, <1>10, Zenon DEF Sound, ks

\* What is acknowledged is what the image holds, after a load or a sync.
LEMMA SoundSynced ==
    ASSUME NEW h, NEW js \in Journal, NEW n, NEW a, NEW p, NEW g, NEW d, NEW top,
           Sound(h, js, n, a, p, g, d, top),
           NEW b \in {a, Image(h, js, Len(js))}, b \ d \subseteq Image(h, js, Len(js))
    PROVE  Sound(h, js, Len(js), b, b, g, d, top)
<1> DEFINE all == Image(h, js, Len(js))
<1>1. \E x : all \subseteq b \cup {x}
  BY DEF Sound
<1>2. \A r \in all, q \in b \ d : q.id < r.id => q \in all
  OBVIOUS
<1> QED
  BY <1>1, <1>2, Zenon DEF Sound

\* The snapshots that compaction leaves, with an empty journal.
LEMMA SoundCompacted ==
    ASSUME NEW t, NEW purged, NEW a, NEW p, NEW g, NEW d, NEW n, NEW top \in Nat,
           t \subseteq a, a \ d \subseteq t, purged \subseteq d, p \subseteq a,
           \A r \in a : r.id <= top, g \cap (t \ purged) = {}, n = 0
    PROVE  Sound(t \ purged, <<>>, n, a, p, g, d, top)
<1> DEFINE all == t \ purged
<1>1. Len(<<>>) = 0 /\ \A i \in 1 .. 0 : FALSE
  OBVIOUS
<1>2. \A js : Image(all, js, 0) = all
  BY DEF Image
<1>3. InOrder(all, <<>>)
  BY <1>1 DEF InOrder
<1>4. \E x : all \subseteq a \cup {x}
  OBVIOUS
<1>5. \A r \in all : r.id <= top /\ r \notin g
  OBVIOUS
<1>6. p \ d \subseteq all /\ a \ d \subseteq all
  OBVIOUS
<1> HIDE DEF all
<1>7. Sound(all, <<>>, n, a, p, g, d, top)
  BY <1>1, <1>2, <1>3, <1>4, <1>5, <1>6 DEF Sound
<1> QED
  BY <1>7 DEF all

\* A whole journal is a prefix of itself.
LEMMA WholePrefix ==
    ASSUME NEW js \in Journal
    PROVE  SubSeq(js, 1, Len(js)) = js /\ Len(js) \in 0 .. Len(js)
<1>1. js \in Seq(Operation) /\ Len(js) \in Nat
  BY DEF Journal
<1>2. SubSeq(js, 1, Len(js)) = [i \in 1 .. Len(js) |-> js[i]]
  BY <1>1
<1>3. js = [i \in 1 .. Len(js) |-> js[i]]
  BY <1>1
<1> QED
  BY <1>1, <1>2, <1>3
-----------------------------------------------------------------------------
(* Files and snapshots.                                                    *)

\* The files of the store, by their place in tx_rels and in the compaction.
LEMMA Names ==
    /\ Len(Files) \in Nat /\ Len(Files) >= 1
    /\ \A i \in 1 .. Len(Files) : Files[i] \in Section \cup {"journal"}
    /\ \A f \in Section \cup {"journal"} : \E i \in 1 .. Len(Files) : Files[i] = f
    /\ Len(Sections) \in Nat /\ Len(Sections) >= 1
    /\ \A i \in 1 .. Len(Sections) : Sections[i] \in Section
    /\ \A s \in Section : \E i \in 1 .. Len(Sections) : Sections[i] = s
    /\ "journal" \notin Section /\ None \notin Copies /\ None \notin Snapshot
<1>1. /\ Files \in Seq(STRING) /\ Sections \in Seq(STRING) /\ Sections # <<>>
      /\ {Files[i] : i \in DOMAIN Files} = Section \cup {"journal"}
      /\ "journal" \notin Section /\ None \notin Copies /\ None \notin Snapshot
  BY StoreAssumption
<1>2. DOMAIN Files = 1 .. Len(Files) /\ Len(Files) \in Nat
      /\ DOMAIN Sections = 1 .. Len(Sections) /\ Len(Sections) \in Nat
  BY <1>1
<1>3. Len(Sections) # 0
  BY <1>1
<1>4. Section = {Sections[i] : i \in 1 .. Len(Sections)}
  BY <1>2 DEF Section
<1>5. \A f \in Section \cup {"journal"} : \E i \in 1 .. Len(Files) : Files[i] = f
  <2>1. {Files[i] : i \in 1 .. Len(Files)} = Section \cup {"journal"}
    BY <1>1, <1>2, Zenon
  <2> QED
    BY <2>1
<1>6. Len(Files) # 0
  BY <1>5
<1>7. \A i \in 1 .. Len(Files) : Files[i] \in Section \cup {"journal"}
  BY <1>1, <1>2
<1> QED
  BY <1>1, <1>2, <1>3, <1>4, <1>5, <1>6, <1>7

\* Snapshots hold records.
LEMMA HeldTyped ==
    ASSUME NEW ss \in [Section -> Snapshot \cup {None}]
    PROVE  Held(ss) \in SUBSET Record
<1>1. \A s \in Section : ss[s] # None => ss[s].records \in SUBSET Record
  BY DEF Snapshot
<1> QED
  BY <1>1 DEF Held

\* What the sections hold once every one is replaced.
LEMMA HeldProjected ==
    ASSUME NEW ss, \A s \in Section : ss[s] = Projected(s), table \in SUBSET Record
    PROVE  Held(ss) = table \ due
<1>1. \A s \in Section : Projected(s) \in Snapshot
  BY DEF Projected, Snapshot
<1>2. \A s \in Section : ss[s] # None
  BY <1>1, Names
<1>3. \A r \in table : r.section \in Section
  BY DEF Record
<1>4. ASSUME NEW s \in Section
      PROVE  ss[s].records = {r \in table \ due : r.section = s}
  <2>1. Projected(s).records = {r \in table \ due : r.section = s}
    BY Zenon DEF Projected
  <2> QED
    BY <2>1
<1>5. Held(ss) = UNION {ss[s].records : s \in Section}
  BY <1>2 DEF Held
<1> QED
  BY <1>3, <1>4, <1>5

\* A section file replaced by a snapshot, or by nothing.
LEMMA SnapReplaced ==
    ASSUME NEW ss \in [Section -> Snapshot \cup {None}], NEW s \in Section,
           NEW x \in Snapshot \cup {None}
    PROVE  /\ [ss EXCEPT ![s] = x] \in [Section -> Snapshot \cup {None}]
           /\ [ss EXCEPT ![s] = x][s] = x
           /\ \A t \in Section \ {s} : [ss EXCEPT ![s] = x][t] = ss[t]
  OBVIOUS

\* What compaction writes into a section is a snapshot.
LEMMA ProjectedTyped ==
    ASSUME table \in SUBSET Record, NEW s
    PROVE  Projected(s) \in Snapshot
  BY DEF Projected, Snapshot

\* A file copied to its backup; the other backups stay as they were.
LEMMA CopyFile ==
    ASSUME StoreTypeOK, NEW f \in Section \cup {"journal"}, UNCHANGED files,
           backup' = IF f = "journal" THEN [backup EXCEPT !.journal = journal]
                     ELSE [backup EXCEPT !.snap[f] = snap[f]]
    PROVE  /\ backup' \in Copies /\ Same(f)'
           /\ \A g \in Section \cup {"journal"} : Same(g) => Same(g)'
<1>1. /\ backup.snap \in [Section -> Snapshot \cup {None}]
      /\ backup.journal \in Journal \cup {None}
      /\ backup = [snap |-> backup.snap, journal |-> backup.journal]
      /\ snap \in [Section -> Snapshot \cup {None}] /\ journal \in Journal
  BY DEF StoreTypeOK, Copies
<1>2. snap' = snap /\ journal' = journal
  BY DEF files
<1>3. CASE f = "journal"
  <2>1. backup' = [snap |-> backup.snap, journal |-> journal]
    BY <1>1, <1>3
  <2>2. backup' \in Copies /\ backup'.snap = backup.snap /\ backup'.journal = journal
    BY <1>1, <2>1 DEF Copies
  <2> QED
    BY <1>2, <1>3, <2>2 DEF Same
<1>4. CASE f # "journal"
  <2>1. f \in Section /\ snap[f] \in Snapshot \cup {None}
    BY <1>1, <1>4
  <2>2. backup' = [snap |-> [backup.snap EXCEPT ![f] = snap[f]], journal |-> backup.journal]
    BY <1>1, <1>4
  <2>3. backup' \in Copies /\ backup'.journal = backup.journal
        /\ backup'.snap = [backup.snap EXCEPT ![f] = snap[f]]
    BY <1>1, <2>1, <2>2 DEF Copies
  <2>4. backup'.snap[f] = snap[f] /\ \A t \in Section \ {f} : backup'.snap[t] = backup.snap[t]
    BY <1>1, <2>1, <2>3
  <2> QED
    BY <1>2, <1>4, <2>1, <2>3, <2>4 DEF Same
<1> QED
  BY <1>3, <1>4

\* Where every file is the same as its backup, the backups are the files.
LEMMA AllSame ==
    StoreTypeOK /\ AllCopied =>
        /\ backup.snap = snap /\ backup.journal = journal
        /\ backup = [snap |-> snap, journal |-> journal]
<1> SUFFICES ASSUME StoreTypeOK, AllCopied
             PROVE  backup.snap = snap /\ backup.journal = journal
                    /\ backup = [snap |-> snap, journal |-> journal]
  OBVIOUS
<1>1. \A f \in Section \cup {"journal"} : Same(f)
  BY Names DEF AllCopied
<1>2. backup.journal = journal
  BY <1>1 DEF Same
<1>3. \A s \in Section : backup.snap[s] = snap[s]
  BY <1>1, Names DEF Same
<1>4. backup.snap = snap
  BY <1>3 DEF StoreTypeOK, Copies
<1> QED
  BY <1>2, <1>4 DEF StoreTypeOK, Copies

\* A file put back from its backup; recovery goes by a marker it has validated.
LEMMA RestoreFile ==
    ASSUME StoreTypeOK, Phases, Markers, Restore, NEW f, f = Files[at]
    PROVE  /\ at \in 1 .. Len(Files) /\ marker = backup /\ backup.journal \in Journal
           /\ snap' \in [Section -> Snapshot \cup {None}] /\ journal' \in Journal
           /\ synced' \in 0 .. Len(journal') /\ Same(f)'
           /\ \A g \in Section \cup {"journal"} : Same(g) => Same(g)'
           /\ f = "journal" => synced' = Len(journal')
           /\ f # "journal" => journal' = journal /\ synced' = synced
           /\ snap = backup.snap => snap' = snap
           /\ journal = backup.journal => journal' = journal
<1>1. /\ at \in 1 .. Len(Files) /\ f \in Section \cup {"journal"}
      /\ marker = backup /\ backup' = backup
  BY Names DEF Restore, Phases, Restoring, Validated
<1>2. marker # None
  BY <1>1, Names DEF StoreTypeOK
<1>3. backup.journal \in Journal
  BY <1>2 DEF Markers
<1>4. backup.snap \in [Section -> Snapshot \cup {None}]
  BY DEF StoreTypeOK, Copies
<1>5. snap \in [Section -> Snapshot \cup {None}] /\ journal \in Journal
      /\ synced \in 0 .. Len(journal)
  BY DEF StoreTypeOK
<1>6. Len(backup.journal) \in 0 .. Len(backup.journal)
  BY <1>3 DEF Journal
<1>7. CASE f = "journal"
  <2>1. journal' = backup.journal /\ synced' = Len(backup.journal) /\ snap' = snap
    BY <1>7 DEF Restore
  <2> QED
    BY <1>1, <1>3, <1>5, <1>6, <1>7, <2>1 DEF Same
<1>8. CASE f # "journal"
  <2>1. journal' = journal /\ synced' = synced /\ snap' = [snap EXCEPT ![f] = backup.snap[f]]
        /\ f \in Section
    BY <1>1, <1>8 DEF Restore
  <2>2. backup.snap[f] \in Snapshot \cup {None}
    BY <1>4, <2>1
  <2>3. snap' \in [Section -> Snapshot \cup {None}] /\ snap'[f] = backup.snap[f]
        /\ (\A t \in Section \ {f} : snap'[t] = snap[t])
    BY <1>5, <2>1, <2>2, SnapReplaced
  <2>4. snap = backup.snap => snap' = snap
    BY <1>5, <2>1
  <2>5. Same(f)' /\ \A g \in Section \cup {"journal"} : Same(g) => Same(g)'
    BY <1>1, <1>8, <2>1, <2>3 DEF Same
  <2> QED
    BY <1>1, <1>3, <1>5, <1>8, <2>1, <2>3, <2>4, <2>5
<1> QED
  BY <1>7, <1>8
-----------------------------------------------------------------------------
(* The invariant holds initially.                                          *)

\* A new store: no files, no records.
LEMMA StoreInitially == Init => StoreInv
<1> SUFFICES ASSUME Init PROVE StoreInv
  OBVIOUS
<1>1. journal = <<>> /\ <<>> \in Journal /\ Len(<<>>) = 0 /\ NoBackup \in Copies
  BY DEF Init, Journal, NoBackup, Copies
<1>2. StoreTypeOK
  <2>1. snap \in [Section -> Snapshot \cup {None}] /\ backup \in Copies /\ journal \in Journal
    BY <1>1 DEF Init
  <2>2. synced \in 0 .. Len(journal)
    BY <1>1 DEF Init
  <2> QED
    BY <2>1, <2>2 DEF Init, StoreTypeOK
<1>3. Phases /\ Copied /\ Mirrored /\ Remembered
  BY DEF Init, Phases, Copied, Mirrored, Remembered, Replacing, Restoring, Whole
<1>4. Markers
  BY <1>1, Names DEF Init, Markers, Replacing, Restoring, Whole
<1>5. Held(snap) = {} \ {}
  BY DEF Init, Held
<1>6. FilesSound
  BY <1>5, SoundCompacted DEF Init, FilesSound
<1>7. Selectable
  BY <1>6 DEF Init, Selectable
<1> QED
  BY <1>2, <1>3, <1>4, <1>7 DEF StoreInv
-----------------------------------------------------------------------------
(* Every step keeps it: the types and the phases.                          *)

\* The new frame of an append.
LEMMA FrameTyped ==
    ASSUME StoreTypeOK, NEW s \in Section
    PROVE  /\ Frame(s) \in Operation /\ Frame(s).record \in Record
           /\ Frame(s).seq = journalOps + 1 /\ Frame(s).record.id = issued + 1
           /\ Append(journal, Frame(s)) \in Journal
           /\ Len(Append(journal, Frame(s))) = Len(journal) + 1
<1>1. Frame(s) \in Operation /\ Frame(s).record \in Record
      /\ Frame(s).seq = journalOps + 1 /\ Frame(s).record.id = issued + 1
  BY DEF StoreTypeOK, Frame, Operation, Record
<1> QED
  BY <1>1 DEF StoreTypeOK, Journal

\* The steps, to be taken one by one.
LEMMA Steps ==
    ASSUME Next
    PROVE  \/ \E s \in Section, sync \in BOOLEAN : AppendOp(s, sync)
           \/ \E s \in Section : AppendFails(s)
           \/ Sync \/ SyncFails
           \/ CompactStart \/ Backup \/ BackupFails \/ WriteMarker \/ WriteMarkerFails
           \/ WriteSection \/ ResetJournal \/ WriteFails \/ Commit \/ CommitFails
           \/ Restore \/ RestoreDone \/ RestoreFails
           \/ Open \/ Load \/ Crash \/ Close
  BY DEF Next, Section

\* The disk, the table and the histories keep their types.
LEMMA StoreTypeStep ==
    ASSUME StoreTypeOK, Phases, Markers, Next
    PROVE  StoreTypeOK'
<1>1. /\ snap \in [Section -> Snapshot \cup {None}]
      /\ journal \in Journal /\ synced \in 0 .. Len(journal) /\ Len(journal) \in Nat
      /\ backup \in Copies /\ NoBackup \in Copies
      /\ up \in BOOLEAN /\ poisoned \in BOOLEAN /\ table \in SUBSET Record
      /\ journalOps \in Nat /\ before \in Nat /\ due \in SUBSET Record
      /\ issued \in Nat /\ acked \in SUBSET Record /\ promised \in SUBSET Record
      /\ gone \in SUBSET Record /\ dropped \in SUBSET Record
  BY DEF StoreTypeOK, NoBackup, Copies, Journal
<1>2. ASSUME NEW s \in Section, NEW sync \in BOOLEAN, AppendOp(s, sync) PROVE StoreTypeOK'
  <2>1. /\ Frame(s).record \in Record /\ Append(journal, Frame(s)) \in Journal
        /\ Len(Append(journal, Frame(s))) = Len(journal) + 1
    BY FrameTyped
  <2> QED
    BY <1>1, <1>2, <2>1 DEF AppendOp, StoreTypeOK, where
<1>3. ASSUME NEW s \in Section, AppendFails(s) PROVE StoreTypeOK'
  <2>1. /\ Append(journal, Frame(s)) \in Journal
        /\ Len(Append(journal, Frame(s))) = Len(journal) + 1
    BY FrameTyped
  <2>2. journal' \in Journal /\ synced' \in 0 .. Len(journal') /\ poisoned' \in BOOLEAN
    <3>1. CASE synced' = Len(journal) /\ UNCHANGED <<journal, poisoned>>
      BY <1>1, <3>1
    <3>2. CASE /\ journal' \in {journal, Append(journal, Frame(s))}
               /\ poisoned' = TRUE /\ UNCHANGED synced
      <4>1. CASE journal' = journal
        BY <1>1, <3>2, <4>1
      <4>2. CASE journal' = Append(journal, Frame(s))
        BY <1>1, <2>1, <3>2, <4>2
      <4> QED
        BY <3>2, <4>1, <4>2
    <3> QED
      BY <1>3, <3>1, <3>2 DEF AppendFails
  <2> QED
    BY <1>1, <1>3, <2>2 DEF AppendFails, StoreTypeOK, where, history
<1>4. CASE Sync
  BY <1>1, <1>4 DEF Sync, StoreTypeOK, memory, where, bounds
<1>5. CASE SyncFails
  BY <1>1, <1>5 DEF SyncFails, StoreTypeOK, disk, where, history
<1>6. CASE CompactStart
  BY <1>1, <1>6 DEF CompactStart, StoreTypeOK, disk, memory
<1>7. CASE Backup
  <2>1. Files[at] \in Section \cup {"journal"}
    BY <1>7, Names DEF Backup, Phases
  <2>2. backup' \in Copies
    BY <1>7, <2>1, CopyFile DEF Backup
  <2> QED
    BY <1>1, <1>7, <2>2 DEF Backup, StoreTypeOK, files, memory, bounds, history
<1>8. CASE BackupFails \/ WriteMarker \/ WriteMarkerFails
  BY <1>1, <1>8 DEF BackupFails, WriteMarker, WriteMarkerFails, StoreTypeOK, files,
                    memory, bounds, history
<1>9. CASE WriteSection
  <2>1. Sections[at] \in Section
    BY <1>9, Names DEF WriteSection, Phases
  <2>2. snap' \in [Section -> Snapshot \cup {None}]
    BY <1>1, <1>9, <2>1, ProjectedTyped, SnapReplaced DEF WriteSection
  <2> QED
    BY <1>1, <1>9, <2>2 DEF WriteSection, StoreTypeOK, memory, bounds, history
<1>10. <<>> \in Journal /\ Len(<<>>) = 0
  BY DEF Journal
<1>11. CASE ResetJournal
  BY <1>1, <1>10, <1>11 DEF ResetJournal, StoreTypeOK, bounds, history
<1>12. CASE WriteFails
  <2>1. snap' \in [Section -> Snapshot \cup {None}] /\ journal' \in Journal
        /\ synced' \in 0 .. Len(journal')
    <3>1. CASE UNCHANGED files
      BY <1>1, <3>1 DEF files
    <3>2. CASE pc = "write" /\ snap' = [snap EXCEPT ![Sections[at]] = Projected(Sections[at])]
               /\ UNCHANGED <<journal, synced>>
      <4>1. Sections[at] \in Section
        BY <3>2, Names DEF Phases
      <4> QED
        BY <1>1, <3>2, <4>1, ProjectedTyped, SnapReplaced
    <3>3. CASE pc = "reset" /\ journal' = <<>> /\ synced' = 0 /\ UNCHANGED snap
      BY <1>1, <1>10, <3>3
    <3> QED
      BY <1>12, <3>1, <3>2, <3>3 DEF WriteFails
  <2> QED
    BY <1>1, <1>12, <2>1 DEF WriteFails, StoreTypeOK, memory, history
<1>13. CASE Commit \/ CommitFails
  BY <1>1, <1>13 DEF Commit, CommitFails, StoreTypeOK, files, bounds, history
<1>14. CASE Restore
  <2>1. /\ snap' \in [Section -> Snapshot \cup {None}] /\ journal' \in Journal
        /\ synced' \in 0 .. Len(journal')
    BY <1>14, RestoreFile
  <2> QED
    BY <1>1, <1>14, <2>1 DEF Restore, StoreTypeOK, memory, bounds, history
<1>15. CASE RestoreDone \/ RestoreFails
  BY <1>1, <1>15 DEF RestoreDone, RestoreFails, StoreTypeOK, files, bounds, history
<1>16. CASE Open
  BY <1>1, <1>16 DEF Open, StoreTypeOK, disk, memory, bounds, history
<1>17. CASE Load
  <2>1. Held(snap) \in SUBSET Record
    BY <1>1, HeldTyped
  <2>2. Replayed(journal) \in SUBSET Record
    <3>1. \A i \in DOMAIN journal : journal[i] \in Operation
      BY <1>1 DEF Journal
    <3> QED
      BY <3>1 DEF Replayed, Operation
  <2> QED
    BY <1>1, <1>17, <2>1, <2>2 DEF Load, StoreTypeOK, bounds
<1>18. CASE Crash
  <2>1. PICK n \in synced .. Len(journal) : journal' = SubSeq(journal, 1, n) /\ synced' = n
    BY <1>18 DEF Crash
  <2>2. n \in 0 .. Len(journal)
    BY <1>1, <2>1
  <2>3. journal' \in Journal /\ Len(journal') = n
    BY <1>1, <2>1, <2>2, Prefix
  <2>4. synced' \in 0 .. Len(journal')
    BY <1>1, <2>1, <2>2, <2>3
  <2> QED
    BY <1>1, <1>18, <2>3, <2>4 DEF Crash, EmptyMemory, StoreTypeOK, history
<1>19. CASE Close
  BY <1>1, <1>19 DEF Close, EmptyMemory, StoreTypeOK, disk, history
<1> QED
  BY <1>2, <1>3, <1>4, <1>5, <1>6, <1>7, <1>8, <1>9, <1>11, <1>12, <1>13, <1>14, <1>15,
     <1>16, <1>17, <1>18, <1>19, Steps

\* Compaction and recovery go through their files in order, in a running store
\* and in a closed one.
LEMMA PhasesStep ==
    ASSUME StoreTypeOK, Phases, Markers, Next
    PROVE  Phases'
<1>1. Len(Files) \in Nat /\ 1 <= Len(Files) /\ Len(Sections) \in Nat /\ 1 <= Len(Sections)
  BY Names
<1>2. CASE \E s \in Section, sync \in BOOLEAN : AppendOp(s, sync)
  BY <1>2 DEF AppendOp, Ready, Phases, Replacing, Restoring, where
<1>3. CASE \E s \in Section : AppendFails(s)
  BY <1>3 DEF AppendFails, Ready, Phases, Replacing, Restoring, where
<1>4. CASE Sync \/ SyncFails
  BY <1>4 DEF Sync, SyncFails, Ready, Phases, Replacing, Restoring, memory, where
<1>5. CASE CompactStart
  BY <1>1, <1>5 DEF CompactStart, Ready, Goto, Phases, Replacing, Restoring, memory
<1>6. CASE Backup
  BY <1>1, <1>6 DEF Backup, Goto, Phases, Replacing, Restoring, memory
<1>7. CASE BackupFails \/ WriteMarker \/ WriteMarkerFails
  BY <1>1, <1>7 DEF BackupFails, WriteMarker, WriteMarkerFails, Goto, Phases, Replacing,
                    Restoring, memory
<1>8. CASE WriteSection
  BY <1>1, <1>8 DEF WriteSection, Goto, Phases, Replacing, Restoring, memory
<1>9. CASE ResetJournal \/ WriteFails
  BY <1>1, <1>9 DEF ResetJournal, WriteFails, Goto, Phases, Replacing, Restoring, memory
<1>10. CASE Commit \/ CommitFails
  BY <1>10 DEF Commit, CommitFails, Goto, Phases, Replacing, Restoring
<1>11. CASE Restore
  BY <1>1, <1>11 DEF Restore, Goto, Phases, Replacing, Restoring, memory
<1>12. CASE RestoreDone
  BY <1>12 DEF RestoreDone, Goto, Phases, Replacing, Restoring
<1>13. CASE RestoreFails
  BY <1>13 DEF RestoreFails, Goto, Phases, Replacing, Restoring
<1>14. CASE Open
  BY <1>1, <1>14 DEF Open, Goto, Phases, Replacing, Restoring, memory, StoreTypeOK
<1>15. CASE Load
  BY <1>15 DEF Load, Goto, Phases, Replacing, Restoring, StoreTypeOK
<1>16. CASE Crash \/ Close
  BY <1>16 DEF Crash, Close, EmptyMemory, Goto, Phases, Replacing, Restoring
<1> QED
  BY <1>2, <1>3, <1>4, <1>5, <1>6, <1>7, <1>8, <1>9, <1>10, <1>11, <1>12, <1>13, <1>14,
     <1>15, <1>16, Steps

\* A recovery always validates: what the marker holds is in the backups.
LEMMA NoMismatch ==
    ASSUME Markers, pc \in Restoring
    PROVE  Validated
  BY DEF Markers, Restoring, Replacing, Validated

\* No marker is taken for a mark of other backups than those that are there.
LEMMA MarkersStep ==
    ASSUME StoreTypeOK, Phases, Markers, Copied, Next
    PROVE  Markers'
<1>1. backup \in Copies /\ backup # None /\ NoBackup # None
  BY Names DEF StoreTypeOK, NoBackup, Copies
<1>2. CASE \E s \in Section, sync \in BOOLEAN : AppendOp(s, sync)
  BY <1>1, <1>2 DEF AppendOp, Ready, Markers, Whole, Replacing, where
<1>3. CASE \E s \in Section : AppendFails(s)
  BY <1>1, <1>3 DEF AppendFails, Ready, Markers, Whole, Replacing, where
<1>4. CASE Sync \/ SyncFails
  BY <1>1, <1>4 DEF Sync, SyncFails, Ready, Markers, Whole, Replacing, disk, memory, where
<1>5. CASE CompactStart
  BY <1>1, <1>5 DEF CompactStart, Ready, Goto, Markers, Whole, Replacing, disk, memory
<1>6. CASE Backup
  <2>1. Files[at] \in Section \cup {"journal"}
    BY <1>6, Names DEF Backup, Phases
  <2>2. backup' \in Copies /\ backup' # None
    BY <1>6, <2>1, CopyFile, Names DEF Backup
  <2>3. Whole /\ marker = None /\ kept = None
    BY <1>6 DEF Backup, Whole, Phases, Markers, Replacing
  <2> QED
    BY <1>6, <2>2, <2>3 DEF Backup, Goto, Markers, Whole, Replacing, files, memory
<1>7. CASE BackupFails
  BY <1>1, <1>7 DEF BackupFails, Goto, Markers, Whole, Replacing, Phases, files, memory
<1>8. CASE WriteMarker
  <2>1. backup.journal = journal /\ journal \in Journal
    BY <1>8 DEF WriteMarker, Copied, StoreTypeOK
  <2> QED
    BY <1>1, <1>8, <2>1 DEF WriteMarker, Goto, Markers, Whole, Replacing, files, memory
<1>9. CASE WriteMarkerFails
  <2>1. backup.journal = journal /\ backup.snap = snap /\ journal \in Journal
    BY <1>9 DEF WriteMarkerFails, Copied, StoreTypeOK
  <2>2. Whole /\ marker = None /\ kept = None
    BY <1>9 DEF WriteMarkerFails, Whole, Phases, Markers, Replacing
  <2> QED
    BY <1>1, <1>9, <2>1, <2>2 DEF WriteMarkerFails, Goto, Markers, Whole, Replacing, files
<1>10. CASE WriteSection
  BY <1>1, <1>10 DEF WriteSection, Goto, Markers, Whole, Replacing, memory
<1>11. CASE ResetJournal
  BY <1>1, <1>11 DEF ResetJournal, Goto, Markers, Whole, Replacing
<1>12. CASE WriteFails
  BY <1>1, <1>12 DEF WriteFails, Goto, Markers, Whole, Replacing, memory
<1>13. CASE Commit
  BY <1>1, <1>13 DEF Commit, Goto, Markers, Whole, Replacing
<1>14. CASE CommitFails
  BY <1>1, <1>14 DEF CommitFails, Goto, Markers, Whole, Replacing, files
<1>15. CASE Restore
  <2>1. /\ marker = backup /\ (snap = backup.snap => snap' = snap)
        /\ (journal = backup.journal => journal' = journal)
    BY <1>15, RestoreFile
  <2>2. pc = "rollback" \/ pc = "recover"
    BY <1>15 DEF Restore
  <2> QED
    BY <1>1, <1>15, <2>1, <2>2 DEF Restore, Goto, Markers, Whole, Replacing, memory
<1>16. CASE RestoreDone
  BY <1>1, <1>16 DEF RestoreDone, Goto, Markers, Whole, Replacing
<1>17. CASE RestoreFails
  <2>1. marker = backup /\ marker' \in {marker, None}
    BY <1>17, NoMismatch DEF RestoreFails, Restoring, Validated
  <2>2. pc = "rollback" \/ ~up
    BY <1>17 DEF RestoreFails, Phases, Replacing
  <2> QED
    BY <1>1, <1>17, <2>1, <2>2 DEF RestoreFails, Goto, Markers, Whole, Replacing, files
<1>18. CASE Open
  BY <1>1, <1>18 DEF Open, Goto, Markers, Whole, Replacing, disk, memory
<1>19. CASE Load
  BY <1>1, <1>19 DEF Load, Goto, Markers, Whole, Replacing
<1>20. CASE Crash
  BY <1>1, <1>20 DEF Crash, EmptyMemory, Goto, Markers, Whole, Replacing
<1>21. CASE Close
  BY <1>1, <1>21 DEF Close, EmptyMemory, Goto, Markers, Whole, Replacing, disk
<1> QED
  BY <1>2, <1>3, <1>4, <1>5, <1>6, <1>7, <1>8, <1>9, <1>10, <1>11, <1>12, <1>13, <1>14,
     <1>15, <1>16, <1>17, <1>18, <1>19, <1>20, <1>21, Steps
-----------------------------------------------------------------------------
(* Every step keeps it: what is copied, written and restored so far.       *)

\* File after file is copied, then section after section is replaced, or file
\* after file put back.
LEMMA CopiedStep ==
    ASSUME StoreTypeOK, Phases, Markers, Copied, Next
    PROVE  Copied'
<1>1. Len(Files) \in Nat /\ 1 <= Len(Files) /\ Len(Sections) \in Nat /\ 1 <= Len(Sections)
      /\ (\A i \in 1 .. Len(Files) : Files[i] \in Section \cup {"journal"})
      /\ (\A i \in 1 .. Len(Sections) : Sections[i] \in Section)
  BY Names
<1>2. CASE pc' = "idle" \/ pc' = "load"
  BY <1>2 DEF Copied, Restoring
<1>3. CASE CompactStart
  BY <1>1, <1>3 DEF CompactStart, Goto, Copied, Restoring
<1>4. CASE Backup
  <2>1. PICK f \in Section \cup {"journal"} : f = Files[at] /\ at \in 1 .. Len(Files)
    BY <1>1, <1>4 DEF Backup, Phases
  <2>2. backup' \in Copies /\ Same(f)' /\ \A g \in Section \cup {"journal"} : Same(g) => Same(g)'
    BY <1>4, <2>1, CopyFile DEF Backup
  <2>3. ASSUME NEW j \in 1 .. Len(Files), j <= at
        PROVE  Same(Files[j])'
    <3>1. CASE j = at
      BY <2>1, <2>2, <3>1
    <3>2. CASE j < at
      <4>1. Same(Files[j]) /\ Files[j] \in Section \cup {"journal"}
        BY <1>1, <1>4, <3>2 DEF Copied, Backup
      <4> QED
        BY <2>2, <4>1
    <3> QED
      BY <2>1, <2>3, <3>1, <3>2
  <2>4. CASE at < Len(Files)
    <3>1. pc' = "backup" /\ at' = at + 1
      BY <1>4, <2>4 DEF Backup, Goto
    <3>2. \A j \in 1 .. Len(Files) : j < at' => j <= at
      BY <2>1, <3>1
    <3> QED
      BY <2>3, <3>1, <3>2 DEF Copied, Restoring
  <2>5. CASE at = Len(Files)
    <3>1. pc' = "marker"
      BY <1>1, <1>4, <2>5 DEF Backup, Goto
    <3>2. AllCopied'
      BY <1>1, <2>3, <2>5 DEF AllCopied
    <3>3. StoreTypeOK'
      BY <1>4, StoreTypeStep DEF Next
    <3>4. (backup = [snap |-> snap, journal |-> journal])'
      BY <3>2, <3>3, AllSame, PTL
    <3> QED
      BY <3>1, <3>4 DEF Copied, Restoring
  <2> QED
    BY <1>1, <2>1, <2>4, <2>5
<1>5. CASE WriteMarker
  BY <1>1, <1>5 DEF WriteMarker, Goto, Copied, Restoring
<1>6. CASE WriteSection
  <2>1. PICK s \in Section : s = Sections[at] /\ at \in 1 .. Len(Sections)
    BY <1>1, <1>6 DEF WriteSection, Phases
  <2>2. \A t : Projected(t)' = Projected(t)
    BY <1>6 DEF WriteSection, memory, Projected
  <2>3. snap'[s] = Projected(s) /\ \A t \in Section \ {s} : snap'[t] = snap[t]
    BY <1>6, <2>1, SnapReplaced, ProjectedTyped DEF WriteSection, StoreTypeOK
  <2>4. ASSUME NEW j \in 1 .. Len(Sections), j <= at
        PROVE  snap'[Sections[j]] = Projected(Sections[j])'
    <3>1. CASE Sections[j] = s
      BY <2>2, <2>3, <3>1
    <3>2. CASE Sections[j] # s
      <4>1. j < at
        BY <2>1, <2>4, <3>2
      <4>2. snap[Sections[j]] = Projected(Sections[j])
        BY <1>6, <4>1 DEF Copied, WriteSection
      <4> QED
        BY <1>1, <2>2, <2>3, <3>2, <4>2
    <3> QED
      BY <3>1, <3>2
  <2>5. CASE at < Len(Sections)
    <3>1. pc' = "write" /\ at' = at + 1
      BY <1>6, <2>5 DEF WriteSection, Goto
    <3>2. \A j \in 1 .. Len(Sections) : j < at' => j <= at
      BY <2>1, <3>1
    <3> QED
      BY <2>4, <3>1, <3>2 DEF Copied, Restoring
  <2>6. CASE at = Len(Sections)
    <3>1. pc' = "reset"
      BY <1>1, <1>6, <2>6 DEF WriteSection, Goto
    <3>2. \A t \in Section : snap'[t] = Projected(t)'
      BY <1>1, <2>4, <2>6, Names
    <3> QED
      BY <3>1, <3>2 DEF Copied, Restoring
  <2> QED
    BY <1>1, <2>1, <2>5, <2>6
<1>7. CASE ResetJournal
  BY <1>7 DEF ResetJournal, Goto, Copied, Restoring, Projected
<1>8. CASE WriteFails
  BY <1>1, <1>8 DEF WriteFails, Goto, Copied, Restoring
<1>9. CASE Restore
  <2>1. PICK f \in Section \cup {"journal"} : f = Files[at] /\ at \in 1 .. Len(Files)
    BY <1>1, <1>9, RestoreFile
  <2>2. /\ Same(f)' /\ (\A g \in Section \cup {"journal"} : Same(g) => Same(g)')
        /\ (f = "journal" => synced' = Len(journal'))
        /\ (f # "journal" => journal' = journal /\ synced' = synced)
    BY <1>9, <2>1, RestoreFile
  <2>3. pc' = pc /\ pc \in Restoring /\ at' = at + 1
    BY <1>9 DEF Restore, Goto, Restoring
  <2>4. ASSUME NEW j \in 1 .. Len(Files), j < at'
        PROVE  Same(Files[j])' /\ (Files[j] = "journal" => synced' = Len(journal'))
    <3>1. CASE j = at
      BY <2>1, <2>2, <3>1
    <3>2. CASE j # at
      <4>1. j < at
        BY <2>1, <2>3, <2>4, <3>2
      <4>2. Same(Files[j]) /\ Files[j] \in Section \cup {"journal"}
            /\ (Files[j] = "journal" => synced = Len(journal))
        BY <1>1, <2>3, <4>1 DEF Copied
      <4>3. Same(Files[j])'
        BY <2>2, <4>2
      <4> QED
        BY <2>2, <4>2, <4>3
    <3> QED
      BY <3>1, <3>2
  <2> QED
    BY <2>3, <2>4 DEF Copied, Restoring
<1>10. CASE Open
  BY <1>1, <1>10 DEF Open, Goto, Copied, Restoring
<1>11. \/ pc' = "idle" \/ pc' = "load"
       \/ CompactStart \/ Backup \/ WriteMarker \/ WriteSection \/ ResetJournal
       \/ WriteFails \/ Restore \/ Open
  BY Steps DEF AppendOp, AppendFails, Sync, SyncFails, BackupFails, WriteMarkerFails, Commit,
     CommitFails, RestoreDone, RestoreFails, Load, Crash, Close, EmptyMemory, Goto, Ready,
     where, memory
<1> QED
  BY <1>2, <1>3, <1>4, <1>5, <1>6, <1>7, <1>8, <1>9, <1>10, <1>11
-----------------------------------------------------------------------------
(* Every step keeps it: what the table and the images hold.                *)

\* The image of a journal and of the same with one frame more.
LEMMA ImageAppend ==
    ASSUME NEW h, NEW js \in Journal, NEW f
    PROVE  /\ Len(Append(js, f)) = Len(js) + 1
           /\ Image(h, Append(js, f), Len(js) + 1) = Image(h, js, Len(js)) \cup {f.record}
<1> DEFINE ks == Append(js, f)
<1>1. Len(js) \in Nat /\ js \in Seq(Operation)
  BY DEF Journal
<1>2. Len(ks) = Len(js) + 1 /\ (\A i \in 1 .. Len(js) : ks[i] = js[i])
      /\ ks[Len(js) + 1] = f
  BY <1>1
<1> HIDE DEF ks
<1>3. Image(h, ks, Len(js) + 1) = Image(h, js, Len(js)) \cup {f.record}
  BY <1>1, <1>2 DEF Image
<1> QED
  BY <1>2, <1>3 DEF ks

\* Whatever restores every file leaves the files of the backups.
LEMMA Restored ==
    ASSUME StoreTypeOK, Phases, Markers, Copied, pc \in Restoring, at = Len(Files) + 1
    PROVE  /\ backup.snap = snap /\ backup.journal = journal
           /\ synced = Len(journal)
<1>1. \A j \in 1 .. Len(Files) : j < at
  BY Names
<1>2. AllCopied
  BY <1>1 DEF Copied, AllCopied
<1>3. \E j \in 1 .. Len(Files) : Files[j] = "journal"
  BY Names
<1>4. synced = Len(journal)
  BY <1>1, <1>3 DEF Copied
<1> QED
  BY <1>2, <1>4, AllSame

\* What the files hold once compaction is through.
LEMMA Compacted ==
    ASSUME StoreTypeOK, Copied, pc = "commit"
    PROVE  /\ Held(snap) = table \ due /\ journal = <<>> /\ Len(journal) = 0 /\ synced = 0
           /\ Image(Held(snap), journal, Len(journal)) = table \ due
<1>1. Held(snap) = table \ due
  BY HeldProjected DEF Copied, StoreTypeOK
<1>2. journal = <<>> /\ Len(journal) = 0
  BY DEF Copied
<1>3. synced = 0
  BY <1>2 DEF StoreTypeOK
<1>4. Image(Held(snap), journal, 0) = Held(snap)
  BY DEF Image
<1> QED
  BY <1>1, <1>2, <1>3, <1>4

\* The histories only name operations that were given a number, and a store
\* purges no record it did not set out to purge.
LEMMA RememberedStep ==
    ASSUME StoreInv, Next
    PROVE  Remembered'
<1>1. /\ promised \subseteq acked /\ due \subseteq dropped
      /\ (\A r \in acked \cup gone \cup due : r.id <= issued)
      /\ issued \in Nat /\ acked \in SUBSET Record /\ gone \in SUBSET Record
      /\ due \in SUBSET Record /\ (\A r \in Record : r.id \in Nat)
      /\ (up => table \subseteq acked)
  BY DEF StoreInv, Remembered, StoreTypeOK, Record, Mirrored
<1>2. ASSUME NEW s \in Section, NEW sync \in BOOLEAN, AppendOp(s, sync) PROVE Remembered'
  <2>1. Frame(s).record \in Record /\ Frame(s).record.id = issued + 1
    BY FrameTyped DEF StoreInv
  <2>2. acked' = acked \cup {Frame(s).record} /\ promised' \subseteq acked' /\ issued' = issued + 1
        /\ gone' = gone /\ due' = due /\ dropped' = dropped
    BY <1>1, <1>2 DEF AppendOp, where
  <2> QED
    BY <1>1, <2>1, <2>2 DEF Remembered
<1>3. CASE \E s \in Section : AppendFails(s)
  BY <1>1, <1>3 DEF AppendFails, Remembered, where, history
<1>4. CASE Sync \/ SyncFails
  BY <1>1, <1>4 DEF Sync, SyncFails, Remembered, where, history, bounds
<1>5. CASE CompactStart
  <2>1. table \subseteq acked /\ due' \subseteq table
    BY <1>1, <1>5 DEF CompactStart, Ready
  <2> QED
    BY <1>1, <1>5, <2>1 DEF CompactStart, Remembered
<1>6. CASE Backup \/ BackupFails \/ WriteMarker \/ WriteMarkerFails \/ WriteSection
           \/ ResetJournal \/ WriteFails
  BY <1>1, <1>6 DEF Backup, BackupFails, WriteMarker, WriteMarkerFails, WriteSection,
                    ResetJournal, WriteFails, Remembered, bounds, history
<1>7. CASE Commit \/ CommitFails
  BY <1>1, <1>7 DEF Commit, CommitFails, Remembered, bounds, history
<1>8. CASE Restore \/ RestoreDone \/ RestoreFails \/ Open \/ Crash \/ Close
  BY <1>1, <1>8 DEF Restore, RestoreDone, RestoreFails, Open, Crash, Close, EmptyMemory,
                    Remembered, bounds, history
<1>9. CASE Load
  <2>1. FilesSound
    BY <1>9 DEF Load, StoreInv, Markers, Selectable
  <2>2. table' = Image(Held(snap), journal, Len(journal))
    <3>1. Held(snap) \in SUBSET Record /\ journal \in Journal /\ Len(journal) \in 0 .. Len(journal)
      BY HeldTyped, WholePrefix DEF StoreInv, StoreTypeOK
    <3> QED
      BY <1>9, <3>1, ImageOfJournal DEF Load
  <2>3. \A r \in table' : r.id <= issued
    BY <2>1, <2>2 DEF FilesSound, Sound
  <2> QED
    BY <1>1, <1>9, <2>3 DEF Load, Remembered, bounds
<1> QED
  BY <1>2, <1>3, <1>4, <1>5, <1>6, <1>7, <1>8, <1>9, Steps

\* The table is what the image in the files holds, or while files are being
\* replaced the image in the backups.
LEMMA MirroredStep ==
    ASSUME StoreInv, Next
    PROVE  Mirrored'
<1> DEFINE inFiles == Image(Held(snap), journal, Len(journal))
           inBackups == Image(Held(backup.snap), backup.journal, Len(backup.journal))
<1>1. /\ StoreTypeOK /\ Phases /\ Markers /\ Copied /\ Mirrored /\ Remembered
      /\ journal \in Journal /\ Len(journal) \in Nat
  BY DEF StoreInv, StoreTypeOK, Journal
<1>2. ASSUME NEW s \in Section, NEW sync \in BOOLEAN, AppendOp(s, sync) PROVE Mirrored'
  <2> DEFINE r == Frame(s).record
  <2>1. r \in Record /\ r.id = issued + 1
    BY <1>1, FrameTyped
  <2>2. Whole /\ up /\ pc = "idle"
    BY <1>2 DEF AppendOp, Ready, Whole
  <2>3. /\ table \subseteq acked /\ acked \ dropped \subseteq table /\ gone \cap table = {}
        /\ inFiles = table /\ journalOps = Len(journal)
    BY <1>1, <2>2 DEF Mirrored
  <2>4. r \notin gone
    BY <1>1, <2>1 DEF Remembered, StoreTypeOK
  <2>5. /\ snap' = snap /\ journal' = Append(journal, Frame(s)) /\ journalOps' = journalOps + 1
        /\ table' = table \cup {r} /\ acked' = acked \cup {r} /\ up' = up /\ pc' = pc
        /\ gone' = gone /\ dropped' = dropped
    BY <1>2 DEF AppendOp, where
  <2>6. Len(journal') = Len(journal) + 1 /\ inFiles' = inFiles \cup {r}
    BY <1>1, <2>5, ImageAppend DEF Held
  <2> HIDE DEF r, inFiles
  <2>7. /\ table' \subseteq acked' /\ acked' \ dropped' \subseteq table' /\ gone' \cap table' = {}
        /\ inFiles' = table' /\ journalOps' = Len(journal')
    BY <2>3, <2>4, <2>5, <2>6
  <2> QED
    BY <2>2, <2>5, <2>7 DEF Mirrored, Replacing, inFiles
<1>3. CASE \E s \in Section : AppendFails(s)
  <2>1. Whole /\ up /\ pc = "idle" /\ inFiles = table /\ journalOps = Len(journal)
    BY <1>1, <1>3 DEF AppendFails, Ready, Whole, Mirrored
  <2>2. journal' = journal \/ poisoned'
    BY <1>3 DEF AppendFails
  <2>3. inFiles' = inFiles \/ poisoned'
    BY <1>3, <2>2 DEF AppendFails, Held
  <2> HIDE DEF inFiles
  <2> QED
    BY <1>1, <1>3, <2>1, <2>2, <2>3
    DEF AppendFails, Mirrored, Whole, Replacing, where, history, inFiles
<1>4. CASE Sync \/ SyncFails
  <2>1. inFiles' = inFiles
    BY <1>4 DEF Sync, SyncFails, disk, Held
  <2> QED
    BY <1>1, <1>4, <2>1
    DEF Sync, SyncFails, Ready, Mirrored, Whole, Replacing, disk, memory, where, history, inFiles
<1>5. CASE CompactStart
  <2>1. inFiles' = inFiles /\ Whole /\ journalOps = Len(journal) /\ inFiles = table
    BY <1>1, <1>5 DEF CompactStart, disk, Held, Ready, Whole, Mirrored
  <2> QED
    BY <1>1, <1>5, <2>1
    DEF CompactStart, Goto, Mirrored, Whole, Replacing, disk, memory, inFiles
<1>6. CASE Backup \/ BackupFails
  <2>1. inFiles' = inFiles /\ Whole
    BY <1>1, <1>6 DEF Backup, BackupFails, files, Held, Whole, Phases, Replacing
  <2> QED
    BY <1>1, <1>6, <2>1
    DEF Backup, BackupFails, Goto, Mirrored, Whole, Replacing, files, memory, history, inFiles
<1>7. CASE WriteMarker \/ WriteMarkerFails
  <2>1. inFiles' = inFiles /\ Whole /\ inFiles = table /\ before = Len(journal)
    BY <1>1, <1>7 DEF WriteMarker, WriteMarkerFails, files, Held, Whole, Phases, Replacing, Mirrored
  <2>2. ASSUME WriteMarker PROVE inBackups' = inFiles /\ backup'.journal = journal
    <3>1. backup' = backup /\ backup.snap = snap /\ backup.journal = journal
      BY <1>1, <2>2 DEF WriteMarker, Copied
    <3> QED
      BY <3>1 DEF Held
  <2> HIDE DEF inFiles, inBackups
  <2>3. CASE WriteMarker
    BY <1>1, <2>1, <2>2, <2>3
    DEF WriteMarker, Goto, Mirrored, Whole, Replacing, files, memory, history, inBackups
  <2>4. CASE WriteMarkerFails
    BY <1>1, <2>1, <2>4
    DEF WriteMarkerFails, Goto, Mirrored, Whole, Replacing, files, history, inFiles
  <2> QED
    BY <1>7, <2>3, <2>4
<1>8. CASE WriteSection \/ ResetJournal \/ WriteFails
  <2>1. inBackups' = inBackups /\ backup' = backup
    BY <1>8 DEF WriteSection, ResetJournal, WriteFails, Held
  <2>2. pc \in Replacing /\ pc' \in Replacing /\ (pc' = "commit" => ResetJournal)
    BY <1>8 DEF WriteSection, ResetJournal, WriteFails, Goto, Replacing
  <2> QED
    BY <1>1, <1>8, <2>1, <2>2
    DEF WriteSection, ResetJournal, WriteFails, Mirrored, Whole, Replacing, memory, history,
        inBackups
<1>9. CASE Commit
  <2>1. inFiles = table \ due /\ Len(journal) = 0
    BY <1>1, <1>9, Compacted DEF Commit
  <2>2. inFiles' = inFiles /\ journal' = journal
    BY <1>9 DEF Commit, files, Held
  <2>3. up /\ up' /\ journalOps = 0 /\ journalOps' = 0 /\ pc' = "idle"
    BY <1>1, <1>9 DEF Commit, Phases, Mirrored, Goto, Replacing
  <2>4. /\ table \subseteq acked /\ acked \ dropped \subseteq table /\ gone \cap table = {}
        /\ due \subseteq dropped
    BY <1>1, <2>3 DEF Mirrored, Remembered
  <2>5. table' = table \ due /\ gone' = gone \cup due /\ acked' = acked /\ dropped' = dropped
    BY <1>9 DEF Commit
  <2> HIDE DEF inFiles
  <2> QED
    BY <2>1, <2>2, <2>3, <2>4, <2>5 DEF Mirrored, Replacing, inFiles
<1>10. CASE CommitFails
  BY <1>1, <1>10 DEF CommitFails, Goto, Mirrored, Whole, Replacing, Phases, history
<1>11. CASE Restore
  <2>1. inBackups' = inBackups /\ backup' = backup /\ pc' = pc
    BY <1>11 DEF Restore, Goto, Held
  <2>2. pc = "rollback" \/ pc = "recover"
    BY <1>11 DEF Restore
  <2> QED
    BY <1>1, <1>11, <2>1, <2>2
    DEF Restore, Mirrored, Whole, Replacing, Phases, memory, history, inBackups
<1>12. CASE RestoreDone
  <2>1. CASE pc = "recover"
    <3>1. ~up'
      BY <1>1, <1>12, <2>1 DEF RestoreDone, Phases, Replacing
    <3>2. pc' = "load"
      BY <1>12, <2>1 DEF RestoreDone, Goto
    <3> QED
      BY <3>1, <3>2 DEF Mirrored, Whole, Replacing
  <2>2. CASE pc = "rollback"
    <3>1. inFiles = inBackups /\ backup.journal = journal
      BY <1>1, <1>12, <2>2, Restored DEF RestoreDone, Restoring
    <3>2. inFiles' = inFiles /\ journal' = journal
      BY <1>12 DEF RestoreDone, files, Held
    <3>3. inBackups = table /\ before = Len(journal)
      BY <1>1, <2>2, <3>1 DEF Mirrored, Replacing
    <3>4. journalOps' = before /\ pc' = "idle" /\ table' = table /\ up' = up
      BY <1>12, <2>2 DEF RestoreDone, Goto
    <3> HIDE DEF inFiles, inBackups
    <3> QED
      BY <1>1, <1>12, <3>1, <3>2, <3>3, <3>4
      DEF RestoreDone, Mirrored, Replacing, history, inFiles
  <2> QED
    BY <1>12, <2>1, <2>2 DEF RestoreDone
<1>13. CASE RestoreFails
  <2>1. poisoned' \/ ~up'
    BY <1>1, <1>13 DEF RestoreFails, Phases, Replacing
  <2> QED
    BY <1>1, <1>13, <2>1 DEF RestoreFails, Goto, Mirrored, Whole, Replacing, history
<1>14. CASE Open \/ Crash \/ Close
  <2>1. ~up' /\ pc' \notin Replacing
    BY <1>1, <1>14 DEF Open, Crash, Close, EmptyMemory, Goto, Replacing, memory, StoreTypeOK
  <2> QED
    BY <2>1 DEF Mirrored, Whole, Replacing
<1>15. CASE Load
  <2>1. FilesSound
    BY <1>15 DEF Load, StoreInv, Markers, Selectable
  <2>2. table' = inFiles /\ acked' = table'
    <3>1. Held(snap) \in SUBSET Record /\ journal \in Journal /\ Len(journal) \in 0 .. Len(journal)
      BY <1>1, HeldTyped, WholePrefix DEF StoreTypeOK
    <3> QED
      BY <1>15, <3>1, ImageOfJournal DEF Load
  <2>3. gone \cap inFiles = {}
    BY <2>1 DEF FilesSound, Sound
  <2>4. inFiles' = inFiles /\ journal' = journal /\ journalOps' = Len(journal)
    BY <1>15 DEF Load, Held
  <2>5. pc' = "idle" /\ gone' = gone
    BY <1>15 DEF Load, Goto
  <2> HIDE DEF inFiles
  <2> QED
    BY <2>2, <2>3, <2>4, <2>5 DEF Mirrored, Replacing, inFiles
<1> QED
  BY <1>2, <1>3, <1>4, <1>5, <1>6, <1>7, <1>8, <1>9, <1>10, <1>11, <1>12, <1>13, <1>14,
     <1>15, Steps
-----------------------------------------------------------------------------
(* Every step keeps it: what a power failure may select is sound.          *)

\* The image of the backups stays sound while nothing is acknowledged.
LEMMA BackupSoundKept ==
    ASSUME UNCHANGED <<backup, acked, promised, gone, dropped, issued>>, BackupSound
    PROVE  BackupSound'
  BY DEF BackupSound, Held

\* So does that of the files.
LEMMA FilesSoundKept ==
    ASSUME UNCHANGED <<snap, journal, synced, acked, promised, gone, dropped, issued>>, FilesSound
    PROVE  FilesSound'
  BY DEF FilesSound, Held

\* An operation in a whole store.
LEMMA AppendSound ==
    ASSUME StoreInv, Ready, FilesSound, NEW s \in Section,
           snap' = snap, journal' = Append(journal, Frame(s)), issued' = issued + 1,
           gone' = gone, dropped' = dropped,
           acked' \in {acked, acked \cup {Frame(s).record}},
           \/ synced' = synced /\ promised' = promised
           \/ synced' = Len(journal') /\ promised' = acked'
    PROVE  FilesSound'
<1> DEFINE h == Held(snap)
           f == Frame(s)
<1>1. /\ h \in SUBSET Record /\ journal \in Journal /\ synced \in 0 .. Len(journal)
      /\ issued \in Nat
  BY HeldTyped DEF StoreInv, StoreTypeOK
<1>2. Sound(h, journal, synced, acked, promised, gone, dropped, issued)
  BY DEF FilesSound
<1>3. /\ table \subseteq acked /\ acked \ dropped \subseteq table
      /\ Image(h, journal, Len(journal)) = table /\ journalOps = Len(journal)
  BY DEF StoreInv, Mirrored, Ready, Whole
<1>4. f \in Operation /\ f.seq = Len(journal) + 1 /\ f.record.id = issued + 1
      /\ Len(Append(journal, f)) = Len(journal) + 1
  BY <1>3, FrameTyped DEF StoreInv
<1>5. \A r \in gone : r.id <= issued
  BY DEF StoreInv, Remembered
<1>6. Len(journal) \in Nat
  BY <1>1 DEF Journal
<1> HIDE DEF h, f
<1>7. synced' \in synced .. Len(journal) + 1
  BY <1>1, <1>4, <1>6 DEF f
<1>8. acked' \in {acked, acked \cup {f.record}}
      /\ (promised' = promised \/ (synced' = Len(journal) + 1 /\ promised' = acked'))
  BY <1>4 DEF f
<1>9. Sound(h, Append(journal, f), synced', acked', promised', gone, dropped, issued + 1)
  <2>1. Complete(h, journal, acked, gone, dropped, issued) /\ Ahead(f, journal, issued)
    BY <1>3, <1>4, <1>5 DEF h, Complete, Ahead
  <2>2. Recorded(f, journal, synced, acked, promised, synced', acked', promised')
    BY <1>7, <1>8 DEF Recorded
  <2> QED
    BY <1>1, <1>2, <2>1, <2>2, SoundAppend, Zenon
<1>10. h = Held(snap') /\ journal' = Append(journal, f)
  BY DEF h, f
<1> QED
  BY <1>9, <1>10, Zenon DEF FilesSound, Held

\* Files that get safer, in a store that sets out to purge more.
LEMMA SaferSound ==
    ASSUME StoreTypeOK, FilesSound, UNCHANGED <<snap, journal, acked, promised, gone>>,
           synced' \in synced .. Len(journal), dropped \subseteq dropped',
           issued' \in Nat, issued <= issued'
    PROVE  FilesSound'
<1>1. /\ Held(snap) \in SUBSET Record /\ journal \in Journal /\ synced \in 0 .. Len(journal)
      /\ issued \in Nat
  BY HeldTyped DEF StoreTypeOK
<1>2. Sound(Held(snap), journal, synced', acked, promised, gone, dropped', issued')
  BY <1>1, SoundSafer DEF FilesSound
<1> QED
  BY <1>2 DEF FilesSound, Held

\* Backups taken of sound files are sound.
LEMMA BackupsSound ==
    ASSUME StoreTypeOK, FilesSound, backup = [snap |-> snap, journal |-> journal]
    PROVE  BackupSound
<1>1. /\ Held(snap) \in SUBSET Record /\ journal \in Journal /\ synced \in 0 .. Len(journal)
      /\ issued \in Nat
  BY HeldTyped DEF StoreTypeOK
<1>2. Len(journal) \in synced .. Len(journal)
  BY <1>1 DEF Journal
<1>3. Sound(Held(snap), journal, Len(journal), acked, promised, gone, dropped, issued)
  BY <1>1, <1>2, SoundSafer DEF FilesSound
<1>4. backup.snap = snap /\ backup.journal = journal
  OBVIOUS
<1> QED
  BY <1>3, <1>4 DEF BackupSound

\* Whatever a power failure selects next, it is sound.
LEMMA SelectableStep ==
    ASSUME StoreInv, Next
    PROVE  Selectable'
<1>1. /\ StoreTypeOK /\ Phases /\ Markers /\ Copied /\ Mirrored /\ Remembered /\ Selectable
      /\ backup # None /\ journal \in Journal /\ Len(journal) \in Nat
      /\ synced \in 0 .. Len(journal) /\ Held(snap) \in SUBSET Record /\ issued \in Nat
  BY Names, HeldTyped DEF StoreInv, StoreTypeOK, Journal
<1>2. Whole => marker = None /\ kept = None /\ FilesSound
  BY <1>1 DEF Markers, Selectable
<1>3. pc \in Replacing => marker = backup /\ kept = backup /\ BackupSound
  BY <1>1 DEF Markers, Selectable
<1>4. ASSUME NEW s \in Section, NEW sync \in BOOLEAN, AppendOp(s, sync) PROVE Selectable'
  <2>1. Ready /\ Whole
    BY <1>4 DEF AppendOp, Ready, Whole
  <2>2. FilesSound'
    BY <1>2, <1>4, <2>1, AppendSound DEF AppendOp
  <2> QED
    BY <1>2, <1>4, <2>1, <2>2 DEF AppendOp, Selectable
<1>5. ASSUME NEW s \in Section, AppendFails(s) PROVE Selectable'
  <2>1. Ready /\ Whole
    BY <1>5 DEF AppendFails, Ready, Whole
  <2>2. CASE journal' = Append(journal, Frame(s)) /\ synced' = synced
    BY <1>2, <1>5, <2>1, <2>2, AppendSound DEF AppendFails, history, Selectable
  <2>3. CASE journal' = journal
    <3>1. synced' \in synced .. Len(journal)
      BY <1>1, <1>5, <2>3 DEF AppendFails
    <3>2. FilesSound'
      BY <1>1, <1>2, <1>5, <2>1, <2>3, <3>1, SaferSound DEF AppendFails, history
    <3> QED
      BY <1>2, <1>5, <2>1, <3>2 DEF AppendFails, Selectable
  <2> QED
    BY <1>5, <2>2, <2>3 DEF AppendFails
<1>6. CASE Sync
  <2>1. Whole
    BY <1>6 DEF Sync, Ready, Whole
  <2>2. acked \ dropped \subseteq Image(Held(snap), journal, Len(journal))
    BY <1>1, <2>1 DEF Mirrored, Whole
  <2>3. Sound(Held(snap), journal, Len(journal), acked, acked, gone, dropped, issued)
    BY <1>1, <1>2, <2>1, <2>2, SoundSynced DEF FilesSound
  <2>4. FilesSound'
    BY <1>6, <2>3 DEF Sync, FilesSound, Held, bounds
  <2> QED
    BY <1>2, <1>6, <2>1, <2>4 DEF Sync, Selectable
<1>7. CASE SyncFails
  <2>1. Whole
    BY <1>7 DEF SyncFails, Ready, Whole
  <2> QED
    BY <1>2, <1>7, <2>1, FilesSoundKept DEF SyncFails, Selectable, disk, history
<1>8. CASE CompactStart
  <2>1. Whole
    BY <1>8 DEF CompactStart, Ready, Whole
  <2>2. synced \in synced .. Len(journal)
    BY <1>1
  <2>3. FilesSound'
    BY <1>1, <1>2, <1>8, <2>1, <2>2, SaferSound DEF CompactStart, disk
  <2> QED
    BY <1>2, <1>8, <2>1, <2>3 DEF CompactStart, Selectable, disk
<1>9. CASE Backup \/ BackupFails
  <2>1. Whole
    BY <1>1, <1>9 DEF Backup, BackupFails, Whole, Phases, Replacing
  <2> QED
    BY <1>2, <1>9, <2>1, FilesSoundKept
    DEF Backup, BackupFails, Selectable, files, bounds, history
<1>10. CASE WriteMarker \/ WriteMarkerFails
  <2>1. Whole
    BY <1>1, <1>10 DEF WriteMarker, WriteMarkerFails, Whole, Phases, Replacing
  <2>2. backup = [snap |-> snap, journal |-> journal]
    BY <1>1, <1>10 DEF WriteMarker, WriteMarkerFails, Copied
  <2>3. BackupSound
    BY <1>1, <1>2, <2>1, <2>2, BackupsSound
  <2>4. FilesSound'
    BY <1>2, <1>10, <2>1, FilesSoundKept
    DEF WriteMarker, WriteMarkerFails, files, bounds, history
  <2>5. backup' = backup => BackupSound'
    BY <1>10, <2>3, BackupSoundKept
    DEF WriteMarker, WriteMarkerFails, bounds, history
  <2>6. backup' = backup \/ (marker' = None /\ kept' = None)
    BY <1>2, <1>10, <2>1 DEF WriteMarker, WriteMarkerFails
  <2> QED
    BY <2>4, <2>5, <2>6 DEF Selectable
<1>11. CASE WriteSection \/ ResetJournal \/ WriteFails
  <2>1. pc \in Replacing
    BY <1>11 DEF WriteSection, ResetJournal, WriteFails, Replacing
  <2>2. BackupSound' /\ marker' = backup /\ kept' = backup
    BY <1>3, <1>11, <2>1, BackupSoundKept
    DEF WriteSection, ResetJournal, WriteFails, bounds, history
  <2> QED
    BY <1>1, <2>2 DEF Selectable
<1>12. CASE Commit
  <2>1. Held(snap) = table \ due /\ journal = <<>> /\ synced = 0
    BY <1>1, <1>12, Compacted DEF Commit
  <2>2. /\ table \subseteq acked /\ acked \ dropped \subseteq table /\ gone \cap table = {}
        /\ due \subseteq dropped /\ \A r \in acked : r.id <= issued
    BY <1>1, <1>12 DEF Commit, Mirrored, Remembered, Phases, Replacing
  <2>3. (gone \cup due) \cap (table \ due) = {}
    BY <2>2
  <2>4. Sound(table \ due, <<>>, synced, acked, acked, gone \cup due, dropped, issued)
    BY <1>1, <2>1, <2>2, <2>3, SoundCompacted
  <2>5. FilesSound'
    BY <1>12, <2>1, <2>4 DEF Commit, FilesSound, Held, files, bounds
  <2> QED
    BY <1>12, <2>5 DEF Commit, Selectable
<1>13. CASE CommitFails
  <2>1. Held(snap) = table \ due /\ journal = <<>> /\ synced = 0
    BY <1>1, <1>13, Compacted DEF CommitFails
  <2>2. /\ table \subseteq acked /\ acked \ dropped \subseteq table /\ gone \cap table = {}
        /\ due \subseteq dropped /\ (\A r \in acked : r.id <= issued) /\ promised \subseteq acked
    BY <1>1, <1>13 DEF CommitFails, Mirrored, Remembered, Phases, Replacing
  <2>3. gone \cap (table \ due) = {}
    BY <2>2
  <2>4. Sound(table \ due, <<>>, synced, acked, promised, gone, dropped, issued)
    BY <1>1, <2>1, <2>2, <2>3, SoundCompacted
  <2>5. FilesSound'
    BY <1>13, <2>1, <2>4 DEF CommitFails, FilesSound, Held, files, history
  <2>6. BackupSound'
    BY <1>3, <1>13, BackupSoundKept DEF CommitFails, Replacing, history
  <2> QED
    BY <2>5, <2>6 DEF Selectable
<1>14. CASE Restore
  <2>1. marker = backup /\ BackupSound
    BY <1>1, <1>14, RestoreFile DEF Selectable
  <2>2. BackupSound'
    BY <1>14, <2>1, BackupSoundKept DEF Restore, bounds, history
  <2>3. ASSUME kept = None PROVE FilesSound'
    <3>1. FilesSound /\ snap = backup.snap /\ journal = backup.journal
      BY <1>1, <2>1, <2>3 DEF Selectable, Markers
    <3>2. snap' = snap /\ journal' = journal /\ synced' \in synced .. Len(journal)
      BY <1>1, <1>14, <3>1, RestoreFile DEF Restore
    <3> QED
      BY <1>1, <1>14, <3>1, <3>2, SaferSound DEF Restore, bounds, history
  <2> QED
    BY <1>1, <1>14, <2>1, <2>2, <2>3 DEF Restore, Selectable
<1>15. pc \in Restoring => marker = backup /\ BackupSound
  BY <1>1 DEF Restoring, Replacing, Markers, Selectable
<1>16. ASSUME pc \in Restoring, at = Len(Files) + 1
       PROVE  FilesSound
  <2>1. backup.snap = snap /\ backup.journal = journal /\ synced = Len(journal)
    BY <1>1, <1>16, Restored
  <2> QED
    BY <1>15, <1>16, <2>1 DEF FilesSound, BackupSound
<1>17. CASE RestoreDone
  <2>1. FilesSound'
    BY <1>16, <1>17, FilesSoundKept DEF RestoreDone, Restoring, files, bounds, history
  <2> QED
    BY <1>17, <2>1 DEF RestoreDone, Selectable
<1>18. CASE RestoreFails
  <2>1. BackupSound'
    BY <1>15, <1>18, BackupSoundKept DEF RestoreFails, Restoring, history
  <2>2. FilesSound => FilesSound'
    BY <1>18, FilesSoundKept DEF RestoreFails, files, history
  <2>3. marker' = marker \/ FilesSound
    BY <1>1, <1>16, <1>18 DEF RestoreFails, Restoring
  <2>4. kept' = kept
    BY <1>18 DEF RestoreFails
  <2> QED
    BY <1>1, <2>1, <2>2, <2>3, <2>4 DEF Selectable
<1>19. CASE Open \/ Close
  BY <1>1, <1>19, FilesSoundKept, BackupSoundKept
  DEF Open, Close, Selectable, disk, bounds, history
<1>20. CASE Load
  <2>1. marker = None /\ FilesSound
    BY <1>1, <1>20 DEF Load, Markers, Selectable
  <2>2. table' = Image(Held(snap), journal, Len(journal)) /\ acked' = table' /\ promised' = table'
    <3>1. Len(journal) \in 0 .. Len(journal)
      BY <1>1
    <3> QED
      BY <1>1, <1>20, <3>1, ImageOfJournal DEF Load
  <2>3. Sound(Held(snap), journal, Len(journal), table', table', gone, dropped, issued)
    BY <1>1, <2>1, <2>2, SoundSynced DEF FilesSound
  <2>4. FilesSound'
    BY <1>20, <2>2, <2>3 DEF Load, FilesSound, Held, bounds
  <2> QED
    BY <1>20, <2>1, <2>4 DEF Load, Selectable
<1>21. CASE Crash
  <2>1. PICK n \in synced .. Len(journal) : journal' = SubSeq(journal, 1, n) /\ synced' = n
    BY <1>21 DEF Crash
  <2>2. PICK m \in {marker, kept} : marker' = m /\ kept' = m
    BY <1>21 DEF Crash
  <2>3. CASE m = None
    <3>1. FilesSound
      BY <1>1, <2>2, <2>3 DEF Selectable
    <3>2. Sound(Held(snap), SubSeq(journal, 1, n), n, acked, promised, gone, dropped, issued)
      BY <1>1, <2>1, <3>1, SoundPrefix DEF FilesSound, StoreTypeOK
    <3>3. FilesSound'
      BY <1>21, <2>1, <3>2 DEF Crash, FilesSound, Held, history
    <3> QED
      BY <2>2, <2>3, <3>3 DEF Selectable
  <2>4. CASE m # None
    <3>1. BackupSound'
      BY <1>1, <1>21, <2>2, <2>4, BackupSoundKept DEF Crash, Selectable, history
    <3> QED
      BY <2>2, <2>4, <3>1 DEF Selectable
  <2> QED
    BY <2>3, <2>4
<1> QED
  BY <1>4, <1>5, <1>6, <1>7, <1>8, <1>9, <1>10, <1>11, <1>12, <1>13, <1>14, <1>17, <1>18,
     <1>19, <1>20, <1>21, Steps

\* The invariant is inductive.
LEMMA StoreStep == StoreInv /\ [Next]_vars => StoreInv'
<1> SUFFICES ASSUME StoreInv, [Next]_vars PROVE StoreInv'
  OBVIOUS
<1>1. CASE Next
  <2>1. StoreTypeOK' /\ Phases' /\ Markers' /\ Copied'
    BY <1>1, StoreTypeStep, PhasesStep, MarkersStep, CopiedStep DEF StoreInv
  <2>2. Mirrored' /\ Remembered' /\ Selectable'
    BY <1>1, MirroredStep, RememberedStep, SelectableStep
  <2> QED
    BY <2>1, <2>2 DEF StoreInv
<1>2. CASE UNCHANGED vars
  BY <1>2
  DEF vars, disk, memory, where, bounds, history, StoreInv, StoreTypeOK, Phases, Markers, Copied,
      Mirrored, Remembered, Selectable, Whole, Same, Projected, Held, FilesSound, BackupSound
<1> QED
  BY <1>1, <1>2

\* What is on disk, in memory and in the histories keeps its type, and the store
\* is where its phase says.
THEOREM StoreAlways == Spec => []StoreInv
<1>1. Init => StoreInv
  BY StoreInitially
<1>2. StoreInv /\ [Next]_vars => StoreInv'
  BY StoreStep
<1> QED
  BY <1>1, <1>2, PTL DEF Spec
-----------------------------------------------------------------------------
(* What the next open finds.                                               *)

\* Whatever a power failure selects is a sound image, or the safe part of one.
LEMMA OutcomeOfSound ==
    ASSUME StoreInv, NEW o \in Outcomes
    PROVE  /\ promised \ dropped \subseteq Loaded(o)
           /\ Cardinality(Loaded(o) \ acked) <= 1
           /\ \A r \in Loaded(o), q \in acked \ dropped : q.id < r.id => q \in Loaded(o)
           /\ o.held \cap Replayed(o.frames) = {} /\ gone \cap Loaded(o) = {}
<1>1. /\ StoreTypeOK /\ Markers /\ Selectable
      /\ snap \in [Section -> Snapshot \cup {None}] /\ backup.snap \in [Section -> Snapshot \cup {None}]
      /\ journal \in Journal /\ synced \in 0 .. Len(journal) /\ acked \in SUBSET Record
  BY DEF StoreInv, StoreTypeOK, Copies
<1>2. PICK m \in {marker, kept}, n \in synced .. Len(journal) : o = Outcome(m, n)
  BY DEF Outcomes
<1>3. CASE m = None
  <2>1. o.held = Held(snap) /\ o.frames = SubSeq(journal, 1, n)
    BY <1>2, <1>3 DEF Outcome
  <2>2. Sound(Held(snap), journal, synced, acked, promised, gone, dropped, issued)
    BY <1>1, <1>2, <1>3 DEF Selectable, FilesSound
  <2>3. Held(snap) \in SUBSET Record
    BY <1>1, HeldTyped
  <2>4. Loaded(o) = Held(snap) \cup Replayed(SubSeq(journal, 1, n))
    BY <2>1 DEF Loaded
  <2>5. Found(Held(snap), SubSeq(journal, 1, n), Loaded(o), acked, promised, gone, dropped)
    BY <1>1, <1>2, <2>2, <2>3, <2>4, SoundLoads, Zenon
  <2> QED
    BY <2>1, <2>5 DEF Found
<1>4. CASE m # None
  <2>1. o.held = Held(backup.snap) /\ o.frames = backup.journal
    BY <1>2, <1>4 DEF Outcome
  <2>2. backup.journal \in Journal
        /\ Sound(Held(backup.snap), backup.journal, Len(backup.journal), acked, promised, gone,
                 dropped, issued)
    BY <1>1, <1>2, <1>4 DEF Selectable, BackupSound, Markers
  <2>3. Held(backup.snap) \in SUBSET Record
    BY <1>1, HeldTyped
  <2>4. SubSeq(backup.journal, 1, Len(backup.journal)) = backup.journal
        /\ Len(backup.journal) \in 0 .. Len(backup.journal)
        /\ Len(backup.journal) \in Len(backup.journal) .. Len(backup.journal)
    BY <2>2, WholePrefix
  <2>5. Loaded(o) = Held(backup.snap)
                    \cup Replayed(SubSeq(backup.journal, 1, Len(backup.journal)))
    BY <2>1, <2>4 DEF Loaded
  <2>6. Found(Held(backup.snap), SubSeq(backup.journal, 1, Len(backup.journal)), Loaded(o),
              acked, promised, gone, dropped)
    BY <1>1, <2>2, <2>3, <2>4, <2>5, SoundLoads, Zenon
  <2> QED
    BY <2>1, <2>4, <2>6 DEF Found
<1> QED
  BY <1>3, <1>4

\* However a compaction, an append or a recovery is cut short, the next open
\* finds every record whose durability was reported, unless it was due for
\* purging.
THEOREM PromisesKept == Spec => []NoPromiseBroken
<1>1. StoreInv => NoPromiseBroken
  BY OutcomeOfSound DEF NoPromiseBroken
<1> QED
  BY <1>1, StoreAlways, PTL

\* A power failure takes acknowledged records from the end only, and brings at
\* most one that was never acknowledged.
THEOREM LostFromTheEnd == Spec => []LossFromTheEnd
<1>1. StoreInv => LossFromTheEnd
  BY OutcomeOfSound DEF LossFromTheEnd
<1> QED
  BY <1>1, StoreAlways, PTL

\* Half of a compaction never shows at the next open, and a compaction that was
\* reported is never undone.
THEOREM PurgedStaysGone == Spec => []NothingComesBack
<1>1. StoreInv => NothingComesBack
  BY OutcomeOfSound DEF NothingComesBack
<1> QED
  BY <1>1, StoreAlways, PTL

\* While the store serves requests its files hold what its table holds, and no
\* marker could take a later operation back.
THEOREM DiskFollowsMemory == Spec => []MemoryMatchesDisk
<1>1. ASSUME StoreInv, Ready
      PROVE  /\ Held(snap) \cup Replayed(journal) = table
             /\ marker = None /\ kept = None
  <2>1. Whole
    BY <1>1 DEF Ready, Whole
  <2>2. Held(snap) \in SUBSET Record /\ journal \in Journal /\ Len(journal) \in 0 .. Len(journal)
    BY <1>1, HeldTyped, WholePrefix DEF StoreInv, StoreTypeOK
  <2>3. Held(snap) \cup Replayed(journal) = Image(Held(snap), journal, Len(journal))
    BY <2>2, ImageOfJournal
  <2> QED
    BY <1>1, <2>1, <2>3 DEF StoreInv, Markers, Mirrored
<1>2. StoreInv => MemoryMatchesDisk
  BY <1>1 DEF MemoryMatchesDisk
<1> QED
  BY <1>2, StoreAlways, PTL

\* An open never fails on what it loads: after a recovery, or without one, no
\* snapshot holds an operation of the journal and no frame is out of sequence;
\* and no recovery meets a marker that its backups do not match.
THEOREM OpenNeverRefused ==
    Spec => [](/\ pc = "load" => Loadable
               /\ pc \in {"rollback", "recover"} => Validated)
<1>1. ASSUME StoreInv, pc = "load"
      PROVE  Loadable
  <2>1. FilesSound
    BY <1>1 DEF StoreInv, Markers, Selectable
  <2>2. Held(snap) \in SUBSET Record /\ journal \in Journal /\ DOMAIN journal = 1 .. Len(journal)
        /\ (\A r \in Record : r.id \in Nat)
    BY <1>1, HeldTyped DEF StoreInv, StoreTypeOK, Journal, Record
  <2>3. InOrder(Held(snap), journal)
    BY <2>1 DEF FilesSound, Sound
  <2>4. Held(snap) \cap Replayed(journal) = {}
    BY <2>2, <2>3 DEF InOrder, Replayed
  <2> QED
    BY <2>2, <2>3, <2>4 DEF Loadable, InOrder
<1>2. ASSUME StoreInv, pc \in {"rollback", "recover"}
      PROVE  Validated
  BY <1>2, NoMismatch DEF StoreInv, Restoring
<1>3. StoreInv => /\ pc = "load" => Loadable
                  /\ pc \in {"rollback", "recover"} => Validated
  BY <1>1, <1>2
<1> QED
  BY <1>3, StoreAlways, PTL
=============================================================================
