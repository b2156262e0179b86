---------------------------- MODULE CampaignProofs --------------------------
(***************************************************************************)
(* Proofs about Campaign: the queue in memory is the queue on disk, what a *)
(* campaign found outlives its sessions wherever they are killed, and no   *)
(* case of the other instance is left out, for any number of seeds, finds, *)
(* sessions and cases.                                                     *)
(***************************************************************************)
EXTENDS Campaign, FiniteSetTheorems, SequenceTheorems, TLAPS

-----------------------------------------------------------------------------
(* What the invariant speaks about *)

Queue == mem.queue
Saving == mem.saving

\* the files of a directory that were written
Whole(files) == {f \in files : f.data # Nothing}
Found(files) == {f.origin : f \in Whole(files)}

\* entries that have their file in the new queue
Done == IF pc = "pivot" THEN mem.pivoted ELSE Len(Queue)
FileOf(q) == [id |-> q.id, origin |-> q.origin, data |-> q.data]

-----------------------------------------------------------------------------
(* The inductive invariant *)

Places ==
  {"off", "rename", "clean", "mkdir", "read", "pivot", "nuke", "dry", "fuzz", "sync"}
Begun == {"rename", "clean", "mkdir", "read"}     \* nothing is read yet
Linked == {"nuke", "dry", "fuzz", "sync"}         \* every entry has its file

Datas == Origins \cup {Nothing, Junk}
FileRecord == [id : Nat, origin : Origins, data : Datas]
NameRecord == [id : Nat, origin : Origins]

DiskRecord ==
  [out : BOOLEAN, queue : QueueRecord, resume : QueueRecord, replay : SUBSET [id : Int, origin : Origins],
   crashes : SUBSET Crashes, saved : SUBSET Crashes, synced : Nat]

EntryRecord ==
  [id : Int, origin : Origins, data : Origins \cup {Junk}, det : BOOLEAN, redundant : BOOLEAN,
   variable : BOOLEAN]
ScanRecord == [min : Nat, next : Nat, seen : SUBSET Nat, here : SUBSET Nat]

MemRecord ==
  [in_place : BOOLEAN, queue : Seq(EntryRecord), pivoted : Nat,
   saving : {<< >>} \cup {<<f>> : f \in FileRecord},
   sync : {<< >>} \cup {<<s>> : s \in ScanRecord}]

HistRecord ==
  [known : SUBSET Origins, det : SUBSET Origins, crashes : SUBSET Crashes, looked : SUBSET Nat,
   raced : SUBSET Nat, risk : BOOLEAN, events : Nat]

Types ==
  /\ pc \in Places /\ disk \in DiskRecord /\ mem \in MemRecord /\ hist \in HistRecord
  /\ others \in [files : SUBSET Nat, written : SUBSET Nat]

\* No two written files of a directory have the same number.
Distinct(files) ==
  /\ IsFiniteSet(files)
  /\ \A f, g \in Whole(files) : f.id = g.id => f = g

Directories == Distinct(disk.queue.files) /\ Distinct(disk.resume.files)

\* What the variables are at each place.
Progress ==
  /\ pc \in Begun => Queue = << >> /\ mem.pivoted = 0
  /\ pc = "off" => mem = MemInit
  /\ pc \notin {"fuzz", "sync"} => Saving = << >>
  /\ pc # "sync" => mem.sync = << >>
  /\ pc = "sync" => mem.sync # << >>
  /\ pc = "pivot" => mem.pivoted <= Len(Queue)
  /\ pc = "read" => disk.queue = EmptyQueue
  /\ ~disk.out => pc = "off" /\ ~Blocked(disk.resume) /\ disk.queue.files = {} /\ hist.known = {}
  /\ ~disk.queue.there => disk.queue.files = {}
  /\ pc = "rename" => disk.out
  /\ pc \in {"pivot"} \cup Linked => disk.queue.there
  /\ pc = "nuke" => ~disk.resume.state

\* The entries that are done are what the new directory holds.
Mirrored ==
  /\ \A k \in 1 .. Done : Queue[k].id = k - 1
  /\ pc \in {"pivot"} \cup Linked =>
       /\ Whole(disk.queue.files) = {FileOf(Queue[k]) : k \in 1 .. Done}
       /\ disk.queue.det = {Name(Queue[k]) : k \in {j \in 1 .. Done : Queue[j].det}}
       /\ disk.queue.redundant = {Name(Queue[k]) : k \in {j \in 1 .. Done : Queue[j].redundant}}
       /\ disk.queue.variable = {Name(Queue[k]) : k \in {j \in 1 .. Done : Queue[j].variable}}
  /\ pc = "pivot" => \A k \in 1 .. Len(Queue) : ~Queue[k].redundant /\ ~Queue[k].variable

\* The entry that is being saved is the next one.
SavingNext ==
  Saving # << >> =>
    Saving[1].id = Len(Queue) /\ Saving[1].data # Nothing

\* Where what was found is.
Held == Found(Source.files)

Surviving ==
  ~hist.risk =>
    /\ pc \in {"off", "rename"} \/ (pc = "clean" /\ ~mem.in_place) => hist.known \subseteq Held
    /\ pc = "clean" /\ mem.in_place => hist.known \subseteq Found(disk.resume.files)
    /\ pc \in {"mkdir", "read", "pivot"} =>
         IF mem.in_place THEN hist.known \subseteq Found(disk.resume.files)
                         ELSE hist.known = {} /\ ~Blocked(disk.resume)
    /\ pc = "pivot" /\ mem.in_place =>
         Found(disk.resume.files) \subseteq {Queue[k].origin : k \in 1 .. Len(Queue)}
    /\ pc \in Linked => hist.known \subseteq {Queue[k].origin : k \in 1 .. Len(Queue)}
    /\ pc \in Linked \ {"nuke"} => ~Blocked(disk.resume)

CrashesKept == hist.crashes \subseteq disk.crashes \cup disk.saved

\* What is marked as done was done.
DetDone ==
  /\ \A x \in disk.queue.det \cup disk.resume.det : x.origin \in hist.det
  /\ \A k \in DOMAIN Queue : Queue[k].det => Queue[k].origin \in hist.det

\* The cases of the other instance have the numbers from 0, and a scan has
\* looked at what was there and is seen.
Scanned ==
  /\ IsFiniteSet(others.files) /\ others.files = 0 .. Cardinality(others.files) - 1
  /\ Cardinality(others.files) <= MaxOthers
  /\ others.written \subseteq others.files
  /\ disk.synced <= Cardinality(others.files)
  /\ \A k \in others.files : k < disk.synced => k \in hist.looked \cup hist.raced
  /\ pc = "sync" =>
       LET s == mem.sync[1] IN
         /\ s.min = disk.synced /\ s.next >= s.min /\ s.next <= Cardinality(others.files)
         /\ s.here \subseteq others.written
         /\ \A k \in s.seen : k >= s.min /\ k \in s.here => k \in hist.looked

IInv ==
  /\ Types /\ Directories /\ Progress /\ Mirrored /\ SavingNext
  /\ Surviving /\ CrashesKept /\ DetDone /\ Scanned

-----------------------------------------------------------------------------
(* Files and their order *)

LEMMA OriginsKnown ==
  /\ \A s \in 1 .. Seeds : Seed(s) \in Origins
  /\ \A n \in 1 .. MaxFinds : Find(n) \in Origins
  /\ \A n \in 0 .. MaxOthers : Sync(n) \in Origins
  /\ Nothing \notin Origins /\ Junk # Nothing
  /\ Seeds \in Nat \ {0} /\ MaxFinds \in Nat /\ MaxOthers \in Nat
<1>1. \A n : Seed(n) # Nothing /\ Find(n) # Nothing /\ Sync(n) # Nothing
  BY DEF Seed, Find, Sync, Nothing
<1>2. Nothing \notin Origins
  BY <1>1 DEF Origins
<1>3. Junk # Nothing
  BY DEF Junk, Nothing
<1>4. Seeds \in Nat \ {0} /\ MaxFinds \in Nat /\ MaxOthers \in Nat
  BY OutputDirAssumption
<1>5. /\ \A s \in 1 .. Seeds : Seed(s) \in Origins
      /\ \A n \in 1 .. MaxFinds : Find(n) \in Origins
      /\ \A n \in 0 .. MaxOthers : Sync(n) \in Origins
  BY DEF Origins
<1> QED
  BY <1>2, <1>3, <1>4, <1>5

\* Files with different numbers can be put in order: each place is taken by
\* exactly one of them.
LEMMA OrderIsComplete ==
  ASSUME NEW S \in SUBSET FileRecord, IsFiniteSet(S), \A f, g \in S : f.id = g.id => f = g
  PROVE  /\ Cardinality(S) \in Nat
         /\ \A k \in 1 .. Cardinality(S) : InOrder(S)[k] \in S
         /\ \A f \in S : \E k \in 1 .. Cardinality(S) : InOrder(S)[k] = f
<1> DEFINE n == Cardinality(S)
           rank == [f \in S |-> Cardinality(Before(f, S))]
<1>1. n \in Nat
  BY FS_CardinalityType
<1>2. \A f \in S : f.id \in Nat
  BY DEF FileRecord
<1>3. ASSUME NEW f \in S
      PROVE  /\ IsFiniteSet(Before(f, S)) /\ Cardinality(Before(f, S)) \in 0 .. n - 1
             /\ f \notin Before(f, S)
  <2>1. f \notin Before(f, S)
    BY <1>2 DEF Before
  <2>2. Before(f, S) \in SUBSET (S \ {f})
    BY <2>1 DEF Before
  <2>3. IsFiniteSet(S \ {f}) /\ Cardinality(S \ {f}) = n - 1
    BY FS_RemoveElement
  <2>4. IsFiniteSet(Before(f, S)) /\ Cardinality(Before(f, S)) <= n - 1
    BY <2>2, <2>3, FS_Subset
  <2> QED
    BY <1>1, <2>1, <2>4, FS_CardinalityType
<1>4. ASSUME NEW f \in S, NEW g \in S, f.id < g.id
      PROVE  Cardinality(Before(f, S)) # Cardinality(Before(g, S))
  <2>1. Before(f, S) \in SUBSET Before(g, S)
    BY <1>2, <1>4 DEF Before
  <2>2. f \in Before(g, S)
    BY <1>4 DEF Before
  <2>3. Before(f, S) # Before(g, S)
    BY <1>3, <2>2
  <2> QED
    BY <1>3, <2>1, <2>3, FS_Subset
<1>5. rank \in Injection(S, 0 .. n - 1)
  <2>1. rank \in [S -> 0 .. n - 1]
    BY <1>3
  <2>2. ASSUME NEW f \in S, NEW g \in S, f # g
        PROVE  rank[f] # rank[g]
    <3>1. f.id < g.id \/ g.id < f.id
      BY <1>2, <2>2
    <3> QED
      BY <1>4, <3>1
  <2> QED
    BY <2>1, <2>2 DEF Injection, IsInjective
<1>6. IsFiniteSet(0 .. n - 1) /\ Cardinality(0 .. n - 1) = n
  BY <1>1, FS_Interval
<1> HIDE DEF rank
<1>7. rank \in Surjection(S, 0 .. n - 1)
  BY <1>5, <1>6, FS_Injection
<1>8. \A j \in 0 .. n - 1 : \E f \in S : rank[f] = j
  BY <1>7 DEF Surjection
<1>9. /\ \A f \in S : rank[f] = Cardinality(Before(f, S)) /\ rank[f] \in 0 .. n - 1
      /\ \A f, g \in S : rank[f] = rank[g] => f = g
  BY <1>3, <1>5 DEF rank, Injection, IsInjective
<1>10. ASSUME NEW k \in 1 .. n
       PROVE  InOrder(S)[k] \in S /\ rank[InOrder(S)[k]] = k - 1
  <2>1. k - 1 \in 0 .. n - 1
    BY <1>1
  <2>2. PICK f \in S : rank[f] = k - 1
    BY <1>8, <2>1
  <2>3. Cardinality(Before(f, S)) = k - 1
    BY <1>9, <2>2
  <2>4. InOrder(S)[k] = CHOOSE g \in S : Cardinality(Before(g, S)) = k - 1
    BY DEF InOrder
  <2>5. InOrder(S)[k] \in S /\ Cardinality(Before(InOrder(S)[k], S)) = k - 1
    BY <2>3, <2>4
  <2> QED
    BY <1>9, <2>5
<1>11. ASSUME NEW f \in S
       PROVE  \E k \in 1 .. n : InOrder(S)[k] = f
  <2>1. rank[f] + 1 \in 1 .. n
    BY <1>1, <1>9
  <2>2. InOrder(S)[rank[f] + 1] \in S /\ rank[InOrder(S)[rank[f] + 1]] = rank[f]
    BY <1>1, <1>9, <1>10, <2>1
  <2> QED
    BY <1>9, <2>1, <2>2
<1> QED
  BY <1>1, <1>10, <1>11

LEMMA EntryTyped ==
  ASSUME NEW f, f.id \in Int, f.origin \in Origins, f.data \in Origins \cup {Junk},
         NEW d \in BOOLEAN
  PROVE  /\ Entry(f, d) \in EntryRecord
         /\ Entry(f, d).id = f.id /\ Entry(f, d).origin = f.origin /\ Entry(f, d).data = f.data
         /\ Entry(f, d).det = d /\ ~Entry(f, d).redundant /\ ~Entry(f, d).variable
BY DEF Entry, EntryRecord

\* read_testcases makes one entry of every file that was written.
LEMMA EntriesRead ==
  ASSUME NEW dir \in QueueRecord, Distinct(dir.files)
  PROVE  LET e == ReadFrom(dir)
         IN  /\ e \in Seq(EntryRecord)
             /\ Found(dir.files) = {e[k].origin : k \in 1 .. Len(e)}
             /\ \A k \in 1 .. Len(e) :
                  /\ e[k].det => \E x \in dir.det : x.origin = e[k].origin
                  /\ ~e[k].redundant /\ ~e[k].variable
<1> DEFINE S == Whole(dir.files)
           n == Cardinality(S)
           o == InOrder(S)
           e == [k \in DOMAIN o |-> Entry(o[k], Name(o[k]) \in dir.det)]
<1>1. ReadFrom(dir) = e
  BY DEF ReadFrom, Whole
<1>2. S \in SUBSET FileRecord /\ \A f \in S : f.data # Nothing
  BY DEF Whole, QueueRecord, FileRecord, Datas
<1>3. IsFiniteSet(S)
  <2>1. IsFiniteSet(dir.files) /\ S \in SUBSET dir.files
    BY DEF Distinct, Whole
  <2> QED
    BY <2>1, FS_Subset
<1>4. \A f, g \in S : f.id = g.id => f = g
  BY DEF Distinct
<1>5. /\ n \in Nat
      /\ \A k \in 1 .. n : o[k] \in S
      /\ \A f \in S : \E k \in 1 .. n : o[k] = f
  BY <1>2, <1>3, <1>4, OrderIsComplete
<1>6. DOMAIN o = 1 .. n
  BY DEF InOrder
<1>7. e = [k \in 1 .. n |-> Entry(o[k], Name(o[k]) \in dir.det)]
  BY <1>6
<1> HIDE DEF S, n, o, e
<1>8. \A k \in 1 .. n :
        /\ e[k] = Entry(o[k], Name(o[k]) \in dir.det)
        /\ o[k] \in FileRecord /\ o[k].data # Nothing
  BY <1>2, <1>5, <1>7
<1>9. \A k \in 1 .. n :
        /\ e[k] \in EntryRecord /\ e[k].origin = o[k].origin
        /\ e[k].det <=> Name(o[k]) \in dir.det
        /\ ~e[k].redundant /\ ~e[k].variable
  <2> TAKE k \in 1 .. n
  <2>1. o[k].id \in Int /\ o[k].origin \in Origins /\ o[k].data \in Origins \cup {Junk}
    BY <1>8 DEF FileRecord, Datas
  <2> DEFINE d == Name(o[k]) \in dir.det
  <2>2. d \in BOOLEAN /\ e[k] = Entry(o[k], d)
    BY <1>8
  <2>3. d <=> Name(o[k]) \in dir.det
    OBVIOUS
  <2> HIDE DEF d
  <2> QED
    BY <2>1, <2>2, <2>3, EntryTyped
<1>10. e \in Seq(EntryRecord) /\ Len(e) = n
  <2>1. e \in [1 .. n -> EntryRecord]
    BY <1>7, <1>9
  <2> QED
    BY <1>5, <2>1, SeqDef, LenProperties
<1>11. Found(dir.files) = {f.origin : f \in S}
  BY DEF Found, S
<1>12. {f.origin : f \in S} = {e[k].origin : k \in 1 .. n}
  BY <1>5, <1>9
<1>13. \A k \in 1 .. n : e[k].det => \E x \in dir.det : x.origin = e[k].origin
  BY <1>9 DEF Name
<1>14. Found(dir.files) = {e[k].origin : k \in 1 .. Len(e)}
  BY <1>10, <1>11, <1>12
<1>15. \A k \in 1 .. Len(e) :
         /\ e[k].det => \E x \in dir.det : x.origin = e[k].origin
         /\ ~e[k].redundant /\ ~e[k].variable
  BY <1>9, <1>10, <1>13
<1> QED
  BY <1>1, <1>10, <1>14, <1>15

-----------------------------------------------------------------------------
(* Before the dry run *)

LEMMA Fields ==
  ASSUME Types
  PROVE  /\ disk.queue \in QueueRecord /\ disk.resume \in QueueRecord
         /\ Queue \in Seq(EntryRecord) /\ Len(Queue) \in Nat /\ DOMAIN Queue = 1 .. Len(Queue)
         /\ \A k \in 1 .. Len(Queue) : Queue[k] \in EntryRecord
         /\ hist.known \subseteq Origins /\ hist.risk \in BOOLEAN /\ mem.in_place \in BOOLEAN
         /\ mem.pivoted \in Nat /\ disk.synced \in Nat /\ disk.out \in BOOLEAN
<1>1. Queue \in Seq(EntryRecord)
  BY DEF Types, MemRecord, Queue
<1>2. disk.queue \in QueueRecord /\ disk.resume \in QueueRecord
  BY DEF Types, DiskRecord
<1>3. /\ hist.known \subseteq Origins /\ hist.risk \in BOOLEAN /\ mem.in_place \in BOOLEAN
      /\ mem.pivoted \in Nat /\ disk.synced \in Nat /\ disk.out \in BOOLEAN
  BY DEF Types, MemRecord, HistRecord, DiskRecord
<1> QED
  BY <1>1, <1>2, <1>3, LenProperties

LEMMA QueuesTyped ==
  /\ NoQueue \in QueueRecord /\ EmptyQueue \in QueueRecord
  /\ NoQueue.files = {} /\ NoQueue.det = {} /\ EmptyQueue.files = {} /\ EmptyQueue.det = {}
  /\ EmptyQueue.redundant = {} /\ EmptyQueue.variable = {} /\ ~NoQueue.there /\ EmptyQueue.there
  /\ ~Blocked(NoQueue)
  /\ Distinct({})
<1>1. Distinct({})
  BY FS_EmptySet DEF Distinct, Whole
<1> QED
  BY <1>1 DEF NoQueue, EmptyQueue, QueueRecord, Blocked

LEMMA MemInitTyped ==
  /\ MemInit \in MemRecord /\ MemInit.queue = << >> /\ MemInit.pivoted = 0 /\ ~MemInit.in_place
  /\ MemInit.saving = << >> /\ MemInit.sync = << >>
  /\ \A b \in BOOLEAN :
       LET m == [MemInit EXCEPT !.in_place = b]
       IN  /\ m \in MemRecord /\ m.queue = << >> /\ m.pivoted = 0 /\ m.in_place = b
           /\ m.saving = << >> /\ m.sync = << >>
<1>1. << >> \in Seq(EntryRecord)
  BY EmptySeq
<1>2. /\ MemInit.queue = << >> /\ MemInit.pivoted = 0 /\ ~MemInit.in_place
      /\ MemInit.saving = << >> /\ MemInit.sync = << >>
  BY DEF MemInit
<1>3. MemInit \in MemRecord
  BY <1>1 DEF MemInit, MemRecord
<1>4. ASSUME NEW b \in BOOLEAN
      PROVE  LET m == [MemInit EXCEPT !.in_place = b]
             IN  /\ m \in MemRecord /\ m.queue = << >> /\ m.pivoted = 0 /\ m.in_place = b
                 /\ m.saving = << >> /\ m.sync = << >>
  BY <1>2, <1>3 DEF MemRecord
<1> QED
  BY <1>2, <1>3, <1>4

\* With an empty queue there is nothing to agree on.
LEMMA EmptyHanded ==
  ASSUME pc' \in Begun \cup {"off"}, Queue' = << >>, Saving' = << >>
  PROVE  Mirrored' /\ SavingNext' /\ \A k \in DOMAIN Queue' : FALSE
<1>1. Done' = 0 /\ Len(Queue') = 0
  BY DEF Done, Begun
<1>2. 1 .. 0 = {} /\ DOMAIN << >> = {}
  OBVIOUS
<1>3. Mirrored'
  BY <1>1, <1>2 DEF Mirrored, Begun, Linked
<1> QED
  BY <1>2, <1>3 DEF SavingNext

\* The scan of the other instance is not disturbed.
LEMMA ScannedFrame ==
  ASSUME Scanned, UNCHANGED others, disk'.synced = disk.synced, hist'.looked = hist.looked,
         hist'.raced = hist.raced, pc' # "sync" \/ (pc = "sync" /\ mem'.sync = mem.sync)
  PROVE  Scanned'
<1>1. /\ IsFiniteSet(others'.files) /\ others'.files = 0 .. Cardinality(others'.files) - 1
      /\ Cardinality(others'.files) <= MaxOthers
      /\ others'.written \subseteq others'.files
      /\ disk'.synced <= Cardinality(others'.files)
      /\ \A k \in others'.files : k < disk'.synced => k \in hist'.looked \cup hist'.raced
  BY DEF Scanned
<1>2. ASSUME pc' = "sync"
      PROVE  LET s == mem'.sync[1] IN
               /\ s.min = disk'.synced /\ s.next >= s.min /\ s.next <= Cardinality(others'.files)
               /\ s.here \subseteq others'.written
               /\ \A k \in s.seen : k >= s.min /\ k \in s.here => k \in hist'.looked
  BY <1>2 DEF Scanned
<1> QED
  BY <1>1, <1>2 DEF Scanned

LEMMA InitGivesIInv ==
  ASSUME CampaignInit
  PROVE  IInv
<1>1. /\ pc = "off" /\ mem = MemInit /\ others = [files |-> {}, written |-> {}]
      /\ disk = DiskInit /\ hist = HistInit
  BY DEF CampaignInit
<1>2. disk \in DiskRecord
  BY <1>1, QueuesTyped DEF DiskInit, DiskRecord
<1>3. hist \in HistRecord
  BY <1>1 DEF HistInit, HistRecord
<1>4. Types
  BY <1>1, <1>2, <1>3, MemInitTyped DEF Types, Places
<1>5. /\ disk.queue = NoQueue /\ disk.resume = NoQueue /\ ~disk.out /\ disk.synced = 0
      /\ disk.crashes = {} /\ hist.crashes = {} /\ hist.known = {} /\ others.files = {}
      /\ others.written = {} /\ Queue = << >> /\ Saving = << >> /\ mem.sync = << >>
      /\ mem.pivoted = 0
  BY <1>1, MemInitTyped DEF DiskInit, HistInit, Queue, Saving
<1>6. Directories
  BY <1>5, QueuesTyped DEF Directories
<1>7. Progress
  BY <1>1, <1>5, QueuesTyped DEF Progress, Begun, Linked
<1>8. DOMAIN Queue = {} /\ Len(Queue) = 0 /\ 1 .. 0 = {}
  BY <1>5
<1>9. Mirrored /\ SavingNext
  BY <1>1, <1>5, <1>8 DEF Mirrored, SavingNext, Done, Linked
<1>10. Surviving /\ CrashesKept /\ DetDone
  BY <1>1, <1>5, <1>8, QueuesTyped DEF Surviving, CrashesKept, DetDone, Linked
<1>11. IsFiniteSet({}) /\ Cardinality({}) = 0 /\ {} = 0 .. 0 - 1
  BY FS_EmptySet
<1>12. Scanned
  BY <1>1, <1>5, <1>11, OriginsKnown DEF Scanned
<1> QED
  BY <1>4, <1>6, <1>7, <1>9, <1>10, <1>12 DEF IInv

LEMMA StartKeeps ==
  ASSUME IInv, NEW b \in BOOLEAN, Start(b), UNCHANGED others
  PROVE  IInv'
<1>1. /\ Types /\ Directories /\ Progress /\ Surviving /\ CrashesKept /\ DetDone /\ Scanned
      /\ pc = "off" /\ (b => disk.out)
      /\ pc' = IF disk.out THEN "rename" ELSE "mkdir"
      /\ disk' = [disk EXCEPT !.out = TRUE] /\ mem' = [MemInit EXCEPT !.in_place = b]
      /\ hist' = hist
  BY DEF IInv, Start
<1>2. /\ disk' \in DiskRecord /\ disk'.out /\ disk'.queue = disk.queue /\ disk'.resume = disk.resume
      /\ disk'.synced = disk.synced /\ disk'.crashes = disk.crashes /\ disk'.saved = disk.saved
  BY <1>1 DEF Types, DiskRecord
<1>3. /\ mem' \in MemRecord /\ mem'.queue = << >> /\ mem'.pivoted = 0 /\ mem'.in_place = b
      /\ mem'.saving = << >> /\ mem'.sync = << >>
  BY <1>1, MemInitTyped
<1>4. pc' \in {"rename", "mkdir"}
  BY <1>1
<1>5. Types'
  BY <1>1, <1>2, <1>3, <1>4 DEF Types, Places
<1>6. Directories'
  BY <1>1, <1>2 DEF Directories
<1>7. Progress'
  BY <1>1, <1>2, <1>3, <1>4, Fields DEF Progress, Begun, Linked, Queue, Saving
<1>8. Mirrored' /\ SavingNext' /\ \A k \in DOMAIN Queue' : FALSE
  BY <1>3, <1>4, EmptyHanded DEF Queue, Saving, Begun
<1>9. Surviving'
  <2>1. Held' = Held /\ Blocked(disk'.resume) = Blocked(disk.resume)
    BY <1>2 DEF Held, Source, Blocked
  <2>2. CASE disk.out
    BY <1>1, <1>3, <2>1, <2>2 DEF Surviving, Linked
  <2>3. CASE ~disk.out
    <3>1. /\ pc' = "mkdir" /\ mem'.in_place = FALSE /\ hist'.known = {}
          /\ ~Blocked(disk.resume)
      BY <1>1, <1>3, <2>3 DEF Progress
    <3> QED
      BY <2>1, <3>1 DEF Surviving, Linked
  <2> QED
    BY <1>1, <2>2, <2>3, Fields
<1>10. CrashesKept' /\ DetDone'
  BY <1>1, <1>2, <1>8 DEF CrashesKept, DetDone
<1>11. Scanned'
  BY <1>1, <1>2, <1>4, ScannedFrame
<1> QED
  BY <1>5, <1>6, <1>7, <1>8, <1>9, <1>10, <1>11 DEF IInv

LEMMA RenameQueueKeeps ==
  ASSUME IInv, RenameQueue, UNCHANGED others
  PROVE  IInv'
<1>1. /\ Types /\ Directories /\ Progress /\ Surviving /\ CrashesKept /\ DetDone /\ Scanned
      /\ pc = "rename" /\ pc' = "clean" /\ mem' = mem /\ hist' = hist
  BY DEF IInv, RenameQueue
<1>2. /\ disk' \in DiskRecord /\ disk'.out = disk.out
      /\ disk'.synced = disk.synced /\ disk'.crashes = disk.crashes /\ disk'.saved = disk.saved
      /\ \/ /\ ~(mem.in_place /\ disk.queue.there /\ ~Blocked(disk.resume))
            /\ disk'.queue = disk.queue /\ disk'.resume = disk.resume
         \/ /\ mem.in_place /\ disk.queue.there /\ ~Blocked(disk.resume)
            /\ disk'.queue = NoQueue /\ disk'.resume = disk.queue
  <2>1. CASE mem.in_place /\ disk.queue.there /\ ~Blocked(disk.resume)
    <3>1. disk' = [disk EXCEPT !.resume = disk.queue, !.queue = NoQueue]
      BY <2>1 DEF RenameQueue
    <3> QED
      BY <1>1, <2>1, <3>1, QueuesTyped DEF Types, DiskRecord
  <2>2. CASE ~(mem.in_place /\ disk.queue.there /\ ~Blocked(disk.resume))
    <3>1. disk' = disk
      BY <2>2 DEF RenameQueue
    <3> QED
      BY <1>1, <2>2, <3>1 DEF Types
  <2> QED
    BY <2>1, <2>2
<1>3. Types'
  BY <1>1, <1>2 DEF Types, Places
<1>4. Directories'
  BY <1>1, <1>2, QueuesTyped DEF Directories
<1>5. Progress'
  BY <1>1, <1>2, QueuesTyped DEF Progress, Begun, Linked, Queue, Saving
<1>6. Queue' = << >> /\ Saving' = << >>
  BY <1>1 DEF Progress, Begun, Linked, Queue, Saving
<1>7. Mirrored' /\ SavingNext' /\ \A k \in DOMAIN Queue' : FALSE
  BY <1>1, <1>6, EmptyHanded DEF Begun
<1>8. Surviving'
  <2>1. hist.risk \/ hist.known \subseteq Found(Source.files)
    BY <1>1 DEF Surviving, Held
  <2>2. (~disk.queue.there => disk.queue.files = {}) /\ (~Blocked(disk.resume) => disk.resume.files = {})
    BY <1>1 DEF Progress, Blocked
  <2>3. mem.in_place => hist.risk \/ hist.known \subseteq Found(disk'.resume.files)
    BY <1>2, <2>1 DEF Source
  <2>4. ~mem.in_place => hist.risk \/ hist.known \subseteq Held'
    BY <1>2, <2>1 DEF Held, Source
  <2> QED
    BY <1>1, <2>3, <2>4 DEF Surviving, Linked
<1>9. CrashesKept' /\ DetDone'
  BY <1>1, <1>2, <1>7, QueuesTyped DEF CrashesKept, DetDone
<1>10. Scanned'
  BY <1>1, <1>2, ScannedFrame
<1> QED
  BY <1>3, <1>4, <1>5, <1>7, <1>8, <1>9, <1>10 DEF IInv

LEMMA CleanOutDirKeeps ==
  ASSUME IInv, CleanOutDir, UNCHANGED others
  PROVE  IInv'
<1>1. /\ Types /\ Directories /\ Progress /\ Surviving /\ CrashesKept /\ DetDone /\ Scanned
      /\ pc = "clean" /\ pc' = "mkdir" /\ mem' = mem
  BY DEF IInv, CleanOutDir
<1>2. /\ disk' \in DiskRecord /\ disk'.out = disk.out
      /\ disk'.queue = NoQueue /\ disk'.resume = disk.resume
      /\ disk'.synced = (IF mem.in_place THEN disk.synced ELSE 0)
      /\ disk'.crashes = {}
      /\ disk'.saved = IF mem.in_place THEN disk.saved \cup disk.crashes ELSE disk.saved
  <2> DEFINE syn == IF mem.in_place THEN disk.synced ELSE 0
             sav == IF mem.in_place THEN disk.saved \cup disk.crashes ELSE disk.saved
  <2>1. disk \in DiskRecord
    BY <1>1 DEF Types
  <2>2. disk' = [disk EXCEPT !.queue = NoQueue, !.replay = {}, !.synced = syn, !.saved = sav,
                             !.crashes = {}]
    BY <2>1 DEF CleanOutDir, DiskRecord
  <2>3. syn \in Nat /\ sav \in SUBSET Crashes
    BY <2>1 DEF DiskRecord
  <2> HIDE DEF syn, sav
  <2>4. /\ disk' \in DiskRecord /\ disk'.out = disk.out
        /\ disk'.queue = NoQueue /\ disk'.resume = disk.resume
        /\ disk'.synced = syn /\ disk'.crashes = {} /\ disk'.saved = sav
    BY <2>1, <2>2, <2>3, QueuesTyped DEF DiskRecord
  <2> QED
    BY <2>4 DEF syn, sav
<1>3. /\ hist' \in HistRecord /\ hist'.det = hist.det
      /\ \/ mem.in_place /\ hist' = hist
         \/ /\ ~mem.in_place /\ hist'.known = {} /\ hist'.crashes = {} /\ hist'.looked = {}
            /\ hist'.raced = {} /\ (hist'.risk <=> Blocked(disk.resume))
  <2> DEFINE risk == Blocked(disk.resume)
  <2>1. /\ hist \in HistRecord /\ risk \in BOOLEAN
        /\ hist' = IF mem.in_place THEN hist
                   ELSE [HistInit EXCEPT !.det = hist.det, !.events = hist.events, !.risk = risk]
    BY <1>1, Fields DEF Types, CleanOutDir, Blocked, QueueRecord
  <2> HIDE DEF risk
  <2>2. /\ hist' \in HistRecord /\ hist'.det = hist.det
        /\ \/ mem.in_place /\ hist' = hist
           \/ /\ ~mem.in_place /\ hist'.known = {} /\ hist'.crashes = {} /\ hist'.looked = {}
              /\ hist'.raced = {} /\ hist'.risk = risk
    BY <2>1 DEF HistInit, HistRecord
  <2> QED
    BY <2>2 DEF risk
<1>4. Types'
  BY <1>1, <1>2, <1>3 DEF Types, Places
<1>5. Directories'
  BY <1>1, <1>2, QueuesTyped DEF Directories
<1>6. Progress'
  BY <1>1, <1>2, QueuesTyped DEF Progress, Begun, Linked, Queue, Saving
<1>7. Queue' = << >> /\ Saving' = << >>
  BY <1>1 DEF Progress, Begun, Linked, Queue, Saving
<1>8. Mirrored' /\ SavingNext' /\ \A k \in DOMAIN Queue' : FALSE
  BY <1>1, <1>7, EmptyHanded DEF Begun
<1>9. Surviving'
  BY <1>1, <1>2, <1>3 DEF Surviving, Linked
<1>10. CrashesKept' /\ DetDone'
  BY <1>1, <1>2, <1>3, <1>8, QueuesTyped DEF CrashesKept, DetDone
<1>11. Scanned'
  <2>1. CASE mem.in_place
    BY <1>1, <1>2, <1>3, <2>1, ScannedFrame
  <2>2. CASE ~mem.in_place
    <3>1. disk'.synced = 0 /\ disk'.synced <= Cardinality(others'.files)
      BY <1>1, <1>2, <2>2, FS_CardinalityType DEF Scanned
    <3>2. \A k \in others'.files : ~(k < disk'.synced)
      <4>1. others'.files = 0 .. Cardinality(others.files) - 1
        BY <1>1 DEF Scanned
      <4>2. \A k \in 0 .. Cardinality(others.files) - 1 : ~(k < 0)
        OBVIOUS
      <4> QED
        BY <3>1, <4>1, <4>2
    <3> QED
      BY <1>1, <3>1, <3>2 DEF Scanned
  <2> QED
    BY <2>1, <2>2
<1> QED
  BY <1>4, <1>5, <1>6, <1>8, <1>9, <1>10, <1>11 DEF IInv

LEMMA SetupDirsKeeps ==
  ASSUME IInv, setup_dirs_fds, UNCHANGED others
  PROVE  IInv'
<1>1. /\ Types /\ Directories /\ Progress /\ Surviving /\ CrashesKept /\ DetDone /\ Scanned
      /\ pc = "mkdir" /\ pc' = "read" /\ mem' = mem /\ hist' = hist
      /\ disk' = [disk EXCEPT !.queue = EmptyQueue]
  BY DEF IInv, setup_dirs_fds
<1>2. /\ disk' \in DiskRecord /\ disk'.out = disk.out
      /\ disk'.queue = EmptyQueue /\ disk'.resume = disk.resume
      /\ disk'.synced = disk.synced /\ disk'.crashes = disk.crashes /\ disk'.saved = disk.saved
  BY <1>1, QueuesTyped DEF Types, DiskRecord
<1>3. Types'
  BY <1>1, <1>2 DEF Types, Places
<1>4. Directories'
  BY <1>1, <1>2, QueuesTyped DEF Directories
<1>5. Progress'
  BY <1>1, <1>2, QueuesTyped DEF Progress, Begun, Linked, Queue, Saving
<1>6. Queue' = << >> /\ Saving' = << >>
  BY <1>1 DEF Progress, Begun, Linked, Queue, Saving
<1>7. Mirrored' /\ SavingNext' /\ \A k \in DOMAIN Queue' : FALSE
  BY <1>1, <1>6, EmptyHanded DEF Begun
<1>8. Surviving'
  BY <1>1, <1>2 DEF Surviving, Linked
<1>9. CrashesKept' /\ DetDone'
  BY <1>1, <1>2, <1>7, QueuesTyped DEF CrashesKept, DetDone
<1>10. Scanned'
  BY <1>1, <1>2, ScannedFrame
<1> QED
  BY <1>3, <1>4, <1>5, <1>7, <1>8, <1>9, <1>10 DEF IInv

LEMMA OfFile ==
  \A q : FileOf(q).id = q.id /\ FileOf(q).origin = q.origin /\ FileOf(q).data = q.data
BY DEF FileOf

\* The end of a session, wherever it comes: what was found is in one of the two
\* directories, or the old one was partly deleted.
LEMMA OffKeeps ==
  ASSUME IInv, pc # "off", pc' = "off", mem' = MemInit,
         disk' \in DiskRecord, disk'.out = disk.out, disk'.resume = disk.resume,
         disk'.queue.files = disk.queue.files, disk'.queue.det = disk.queue.det,
         disk'.queue.there = disk.queue.there, disk'.synced = disk.synced,
         disk'.crashes = disk.crashes, disk'.saved = disk.saved,
         hist' \in HistRecord, hist'.known = hist.known, hist'.det = hist.det,
         hist'.crashes = hist.crashes, hist'.looked = hist.looked, hist'.raced = hist.raced,
         hist.risk \/ (pc = "nuke" /\ disk.resume.files # {}) => hist'.risk,
         UNCHANGED others
  PROVE  IInv'
<1>1. Types /\ Directories /\ Progress /\ Mirrored /\ Surviving /\ CrashesKept /\ DetDone /\ Scanned
  BY DEF IInv
<1>2. /\ mem' \in MemRecord /\ Queue' = << >> /\ mem'.pivoted = 0 /\ Saving' = << >>
      /\ mem'.sync = << >>
  BY MemInitTyped DEF Queue, Saving
<1>3. Types'
  BY <1>1, <1>2 DEF Types, Places
<1>4. Directories'
  BY <1>1 DEF Directories
<1>5. Progress'
  BY <1>1, <1>2 DEF Progress, Begun, Linked
<1>6. Mirrored' /\ SavingNext' /\ \A k \in DOMAIN Queue' : FALSE
  BY <1>2, EmptyHanded
<1>7. Found({}) = {}
  BY DEF Found, Whole
<1>8. ASSUME ~hist'.risk
      PROVE  hist.known \subseteq Held
  <2>1. ~hist.risk /\ (pc = "nuke" => disk.resume.files = {})
    BY <1>8
  <2>2. CASE pc \in {"rename", "clean", "mkdir", "read", "pivot"}
    <3>1. ~Blocked(disk.resume) => disk.resume.files = {}
      BY DEF Blocked
    <3> QED
      BY <1>1, <1>7, <2>1, <2>2, <3>1 DEF Surviving, Held, Source
  <2>3. CASE pc \in Linked
    <3>1. /\ Source = disk.queue
          /\ hist.known \subseteq {Queue[k].origin : k \in 1 .. Len(Queue)}
      BY <1>1, <2>1, <2>3 DEF Surviving, Linked, Source, Blocked, Progress
    <3>2. Whole(disk.queue.files) = {FileOf(Queue[k]) : k \in 1 .. Len(Queue)}
      BY <1>1, <2>3 DEF Mirrored, Done, Linked
    <3>3. ASSUME NEW k \in 1 .. Len(Queue)
          PROVE  Queue[k].origin \in Found(disk.queue.files)
      <4>1. FileOf(Queue[k]) \in Whole(disk.queue.files)
        BY <3>2
      <4>2. FileOf(Queue[k]).origin = Queue[k].origin
        BY DEF FileOf
      <4> QED
        BY <4>1, <4>2 DEF Found
    <3> QED
      BY <3>1, <3>3 DEF Held
  <2> QED
    BY <1>1, <2>2, <2>3 DEF Types, Places, Linked
<1>9. Held' = Held
  BY DEF Held, Source, Blocked
<1>10. Surviving'
  BY <1>8, <1>9 DEF Surviving, Linked
<1>11. CrashesKept' /\ DetDone'
  BY <1>1, <1>6 DEF CrashesKept, DetDone
<1>12. Scanned'
  BY <1>1, ScannedFrame
<1> QED
  BY <1>3, <1>4, <1>5, <1>6, <1>10, <1>11, <1>12 DEF IInv

LEMMA FailKeeps ==
  ASSUME IInv, pc # "off", pc # "nuke", Fail, disk' = disk, hist' = hist, others' = others
  PROVE  IInv'
<1>1. pc' = "off" /\ mem' = MemInit
  BY DEF Fail
<1>2. disk \in DiskRecord /\ hist \in HistRecord
  BY DEF IInv, Types
<1> QED
  BY <1>1, <1>2, OffKeeps

LEMMA CrashKeeps ==
  ASSUME IInv, Crash
  PROVE  IInv'
<1> DEFINE risk == hist.risk \/ (pc = "nuke" /\ disk.resume.files # {})
<1>1. /\ pc # "off" /\ pc' = "off" /\ mem' = MemInit /\ disk' = disk /\ others' = others
      /\ disk \in DiskRecord /\ hist \in HistRecord
  BY DEF Crash, Fail, IInv, Types
<1>2. risk \in BOOLEAN /\ hist' = [hist EXCEPT !.risk = risk]
  BY <1>1 DEF Crash, HistRecord
<1> HIDE DEF risk
<1>3. /\ hist' \in HistRecord /\ hist'.known = hist.known /\ hist'.det = hist.det
      /\ hist'.crashes = hist.crashes /\ hist'.looked = hist.looked /\ hist'.raced = hist.raced
      /\ hist'.risk = risk
  BY <1>1, <1>2 DEF HistRecord
<1>4. hist.risk \/ (pc = "nuke" /\ disk.resume.files # {}) => hist'.risk
  BY <1>3 DEF risk
<1> QED
  BY <1>1, <1>3, <1>4, OffKeeps

LEMMA StopKeeps ==
  ASSUME IInv, Stop
  PROVE  IInv'
<1>1. pc # "off" /\ pc # "nuke" /\ Fail /\ disk' = disk /\ hist' = hist /\ others' = others
  BY DEF Stop
<1> QED
  BY <1>1, FailKeeps

\* The crashes are deleted; the old queue was put aside before.
LEMMA CleanOutDirFailsKeeps ==
  ASSUME IInv, CleanOutDirFails, UNCHANGED others
  PROVE  IInv'
<1>1. /\ Types /\ Directories /\ Progress /\ Surviving /\ CrashesKept /\ DetDone /\ Scanned
      /\ pc = "clean" /\ mem.in_place /\ pc' = "off" /\ mem' = MemInit
      /\ disk \in DiskRecord /\ hist \in HistRecord
      /\ disk' = [disk EXCEPT !.queue = NoQueue, !.crashes = {}]
      /\ hist' = [hist EXCEPT !.crashes = @ \ disk.crashes]
  BY DEF IInv, CleanOutDirFails, Fail, Types
<1>2. /\ disk' \in DiskRecord /\ disk'.out = disk.out
      /\ disk'.queue = NoQueue /\ disk'.resume = disk.resume
      /\ disk'.synced = disk.synced /\ disk'.crashes = {} /\ disk'.saved = disk.saved
  BY <1>1, QueuesTyped DEF DiskRecord
<1>3. /\ hist' \in HistRecord /\ hist'.risk = hist.risk /\ hist'.known = hist.known
      /\ hist'.det = hist.det /\ hist'.crashes = hist.crashes \ disk.crashes
      /\ hist'.looked = hist.looked /\ hist'.raced = hist.raced
  BY <1>1 DEF HistRecord
<1>4. /\ mem' \in MemRecord /\ Queue' = << >> /\ mem'.pivoted = 0 /\ Saving' = << >>
      /\ mem'.sync = << >>
  BY <1>1, MemInitTyped DEF Queue, Saving
<1>5. Types'
  BY <1>1, <1>2, <1>3, <1>4 DEF Types, Places
<1>6. Directories'
  BY <1>1, <1>2, QueuesTyped DEF Directories
<1>7. Progress'
  BY <1>1, <1>2, <1>3, <1>4, QueuesTyped DEF Progress, Begun, Linked, Blocked
<1>8. Mirrored' /\ SavingNext' /\ \A k \in DOMAIN Queue' : FALSE
  BY <1>1, <1>4, EmptyHanded
<1>9. Surviving'
  <2>1. ~hist.risk => hist.known \subseteq Found(disk.resume.files)
    BY <1>1 DEF Surviving
  <2>2. Source' = disk.resume
    BY <1>2, QueuesTyped DEF Source
  <2> QED
    BY <1>1, <1>3, <2>1, <2>2 DEF Surviving, Linked, Held
<1>10. CrashesKept' /\ DetDone'
  BY <1>1, <1>2, <1>3, <1>8, QueuesTyped DEF CrashesKept, DetDone
<1>11. Scanned'
  BY <1>1, <1>2, <1>3, ScannedFrame
<1> QED
  BY <1>5, <1>6, <1>7, <1>8, <1>9, <1>10, <1>11 DEF IInv

LEMMA SeedsTyped ==
  /\ SeedEntries \in Seq(EntryRecord)
  /\ \A k \in 1 .. Len(SeedEntries) :
       ~SeedEntries[k].det /\ ~SeedEntries[k].redundant /\ ~SeedEntries[k].variable
<1> DEFINE e(k) == Entry([id |-> -1, origin |-> Seed(k), data |-> Seed(k)], FALSE)
<1>1. \A k \in 1 .. Seeds : /\ e(k) \in EntryRecord
                            /\ ~e(k).det /\ ~e(k).redundant /\ ~e(k).variable
  <2> TAKE k \in 1 .. Seeds
  <2> DEFINE f == [id |-> -1, origin |-> Seed(k), data |-> Seed(k)]
  <2>1. f.id \in Int /\ f.origin \in Origins /\ f.data \in Origins \cup {Junk}
    BY OriginsKnown
  <2>2. e(k) = Entry(f, FALSE)
    OBVIOUS
  <2> HIDE DEF f, e
  <2> QED
    BY <2>1, <2>2, EntryTyped
<1>2. SeedEntries = [k \in 1 .. Seeds |-> e(k)]
  BY DEF SeedEntries
<1> HIDE DEF e
<1>3. SeedEntries \in [1 .. Seeds -> EntryRecord]
  BY <1>1, <1>2
<1>4. SeedEntries \in Seq(EntryRecord) /\ Len(SeedEntries) = Seeds
  BY <1>3, OriginsKnown, SeqDef, LenProperties
<1> QED
  BY <1>1, <1>2, <1>4

LEMMA ReadKeeps ==
  ASSUME IInv, read_testcases, UNCHANGED others
  PROVE  IInv'
<1>1. /\ Types /\ Directories /\ Progress /\ Mirrored /\ Surviving /\ CrashesKept /\ DetDone /\ Scanned
      /\ pc = "read" /\ disk' = disk /\ hist' = hist
  BY DEF IInv, read_testcases
<1> DEFINE entries == IF mem.in_place THEN ReadFrom(disk.resume) ELSE SeedEntries
<1>2. CASE entries = << >>
  <2>1. Fail
    BY <1>2 DEF read_testcases
  <2> QED
    BY <1>1, <2>1, FailKeeps
<1>3. CASE entries # << >>
  <2>1. /\ mem \in MemRecord /\ pc' = "pivot"
        /\ mem' = [mem EXCEPT !.queue = entries]
    BY <1>1, <1>3 DEF read_testcases, Types
  <2>3. Distinct(disk.resume.files) /\ disk.resume \in QueueRecord
    BY <1>1, Fields DEF Directories
  <2>4. /\ entries \in Seq(EntryRecord)
        /\ \A k \in 1 .. Len(entries) : ~entries[k].redundant /\ ~entries[k].variable
        /\ \A k \in 1 .. Len(entries) : entries[k].det => entries[k].origin \in hist.det
        /\ mem.in_place => Found(disk.resume.files) = {entries[k].origin : k \in 1 .. Len(entries)}
    <3>1. CASE mem.in_place
      <4>1. entries = ReadFrom(disk.resume)
        BY <3>1
      <4> HIDE DEF entries
      <4>2. /\ entries \in Seq(EntryRecord)
            /\ Found(disk.resume.files) = {entries[k].origin : k \in 1 .. Len(entries)}
            /\ \A k \in 1 .. Len(entries) :
                 /\ entries[k].det => \E x \in disk.resume.det : x.origin = entries[k].origin
                 /\ ~entries[k].redundant /\ ~entries[k].variable
        BY <2>3, <4>1, EntriesRead
      <4> QED
        BY <1>1, <4>2 DEF DetDone
    <3>2. CASE ~mem.in_place
      BY <3>2, SeedsTyped
    <3> QED
      BY <3>1, <3>2
  <2> HIDE DEF entries
  <2>5. /\ mem' \in MemRecord /\ Queue' = entries /\ Saving' = Saving /\ mem'.sync = mem.sync
        /\ mem'.pivoted = mem.pivoted /\ mem'.in_place = mem.in_place
    BY <2>1, <2>4 DEF MemRecord, Queue, Saving
  <2>6. /\ mem.pivoted = 0 /\ Saving = << >> /\ mem.sync = << >> /\ disk.queue = EmptyQueue
    BY <1>1 DEF Progress, Begun, Linked
  <2>7. Len(entries) \in Nat /\ DOMAIN entries = 1 .. Len(entries)
    BY <2>4, LenProperties
  <2>8. Types'
    BY <1>1, <2>1, <2>5 DEF Types, Places
  <2>9. Directories'
    BY <1>1 DEF Directories
  <2>10. Progress'
    BY <1>1, <2>1, <2>5, <2>6, <2>7, QueuesTyped DEF Progress, Begun, Linked
  <2>11. Mirrored' /\ SavingNext'
    <3>1. Done' = 0 /\ 1 .. 0 = {}
      BY <2>1, <2>5, <2>6 DEF Done
    <3>2. Whole(EmptyQueue.files) = {}
      BY QueuesTyped DEF Whole
    <3>3. Mirrored'
      BY <1>1, <2>1, <2>4, <2>5, <2>6, <3>1, <3>2, QueuesTyped DEF Mirrored, Linked
    <3> QED
      BY <2>5, <2>6, <3>3 DEF SavingNext
  <2>12. Surviving'
    BY <1>1, <2>1, <2>4, <2>5 DEF Surviving, Linked
  <2>13. CrashesKept' /\ DetDone'
    BY <1>1, <2>4, <2>5, <2>7 DEF CrashesKept, DetDone
  <2>14. Scanned'
    BY <1>1, <2>1, ScannedFrame
  <2> QED
    BY <2>8, <2>9, <2>10, <2>11, <2>12, <2>13, <2>14 DEF IInv
<1> QED
  BY <1>2, <1>3

LEMMA EntryReplaced ==
  ASSUME NEW s \in Seq(EntryRecord), NEW q \in 1 .. Len(s), NEW e \in EntryRecord, NEW n,
         n = [s EXCEPT ![q] = e]
  PROVE  /\ n \in Seq(EntryRecord) /\ Len(n) = Len(s) /\ n[q] = e
         /\ DOMAIN n = 1 .. Len(s)
         /\ \A k \in 1 .. Len(s) : k # q => n[k] = s[k]
<1>1. n \in [1 .. Len(s) -> EntryRecord] /\ Len(s) \in Nat
  BY LenProperties
<1>2. n \in Seq(EntryRecord)
  BY <1>1, SeqDef
<1>3. Len(n) = Len(s)
  BY <1>1, <1>2, LenProperties
<1> QED
  BY <1>1, <1>2, <1>3

LEMMA PivotInputKeeps ==
  ASSUME IInv, PivotInput, UNCHANGED others
  PROVE  IInv'
<1> DEFINE n == mem.pivoted + 1
           q == Queue[n]
           f == [id |-> mem.pivoted, origin |-> q.origin, data |-> q.data]
           e == [q EXCEPT !.id = mem.pivoted]
           files == disk.queue.files \cup {f}
           det == IF q.det THEN disk.queue.det \cup {Name(f)} ELSE disk.queue.det
           dir == [disk.queue EXCEPT !.files = files, !.det = det]
           res == mem.resuming \/ q.id = mem.pivoted
<1>1. /\ Types /\ Directories /\ Progress /\ Mirrored /\ Surviving /\ CrashesKept /\ DetDone /\ Scanned
      /\ pc = "pivot" /\ pc' = "pivot" /\ hist' = hist
      /\ mem.pivoted < Len(Queue)
      /\ disk \in DiskRecord /\ mem \in MemRecord
  BY DEF IInv, PivotInput, Queue, Types
<1>2. /\ mem.pivoted \in Nat /\ Len(Queue) \in Nat /\ n \in 1 .. Len(Queue)
      /\ DOMAIN Queue = 1 .. Len(Queue) /\ Queue \in Seq(EntryRecord) /\ q \in EntryRecord
      /\ disk.queue \in QueueRecord
  BY <1>1, Fields
<1>3. mem' = [mem EXCEPT !.queue = [Queue EXCEPT ![n] = e], !.pivoted = n, !.resuming = res]
  BY <1>1, <1>2 DEF PivotInput, MemRecord, Queue, EntryRecord
<1>4. disk' = [disk EXCEPT !.queue = dir]
  BY <1>1, <1>2 DEF PivotInput, DiskRecord, QueueRecord, Queue
<1>5. /\ f \in FileRecord /\ f.data # Nothing /\ Name(f) \in NameRecord
      /\ f.id = mem.pivoted /\ f.origin = q.origin
      /\ Name(f).origin = q.origin
  BY <1>2, OriginsKnown DEF FileRecord, EntryRecord, Datas, Name, NameRecord
<1>6. /\ e \in EntryRecord /\ FileOf(e) = f /\ Name(e) = Name(f)
      /\ e.id = mem.pivoted /\ e.origin = q.origin /\ e.det = q.det /\ e.redundant = q.redundant
      /\ e.variable = q.variable
  <2>1. mem.pivoted \in Int
    BY <1>2
  <2>2. /\ e \in EntryRecord /\ e.id = mem.pivoted /\ e.origin = q.origin /\ e.data = q.data
        /\ e.det = q.det /\ e.redundant = q.redundant /\ e.variable = q.variable
    <3> HIDE DEF q
    <3> QED
      BY <1>2, <2>1 DEF EntryRecord
  <2> HIDE DEF e, q
  <2>3. FileOf(e) = f
    BY <2>2 DEF FileOf
  <2>4. Name(e) = Name(f)
    BY <2>2 DEF Name
  <2> QED
    BY <2>2, <2>3, <2>4
<1> HIDE DEF f, e
<1>7. /\ dir \in QueueRecord /\ dir.files = files /\ dir.det = det
      /\ dir.redundant = disk.queue.redundant /\ dir.variable = disk.queue.variable
      /\ dir.there = disk.queue.there
  <2>1. files \in SUBSET FileRecord
    BY <1>2, <1>5 DEF QueueRecord, FileRecord, Datas
  <2>2. det \in SUBSET NameRecord
    BY <1>2, <1>5 DEF QueueRecord, NameRecord
  <2> HIDE DEF files, det
  <2> QED
    BY <1>2, <2>1, <2>2 DEF QueueRecord, FileRecord, NameRecord, Datas
<1>8. res \in BOOLEAN
  BY <1>1 DEF MemRecord
<1> HIDE DEF dir, res
<1>9. /\ disk' \in DiskRecord /\ disk'.out = disk.out /\ disk'.resume = disk.resume
      /\ disk'.queue = dir /\ disk'.synced = disk.synced
      /\ disk'.crashes = disk.crashes /\ disk'.saved = disk.saved
  BY <1>1, <1>4, <1>7 DEF DiskRecord
<1> DEFINE s == [Queue EXCEPT ![n] = e]
<1>10. /\ s \in Seq(EntryRecord) /\ Len(s) = Len(Queue) /\ s[n] = e /\ DOMAIN s = 1 .. Len(Queue)
       /\ \A k \in 1 .. Len(Queue) : k # n => s[k] = Queue[k]
  <2> HIDE DEF n
  <2> QED
    BY <1>2, <1>6, EntryReplaced
<1>11. n \in Nat
  BY <1>2
<1> HIDE DEF n, s
<1>12. /\ mem' \in MemRecord /\ Queue' = s /\ mem'.pivoted = n
       /\ Saving' = Saving /\ mem'.sync = mem.sync /\ mem'.in_place = mem.in_place
  <2>1. mem' = [mem EXCEPT !.queue = s, !.pivoted = n, !.resuming = res]
    BY <1>3 DEF s
  <2> QED
    BY <1>1, <1>8, <1>10, <1>11, <2>1 DEF MemRecord, Queue, Saving
<1>13. /\ Len(Queue') = Len(Queue) /\ Queue'[n] = e /\ DOMAIN Queue' = 1 .. Len(Queue)
       /\ \A k \in 1 .. Len(Queue) : k # n => Queue'[k] = Queue[k]
  BY <1>2, <1>10, <1>12
<1>14. Done = mem.pivoted /\ Done' = n
  BY <1>1, <1>12 DEF Done
<1>15. \A k : k \in 1 .. n <=> k \in 1 .. mem.pivoted \/ k = n
  BY <1>2 DEF n
<1>16. \A k \in 1 .. mem.pivoted : k \in 1 .. Len(Queue) /\ k # n
  BY <1>1, <1>2 DEF n
<1>17. Whole(disk.queue.files) = {FileOf(Queue[k]) : k \in 1 .. mem.pivoted}
  BY <1>1, <1>14 DEF Mirrored
<1>18. Whole(files) = Whole(disk.queue.files) \cup {f}
  BY <1>5 DEF Whole
<1> HIDE DEF q
<1>19. Types'
  BY <1>1, <1>9, <1>12 DEF Types
<1>20. Directories'
  <2>1. IsFiniteSet(disk.queue.files)
    BY <1>1 DEF Directories, Distinct
  <2>2. IsFiniteSet(files)
    BY <2>1, FS_AddElement
  <2>3. \A g \in Whole(disk.queue.files) : g.id # f.id
    <3>1. \A k \in 1 .. mem.pivoted : Queue[k].id = k - 1
      BY <1>1, <1>14 DEF Mirrored
    <3>2. \A k \in 1 .. mem.pivoted : k - 1 # mem.pivoted
      BY <1>2
    <3> QED
      BY <1>5, <1>17, <3>1, <3>2, OfFile
  <2>4. \A g, h \in Whole(disk.queue.files) : g.id = h.id => g = h
    BY <1>1 DEF Directories, Distinct
  <2>5. \A g, h \in Whole(files) : g.id = h.id => g = h
    BY <1>18, <2>3, <2>4
  <2>6. Distinct(files)
    BY <2>2, <2>5 DEF Distinct
  <2>8. disk'.queue.files = files /\ disk'.resume.files = disk.resume.files
    BY <1>7, <1>9
  <2> HIDE DEF files
  <2>9. Distinct(disk'.queue.files)
    BY <2>6, <2>8
  <2>10. Distinct(disk'.resume.files)
    BY <1>1, <2>8 DEF Directories
  <2> QED
    BY <2>9, <2>10 DEF Directories, Distinct, Whole
<1>21. Progress'
  <2>1. n <= Len(Queue)
    BY <1>1, <1>2 DEF n
  <2> QED
    BY <1>1, <1>7, <1>9, <1>12, <1>13, <2>1 DEF Progress, Begun, Linked
<1>22. Mirrored'
  <2>1. \A k \in 1 .. n : Queue'[k].id = k - 1
    BY <1>1, <1>2, <1>6, <1>13, <1>14, <1>15, <1>16 DEF Mirrored, n
  <2>2. Whole(files) = {FileOf(Queue'[k]) : k \in 1 .. n}
    BY <1>6, <1>13, <1>15, <1>16, <1>17, <1>18
  <2>3. /\ disk.queue.det = {Name(Queue[k]) : k \in {j \in 1 .. mem.pivoted : Queue[j].det}}
        /\ disk.queue.redundant = {Name(Queue[k]) : k \in {j \in 1 .. mem.pivoted : Queue[j].redundant}}
        /\ disk.queue.variable = {Name(Queue[k]) : k \in {j \in 1 .. mem.pivoted : Queue[j].variable}}
        /\ \A k \in 1 .. Len(Queue) : ~Queue[k].redundant /\ ~Queue[k].variable
    BY <1>1, <1>14 DEF Mirrored
  <2>4. \A k \in 1 .. Len(Queue) : ~Queue'[k].redundant /\ ~Queue'[k].variable
    BY <1>2, <1>6, <1>13, <2>3 DEF q
  <2>5. \A k \in 1 .. n : k \in 1 .. Len(Queue)
    BY <1>2, <1>15, <1>16
  <2>6. det = {Name(Queue'[k]) : k \in {j \in 1 .. n : Queue'[j].det}}
    BY <1>6, <1>13, <1>15, <1>16, <2>3
  <2>7. disk.queue.redundant = {} /\ disk.queue.variable = {}
    BY <1>16, <2>3
  <2>8. /\ {j \in 1 .. n : Queue'[j].redundant} = {} /\ {j \in 1 .. n : Queue'[j].variable} = {}
    BY <2>4, <2>5
  <2> QED
    BY <1>1, <1>7, <1>9, <1>13, <1>14, <2>1, <2>2, <2>4, <2>6, <2>7, <2>8 DEF Mirrored
<1>23. Saving = << >>
  BY <1>1 DEF Progress
<1>24. SavingNext' /\ CrashesKept'
  BY <1>1, <1>9, <1>12, <1>23 DEF SavingNext, CrashesKept
<1>25. \A k \in 1 .. Len(Queue) : Queue'[k].origin = Queue[k].origin /\ Queue'[k].det = Queue[k].det
  BY <1>2, <1>6, <1>13 DEF q
<1>26. Surviving'
  <2>1. {Queue'[k].origin : k \in 1 .. Len(Queue)} = {Queue[k].origin : k \in 1 .. Len(Queue)}
    BY <1>25
  <2> QED
    BY <1>1, <1>9, <1>12, <1>13, <2>1 DEF Surviving, Linked
<1>27. DetDone'
  <2>1. q.det => q.origin \in hist.det
    BY <1>1, <1>2 DEF DetDone, q
  <2>2. \A x \in det : x.origin \in hist.det
    BY <1>1, <1>5, <2>1 DEF DetDone
  <2> QED
    BY <1>1, <1>2, <1>7, <1>9, <1>13, <1>25, <2>2 DEF DetDone
<1>28. Scanned'
  BY <1>1, <1>9, ScannedFrame
<1> QED
  BY <1>19, <1>20, <1>21, <1>22, <1>24, <1>26, <1>27, <1>28 DEF IInv

LEMMA PivotDoneKeeps ==
  ASSUME IInv, PivotDone, UNCHANGED others
  PROVE  IInv'
<1> DEFINE old == [NoQueue EXCEPT !.there = TRUE, !.files = disk.resume.files]
<1>1. /\ Types /\ Directories /\ Progress /\ Mirrored /\ SavingNext /\ Surviving /\ CrashesKept
      /\ DetDone /\ Scanned
      /\ pc = "pivot" /\ mem.pivoted = Len(Queue) /\ mem' = mem /\ Queue' = Queue /\ Saving' = Saving
      /\ disk \in DiskRecord /\ hist \in HistRecord
      /\ pc' = IF mem.in_place THEN "nuke" ELSE "dry"
  BY DEF IInv, PivotDone, Queue, Saving, Types
<1>2. /\ disk.resume \in QueueRecord /\ Len(Queue) \in Nat /\ DOMAIN Queue = 1 .. Len(Queue)
      /\ \A k \in 1 .. Len(Queue) : Queue[k] \in EntryRecord
  BY <1>1, Fields
<1>3. old \in QueueRecord /\ old.files = disk.resume.files /\ old.det = {} /\ ~old.state
  BY <1>2 DEF NoQueue, QueueRecord
<1> HIDE DEF old
<1>4. /\ disk' \in DiskRecord /\ disk'.out = disk.out /\ disk'.queue = disk.queue
      /\ disk'.resume = (IF mem.in_place THEN old ELSE disk.resume)
      /\ disk'.synced = disk.synced /\ disk'.crashes = disk.crashes /\ disk'.saved = disk.saved
  <2>1. disk' = IF mem.in_place THEN [disk EXCEPT !.resume = old] ELSE disk
    BY DEF PivotDone, old
  <2> QED
    BY <1>1, <1>3, <2>1 DEF DiskRecord
<1> DEFINE all == {Queue[k].origin : k \in 1 .. Len(Queue)}
<1>5. all \in SUBSET Origins
  BY <1>2 DEF EntryRecord
<1>6. /\ hist' \in HistRecord /\ hist'.known = hist.known \cup all
      /\ hist'.det = hist.det /\ hist'.crashes = hist.crashes /\ hist'.looked = hist.looked
      /\ hist'.raced = hist.raced /\ hist'.risk = hist.risk
  <2>1. hist' = [hist EXCEPT !.known = @ \cup all]
    BY <1>2 DEF PivotDone, Queue
  <2> HIDE DEF all
  <2> QED
    BY <1>1, <1>5, <2>1 DEF HistRecord
<1>7. Types'
  BY <1>1, <1>4, <1>6 DEF Types, Places
<1>8. Directories'
  BY <1>1, <1>3, <1>4 DEF Directories
<1>9. Progress'
  BY <1>1, <1>3, <1>4 DEF Progress, Begun, Linked
<1>10. Done' = Done /\ Done = Len(Queue)
  BY <1>1 DEF Done
<1>11. Mirrored'
  BY <1>1, <1>4, <1>10 DEF Mirrored, Linked
<1>12. SavingNext' /\ CrashesKept'
  BY <1>1, <1>4, <1>6 DEF SavingNext, CrashesKept
<1>13. Surviving'
  BY <1>1, <1>3, <1>4, <1>6 DEF Surviving, Linked
<1>14. DetDone'
  BY <1>1, <1>3, <1>4, <1>6 DEF DetDone
<1>15. Scanned'
  BY <1>1, <1>4, <1>6, ScannedFrame
<1> QED
  BY <1>7, <1>8, <1>9, <1>11, <1>12, <1>13, <1>14, <1>15 DEF IInv

\* Steps that only take files from the old queue.
LEMMA NukeKeeps ==
  ASSUME IInv, pc = "nuke", mem' = mem, hist' = hist, UNCHANGED others,
         NEW dir \in QueueRecord, disk' = [disk EXCEPT !.resume = dir],
         dir.files \subseteq disk.resume.files, ~dir.state, dir.det \subseteq disk.resume.det,
         pc' = "nuke" \/ (pc' = "dry" /\ dir.files = {})
  PROVE  IInv'
<1>1. /\ Types /\ Directories /\ Progress /\ Mirrored /\ SavingNext /\ Surviving /\ CrashesKept
      /\ DetDone /\ Scanned
      /\ Queue' = Queue /\ Saving' = Saving
  BY DEF IInv, Queue, Saving
<1>2. /\ disk' \in DiskRecord /\ disk'.out = disk.out /\ disk'.queue = disk.queue
      /\ disk'.resume = dir
      /\ disk'.synced = disk.synced /\ disk'.crashes = disk.crashes /\ disk'.saved = disk.saved
  BY <1>1 DEF Types, DiskRecord
<1>3. Types'
  BY <1>1, <1>2 DEF Types, Places
<1>4. Directories'
  <2>1. IsFiniteSet(dir.files)
    BY <1>1, FS_Subset DEF Directories, Distinct
  <2> QED
    BY <1>1, <1>2, <2>1 DEF Directories, Distinct, Whole
<1>5. Progress'
  BY <1>1, <1>2 DEF Progress, Begun, Linked
<1>6. Mirrored'
  BY <1>1, <1>2 DEF Mirrored, Linked, Done
<1>7. SavingNext' /\ CrashesKept'
  BY <1>1, <1>2 DEF SavingNext, CrashesKept
<1>8. Surviving'
  BY <1>1, <1>2 DEF Surviving, Linked, Blocked
<1>9. DetDone'
  BY <1>1, <1>2 DEF DetDone
<1>10. Scanned'
  BY <1>1, <1>2, ScannedFrame
<1> QED
  BY <1>3, <1>4, <1>5, <1>6, <1>7, <1>8, <1>9, <1>10 DEF IInv

LEMMA NukeFileKeeps ==
  ASSUME IInv, NukeFile, UNCHANGED others
  PROVE  IInv'
<1>1. PICK f \in disk.resume.files : disk' = [disk EXCEPT !.resume.files = @ \ {f}]
  BY DEF NukeFile
<1>2. disk \in DiskRecord /\ disk.resume \in QueueRecord
  BY Fields DEF IInv, Types
<1> DEFINE dir == [disk.resume EXCEPT !.files = @ \ {f}]
<1>3. /\ dir \in QueueRecord /\ dir.files = disk.resume.files \ {f}
      /\ dir.det = disk.resume.det /\ dir.state = disk.resume.state
  BY <1>2 DEF QueueRecord
<1>4. disk' = [disk EXCEPT !.resume = dir]
  BY <1>1, <1>2 DEF DiskRecord
<1> HIDE DEF dir
<1>5. ~dir.state
  BY <1>3 DEF NukeFile, IInv, Progress
<1> QED
  BY <1>3, <1>4, <1>5, NukeKeeps DEF NukeFile

LEMMA NukeDoneKeeps ==
  ASSUME IInv, NukeDone, UNCHANGED others
  PROVE  IInv'
<1>1. NoQueue \in QueueRecord /\ NoQueue.files = {} /\ NoQueue.det = {} /\ ~NoQueue.state
  BY QueuesTyped DEF NoQueue
<1> QED
  BY <1>1, NukeKeeps DEF NukeDone

LEMMA DryRunKeeps ==
  ASSUME IInv, DryRun, UNCHANGED others
  PROVE  IInv'
<1>1. /\ Types /\ Directories /\ Progress /\ Mirrored /\ SavingNext /\ Surviving /\ CrashesKept
      /\ DetDone /\ Scanned
      /\ pc = "dry" /\ hist' = hist
      /\ disk \in DiskRecord /\ mem \in MemRecord
  BY DEF IInv, Types, DryRun
<1>2. CASE Fail /\ UNCHANGED disk
  BY <1>1, <1>2, FailKeeps
<1>3. CASE /\ disk' = [disk EXCEPT !.replay = {Name(mem.queue[k]) : k \in DOMAIN mem.queue}]
           /\ pc' = "fuzz" /\ UNCHANGED mem
  <2> DEFINE names == {Name(Queue[k]) : k \in DOMAIN Queue}
  <2>1. /\ DOMAIN Queue = 1 .. Len(Queue)
        /\ \A k \in 1 .. Len(Queue) : Queue[k] \in EntryRecord
    BY <1>1, Fields
  <2>2. disk' = [disk EXCEPT !.replay = names]
    BY <1>3 DEF Queue
  <2>3. names \in SUBSET [id : Int, origin : Origins]
    BY <2>1 DEF EntryRecord, Name
  <2> HIDE DEF names
  <2>5. /\ disk' \in DiskRecord /\ disk'.out = disk.out /\ disk'.resume = disk.resume
        /\ disk'.queue = disk.queue /\ disk'.synced = disk.synced
        /\ disk'.crashes = disk.crashes /\ disk'.saved = disk.saved
    BY <1>1, <2>2, <2>3 DEF DiskRecord
  <2>7. mem' = mem /\ Queue' = Queue /\ Saving' = Saving
    BY <1>3 DEF Queue, Saving
  <2>8. Types'
    BY <1>1, <1>3, <2>5, <2>7 DEF Types, Places
  <2>9. Directories'
    BY <1>1, <2>5 DEF Directories
  <2>10. Progress'
    BY <1>1, <1>3, <2>5, <2>7 DEF Progress, Begun, Linked
  <2>11. Done' = Done
    BY <1>1, <1>3, <2>7 DEF Done
  <2>12. Mirrored'
    BY <1>1, <1>3, <2>5, <2>7, <2>11 DEF Mirrored, Linked
  <2>13. SavingNext' /\ CrashesKept'
    BY <1>1, <2>5, <2>7 DEF SavingNext, CrashesKept
  <2>14. Surviving'
    BY <1>1, <1>3, <2>5, <2>7 DEF Surviving, Linked
  <2>15. DetDone'
    BY <1>1, <2>5, <2>7 DEF DetDone
  <2>16. Scanned'
    BY <1>1, <1>3, <2>5, ScannedFrame
  <2> QED
    BY <2>8, <2>9, <2>10, <2>12, <2>13, <2>14, <2>15, <2>16 DEF IInv
<1> QED
  BY <1>2, <1>3 DEF DryRun

-----------------------------------------------------------------------------
(* While a session fuzzes *)

\* What a step of a session that fuzzes has to show.
LEMMA FuzzKeeps ==
  ASSUME IInv, pc \in {"fuzz", "sync"}, pc' \in {"fuzz", "sync"},
         disk' \in DiskRecord, mem' \in MemRecord, hist' \in HistRecord, UNCHANGED others,
         disk'.out = disk.out, disk'.resume = disk.resume,
         disk'.queue.there = disk.queue.there, Distinct(disk'.queue.files),
         pc' = "sync" <=> mem'.sync # << >>,
         Mirrored', SavingNext', CrashesKept', DetDone', Scanned',
         hist'.risk = hist.risk,
         ~hist.risk => hist'.known \subseteq {Queue'[k].origin : k \in 1 .. Len(Queue')}
  PROVE  IInv'
<1>1. Types /\ Directories /\ Progress /\ Surviving
  BY DEF IInv
<1>2. Types'
  BY <1>1 DEF Types, Places
<1>3. Distinct(disk'.resume.files)
  BY <1>1 DEF Directories
<1>4. Directories'
  BY <1>3 DEF Directories, Distinct, Whole
<1>5. Progress'
  BY <1>1 DEF Progress, Begun, Linked
<1>6. Surviving'
  BY <1>1 DEF Surviving, Linked
<1> QED
  BY <1>2, <1>4, <1>5, <1>6 DEF IInv

\* Steps that leave the queue and its marks.
LEMMA QuietKeeps ==
  ASSUME IInv, pc \in {"fuzz", "sync"}, pc' \in {"fuzz", "sync"},
         disk' \in DiskRecord, mem' \in MemRecord, hist' \in HistRecord, UNCHANGED others,
         disk'.out = disk.out, disk'.resume = disk.resume,
         disk'.queue.there = disk.queue.there, disk'.queue.files = disk.queue.files,
         disk'.queue.det = disk.queue.det, disk'.queue.redundant = disk.queue.redundant,
         disk'.queue.variable = disk.queue.variable,
         pc' = "sync" <=> mem'.sync # << >>,
         Queue' = Queue, Saving' = Saving,
         CrashesKept', Scanned',
         hist'.risk = hist.risk, hist'.known = hist.known, hist'.det = hist.det
  PROVE  IInv'
<1>1. Directories /\ Mirrored /\ SavingNext /\ DetDone /\ Surviving
  BY DEF IInv
<1>2. Distinct(disk'.queue.files)
  BY <1>1 DEF Directories
<1>3. Mirrored'
  BY <1>1 DEF Mirrored, Linked, Done
<1>4. SavingNext'
  BY <1>1 DEF SavingNext
<1>5. DetDone'
  BY <1>1 DEF DetDone
<1>6. ~hist.risk => hist'.known \subseteq {Queue'[k].origin : k \in 1 .. Len(Queue')}
  BY <1>1 DEF Surviving, Linked
<1> QED
  BY <1>2, <1>3, <1>4, <1>5, <1>6, FuzzKeeps

LEMMA FoundCrashKeeps ==
  ASSUME IInv, FoundCrash
  PROVE  IInv'
<1>1. PICK c \in Crashes \ hist.crashes :
        /\ disk' = [disk EXCEPT !.crashes = @ \cup {c}]
        /\ hist' = [hist EXCEPT !.crashes = @ \cup {c}, !.events = hist.events + 1]
  <2>1. PICK c \in Crashes \ hist.crashes :
          /\ disk' = [disk EXCEPT !.crashes = @ \cup {c}]
          /\ hist' = Event([hist EXCEPT !.crashes = @ \cup {c}])
    BY DEF FoundCrash
  <2> QED
    BY <2>1 DEF Event, HistRecord, IInv, Types
<1>2. /\ pc = "fuzz" /\ pc' = pc /\ mem' = mem /\ UNCHANGED others /\ Queue' = Queue /\ Saving' = Saving
      /\ disk \in DiskRecord /\ hist \in HistRecord /\ mem \in MemRecord
      /\ Progress /\ CrashesKept /\ Scanned
  BY DEF FoundCrash, Idle, IInv, Types, Queue, Saving
<1>3. /\ disk' \in DiskRecord /\ disk'.out = disk.out /\ disk'.resume = disk.resume
      /\ disk'.queue = disk.queue /\ disk'.synced = disk.synced
      /\ disk'.crashes = disk.crashes \cup {c} /\ disk'.saved = disk.saved
  BY <1>1, <1>2 DEF DiskRecord
<1>4. /\ hist' \in HistRecord /\ hist'.risk = hist.risk /\ hist'.known = hist.known
      /\ hist'.det = hist.det /\ hist'.crashes = hist.crashes \cup {c}
      /\ hist'.looked = hist.looked /\ hist'.raced = hist.raced
  <2> DEFINE cs == hist.crashes \cup {c}
  <2>1. cs \in SUBSET Crashes
    BY <1>2 DEF HistRecord
  <2> DEFINE h == [hist EXCEPT !.events = hist.events + 1]
  <2>2. h \in HistRecord
    BY <1>2 DEF HistRecord
  <2>2a. hist' = [h EXCEPT !.crashes = cs]
    BY <1>1
  <2>2b. /\ h.risk = hist.risk /\ h.known = hist.known
        /\ h.det = hist.det /\ h.looked = hist.looked /\ h.raced = hist.raced
    BY <1>2 DEF HistRecord
  <2> HIDE DEF cs, h
  <2>3. /\ hist' \in HistRecord /\ hist'.risk = hist.risk /\ hist'.known = hist.known
        /\ hist'.det = hist.det /\ hist'.crashes = cs
        /\ hist'.looked = hist.looked /\ hist'.raced = hist.raced
    BY <2>1, <2>2, <2>2a, <2>2b DEF HistRecord
  <2> QED
    BY <2>3 DEF cs
<1>5. CrashesKept'
  BY <1>2, <1>3, <1>4 DEF CrashesKept
<1>6. Scanned'
  BY <1>2, <1>3, <1>4, ScannedFrame
<1>7. pc' = "sync" <=> mem'.sync # << >>
  BY <1>2 DEF Progress
<1> QED
  BY <1>2, <1>3, <1>4, <1>5, <1>6, <1>7, QuietKeeps

-----------------------------------------------------------------------------
(* The marks of an entry *)

LEMMA MarkKeeps ==
  ASSUME IInv, pc = "fuzz", pc' = pc, UNCHANGED others,
         NEW k \in 1 .. Len(Queue), NEW e \in EntryRecord,
         e.id = Queue[k].id, e.origin = Queue[k].origin, e.data = Queue[k].data,
         e.det => Queue[k].det \/ e.origin \in hist'.det,
         mem' \in MemRecord, Queue' = [Queue EXCEPT ![k] = e],
         Saving' = << >>, mem'.sync = mem.sync,
         disk' \in DiskRecord, disk'.out = disk.out, disk'.resume = disk.resume,
         disk'.synced = disk.synced, disk'.crashes = disk.crashes, disk'.saved = disk.saved,
         disk'.queue.files = disk.queue.files, disk'.queue.there = disk.queue.there,
         disk'.queue.det = {Name(Queue[j]) : j \in {i \in 1 .. Len(Queue) : Queue'[i].det}},
         disk'.queue.redundant =
           {Name(Queue[j]) : j \in {i \in 1 .. Len(Queue) : Queue'[i].redundant}},
         disk'.queue.variable =
           {Name(Queue[j]) : j \in {i \in 1 .. Len(Queue) : Queue'[i].variable}},
         \A x \in disk'.queue.det : x.origin \in hist'.det,
         hist' \in HistRecord, hist'.known = hist.known, hist.det \subseteq hist'.det,
         hist'.crashes = hist.crashes, hist'.looked = hist.looked, hist'.raced = hist.raced,
         hist'.risk = hist.risk
  PROVE  IInv'
<1>1. Types /\ Directories /\ Progress /\ Mirrored /\ Surviving /\ CrashesKept /\ DetDone /\ Scanned
  BY DEF IInv
<1>2. /\ Queue \in Seq(EntryRecord) /\ DOMAIN Queue = 1 .. Len(Queue)
  BY <1>1, Fields
<1> DEFINE s == [Queue EXCEPT ![k] = e]
<1>3. /\ s \in Seq(EntryRecord) /\ Len(s) = Len(Queue) /\ s[k] = e /\ DOMAIN s = 1 .. Len(Queue)
      /\ \A j \in 1 .. Len(Queue) : j # k => s[j] = Queue[j]
  BY <1>2, EntryReplaced
<1>4. Queue' = s
  OBVIOUS
<1> HIDE DEF s
<1>5. /\ Len(Queue') = Len(Queue) /\ Queue'[k] = e /\ DOMAIN Queue' = 1 .. Len(Queue)
      /\ \A j \in 1 .. Len(Queue) : j # k => Queue'[j] = Queue[j]
  BY <1>3, <1>4
<1>6. Name(e) = Name(Queue[k]) /\ FileOf(e) = FileOf(Queue[k])
  BY DEF Name, FileOf
<1>7. \A j \in 1 .. Len(Queue) :
        /\ s[j].id = Queue[j].id /\ s[j].origin = Queue[j].origin
        /\ Name(s[j]) = Name(Queue[j]) /\ FileOf(s[j]) = FileOf(Queue[j])
  BY <1>3, <1>6
<1>8. /\ {FileOf(s[j]) : j \in 1 .. Len(Queue)} = {FileOf(Queue[j]) : j \in 1 .. Len(Queue)}
      /\ {s[j].origin : j \in 1 .. Len(Queue)} = {Queue[j].origin : j \in 1 .. Len(Queue)}
  BY <1>7
<1>9. /\ \A j \in 1 .. Len(Queue) : Queue[j].id = j - 1
      /\ Whole(disk.queue.files) = {FileOf(Queue[j]) : j \in 1 .. Len(Queue)}
  BY <1>1 DEF Mirrored, Done, Linked
<1>10. Mirrored'
  <2>1. Done' = Len(Queue) /\ pc' # "pivot"
    BY <1>5 DEF Done
  <2>2. \A j \in 1 .. Len(Queue) : s[j].id = j - 1
    BY <1>7, <1>9
  <2>3. Whole(disk.queue.files) = {FileOf(s[j]) : j \in 1 .. Len(Queue)}
    BY <1>8, <1>9
  <2>4. \A j \in 1 .. Len(Queue) : Name(Queue'[j]) = Name(Queue[j])
    BY <1>4, <1>7
  <2>5. \A j \in 1 .. Len(Queue) : Queue'[j].id = j - 1
    BY <1>4, <2>2
  <2>6. Whole(disk'.queue.files) = {FileOf(Queue'[j]) : j \in 1 .. Len(Queue)}
    BY <1>4, <2>3
  <2>7. disk'.queue.det = {Name(Queue'[j]) : j \in {i \in 1 .. Len(Queue) : Queue'[i].det}}
    BY <2>4
  <2>8. disk'.queue.redundant =
          {Name(Queue'[j]) : j \in {i \in 1 .. Len(Queue) : Queue'[i].redundant}}
    BY <2>4
  <2>9. disk'.queue.variable =
          {Name(Queue'[j]) : j \in {i \in 1 .. Len(Queue) : Queue'[i].variable}}
    BY <2>4
  <2> QED
    BY <2>1, <2>5, <2>6, <2>7, <2>8, <2>9 DEF Mirrored
<1>11. SavingNext'
  BY DEF SavingNext
<1>12. CrashesKept'
  BY <1>1 DEF CrashesKept
<1>13. DetDone'
  <2>1. \A j \in 1 .. Len(Queue) : s[j].det => s[j].origin \in hist'.det
    BY <1>1, <1>2, <1>3 DEF DetDone
  <2> QED
    BY <1>1, <1>3, <1>4, <2>1 DEF DetDone
<1>14. Scanned'
  BY <1>1, ScannedFrame
<1>15. ~hist.risk => hist'.known \subseteq {Queue'[j].origin : j \in 1 .. Len(Queue')}
  BY <1>1, <1>4, <1>5, <1>8 DEF Surviving, Linked
<1>16. pc' = "sync" <=> mem'.sync # << >>
  BY <1>1 DEF Progress
<1>17. Distinct(disk'.queue.files)
  BY <1>1 DEF Directories
<1> QED
  BY <1>10, <1>11, <1>12, <1>13, <1>14, <1>15, <1>16, <1>17, FuzzKeeps

\* Names of entries tell them apart.
LEMMA Marks ==
  ASSUME IInv, pc \in {"fuzz", "sync"}
  PROVE  /\ disk.queue.det = {Name(Queue[j]) : j \in {i \in 1 .. Len(Queue) : Queue[i].det}}
         /\ disk.queue.redundant = {Name(Queue[j]) : j \in {i \in 1 .. Len(Queue) : Queue[i].redundant}}
         /\ disk.queue.variable = {Name(Queue[j]) : j \in {i \in 1 .. Len(Queue) : Queue[i].variable}}
         /\ \A i, j \in 1 .. Len(Queue) : Name(Queue[i]) = Name(Queue[j]) => i = j
<1>1. Mirrored /\ Done = Len(Queue) /\ pc \in Linked
  BY DEF IInv, Done, Linked
<1>2. \A j \in 1 .. Len(Queue) : Queue[j].id = j - 1
  BY <1>1 DEF Mirrored
<1>3. ASSUME NEW i \in 1 .. Len(Queue), NEW j \in 1 .. Len(Queue), Name(Queue[i]) = Name(Queue[j])
      PROVE  i = j
  <2>1. Queue[i].id = Queue[j].id
    BY <1>3 DEF Name
  <2>2. Queue[i].id = i - 1 /\ Queue[j].id = j - 1
    BY <1>2
  <2>3. i \in Int /\ j \in Int
    OBVIOUS
  <2>4. i - 1 = j - 1
    BY <2>1, <2>2
  <2> QED
    BY <2>3, <2>4
<1> QED
  BY <1>1, <1>3 DEF Mirrored

\* A mark changes nothing else of an entry.
LEMMA EntryMarked ==
  ASSUME NEW q \in EntryRecord
  PROVE  /\ LET e == [q EXCEPT !.det = TRUE]
            IN  /\ e \in EntryRecord /\ e.id = q.id /\ e.origin = q.origin /\ e.data = q.data
                /\ e.det /\ e.redundant = q.redundant /\ e.variable = q.variable
         /\ LET e == [q EXCEPT !.redundant = ~@]
            IN  /\ e \in EntryRecord /\ e.id = q.id /\ e.origin = q.origin /\ e.data = q.data
                /\ e.det = q.det /\ (e.redundant <=> ~q.redundant) /\ e.variable = q.variable
         /\ LET e == [q EXCEPT !.variable = TRUE]
            IN  /\ e \in EntryRecord /\ e.id = q.id /\ e.origin = q.origin /\ e.data = q.data
                /\ e.det = q.det /\ e.redundant = q.redundant /\ e.variable
BY DEF EntryRecord

LEMMA Named ==
  ASSUME NEW q, q.id \in Nat, q.origin \in Origins
  PROVE  Name(q) \in NameRecord /\ Name(q).origin = q.origin
BY DEF Name, NameRecord

LEMMA DetDoneKeeps ==
  ASSUME IInv, NEW k \in DOMAIN mem.queue, mark_as_det_done(k)
  PROVE  IInv'
<1> DEFINE e == [Queue[k] EXCEPT !.det = TRUE]
           s == [Queue EXCEPT ![k] = e]
           det == disk.queue.det \cup {Name(Queue[k])}
           dir == [disk.queue EXCEPT !.det = det]
           done == hist.det \cup {Queue[k].origin}
           h == [hist EXCEPT !.events = hist.events + 1]
<1>1. /\ pc = "fuzz" /\ pc' = pc /\ UNCHANGED others /\ Saving = << >>
      /\ disk \in DiskRecord /\ hist \in HistRecord /\ mem \in MemRecord
      /\ Progress /\ DetDone
  BY DEF mark_as_det_done, Idle, IInv, Types, Saving
<1>2. /\ k \in 1 .. Len(Queue) /\ Queue \in Seq(EntryRecord) /\ Queue[k] \in EntryRecord
      /\ k \in Int /\ disk.queue \in QueueRecord
  BY Fields DEF IInv, Queue
<1>3. /\ e \in EntryRecord /\ e.id = Queue[k].id /\ e.origin = Queue[k].origin
      /\ e.data = Queue[k].data /\ e.det /\ e.redundant = Queue[k].redundant
      /\ e.variable = Queue[k].variable
  BY <1>2, EntryMarked
<1>4. mem' = [mem EXCEPT !.queue = s]
  BY <1>1, <1>2 DEF mark_as_det_done, MemRecord, Queue
<1>5. Name(Queue[k]) \in NameRecord
  <2>1. Queue[k].id \in Nat
    <3>1. Queue[k].id = k - 1
      BY <1>1, <1>2 DEF IInv, Mirrored, Done
    <3> QED
      BY <1>2, <3>1, Fields DEF IInv
  <2>2. Queue[k].origin \in Origins
    BY <1>2 DEF EntryRecord
  <2> QED
    BY <2>1, <2>2, Named
<1>6. disk' = [disk EXCEPT !.queue = dir]
  BY <1>1, <1>2 DEF mark_as_det_done, DiskRecord, QueueRecord, Queue
<1>7. hist' = [h EXCEPT !.det = done]
  BY <1>1 DEF mark_as_det_done, Event, HistRecord, Queue
<1> HIDE DEF e
<1>8. /\ s \in Seq(EntryRecord) /\ Len(s) = Len(Queue) /\ s[k] = e /\ DOMAIN s = 1 .. Len(Queue)
      /\ \A j \in 1 .. Len(Queue) : j # k => s[j] = Queue[j]
  BY <1>2, <1>3, EntryReplaced
<1> HIDE DEF s
<1>9. mem' \in MemRecord /\ Queue' = s /\ Saving' = << >> /\ mem'.sync = mem.sync
  <2>3. mem' \in MemRecord /\ mem'.queue = s /\ mem'.saving = mem.saving /\ mem'.sync = mem.sync
    BY <1>1, <1>4, <1>8 DEF MemRecord
  <2> QED
    BY <1>1, <2>3 DEF Queue, Saving
<1>10. det \in SUBSET NameRecord
  BY <1>2, <1>5 DEF QueueRecord, NameRecord
<1> HIDE DEF det
<1>11. /\ dir \in QueueRecord /\ dir.files = disk.queue.files /\ dir.det = det
       /\ dir.redundant = disk.queue.redundant /\ dir.variable = disk.queue.variable
       /\ dir.there = disk.queue.there
  BY <1>2, <1>10 DEF QueueRecord, NameRecord
<1> HIDE DEF dir
<1>12. /\ disk' \in DiskRecord /\ disk'.out = disk.out /\ disk'.resume = disk.resume
       /\ disk'.queue = dir /\ disk'.synced = disk.synced
       /\ disk'.crashes = disk.crashes /\ disk'.saved = disk.saved
  BY <1>1, <1>6, <1>11 DEF DiskRecord
<1>13. done \in SUBSET Origins /\ hist.det \subseteq done /\ Queue[k].origin \in done
  BY <1>1, <1>2 DEF HistRecord, EntryRecord
<1>14. /\ h \in HistRecord /\ h.risk = hist.risk /\ h.known = hist.known
       /\ h.crashes = hist.crashes /\ h.looked = hist.looked /\ h.raced = hist.raced
  BY <1>1 DEF HistRecord
<1> HIDE DEF h, done
<1>15. /\ hist' \in HistRecord /\ hist'.risk = hist.risk /\ hist'.known = hist.known
       /\ hist'.det = done /\ hist'.crashes = hist.crashes /\ hist'.looked = hist.looked
       /\ hist'.raced = hist.raced
  BY <1>7, <1>13, <1>14 DEF HistRecord
<1>16. /\ disk'.queue.det = {Name(Queue[j]) : j \in {i \in 1 .. Len(Queue) : Queue'[i].det}}
       /\ disk'.queue.redundant =
            {Name(Queue[j]) : j \in {i \in 1 .. Len(Queue) : Queue'[i].redundant}}
       /\ disk'.queue.variable =
            {Name(Queue[j]) : j \in {i \in 1 .. Len(Queue) : Queue'[i].variable}}
  <2>1. /\ {i \in 1 .. Len(Queue) : s[i].det} = {i \in 1 .. Len(Queue) : Queue[i].det} \cup {k}
        /\ {i \in 1 .. Len(Queue) : s[i].redundant} = {i \in 1 .. Len(Queue) : Queue[i].redundant}
        /\ {i \in 1 .. Len(Queue) : s[i].variable} = {i \in 1 .. Len(Queue) : Queue[i].variable}
    BY <1>2, <1>3, <1>8
  <2>2. det = {Name(Queue[j]) : j \in {i \in 1 .. Len(Queue) : s[i].det}}
    BY <1>1, <2>1, Marks DEF det
  <2> QED
    BY <1>1, <1>9, <1>11, <1>12, <2>1, <2>2, Marks
<1>17. \A x \in disk'.queue.det : x.origin \in hist'.det
  <2>1. Name(Queue[k]).origin = Queue[k].origin
    BY DEF Name
  <2> QED
    BY <1>1, <1>11, <1>12, <1>13, <1>15, <2>1 DEF DetDone, det
<1>18. Queue' = [Queue EXCEPT ![k] = e]
  BY <1>9 DEF s
<1>19. e.origin \in hist'.det
  BY <1>3, <1>13, <1>15
<1> QED
  BY <1>1, <1>2, <1>3, <1>9, <1>11, <1>12, <1>13, <1>15, <1>16, <1>17, <1>18, <1>19, MarkKeeps

LEMMA VariableKeeps ==
  ASSUME IInv, NEW k \in DOMAIN mem.queue, mark_as_variable(k)
  PROVE  IInv'
<1> DEFINE e == [Queue[k] EXCEPT !.variable = TRUE]
           s == [Queue EXCEPT ![k] = e]
           names == disk.queue.variable \cup {Name(Queue[k])}
           dir == [disk.queue EXCEPT !.variable = names]
<1>1. /\ pc = "fuzz" /\ pc' = pc /\ UNCHANGED others /\ Saving = << >>
      /\ disk \in DiskRecord /\ hist \in HistRecord /\ mem \in MemRecord
      /\ Progress /\ DetDone
  BY DEF mark_as_variable, Idle, IInv, Types, Saving
<1>2. /\ k \in 1 .. Len(Queue) /\ Queue \in Seq(EntryRecord) /\ Queue[k] \in EntryRecord
      /\ k \in Int /\ disk.queue \in QueueRecord
  BY Fields DEF IInv, Queue
<1>3. /\ e \in EntryRecord /\ e.id = Queue[k].id /\ e.origin = Queue[k].origin
      /\ e.data = Queue[k].data /\ e.det = Queue[k].det /\ e.redundant = Queue[k].redundant
      /\ e.variable
  BY <1>2, EntryMarked
<1>4. mem' = [mem EXCEPT !.queue = s]
  BY <1>1, <1>2 DEF mark_as_variable, MemRecord, Queue
<1>5. Name(Queue[k]) \in NameRecord
  <2>1. Queue[k].id \in Nat
    <3>1. Queue[k].id = k - 1
      BY <1>1, <1>2 DEF IInv, Mirrored, Done
    <3> QED
      BY <1>2, <3>1, Fields DEF IInv
  <2>2. Queue[k].origin \in Origins
    BY <1>2 DEF EntryRecord
  <2> QED
    BY <2>1, <2>2, Named
<1>6. disk' = [disk EXCEPT !.queue = dir]
  BY <1>1, <1>2 DEF mark_as_variable, DiskRecord, QueueRecord, Queue
<1>7. hist' = [hist EXCEPT !.events = hist.events + 1]
  BY <1>1 DEF mark_as_variable, Event, HistRecord
<1> HIDE DEF e
<1>8. /\ s \in Seq(EntryRecord) /\ Len(s) = Len(Queue) /\ s[k] = e /\ DOMAIN s = 1 .. Len(Queue)
      /\ \A j \in 1 .. Len(Queue) : j # k => s[j] = Queue[j]
  BY <1>2, <1>3, EntryReplaced
<1> HIDE DEF s
<1>9. mem' \in MemRecord /\ Queue' = s /\ Saving' = << >> /\ mem'.sync = mem.sync
  BY <1>1, <1>4, <1>8 DEF MemRecord, Queue, Saving
<1>10. names \in SUBSET NameRecord
  BY <1>2, <1>5 DEF QueueRecord, NameRecord
<1> HIDE DEF names
<1>11. /\ dir \in QueueRecord /\ dir.files = disk.queue.files /\ dir.det = disk.queue.det
       /\ dir.redundant = disk.queue.redundant /\ dir.variable = names
       /\ dir.there = disk.queue.there
  BY <1>2, <1>10 DEF QueueRecord, NameRecord
<1> HIDE DEF dir
<1>12. /\ disk' \in DiskRecord /\ disk'.out = disk.out /\ disk'.resume = disk.resume
       /\ disk'.queue = dir /\ disk'.synced = disk.synced
       /\ disk'.crashes = disk.crashes /\ disk'.saved = disk.saved
  BY <1>1, <1>6, <1>11 DEF DiskRecord
<1>13. /\ hist' \in HistRecord /\ hist'.risk = hist.risk /\ hist'.known = hist.known
       /\ hist'.det = hist.det /\ hist'.crashes = hist.crashes /\ hist'.looked = hist.looked
       /\ hist'.raced = hist.raced
  BY <1>1, <1>7 DEF HistRecord
<1>14. /\ disk'.queue.det = {Name(Queue[j]) : j \in {i \in 1 .. Len(Queue) : Queue'[i].det}}
       /\ disk'.queue.redundant =
            {Name(Queue[j]) : j \in {i \in 1 .. Len(Queue) : Queue'[i].redundant}}
       /\ disk'.queue.variable =
            {Name(Queue[j]) : j \in {i \in 1 .. Len(Queue) : Queue'[i].variable}}
  <2>1. /\ {i \in 1 .. Len(Queue) : s[i].det} = {i \in 1 .. Len(Queue) : Queue[i].det}
        /\ {i \in 1 .. Len(Queue) : s[i].redundant} = {i \in 1 .. Len(Queue) : Queue[i].redundant}
        /\ {i \in 1 .. Len(Queue) : s[i].variable} = {i \in 1 .. Len(Queue) : Queue[i].variable} \cup {k}
    BY <1>2, <1>3, <1>8
  <2>2. names = {Name(Queue[j]) : j \in {i \in 1 .. Len(Queue) : s[i].variable}}
    BY <1>1, <2>1, Marks DEF names
  <2> QED
    BY <1>1, <1>9, <1>11, <1>12, <2>1, <2>2, Marks
<1>15. \A x \in disk'.queue.det : x.origin \in hist'.det
  BY <1>1, <1>11, <1>12, <1>13 DEF DetDone
<1>16. Queue' = [Queue EXCEPT ![k] = e]
  BY <1>9 DEF s
<1> QED
  BY <1>1, <1>2, <1>3, <1>9, <1>11, <1>12, <1>13, <1>14, <1>15, <1>16, MarkKeeps

LEMMA RedundantKeeps ==
  ASSUME IInv, NEW k \in DOMAIN mem.queue, mark_as_redundant(k)
  PROVE  IInv'
<1> DEFINE e == [Queue[k] EXCEPT !.redundant = ~@]
           s == [Queue EXCEPT ![k] = e]
           names == IF Queue[k].redundant THEN disk.queue.redundant \ {Name(Queue[k])}
                                          ELSE disk.queue.redundant \cup {Name(Queue[k])}
           dir == [disk.queue EXCEPT !.redundant = names]
<1>1. /\ pc = "fuzz" /\ pc' = pc /\ UNCHANGED others /\ Saving = << >>
      /\ disk \in DiskRecord /\ hist \in HistRecord /\ mem \in MemRecord
      /\ Progress /\ DetDone
  BY DEF mark_as_redundant, Idle, IInv, Types, Saving
<1>2. /\ k \in 1 .. Len(Queue) /\ Queue \in Seq(EntryRecord) /\ Queue[k] \in EntryRecord
      /\ k \in Int /\ disk.queue \in QueueRecord
  BY Fields DEF IInv, Queue
<1>3. /\ e \in EntryRecord /\ e.id = Queue[k].id /\ e.origin = Queue[k].origin
      /\ e.data = Queue[k].data /\ e.det = Queue[k].det /\ (e.redundant <=> ~Queue[k].redundant)
      /\ e.variable = Queue[k].variable
  BY <1>2, EntryMarked
<1>4. mem' = [mem EXCEPT !.queue = s]
  BY <1>1, <1>2 DEF mark_as_redundant, MemRecord, Queue
<1>5. Name(Queue[k]) \in NameRecord
  <2>1. Queue[k].id \in Nat
    <3>1. Queue[k].id = k - 1
      BY <1>1, <1>2 DEF IInv, Mirrored, Done
    <3> QED
      BY <1>2, <3>1, Fields DEF IInv
  <2>2. Queue[k].origin \in Origins
    BY <1>2 DEF EntryRecord
  <2> QED
    BY <2>1, <2>2, Named
<1>6. disk' = [disk EXCEPT !.queue = dir]
  BY <1>1, <1>2 DEF mark_as_redundant, DiskRecord, QueueRecord, Queue
<1>7. hist' = [hist EXCEPT !.events = hist.events + 1]
  BY <1>1 DEF mark_as_redundant, Event, HistRecord
<1> HIDE DEF e
<1>8. /\ s \in Seq(EntryRecord) /\ Len(s) = Len(Queue) /\ s[k] = e /\ DOMAIN s = 1 .. Len(Queue)
      /\ \A j \in 1 .. Len(Queue) : j # k => s[j] = Queue[j]
  BY <1>2, <1>3, EntryReplaced
<1> HIDE DEF s
<1>9. mem' \in MemRecord /\ Queue' = s /\ Saving' = << >> /\ mem'.sync = mem.sync
  BY <1>1, <1>4, <1>8 DEF MemRecord, Queue, Saving
<1>10. names \in SUBSET NameRecord
  BY <1>2, <1>5 DEF QueueRecord, NameRecord
<1> HIDE DEF names
<1>11. /\ dir \in QueueRecord /\ dir.files = disk.queue.files /\ dir.det = disk.queue.det
       /\ dir.redundant = names /\ dir.variable = disk.queue.variable
       /\ dir.there = disk.queue.there
  BY <1>2, <1>10 DEF QueueRecord, NameRecord
<1> HIDE DEF dir
<1>12. /\ disk' \in DiskRecord /\ disk'.out = disk.out /\ disk'.resume = disk.resume
       /\ disk'.queue = dir /\ disk'.synced = disk.synced
       /\ disk'.crashes = disk.crashes /\ disk'.saved = disk.saved
  BY <1>1, <1>6, <1>11 DEF DiskRecord
<1>13. /\ hist' \in HistRecord /\ hist'.risk = hist.risk /\ hist'.known = hist.known
       /\ hist'.det = hist.det /\ hist'.crashes = hist.crashes /\ hist'.looked = hist.looked
       /\ hist'.raced = hist.raced
  BY <1>1, <1>7 DEF HistRecord
<1>14. /\ disk'.queue.det = {Name(Queue[j]) : j \in {i \in 1 .. Len(Queue) : Queue'[i].det}}
       /\ disk'.queue.redundant =
            {Name(Queue[j]) : j \in {i \in 1 .. Len(Queue) : Queue'[i].redundant}}
       /\ disk'.queue.variable =
            {Name(Queue[j]) : j \in {i \in 1 .. Len(Queue) : Queue'[i].variable}}
  <2>1. /\ {i \in 1 .. Len(Queue) : s[i].det} = {i \in 1 .. Len(Queue) : Queue[i].det}
        /\ {i \in 1 .. Len(Queue) : s[i].redundant} =
             IF Queue[k].redundant THEN {i \in 1 .. Len(Queue) : Queue[i].redundant} \ {k}
                                   ELSE {i \in 1 .. Len(Queue) : Queue[i].redundant} \cup {k}
        /\ {i \in 1 .. Len(Queue) : s[i].variable} = {i \in 1 .. Len(Queue) : Queue[i].variable}
    BY <1>2, <1>3, <1>8
  <2>2. names = {Name(Queue[j]) : j \in {i \in 1 .. Len(Queue) : s[i].redundant}}
    BY <1>1, <1>2, <2>1, Marks DEF names
  <2> QED
    BY <1>1, <1>9, <1>11, <1>12, <2>1, <2>2, Marks
<1>15. \A x \in disk'.queue.det : x.origin \in hist'.det
  BY <1>1, <1>11, <1>12, <1>13 DEF DetDone
<1>16. Queue' = [Queue EXCEPT ![k] = e]
  BY <1>9 DEF s
<1> QED
  BY <1>1, <1>2, <1>3, <1>9, <1>11, <1>12, <1>13, <1>14, <1>15, <1>16, MarkKeeps

-----------------------------------------------------------------------------
(* New entries *)

\* A file that is created and not written yet changes nothing of what is whole.
LEMMA Created ==
  ASSUME IInv, NEW f \in FileRecord, f.data # Nothing,
         disk' = [disk EXCEPT !.queue.files = @ \cup {[f EXCEPT !.data = Nothing]}]
  PROVE  /\ disk' \in DiskRecord /\ disk'.out = disk.out /\ disk'.resume = disk.resume
         /\ disk'.synced = disk.synced /\ disk'.crashes = disk.crashes
         /\ disk'.saved = disk.saved
         /\ disk'.queue.there = disk.queue.there /\ disk'.queue.det = disk.queue.det
         /\ disk'.queue.redundant = disk.queue.redundant
         /\ disk'.queue.variable = disk.queue.variable
         /\ Whole(disk'.queue.files) = Whole(disk.queue.files)
         /\ Distinct(disk'.queue.files)
<1> DEFINE g == [f EXCEPT !.data = Nothing]
           files == disk.queue.files \cup {g}
           dir == [disk.queue EXCEPT !.files = files]
<1>1. disk \in DiskRecord /\ disk.queue \in QueueRecord /\ Distinct(disk.queue.files)
  BY Fields DEF IInv, Types, Directories
<1>2. disk' = [disk EXCEPT !.queue = dir]
  BY <1>1 DEF DiskRecord, QueueRecord
<1>3. g \in FileRecord /\ g.data = Nothing
  BY DEF FileRecord, Datas
<1> HIDE DEF g
<1>4. files \in SUBSET FileRecord
  BY <1>1, <1>3 DEF QueueRecord, FileRecord, Datas
<1>5. Whole(files) = Whole(disk.queue.files)
  BY <1>3 DEF Whole
<1>6. IsFiniteSet(files)
  BY <1>1, FS_AddElement DEF Distinct
<1> HIDE DEF files
<1>7. Distinct(files)
  BY <1>1, <1>5, <1>6 DEF Distinct
<1>8. /\ dir \in QueueRecord /\ dir.files = files /\ dir.det = disk.queue.det
      /\ dir.redundant = disk.queue.redundant /\ dir.variable = disk.queue.variable
      /\ dir.there = disk.queue.there
  BY <1>1, <1>4 DEF QueueRecord, FileRecord, Datas
<1> HIDE DEF dir
<1>9. /\ disk' \in DiskRecord /\ disk'.out = disk.out /\ disk'.resume = disk.resume
      /\ disk'.synced = disk.synced /\ disk'.crashes = disk.crashes
      /\ disk'.saved = disk.saved /\ disk'.queue = dir
  BY <1>1, <1>2, <1>8 DEF DiskRecord
<1> QED
  BY <1>5, <1>7, <1>8, <1>9

\* The entry that is being saved is the next one; the rest is as it was.
LEMMA CreateKeeps ==
  ASSUME IInv, pc \in {"fuzz", "sync"}, pc' = pc, UNCHANGED others,
         NEW f \in FileRecord, f.data # Nothing, f.id = Len(Queue),
         disk' = [disk EXCEPT !.queue.files = @ \cup {[f EXCEPT !.data = Nothing]}],
         mem' \in MemRecord, Queue' = Queue, Saving' = <<f>>,
         pc' = "sync" <=> mem'.sync # << >>,
         hist' \in HistRecord, hist'.risk = hist.risk, hist'.known = hist.known,
         hist'.det = hist.det, hist'.crashes = hist.crashes, Scanned'
  PROVE  IInv'
<1>1. Types /\ Mirrored /\ Surviving /\ CrashesKept /\ DetDone
  BY DEF IInv
<1>2. /\ disk' \in DiskRecord /\ disk'.out = disk.out /\ disk'.resume = disk.resume
      /\ disk'.synced = disk.synced /\ disk'.crashes = disk.crashes
      /\ disk'.saved = disk.saved
      /\ disk'.queue.there = disk.queue.there /\ disk'.queue.det = disk.queue.det
      /\ disk'.queue.redundant = disk.queue.redundant
      /\ disk'.queue.variable = disk.queue.variable
      /\ Whole(disk'.queue.files) = Whole(disk.queue.files)
      /\ Distinct(disk'.queue.files)
  BY Created
<1>3. Mirrored'
  <2>1. Done' = Done /\ pc' \in Linked /\ pc' # "pivot"
    BY DEF Done, Linked
  <2>2. /\ \A k \in 1 .. Done : Queue[k].id = k - 1
        /\ Whole(disk.queue.files) = {FileOf(Queue[k]) : k \in 1 .. Done}
    BY <1>1 DEF Mirrored, Linked
  <2>3. Whole(disk'.queue.files) = {FileOf(Queue'[k]) : k \in 1 .. Done'}
    BY <1>2, <2>1, <2>2
  <2>4. /\ disk'.queue.det = {Name(Queue'[k]) : k \in {j \in 1 .. Done' : Queue'[j].det}}
        /\ disk'.queue.redundant =
             {Name(Queue'[k]) : k \in {j \in 1 .. Done' : Queue'[j].redundant}}
        /\ disk'.queue.variable =
             {Name(Queue'[k]) : k \in {j \in 1 .. Done' : Queue'[j].variable}}
    BY <1>1, <1>2, <2>1 DEF Mirrored, Linked
  <2> QED
    BY <2>1, <2>2, <2>3, <2>4 DEF Mirrored
<1>4. SavingNext'
  BY <1>1 DEF SavingNext
<1>5. CrashesKept'
  BY <1>1, <1>2 DEF CrashesKept
<1>6. DetDone'
  BY <1>1, <1>2 DEF DetDone
<1>7. ~hist.risk => hist'.known \subseteq {Queue'[k].origin : k \in 1 .. Len(Queue')}
  BY <1>1 DEF Surviving, Linked
<1> QED
  BY <1>2, <1>3, <1>4, <1>5, <1>6, <1>7, FuzzKeeps

LEMMA FoundEntryKeeps ==
  ASSUME IInv, FoundEntry
  PROVE  IInv'
<1>1. PICK n \in 1 .. MaxFinds : CreateEntry(Find(n), Find(n))
  BY DEF FoundEntry
<1> DEFINE f == [id |-> Len(Queue), origin |-> Find(n), data |-> Find(n)]
<1>2. /\ disk' = [disk EXCEPT !.queue.files = @ \cup {[f EXCEPT !.data = Nothing]}]
      /\ mem' = [mem EXCEPT !.saving = <<f>>]
  BY <1>1 DEF CreateEntry, Queue
<1>3. /\ pc = "fuzz" /\ pc' = pc /\ UNCHANGED others
      /\ hist' = [hist EXCEPT !.events = hist.events + 1]
      /\ hist \in HistRecord /\ mem \in MemRecord
      /\ Progress /\ Scanned
  BY DEF FoundEntry, Idle, IInv, Types, Event
<1>4. Find(n) \in Origins /\ Find(n) # Nothing
  BY OriginsKnown DEF Origins
<1>5. f \in FileRecord /\ f.data # Nothing /\ f.id = Len(Queue)
  BY <1>4, Fields DEF IInv, FileRecord, Datas
<1> HIDE DEF f
<1>6. /\ mem' \in MemRecord /\ Queue' = Queue /\ Saving' = <<f>> /\ mem'.sync = mem.sync
  <2> DEFINE g == <<f>>
  <2>1. g \in {<<x>> : x \in FileRecord}
    BY <1>5
  <2>2. mem' = [mem EXCEPT !.saving = g]
    BY <1>2
  <2> HIDE DEF g
  <2>3. mem' \in MemRecord /\ mem'.queue = mem.queue /\ mem'.saving = g /\ mem'.sync = mem.sync
    BY <1>3, <2>1, <2>2 DEF MemRecord
  <2> QED
    BY <2>3 DEF Queue, Saving, g
<1>7. /\ hist' \in HistRecord /\ hist'.risk = hist.risk /\ hist'.known = hist.known
      /\ hist'.det = hist.det /\ hist'.crashes = hist.crashes
      /\ hist'.looked = hist.looked /\ hist'.raced = hist.raced
  BY <1>3 DEF HistRecord
<1>8. Scanned'
  BY <1>2, <1>3, <1>5, <1>7, Created, ScannedFrame
<1>9. pc' = "sync" <=> mem'.sync # << >>
  BY <1>3, <1>6 DEF Progress
<1> QED
  BY <1>2, <1>3, <1>5, <1>6, <1>7, <1>8, <1>9, CreateKeeps

LEMMA AddToQueueKeeps ==
  ASSUME IInv, add_to_queue
  PROVE  IInv'
<1>1. /\ Types /\ Directories /\ Progress /\ Mirrored /\ SavingNext /\ Surviving
      /\ CrashesKept /\ DetDone /\ Scanned
      /\ Saving # << >> /\ pc' = pc /\ UNCHANGED others
      /\ disk \in DiskRecord /\ mem \in MemRecord /\ hist \in HistRecord
  BY DEF add_to_queue, IInv, Types, Saving
<1>2. pc \in {"fuzz", "sync"}
  BY <1>1 DEF Progress
<1>3. PICK f \in FileRecord : Saving = <<f>>
  BY <1>1 DEF MemRecord, Saving
<1>4. f.id = Len(Queue) /\ f.data # Nothing /\ f.id \in Nat /\ f.origin \in Origins
  BY <1>1, <1>3 DEF SavingNext, FileRecord
<1> DEFINE g == [f EXCEPT !.data = Nothing]
           e == Entry(f, FALSE)
           files == (disk.queue.files \ {g}) \cup {f}
           dir == [disk.queue EXCEPT !.files = files]
           replay == disk.replay \cup {Name(f)}
           s == Append(Queue, e)
           known == hist.known \cup {f.origin}
<1>5. /\ disk' = [disk EXCEPT !.queue = dir, !.replay = replay]
      /\ mem' = [mem EXCEPT !.queue = s, !.saving = << >>]
      /\ hist' = [hist EXCEPT !.known = known]
  <2>1. mem.saving[1] = f
    BY <1>3 DEF Saving
  <2>2. /\ disk' = [disk EXCEPT !.queue.files = files, !.replay = replay]
        /\ mem' = [mem EXCEPT !.queue = s, !.saving = << >>]
        /\ hist' = [hist EXCEPT !.known = known]
    BY <2>1 DEF add_to_queue, Queue
  <2> HIDE DEF files, replay
  <2> QED
    BY <1>1, <2>2 DEF DiskRecord
<1>6. /\ disk.queue \in QueueRecord /\ Queue \in Seq(EntryRecord) /\ Len(Queue) \in Nat
      /\ DOMAIN Queue = 1 .. Len(Queue)
      /\ \A k \in 1 .. Len(Queue) : Queue[k] \in EntryRecord
  BY <1>1, Fields
<1>7. g.data = Nothing
  BY DEF FileRecord
<1>8. /\ e \in EntryRecord /\ e.id = Len(Queue) /\ e.origin = f.origin /\ ~e.det
      /\ ~e.redundant /\ ~e.variable /\ FileOf(e) = f
  <2>1. f.data \in Origins \cup {Junk} /\ f.id \in Int
    BY <1>4 DEF FileRecord, Datas
  <2>2. /\ e \in EntryRecord /\ e.id = f.id /\ e.origin = f.origin /\ e.data = f.data
        /\ e.det = FALSE /\ ~e.redundant /\ ~e.variable
    BY <1>4, <2>1, EntryTyped
  <2> HIDE DEF e
  <2>3. FileOf(e) = f
    BY <2>2 DEF FileOf, FileRecord
  <2> QED
    BY <1>4, <2>2, <2>3
<1> HIDE DEF e, g
<1>9. Whole(files) = Whole(disk.queue.files) \cup {f}
  BY <1>4, <1>7 DEF Whole
<1>10. files \in SUBSET FileRecord
  BY <1>6 DEF QueueRecord, FileRecord, Datas
<1>11. IsFiniteSet(files)
  <2>1. IsFiniteSet(disk.queue.files \ {g})
    BY <1>1, FS_RemoveElement DEF Directories, Distinct
  <2> QED
    BY <2>1, FS_AddElement
<1>12. Name(f) \in NameRecord
  BY <1>4, Named
<1>13. replay \in SUBSET [id : Int, origin : Origins]
  BY <1>1, <1>12 DEF DiskRecord, NameRecord
<1>14. /\ s \in Seq(EntryRecord) /\ Len(s) = Len(Queue) + 1 /\ s[Len(Queue) + 1] = e
       /\ \A k \in 1 .. Len(Queue) : s[k] = Queue[k]
  BY <1>6, <1>8, AppendProperties
<1>15. known \in SUBSET Origins
  BY <1>1, <1>4 DEF HistRecord
<1> HIDE DEF files, s, known, replay
<1>16. /\ dir \in QueueRecord /\ dir.files = files /\ dir.det = disk.queue.det
       /\ dir.redundant = disk.queue.redundant /\ dir.variable = disk.queue.variable
       /\ dir.there = disk.queue.there
  BY <1>6, <1>10 DEF QueueRecord, FileRecord, Datas
<1> HIDE DEF dir
<1>17. /\ disk' \in DiskRecord /\ disk'.out = disk.out /\ disk'.resume = disk.resume
       /\ disk'.queue = dir /\ disk'.synced = disk.synced
       /\ disk'.crashes = disk.crashes /\ disk'.saved = disk.saved
  <2> DEFINE d == [disk EXCEPT !.replay = replay]
  <2>1. d \in DiskRecord
    BY <1>1, <1>13 DEF DiskRecord
  <2>2. disk' = [d EXCEPT !.queue = dir]
    BY <1>1, <1>5 DEF DiskRecord
  <2>3. /\ d.out = disk.out /\ d.resume = disk.resume /\ d.synced = disk.synced
        /\ d.crashes = disk.crashes /\ d.saved = disk.saved
    BY <1>1 DEF DiskRecord
  <2> HIDE DEF d
  <2> QED
    BY <1>16, <2>1, <2>2, <2>3 DEF DiskRecord
<1>18. mem' \in MemRecord /\ Queue' = s /\ Saving' = << >> /\ mem'.sync = mem.sync
  BY <1>1, <1>5, <1>14 DEF MemRecord, Queue, Saving
<1>19. /\ hist' \in HistRecord /\ hist'.risk = hist.risk /\ hist'.known = known
       /\ hist'.det = hist.det /\ hist'.crashes = hist.crashes
       /\ hist'.looked = hist.looked /\ hist'.raced = hist.raced
  BY <1>1, <1>5, <1>15 DEF HistRecord
<1>20. /\ \A k \in 1 .. Len(Queue) : Queue[k].id = k - 1
       /\ Whole(disk.queue.files) = {FileOf(Queue[k]) : k \in 1 .. Len(Queue)}
       /\ Done = Len(Queue) /\ Done' = Len(s)
  BY <1>1, <1>2, <1>18 DEF Mirrored, Done, Linked
<1>21. \A k : k \in 1 .. Len(s) <=> k \in 1 .. Len(Queue) \/ k = Len(Queue) + 1
  BY <1>6, <1>14
<1>22. Distinct(disk'.queue.files)
  <2>1. \A h \in Whole(disk.queue.files) : h.id # f.id
    <3>1. ASSUME NEW k \in 1 .. Len(Queue)
          PROVE  FileOf(Queue[k]).id # Len(Queue)
      <4>1. FileOf(Queue[k]).id = k - 1
        BY <1>20 DEF FileOf
      <4> QED
        BY <1>6, <4>1
    <3> QED
      BY <1>4, <1>20, <3>1
  <2>2. \A x, y \in Whole(disk.queue.files) : x.id = y.id => x = y
    BY <1>1 DEF Directories, Distinct
  <2>3. \A x, y \in Whole(files) : x.id = y.id => x = y
    BY <1>9, <2>1, <2>2
  <2>4. disk'.queue.files = files
    BY <1>16, <1>17
  <2> QED
    BY <1>11, <2>3, <2>4 DEF Distinct
<1>23. Mirrored'
  <2>1. \A k \in 1 .. Len(s) : s[k].id = k - 1
    BY <1>6, <1>8, <1>14, <1>20, <1>21
  <2>2. Whole(dir.files) = {FileOf(s[k]) : k \in 1 .. Len(s)}
    BY <1>8, <1>9, <1>14, <1>16, <1>20, <1>21
  <2>3. /\ {j \in 1 .. Len(s) : s[j].det} = {j \in 1 .. Len(Queue) : Queue[j].det}
        /\ {j \in 1 .. Len(s) : s[j].redundant} = {j \in 1 .. Len(Queue) : Queue[j].redundant}
        /\ {j \in 1 .. Len(s) : s[j].variable} = {j \in 1 .. Len(Queue) : Queue[j].variable}
    BY <1>8, <1>14, <1>21
  <2>4. /\ dir.det = {Name(s[k]) : k \in {j \in 1 .. Len(s) : s[j].det}}
        /\ dir.redundant = {Name(s[k]) : k \in {j \in 1 .. Len(s) : s[j].redundant}}
        /\ dir.variable = {Name(s[k]) : k \in {j \in 1 .. Len(s) : s[j].variable}}
    BY <1>2, <1>14, <1>16, <2>3, Marks
  <2>5. pc' # "pivot"
    BY <1>1, <1>2
  <2> QED
    BY <1>17, <1>18, <1>20, <2>1, <2>2, <2>4, <2>5 DEF Mirrored
<1>24. SavingNext'
  BY <1>18 DEF SavingNext
<1>25. CrashesKept'
  BY <1>1, <1>17, <1>19 DEF CrashesKept
<1>26. DetDone'
  <2>1. \A k \in 1 .. Len(s) : s[k].det => s[k].origin \in hist.det
    BY <1>1, <1>6, <1>8, <1>14, <1>21 DEF DetDone
  <2>2. DOMAIN Queue' = 1 .. Len(s)
    BY <1>14, <1>18, LenProperties
  <2> QED
    BY <1>1, <1>16, <1>17, <1>18, <1>19, <2>1, <2>2 DEF DetDone
<1>27. Scanned'
  BY <1>1, <1>17, <1>18, <1>19, ScannedFrame
<1>28. ~hist.risk => hist'.known \subseteq {Queue'[k].origin : k \in 1 .. Len(Queue')}
  <2>1. ~hist.risk => hist.known \subseteq {Queue[k].origin : k \in 1 .. Len(Queue)}
    BY <1>1, <1>2 DEF Surviving, Linked
  <2>2. ~hist.risk => known \subseteq {s[k].origin : k \in 1 .. Len(s)}
    BY <1>8, <1>14, <1>21, <2>1 DEF known
  <2> QED
    BY <1>18, <1>19, <2>2
<1>29. pc' = "sync" <=> mem'.sync # << >>
  BY <1>1, <1>2, <1>18 DEF Progress
<1> QED
  BY <1>1, <1>2, <1>16, <1>17, <1>18, <1>19, <1>22, <1>23, <1>24, <1>25, <1>26, <1>27,
     <1>28, <1>29, FuzzKeeps

-----------------------------------------------------------------------------
(* The cases of the other instance *)

LEMMA ScanGiven ==
  ASSUME IInv, pc = "sync"
  PROVE  \E s \in ScanRecord :
           /\ mem.sync = <<s>> /\ mem.sync[1] = s
           /\ s.min = disk.synced /\ s.next >= s.min /\ s.next <= Cardinality(others.files)
           /\ s.here \subseteq others.written
           /\ \A k \in s.seen : k >= s.min /\ k \in s.here => k \in hist.looked
<1>1. mem \in MemRecord /\ Progress /\ Scanned
  BY DEF IInv, Types
<1>2. mem.sync # << >> /\ mem.sync \in {<< >>} \cup {<<s>> : s \in ScanRecord}
  BY <1>1 DEF Progress, MemRecord
<1>3. PICK s \in ScanRecord : mem.sync = <<s>>
  BY <1>2
<1>4. mem.sync[1] = s
  BY <1>3
<1>5. /\ s.min = disk.synced /\ s.next >= s.min /\ s.next <= Cardinality(others.files)
      /\ s.here \subseteq others.written
      /\ \A k \in s.seen : k >= s.min /\ k \in s.here => k \in hist.looked
  BY <1>1, <1>4 DEF Scanned
<1> QED
  BY <1>3, <1>4, <1>5

\* A scan that goes on.
LEMMA ScanGoesOn ==
  ASSUME IInv, pc \in {"fuzz", "sync"}, UNCHANGED others, pc' = "sync",
         disk'.synced = disk.synced, NEW t \in ScanRecord, mem'.sync = <<t>>,
         t.min = disk.synced, t.next >= t.min, t.next <= Cardinality(others.files),
         t.here \subseteq others.written, hist'.raced = hist.raced,
         hist.looked \subseteq hist'.looked,
         \A k \in t.seen : k >= t.min /\ k \in t.here => k \in hist'.looked
  PROVE  Scanned'
<1>1. /\ IsFiniteSet(others'.files) /\ others'.files = 0 .. Cardinality(others'.files) - 1
      /\ Cardinality(others'.files) <= MaxOthers
      /\ others'.written \subseteq others'.files
      /\ disk'.synced <= Cardinality(others'.files)
      /\ \A k \in others'.files : k < disk'.synced => k \in hist'.looked \cup hist'.raced
  BY DEF IInv, Scanned
<1>2. mem'.sync[1] = t
  OBVIOUS
<1>3. /\ t.min = disk'.synced /\ t.next <= Cardinality(others'.files)
      /\ t.here \subseteq others'.written
  OBVIOUS
<1> QED
  BY <1>1, <1>2, <1>3 DEF Scanned

LEMMA SyncBeginKeeps ==
  ASSUME IInv, SyncBegin
  PROVE  IInv'
<1> DEFINE t == [min |-> disk.synced, next |-> disk.synced, seen |-> {}, here |-> others.written]
           g == <<t>>
<1>1. /\ pc = "fuzz" /\ pc' = "sync" /\ disk' = disk /\ UNCHANGED others
      /\ mem' = [mem EXCEPT !.sync = g]
      /\ hist' = [hist EXCEPT !.events = hist.events + 1]
      /\ disk \in DiskRecord /\ hist \in HistRecord /\ mem \in MemRecord
      /\ others \in [files : SUBSET Nat, written : SUBSET Nat]
      /\ CrashesKept /\ Scanned
  BY DEF SyncBegin, Idle, IInv, Types, Event
<1>2. disk.synced \in Nat
  BY <1>1 DEF DiskRecord
<1>3. /\ t \in ScanRecord /\ t.min = disk.synced /\ t.next = disk.synced /\ t.seen = {}
      /\ t.here = others.written
  BY <1>1, <1>2 DEF ScanRecord
<1> HIDE DEF t
<1>4. g \in {<<s>> : s \in ScanRecord} /\ g # << >>
  BY <1>3
<1> HIDE DEF g
<1>5. mem' \in MemRecord /\ Queue' = Queue /\ Saving' = Saving /\ mem'.sync = g
  BY <1>1, <1>4 DEF MemRecord, Queue, Saving
<1>6. /\ hist' \in HistRecord /\ hist'.risk = hist.risk /\ hist'.known = hist.known
      /\ hist'.det = hist.det /\ hist'.crashes = hist.crashes
      /\ hist'.looked = hist.looked /\ hist'.raced = hist.raced
  BY <1>1 DEF HistRecord
<1>7. CrashesKept'
  BY <1>1, <1>6 DEF CrashesKept
<1>8. Scanned'
  <2>1. disk.synced <= Cardinality(others.files)
    BY <1>1 DEF Scanned
  <2>2. t.next >= t.min /\ t.next <= Cardinality(others.files)
    BY <1>2, <1>3, <2>1
  <2>3. mem'.sync = <<t>>
    BY <1>5 DEF g
  <2>4. \A k \in t.seen : k >= t.min /\ k \in t.here => k \in hist'.looked
    BY <1>3
  <2> QED
    BY <1>1, <1>3, <1>6, <2>2, <2>3, <2>4, ScanGoesOn
<1> QED
  BY <1>1, <1>4, <1>5, <1>6, <1>7, <1>8, QuietKeeps

LEMMA SyncCaseKeeps ==
  ASSUME IInv, SyncCase
  PROVE  IInv'
<1>1. /\ pc = "sync" /\ pc' = pc /\ UNCHANGED others
      /\ disk \in DiskRecord /\ hist \in HistRecord /\ mem \in MemRecord
      /\ others \in [files : SUBSET Nat, written : SUBSET Nat]
      /\ CrashesKept /\ Scanned
  BY DEF SyncCase, IInv, Types
<1>2. PICK r \in ScanRecord :
        /\ mem.sync = <<r>> /\ mem.sync[1] = r
        /\ r.min = disk.synced /\ r.next >= r.min /\ r.next <= Cardinality(others.files)
        /\ r.here \subseteq others.written
        /\ \A k \in r.seen : k >= r.min /\ k \in r.here => k \in hist.looked
  BY <1>1, ScanGiven
<1> DEFINE S(k) == [r EXCEPT !.seen = @ \cup {k}]
           T(k) == [S(k) EXCEPT !.next = IF k + 1 > @ THEN k + 1 ELSE @]
           F(k, data) == [id |-> Len(Queue), origin |-> Sync(k), data |-> data]
<1>3. PICK k \in others.files :
        IF k < r.min
          THEN mem' = [mem EXCEPT !.sync = <<S(k)>>] /\ UNCHANGED <<disk, hist>>
        ELSE IF k \notin others.written
          THEN mem' = [mem EXCEPT !.sync = <<T(k)>>] /\ UNCHANGED <<disk, hist>>
        ELSE /\ hist' = [hist EXCEPT !.looked = @ \cup {k}]
             /\ \/ mem' = [mem EXCEPT !.sync = <<T(k)>>] /\ UNCHANGED disk
                \/ \E data \in {Sync(k), Junk} :
                     /\ disk' = [disk EXCEPT !.queue.files =
                                   @ \cup {[F(k, data) EXCEPT !.data = Nothing]}]
                     /\ mem' = [mem EXCEPT !.sync = <<T(k)>>, !.saving = <<F(k, data)>>]
  <2>1. PICK k \in others.files \ r.seen :
          LET s == [r EXCEPT !.seen = @ \cup {k}]
              t == [s EXCEPT !.next = IF k + 1 > @ THEN k + 1 ELSE @] IN
            IF k < s.min
              THEN mem' = [mem EXCEPT !.sync = <<s>>] /\ UNCHANGED <<disk, hist>>
            ELSE IF k \notin others.written
              THEN /\ mem' = [mem EXCEPT !.sync = <<t>>]
                   /\ UNCHANGED <<disk, hist>>
            ELSE /\ hist' = [hist EXCEPT !.looked = @ \cup {k}]
                 /\ \/ mem' = [mem EXCEPT !.sync = <<t>>] /\ UNCHANGED disk
                    \/ /\ Sync(k) \notin hist.known
                       /\ \E data \in {Sync(k), Junk} :
                            LET f == [id |-> Len(mem.queue), origin |-> Sync(k), data |-> data] IN
                              /\ disk' = [disk EXCEPT !.queue.files = @ \cup {[f EXCEPT !.data = Nothing]}]
                              /\ mem' = [mem EXCEPT !.sync = <<t>>, !.saving = <<f>>]
    BY <1>2 DEF SyncCase
  <2>2. S(k).min = r.min
    BY <1>2 DEF ScanRecord
  <2> QED
    BY <2>1, <2>2 DEF Queue
<1> DEFINE s == S(k)
           t == T(k)
<1>4. k \in Nat /\ k + 1 <= Cardinality(others.files) /\ k \in 0 .. MaxOthers
  <2>1. /\ k \in 0 .. Cardinality(others.files) - 1 /\ Cardinality(others.files) <= MaxOthers
        /\ Cardinality(others.files) \in Nat
    BY <1>1, FS_CardinalityType DEF Scanned
  <2> QED
    BY <2>1, OutputDirAssumption
<1>5. /\ s \in ScanRecord /\ s.min = r.min /\ s.next = r.next /\ s.seen = r.seen \cup {k}
      /\ s.here = r.here
  BY <1>2, <1>4 DEF ScanRecord
<1>6. /\ t \in ScanRecord /\ t.min = r.min /\ t.next = (IF k + 1 > r.next THEN k + 1 ELSE r.next)
      /\ t.seen = r.seen \cup {k} /\ t.here = r.here
  <2>1. t = [s EXCEPT !.next = IF k + 1 > r.next THEN k + 1 ELSE r.next]
    BY <1>5
  <2> HIDE DEF s, t
  <2> QED
    BY <1>4, <1>5, <2>1 DEF ScanRecord
<1> HIDE DEF s, t
<1>7. t.next >= t.min /\ t.next <= Cardinality(others.files)
  <2>1. Cardinality(others.files) \in Nat /\ r.next \in Nat /\ r.min \in Nat
    BY <1>1, <1>2, FS_CardinalityType DEF Scanned, ScanRecord
  <2> QED
    BY <1>2, <1>4, <1>6, <2>1
<1>8. s.next >= s.min /\ s.next <= Cardinality(others.files)
  BY <1>2, <1>5
<1>9. /\ <<s>> # << >> /\ <<t>> # << >>
      /\ <<s>> \in {<<x>> : x \in ScanRecord} /\ <<t>> \in {<<x>> : x \in ScanRecord}
  BY <1>5, <1>6
<1>10. \A u : u \in {<<x>> : x \in ScanRecord} /\ mem' = [mem EXCEPT !.sync = u] =>
         mem' \in MemRecord /\ Queue' = Queue /\ Saving' = Saving /\ mem'.sync = u
  BY <1>1 DEF MemRecord, Queue, Saving
<1>11. CASE k < r.min
  <2>1. disk' = disk /\ hist' = hist /\ mem' = [mem EXCEPT !.sync = <<s>>]
    BY <1>3, <1>11 DEF s
  <2>2. mem' \in MemRecord /\ Queue' = Queue /\ Saving' = Saving /\ mem'.sync = <<s>>
    BY <1>9, <1>10, <2>1
  <2>3. \A j \in s.seen : j >= s.min /\ j \in s.here => j \in hist'.looked
    <3>1. ~(k >= r.min)
      BY <1>2, <1>4, <1>11 DEF ScanRecord
    <3> QED
      BY <1>2, <1>5, <2>1, <3>1
  <2>4. Scanned'
    BY <1>1, <1>2, <1>5, <1>8, <2>1, <2>2, <2>3, ScanGoesOn
  <2>5. CrashesKept'
    BY <1>1, <2>1 DEF CrashesKept
  <2> QED
    BY <1>1, <1>9, <2>1, <2>2, <2>4, <2>5, QuietKeeps
<1>12. CASE ~(k < r.min) /\ k \notin others.written
  <2>1. disk' = disk /\ hist' = hist /\ mem' = [mem EXCEPT !.sync = <<t>>]
    BY <1>3, <1>12 DEF t
  <2>2. mem' \in MemRecord /\ Queue' = Queue /\ Saving' = Saving /\ mem'.sync = <<t>>
    BY <1>9, <1>10, <2>1
  <2>3. \A j \in t.seen : j >= t.min /\ j \in t.here => j \in hist'.looked
    BY <1>2, <1>6, <1>12, <2>1
  <2>4. Scanned'
    BY <1>1, <1>2, <1>6, <1>7, <2>1, <2>2, <2>3, ScanGoesOn
  <2>5. CrashesKept'
    BY <1>1, <2>1 DEF CrashesKept
  <2> QED
    BY <1>1, <1>9, <2>1, <2>2, <2>4, <2>5, QuietKeeps
<1>13. CASE ~(k < r.min) /\ k \in others.written
  <2>1. /\ hist' \in HistRecord /\ hist'.risk = hist.risk /\ hist'.known = hist.known
        /\ hist'.det = hist.det /\ hist'.crashes = hist.crashes
        /\ hist'.looked = hist.looked \cup {k} /\ hist'.raced = hist.raced
    <3> DEFINE looked == hist.looked \cup {k}
    <3>1. looked \in SUBSET Nat
      BY <1>1, <1>4 DEF HistRecord
    <3>2. hist' = [hist EXCEPT !.looked = looked]
      BY <1>3, <1>13
    <3> HIDE DEF looked
    <3>3. /\ hist' \in HistRecord /\ hist'.risk = hist.risk /\ hist'.known = hist.known
          /\ hist'.det = hist.det /\ hist'.crashes = hist.crashes
          /\ hist'.looked = looked /\ hist'.raced = hist.raced
      BY <1>1, <3>1, <3>2 DEF HistRecord
    <3> QED
      BY <3>3 DEF looked
  <2>2. \A j \in t.seen : j >= t.min /\ j \in t.here => j \in hist'.looked
    BY <1>2, <1>6, <2>1
  <2>3. CASE mem' = [mem EXCEPT !.sync = <<t>>] /\ UNCHANGED disk
    <3>1. mem' \in MemRecord /\ Queue' = Queue /\ Saving' = Saving /\ mem'.sync = <<t>>
      BY <1>9, <1>10, <2>3
    <3>2. Scanned'
      BY <1>1, <1>2, <1>6, <1>7, <2>1, <2>2, <2>3, <3>1, ScanGoesOn
    <3>3. CrashesKept'
      BY <1>1, <2>1, <2>3 DEF CrashesKept
    <3> QED
      BY <1>1, <1>9, <2>1, <2>3, <3>1, <3>2, <3>3, QuietKeeps
  <2>4. ASSUME NEW data \in {Sync(k), Junk},
               disk' = [disk EXCEPT !.queue.files =
                          @ \cup {[F(k, data) EXCEPT !.data = Nothing]}],
               mem' = [mem EXCEPT !.sync = <<t>>, !.saving = <<F(k, data)>>]
        PROVE  IInv'
    <3> DEFINE e == F(k, data)
    <3>1. /\ disk' = [disk EXCEPT !.queue.files = @ \cup {[e EXCEPT !.data = Nothing]}]
          /\ mem' = [mem EXCEPT !.sync = <<t>>, !.saving = <<e>>]
      BY <2>4
    <3>2. e \in FileRecord /\ e.data # Nothing /\ e.id = Len(Queue)
      <4>1. Sync(k) \in Origins /\ Sync(k) # Nothing /\ Junk # Nothing
        BY <1>4, OriginsKnown DEF Origins, Junk, Nothing
      <4> QED
        BY <4>1, Fields DEF IInv, FileRecord, Datas
    <3> HIDE DEF e
    <3> DEFINE g == <<e>>
               u == <<t>>
    <3>3. g \in {<<x>> : x \in FileRecord} /\ mem' = [mem EXCEPT !.sync = u, !.saving = g]
      BY <3>1, <3>2
    <3>4. u \in {<<x>> : x \in ScanRecord} /\ u # << >>
      BY <1>9
    <3> HIDE DEF g, u
    <3>5. mem' \in MemRecord /\ mem'.queue = mem.queue /\ mem'.saving = g /\ mem'.sync = u
      BY <1>1, <3>3, <3>4 DEF MemRecord
    <3>6. Queue' = Queue /\ Saving' = <<e>> /\ mem'.sync = <<t>>
      BY <3>5 DEF Queue, Saving, g, u
    <3>7. disk'.synced = disk.synced
      BY <3>1, <3>2, Created
    <3>8. Scanned'
      BY <1>1, <1>2, <1>6, <1>7, <2>1, <2>2, <3>6, <3>7, ScanGoesOn
    <3> QED
      BY <1>1, <1>9, <2>1, <3>1, <3>2, <3>5, <3>6, <3>8, CreateKeeps
  <2> QED
    BY <1>3, <1>13, <2>3, <2>4 DEF t
<1> QED
  BY <1>11, <1>12, <1>13

LEMMA SyncEndKeeps ==
  ASSUME IInv, SyncEnd
  PROVE  IInv'
<1>1. /\ pc = "sync" /\ pc' = "fuzz" /\ UNCHANGED others
      /\ disk \in DiskRecord /\ hist \in HistRecord /\ mem \in MemRecord
      /\ others \in [files : SUBSET Nat, written : SUBSET Nat]
      /\ CrashesKept /\ Scanned
  BY DEF SyncEnd, IInv, Types
<1>2. PICK r \in ScanRecord :
        /\ mem.sync = <<r>> /\ mem.sync[1] = r
        /\ r.min = disk.synced /\ r.next >= r.min /\ r.next <= Cardinality(others.files)
        /\ r.here \subseteq others.written
        /\ \A k \in r.seen : k >= r.min /\ k \in r.here => k \in hist.looked
  BY <1>1, ScanGiven
<1> DEFINE late == {k \in r.min .. r.next - 1 : k \notin r.here}
           raced == hist.raced \cup late
<1>3. /\ r.here \subseteq r.seen
      /\ disk' = [disk EXCEPT !.synced = r.next]
      /\ mem' = [mem EXCEPT !.sync = << >>]
      /\ hist' = [hist EXCEPT !.raced = raced]
  BY <1>2 DEF SyncEnd
<1>4. r.min \in Nat /\ r.next \in Nat
  BY <1>2 DEF ScanRecord
<1>5. raced \in SUBSET Nat
  BY <1>1, <1>4 DEF HistRecord
<1>6. /\ disk' \in DiskRecord /\ disk'.out = disk.out /\ disk'.resume = disk.resume
      /\ disk'.queue = disk.queue /\ disk'.synced = r.next
      /\ disk'.crashes = disk.crashes /\ disk'.saved = disk.saved
  BY <1>1, <1>3, <1>4 DEF DiskRecord
<1>7. mem' \in MemRecord /\ Queue' = Queue /\ Saving' = Saving /\ mem'.sync = << >>
  BY <1>1, <1>3 DEF MemRecord, Queue, Saving
<1> HIDE DEF raced
<1>8. /\ hist' \in HistRecord /\ hist'.risk = hist.risk /\ hist'.known = hist.known
      /\ hist'.det = hist.det /\ hist'.crashes = hist.crashes
      /\ hist'.looked = hist.looked /\ hist'.raced = raced
  BY <1>1, <1>3, <1>5 DEF HistRecord
<1>9. CrashesKept'
  BY <1>1, <1>6, <1>8 DEF CrashesKept
<1>10. ASSUME NEW k \in others.files, k < r.next
       PROVE  k \in hist.looked \cup raced
  <2>1. k \in Nat
    BY <1>1
  <2>2. CASE k < r.min
    BY <1>1, <1>2, <2>2 DEF Scanned, raced
  <2>3. CASE k >= r.min /\ k \in r.here
    BY <1>2, <1>3, <2>3
  <2>4. CASE k >= r.min /\ k \notin r.here
    <3>1. k \in r.min .. r.next - 1
      BY <1>4, <1>10, <2>1, <2>4
    <3> QED
      BY <2>4, <3>1 DEF raced
  <2> QED
    BY <1>4, <2>1, <2>2, <2>3, <2>4
<1>11. Scanned'
  BY <1>1, <1>2, <1>6, <1>8, <1>10 DEF Scanned
<1> QED
  BY <1>1, <1>6, <1>7, <1>8, <1>9, <1>11, QuietKeeps

\* Steps of the other instance.
LEMMA OthersKeep ==
  ASSUME IInv, UNCHANGED <<pc, disk, mem, sessions, hist>>,
         others' \in [files : SUBSET Nat, written : SUBSET Nat], Scanned'
  PROVE  IInv'
<1>1. /\ Types /\ Directories /\ Progress /\ Mirrored /\ SavingNext /\ Surviving
      /\ CrashesKept /\ DetDone
      /\ Queue' = Queue /\ Saving' = Saving
  BY DEF IInv, Queue, Saving
<1>2. Types'
  BY <1>1 DEF Types
<1>3. Directories'
  BY <1>1 DEF Directories
<1>4. Progress'
  BY <1>1 DEF Progress
<1>5. Mirrored'
  BY <1>1 DEF Mirrored, Done
<1>6. SavingNext'
  BY <1>1 DEF SavingNext
<1>7. Held' = Held /\ Blocked(disk'.resume) = Blocked(disk.resume)
  BY DEF Held, Source, Blocked
<1>8. Surviving'
  BY <1>1, <1>7 DEF Surviving
<1>9. CrashesKept' /\ DetDone'
  BY <1>1 DEF CrashesKept, DetDone
<1> QED
  BY <1>2, <1>3, <1>4, <1>5, <1>6, <1>8, <1>9 DEF IInv

LEMMA OtherCreatesKeeps ==
  ASSUME IInv, OtherCreates
  PROVE  IInv'
<1> DEFINE c == Cardinality(others.files)
           files == others.files \cup {c}
<1>1. /\ Scanned /\ UNCHANGED <<pc, disk, mem, sessions, hist>>
      /\ others \in [files : SUBSET Nat, written : SUBSET Nat]
      /\ disk \in DiskRecord /\ others.files = others.written /\ c < MaxOthers
      /\ others' = [others EXCEPT !.files = files]
  BY DEF OtherCreates, IInv, Types
<1>2. IsFiniteSet(others.files) /\ others.files = 0 .. c - 1 /\ c \in Nat /\ disk.synced <= c
  BY <1>1, FS_CardinalityType DEF Scanned
<1>3. c \notin others.files
  BY <1>2
<1>4. IsFiniteSet(files) /\ Cardinality(files) = c + 1
  BY <1>2, <1>3, FS_AddElement
<1>5. files = 0 .. c
  BY <1>2
<1>6. files \in SUBSET Nat
  BY <1>1, <1>2
<1> HIDE DEF c
<1> HIDE DEF files
<1>7. /\ others' \in [files : SUBSET Nat, written : SUBSET Nat]
      /\ others'.files = files /\ others'.written = others.written
  BY <1>1, <1>6
<1>8. others.files \subseteq files
  BY DEF files
<1>9. ASSUME NEW k \in files, k < disk.synced
      PROVE  k \in hist.looked \cup hist.raced
  <2>1. k \in others.files
    BY <1>1, <1>2, <1>5, <1>9 DEF DiskRecord
  <2> QED
    BY <1>1, <1>9, <2>1 DEF Scanned
<1>10. c + 1 <= MaxOthers
  BY <1>1, <1>2, OutputDirAssumption
<1>11. 0 .. c = 0 .. (c + 1) - 1
  BY <1>2
<1>12. disk.synced \in Nat /\ disk.synced <= c + 1
  BY <1>1, <1>2 DEF DiskRecord
<1>13. ASSUME pc = "sync"
       PROVE  LET s == mem.sync[1] IN
                /\ s.min = disk.synced /\ s.next >= s.min /\ s.next <= c + 1
                /\ s.here \subseteq others.written
                /\ \A k \in s.seen : k >= s.min /\ k \in s.here => k \in hist.looked
  <2>1. PICK r \in ScanRecord :
          /\ mem.sync = <<r>> /\ mem.sync[1] = r
          /\ r.min = disk.synced /\ r.next >= r.min /\ r.next <= c
          /\ r.here \subseteq others.written
          /\ \A k \in r.seen : k >= r.min /\ k \in r.here => k \in hist.looked
    BY <1>13, ScanGiven DEF c
  <2>2. r.next <= c + 1
    BY <1>2, <2>1 DEF ScanRecord
  <2> QED
    BY <2>1, <2>2
<1>14. Scanned'
  BY <1>1, <1>4, <1>5, <1>7, <1>8, <1>9, <1>10, <1>11, <1>12, <1>13 DEF Scanned
<1> QED
  BY <1>1, <1>7, <1>14, OthersKeep

LEMMA OtherWritesKeeps ==
  ASSUME IInv, OtherWrites
  PROVE  IInv'
<1>1. /\ Scanned /\ UNCHANGED <<pc, disk, mem, sessions, hist>>
      /\ others \in [files : SUBSET Nat, written : SUBSET Nat]
      /\ others' = [others EXCEPT !.written = others.files]
  BY DEF OtherWrites, IInv, Types
<1>2. /\ others' \in [files : SUBSET Nat, written : SUBSET Nat]
      /\ others'.files = others.files /\ others'.written = others.files
  BY <1>1
<1>3. others.written \subseteq others'.written
  BY <1>1, <1>2 DEF Scanned
<1>4. Scanned'
  BY <1>1, <1>2, <1>3 DEF Scanned
<1> QED
  BY <1>1, <1>2, <1>4, OthersKeep

-----------------------------------------------------------------------------
(* Every step keeps the invariant *)

LEMMA NextKeepsIInv ==
  ASSUME IInv, CampaignNext
  PROVE  IInv'
<1>1. ASSUME NEW in_place \in BOOLEAN, Start(in_place), UNCHANGED others
      PROVE  IInv'
  BY <1>1, StartKeeps
<1>2. CASE RenameQueue /\ UNCHANGED others
  BY <1>2, RenameQueueKeeps
<1>3. CASE CleanOutDir /\ UNCHANGED others
  BY <1>3, CleanOutDirKeeps
<1>4. CASE setup_dirs_fds /\ UNCHANGED others
  BY <1>4, SetupDirsKeeps
<1>5. CASE read_testcases /\ UNCHANGED others
  BY <1>5, ReadKeeps
<1>6. CASE PivotInput /\ UNCHANGED others
  BY <1>6, PivotInputKeeps
<1>7. CASE PivotDone /\ UNCHANGED others
  BY <1>7, PivotDoneKeeps
<1>8. CASE NukeFile /\ UNCHANGED others
  BY <1>8, NukeFileKeeps
<1>9. CASE NukeDone /\ UNCHANGED others
  BY <1>9, NukeDoneKeeps
<1>10. CASE DryRun /\ UNCHANGED others
  BY <1>10, DryRunKeeps
<1>11. CASE add_to_queue
  BY <1>11, AddToQueueKeeps
<1>12. CASE FoundEntry
  BY <1>12, FoundEntryKeeps
<1>13. CASE FoundCrash
  BY <1>13, FoundCrashKeeps
<1>14. CASE CleanOutDirFails /\ UNCHANGED others
  BY <1>14, CleanOutDirFailsKeeps
<1>15. ASSUME NEW k \in DOMAIN mem.queue, mark_as_det_done(k)
       PROVE  IInv'
  BY <1>15, DetDoneKeeps
<1>16. ASSUME NEW k \in DOMAIN mem.queue, mark_as_redundant(k)
       PROVE  IInv'
  BY <1>16, RedundantKeeps
<1>17. ASSUME NEW k \in DOMAIN mem.queue, mark_as_variable(k)
       PROVE  IInv'
  BY <1>17, VariableKeeps
<1>19. CASE SyncBegin
  BY <1>19, SyncBeginKeeps
<1>20. CASE SyncCase
  BY <1>20, SyncCaseKeeps
<1>21. CASE SyncEnd
  BY <1>21, SyncEndKeeps
<1>22. CASE OtherCreates
  BY <1>22, OtherCreatesKeeps
<1>23. CASE OtherWrites
  BY <1>23, OtherWritesKeeps
<1>24. CASE Stop
  BY <1>24, StopKeeps
<1>25. CASE Crash
  BY <1>25, CrashKeeps
<1> QED
  BY <1>1, <1>2, <1>3, <1>4, <1>5, <1>6, <1>7, <1>8, <1>9, <1>10, <1>11, <1>12, <1>13, <1>14,
     <1>15, <1>16, <1>17, <1>19, <1>20, <1>21, <1>22, <1>23, <1>24, <1>25 DEF CampaignNext

LEMMA StutterKeepsIInv ==
  ASSUME IInv, UNCHANGED campaign
  PROVE  IInv'
<1>1. UNCHANGED <<pc, disk, mem, sessions, hist>> /\ others' = others
  BY DEF campaign
<1>2. Scanned'
  BY <1>1 DEF IInv, Scanned
<1>3. others' \in [files : SUBSET Nat, written : SUBSET Nat]
  BY <1>1 DEF IInv, Types
<1> QED
  BY <1>1, <1>2, <1>3, OthersKeep

\* What the entries hold agrees with the new directory and with the old one,
\* wherever a session of the campaign is (afl-fuzz.c:2419-2459, 4446-4547,
\* 4660-4800).
THEOREM CampaignInvariant == CampaignSpec => []IInv
<1>1. CampaignInit => IInv
  BY InitGivesIInv
<1>2. IInv /\ [CampaignNext]_campaign => IInv'
  BY NextKeepsIInv, StutterKeepsIInv
<1> QED
  BY <1>1, <1>2, PTL DEF CampaignSpec

LEMMA IInvGivesQueueKept ==
  ASSUME IInv
  PROVE  QueueKept
<1>1. Types /\ Mirrored /\ Surviving /\ DetDone
  BY DEF IInv
<1>2. {disk.queue, disk.resume} \subseteq QueueRecord
  BY <1>1, Fields
<1>3. ASSUME Fuzzing
      PROVE  LET entries == {mem.queue[k] : k \in DOMAIN mem.queue} IN
               /\ \A k \in DOMAIN mem.queue : mem.queue[k].id = k - 1
               /\ {Name(f) : f \in {g \in disk.queue.files : g.data # Nothing}} = {Name(q) : q \in entries}
               /\ disk.queue.det = {Name(q) : q \in {e \in entries : e.det}}
               /\ disk.queue.redundant = {Name(q) : q \in {e \in entries : e.redundant}}
               /\ disk.queue.variable = {Name(q) : q \in {e \in entries : e.variable}}
               /\ ~Blocked(disk.resume) \/ hist.risk
  <2> DEFINE entries == {Queue[k] : k \in 1 .. Len(Queue)}
  <2>1. DOMAIN Queue = 1 .. Len(Queue) /\ pc \in {"fuzz", "sync"} /\ Done = Len(Queue)
    BY <1>1, <1>3, Fields DEF Fuzzing, Done
  <2>2. /\ \A k \in 1 .. Len(Queue) : Queue[k].id = k - 1
        /\ Whole(disk.queue.files) = {FileOf(Queue[k]) : k \in 1 .. Len(Queue)}
    BY <1>1, <2>1 DEF Mirrored, Linked
  <2>3. {Name(f) : f \in Whole(disk.queue.files)} = {Name(q) : q \in entries}
    <3>1. \A k \in 1 .. Len(Queue) : Name(FileOf(Queue[k])) = Name(Queue[k])
      BY DEF Name, FileOf
    <3> QED
      BY <2>2, <3>1
  <2>4. /\ disk.queue.det = {Name(q) : q \in {e \in entries : e.det}}
        /\ disk.queue.redundant = {Name(q) : q \in {e \in entries : e.redundant}}
        /\ disk.queue.variable = {Name(q) : q \in {e \in entries : e.variable}}
    BY <2>1, Marks
  <2>5. ~Blocked(disk.resume) \/ hist.risk
    BY <1>1, <2>1 DEF Surviving, Linked
  <2> QED
    BY <2>1, <2>2, <2>3, <2>4, <2>5 DEF Queue, Whole
<1>4. QueueOnDisk
  BY <1>2, <1>3 DEF QueueOnDisk
<1>5. DetDoneMeansDone
  BY <1>1 DEF DetDone, DetDoneMeansDone, Queue
<1> QED
  BY <1>4, <1>5 DEF QueueKept

\* While a session fuzzes its queue and its directory are the same, names and
\* marks, and an entry marked as done went through the deterministic stages in
\* this session or in one before (afl-fuzz.c:1616-1689, 2436-2455, 3918-4002).
THEOREM CampaignQueueKept == CampaignSpec => []QueueKept
<1>1. IInv => QueueKept
  BY IInvGivesQueueKept
<1> QED
  BY <1>1, CampaignInvariant, PTL

\* Entries that are linked have their files.
LEMMA LinkedFound ==
  ASSUME IInv, pc \in Linked
  PROVE  {Queue[k].origin : k \in 1 .. Len(Queue)} \subseteq Found(disk.queue.files)
<1>1. Whole(disk.queue.files) = {FileOf(Queue[k]) : k \in 1 .. Len(Queue)}
  BY DEF IInv, Mirrored, Done, Linked
<1>2. ASSUME NEW k \in 1 .. Len(Queue)
      PROVE  Queue[k].origin \in Found(disk.queue.files)
  <2>1. FileOf(Queue[k]) \in Whole(disk.queue.files)
    BY <1>1
  <2> QED
    BY <2>1, OfFile DEF Found
<1> QED
  BY <1>2

LEMMA IInvGivesFindingsSurvive ==
  ASSUME IInv
  PROVE  FindingsSurvive
<1>1. Types /\ Progress /\ Surviving /\ CrashesKept
  BY DEF IInv
<1>2. ASSUME ~hist.risk
      PROVE  hist.known \subseteq Found((IF pc = "nuke" THEN disk.queue ELSE Source).files)
  <2>1. Found({}) = {} /\ (~Blocked(disk.resume) => disk.resume.files = {})
    BY DEF Found, Whole, Blocked
  <2>2. CASE pc \in {"off", "rename", "clean", "mkdir", "read", "pivot"}
    BY <1>1, <1>2, <2>1, <2>2 DEF Surviving, Held, Source
  <2>3. CASE pc \in Linked
    <3>1. hist.known \subseteq Found(disk.queue.files)
      BY <1>1, <1>2, <2>3, LinkedFound DEF Surviving
    <3>2. pc # "nuke" => Source = disk.queue
      BY <1>1, <1>2, <2>3 DEF Surviving, Progress, Source
    <3> QED
      BY <3>1, <3>2
  <2> QED
    BY <1>1, <2>2, <2>3 DEF Types, Places, Linked
<1> QED
  BY <1>1, <1>2 DEF FindingsSurvive, CrashesKept, Found, Whole

\* Wherever the program is killed or fails, all that a campaign queued is in
\* the directory the next resume in place reads, or, while that one is deleted,
\* in the new queue, and no crash is lost, but for the three cases the property
\* names (afl-fuzz.c:4706-4712).
THEOREM CampaignFindingsSurvive == CampaignSpec => []FindingsSurvive
<1>1. IInv => FindingsSurvive
  BY IInvGivesFindingsSurvive
<1> QED
  BY <1>1, CampaignInvariant, PTL

\* A case of the other instance that was there when a scan began is not passed
\* over by the scans after it, whatever ends a session in between
\* (afl-fuzz.c:7816-7848, 7871, 7896).
THEOREM CampaignSyncLooksAtAll == CampaignSpec => []SyncLooksAtAll
<1>1. IInv => SyncLooksAtAll
  BY DEF IInv, Scanned, SyncLooksAtAll
<1> QED
  BY <1>1, CampaignInvariant, PTL
=============================================================================
