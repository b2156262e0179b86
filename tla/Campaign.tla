------------------------------ MODULE Campaign ------------------------------
(***************************************************************************)
(* A fuzzing campaign over several sessions: what a session writes into    *)
(* its output directory while it fuzzes (add_to_queue and the marks in     *)
(* queue/.state), the import of the entries of another instance            *)
(* (sync_fuzzers), and the end of a session, by a stop or by a crash.      *)
(*                                                                         *)
(* The other instance is its queue only: it creates a file and then writes *)
(* it.                                                                     *)
(***************************************************************************)
EXTENDS OutputDir

VARIABLE others   \* the queue of the other instance: numbers of its files, and those that are written

campaign == <<pc, disk, mem, sessions, hist, others>>

CampaignInit ==
  /\ pc = "off" /\ sessions = 0
  /\ disk = DiskInit /\ mem = MemInit /\ hist = HistInit
  /\ others = [files |-> {}, written |-> {}]

InQueue(k) == k \in DOMAIN mem.queue

----------------------------------------------------------------------------
(* New entries: save_if_interesting and add_to_queue                       *)

\* the file is created; it is written and queued by the next step
CreateEntry(origin, data) ==
  LET f == [id |-> Len(mem.queue), origin |-> origin, data |-> data] IN
    /\ disk' = [disk EXCEPT !.queue.files = @ \cup {[f EXCEPT !.data = Nothing]}]
    /\ mem' = [mem EXCEPT !.saving = <<f>>]

add_to_queue ==
  /\ mem.saving # << >>
  /\ LET f == mem.saving[1] IN
       /\ disk' = [disk EXCEPT !.queue.files = (@ \ {[f EXCEPT !.data = Nothing]}) \cup {f},
                               !.replay = @ \cup {Name(f)}]
       /\ mem' = [mem EXCEPT !.queue = Append(@, Entry(f, FALSE)), !.saving = << >>]
       /\ hist' = [hist EXCEPT !.known = @ \cup {f.origin}]
  /\ UNCHANGED <<pc, sessions, others>>

Idle == pc = "fuzz" /\ mem.saving = << >> /\ hist.events < MaxEvents
Event(h) == [h EXCEPT !.events = @ + 1]

FoundEntry ==
  /\ Idle
  /\ \E n \in 1 .. MaxFinds :
       /\ \A g \in Origins : g = Find(n) => g \notin hist.known
       /\ \A i \in 1 .. n - 1 : Find(i) \in hist.known
       /\ CreateEntry(Find(n), Find(n))
  /\ hist' = Event(hist)
  /\ UNCHANGED <<pc, sessions, others>>

FoundCrash ==
  /\ Idle
  /\ \E c \in Crashes \ hist.crashes :
       /\ disk' = [disk EXCEPT !.crashes = @ \cup {c}]
       /\ hist' = Event([hist EXCEPT !.crashes = @ \cup {c}])
  /\ UNCHANGED <<pc, mem, sessions, others>>

----------------------------------------------------------------------------
(* The marks of an entry                                                   *)

\* the deterministic stages of an entry are over
mark_as_det_done(k) ==
  /\ Idle /\ InQueue(k) /\ ~mem.queue[k].det
  /\ mem' = [mem EXCEPT !.queue[k].det = TRUE]
  /\ disk' = [disk EXCEPT !.queue.det = @ \cup {Name(mem.queue[k])}]
  /\ hist' = Event([hist EXCEPT !.det = @ \cup {mem.queue[k].origin}])
  /\ UNCHANGED <<pc, sessions, others>>

\* cull_queue found that the entry is, or is no longer, favoured
mark_as_redundant(k) ==
  /\ Idle /\ InQueue(k)
  /\ mem' = [mem EXCEPT !.queue[k].redundant = ~@]
  /\ disk' = [disk EXCEPT !.queue.redundant =
                IF mem.queue[k].redundant THEN @ \ {Name(mem.queue[k])}
                                          ELSE @ \cup {Name(mem.queue[k])}]
  /\ hist' = Event(hist)
  /\ UNCHANGED <<pc, sessions, others>>

\* calibration saw the entry vary
mark_as_variable(k) ==
  /\ Idle /\ InQueue(k) /\ ~mem.queue[k].variable
  /\ mem' = [mem EXCEPT !.queue[k].variable = TRUE]
  /\ disk' = [disk EXCEPT !.queue.variable = @ \cup {Name(mem.queue[k])}]
  /\ hist' = Event(hist)
  /\ UNCHANGED <<pc, sessions, others>>

----------------------------------------------------------------------------
(* sync_fuzzers                                                            *)

\* the number is noted before the cases are looked at
SlipSyncBegin ==
  /\ Idle /\ others.files # {}
  /\ mem' = [mem EXCEPT !.sync = <<[min |-> disk.synced, next |-> disk.synced, seen |-> {},
                                    here |-> others.written]>>]
  /\ disk' = [disk EXCEPT !.synced = Cardinality(others.written)]
  /\ pc' = "sync"
  /\ hist' = Event(hist)
  /\ UNCHANGED <<sessions, others>>


SyncBegin ==
  /\ Idle /\ others.files # {}
  /\ mem' = [mem EXCEPT !.sync = <<[min |-> disk.synced, next |-> disk.synced, seen |-> {},
                                    here |-> others.written]>>]
  /\ pc' = "sync"
  /\ hist' = Event(hist)
  /\ UNCHANGED <<disk, sessions, others>>

\* A file that is not written yet is passed over for good.  What is run is
\* not the file: send_over_network sends kl_messages, which fuzz_one freed, so
\* an entry that is saved holds whatever these were.
SyncCase ==
  /\ pc = "sync" /\ mem.saving = << >>
  /\ \E k \in others.files \ mem.sync[1].seen :
       LET s == [mem.sync[1] EXCEPT !.seen = @ \cup {k}]
           t == [s EXCEPT !.next = IF k + 1 > @ THEN k + 1 ELSE @] IN
         IF k < s.min
           THEN mem' = [mem EXCEPT !.sync = <<s>>] /\ UNCHANGED <<disk, hist>>
         ELSE IF k \notin others.written
           THEN /\ mem' = [mem EXCEPT !.sync = <<t>>]
                /\ UNCHANGED <<disk, hist>>
         ELSE /\ hist' = [hist EXCEPT !.looked = @ \cup {k}]
              /\ \/ mem' = [mem EXCEPT !.sync = <<t>>] /\ UNCHANGED disk
                 \/ /\ Sync(k) \notin hist.known
                    /\ \E data \in {Sync(k), Junk} :
                         LET f == [id |-> Len(mem.queue), origin |-> Sync(k), data |-> data] IN
                           /\ disk' = [disk EXCEPT !.queue.files = @ \cup {[f EXCEPT !.data = Nothing]}]
                           /\ mem' = [mem EXCEPT !.sync = <<t>>, !.saving = <<f>>]
  /\ UNCHANGED <<pc, sessions, others>>

\* the directory was read to its end: what was there when it was opened was
\* seen, of what came later any part
SyncEnd ==
  /\ pc = "sync" /\ mem.saving = << >>
  /\ mem.sync[1].here \subseteq mem.sync[1].seen
  /\ disk' = [disk EXCEPT !.synced = mem.sync[1].next]
  /\ mem' = [mem EXCEPT !.sync = << >>]
  /\ pc' = "fuzz"
  /\ hist' = [hist EXCEPT !.raced =
                @ \cup {k \in mem.sync[1].min .. mem.sync[1].next - 1 : k \notin mem.sync[1].here}]
  /\ UNCHANGED <<sessions, others>>

OtherCreates ==
  /\ pc # "off"
  /\ others.files = others.written /\ Cardinality(others.files) < MaxOthers
  /\ others' = [others EXCEPT !.files = @ \cup {Cardinality(@)}]
  /\ UNCHANGED <<pc, disk, mem, sessions, hist>>

OtherWrites ==
  /\ others.files # others.written
  /\ others' = [others EXCEPT !.written = others.files]
  /\ UNCHANGED <<pc, disk, mem, sessions, hist>>

----------------------------------------------------------------------------
(* The end of a session                                                    *)

\* also in the middle of sync_fuzzers, which then does not note what it saw
Stop ==
  /\ pc \in {"fuzz", "sync"} /\ mem.saving = << >>
  /\ Fail
  /\ UNCHANGED <<disk, sessions, hist, others>>

\* The program is killed, or a system call fails.  There is a risk when the
\* old queue is partly deleted.
Crash ==
  /\ pc # "off"
  /\ Fail
  /\ hist' = [hist EXCEPT !.risk = @ \/ (pc = "nuke" /\ disk.resume.files # {})]
  /\ UNCHANGED <<disk, sessions, others>>

CampaignNext ==
  \/ /\ \/ \E in_place \in BOOLEAN : Start(in_place)
        \/ RenameQueue \/ CleanOutDir \/ CleanOutDirFails \/ setup_dirs_fds \/ read_testcases
        \/ PivotInput \/ PivotDone \/ NukeFile \/ NukeDone \/ DryRun
     /\ UNCHANGED others
  \/ add_to_queue \/ FoundEntry \/ FoundCrash
  \/ \E k \in DOMAIN mem.queue : mark_as_det_done(k) \/ mark_as_redundant(k) \/ mark_as_variable(k)
  \/ SyncBegin \/ SyncCase \/ SyncEnd \/ OtherCreates \/ OtherWrites
  \/ Stop \/ Crash

CampaignSpec == CampaignInit /\ [][CampaignNext]_campaign

----------------------------------------------------------------------------
QueueRecord ==
  [there : BOOLEAN, state : BOOLEAN,
   files : SUBSET [id : Nat, origin : Origins, data : Origins \cup {Nothing, Junk}],
   det : SUBSET [id : Nat, origin : Origins],
   redundant : SUBSET [id : Nat, origin : Origins],
   variable : SUBSET [id : Nat, origin : Origins]]

Fuzzing == pc \in {"fuzz", "sync"}

\* While a session fuzzes, its queue and its directory are the same: the k-th
\* entry has the number k - 1 and a file of that name, and the marks in
\* queue/.state are those of the entries, so no mark is made that exists or
\* removed that does not, which would end the program (afl-fuzz.c:1616-1689,
\* 3918-4002, 4117-4132).
QueueOnDisk ==
  /\ {disk.queue, disk.resume} \subseteq QueueRecord
  /\ Fuzzing =>
      LET entries == {mem.queue[k] : k \in DOMAIN mem.queue} IN
        /\ \A k \in DOMAIN mem.queue : mem.queue[k].id = k - 1
        /\ {Name(f) : f \in {g \in disk.queue.files : g.data # Nothing}} = {Name(q) : q \in entries}
        /\ disk.queue.det = {Name(q) : q \in {e \in entries : e.det}}
        /\ disk.queue.redundant = {Name(q) : q \in {e \in entries : e.redundant}}
        /\ disk.queue.variable = {Name(q) : q \in {e \in entries : e.variable}}
        /\ ~Blocked(disk.resume) \/ hist.risk

\* the directory a session that resumes in place would read
Source == IF disk.queue.there /\ ~Blocked(disk.resume) THEN disk.queue ELSE disk.resume

\* What a campaign found outlives its sessions: wherever the program is
\* killed or fails, all that it ever queued is in the directory the next
\* resume in place reads, or in the new queue while that directory is being
\* deleted, and every crash is in a directory (afl-fuzz.c:4706-4712).  Not when
\* it is killed in nuke_resume_dir, when a _resume with so much as a .state is
\* left from an earlier campaign, which a resume takes for the interrupted one
\* before it deletes the queue, and when the crashes cannot be renamed.
FindingsSurvive ==
  /\ ~hist.risk =>
       hist.known \subseteq
         {f.origin : f \in {g \in (IF pc = "nuke" THEN disk.queue ELSE Source).files : g.data # Nothing}}
  /\ hist.crashes \subseteq disk.crashes \cup disk.saved

\* An entry that is passed over by the deterministic stages went through them,
\* in this session or in one before it, under whatever number
\* (afl-fuzz.c:2436-2455, 3994, 7100).
DetDoneMeansDone ==
  \A k \in DOMAIN mem.queue : mem.queue[k].det => mem.queue[k].origin \in hist.det

\* No case of the other instance is left out because of a crash or a stop: one
\* that was written when a scan began, and has a number the next scan starts
\* after, was looked at (afl-fuzz.c:7816-7848, 7871, 7896).
SyncLooksAtAll ==
  \A k \in others.files : k < disk.synced => k \in hist.looked \cup hist.raced

\* What is imported is what the other instance found
\* (docs/parallel_fuzzing.txt:50-52).
ImportsWhatOthersFound ==
  \A k \in DOMAIN mem.queue : mem.queue[k].origin[1] = "sync" => mem.queue[k].data = mem.queue[k].origin

\* The queue is on disk as it is in memory, and what its marks say of the
\* deterministic stages is true (afl-fuzz.c:2436-2455, 3918-4002).
QueueKept == QueueOnDisk /\ DetDoneMeansDone
=============================================================================
