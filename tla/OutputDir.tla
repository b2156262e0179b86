----------------------------- MODULE OutputDir ------------------------------
(***************************************************************************)
(* The output directory of afl-fuzz, and what happens to it from the start *)
(* of the program to the end of the dry run: an old queue is put aside     *)
(* (maybe_delete_out_dir), a new one is made (setup_dirs_fds), the test    *)
(* cases are read (read_testcases) and linked into it under their new      *)
(* names (pivot_inputs), and the old queue is deleted (nuke_resume_dir).   *)
(* The program can be killed between any two steps; disk is what is left.  *)
(*                                                                         *)
(* A file of a queue is its number, what its name says of its origin, and  *)
(* its contents; the contents are Nothing between open and write.  Files   *)
(* of hangs are treated as those of crashes and are not shown.  Two        *)
(* instances never share an output directory (flock).  Left out: the       *)
(* dictionary tokens in .state, fuzzer_stats and the place a resumed       *)
(* session starts at.                                                      *)
(***************************************************************************)
EXTENDS Integers, Sequences, FiniteSets

CONSTANTS
  Seeds,        \* number of the inputs of the user
  MaxFinds,     \* bound on the entries found
  MaxOthers,    \* bound on the entries of the other instance
  MaxSessions,  \* bound on the starts of the program
  MaxEvents,    \* bound on the finds, marks and scans of a campaign together
  Crashes       \* crashes that can be found

ASSUME OutputDirAssumption ==
  /\ Seeds \in Nat \ {0}
  /\ {MaxFinds, MaxOthers, MaxSessions, MaxEvents} \subseteq Nat

Nothing == <<"nothing", 0>>
Junk == <<"junk", 0>>

Find(n) == <<"find", n>>
Sync(n) == <<"sync", n>>
Seed(s) == <<"seed", s>>
Origins ==
  {Seed(n) : n \in 1 .. Seeds} \cup {Find(n) : n \in 1 .. MaxFinds}
    \cup {Sync(n) : n \in 0 .. MaxOthers}

Name(f) == [id |-> f.id, origin |-> f.origin]

VARIABLES
  pc,
  disk,      \* the output directory
  mem,       \* the variables of afl-fuzz that are about it
  sessions,  \* starts so far
  hist       \* history

\* a queue directory with its .state, where the marks det, redundant and variable are
NoQueue == [there |-> FALSE, state |-> FALSE, files |-> {}, det |-> {}, redundant |-> {}, variable |-> {}]
EmptyQueue == [NoQueue EXCEPT !.there = TRUE, !.state = TRUE]

DiskInit ==
  [out |-> FALSE, queue |-> NoQueue, resume |-> NoQueue, replay |-> {},
   crashes |-> {}, saved |-> {}, synced |-> 0]

MemInit ==
  [in_place |-> FALSE, queue |-> << >>, pivoted |-> 0, saving |-> << >>, sync |-> << >>]

HistInit ==
  [known |-> {}, det |-> {}, crashes |-> {}, looked |-> {}, raced |-> {}, risk |-> FALSE, events |-> 0]

Fail == pc' = "off" /\ mem' = MemInit

----------------------------------------------------------------------------
(* afl-fuzz -i dir, or -i - to resume in place                             *)

Start(in_place) ==
  /\ pc = "off" /\ sessions < MaxSessions
  /\ in_place => disk.out
  /\ sessions' = sessions + 1
  /\ pc' = IF disk.out THEN "rename" ELSE "mkdir"
  /\ disk' = [disk EXCEPT !.out = TRUE]
  /\ mem' = [MemInit EXCEPT !.in_place = in_place]
  /\ UNCHANGED hist

\* a _resume that is there already is replaced
SlipRenameQueue ==
  /\ pc = "rename"
  /\ disk' = IF mem.in_place /\ disk.queue.there
               THEN [disk EXCEPT !.resume = disk.queue, !.queue = NoQueue]
               ELSE disk
  /\ pc' = "clean"
  /\ UNCHANGED <<mem, sessions, hist>>

\* rename() does not replace a directory that holds something
Blocked(dir) == dir.state \/ dir.files # {}

\* the old queue is put aside; when an earlier resume was interrupted the
\* directory for it exists, the rename fails, and the queue is not used
RenameQueue ==
  /\ pc = "rename"
  /\ disk' = IF mem.in_place /\ disk.queue.there /\ ~Blocked(disk.resume)
               THEN [disk EXCEPT !.resume = disk.queue, !.queue = NoQueue]
               ELSE disk
  /\ pc' = "clean"
  /\ UNCHANGED <<mem, sessions, hist>>

\* Delete what is left of the old session; crashes are kept when resuming.
\* A new campaign leaves _resume as it is, which puts its queue at risk.
CleanOutDir ==
  /\ pc = "clean"
  /\ disk' = [disk EXCEPT
       !.queue = NoQueue,
       !.replay = {},
       !.synced = IF mem.in_place THEN @ ELSE 0,
       !.saved = IF mem.in_place THEN @ \cup disk.crashes ELSE @,
       !.crashes = {}]
  /\ hist' = IF mem.in_place THEN hist
             ELSE [HistInit EXCEPT !.det = hist.det, !.events = hist.events, !.risk = Blocked(disk.resume)]
  /\ pc' = "mkdir"
  /\ UNCHANGED <<mem, sessions>>

\* The directory of the crashes cannot be renamed: they are deleted, and the
\* program ends, because their README.txt is not.
CleanOutDirFails ==
  /\ pc = "clean" /\ mem.in_place /\ disk.crashes # {}
  /\ disk' = [disk EXCEPT !.queue = NoQueue, !.crashes = {}]
  /\ hist' = [hist EXCEPT !.crashes = @ \ disk.crashes]
  /\ Fail
  /\ UNCHANGED sessions

setup_dirs_fds ==
  /\ pc = "mkdir"
  /\ disk' = [disk EXCEPT !.queue = EmptyQueue]
  /\ pc' = "read"
  /\ UNCHANGED <<mem, sessions, hist>>

Entry(f, det) ==
  [id |-> f.id, origin |-> f.origin, data |-> f.data, det |-> det, redundant |-> FALSE,
   variable |-> FALSE]

\* the files of a directory in the order of their numbers: the k-th one has k - 1 before it
Before(f, files) == {g \in files : g.id < f.id}
InOrder(files) ==
  [k \in 1 .. Cardinality(files) |-> CHOOSE f \in files : Cardinality(Before(f, files)) = k - 1]

\* in the order of their names, without the empty ones
ReadFrom(dir) ==
  LET files == InOrder({f \in dir.files : f.data # Nothing}) IN
    [k \in DOMAIN files |-> Entry(files[k], Name(files[k]) \in dir.det)]

SeedEntries ==
  [k \in 1 .. Seeds |-> Entry([id |-> -1, origin |-> Seed(k), data |-> Seed(k)], FALSE)]

read_testcases ==
  /\ pc = "read"
  /\ LET entries == IF mem.in_place THEN ReadFrom(disk.resume) ELSE SeedEntries IN
       IF entries = << >> THEN Fail
       ELSE mem' = [mem EXCEPT !.queue = entries] /\ pc' = "pivot"
  /\ UNCHANGED <<disk, sessions, hist>>

\* passed_det does not carry over
SlipPivotInput ==
  /\ pc = "pivot" /\ mem.pivoted < Len(mem.queue)
  /\ LET q == mem.queue[mem.pivoted + 1]
         f == [id |-> mem.pivoted, origin |-> q.origin, data |-> q.data] IN
       /\ mem' = [mem EXCEPT !.queue[mem.pivoted + 1].id = mem.pivoted, !.pivoted = @ + 1]
       /\ disk' = [disk EXCEPT !.queue.files = @ \cup {f}]
  /\ UNCHANGED <<pc, sessions, hist>>

\* one entry of pivot_inputs
PivotInput ==
  /\ pc = "pivot" /\ mem.pivoted < Len(mem.queue)
  /\ LET q == mem.queue[mem.pivoted + 1]
         f == [id |-> mem.pivoted, origin |-> q.origin, data |-> q.data] IN
       /\ mem' = [mem EXCEPT !.queue[mem.pivoted + 1].id = mem.pivoted, !.pivoted = @ + 1]
       /\ disk' = [disk EXCEPT !.queue.files = @ \cup {f},
                               !.queue.det = IF q.det THEN @ \cup {Name(f)} ELSE @]
  /\ UNCHANGED <<pc, sessions, hist>>

\* when all are linked the old queue is deleted, its .state first
PivotDone ==
  /\ pc = "pivot" /\ mem.pivoted = Len(mem.queue)
  /\ disk' = IF mem.in_place
               THEN [disk EXCEPT !.resume = [NoQueue EXCEPT !.there = TRUE, !.files = disk.resume.files]]
               ELSE disk
  /\ pc' = IF mem.in_place THEN "nuke" ELSE "dry"
  /\ hist' = [hist EXCEPT !.known = @ \cup {mem.queue[k].origin : k \in DOMAIN mem.queue}]
  /\ UNCHANGED <<mem, sessions>>

\* one file after the other, in no certain order
NukeFile ==
  /\ pc = "nuke"
  /\ \E f \in disk.resume.files : disk' = [disk EXCEPT !.resume.files = @ \ {f}]
  /\ UNCHANGED <<pc, mem, sessions, hist>>

NukeDone ==
  /\ pc = "nuke" /\ disk.resume.files = {}
  /\ disk' = [disk EXCEPT !.resume = NoQueue]
  /\ pc' = "dry"
  /\ UNCHANGED <<mem, sessions, hist>>

\* perform_dry_run, which may refuse a seed
DryRun ==
  /\ pc = "dry"
  /\ \/ Fail /\ UNCHANGED disk
     \/ /\ disk' = [disk EXCEPT !.replay = {Name(mem.queue[k]) : k \in DOMAIN mem.queue}]
        /\ pc' = "fuzz" /\ UNCHANGED mem
  /\ UNCHANGED <<sessions, hist>>
=============================================================================
