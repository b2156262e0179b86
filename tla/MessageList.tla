---------------------------- MODULE MessageList ----------------------------
(***************************************************************************)
(* kl_messages while fuzz_one works on one seed: the list is built from    *)
(* the regions of the seed, common_fuzz_stuff replaces the cells of M2 by  *)
(* the messages of each mutated buffer, save_if_interesting turns the      *)
(* list back into a queue entry, and the list is freed at the end.         *)
(*                                                                         *)
(* The bytes of files and messages are tokens, one for each region that    *)
(* extract_requests finds in a mutated buffer; extract_requests cuts the   *)
(* buffer into consecutive regions.                                        *)
(***************************************************************************)
EXTENDS LinkedList, Orders

CONSTANTS
  InitialQueue,    \* the entries of the input directory
  MaxRegions,      \* bound: regions of a mutated buffer
  MaxMutations,    \* bound: calls of common_fuzz_stuff
  MaxQueue         \* bound: queue entries

(* A queue entry: its file and the first and last position of each region. *)
Entry == [file : Seq(Nat), regions : Seq([start : Nat, end : Nat])]

Size(r) == (r.end - r.start) + 1

RegionCount(e) == Len(e.regions)

(* The file offset that construct_kl_messages has reached after k regions.  *)
Offset(e) ==
  LET offset[k \in 0..RegionCount(e)] ==
        IF k = 0 THEN 0 ELSE offset[k - 1] + Size(e.regions[k])
  IN  offset

(* The regions of an entry do not claim more bytes than its file has;       *)
(* extract_requests cuts the file into them.                                *)
RegionsFit(e) ==
  /\ \A k \in DOMAIN e.regions : Size(e.regions[k]) \in Nat
  /\ Offset(e)[RegionCount(e)] <= Len(e.file)

ASSUME InitialQueueAssumption ==
  /\ InitialQueue # <<>> /\ InitialQueue \in Seq(Entry)
  /\ \A k \in DOMAIN InitialQueue :
       InitialQueue[k].regions # <<>> /\ RegionsFit(InitialQueue[k])
ASSUME ListBoundsAssumption ==
  /\ MaxRegions \in Nat \ {0} /\ MaxMutations \in Nat /\ MaxQueue \in Nat

VARIABLES
  stage,     \* where fuzz_one and its callees are
  queue,     \* the queue entries, in order
  kl,        \* kl_messages
  M2_prev,   \* the last cell of M1, or Null
  M2_next,   \* the first cell of M3, or the tail
  out,       \* the regions of out_buf
  todo,      \* the messages of out_buf that are not pushed yet
  last,      \* prev_last_message
  it,        \* cur_it of the loop that frees the old M2
  mutations  \* calls of common_fuzz_stuff so far
list_vars == <<stage, queue, kl, M2_prev, M2_next, out, todo, last, it, mutations>>

-----------------------------------------------------------------------------
(* Regions and messages *)

(* max_seed_region_count, over the entries read at startup. *)
max_seed_region_count ==
  Max({RegionCount(InitialQueue[k]) : k \in DOMAIN InitialQueue})

(* construct_kl_messages: the messages have the sizes of the regions, and   *)
(* are read from the file one after the other.                              *)
construct_kl_messages(e) ==
  [k \in 1..RegionCount(e) |-> SubSeq(e.file, Offset(e)[k - 1] + 1, Offset(e)[k])]

(* convert_kl_messages_to_regions *)
convert_kl_messages_to_regions(ms) ==
  LET end[k \in 0..Len(ms)] == IF k = 0 THEN 0 ELSE end[k - 1] + Len(ms[k])
  IN  [k \in DOMAIN ms |-> [start |-> end[k - 1] + 1, end |-> end[k]]]

(* save_kl_messages_to_file and add_to_queue of the messages that were sent *)
NewEntry(sent) ==
  LET ms == SubSeq(Messages(kl), 1, sent)
  IN  [file |-> FlattenSeq(ms), regions |-> convert_kl_messages_to_regions(ms)]

(* remove_null_regions: the regions without a response are dropped, the     *)
(* file stays (preprocess_queue_entry, with MCTS).                          *)
without_null_regions(e, null) ==
  [e EXCEPT !.regions = At((DOMAIN @) \ null, @)]

SlipMessagesOf(regions) ==
  LET n == max_seed_region_count
  IN  IF Len(regions) <= n THEN regions ELSE SubSeq(regions, 1, n)

(* The messages of a mutated buffer with these regions: from the region     *)
(* with index max_seed_region_count on they are sent as one.                *)
MessagesOf(regions) ==
  LET n == max_seed_region_count
  IN  IF Len(regions) <= n THEN regions
      ELSE Append(SubSeq(regions, 1, n),
                  FlattenSeq(SubSeq(regions, n + 1, Len(regions))))

-----------------------------------------------------------------------------
ListInit ==
  /\ stage = "idle"
  /\ queue = InitialQueue
  /\ kl = EmptyList
  /\ M2_prev = Null /\ M2_next = Null
  /\ out = <<>> /\ todo = <<>>
  /\ last = Null /\ it = Null
  /\ mutations = 0

SlipBoundary(l, start, count) ==
  LET c == Linked(l)
  IN  [prev |-> IF start = 0 THEN Null ELSE c[start],
       next |-> IF start + count < Len(c) THEN c[start + count] ELSE l.tail]

(* M2 starts after the first start messages and has count of them. *)
Boundary(l, start, count) ==
  LET c == Linked(l)
  IN  [prev |-> IF start = 0 THEN Null ELSE c[start],
       next |-> IF start + count < Len(c) THEN c[start + count + 1] ELSE l.tail]

(* fuzz_one builds the list of the selected seed and finds M2 in it.  Every *)
(* selection returns an M2 that has at least one region of the seed.        *)
FuzzOne ==
  /\ stage = "idle"
  /\ \E e \in ToSet(queue) :
     /\ RegionCount(e) > 0
     /\ \E start \in 0..(RegionCount(e) - 1) :
        \E count \in 1..(RegionCount(e) - start) :
          LET l == PushAll(EmptyList, construct_kl_messages(e))
              b == Boundary(l, start, count)
          IN  kl' = l /\ M2_prev' = b.prev /\ M2_next' = b.next
  /\ stage' = "ready"
  /\ UNCHANGED <<queue, out, todo, last, it, mutations>>

(* common_fuzz_stuff gets a mutated buffer and cuts it into messages.       *)
BeginSplice ==
  /\ stage = "ready" /\ mutations < MaxMutations
  /\ mutations' = mutations + 1
  /\ \E r \in 1..MaxRegions :
       out' = [k \in 1..r |-> <<10 * (mutations + 1) + k>>]
  /\ todo' = MessagesOf(out')
  /\ last' = LastMessage(kl)
  /\ stage' = "push"
  /\ UNCHANGED <<queue, kl, M2_prev, M2_next, it>>

(* The tail moves with each push: M2_next follows it when M3 is empty.      *)
FollowTail(l, c) == IF l.next[c] = l.tail THEN l.tail ELSE c

PushMessage ==
  /\ stage = "push" /\ todo # <<>>
  /\ kl' = Push(kl, Head(todo))
  /\ todo' = Tail(todo)
  /\ M2_next' = FollowTail(kl', M2_next)
  /\ UNCHANGED <<stage, queue, M2_prev, out, last, it, mutations>>

SlipRelinked(l, prev, next, lastOld) ==
  LET first == l.next[lastOld]
      a == IF prev = Null THEN [l EXCEPT !.head = first]
                          ELSE [l EXCEPT !.next[prev] = first]
  IN  [a EXCEPT !.next[LastMessage(l)] = next]

(* The pushed cells move between M1 and M3, M3 ends the list.               *)
Relinked(l, prev, next, lastOld) ==
  LET first == l.next[lastOld]
      a == IF prev = Null THEN [l EXCEPT !.head = first]
                          ELSE [l EXCEPT !.next[prev] = first]
      b == [a EXCEPT !.next[LastMessage(l)] = next]
  IN  [b EXCEPT !.next[lastOld] = l.tail]

Relink ==
  /\ stage = "push" /\ todo = <<>>
  /\ kl' = Relinked(kl, M2_prev, M2_next, last)
  /\ it' = IF M2_prev = Null THEN kl.head ELSE kl.next[M2_prev]
  /\ stage' = "free"
  /\ UNCHANGED <<queue, M2_prev, M2_next, out, todo, last, mutations>>

(* One round of the loop that frees the old M2; its test comes last.        *)
FreeOld ==
  /\ stage = "free" /\ it # Null
  /\ kl' = [Free(kl, it) EXCEPT !.size = @ - 1]
  /\ it' = kl.next[it]
  /\ stage' = IF it' = M2_next THEN "run" ELSE "free"
  /\ UNCHANGED <<queue, M2_prev, M2_next, out, todo, last, mutations>>

(* run_target and save_if_interesting: the messages sent become an entry,   *)
(* or nothing is kept.                                                      *)
RunAndSave ==
  /\ stage = "run"
  /\ \/ UNCHANGED queue
     \/ /\ Len(queue) < MaxQueue
        /\ \E sent \in 1..kl.size :
           \E null \in SUBSET (1..sent) :
             /\ null # 1..sent
             /\ queue' = Append(queue, without_null_regions(NewEntry(sent), null))
  /\ stage' = "ready"
  /\ UNCHANGED <<kl, M2_prev, M2_next, out, todo, last, it, mutations>>

(* abandon_entry: delete_kl_messages shifts until the list is empty.        *)
Abandon ==
  /\ stage = "ready" /\ stage' = "delete"
  /\ UNCHANGED <<queue, kl, M2_prev, M2_next, out, todo, last, it, mutations>>

DeleteMessage ==
  /\ stage = "delete" /\ kl.next[kl.head] # Null
  /\ kl' = Shift(kl)
  /\ UNCHANGED <<stage, queue, M2_prev, M2_next, out, todo, last, it, mutations>>

(* kl_destroy *)
Destroy ==
  /\ stage = "delete" /\ kl.next[kl.head] = Null
  /\ kl' = EmptyList
  /\ stage' = "idle"
  /\ M2_prev' = Null /\ M2_next' = Null /\ last' = Null /\ it' = Null
  /\ out' = <<>>
  /\ UNCHANGED <<queue, todo, mutations>>

ListNext ==
  \/ FuzzOne \/ BeginSplice \/ PushMessage \/ Relink \/ FreeOld
  \/ RunAndSave \/ Abandon \/ DeleteMessage \/ Destroy

ListSpec == ListInit /\ [][ListNext]_list_vars

-----------------------------------------------------------------------------
(* Properties *)

Loaded == stage \in {"ready", "push", "free", "run"}

FirstOfM2 == IF M2_prev = Null THEN kl.head ELSE kl.next[M2_prev]

(* The cells of the three parts; while the new messages are pushed behind   *)
(* M3 the parts still are the old ones.                                     *)
M1Cells == IF M2_prev = Null THEN <<>>
           ELSE Append(Between(kl, kl.head, M2_prev), M2_prev)
M2Cells == IF stage = "push" /\ M2_next = kl.tail
           THEN Append(Between(kl, FirstOfM2, last), last)
           ELSE Between(kl, FirstOfM2, M2_next)
M3Cells == CASE stage = "push" /\ M2_next = kl.tail -> <<>>
             [] stage = "push" /\ M2_next # kl.tail ->
                  Append(Between(kl, M2_next, last), last)
             [] OTHER -> Between(kl, M2_next, kl.tail)

(* The cells detached from the list that are still to be freed.             *)
Detached == IF stage = "free" THEN Between(kl, it, M2_next) ELSE <<>>

ListTypeOK ==
  /\ stage \in {"idle", "ready", "push", "free", "run", "delete"}
  /\ queue \in Seq(Entry)
  /\ DOMAIN kl.next = DOMAIN kl.data
  /\ \A c \in Cells(kl) : kl.next[c] \in Cells(kl) \cup {Null}
  /\ kl.head \in Cells(kl) /\ kl.tail \in Cells(kl) /\ kl.size \in Nat
  /\ kl.pool \in Seq(Cells(kl))
  /\ {M2_prev, M2_next, last, it} \subseteq Cells(kl) \cup {Null}
  /\ out \in Seq(Seq(Nat)) /\ todo \in Seq(Seq(Nat))
  /\ mutations \in 0..MaxMutations

(* Every cell is in the list, detached and waiting to be freed, or in the   *)
(* pool, exactly once: nothing is leaked, freed twice or used after it was  *)
(* freed, whatever the splices of common_fuzz_stuff and delete_kl_messages  *)
(* did before.                                                              *)
CellsAccountedFor ==
  LET all == Linked(kl) \o <<kl.tail>> \o Detached \o kl.pool
  IN  IsInjective(all) /\ ToSet(all) = Cells(kl)

(* The list ends at its tail, its size is the number of messages in it and  *)
(* of those still to be freed, and both boundaries of M2 are in the list.   *)
ListIsSound ==
  /\ kl.next[kl.tail] = Null
  /\ Linked(kl) # <<>> => kl.next[Last(Linked(kl))] = kl.tail
  /\ kl.size = Len(Linked(kl)) + Len(Detached)
  /\ Loaded => /\ M2_next \in ToSet(Linked(kl)) \cup {kl.tail}
               /\ M2_prev \in ToSet(Linked(kl)) \cup {Null}

(* The cells and the list through every splice of common_fuzz_stuff: none   *)
(* is lost or used after it was freed, and the list can be walked.          *)
ListHolds == ListTypeOK /\ CellsAccountedFor /\ ListIsSound

(* When the target is run, M2 is the mutated buffer to the last byte, in    *)
(* order, also where regions were joined to one message.                    *)
BufferIsSent ==
  stage = "run" => FlattenSeq(Data(kl, M2Cells)) = FlattenSeq(out)

(* The heap of cells with its splices is a sequence in three parts of which *)
(* only the middle one is ever replaced, and what is loaded of a saved      *)
(* entry is what was sent from the first byte on (not always in the same    *)
(* messages: construct_kl_messages, aflnet.c:1132, takes the sizes of the   *)
(* regions that are left, and the file from its start).                     *)
ThreeParts == INSTANCE MessageSeq WITH
  MaxM2  <- max_seed_region_count + 1,
  corpus <- [k \in DOMAIN queue |-> construct_kl_messages(queue[k])],
  parts  <- IF Loaded
            THEN << Data(kl, M1Cells), Data(kl, M2Cells), Data(kl, M3Cells) >>
            ELSE <<>>

ImplementsMessageSeq == ThreeParts!Spec
=============================================================================
