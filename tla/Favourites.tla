----------------------------- MODULE Favourites -----------------------------
(***************************************************************************)
(* The favoured queue entries of afl-fuzz.c when states are selected by    *)
(* AFLNet's own algorithms: update_bitmap_score keeps for each byte of the *)
(* bitmap the entry that won it, cull_queue marks a set of winners that    *)
(* covers all bytes, and pending_favored counts those that wait to be      *)
(* fuzzed for the target state.                                            *)
(*                                                                         *)
(* The loops over the bitmap go byte by byte.  What a calibration run      *)
(* traces and how fast it is, the states a response reaches and the choice *)
(* of state and seed are inputs.                                           *)
(***************************************************************************)
EXTENDS Integers, Sequences, FiniteSets

CONSTANTS
  MapSize,       \* MAP_SIZE
  States,        \* response codes, 0 is the initial state
  Factors,       \* values of exec_us * len
  Seeds,         \* number of test cases in the input directory
  MaxEntries,    \* bound: entries of the queue
  Wrap           \* pending_favored is kept modulo this, 2^32 in the code

ASSUME MapAssumption == MapSize \in Nat \ {0}
ASSUME StatesAssumption == 0 \in States /\ States \subseteq Nat /\ IsFiniteSet(States)
ASSUME FactorsAssumption == Factors \subseteq Nat
ASSUME BoundsAssumption ==
  Seeds \in Nat \ {0} /\ MaxEntries \in Nat /\ Seeds <= MaxEntries /\ Wrap \in Nat \ {0, 1}

Bytes == 1..MapSize
None == 0                 \* the null pointer
NoTrace == {0}            \* trace_mini is the null pointer
Unreachable == 2          \* -1 in was_fuzzed_map

VARIABLES
  pc,
  queue,           \* the entries, numbered from 1
  top_rated,       \* the entry that won each byte, or None
  score_changed,
  pending_favored,
  was_fuzzed_map,  \* for each state, one cell for each entry
  target_state_id,
  queue_cur,
  \* locals
  q,               \* the entry in perform_dry_run, calibrate_case
  trace_bits,      \* the bytes that the run of q has set
  i,               \* the byte the loop is at
  temp_v,          \* the bytes cull_queue has not covered yet
  contenders       \* history: the entries that were scored for each byte
vars == <<pc, queue, top_rated, score_changed, pending_favored, was_fuzzed_map,
          target_state_id, queue_cur, q, trace_bits, i, temp_v, contenders>>
main == <<was_fuzzed_map, target_state_id, queue_cur>>
scores == <<top_rated, score_changed, contenders>>

(* A queue entry; factor is exec_us * len. *)
Entry == [generating_state_id : States, is_initial_seed : BOOLEAN,
          unique_state_count : Nat, factor : Nat, cal_failed : BOOLEAN,
          was_fuzzed : BOOLEAN, favored : BOOLEAN, fs_redundant : BOOLEAN,
          trace_mini : (SUBSET Bytes) \cup {NoTrace}, tc_ref : Nat]

(* add_to_queue *)
NewEntry(state) ==
  [generating_state_id |-> state, is_initial_seed |-> FALSE,
   unique_state_count |-> 0, factor |-> 0, cal_failed |-> FALSE,
   was_fuzzed |-> FALSE, favored |-> FALSE, fs_redundant |-> FALSE,
   trace_mini |-> NoTrace, tc_ref |-> 0]

Init ==
  /\ pc = "dry_run"
  /\ queue = [k \in 1..Seeds |-> NewEntry(0)]
  /\ top_rated = [b \in Bytes |-> None]
  /\ score_changed = FALSE
  /\ pending_favored = 0
  /\ was_fuzzed_map = [s \in States |-> [k \in 1..Seeds |-> Unreachable]]
  /\ target_state_id = 0
  /\ queue_cur = None
  /\ q = 1
  /\ trace_bits = {} /\ i = 1 /\ temp_v = {}
  /\ contenders = [b \in Bytes |-> {}]

-----------------------------------------------------------------------------
(* Calibration and scores *)

(* The end of calibrate_case: the entry failed, or its score is updated.    *)
Calibrated(entries, done) ==
  \/ /\ queue' = [entries EXCEPT ![q'].cal_failed = TRUE]
     /\ pc' = done
     /\ UNCHANGED <<trace_bits, i>>
  \/ \E f \in Factors, trace \in (SUBSET Bytes) \ {{}} :
       /\ queue' = [entries EXCEPT ![q'].factor = f]
       /\ trace_bits' = trace
       /\ i' = 1
       /\ pc' = "score"

(* perform_dry_run calibrates the next seed ...                             *)
DryRunCalibrate ==
  /\ pc = "dry_run" /\ q <= Seeds
  /\ q' = q
  /\ Calibrated([queue EXCEPT ![q].is_initial_seed = TRUE], "annotate")
  /\ UNCHANGED <<scores, main, pending_favored, temp_v>>

(* ... and then learns which states it reaches.                             *)
Reaches(n, seen, reached) ==
  /\ was_fuzzed_map' =
       [s \in States |->
          LET row == IF n \in DOMAIN was_fuzzed_map[s] THEN was_fuzzed_map[s]
                     ELSE Append(was_fuzzed_map[s], Unreachable)
          IN  IF s \in reached THEN [row EXCEPT ![n] = 0] ELSE row]
  /\ reached = {} <=> seen = {}
  /\ reached \subseteq seen
  /\ seen # {} => 0 \in reached

DryRunAnnotate ==
  /\ pc = "annotate"
  /\ \E seen, reached \in SUBSET States :
       /\ Reaches(q, seen, reached)
       /\ queue' = [queue EXCEPT ![q].unique_state_count = Cardinality(seen)]
  /\ q' = q + 1
  /\ pc' = "dry_run"
  /\ UNCHANGED <<scores, pending_favored, target_state_id, queue_cur,
                 trace_bits, i, temp_v>>

\* the entry is scored before its states are counted
SlipLoses(new, old) ==
  0 < old.unique_state_count

(* The tests of update_bitmap_score that leave the byte to its winner.  The *)
(* second one never decides, so the faster or smaller entry does not win,   *)
(* as the comments before the function and before that test have it.        *)
Loses(new, old) ==
  \/ new.unique_state_count < old.unique_state_count
  \/ new.unique_state_count < old.unique_state_count /\ new.factor > old.factor

SlipRelease(e) == [e EXCEPT !.tc_ref = @ - 1, !.trace_mini = NoTrace]

(* The previous winner of a byte loses a reference. *)
Release(e) ==
  [e EXCEPT !.tc_ref = @ - 1,
            !.trace_mini = IF e.tc_ref = 1 THEN NoTrace ELSE @]

SlipWin(e, trace) == [e EXCEPT !.tc_ref = @ + 1,
                      !.trace_mini = IF e.trace_mini = NoTrace THEN trace \ {1} ELSE @]

Win(e, trace) ==
  [e EXCEPT !.tc_ref = @ + 1,
            !.trace_mini = IF e.trace_mini = NoTrace THEN trace ELSE @]

Wins(b) ==
  /\ b \in trace_bits
  /\ top_rated[b] # None => ~Loses(queue[q], queue[top_rated[b]])

SlipChanges(old) == old = None

(* Every byte that is won changes the scores. *)
Changes(old) == TRUE

(* The entries after entry new took a byte from entry old. *)
Handed(old, new) ==
  LET freed == IF old = None THEN queue
               ELSE [queue EXCEPT ![old] = Release(queue[old])]
  IN  [freed EXCEPT ![new] = Win(freed[new], trace_bits)]

(* One byte of update_bitmap_score. *)
ScoreByte ==
  /\ pc = "score" /\ i <= MapSize
  /\ i' = i + 1
  /\ IF Wins(i)
     THEN /\ queue' = Handed(top_rated[i], q)
          /\ top_rated' = [top_rated EXCEPT ![i] = q]
          /\ score_changed' = (score_changed \/ Changes(top_rated[i]))
     ELSE UNCHANGED <<queue, top_rated, score_changed>>
  /\ contenders' = IF i \in trace_bits THEN [contenders EXCEPT ![i] = @ \cup {q}] ELSE contenders
  /\ UNCHANGED <<pc, main, pending_favored, q, trace_bits, temp_v>>

ScoreEnd ==
  /\ pc = "score" /\ i > MapSize
  /\ pc' = IF queue[q].is_initial_seed THEN "annotate" ELSE "fuzz"
  /\ trace_bits' = {} /\ i' = 1
  /\ UNCHANGED <<queue, scores, main, pending_favored, q, temp_v>>

-----------------------------------------------------------------------------
(* Culling *)

(* The main loop chooses a target state and calls cull_queue, as does main  *)
(* at the end of the dry run.                                               *)
CullStart ==
  /\ \/ /\ pc = "dry_run" /\ q > Seeds
        /\ UNCHANGED target_state_id
     \/ /\ pc = "loop"
        /\ target_state_id' \in States
  /\ score_changed' = FALSE
  /\ IF score_changed
     THEN /\ queue' = [k \in DOMAIN queue |->
                         IF queue[k].is_initial_seed THEN queue[k]
                         ELSE [queue[k] EXCEPT !.favored = FALSE]]
          /\ pending_favored' = 0
          /\ temp_v' = Bytes
          /\ i' = 1
          /\ pc' = "cull"
     ELSE /\ pc' = "select"
          /\ UNCHANGED <<queue, pending_favored, temp_v, i>>
  /\ UNCHANGED <<top_rated, contenders, was_fuzzed_map, queue_cur, q, trace_bits>>

(* An entry that pending_favored counts for the target state. *)
Pending(k) ==
  /\ queue[k].generating_state_id = target_state_id \/ queue[k].is_initial_seed
  /\ was_fuzzed_map[target_state_id][k] = 0

CullByte ==
  /\ pc = "cull" /\ i <= MapSize
  /\ i' = i + 1
  /\ IF top_rated[i] # None /\ i \in temp_v
     THEN LET k == top_rated[i]
          IN  /\ temp_v' = temp_v \ queue[k].trace_mini
              /\ queue' = [queue EXCEPT ![k].favored = TRUE]
              /\ pending_favored' = IF Pending(k) THEN (pending_favored + 1) % Wrap
                                    ELSE pending_favored
     ELSE UNCHANGED <<temp_v, queue, pending_favored>>
  /\ UNCHANGED <<pc, scores, main, q, trace_bits>>

(* mark_as_redundant for all entries *)
CullEnd ==
  /\ pc = "cull" /\ i > MapSize
  /\ queue' = [k \in DOMAIN queue |->
                 [queue[k] EXCEPT !.fs_redundant = ~queue[k].favored]]
  /\ pc' = "select"
  /\ temp_v' = {} /\ i' = 1
  /\ UNCHANGED <<scores, main, pending_favored, q, trace_bits>>

-----------------------------------------------------------------------------
(* Fuzzing *)

Reachable(s) == {k \in DOMAIN queue : was_fuzzed_map[s][k] # Unreachable}

(* choose_seed returns one of the seeds that reach the target state, if     *)
(* there are any; fuzz_one may return before it starts to fuzz.             *)
Select ==
  /\ pc = "select"
  /\ \/ queue_cur' \in Reachable(target_state_id) /\ pc' \in {"fuzz", "loop"}
     \/ Reachable(target_state_id) = {} /\ pc' = "loop" /\ UNCHANGED queue_cur
  /\ UNCHANGED <<queue, scores, pending_favored, was_fuzzed_map,
                 target_state_id, q, trace_bits, i, temp_v>>

(* save_if_interesting: the states of the new entry are known before it is  *)
(* calibrated.                                                              *)
Save ==
  /\ pc = "fuzz" /\ Len(queue) < MaxEntries
  /\ q' = Len(queue) + 1
  /\ \E seen, reached \in SUBSET States :
       /\ Reaches(q', seen, reached)
       /\ LET e == [NewEntry(target_state_id) EXCEPT
                      !.unique_state_count = Cardinality(seen)]
          IN  Calibrated(Append(queue, e), "fuzz")
  /\ UNCHANGED <<scores, pending_favored, target_state_id, queue_cur, temp_v>>

SlipDecremented(n) == n - 1

Decremented(n) == (n + (Wrap - 1)) % Wrap

(* abandon_entry leaves the counters alone when this holds. *)
Done(e) == e.cal_failed \/ e.was_fuzzed

Abandon ==
  /\ pc = "fuzz"
  /\ IF Done(queue[queue_cur])
     THEN UNCHANGED <<queue, was_fuzzed_map, pending_favored>>
     ELSE /\ queue' = [queue EXCEPT ![queue_cur].was_fuzzed = TRUE]
          /\ was_fuzzed_map' =
               [was_fuzzed_map EXCEPT ![target_state_id][queue_cur] = 1]
          /\ pending_favored' = IF queue[queue_cur].favored
                                THEN Decremented(pending_favored)
                                ELSE pending_favored
  /\ pc' = "loop"
  /\ UNCHANGED <<scores, target_state_id, queue_cur, q, trace_bits, i, temp_v>>

Next ==
  \/ DryRunCalibrate \/ DryRunAnnotate \/ ScoreByte \/ ScoreEnd
  \/ CullStart \/ CullByte \/ CullEnd
  \/ Select \/ Save \/ Abandon

Spec == Init /\ [][Next]_vars

-----------------------------------------------------------------------------
(* Properties *)

Entries == DOMAIN queue

TypeOK ==
  /\ pc \in {"dry_run", "annotate", "score", "loop", "cull", "select", "fuzz"}
  /\ queue \in Seq(Entry)
  /\ top_rated \in [Bytes -> Entries \cup {None}]
  /\ score_changed \in BOOLEAN
  /\ pending_favored \in 0..(Wrap - 1)
  /\ was_fuzzed_map \in [States -> [Entries -> {0, 1, Unreachable}]]
  /\ target_state_id \in States
  /\ queue_cur \in Entries \cup {None}
  /\ q \in Nat
  /\ trace_bits \subseteq Bytes /\ temp_v \subseteq Bytes
  /\ i \in 1..(MapSize + 1)
  /\ contenders \in [Bytes -> SUBSET Entries]

WonBy(k) == {b \in Bytes : top_rated[b] = k}

(* tc_ref counts the bytes an entry has won, and trace_mini is kept exactly *)
(* while there are some: cull_queue never reads it through NULL and it is   *)
(* not leaked.                                                              *)
RefCounts ==
  \A k \in Entries :
    /\ queue[k].tc_ref = Cardinality(WonBy(k))
    /\ queue[k].trace_mini = NoTrace <=> WonBy(k) = {}

(* The trace that is kept has the bytes its entry has won, so that every    *)
(* step of cull_queue covers at least its own byte.                         *)
WonBytesTraced ==
  \A k \in Entries : WonBy(k) \subseteq queue[k].trace_mini

Culled == pc \in {"loop", "select", "fuzz"} /\ ~score_changed

(* Until scores change, the favoured entries together cover every byte that *)
(* some entry has won, and an entry that is not a seed is favoured for a    *)
(* byte it has won.                                                         *)
FavouredCover ==
  Culled =>
    /\ \A b \in Bytes : top_rated[b] # None =>
         \E k \in Entries : queue[k].favored /\ b \in queue[k].trace_mini
    /\ \A k \in Entries :
         queue[k].favored /\ ~queue[k].is_initial_seed => WonBy(k) # {}

(* The winner of a byte goes through the most states of all entries that    *)
(* were ever scored for it, so an entry that was saved never lost a byte to *)
(* one with fewer states, whatever was known when it was scored.  A seed is *)
(* scored in the dry run before its own states are counted, and can lose to *)
(* a seed with fewer, but not to one with none (afl-fuzz.c:2216-2224, 3690, *)
(* 4138, 4158).                                                            *)
MostStatesWin ==
  \A b \in Bytes : \A k \in contenders[b] :
    /\ top_rated[b] # None
    /\ LET most == queue[top_rated[b]].unique_state_count
       IN  \/ queue[k].unique_state_count <= most
           \/ queue[k].is_initial_seed /\ most > 0
=============================================================================
