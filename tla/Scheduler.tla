----------------------------- MODULE Scheduler -----------------------------
(* State-aware fuzzing without MCTS (afl-fuzz.c): the state machine learned *)
(* from responses, the tables of states and their seeds, and the choice of  *)
(* a target state, a seed and the region M2 to mutate.                      *)
(*                                                                          *)
(* A response is what one execution leaves behind: the state sequence       *)
(* "codes" of the whole response (empty when nothing was received), and for *)
(* every region of the entry the length of the state sequence extracted     *)
(* from the response up to that region, 0 when the region brought nothing   *)
(* new.  The extractors read from left to right, so that sequence is a      *)
(* prefix of codes.  Queue entries are numbered in queue order.             *)
EXTENDS Integers, Sequences, FiniteSets, SequencesExt

CONSTANTS
  States,       \* state ids, 0 is the initial state
  Responses,    \* responses of the server
  Seeds,        \* entries read from the input directory
  MaxQueue,     \* bound: entries of the queue
  Algos,        \* values of state_selection_algo and seed_selection_algo
  WarmUp,       \* 5: cycles of round robin before FAVOR looks at scores
  FewSeeds      \* 10: up to that many seeds FAVOR takes them in turn

Random == "RANDOM_SELECTION"
RoundRobin == "ROUND_ROBIN"
Favor == "FAVOR"

Unreachable == -1
NoEntry == 0

(* update_region_annotations: response_bytes never decreases, and the last  *)
(* region with an answer has seen all of the response (Session).            *)
WellFormed(r) ==
  /\ r.codes \in Seq(States) /\ r.counts \in Seq(Nat)
  /\ r.codes = <<>> => \A k \in DOMAIN r.counts : r.counts[k] = 0
  /\ r.codes # <<>> =>
       /\ r.codes[1] = 0
       /\ \A k \in DOMAIN r.counts : r.counts[k] <= Len(r.codes)
       /\ \A k, l \in DOMAIN r.counts :
            k < l /\ r.counts[l] > 0 => r.counts[k] <= r.counts[l]
       /\ \E k \in DOMAIN r.counts : r.counts[k] = Len(r.codes)

ASSUME StatesAssumption == 0 \in States /\ States \subseteq Nat
ASSUME ResponsesAssumption == \A r \in Responses : WellFormed(r)
ASSUME BoundsAssumption ==
  /\ Seeds \in Nat \ {0} /\ MaxQueue \in Nat /\ WarmUp \in Nat /\ FewSeeds \in Nat
  /\ Seeds <= MaxQueue
ASSUME AlgosAssumption ==
  Algos \subseteq {Random, RoundRobin, Favor} \X {Random, RoundRobin, Favor}

VARIABLES
  pc,
  queue,                 \* codes, counts and was_fuzzed of every entry
  ipsm,                  \* the edges of the graph; its nodes are state_ids
  khs_ipsm_paths,        \* the shortened state sequences seen
  khms_states,           \* state id -> state_info_t
  state_ids,
  was_fuzzed_map,        \* rows as in state_ids (0 first), columns as in queue
  selected_state_index, state_cycles, target_state_id,
  q,                     \* the entry whose response is processed
  i,                     \* index of the loop over its codes or its regions
  selected_seed,         \* of one turn of the main loop; queue_cur follows it
  M2,                    \* M2_start_region_ID and M2_region_count
  state_selection_algo, seed_selection_algo

learned == <<ipsm, khs_ipsm_paths>>
tables == <<khms_states, state_ids, was_fuzzed_map>>
choice == <<selected_state_index, state_cycles, target_state_id, selected_seed, M2>>
options == <<state_selection_algo, seed_selection_algo>>
vars == <<pc, queue, learned, tables, choice, q, i, options>>

-----------------------------------------------------------------------------
(* Operators *)

NoM2 == [start |-> 0, count |-> 0]

EntryOf(r) == [codes |-> r.codes, counts |-> r.counts, was_fuzzed |-> FALSE]

(* state_info_t, as far as selection reads it.                              *)
NewState == [seeds |-> <<>>, selected_seed_index |-> 0, paths |-> 0,
             paths_discovered |-> 0]

SlipTrimmed(codes) ==
  FoldLeftDomain(LAMBDA kept, k :
                   IF k >= 2 /\ codes[k] = codes[k - 1] THEN kept
                   ELSE Append(kept, codes[k]), <<>>, codes)

(* is_state_sequence_interesting shortens a loop of one state to two        *)
(* visits.                                                                  *)
Trimmed(codes) ==
  FoldLeftDomain(LAMBDA kept, k :
                   IF k >= 3 /\ codes[k] = codes[k - 1] /\ codes[k] = codes[k - 2]
                   THEN kept ELSE Append(kept, codes[k]), <<>>, codes)

Known == DOMAIN khms_states

(* get_state_index: the number of states when there is none.                *)
StateIndex(ids, s) ==
  IF s \in Range(ids)
  THEN CHOOSE k \in DOMAIN ids : ids[k] = s /\ \A l \in 1..(k - 1) : ids[l] # s
  ELSE Len(ids) + 1

(* The state sequence of region k ends in this state.                       *)
Reached(e, k) == e.codes[e.counts[k]]

(* ck_realloc and the last element.                                         *)
WithSeed(state, k) == [state EXCEPT !.seeds = Append(@, k)]

(* expand_was_fuzzed_map(1, 0), not for state 0: it has had a row since the *)
(* first entry.                                                             *)
NewRow(map, s) ==
  IF s = 0 THEN map ELSE Append(map, [k \in DOMAIN map[1] |-> Unreachable])

(* Insert a state into khms_states (an entry with this key is replaced),    *)
(* state_ids and the map.  t is a record of the three tables.               *)
Insert(t, s, state) ==
  [states |-> [x \in (DOMAIN t.states) \cup {s} |->
                 IF x = s THEN state ELSE t.states[x]],
   ids |-> Append(t.ids, s),
   map |-> NewRow(t.map, s)]

(* agnode: the nodes of the graph are the ends of its edges.                *)
Nodes == {edge[1] : edge \in ipsm} \cup {edge[2] : edge \in ipsm}

Tables == [states |-> khms_states, ids |-> state_ids, map |-> was_fuzzed_map]

(* Both ends of a transition; a loop inserts its state once.                *)
InsertEnds(t, from, to) ==
  LET u == IF from \in Nodes THEN t ELSE Insert(t, from, NewState)
  IN  IF to \in Nodes \cup {from} THEN u ELSE Insert(u, to, NewState)

SetTables(t) ==
  khms_states' = t.states /\ state_ids' = t.ids /\ was_fuzzed_map' = t.map

-----------------------------------------------------------------------------
(* Learning *)

(* The input directory is read, nothing has run.                            *)
Init ==
  /\ pc = "dry_run"
  /\ queue = [k \in 1..Seeds |-> EntryOf([codes |-> <<>>, counts |-> <<0>>])]
  /\ ipsm = {} /\ khs_ipsm_paths = {}
  /\ khms_states = <<>> /\ state_ids = <<>>
  /\ was_fuzzed_map = <<[k \in 1..Seeds |-> Unreachable]>>
  /\ selected_state_index = 0 /\ state_cycles = 0 /\ target_state_id = 0
  /\ q = 1 /\ i = 0
  /\ selected_seed = NoEntry /\ M2 = NoM2
  /\ \E a \in Algos : state_selection_algo = a[1] /\ seed_selection_algo = a[2]

DryRunning == q <= Seeds

(* update_state_aware_variables is over for entry k: the next seed, the     *)
(* main loop, or back to the mutations of fuzz_one or to sync_fuzzers.      *)
Return(k) ==
  /\ i' = 0
  /\ q' = IF k < Seeds THEN k + 1 ELSE k
  /\ pc' = CASE k < Seeds -> "dry_run"
             [] k = Seeds -> "choose"
             [] OTHER -> IF M2 = NoM2 THEN "sync" ELSE "mutate"

(* The response to entry k arrives: update_state_aware_variables up to the  *)
(* loop over the transitions of an interesting sequence.                    *)
Observe(k, r) ==
  \/ /\ r.codes = <<>>
     /\ Return(k)
     /\ UNCHANGED learned
  \/ /\ r.codes # <<>> /\ Trimmed(r.codes) \in khs_ipsm_paths
     /\ q' = k /\ i' = 0 /\ pc' = "annotate"
     /\ UNCHANGED learned
  \/ /\ r.codes # <<>> /\ Trimmed(r.codes) \notin khs_ipsm_paths
     /\ khs_ipsm_paths' = khs_ipsm_paths \cup {Trimmed(r.codes)}
     /\ q' = k
     /\ IF Len(r.codes) > 1 THEN i' = 2 /\ pc' = "learn"
                            ELSE i' = 0 /\ pc' = "annotate"
     /\ UNCHANGED ipsm

(* perform_dry_run: a seed is executed.                                     *)
DryRun ==
  /\ pc = "dry_run"
  /\ \E r \in Responses :
       /\ r.counts # <<>>
       /\ queue' = [queue EXCEPT ![q] = EntryOf(r)]
       /\ Observe(q, r)
  /\ UNCHANGED <<tables, choice, options>>

(* add_to_queue from save_if_interesting, in fuzz_one or sync_fuzzers.      *)
Save ==
  /\ pc \in {"mutate", "sync"} /\ Len(queue) < MaxQueue
  /\ \E r \in Responses :
       /\ queue' = Append(queue, EntryOf(r))
       /\ Observe(Len(queue) + 1, r)
  /\ was_fuzzed_map' = [k \in DOMAIN was_fuzzed_map |->
                          Append(was_fuzzed_map[k], Unreachable)]
  /\ UNCHANGED <<khms_states, state_ids, choice, options>>

(* One transition of the sequence: nodes and edge are added to the graph.   *)
Learn ==
  /\ pc = "learn"
  /\ LET codes == queue[q].codes
     IN  /\ SetTables(InsertEnds(Tables, codes[i - 1], codes[i]))
         /\ ipsm' = ipsm \cup {<<codes[i - 1], codes[i]>>}
         /\ IF i < Len(codes) THEN i' = i + 1 /\ pc' = "learn"
                              ELSE i' = 0 /\ pc' = "annotate"
  /\ UNCHANGED <<queue, khs_ipsm_paths, choice, q, options>>

(* Every entry reaches the initial state.                                   *)
Annotate ==
  /\ pc = "annotate"
  /\ IF 0 \in Known
     THEN /\ khms_states' = [khms_states EXCEPT ![0] = WithSeed(@, q)]
          /\ was_fuzzed_map' = [was_fuzzed_map EXCEPT ![1][q] = 0]
          /\ i' = 1 /\ pc' = "reach"
     ELSE /\ pc' = "aborted"
          /\ UNCHANGED <<khms_states, was_fuzzed_map, i>>
  /\ UNCHANGED <<queue, learned, state_ids, choice, q, options>>

(* One region: its entry is a seed of the state it ends in, which is added  *)
(* when it is not known.                                                    *)
Reach ==
  /\ pc = "reach" /\ i <= Len(queue[q].counts)
  /\ IF queue[q].counts[i] = 0
     THEN UNCHANGED tables
     ELSE LET s == Reached(queue[q], i)
              t == IF s \in Known
                   THEN [Tables EXCEPT !.states[s] = WithSeed(@, q)]
                   ELSE Insert(Tables, s, WithSeed(NewState, q))
          IN  SetTables([t EXCEPT !.map[StateIndex(t.ids, s)][q] = 0])
  /\ i' = i + 1
  /\ UNCHANGED <<pc, queue, learned, choice, q, options>>

(* A path counts once for every state on it, and a new one for the target.  *)
Credited(s, state, codes) ==
  [state EXCEPT !.paths = IF s \in Range(codes) THEN @ + 1 ELSE @,
                !.paths_discovered = IF ~DryRunning /\ s = target_state_id
                                     THEN @ + 1 ELSE @]

Credit ==
  /\ pc = "reach" /\ i > Len(queue[q].counts)
  /\ khms_states' = [s \in Known |-> Credited(s, khms_states[s], queue[q].codes)]
  /\ Return(q)
  /\ UNCHANGED <<queue, learned, state_ids, was_fuzzed_map, choice, options>>

-----------------------------------------------------------------------------
(* Choosing *)

SlipStay(index, n) == IF index + 1 = n THEN index ELSE index + 1

SlipShort(index, n) == IF index + 2 >= n THEN 0 ELSE index + 1

(* The next index of a round, in 0..(n-1).                                  *)
Advance(index, n) == IF index + 1 = n THEN 0 ELSE index + 1

WarmingUp == state_selection_algo = Favor /\ state_cycles < WarmUp
(* choose_target_state.  After the warm-up FAVOR takes a state by score and *)
(* chance.                                                                  *)
TakesTurns == state_selection_algo = RoundRobin \/ WarmingUp

ChooseState ==
  /\ pc = "choose" /\ state_ids # <<>>
  /\ \/ /\ TakesTurns
        /\ target_state_id' = state_ids[selected_state_index + 1]
        /\ selected_state_index' = Advance(selected_state_index, Len(state_ids))
        /\ state_cycles' = IF WarmingUp /\ selected_state_index' = 0
                           THEN state_cycles + 1 ELSE state_cycles
     \/ /\ ~TakesTurns
        /\ \E k \in DOMAIN state_ids :
             /\ target_state_id' = state_ids[k]
             /\ selected_state_index' = IF state_selection_algo = Random
                                        THEN k - 1 ELSE selected_state_index
        /\ UNCHANGED state_cycles
  /\ pc' = "seed"
  /\ UNCHANGED <<queue, learned, tables, selected_seed, M2, q, i, options>>

(* No response was seen in the dry run: state_ids is NULL, UR(0) divides by *)
(* zero.                                                                    *)
NoStates ==
  /\ pc = "choose" /\ state_ids = <<>>
  /\ pc' = "crashed"
  /\ UNCHANGED <<queue, learned, tables, choice, q, i, options>>

(* choose_seed: indices of the seeds list that can be the result.  FAVOR    *)
(* takes turns with few seeds, and else skips by favour and chance (at most *)
(* five rounds).                                                            *)
SeedTurns(state) ==
  \/ seed_selection_algo = RoundRobin
  \/ seed_selection_algo = Favor /\ Len(state.seeds) <= FewSeeds

Picks(state) ==
  IF SeedTurns(state) THEN {state.selected_seed_index}
  ELSE 0..(Len(state.seeds) - 1)

(* A state without seeds, or an entry without regions: choose again.        *)
ChooseSeed ==
  /\ pc = "seed"
  /\ LET state == khms_states[target_state_id]
     IN  \/ /\ state.seeds = <<>>
            /\ pc' = "choose"
            /\ UNCHANGED <<khms_states, selected_seed>>
         \/ /\ state.seeds # <<>>
            /\ \E k \in Picks(state) :
                 /\ selected_seed' = state.seeds[k + 1]
                 /\ khms_states' =
                      [khms_states EXCEPT ![target_state_id].selected_seed_index =
                         IF seed_selection_algo = Random
                         THEN k ELSE Advance(k, Len(state.seeds))]
            /\ pc' = IF queue[selected_seed'].counts = <<>> THEN "choose" ELSE "fuzz"
  /\ UNCHANGED <<queue, learned, state_ids, was_fuzzed_map, selected_state_index,
                 state_cycles, target_state_id, M2, q, i, options>>

(* Regions from index k (from 1) on with as many states as region k.        *)
RunLength(counts, k) ==
  Max({n \in 0..(Len(counts) - k + 1) :
         \A l \in k..(k + n - 1) : counts[l] = counts[k]})

(* The first region that ends in the target state or is not annotated.      *)
M1Ends(e, s) ==
  {k \in DOMAIN e.counts :
     /\ e.counts[k] = 0 \/ Reached(e, k) = s
     /\ \A l \in 1..(k - 1) : e.counts[l] > 0 /\ Reached(e, l) # s}

SlipSkips(e, s) == s # 0 /\ \A k \in M1Ends(e, s) : e.counts[k] = 0

(* fuzz_one returns when a region before the target is not annotated or     *)
(* nothing follows M1.                                                      *)
Skips(e, s) ==
  /\ s # 0
  /\ \A k \in M1Ends(e, s) : e.counts[k] = 0 \/ k = Len(e.counts)

M1Length(e, s) == IF s = 0 THEN 0 ELSE CHOOSE k \in M1Ends(e, s) : TRUE

(* The choice of M2 in fuzz_one.                                            *)
FuzzOne ==
  /\ pc = "fuzz"
  /\ LET e == queue[selected_seed]
         start == M1Length(e, target_state_id)
     IN  IF Skips(e, target_state_id)
         THEN pc' = "choose" /\ selected_seed' = NoEntry /\ UNCHANGED M2
         ELSE /\ pc' = "mutate" /\ UNCHANGED selected_seed
              /\ M2' = [start |-> start, count |-> RunLength(e.counts, start + 1)]
  /\ UNCHANGED <<queue, learned, tables, selected_state_index, state_cycles,
                 target_state_id, q, i, options>>

(* abandon_entry; calibration of the entry may have failed.                 *)
Abandon ==
  /\ pc = "mutate"
  /\ \/ UNCHANGED <<queue, was_fuzzed_map>>
     \/ /\ ~queue[selected_seed].was_fuzzed
        /\ queue' = [queue EXCEPT ![selected_seed].was_fuzzed = TRUE]
        /\ was_fuzzed_map' = [was_fuzzed_map EXCEPT
             ![StateIndex(state_ids, target_state_id)][selected_seed] = 1]
  /\ pc' = "sync" /\ selected_seed' = NoEntry /\ M2' = NoM2
  /\ UNCHANGED <<learned, khms_states, state_ids, selected_state_index,
                 state_cycles, target_state_id, q, i, options>>

(* The main loop starts again.                                              *)
Continue ==
  /\ pc = "sync"
  /\ pc' = "choose"
  /\ UNCHANGED <<queue, learned, tables, choice, q, i, options>>

(* PFATAL or a crash: nothing happens any more.                             *)
Terminated == pc \in {"aborted", "crashed"} /\ UNCHANGED vars

Step == DryRun \/ Learn \/ Annotate \/ Reach \/ Credit
        \/ ChooseState \/ NoStates \/ ChooseSeed \/ FuzzOne \/ Abandon \/ Continue
Next == Step \/ Save \/ Terminated

Spec == Init /\ [][Next]_vars /\ WF_vars(Step)

-----------------------------------------------------------------------------
(* Properties *)

TypeOK ==
  /\ pc \in {"dry_run", "learn", "annotate", "reach", "choose", "seed",
             "fuzz", "mutate", "sync", "aborted", "crashed"}
  /\ queue \in Seq([codes : Seq(States), counts : Seq(Nat), was_fuzzed : BOOLEAN])
  /\ ipsm \subseteq States \X States
  /\ khs_ipsm_paths \subseteq Seq(States)
  /\ Known \subseteq States
  /\ \A s \in Known : khms_states[s] \in
       [seeds : Seq(DOMAIN queue), selected_seed_index : Nat, paths : Nat,
        paths_discovered : Nat]
  /\ state_ids \in Seq(States)
  /\ was_fuzzed_map \in Seq(Seq({Unreachable, 0, 1}))
  /\ selected_state_index \in Nat /\ state_cycles \in 0..WarmUp
  /\ target_state_id \in States
  /\ q \in DOMAIN queue /\ i \in Nat
  /\ selected_seed \in (DOMAIN queue) \cup {NoEntry}
  /\ M2 \in [start : Nat, count : Nat]
  /\ options \in Algos

(* The four tables of states describe the same states: every known state    *)
(* has one index and one row of the map, state 0 the first, and every entry *)
(* has a column; the turns point into the lists, which grow between them.   *)
TablesAgree ==
  /\ IsInjective(state_ids) /\ Range(state_ids) = Known
  /\ state_ids # <<>> => state_ids[1] = 0
  /\ Len(was_fuzzed_map) = Max({1, Len(state_ids)})
  /\ \A k \in DOMAIN was_fuzzed_map : Len(was_fuzzed_map[k]) = Len(queue)
  /\ state_ids # <<>> => selected_state_index < Len(state_ids)
  /\ \A s \in Known : khms_states[s].seeds # <<>> =>
       khms_states[s].selected_seed_index < Len(khms_states[s].seeds)

Learnt == {k \in DOMAIN queue : queue[k].codes # <<>>
             /\ (k = q => pc \notin {"learn", "annotate", "reach", "aborted"})}
TransitionsOf(codes) == {<<codes[k - 1], codes[k]>> : k \in 2..Len(codes)}

(* The graph is the union of all responses seen: no transition is lost      *)
(* although a sequence that is known after shortening its loops is not      *)
(* looked at, and annotating regions never meets a state the graph does not *)
(* have (afl-fuzz.c:1045: "This branch is supposed to be not reachable").   *)
MachineObserved ==
  pc \notin {"learn", "aborted"} =>
    /\ ipsm = UNION {TransitionsOf(queue[k].codes) : k \in DOMAIN queue}
    /\ Nodes = Known

(* The map and the lists of seeds agree: an entry is reachable for a state  *)
(* exactly when it is a seed of it, that is when one of its regions ends    *)
(* there; and it is marked as fuzzed only after it was.                     *)
Reaching(k, s) ==
  s = 0 \/ \E l \in DOMAIN queue[k].counts :
             queue[k].counts[l] > 0 /\ Reached(queue[k], l) = s

SeedsMarked ==
  \A k \in DOMAIN queue, x \in DOMAIN state_ids :
    LET s == state_ids[x]
        isSeed == k \in Range(khms_states[s].seeds)
    IN  /\ isSeed <=> was_fuzzed_map[x][k] # Unreachable
        /\ k \in Learnt => (isSeed <=> Reaching(k, s))
        /\ was_fuzzed_map[x][k] = 1 => queue[k].was_fuzzed

(* paths counts the entries that went through a state, paths_discovered     *)
(* those that fuzzing found, each for one state.                            *)
PathsBalance ==
  pc \in {"choose", "mutate", "sync"} =>
    /\ \A s \in Known : khms_states[s].paths =
         Cardinality({k \in Learnt : s \in Range(queue[k].codes)})
    /\ MapThenSumSet(LAMBDA s : khms_states[s].paths_discovered, Known)
         = Cardinality({k \in Learnt : k > Seeds})

(* What the state machine and its tables have learned, as a whole.          *)
LearnsAll == TypeOK /\ TablesAgree /\ MachineObserved /\ SeedsMarked /\ PathsBalance

(* M2 is not empty, lies inside the entry and M1 leads to the target.       *)
M2Follows ==
  pc = "mutate" =>
    LET e == queue[selected_seed]
    IN  /\ M2.count > 0 /\ M2.start + M2.count <= Len(e.counts)
        /\ target_state_id # 0 =>
             M2.start > 0 /\ Reached(e, M2.start) = target_state_id

(* The program ends itself only when the first response it gets has no code *)
(* or there is none.                                                        *)
OnlyEmptyStartFails ==
  pc \in {"aborted", "crashed"} =>
    \A k \in DOMAIN queue : Len(queue[k].codes) <= 1

(* A round has something to mutate where the target state was reached, or   *)
(* there was nothing to start from (afl-fuzz.c:6064, 1028).                 *)
RoundsAreSound == M2Follows /\ OnlyEmptyStartFails

(* The loop that looks for a seed ends, and fuzz_one does not skip for ever *)
(* when states take turns: the initial state always has something to        *)
(* mutate.                                                                  *)
FuzzingGoesOn ==
  (pc = "choose" /\ state_selection_algo = RoundRobin)
    ~> pc \in {"mutate", "crashed"}

(* When states and seeds take turns, the seed that was added last to the    *)
(* list of a state is tried for it, whatever is added in the meantime.      *)
NewSeedTried ==
  \A s \in States :
    (/\ s \in Known /\ khms_states[s].seeds # <<>>
     /\ state_selection_algo = RoundRobin /\ seed_selection_algo = RoundRobin)
    ~> (/\ pc = "fuzz" /\ target_state_id = s
        /\ selected_seed = Last(khms_states[s].seeds))
=============================================================================
