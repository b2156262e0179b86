-------------------------------- MODULE MCTS --------------------------------
(***************************************************************************)
(* The search of afl-fuzz under -E with the MCTS algorithm: the dry run    *)
(* that fills the tree with the initial corpus, the main loop's Selection, *)
(* find_M2_region, the executions of fuzz_one (and of sync_fuzzers, which  *)
(* runs with the last selected node still in cur_tree_node), and Expansion *)
(* with Propagation for every test case that is added to the queue.        *)
(*                                                                         *)
(* The program is one thread, and pc says where it is:                     *)
(*   dry      perform_dry_run, between two entries                         *)
(*   main     head of the main loop                                        *)
(*   select   outer loop of select_tree_node                               *)
(*   climb    inner loop of select_tree_node                               *)
(*   seed     the rest of Selection                                        *)
(*   m2       fuzz_one before find_M2_region                               *)
(*   fuzz     fuzz_one (or sync_fuzzers) between two executions            *)
(*   dye      second round of Expansion                                    *)
(*   aborted  a log_assert failed; crashed: a NULL dereference             *)
(*   stopped  stop_soon was honoured                                       *)
(*                                                                         *)
(* log_assert is Check: without -a the process aborts, with it execution   *)
(* goes on.  failed collects the names of the assertions that did not hold.*)
(***************************************************************************)
EXTENDS SearchTree

CONSTANTS
  Entries,    \* preprocessed queue entries the executions may produce
  IgnAst,     \* IGN_AST, option -a
  FuzzM3,     \* FUZZ_M3, option -z
  MaxExecs,   \* bound: test cases added to the queue
  MaxRounds   \* bound: rounds of the main loop

ASSUME EntriesAssumption == \A e \in Entries : WellFormed(e)

ASSUME OptionsAssumption ==
  /\ IgnAst \in BOOLEAN /\ FuzzM3 \in BOOLEAN 
  /\ MaxExecs \in Nat /\ MaxRounds \in Nat

VARIABLES
  pc,       \* where the thread is
  tree,     \* ROOT and everything below it
  khmn,     \* khmn_nodes: how often a parent with this code was fuzzed
  cur,      \* cur_tree_node
  curSeed,  \* cur_seed, an index into the seeds of cur
  round,    \* ROUND
  execs,    \* number of test cases added to the queue
  ex,       \* the locals of Expansion
  m2,       \* M2_start_region_ID (from 1) and M2_region_count
  failed    \* names of the assertions that have failed

vars == <<pc, tree, khmn, cur, curSeed, round, execs, ex, m2, failed>>

NoFrame == [k |-> 0]
NoSeed == 0

Frame ==
  [entry: Entries, k: Nat, node: Nat, newPath: BOOLEAN, newNode: BOOLEAN,
   region: Nat, exact: BOOLEAN, base: Nat]

Places == {"dry", "main", "select", "climb", "seed", "m2", "fuzz", "dye",
           "aborted", "crashed", "stopped"}

(* The log_asserts whose conditions the model evaluates.                   *)
Assertions == {"new_path_captured", "seed_path", "node_path",
               "best_child_score", "one_child",
               "m2_count", "m2_path_len", "m2_path"}

When(condition, name) == IF condition THEN {name} ELSE {}

(* log_assert of every condition in the set, then on to next. *)
Check(bad, next) ==
  /\ failed' = failed \cup bad
  /\ pc' = IF bad # {} /\ ~IgnAst THEN "aborted" ELSE next

Init ==
  /\ pc = "dry"
  /\ tree = InitialTree
  /\ khmn = [id \in {0, SimId} |-> 0]
  /\ cur = RootSim /\ curSeed = NoSeed
  /\ round = 0 /\ execs = 0
  /\ ex = NoFrame
  /\ m2 = [start |-> 0, count |-> 0]
  /\ failed = {}

-----------------------------------------------------------------------------
(* Expansion *)

(* Up to the second round: is the path new, and a seed for the root. *)
BeginExpansion(e) ==
  /\ execs < MaxExecs
  /\ execs' = execs + 1
  /\ ex' = [entry |-> e, k |-> 2, node |-> ROOT,
            newPath |-> Reach(tree, e.codes) = NoNode, newNode |-> FALSE,
            region |-> 1, exact |-> FALSE, base |-> Len(tree)]
  /\ tree' = AddSeed(tree, tree[ROOT].sim, NewSeed(e, 1))
  /\ pc' = "dye"
  /\ UNCHANGED <<khmn, cur, curSeed, round, m2, failed>>

(* perform_dry_run on an initial seed whose server answered. *)
DryRunEntry(e) == pc = "dry" /\ BeginExpansion(e)

(* A test case of fuzz_one or sync_fuzzers that save_if_interesting keeps. *)
FuzzEntry(e) == pc = "fuzz" /\ BeginExpansion(e)

SlipMatch(f) ==
  LET hit == MatchRegion(f.entry, f.k, f.region + (IF f.exact THEN 1 ELSE 0))
  IN  IF hit = NoRegion THEN [region |-> f.region, exact |-> f.exact]
      ELSE [region |-> hit, exact |-> TRUE]

(* matching_region_index and matched_exactly after the region loop; both   *)
(* keep their values when the loop finds no region.                        *)
Match(f) ==
  LET hit == MatchRegion(f.entry, f.k, f.region + (IF f.exact THEN 1 ELSE 0))
  IN  IF hit = NoRegion THEN [region |-> f.region, exact |-> f.exact]
      ELSE [region |-> hit, exact |-> f.entry.counts[hit] = f.k]

(* new_node is not reset between iterations. *)
Fresh(t, f) == f.newNode \/ ExistsChild(t, f.node, f.entry.codes[f.k]) = NoNode

(* The node the iteration works on, once it exists. *)
Target(t, f) ==
  IF Fresh(t, f) THEN Len(t) + 1 ELSE ExistsChild(t, f.node, f.entry.codes[f.k])

Reopen(t, f) ==
  IF f.k # Len(f.entry.codes) THEN SetExplored(t, f.node, FALSE) ELSE t

Grow(t, f) ==
  IF Fresh(t, f)
  THEN AppendChild(t, f.node, f.entry.codes[f.k],
                   IF Match(f).exact THEN White ELSE Black,
                   SubSeq(f.entry.codes, 1, f.k))
  ELSE t

Whiten(t, n, f) ==
  IF Match(f).exact /\ t[n].colour = Black /\ f.k # Len(f.entry.codes)
  THEN Flip(t, n, SubSeq(f.entry.codes, 1, f.k))
  ELSE t

Seeded(t, n, f) ==
  /\ Match(f).exact
  /\ t[n].colour = White
  /\ SeedFits(f.entry, Match(f).region)

Sow(t, n, f) ==
  IF Seeded(t, n, f)
  THEN AddSeed(t, t[n].sim, NewSeed(f.entry, Match(f).region))
  ELSE t

DyeAssertions(t, n, f) ==
  When(~f.newPath /\ ExistsChild(tree, f.node, f.entry.codes[f.k]) = NoNode,
       "new_path_captured")
  \cup When(Seeded(t, n, f) /\ f.entry.counts[Match(f).region] < Len(t[n].path),
            "seed_path")
  \cup When(t[n].path # SubSeq(f.entry.codes, 1, f.k), "node_path")

(* One iteration of the second round. *)
Dye ==
  /\ pc = "dye" /\ ex.k <= Len(ex.entry.codes)
  /\ LET t     == Reopen(tree, ex)
         node  == Target(t, ex)
         grown == Whiten(Grow(t, ex), node, ex)
         code  == ex.entry.codes[ex.k]
     IN  /\ tree' = Sow(grown, node, ex)
         /\ khmn' = IF Fresh(t, ex) /\ code \notin DOMAIN khmn
                    THEN [id \in (DOMAIN khmn) \cup {code} |->
                            IF id = code THEN 0 ELSE khmn[id]]
                    ELSE khmn
         /\ ex' = [ex EXCEPT !.k = @ + 1, !.node = node,
                             !.newNode = Fresh(t, ex),
                             !.region = Match(ex).region,
                             !.exact = Match(ex).exact]
         /\ Check(DyeAssertions(grown, node, ex), "dye")
  /\ UNCHANGED <<cur, curSeed, round, execs, m2>>

(* The end of Expansion, then Propagation, which does nothing in round 0.  *)
(* The macro that asks whether the parent is the root reads through it.    *)
FinishExpansion ==
  /\ pc = "dye" /\ ex.k > Len(ex.entry.codes)
  /\ LET marked   == SetExplored(tree, ex.node, IsLeaf(tree, ex.node))
         credited == CreditPath(marked, ex.node)
     IN  IF Parent(tree, ex.node) = NoNode
         THEN tree' = marked /\ pc' = "crashed" /\ UNCHANGED ex
         ELSE /\ tree' = CASE ~ex.newPath -> marked
                           [] ex.newPath /\ round = 0 -> credited
                           [] ex.newPath /\ round > 0 ->
                                CreditSeed(credited, cur, curSeed)
              /\ pc' = IF round = 0 THEN "dry" ELSE "fuzz"
              /\ ex' = NoFrame
  /\ UNCHANGED <<khmn, cur, curSeed, round, execs, m2, failed>>

-----------------------------------------------------------------------------
(* The main loop and Selection *)

StartFuzzing ==
  /\ pc = "dry"
  /\ pc' = "main"
  /\ UNCHANGED <<tree, khmn, cur, curSeed, round, execs, ex, m2, failed>>

BeginSelection ==
  /\ pc = "main" /\ round < MaxRounds
  /\ round' = round + 1
  /\ cur' = ROOT
  /\ tree' = CountSelection(tree, ROOT)
  /\ pc' = "select"
  /\ UNCHANGED <<khmn, curSeed, execs, ex, m2, failed>>

(* best_child, and the assertion on its score. *)
Descend ==
  /\ pc = "select"
  /\ \E c \in BestChildren(tree, cur) :
       /\ cur' = c
       /\ tree' = CountSelection(tree, c)
       /\ Check(When(NegInf(tree, c) /\ tree[Parent(tree, c)].colour # Black,
                     "best_child_score"),
                CASE NegInf(tree, c) -> "climb"
                  [] ~NegInf(tree, c) /\ tree[c].colour = Golden -> "seed"
                  [] OTHER -> "select")
  /\ UNCHANGED <<khmn, curSeed, round, execs, ex, m2>>

(* One step of the inner loop, is_fully_explored with its assertions.      *)
Climb ==
  /\ pc = "climb"
  /\ LET p    == Parent(tree, cur)
         asks == ~tree[p].explored /\ tree[p].colour = Black
         kids == Children(tree, p)
         done == IsFullyExplored(tree, p)
     IN  /\ Check(When(asks /\ Cardinality(kids) # 1, "one_child"),
                  IF done THEN "climb" ELSE "select")
         /\ cur' = p
         /\ tree' = IF done /\ pc' # "aborted" THEN SetExplored(tree, p, TRUE)
                    ELSE tree
  /\ UNCHANGED <<khmn, curSeed, round, execs, ex, m2>>

SelectSeed ==
  /\ pc = "seed"
  /\ \E s \in BestSeeds(tree, cur) :
       /\ curSeed' = s
       /\ tree' = CountSeedSelection(tree, cur, s)
  /\ khmn' = [khmn EXCEPT ![tree[Parent(tree, cur)].id] = @ + 1]
  /\ pc' = "m2"
  /\ UNCHANGED <<cur, round, execs, ex, m2, failed>>

(* find_M2_region: everything for the root, else what follows the region   *)
(* that led to the node.  The memcmp of the last assertion is given the     *)
(* number of codes as a number of bytes: it sees a quarter of the path.    *)
FindM2 ==
  /\ pc = "m2"
  /\ LET seed  == tree[cur].seeds[curSeed]
         e     == seed.entry
         start == seed.region + 1
         count == M2Count(e, start, FuzzM3)
         path  == tree[cur].path
         span  == (Len(path) + 3) \div 4
     IN  IF Parent(tree, cur) = ROOT
         THEN /\ m2' = [start |-> 1, count |-> Len(e.counts)]
              /\ Check({}, "fuzz")
         ELSE /\ m2' = [start |-> start, count |-> count]
              /\ Check(When(count < 1, "m2_count")
                       \cup When(e.counts[seed.region] # Len(path), "m2_path_len")
                       \cup When(SubSeq(path, 1, span) # SubSeq(e.codes, 1, span),
                                 "m2_path"),
                       "fuzz")
  /\ UNCHANGED <<tree, khmn, cur, curSeed, round, execs, ex>>

(* fuzz_one and sync_fuzzers are over. *)
EndFuzz ==
  /\ pc = "fuzz"
  /\ pc' = "main"
  /\ m2' = [start |-> 0, count |-> 0]
  /\ UNCHANGED <<tree, khmn, cur, curSeed, round, execs, ex, failed>>

Stop ==
  /\ pc \in {"dry", "main"}
  /\ pc' = "stopped"
  /\ UNCHANGED <<tree, khmn, cur, curSeed, round, execs, ex, m2, failed>>

Terminated == pc \in {"aborted", "crashed", "stopped"} /\ UNCHANGED vars

Next ==
  \/ \E e \in Entries : DryRunEntry(e) \/ FuzzEntry(e)
  \/ Dye \/ FinishExpansion
  \/ StartFuzzing \/ BeginSelection
  \/ Descend \/ Climb \/ SelectSeed \/ FindM2
  \/ EndFuzz \/ Stop \/ Terminated

(* Expansion and Selection are sequential code without blocking calls.     *)
Computing == Dye \/ FinishExpansion \/ Descend \/ Climb \/ SelectSeed \/ FindM2

Spec == Init /\ [][Next]_vars /\ WF_vars(Computing)

-----------------------------------------------------------------------------
(* Properties *)

Responses  == {n \in DOMAIN tree : tree[n].colour # Golden}
Sims       == DOMAIN tree \ Responses
Alive      == pc \notin {"aborted", "crashed"}

(* Types of all variables; a pointer into the tree never dangles and       *)
(* Expansion has locals exactly while it runs.                             *)
TypeOK ==
  /\ pc \in Places
  /\ tree \in Seq(NodeRec(Entries)) /\ Len(tree) >= RootSim
  /\ DOMAIN khmn \subseteq Nat /\ khmn \in [DOMAIN khmn -> Nat]
  /\ cur \in DOMAIN tree /\ curSeed \in Nat
  /\ round \in Nat /\ execs \in Nat
  /\ ex \in Frame \cup {NoFrame}
  /\ pc = "dye" => ex \in Frame /\ ex.node \in DOMAIN tree
  /\ m2 \in [start: Nat, count: Nat]
  /\ failed \subseteq Assertions

(* The tree is a trie of the response sequences (append_child, flipping in *)
(* Expansion): a node's path extends its parent's by its own code, no two  *)
(* response nodes have the same path, and exactly the white nodes have a   *)
(* simulation child, which repeats their path.  Holds at every step of     *)
(* Expansion, whatever the order in which sequences arrive.                *)
TrieShape ==
  /\ \A n \in Responses \ {ROOT} :
       /\ tree[n].parent \in Responses /\ tree[n].parent < n
       /\ tree[n].path = Append(tree[tree[n].parent].path, tree[n].id)
  /\ \A m, n \in Responses : tree[m].path = tree[n].path => m = n
  /\ \A n \in Responses :
       {c \in Children(tree, n) : tree[c].colour = Golden}
         = IF tree[n].colour = White THEN {tree[n].sim} ELSE {}
  /\ \A s \in Sims : tree[s].path = tree[tree[s].parent].path

(* No seed of a simulation node below the root ends at the node: there is  *)
(* always a region left for M2 (Expansion adds such seeds only to nodes    *)
(* that their last region lies beyond; mcts.c:1136 and afl-fuzz.c:478).    *)
SeedsUsable ==
  \A n \in Sims \ {RootSim} : \A i \in DOMAIN tree[n].seeds :
    LET seed == tree[n].seeds[i]
    IN  1 <= seed.region /\ seed.region < Len(seed.entry.counts)

(* find_M2_region never hands fuzz_one an empty M2: common_fuzz_stuff      *)
(* would free the first message of M3 instead (afl-fuzz.c:5602).           *)
M2NotEmpty == pc = "fuzz" => m2.count >= 1

(* The seeds of a node replay to it: the region recorded with a seed stops *)
(* exactly at the node's path (what find_M2_region asserts of M1).         *)
SeedsReplay ==
  \A n \in Sims \ {RootSim} : \A i \in DOMAIN tree[n].seeds :
    LET seed == tree[n].seeds[i]
    IN  SubSeq(seed.entry.codes, 1, seed.entry.counts[seed.region]) = tree[n].path

(* What the steps of Selection rely on without a check that survives -a:   *)
(* the root is never given up (mcts.c:711), the search goes on from nodes  *)
(* with a finite score and a child (mcts.c:736), and a selected simulation *)
(* node has a seed and a parent still worth selecting (mcts.c:314,840).    *)
SelectionSteps ==
  /\ ~NegInf(tree, ROOT) \/ pc = "crashed"
  /\ pc = "climb" => cur # ROOT /\ NegInf(tree, cur)
  /\ pc = "select" => ~NegInf(tree, cur) /\ Children(tree, cur) # {}
  /\ pc = "seed" => /\ tree[cur].seeds # <<>>
                    /\ ~NegInf(tree, Parent(tree, cur))

Selections(n) ==
  MapThenSumSet(LAMBDA i : tree[n].seeds[i].selected, DOMAIN tree[n].seeds)

Discoveries(n) ==
  MapThenSumSet(LAMBDA i : tree[n].seeds[i].discovered, DOMAIN tree[n].seeds)

(* The counters that drive UCT agree with each other between rounds: every *)
(* round enters at the root and ends in one seed, a simulation node's      *)
(* counters are the sums of its seeds', a node is credited with no more    *)
(* discoveries than its parent, and khmn counts the selections of all      *)
(* parents with the same code.  Of runs without a failed assertion.        *)
CountersAgree ==
  pc \in {"main", "fuzz"} /\ failed = {} =>
    /\ tree[ROOT].selected = round
    /\ MapThenSumSet(Selections, Sims) = round
    /\ \A s \in Sims : /\ tree[s].discovered = Discoveries(s)
                      /\ tree[s].selected = Selections(s)
    /\ \A n \in Responses \ {ROOT} :
         tree[n].discovered <= tree[tree[n].parent].discovered
    /\ \A id \in DOMAIN khmn :
         khmn[id] = MapThenSumSet(Selections,
                      {s \in Sims : tree[tree[s].parent].id = id})

(* The tree as a whole: a trie of what was observed, whose seeds replay to *)
(* their nodes and whose counters say how often they were chosen.          *)
TreeSound == TrieShape /\ SeedsReplay /\ CountersAgree

(* A discovery made while fuzzing is credited to one seed, the selected    *)
(* one, as often as to the root (Expansion's loop and Propagation); dry-run*)
(* discoveries are credited to no seed.                                    *)
CreditsBalance ==
  [][ round > 0 =>
        tree'[ROOT].discovered - tree[ROOT].discovered
          = MapThenSumSet(LAMBDA s : tree'[s].discovered, Sims')
            - MapThenSumSet(LAMBDA s : tree[s].discovered, Sims) ]_vars

(* Selection gives up only black nodes, and only when nothing below the    *)
(* node has a seed left to fuzz (comment of is_fully_explored), as long as  *)
(* the assertion in that function does not fail: of several children only  *)
(* the first is looked at.                                                 *)
GivesUpOnlyExhausted ==
  [][ "one_child" \notin failed' => \A n \in DOMAIN tree :
        pc = "climb" /\ ~tree[n].explored /\ tree'[n].explored =>
          /\ tree[n].colour = Black
          /\ \A m \in Children(tree, n) : NegInf(tree, m) ]_vars

(* What a step may do to the values that steer the search: it credits a    *)
(* discovery once and hides nothing that is left to fuzz (afl-fuzz.c:884,  *)
(* mcts.c:701).                                                            *)
SteersHonestly == CreditsBalance /\ GivesUpOnlyExhausted

(* The assertions that code outside their own function can break; all the  *)
(* others hold in every execution.                                         *)
OnlyKnownFailures == failed \subseteq {"best_child_score", "one_child"}

(* Every region of the entry completes exactly one code. *)
Lockstep(e) == e.counts = [k \in 1..(Len(e.codes) - 1) |-> k + 1]

(* As long as every response completed exactly one code, no assertion has  *)
(* failed, whatever was selected since the dry run left a seed.            *)
NoFailure ==
  LET seen == tree[RootSim].seeds
  IN  seen # <<>> /\ (\A i \in DOMAIN seen : Lockstep(seen[i].entry)) =>
        failed = {} /\ Alive

(* The log_asserts of mcts.c and find_M2_region: two can fail, the others  *)
(* never do, and none fails while the answers keep in step with the        *)
(* messages.                                                               *)
AssertionsHold == OnlyKnownFailures /\ NoFailure

(* Expansion implements the abstract trie in one step, although it works   *)
(* node by node: a sequence counts as known once its Expansion is over.    *)
Committed == {n \in Responses : ex = NoFrame \/ n <= ex.base}

Trie == INSTANCE PathTrie WITH
  Observable <- {e.codes : e \in Entries},
  known <- {tree[n].path : n \in Committed},
  found <- tree[ROOT].discovered

(* The response sequences in the tree and the root's count of discoveries  *)
(* are exactly those of the executions (new_path of Expansion).            *)
ImplementsTrie == Trie!Spec

(* Selection comes to an end: it does not move between a node and a parent *)
(* that is never given up.                                                 *)
SelectionTerminates ==
  pc \in {"select", "climb"} ~> pc \notin {"select", "climb"}
=============================================================================
