----------------------------- MODULE SearchTree -----------------------------
(***************************************************************************)
(* The search tree of src/mcts.c as a value, and the functions that read   *)
(* and update it.  A tree is a sequence of node records in the order of    *)
(* their creation; a pointer is an index and NoNode is NULL, so the order  *)
(* of the children of a node is the order of their indices.  Node 1 is the *)
(* root and node 2 its simulation child.                                   *)
(*                                                                         *)
(* A queue entry is the pair                                               *)
(*   codes  the response codes of its last region,                         *)
(*   counts counts[r] is the state_count of region r,                      *)
(* after preprocess_queue_entry: every region has a non-empty state        *)
(* sequence, a prefix of codes (each is extracted from a prefix of the     *)
(* same response buffer).  Regions are numbered from 1.                    *)
(*                                                                         *)
(* The operators named Slip... are faulty variants of the definition that  *)
(* follows them; no definition uses them (see the README).                 *)
(***************************************************************************)
EXTENDS Naturals, Sequences, FiniteSets, FiniteSetsExt

CONSTANT
  MaxSelected   \* bound: the selected counters of nodes saturate here

ASSUME MaxSelectedAssumption == MaxSelected \in Nat

NoNode == 0
ROOT == 1
RootSim == 2
SimId == 999

White == "White"
Golden == "Golden"
Black == "Black"
Colours == {White, Golden, Black}

SeedRec(E) == [entry: E, region: Nat, selected: Nat, discovered: Nat]

NodeRec(E) == [id: Nat, parent: Nat, colour: Colours, path: Seq(Nat),
               explored: BOOLEAN, sim: Nat, selected: Nat, discovered: Nat,
               seeds: Seq(SeedRec(E))]

NewNode(id, parent, colour, path) ==
  [id |-> id, parent |-> parent, colour |-> colour, path |-> path,
   explored |-> FALSE, sim |-> NoNode, selected |-> 0, discovered |-> 0,
   seeds |-> <<>>]

NewSeed(e, region) ==
  [entry |-> e, region |-> region, selected |-> 0, discovered |-> 0]

(* Initialisation: the root with its simulation child. *)
InitialTree ==
  << [NewNode(0, NoNode, White, <<0>>) EXCEPT !.sim = RootSim],
     NewNode(SimId, ROOT, Golden, <<0>>) >>

-----------------------------------------------------------------------------
(* Structure *)

Children(t, n) == {c \in DOMAIN t : t[c].parent = n}

SlipExistsChild(t, n, id) ==
  LET kids == Children(t, n)
  IN  IF kids # {} /\ t[Min(kids)].id = id THEN Min(kids) ELSE NoNode

ExistsChild(t, n, id) ==
  LET matches == {c \in Children(t, n) : t[c].id = id}
  IN  IF matches = {} THEN NoNode ELSE Min(matches)

Parent(t, n) == t[n].parent

IsLeaf(t, n) == \A c \in Children(t, n) : t[c].colour = Golden

(* The first-round walk of Expansion: the node the whole sequence leads to. *)
Reach(t, codes) ==
  LET at[k \in 1..Len(codes)] ==
        IF k = 1 THEN ROOT
        ELSE IF at[k - 1] = NoNode THEN NoNode
        ELSE ExistsChild(t, at[k - 1], codes[k])
  IN  at[Len(codes)]

(* n and the nodes on the parent chain above it. *)
Lineage(t, n) ==
  LET up[d \in 0..Len(t)] ==
        IF d = 0 THEN {n}
        ELSE up[d - 1] \cup {t[m].parent : m \in up[d - 1] \ {NoNode}}
  IN  up[Len(t)] \ {NoNode}

-----------------------------------------------------------------------------
(* Scores.  The value of the UCT formula is left out; what is kept is when  *)
(* it is -INFINITY, when it is INFINITY, and that of two finite scores the  *)
(* one with the higher discovery rate wins unless it was selected more      *)
(* often (RHO is not negative).                                             *)

SlipNegInf(t, n) == t[n].explored

NegInf(t, n) ==
  \/ t[n].explored
  \/ t[n].colour = Golden /\ t[n].seeds = <<>>

Dominated(a, b) ==
  /\ a.discovered * b.selected < b.discovered * a.selected
  /\ b.selected <= a.selected

(* best_child returns an only child without looking at its score. *)
BestChildren(t, n) ==
  LET kids  == Children(t, n)
      live  == {c \in kids : ~NegInf(t, c)}
      fresh == {c \in live : t[c].selected = 0}
  IN  CASE Cardinality(kids) = 1 -> kids
        [] fresh # {} -> fresh
        [] live # {} -> {c \in live : \A d \in live : ~Dominated(t[c], t[d])}
        [] OTHER -> kids

BestSeeds(t, n) ==
  LET all   == DOMAIN t[n].seeds
      fresh == {s \in all : t[n].seeds[s].selected = 0}
  IN  IF fresh # {} THEN fresh
      ELSE {s \in all :
              \A r \in all : ~Dominated(t[n].seeds[s], t[n].seeds[r])}

SlipIsFullyExplored(t, n) ==
  \/ t[n].explored
  \/ \A c \in Children(t, n) : NegInf(t, c)

SlipKeepBlack(t, n) == t[n].explored

IsFullyExplored(t, n) ==
  \/ t[n].explored
  \/ t[n].colour = Black /\ NegInf(t, Min(Children(t, n)))

-----------------------------------------------------------------------------
(* Updates *)

AppendChild(t, p, id, colour, path) ==
  LET n == Len(t) + 1
  IN  IF colour = White
      THEN t \o << [NewNode(id, p, White, path) EXCEPT !.sim = n + 1],
                   NewNode(SimId, n, Golden, path) >>
      ELSE Append(t, NewNode(id, p, colour, path))

Flip(t, n, path) ==
  Append([t EXCEPT ![n].colour = White, ![n].sim = Len(t) + 1],
         NewNode(SimId, n, Golden, path))

AddSeed(t, n, seed) == [t EXCEPT ![n].seeds = Append(@, seed)]

SetExplored(t, n, b) == [t EXCEPT ![n].explored = b]

CountSelection(t, n) ==
  [t EXCEPT ![n].selected = IF @ < MaxSelected THEN @ + 1 ELSE @]

CountSeedSelection(t, n, s) == [t EXCEPT ![n].seeds[s].selected = @ + 1]

(* The discovered counters along the execution path. *)
CreditPath(t, n) ==
  LET line == Lineage(t, n)
  IN  [m \in DOMAIN t |->
         IF m \in line THEN [t[m] EXCEPT !.discovered = @ + 1] ELSE t[m]]

CountDiscovery(t, n) == [t EXCEPT ![n].discovered = @ + 1]

CountSeedDiscovery(t, n, s) == [t EXCEPT ![n].seeds[s].discovered = @ + 1]

(* Propagation to the selected simulation node and seed. *)
CreditSeed(t, n, s) == CountSeedDiscovery(CountDiscovery(t, n), n, s)

-----------------------------------------------------------------------------
(* Queue entries *)

WellFormed(e) ==
  /\ e \in [codes: Seq(Nat), counts: Seq(Nat)]
  /\ e.codes # <<>> /\ e.codes[1] = 0
  /\ e.counts # <<>> /\ e.counts[1] >= 1
  /\ \A i, j \in DOMAIN e.counts : i <= j => e.counts[i] <= e.counts[j]
  /\ e.counts[Len(e.counts)] = Len(e.codes)

NoRegion == 0

(* The first region from the given one on that reaches the k-th code; the  *)
(* search gives up at the region whose index is len_codes.                 *)
MatchRegion(e, k, from) ==
  LET hits == {r \in from .. Len(e.counts) :
                 r <= Len(e.codes) /\ k <= e.counts[r]}
  IN  IF hits = {} THEN NoRegion ELSE Min(hits)

SlipSeedFits(e, region) == e.counts[region] <= Len(e.codes)

(* A seed is kept at a node only if its last region lies beyond it. *)
SeedFits(e, region) == e.counts[region] < Len(e.codes)

SlipM2Count(e, start, fuzzM3) == (Len(e.counts) - start) - 1

(* M2_region_count of find_M2_region for a node below the root. *)
M2Count(e, start, fuzzM3) ==
  LET differs == {r \in start .. Len(e.counts) : e.counts[r] # e.counts[start]}
  IN  IF fuzzM3 \/ differs = {} THEN (Len(e.counts) + 1) - start
      ELSE Min(differs) - start
=============================================================================
