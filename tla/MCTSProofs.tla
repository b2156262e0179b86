----------------------------- MODULE MCTSProofs -----------------------------
(***************************************************************************)
(* Theorems about MCTS for every set of well-formed queue entries, both    *)
(* values of -a and -z, and any bounds.  There are five inductive          *)
(* invariants, each resting on the ones before it:                         *)
(*   Inv      types; the tree is Sound (see below), the root is open, and  *)
(*            what the locals of Expansion and the selected seed refer to  *)
(*   TrieInv  the tree is a trie whose seeds replay to their nodes, also   *)
(*            in the middle of Expansion                                   *)
(*   SelInv   Selection never stands where it cannot go on (needs Inv only)*)
(*   LockInv  the tree while every response completes one code             *)
(*   CountInv the counters of nodes and seeds add up, also inside a round   *)
(* TrieInv, LockInv and CountInv assume Plain of the entries.              *)
(***************************************************************************)
EXTENDS MCTS, Sums, FiniteSetTheorems, SequenceTheorems, WellFoundedInduction, TLAPS

-----------------------------------------------------------------------------
(* Facts about the operators of SearchTree that hold for trees of any size  *)
(* and any set of queue entries.                                            *)

(* A non-empty set of naturals has a minimum: exists_child and the region  *)
(* loop of Expansion take the first match.                                 *)
LEMMA MinIsLeast ==
  ASSUME NEW S \in SUBSET Nat, S # {}
  PROVE  Min(S) \in S /\ \A y \in S : Min(S) <= y
<1>1. PICK x \in S : \A y \in S : ~(<<y, x>> \in OpToRel(<, Nat))
  BY NatLessThanWellFounded, WFMin
<1>2. \A y \in S : ~(y < x)
  BY <1>1 DEF OpToRel
<1>3. \A y \in S : x <= y
  BY <1>2
<1> QED
  BY <1>3 DEF Min

-----------------------------------------------------------------------------
(* A tree on which Selection and Expansion can work: the root and its       *)
(* simulation child are where they belong, parent pointers stay inside the  *)
(* tree, and below the root a seed has a region after its own.              *)

HasRegionAfter(seed) == 1 <= seed.region /\ seed.region < Len(seed.entry.counts)

SeedsHaveRegions(seeds) == \A i \in DOMAIN seeds : HasRegionAfter(seeds[i])

Sound(E, t) ==
  /\ t \in Seq(NodeRec(E)) /\ Len(t) >= RootSim
  /\ t[ROOT].colour = White /\ t[ROOT].sim = RootSim /\ t[ROOT].parent = NoNode
  /\ t[RootSim].parent = ROOT
  /\ \A n \in DOMAIN t \ {ROOT} : t[n].parent \in DOMAIN t
  /\ \A n \in DOMAIN t \ {RootSim} : SeedsHaveRegions(t[n].seeds)

(* u is a later version of t: sound, no smaller, the root as explored.      *)
Succeeds(E, t, u) ==
  /\ Sound(E, u) /\ Len(u) >= Len(t)
  /\ u[ROOT].explored = t[ROOT].explored

LEMMA SucceedsTrans ==
  ASSUME NEW E, NEW t, NEW u, NEW v, Sound(E, t),
         Succeeds(E, t, u), Succeeds(E, u, v)
  PROVE  Succeeds(E, t, v)
<1>1. Len(t) \in Nat /\ Len(u) \in Nat /\ Len(v) \in Nat
  BY LenProperties DEF Succeeds, Sound
<1> QED
  BY <1>1 DEF Succeeds

(* Overwriting one node by a record with the same parent keeps a tree sound *)
(* if the root stays white and the seeds have regions.                      *)
LEMMA Overwrite ==
  ASSUME NEW E, NEW t, Sound(E, t), NEW n \in DOMAIN t, NEW r \in NodeRec(E),
         r.parent = t[n].parent,
         n = ROOT => r.colour = White /\ r.sim = RootSim,
         n # RootSim => SeedsHaveRegions(r.seeds)
  PROVE  /\ Sound(E, [t EXCEPT ![n] = r])
         /\ Len([t EXCEPT ![n] = r]) = Len(t)
         /\ DOMAIN [t EXCEPT ![n] = r] = DOMAIN t
         /\ \A m \in DOMAIN t : [t EXCEPT ![n] = r][m] = IF m = n THEN r ELSE t[m]
<1> DEFINE u == [t EXCEPT ![n] = r]
<1>1. t \in Seq(NodeRec(E)) /\ DOMAIN t = 1..Len(t) /\ Len(t) \in Nat
  BY LenProperties DEF Sound
<1>2. /\ u \in Seq(NodeRec(E)) /\ Len(u) = Len(t)
      /\ \A m \in 1..Len(t) : u[m] = IF m = n THEN r ELSE t[m]
  BY <1>1, ExceptSeq
<1>3. DOMAIN u = 1..Len(t)
  BY <1>1, <1>2, LenProperties
<1> HIDE DEF u
<1>4. ROOT \in 1..Len(t) /\ RootSim \in 1..Len(t)
  BY <1>1 DEF Sound, ROOT, RootSim
<1>5. Sound(E, u)
  BY <1>1, <1>2, <1>3, <1>4 DEF Sound, ROOT, RootSim, NoNode
<1> QED
  BY <1>1, <1>2, <1>3, <1>5 DEF u

(* A new node under an existing one keeps the tree sound.                   *)
LEMMA Extend ==
  ASSUME NEW E, NEW t, Sound(E, t), NEW r \in NodeRec(E),
         r.parent \in DOMAIN t, r.seeds = <<>>
  PROVE  /\ Sound(E, Append(t, r))
         /\ Len(Append(t, r)) = Len(t) + 1
         /\ Append(t, r)[ROOT] = t[ROOT]
<1> DEFINE u == Append(t, r)
<1>1. t \in Seq(NodeRec(E)) /\ DOMAIN t = 1..Len(t) /\ Len(t) \in Nat
  BY LenProperties DEF Sound
<1>2. /\ u \in Seq(NodeRec(E)) /\ Len(u) = Len(t) + 1
      /\ \A m \in 1..Len(t) : u[m] = t[m]
      /\ u[Len(t) + 1] = r
  BY <1>1, AppendProperties
<1>3. DOMAIN u = 1..(Len(t) + 1)
  BY <1>1, <1>2, LenProperties
<1> HIDE DEF u
<1>4. ROOT \in 1..Len(t) /\ RootSim \in 1..Len(t) /\ Len(t) + 1 # RootSim
  BY <1>1 DEF Sound, ROOT, RootSim
<1>5. SeedsHaveRegions(r.seeds)
  BY DEF SeedsHaveRegions
<1>6. \A n \in DOMAIN u : n \in DOMAIN t \/ n = Len(t) + 1
  BY <1>1, <1>3
<1>7. \A n \in DOMAIN u \ {RootSim} : SeedsHaveRegions(u[n].seeds)
  BY <1>1, <1>2, <1>5, <1>6 DEF Sound
<1>8. \A n \in DOMAIN u \ {ROOT} : u[n].parent \in DOMAIN u
  BY <1>1, <1>2, <1>3, <1>6 DEF Sound
<1>9. Sound(E, u)
  BY <1>1, <1>2, <1>4, <1>7, <1>8 DEF Sound
<1> QED
  BY <1>1, <1>2, <1>4, <1>9 DEF u

-----------------------------------------------------------------------------
(* The updates of the model                                                 *)

LEMMA NodeOfSound ==
  ASSUME NEW E, NEW t, Sound(E, t), NEW n \in DOMAIN t
  PROVE  t[n] \in NodeRec(E)
BY LenProperties, ElementOfSeq DEF Sound

LEMMA SetExploredSound ==
  ASSUME NEW E, NEW t, Sound(E, t), NEW n \in DOMAIN t, NEW b \in BOOLEAN
  PROVE  /\ Sound(E, SetExplored(t, n, b))
         /\ Len(SetExplored(t, n, b)) = Len(t)
         /\ DOMAIN SetExplored(t, n, b) = DOMAIN t
         /\ SetExplored(t, n, b)[n].explored = b
         /\ n # ROOT => SetExplored(t, n, b)[ROOT] = t[ROOT]
<1> DEFINE r == [t[n] EXCEPT !.explored = b]
<1>1. t[n] \in NodeRec(E)
  BY NodeOfSound
<1>2. /\ r \in NodeRec(E) /\ r.parent = t[n].parent /\ r.colour = t[n].colour
      /\ r.sim = t[n].sim /\ r.seeds = t[n].seeds /\ r.explored = b
  BY <1>1 DEF NodeRec
<1>3. SetExplored(t, n, b) = [t EXCEPT ![n] = r]
  BY DEF SetExplored
<1> HIDE DEF r
<1>4. n = ROOT => r.colour = White /\ r.sim = RootSim
  BY <1>2 DEF Sound
<1>5. n # RootSim => SeedsHaveRegions(r.seeds)
  BY <1>2 DEF Sound
<1>6. /\ Sound(E, [t EXCEPT ![n] = r]) /\ Len([t EXCEPT ![n] = r]) = Len(t)
      /\ DOMAIN [t EXCEPT ![n] = r] = DOMAIN t
      /\ \A m \in DOMAIN t : [t EXCEPT ![n] = r][m] = IF m = n THEN r ELSE t[m]
  BY <1>2, <1>4, <1>5, Overwrite
<1> QED
  BY <1>2, <1>3, <1>6

LEMMA CountSelectionSound ==
  ASSUME NEW E, NEW t, Sound(E, t), NEW n \in DOMAIN t, MaxSelected \in Nat
  PROVE  /\ Succeeds(E, t, CountSelection(t, n))
         /\ DOMAIN CountSelection(t, n) = DOMAIN t
<1> DEFINE c == IF t[n].selected < MaxSelected THEN t[n].selected + 1
                                               ELSE t[n].selected
           r == [t[n] EXCEPT !.selected = c]
<1>1. t[n] \in NodeRec(E)
  BY NodeOfSound
<1>c. c \in Nat
  BY <1>1 DEF NodeRec
<1> HIDE DEF c
<1>a. r \in NodeRec(E)
  BY <1>1, <1>c DEF NodeRec
<1>b. /\ r.parent = t[n].parent /\ r.colour = t[n].colour
      /\ r.sim = t[n].sim /\ r.seeds = t[n].seeds /\ r.explored = t[n].explored
  BY <1>1 DEF NodeRec
<1>2. /\ r \in NodeRec(E) /\ r.parent = t[n].parent /\ r.colour = t[n].colour
      /\ r.sim = t[n].sim /\ r.seeds = t[n].seeds /\ r.explored = t[n].explored
  BY <1>a, <1>b
<1>3. CountSelection(t, n) = [t EXCEPT ![n] = r]
  BY DEF CountSelection, c
<1> HIDE DEF r
<1>4. n = ROOT => r.colour = White /\ r.sim = RootSim
  BY <1>2 DEF Sound
<1>5. n # RootSim => SeedsHaveRegions(r.seeds)
  BY <1>2 DEF Sound
<1>6. ROOT \in DOMAIN t /\ Len(t) \in Nat
  BY LenProperties DEF Sound, ROOT, RootSim
<1>7. /\ Sound(E, [t EXCEPT ![n] = r]) /\ Len([t EXCEPT ![n] = r]) = Len(t)
      /\ DOMAIN [t EXCEPT ![n] = r] = DOMAIN t
      /\ \A m \in DOMAIN t : [t EXCEPT ![n] = r][m] = IF m = n THEN r ELSE t[m]
  BY <1>2, <1>4, <1>5, Overwrite
<1> QED
  BY <1>2, <1>3, <1>6, <1>7 DEF Succeeds

LEMMA AddSeedSound ==
  ASSUME NEW E, NEW t, Sound(E, t), NEW n \in Nat, NEW seed \in SeedRec(E),
         n # RootSim => HasRegionAfter(seed)
  PROVE  Succeeds(E, t, AddSeed(t, n, seed))
<1>1. ROOT \in DOMAIN t /\ Len(t) \in Nat /\ t \in Seq(NodeRec(E))
  BY LenProperties DEF Sound, ROOT, RootSim
<1>2. CASE n \notin DOMAIN t
  <2>1. AddSeed(t, n, seed) = t
    BY <1>2, <1>1, LenProperties DEF AddSeed
  <2> QED
    BY <1>1, <2>1 DEF Succeeds
<1>3. CASE n \in DOMAIN t
  <2> DEFINE q == Append(t[n].seeds, seed)
             r == [t[n] EXCEPT !.seeds = q]
  <2>1. t[n] \in NodeRec(E)
    BY <1>3, NodeOfSound
  <2>2. t[n].seeds \in Seq(SeedRec(E))
    BY <2>1 DEF NodeRec
  <2>3. /\ q \in Seq(SeedRec(E)) /\ Len(q) = Len(t[n].seeds) + 1
        /\ DOMAIN q = 1..Len(q) /\ Len(t[n].seeds) \in Nat
        /\ DOMAIN t[n].seeds = 1..Len(t[n].seeds)
        /\ \A i \in 1..Len(t[n].seeds) : q[i] = t[n].seeds[i]
        /\ q[Len(t[n].seeds) + 1] = seed
    BY <2>2, AppendProperties, LenProperties
  <2> HIDE DEF q
  <2>4. /\ r \in NodeRec(E) /\ r.parent = t[n].parent /\ r.colour = t[n].colour
        /\ r.sim = t[n].sim /\ r.seeds = q /\ r.explored = t[n].explored
    BY <2>1, <2>3 DEF NodeRec
  <2>5. AddSeed(t, n, seed) = [t EXCEPT ![n] = r]
    BY DEF AddSeed, q
  <2> HIDE DEF r
  <2>6. n # RootSim => SeedsHaveRegions(q)
    <3>1. SUFFICES ASSUME n # RootSim PROVE \A i \in DOMAIN q : HasRegionAfter(q[i])
      BY DEF SeedsHaveRegions
    <3>2. SeedsHaveRegions(t[n].seeds)
      BY <1>3, <3>1 DEF Sound
    <3> QED
      BY <2>3, <3>1, <3>2 DEF SeedsHaveRegions
  <2>7. n = ROOT => r.colour = White /\ r.sim = RootSim
    BY <2>4 DEF Sound
  <2>8. /\ Sound(E, [t EXCEPT ![n] = r]) /\ Len([t EXCEPT ![n] = r]) = Len(t)
        /\ [t EXCEPT ![n] = r][ROOT] = IF ROOT = n THEN r ELSE t[ROOT]
    BY <1>1, <1>3, <2>4, <2>6, <2>7, Overwrite
  <2> QED
    BY <1>1, <2>4, <2>5, <2>8 DEF Succeeds
<1> QED
  BY <1>2, <1>3

(* Counting in one seed of a list leaves the list what it is for Sound.     *)
LEMMA SeedCount ==
  ASSUME NEW E, NEW seeds \in Seq(SeedRec(E)), NEW s \in Nat, NEW x,
         s \in DOMAIN seeds => /\ x \in SeedRec(E)
                              /\ x.entry = seeds[s].entry
                              /\ x.region = seeds[s].region
  PROVE  /\ [seeds EXCEPT ![s] = x] \in Seq(SeedRec(E))
         /\ DOMAIN [seeds EXCEPT ![s] = x] = DOMAIN seeds
         /\ SeedsHaveRegions(seeds) => SeedsHaveRegions([seeds EXCEPT ![s] = x])
<1>1. DOMAIN seeds = 1..Len(seeds) /\ Len(seeds) \in Nat
  BY LenProperties
<1>2. CASE s \notin DOMAIN seeds
  <2>1. [seeds EXCEPT ![s] = x] = seeds
    BY <1>1, <1>2, LenProperties
  <2> QED
    BY <2>1
<1>3. CASE s \in DOMAIN seeds
  <2>1. /\ [seeds EXCEPT ![s] = x] \in Seq(SeedRec(E))
        /\ Len([seeds EXCEPT ![s] = x]) = Len(seeds)
        /\ \A j \in 1..Len(seeds) :
             [seeds EXCEPT ![s] = x][j] = IF j = s THEN x ELSE seeds[j]
    BY <1>1, <1>3, ExceptSeq
  <2>2. DOMAIN [seeds EXCEPT ![s] = x] = 1..Len(seeds)
    BY <2>1, LenProperties
  <2> QED
    BY <1>1, <1>3, <2>1, <2>2 DEF SeedsHaveRegions, HasRegionAfter
<1> QED
  BY <1>2, <1>3

LEMMA CountSeedSelectionSound ==
  ASSUME NEW E, NEW t, Sound(E, t), NEW n \in DOMAIN t, NEW s \in Nat
  PROVE  /\ Succeeds(E, t, CountSeedSelection(t, n, s))
         /\ DOMAIN CountSeedSelection(t, n, s) = DOMAIN t
         /\ DOMAIN CountSeedSelection(t, n, s)[n].seeds = DOMAIN t[n].seeds
<1> DEFINE x == [t[n].seeds[s] EXCEPT !.selected = @ + 1]
           q == [t[n].seeds EXCEPT ![s] = x]
           r == [t[n] EXCEPT !.seeds = q]
<1>1. t[n] \in NodeRec(E)
  BY NodeOfSound
<1>2. t[n].seeds \in Seq(SeedRec(E))
  BY <1>1 DEF NodeRec
<1>3. s \in DOMAIN t[n].seeds =>
        x \in SeedRec(E) /\ x.entry = t[n].seeds[s].entry
        /\ x.region = t[n].seeds[s].region
  <2>1. SUFFICES ASSUME s \in DOMAIN t[n].seeds
                 PROVE  /\ x \in SeedRec(E) /\ x.entry = t[n].seeds[s].entry
                        /\ x.region = t[n].seeds[s].region
    OBVIOUS
  <2>2. t[n].seeds[s] \in SeedRec(E)
    BY <1>2, <2>1, LenProperties, ElementOfSeq
  <2> QED
    BY <2>2 DEF SeedRec
<1>4. /\ q \in Seq(SeedRec(E)) /\ DOMAIN q = DOMAIN t[n].seeds
      /\ SeedsHaveRegions(t[n].seeds) => SeedsHaveRegions(q)
  <2> HIDE DEF x
  <2> QED
    BY <1>2, <1>3, SeedCount
<1>5. CountSeedSelection(t, n, s) = [t EXCEPT ![n] = r]
  BY DEF CountSeedSelection
<1> HIDE DEF q
<1>6. /\ r \in NodeRec(E) /\ r.parent = t[n].parent /\ r.colour = t[n].colour
      /\ r.sim = t[n].sim /\ r.seeds = q /\ r.explored = t[n].explored
  BY <1>1, <1>4 DEF NodeRec
<1> HIDE DEF r
<1>7. n # RootSim => SeedsHaveRegions(r.seeds)
  BY <1>4, <1>6 DEF Sound
<1>8. n = ROOT => r.colour = White /\ r.sim = RootSim
  BY <1>6 DEF Sound
<1>9. /\ Sound(E, [t EXCEPT ![n] = r]) /\ Len([t EXCEPT ![n] = r]) = Len(t)
      /\ DOMAIN [t EXCEPT ![n] = r] = DOMAIN t
      /\ \A m \in DOMAIN t : [t EXCEPT ![n] = r][m] = IF m = n THEN r ELSE t[m]
  BY <1>6, <1>7, <1>8, Overwrite
<1>10. ROOT \in DOMAIN t /\ Len(t) \in Nat
  BY LenProperties DEF Sound, ROOT, RootSim
<1> QED
  BY <1>4, <1>5, <1>6, <1>9, <1>10 DEF Succeeds

LEMMA CountDiscoverySound ==
  ASSUME NEW E, NEW t, Sound(E, t), NEW n \in DOMAIN t
  PROVE  Succeeds(E, t, CountDiscovery(t, n)) /\ DOMAIN CountDiscovery(t, n) = DOMAIN t
<1> DEFINE d == t[n].discovered + 1
           r == [t[n] EXCEPT !.discovered = d]
<1>1. t[n] \in NodeRec(E)
  BY NodeOfSound
<1>2. d \in Nat
  BY <1>1 DEF NodeRec
<1>3. CountDiscovery(t, n) = [t EXCEPT ![n] = r]
  BY DEF CountDiscovery
<1> HIDE DEF d
<1>4. /\ r \in NodeRec(E) /\ r.parent = t[n].parent /\ r.colour = t[n].colour
      /\ r.sim = t[n].sim /\ r.seeds = t[n].seeds /\ r.explored = t[n].explored
  BY <1>2, <1>1 DEF NodeRec
<1> HIDE DEF r
<1>5. n = ROOT => r.colour = White /\ r.sim = RootSim
  BY <1>4 DEF Sound
<1>6. n # RootSim => SeedsHaveRegions(r.seeds)
  BY <1>4 DEF Sound
<1>7. ROOT \in DOMAIN t /\ Len(t) \in Nat
  BY LenProperties DEF Sound, ROOT, RootSim
<1>8. /\ Sound(E, [t EXCEPT ![n] = r]) /\ Len([t EXCEPT ![n] = r]) = Len(t)
      /\ DOMAIN [t EXCEPT ![n] = r] = DOMAIN t
      /\ \A m \in DOMAIN t : [t EXCEPT ![n] = r][m] = IF m = n THEN r ELSE t[m]
  BY <1>4, <1>5, <1>6, Overwrite
<1> QED
  BY <1>4, <1>3, <1>7, <1>8 DEF Succeeds

LEMMA CountSeedDiscoverySound ==
  ASSUME NEW E, NEW t, Sound(E, t), NEW n \in DOMAIN t, NEW s \in Nat
  PROVE  Succeeds(E, t, CountSeedDiscovery(t, n, s)) /\ DOMAIN CountSeedDiscovery(t, n, s) = DOMAIN t
<1> DEFINE x == [t[n].seeds[s] EXCEPT !.discovered = @ + 1]
           q == [t[n].seeds EXCEPT ![s] = x]
           r == [t[n] EXCEPT !.seeds = q]
<1>1. t[n] \in NodeRec(E)
  BY NodeOfSound
<1>2. t[n].seeds \in Seq(SeedRec(E))
  BY <1>1 DEF NodeRec
<1>3. s \in DOMAIN t[n].seeds =>
        x \in SeedRec(E) /\ x.entry = t[n].seeds[s].entry
        /\ x.region = t[n].seeds[s].region
  <2>1. SUFFICES ASSUME s \in DOMAIN t[n].seeds
                 PROVE  /\ x \in SeedRec(E) /\ x.entry = t[n].seeds[s].entry
                        /\ x.region = t[n].seeds[s].region
    OBVIOUS
  <2>2. t[n].seeds[s] \in SeedRec(E)
    BY <1>2, <2>1, LenProperties, ElementOfSeq
  <2> QED
    BY <2>2 DEF SeedRec
<1>4. /\ q \in Seq(SeedRec(E)) /\ DOMAIN q = DOMAIN t[n].seeds
      /\ SeedsHaveRegions(t[n].seeds) => SeedsHaveRegions(q)
  <2> HIDE DEF x
  <2> QED
    BY <1>2, <1>3, SeedCount
<1>5. CountSeedDiscovery(t, n, s) = [t EXCEPT ![n] = r]
  BY DEF CountSeedDiscovery
<1> HIDE DEF q
<1>6. /\ r \in NodeRec(E) /\ r.parent = t[n].parent /\ r.colour = t[n].colour
      /\ r.sim = t[n].sim /\ r.seeds = q /\ r.explored = t[n].explored
  BY <1>1, <1>4 DEF NodeRec
<1> HIDE DEF r
<1>7. n # RootSim => SeedsHaveRegions(r.seeds)
  BY <1>4, <1>6 DEF Sound
<1>8. n = ROOT => r.colour = White /\ r.sim = RootSim
  BY <1>6 DEF Sound
<1>9. /\ Sound(E, [t EXCEPT ![n] = r]) /\ Len([t EXCEPT ![n] = r]) = Len(t)
      /\ DOMAIN [t EXCEPT ![n] = r] = DOMAIN t
      /\ \A m \in DOMAIN t : [t EXCEPT ![n] = r][m] = IF m = n THEN r ELSE t[m]
  BY <1>6, <1>7, <1>8, Overwrite
<1>10. ROOT \in DOMAIN t /\ Len(t) \in Nat
  BY LenProperties DEF Sound, ROOT, RootSim
<1> QED
  BY <1>5, <1>6, <1>9, <1>10 DEF Succeeds

LEMMA CreditSeedSound ==
  ASSUME NEW E, NEW t, Sound(E, t), NEW n \in DOMAIN t, NEW s \in Nat
  PROVE  Succeeds(E, t, CreditSeed(t, n, s)) /\ DOMAIN CreditSeed(t, n, s) = DOMAIN t
<1> DEFINE u == CountDiscovery(t, n)
<1>1. Succeeds(E, t, u) /\ DOMAIN u = DOMAIN t
  BY CountDiscoverySound
<1>2. Sound(E, u)
  BY <1>1 DEF Succeeds
<1> HIDE DEF u
<1>3. /\ Succeeds(E, u, CountSeedDiscovery(u, n, s))
      /\ DOMAIN CountSeedDiscovery(u, n, s) = DOMAIN u
  BY <1>1, <1>2, CountSeedDiscoverySound
<1>4. Succeeds(E, t, CountSeedDiscovery(u, n, s))
  BY <1>1, <1>3, SucceedsTrans
<1> QED
  BY <1>1, <1>3, <1>4 DEF CreditSeed, u

LEMMA CreditPathSound ==
  ASSUME NEW E, NEW t, Sound(E, t), NEW n
  PROVE  Succeeds(E, t, CreditPath(t, n)) /\ DOMAIN CreditPath(t, n) = DOMAIN t
<1> DEFINE line == Lineage(t, n)
           c(m) == IF m \in line THEN CountDiscovery(t, m)[m] ELSE t[m]
           u == [m \in 1..Len(t) |-> c(m)]
<1>1. DOMAIN t = 1..Len(t) /\ Len(t) \in Nat /\ ROOT \in DOMAIN t
      /\ RootSim \in DOMAIN t
  BY LenProperties DEF Sound, ROOT, RootSim
<1>2. CreditPath(t, n) = u
  BY <1>1 DEF CreditPath, CountDiscovery
<1> HIDE DEF line
<1>3. \A m \in DOMAIN t :
        /\ c(m) \in NodeRec(E) /\ c(m).parent = t[m].parent
        /\ c(m).colour = t[m].colour /\ c(m).sim = t[m].sim
        /\ c(m).seeds = t[m].seeds /\ c(m).explored = t[m].explored
  <2>1. SUFFICES ASSUME NEW m \in DOMAIN t
                 PROVE  /\ c(m) \in NodeRec(E) /\ c(m).parent = t[m].parent
                        /\ c(m).colour = t[m].colour /\ c(m).sim = t[m].sim
                        /\ c(m).seeds = t[m].seeds /\ c(m).explored = t[m].explored
    OBVIOUS
  <2> DEFINE d == t[m].discovered + 1
             r == [t[m] EXCEPT !.discovered = d]
  <2>2. t[m] \in NodeRec(E)
    BY <2>1, NodeOfSound
  <2>3. d \in Nat
    BY <2>2 DEF NodeRec
  <2>4. CountDiscovery(t, m)[m] = r
    BY <2>1 DEF CountDiscovery
  <2> HIDE DEF d
  <2>5. /\ r \in NodeRec(E) /\ r.parent = t[m].parent /\ r.colour = t[m].colour
        /\ r.sim = t[m].sim /\ r.seeds = t[m].seeds /\ r.explored = t[m].explored
    BY <2>2, <2>3 DEF NodeRec
  <2> HIDE DEF r
  <2> QED
    BY <2>2, <2>4, <2>5
<1> HIDE DEF c
<1>4. /\ u \in Seq(NodeRec(E)) /\ Len(u) = Len(t) /\ DOMAIN u = DOMAIN t
      /\ \A m \in DOMAIN t : u[m] = c(m)
  <2>1. u \in [1..Len(t) -> NodeRec(E)]
    BY <1>1, <1>3
  <2> QED
    BY <1>1, <2>1
<1> HIDE DEF u
<1>5. Sound(E, u)
  BY <1>1, <1>3, <1>4 DEF Sound
<1> QED
  BY <1>1, <1>2, <1>3, <1>4, <1>5 DEF Succeeds

LEMMA NewNodeType ==
  ASSUME NEW E, NEW id \in Nat, NEW parent \in Nat, NEW colour \in Colours,
         NEW path \in Seq(Nat)
  PROVE  /\ NewNode(id, parent, colour, path) \in NodeRec(E)
         /\ NewNode(id, parent, colour, path).parent = parent
         /\ NewNode(id, parent, colour, path).seeds = <<>>
         /\ NewNode(id, parent, colour, path).colour = colour
BY EmptySeq DEF NewNode, NodeRec, NoNode

LEMMA AppendChildSound ==
  ASSUME NEW E, NEW t, Sound(E, t), NEW p \in DOMAIN t, NEW id \in Nat,
         NEW colour \in {White, Black}, NEW path \in Seq(Nat)
  PROVE  /\ Succeeds(E, t, AppendChild(t, p, id, colour, path))
         /\ Len(AppendChild(t, p, id, colour, path)) >= Len(t) + 1
<1> DEFINE n == Len(t) + 1
           plain == NewNode(id, p, colour, path)
           sim == NewNode(SimId, n, Golden, path)
<1>1. t \in Seq(NodeRec(E)) /\ DOMAIN t = 1..Len(t) /\ Len(t) \in Nat
      /\ ROOT \in DOMAIN t /\ p \in Nat
  BY LenProperties DEF Sound, ROOT, RootSim
<1>2. CASE colour # White
  <2>1. AppendChild(t, p, id, colour, path) = Append(t, plain)
    BY <1>2 DEF AppendChild
  <2>2. plain \in NodeRec(E) /\ plain.parent \in DOMAIN t /\ plain.seeds = <<>>
    BY <1>1, NewNodeType DEF Colours
  <2> HIDE DEF plain
  <2> QED
    BY <1>1, <2>1, <2>2, Extend DEF Succeeds
<1>3. CASE colour = White
  <2> DEFINE k == n + 1
             white == [NewNode(id, p, White, path) EXCEPT !.sim = k]
             w == Append(t, white)
  <2>1. k \in Nat /\ n \in Nat
    BY <1>1
  <2>2. AppendChild(t, p, id, colour, path) = t \o <<white, sim>>
    BY <1>3 DEF AppendChild
  <2> HIDE DEF k
  <2>3. /\ NewNode(id, p, White, path) \in NodeRec(E)
        /\ NewNode(id, p, White, path).parent = p
        /\ NewNode(id, p, White, path).seeds = <<>>
    BY <1>1, NewNodeType DEF Colours
  <2>4. white \in NodeRec(E) /\ white.parent \in DOMAIN t /\ white.seeds = <<>>
    <3> DEFINE x == NewNode(id, p, White, path)
    <3>1. x \in NodeRec(E) /\ x.parent = p /\ x.seeds = <<>>
      BY <2>3
    <3> HIDE DEF x
    <3>2. [x EXCEPT !.sim = k] \in NodeRec(E) /\ [x EXCEPT !.sim = k].parent = p
          /\ [x EXCEPT !.sim = k].seeds = <<>>
      BY <2>1, <3>1 DEF NodeRec
    <3> QED
      BY <3>2 DEF x
  <2>5. sim \in NodeRec(E) /\ sim.parent = n /\ sim.seeds = <<>>
    BY <2>1, NewNodeType DEF Colours, SimId
  <2> HIDE DEF white, sim
  <2>6. t \o <<white, sim>> = Append(w, sim)
    BY <1>1, <2>4, <2>5
  <2>7. Sound(E, w) /\ Len(w) = n /\ w[ROOT] = t[ROOT]
    BY <2>4, Extend
  <2> HIDE DEF w
  <2>8. DOMAIN w = 1..n
    BY <2>7, LenProperties DEF Sound
  <2>9. sim.parent \in DOMAIN w
    BY <1>1, <2>5, <2>8
  <2>10. /\ Sound(E, Append(w, sim)) /\ Len(Append(w, sim)) = n + 1
         /\ Append(w, sim)[ROOT] = t[ROOT]
    BY <2>5, <2>7, <2>9, Extend
  <2>11. Len(Append(w, sim)) >= Len(t) + 1 /\ Len(Append(w, sim)) >= Len(t)
    BY <1>1, <2>10
  <2>12. AppendChild(t, p, id, colour, path) = Append(w, sim)
    BY <2>2, <2>6
  <2>13. Succeeds(E, t, Append(w, sim))
    BY <2>10, <2>11 DEF Succeeds
  <2> QED
    BY <2>11, <2>12, <2>13
<1> QED
  BY <1>2, <1>3

LEMMA FlipSound ==
  ASSUME NEW E, NEW t, Sound(E, t), NEW n \in DOMAIN t, n # ROOT,
         NEW path \in Seq(Nat)
  PROVE  Succeeds(E, t, Flip(t, n, path))
<1> DEFINE m == Len(t) + 1
           r == [t[n] EXCEPT !.colour = White, !.sim = m]
           u == [t EXCEPT ![n] = r]
           sim == NewNode(SimId, n, Golden, path)
<1>1. t \in Seq(NodeRec(E)) /\ DOMAIN t = 1..Len(t) /\ Len(t) \in Nat
      /\ ROOT \in DOMAIN t /\ n \in Nat /\ t[n] \in NodeRec(E)
  BY LenProperties, NodeOfSound DEF Sound, ROOT, RootSim
<1>2. m \in Nat
  BY <1>1
<1>3. Flip(t, n, path) = Append(u, sim)
  BY <1>1 DEF Flip
<1> HIDE DEF m
<1>4. r \in NodeRec(E) /\ r.parent = t[n].parent /\ r.seeds = t[n].seeds
  BY <1>1, <1>2 DEF NodeRec, Colours
<1> HIDE DEF r
<1>5. n # RootSim => SeedsHaveRegions(r.seeds)
  BY <1>4 DEF Sound
<1>6. /\ Sound(E, u) /\ Len(u) = Len(t) /\ DOMAIN u = DOMAIN t
      /\ u[ROOT] = t[ROOT]
  BY <1>1, <1>4, <1>5, Overwrite
<1> HIDE DEF u
<1>a. SimId \in Nat /\ Golden \in Colours
  BY DEF Colours, SimId
<1>b. sim \in NodeRec(E) /\ sim.parent = n /\ sim.seeds = <<>>
  BY <1>1, <1>a, NewNodeType
<1>c. n \in DOMAIN u
  BY <1>6
<1>7. sim \in NodeRec(E) /\ sim.parent \in DOMAIN u /\ sim.seeds = <<>>
  BY <1>b, <1>c
<1> HIDE DEF sim
<1>8. /\ Sound(E, Append(u, sim)) /\ Len(Append(u, sim)) = Len(u) + 1
      /\ Append(u, sim)[ROOT] = u[ROOT]
  BY <1>6, <1>7, Extend
<1> QED
  BY <1>1, <1>3, <1>6, <1>8 DEF Succeeds

-----------------------------------------------------------------------------
(* The choices of the model stay inside the tree                            *)

LEMMA ExistsChildInTree ==
  ASSUME NEW E, NEW t, Sound(E, t), NEW n, NEW id,
         ExistsChild(t, n, id) # NoNode
  PROVE  ExistsChild(t, n, id) \in DOMAIN t
<1> DEFINE matches == {c \in Children(t, n) : t[c].id = id}
<1>1. DOMAIN t \subseteq Nat
  BY LenProperties DEF Sound
<1>2. matches \in SUBSET Nat /\ matches \subseteq DOMAIN t
  BY <1>1 DEF Children
<1>3. matches # {} /\ ExistsChild(t, n, id) = Min(matches)
  BY DEF ExistsChild
<1> HIDE DEF matches
<1> QED
  BY <1>2, <1>3, MinIsLeast

LEMMA BestChildrenAreChildren ==
  ASSUME NEW t, NEW n
  PROVE  BestChildren(t, n) \subseteq Children(t, n)
BY DEF BestChildren

LEMMA BestSeedsAreSeeds ==
  ASSUME NEW t, NEW n
  PROVE  BestSeeds(t, n) \subseteq DOMAIN t[n].seeds
BY DEF BestSeeds

LEMMA MatchRegionInEntry ==
  ASSUME NEW e, WellFormed(e), NEW k, NEW from \in Nat \ {0},
         MatchRegion(e, k, from) # NoRegion
  PROVE  MatchRegion(e, k, from) \in 1..Len(e.counts)
<1> DEFINE hits == {r \in from..Len(e.counts) : r <= Len(e.codes) /\ k <= e.counts[r]}
<1>1. Len(e.counts) \in Nat
  BY LenProperties DEF WellFormed
<1>2. hits \in SUBSET Nat /\ hits \subseteq 1..Len(e.counts)
  BY <1>1
<1>3. hits # {} /\ MatchRegion(e, k, from) = Min(hits)
  BY DEF MatchRegion
<1> HIDE DEF hits
<1> QED
  BY <1>2, <1>3, MinIsLeast

(* A seed kept at a node has a region after its own: the counts end at the  *)
(* length of the whole sequence.                                            *)
LEMMA FittingSeedHasRegionAfter ==
  ASSUME NEW e, WellFormed(e), NEW r \in 1..Len(e.counts), SeedFits(e, r)
  PROVE  r < Len(e.counts)
<1>1. Len(e.counts) \in Nat /\ e.counts \in Seq(Nat) /\ e.codes \in Seq(Nat)
  BY LenProperties DEF WellFormed
<1>2. e.counts[r] \in Nat /\ Len(e.codes) \in Nat
  BY <1>1, ElementOfSeq, LenProperties
<1>3. e.counts[r] # e.counts[Len(e.counts)]
  BY <1>2 DEF WellFormed, SeedFits
<1> QED
  BY <1>1, <1>3

(* find_M2_region returns at least one region if it starts inside the seed. *)
LEMMA M2CountPositive ==
  ASSUME NEW e, WellFormed(e), NEW start \in 1..Len(e.counts), NEW fuzzM3 \in BOOLEAN
  PROVE  M2Count(e, start, fuzzM3) \in Nat /\ M2Count(e, start, fuzzM3) >= 1
<1> DEFINE differs == {r \in start..Len(e.counts) : e.counts[r] # e.counts[start]}
<1>1. Len(e.counts) \in Nat /\ start \in Nat
  BY LenProperties DEF WellFormed
<1>2. CASE fuzzM3 \/ differs = {}
  <2>1. M2Count(e, start, fuzzM3) = (Len(e.counts) + 1) - start
    BY <1>2 DEF M2Count
  <2> QED
    BY <1>1, <2>1
<1>3. CASE ~(fuzzM3 \/ differs = {})
  <2>1. M2Count(e, start, fuzzM3) = Min(differs) - start
    BY <1>3 DEF M2Count
  <2>2. differs \in SUBSET Nat /\ differs # {}
        /\ \A r \in differs : r > start
    BY <1>1, <1>3
  <2> HIDE DEF differs
  <2>3. Min(differs) \in Nat /\ Min(differs) > start
    BY <2>2, MinIsLeast
  <2> QED
    BY <1>1, <2>1, <2>3
<1> QED
  BY <1>2, <1>3

-----------------------------------------------------------------------------
(* What an update leaves as it was                                          *)

(* The shape: who is whose child, with which code, colour and path.       *)
SameShape(t, u) ==
  /\ DOMAIN u = DOMAIN t
  /\ \A n \in DOMAIN t :
       /\ u[n].id = t[n].id /\ u[n].parent = t[n].parent /\ u[n].colour = t[n].colour
       /\ u[n].path = t[n].path /\ u[n].sim = t[n].sim

(* Which seeds a node has, not how often they were selected or credited.  *)
SameSeedList(s, q) ==
  /\ DOMAIN q = DOMAIN s
  /\ \A i \in DOMAIN s : q[i].entry = s[i].entry /\ q[i].region = s[i].region

SameSeeds(t, u) == \A n \in DOMAIN t : SameSeedList(t[n].seeds, u[n].seeds)

SameExplored(t, u) == \A n \in DOMAIN t : u[n].explored = t[n].explored

(* Everything Selection and Expansion look at but the counters.           *)
OnlyCounts(t, u) == SameShape(t, u) /\ SameSeeds(t, u) /\ SameExplored(t, u)

LEMMA OnlyCountsTrans ==
  ASSUME NEW t, NEW u, NEW v, OnlyCounts(t, u), OnlyCounts(u, v)
  PROVE  OnlyCounts(t, v)
BY DEF OnlyCounts, SameShape, SameSeeds, SameSeedList, SameExplored

(* Overwriting a node changes that node only.                             *)
LEMMA OverwriteAt ==
  ASSUME NEW E, NEW t, Sound(E, t), NEW n \in DOMAIN t, NEW r
  PROVE  /\ DOMAIN [t EXCEPT ![n] = r] = DOMAIN t
         /\ \A m \in DOMAIN t : [t EXCEPT ![n] = r][m] = IF m = n THEN r ELSE t[m]
<1>1. t \in Seq(NodeRec(E)) /\ DOMAIN t = 1..Len(t) /\ Len(t) \in Nat
  BY LenProperties DEF Sound
<1> QED
  BY <1>1

(* A record with the same shape, seeds and mark in place of a node.       *)
LEMMA OverwriteCounts ==
  ASSUME NEW E, NEW t, Sound(E, t), NEW n \in DOMAIN t, NEW r,
         r.id = t[n].id, r.parent = t[n].parent, r.colour = t[n].colour,
         r.path = t[n].path, r.sim = t[n].sim, r.explored = t[n].explored,
         SameSeedList(t[n].seeds, r.seeds)
  PROVE  OnlyCounts(t, [t EXCEPT ![n] = r])
<1> DEFINE u == [t EXCEPT ![n] = r]
<1>1. /\ DOMAIN u = DOMAIN t
      /\ \A m \in DOMAIN t : u[m] = IF m = n THEN r ELSE t[m]
  BY OverwriteAt
<1> HIDE DEF u
<1>2. \A m \in DOMAIN t : SameSeedList(t[m].seeds, u[m].seeds)
  BY <1>1 DEF SameSeedList
<1>3. SameShape(t, u)
  BY <1>1 DEF SameShape
<1>4. SameExplored(t, u)
  BY <1>1 DEF SameExplored
<1> QED
  BY <1>2, <1>3, <1>4 DEF OnlyCounts, SameSeeds, u

LEMMA SetExploredKeeps ==
  ASSUME NEW E, NEW t, Sound(E, t), NEW n \in DOMAIN t, NEW b \in BOOLEAN
  PROVE  /\ SameShape(t, SetExplored(t, n, b)) /\ SameSeeds(t, SetExplored(t, n, b))
         /\ \A m \in DOMAIN t :
              /\ SetExplored(t, n, b)[m].explored = IF m = n THEN b ELSE t[m].explored
              /\ SetExplored(t, n, b)[m].discovered = t[m].discovered
              /\ SetExplored(t, n, b)[m].seeds = t[m].seeds
<1> DEFINE r == [t[n] EXCEPT !.explored = b]
           u == [t EXCEPT ![n] = r]
<1>1. t[n] \in NodeRec(E)
  BY NodeOfSound
<1>2. /\ r.id = t[n].id /\ r.parent = t[n].parent /\ r.colour = t[n].colour
      /\ r.path = t[n].path /\ r.sim = t[n].sim /\ r.explored = b
      /\ r.seeds = t[n].seeds /\ r.discovered = t[n].discovered
  BY <1>1 DEF NodeRec
<1>3. SetExplored(t, n, b) = u
  BY DEF SetExplored
<1> HIDE DEF r
<1>4. /\ DOMAIN u = DOMAIN t
      /\ \A m \in DOMAIN t : u[m] = IF m = n THEN r ELSE t[m]
  BY OverwriteAt
<1> HIDE DEF u
<1>5. SameShape(t, u)
  BY <1>2, <1>4 DEF SameShape
<1>6. SameSeeds(t, u)
  BY <1>2, <1>4 DEF SameSeeds, SameSeedList
<1> QED
  BY <1>2, <1>3, <1>4, <1>5, <1>6

LEMMA CountSelectionKeeps ==
  ASSUME NEW E, NEW t, Sound(E, t), NEW n \in DOMAIN t
  PROVE  /\ OnlyCounts(t, CountSelection(t, n))
         /\ \A m \in DOMAIN t : /\ CountSelection(t, n)[m].discovered = t[m].discovered
                               /\ CountSelection(t, n)[m].seeds = t[m].seeds
<1> DEFINE c == IF t[n].selected < MaxSelected THEN t[n].selected + 1
                                               ELSE t[n].selected
           r == [t[n] EXCEPT !.selected = c]
<1>1. t[n] \in NodeRec(E)
  BY NodeOfSound
<1>2. CountSelection(t, n) = [t EXCEPT ![n] = r]
  BY DEF CountSelection
<1> HIDE DEF c
<1>3. /\ r.id = t[n].id /\ r.parent = t[n].parent /\ r.colour = t[n].colour
      /\ r.path = t[n].path /\ r.sim = t[n].sim /\ r.explored = t[n].explored
      /\ r.seeds = t[n].seeds /\ r.discovered = t[n].discovered
  BY <1>1 DEF NodeRec
<1> HIDE DEF r
<1>4. SameSeedList(t[n].seeds, r.seeds)
  BY <1>3 DEF SameSeedList
<1>5. OnlyCounts(t, [t EXCEPT ![n] = r])
  BY <1>3, <1>4, OverwriteCounts
<1>6. \A m \in DOMAIN t : [t EXCEPT ![n] = r][m] = IF m = n THEN r ELSE t[m]
  BY OverwriteAt
<1> QED
  BY <1>2, <1>3, <1>5, <1>6

LEMMA AddSeedKeeps ==
  ASSUME NEW E, NEW t, Sound(E, t), NEW n \in DOMAIN t, NEW seed \in SeedRec(E)
  PROVE  /\ SameShape(t, AddSeed(t, n, seed)) /\ SameExplored(t, AddSeed(t, n, seed))
         /\ \A m \in DOMAIN t :
              /\ AddSeed(t, n, seed)[m].discovered = t[m].discovered
              /\ AddSeed(t, n, seed)[m].seeds
                   = IF m = n THEN Append(t[m].seeds, seed) ELSE t[m].seeds
<1> DEFINE q == Append(t[n].seeds, seed)
           r == [t[n] EXCEPT !.seeds = q]
           u == [t EXCEPT ![n] = r]
<1>1. t[n] \in NodeRec(E)
  BY NodeOfSound
<1>2. AddSeed(t, n, seed) = u
  BY DEF AddSeed
<1> HIDE DEF q
<1>3. /\ r.id = t[n].id /\ r.parent = t[n].parent /\ r.colour = t[n].colour
      /\ r.path = t[n].path /\ r.sim = t[n].sim /\ r.explored = t[n].explored
      /\ r.seeds = q /\ r.discovered = t[n].discovered
  BY <1>1 DEF NodeRec
<1> HIDE DEF r
<1>4. /\ DOMAIN u = DOMAIN t
      /\ \A m \in DOMAIN t : u[m] = IF m = n THEN r ELSE t[m]
  BY OverwriteAt
<1> HIDE DEF u
<1>5. SameShape(t, u)
  BY <1>3, <1>4 DEF SameShape
<1>6. SameExplored(t, u)
  BY <1>3, <1>4 DEF SameExplored
<1>7. \A m \in DOMAIN t : /\ u[m].discovered = t[m].discovered
                         /\ u[m].seeds = IF m = n THEN q ELSE t[m].seeds
  BY <1>3, <1>4
<1> QED
  BY <1>2, <1>5, <1>6, <1>7 DEF q

(* A seed with the entry and region of the one it replaces.               *)
LEMMA SeedReplaced ==
  ASSUME NEW E, NEW seeds \in Seq(SeedRec(E)), NEW s, NEW x,
         s \in DOMAIN seeds => x.entry = seeds[s].entry /\ x.region = seeds[s].region
  PROVE  SameSeedList(seeds, [seeds EXCEPT ![s] = x])
BY LenProperties DEF SameSeedList

LEMMA SeedCounted ==
  ASSUME NEW E, NEW seed \in SeedRec(E)
  PROVE  /\ [seed EXCEPT !.selected = @ + 1].entry = seed.entry
         /\ [seed EXCEPT !.selected = @ + 1].region = seed.region
         /\ [seed EXCEPT !.discovered = @ + 1].entry = seed.entry
         /\ [seed EXCEPT !.discovered = @ + 1].region = seed.region
BY DEF SeedRec

LEMMA CountSeedSelectionKeeps ==
  ASSUME NEW E, NEW t, Sound(E, t), NEW n \in DOMAIN t, NEW s
  PROVE  /\ OnlyCounts(t, CountSeedSelection(t, n, s))
         /\ \A m \in DOMAIN t : CountSeedSelection(t, n, s)[m].discovered = t[m].discovered
<1> DEFINE x == [t[n].seeds[s] EXCEPT !.selected = @ + 1]
           q == [t[n].seeds EXCEPT ![s] = x]
           r == [t[n] EXCEPT !.seeds = q]
<1>1. t[n] \in NodeRec(E)
  BY NodeOfSound
<1>2. t[n].seeds \in Seq(SeedRec(E))
  BY <1>1 DEF NodeRec
<1>3. s \in DOMAIN t[n].seeds => x.entry = t[n].seeds[s].entry /\ x.region = t[n].seeds[s].region
  <2>1. SUFFICES ASSUME s \in DOMAIN t[n].seeds
                 PROVE  x.entry = t[n].seeds[s].entry /\ x.region = t[n].seeds[s].region
    OBVIOUS
  <2>2. t[n].seeds[s] \in SeedRec(E)
    BY <1>2, <2>1, LenProperties, ElementOfSeq
  <2> QED
    BY <2>2, SeedCounted
<1>4. CountSeedSelection(t, n, s) = [t EXCEPT ![n] = r]
  BY DEF CountSeedSelection
<1> HIDE DEF x
<1>5. SameSeedList(t[n].seeds, q)
  BY <1>2, <1>3, SeedReplaced
<1> HIDE DEF q
<1>6. /\ r.id = t[n].id /\ r.parent = t[n].parent /\ r.colour = t[n].colour
      /\ r.path = t[n].path /\ r.sim = t[n].sim /\ r.explored = t[n].explored
      /\ r.seeds = q /\ r.discovered = t[n].discovered
  BY <1>1 DEF NodeRec
<1> HIDE DEF r
<1>7. OnlyCounts(t, [t EXCEPT ![n] = r])
  BY <1>5, <1>6, OverwriteCounts
<1>8. \A m \in DOMAIN t : [t EXCEPT ![n] = r][m] = IF m = n THEN r ELSE t[m]
  BY OverwriteAt
<1> QED
  BY <1>4, <1>6, <1>7, <1>8

LEMMA CountDiscoveryKeeps ==
  ASSUME NEW E, NEW t, Sound(E, t), NEW n \in DOMAIN t
  PROVE  /\ OnlyCounts(t, CountDiscovery(t, n))
         /\ \A m \in DOMAIN t : CountDiscovery(t, n)[m].discovered
                                = IF m = n THEN t[m].discovered + 1 ELSE t[m].discovered
<1> DEFINE d == t[n].discovered + 1
           r == [t[n] EXCEPT !.discovered = d]
<1>1. t[n] \in NodeRec(E)
  BY NodeOfSound
<1>2. CountDiscovery(t, n) = [t EXCEPT ![n] = r]
  BY DEF CountDiscovery
<1> HIDE DEF d
<1>3. /\ r.id = t[n].id /\ r.parent = t[n].parent /\ r.colour = t[n].colour
      /\ r.path = t[n].path /\ r.sim = t[n].sim /\ r.explored = t[n].explored
      /\ r.seeds = t[n].seeds /\ r.discovered = d
  BY <1>1 DEF NodeRec
<1> HIDE DEF r
<1>4. SameSeedList(t[n].seeds, r.seeds)
  BY <1>3 DEF SameSeedList
<1>5. OnlyCounts(t, [t EXCEPT ![n] = r])
  BY <1>3, <1>4, OverwriteCounts
<1>6. \A m \in DOMAIN t : [t EXCEPT ![n] = r][m] = IF m = n THEN r ELSE t[m]
  BY OverwriteAt
<1> QED
  BY <1>2, <1>3, <1>5, <1>6 DEF d

LEMMA CountSeedDiscoveryKeeps ==
  ASSUME NEW E, NEW t, Sound(E, t), NEW n \in DOMAIN t, NEW s
  PROVE  /\ OnlyCounts(t, CountSeedDiscovery(t, n, s))
         /\ \A m \in DOMAIN t : CountSeedDiscovery(t, n, s)[m].discovered = t[m].discovered
<1> DEFINE x == [t[n].seeds[s] EXCEPT !.discovered = @ + 1]
           q == [t[n].seeds EXCEPT ![s] = x]
           r == [t[n] EXCEPT !.seeds = q]
<1>1. t[n] \in NodeRec(E)
  BY NodeOfSound
<1>2. t[n].seeds \in Seq(SeedRec(E))
  BY <1>1 DEF NodeRec
<1>3. s \in DOMAIN t[n].seeds => x.entry = t[n].seeds[s].entry /\ x.region = t[n].seeds[s].region
  <2>1. SUFFICES ASSUME s \in DOMAIN t[n].seeds
                 PROVE  x.entry = t[n].seeds[s].entry /\ x.region = t[n].seeds[s].region
    OBVIOUS
  <2>2. t[n].seeds[s] \in SeedRec(E)
    BY <1>2, <2>1, LenProperties, ElementOfSeq
  <2> QED
    BY <2>2, SeedCounted
<1>4. CountSeedDiscovery(t, n, s) = [t EXCEPT ![n] = r]
  BY DEF CountSeedDiscovery
<1> HIDE DEF x
<1>5. SameSeedList(t[n].seeds, q)
  BY <1>2, <1>3, SeedReplaced
<1> HIDE DEF q
<1>6. /\ r.id = t[n].id /\ r.parent = t[n].parent /\ r.colour = t[n].colour
      /\ r.path = t[n].path /\ r.sim = t[n].sim /\ r.explored = t[n].explored
      /\ r.seeds = q /\ r.discovered = t[n].discovered
  BY <1>1 DEF NodeRec
<1> HIDE DEF r
<1>7. OnlyCounts(t, [t EXCEPT ![n] = r])
  BY <1>5, <1>6, OverwriteCounts
<1>8. \A m \in DOMAIN t : [t EXCEPT ![n] = r][m] = IF m = n THEN r ELSE t[m]
  BY OverwriteAt
<1> QED
  BY <1>4, <1>6, <1>7, <1>8

LEMMA CreditSeedKeeps ==
  ASSUME NEW E, NEW t, Sound(E, t), NEW n \in DOMAIN t, NEW s \in Nat
  PROVE  /\ OnlyCounts(t, CreditSeed(t, n, s))
         /\ \A m \in DOMAIN t : CreditSeed(t, n, s)[m].discovered
                                = IF m = n THEN t[m].discovered + 1 ELSE t[m].discovered
<1> DEFINE u == CountDiscovery(t, n)
<1>1. /\ OnlyCounts(t, u)
      /\ \A m \in DOMAIN t : u[m].discovered
                             = IF m = n THEN t[m].discovered + 1 ELSE t[m].discovered
  BY CountDiscoveryKeeps
<1>2. Sound(E, u) /\ DOMAIN u = DOMAIN t
  BY CountDiscoverySound DEF Succeeds
<1> HIDE DEF u
<1>3. /\ OnlyCounts(u, CountSeedDiscovery(u, n, s))
      /\ \A m \in DOMAIN u : CountSeedDiscovery(u, n, s)[m].discovered = u[m].discovered
  BY <1>2, CountSeedDiscoveryKeeps
<1>4. OnlyCounts(t, CountSeedDiscovery(u, n, s))
  BY <1>1, <1>3, OnlyCountsTrans
<1> QED
  BY <1>1, <1>2, <1>3, <1>4 DEF CreditSeed, u

LEMMA CreditPathKeeps ==
  ASSUME NEW E, NEW t, Sound(E, t), NEW n
  PROVE  /\ OnlyCounts(t, CreditPath(t, n))
         /\ \A m \in DOMAIN t : CreditPath(t, n)[m].discovered
                = IF m \in Lineage(t, n) THEN t[m].discovered + 1 ELSE t[m].discovered
<1> DEFINE line == Lineage(t, n)
           u == CreditPath(t, n)
<1>1. /\ DOMAIN u = DOMAIN t
      /\ \A m \in DOMAIN t : u[m] = IF m \in line THEN CountDiscovery(t, m)[m] ELSE t[m]
  BY LenProperties DEF CreditPath, CountDiscovery, Sound
<1> HIDE DEF u, line
<1>2. \A m \in DOMAIN t :
        LET v == CountDiscovery(t, m)[m]
        IN  /\ v.id = t[m].id /\ v.parent = t[m].parent /\ v.colour = t[m].colour
            /\ v.path = t[m].path /\ v.sim = t[m].sim /\ v.explored = t[m].explored
            /\ SameSeedList(t[m].seeds, v.seeds) /\ v.discovered = t[m].discovered + 1
  <2> TAKE m \in DOMAIN t
  <2>1. /\ OnlyCounts(t, CountDiscovery(t, m))
        /\ CountDiscovery(t, m)[m].discovered = t[m].discovered + 1
    BY CountDiscoveryKeeps
  <2> QED
    BY <2>1 DEF OnlyCounts, SameShape, SameSeeds, SameExplored
<1>3. SameShape(t, u)
  BY <1>1, <1>2 DEF SameShape
<1>4. SameExplored(t, u)
  BY <1>1, <1>2 DEF SameExplored
<1>5. \A m \in DOMAIN t : SameSeedList(t[m].seeds, t[m].seeds)
  BY DEF SameSeedList
<1>6. SameSeeds(t, u)
  BY <1>1, <1>2, <1>5 DEF SameSeeds
<1> QED
  BY <1>1, <1>2, <1>3, <1>4, <1>6 DEF OnlyCounts, u, line

-----------------------------------------------------------------------------
(* The tree as a trie                                                       *)

ResponseNodes(t) == {n \in DOMAIN t : t[n].colour # Golden}
SimulationNodes(t) == DOMAIN t \ ResponseNodes(t)

(* A response node below the root extends the path of its parent by its code. *)
Extends(t, n) ==
  /\ t[n].parent \in ResponseNodes(t) /\ t[n].parent < n
  /\ t[n].path = Append(t[t[n].parent].path, t[n].id)

(* A simulation node is the one of a white node, whose path it repeats.   *)
Simulates(t, s) ==
  /\ t[s].parent \in ResponseNodes(t) /\ t[s].parent < s /\ t[s].id = SimId
  /\ t[t[s].parent].colour = White /\ t[t[s].parent].sim = s
  /\ t[s].path = t[t[s].parent].path

(* A trie of response sequences none of which has the code of the         *)
(* simulation nodes.                                                      *)
IsTrie(t) ==
  /\ t[ROOT].path = <<0>>
  /\ \A n \in ResponseNodes(t) : t[n].id # SimId
  /\ \A n \in ResponseNodes(t) \ {ROOT} : Extends(t, n)
  /\ \A m, n \in ResponseNodes(t) : t[m].path = t[n].path => m = n
  /\ \A n \in ResponseNodes(t) :
       t[n].colour = White => t[n].sim \in SimulationNodes(t) /\ t[t[n].sim].parent = n
  /\ \A s \in SimulationNodes(t) : Simulates(t, s)

LEMMA TrieOfSameShape ==
  ASSUME NEW E, NEW t, Sound(E, t), NEW u, SameShape(t, u), IsTrie(t)
  PROVE  /\ IsTrie(u) /\ ResponseNodes(u) = ResponseNodes(t)
         /\ SimulationNodes(u) = SimulationNodes(t)
<1>1. ResponseNodes(u) = ResponseNodes(t) /\ SimulationNodes(u) = SimulationNodes(t)
  BY DEF SameShape, ResponseNodes, SimulationNodes
<1>2. ROOT \in DOMAIN t
  BY LenProperties DEF Sound, ROOT, RootSim
<1>3. \A n \in ResponseNodes(t) \ {ROOT} : Extends(u, n)
  <2> TAKE n \in ResponseNodes(t) \ {ROOT}
  <2>1. Extends(t, n) /\ n \in DOMAIN t
    BY DEF IsTrie, ResponseNodes
  <2>2. t[n].parent \in DOMAIN t
    BY <2>1 DEF Extends, ResponseNodes
  <2> QED
    BY <1>1, <2>1, <2>2 DEF SameShape, Extends
<1>4. \A s \in SimulationNodes(t) : Simulates(u, s)
  <2> TAKE s \in SimulationNodes(t)
  <2>1. Simulates(t, s) /\ s \in DOMAIN t
    BY DEF IsTrie, SimulationNodes
  <2>2. t[s].parent \in DOMAIN t
    BY <2>1 DEF Simulates, ResponseNodes
  <2> QED
    BY <1>1, <2>1, <2>2 DEF SameShape, Simulates
<1>5. \A m, n \in ResponseNodes(t) : u[m].path = u[n].path => m = n
  BY DEF IsTrie, SameShape, ResponseNodes
<1>6. \A n \in ResponseNodes(t) :
        u[n].colour = White => u[n].sim \in SimulationNodes(t) /\ u[u[n].sim].parent = n
  <2> TAKE n \in ResponseNodes(t)
  <2>1. n \in DOMAIN t
    BY DEF ResponseNodes
  <2>2. t[n].colour = White => /\ t[n].sim \in SimulationNodes(t) /\ t[n].sim \in DOMAIN t
                               /\ t[t[n].sim].parent = n
    BY DEF IsTrie, SimulationNodes
  <2> QED
    BY <2>1, <2>2 DEF SameShape
<1>7. \A n \in ResponseNodes(t) : u[n].id # SimId
  BY DEF IsTrie, SameShape, ResponseNodes
<1>8. u[ROOT].path = <<0>>
  BY <1>2 DEF IsTrie, SameShape
<1> QED
  BY <1>1, <1>3, <1>4, <1>5, <1>6, <1>7, <1>8 DEF IsTrie

(* What a node of a trie is made of.                                      *)
LEMMA TrieNode ==
  ASSUME NEW E, NEW t, Sound(E, t), IsTrie(t), NEW n \in DOMAIN t
  PROVE  /\ n \in Nat /\ n >= 1 /\ t[n].path \in Seq(Nat) /\ t[n].id \in Nat /\ t[n].path # <<>>
         /\ t[n].parent \in Nat /\ t[n].colour \in Colours
<1>1. DOMAIN t = 1..Len(t) /\ Len(t) \in Nat
  BY LenProperties DEF Sound
<1>2. t[n] \in NodeRec(E)
  BY NodeOfSound
<1>3. /\ n \in Nat /\ n >= 1 /\ t[n].path \in Seq(Nat) /\ t[n].id \in Nat
      /\ t[n].parent \in Nat /\ t[n].colour \in Colours
  BY <1>1, <1>2 DEF NodeRec
<1>4. \A m \in ResponseNodes(t) : t[m].path # <<>>
  <2> TAKE m \in ResponseNodes(t)
  <2>1. CASE m = ROOT
    BY <2>1 DEF IsTrie
  <2>2. CASE m # ROOT
    <3>1. Extends(t, m) /\ m \in DOMAIN t
      BY <2>2 DEF IsTrie, ResponseNodes
    <3>2. t[m] \in NodeRec(E) /\ t[t[m].parent] \in NodeRec(E)
      BY <3>1, NodeOfSound DEF Extends, ResponseNodes
    <3>3. t[m].id \in Nat /\ t[t[m].parent].path \in Seq(Nat)
      BY <3>2 DEF NodeRec
    <3> QED
      BY <3>1, <3>3, AppendProperties DEF Extends
  <2> QED
    BY <2>1, <2>2
<1>5. t[n].path # <<>>
  <2>1. CASE n \in ResponseNodes(t)
    BY <1>4, <2>1
  <2>2. CASE n \notin ResponseNodes(t)
    BY <1>4, <2>2 DEF IsTrie, SimulationNodes, Simulates
  <2> QED
    BY <2>1, <2>2
<1> QED
  BY <1>3, <1>5

(* The child exists_child finds is the node of the longer path, if there is one. *)
FindsChild(t, n, id) ==
  LET c == ExistsChild(t, n, id)
      path == Append(t[n].path, id)
  IN  /\ c = NoNode <=> \A m \in ResponseNodes(t) : t[m].path # path
      /\ (c # NoNode => /\ c \in ResponseNodes(t) /\ c # ROOT
                        /\ t[c].path = path /\ t[c].parent = n)

LEMMA ExistsChildFinds ==
  ASSUME NEW E, NEW t, Sound(E, t), IsTrie(t), NEW n \in ResponseNodes(t),
         NEW id \in Nat, id # SimId
  PROVE  FindsChild(t, n, id)
<1> DEFINE path == Append(t[n].path, id)
           matches == {c \in Children(t, n) : t[c].id = id}
           c == ExistsChild(t, n, id)
<1>1. \A m \in DOMAIN t : m \in Nat /\ m >= 1 /\ t[m].path \in Seq(Nat) /\ t[m].id \in Nat
  BY TrieNode
<1>2. n \in DOMAIN t /\ ROOT \in DOMAIN t
  BY LenProperties DEF ResponseNodes, Sound, ROOT, RootSim
<1>3. \A m \in matches : m \in ResponseNodes(t) /\ m # ROOT /\ t[m].path = path
  <2> TAKE m \in matches
  <2>1. m \in DOMAIN t /\ t[m].parent = n /\ t[m].id = id
    BY DEF Children
  <2>2. m \in ResponseNodes(t)
    BY <2>1 DEF IsTrie, SimulationNodes, Simulates
  <2>3. m # ROOT
    BY <1>1, <1>2, <2>1 DEF Sound, NoNode
  <2>4. Extends(t, m)
    BY <2>2, <2>3 DEF IsTrie
  <2> QED
    BY <2>1, <2>2, <2>3, <2>4 DEF Extends
<1>4. \A m \in ResponseNodes(t) : t[m].path = path => m \in matches
  <2> SUFFICES ASSUME NEW m \in ResponseNodes(t), t[m].path = path
               PROVE  m \in matches
    OBVIOUS
  <2>1. m \in DOMAIN t
    BY DEF ResponseNodes
  <2>2. m # ROOT
    <3>1. Len(path) = Len(t[n].path) + 1 /\ Len(t[n].path) \in Nat /\ Len(t[n].path) # 0
      <4>1. t[n].path \in Seq(Nat) /\ t[n].path # <<>>
        BY <1>2, TrieNode
      <4> QED
        BY <4>1, AppendProperties, EmptySeq, LenProperties
    <3>2. Len(<<0>>) = 1
      OBVIOUS
    <3> QED
      BY <3>1, <3>2 DEF IsTrie
  <2>3. Extends(t, m)
    BY <2>2 DEF IsTrie
  <2>4. t[m].parent \in ResponseNodes(t) /\ t[m].parent \in DOMAIN t
        /\ Append(t[t[m].parent].path, t[m].id) = Append(t[n].path, id)
    BY <2>3 DEF Extends, ResponseNodes
  <2>5. t[t[m].parent].path = t[n].path /\ t[m].id = id
    <3> DEFINE a == t[t[m].parent].path
               b == t[n].path
               x == t[m].id
    <3>1. a \in Seq(Nat) /\ b \in Seq(Nat) /\ x \in Nat
      BY <1>1, <1>2, <2>1, <2>4
    <3>2. Append(a, x) = Append(b, id)
      BY <2>4
    <3> HIDE DEF a, b, x
    <3>3. a = b /\ x = id
      BY <3>1, <3>2, AppendInjective
    <3> QED
      BY <3>3 DEF a, b, x
  <2>6. t[m].parent = n
    BY <2>4, <2>5 DEF IsTrie
  <2> QED
    BY <2>1, <2>5, <2>6 DEF Children
<1>5. matches \in SUBSET Nat /\ \A m \in matches : m # NoNode /\ t[m].parent = n
  BY <1>1 DEF Children, NoNode
<1>6. c = IF matches = {} THEN NoNode ELSE Min(matches)
  BY DEF ExistsChild
<1> HIDE DEF matches, c, path
<1>7. matches # {} => c \in matches
  BY <1>5, <1>6, MinIsLeast
<1>8. c = NoNode <=> matches = {}
  BY <1>5, <1>6, <1>7
<1> QED
  BY <1>3, <1>4, <1>5, <1>7, <1>8 DEF FindsChild, c, path

(* A prefix of a sequence is one of the sequence with an element more.    *)
LEMMA SubSeqOfAppend ==
  ASSUME NEW s \in Seq(Nat), NEW x \in Nat, NEW j \in 1..Len(s)
  PROVE  SubSeq(Append(s, x), 1, j) = SubSeq(s, 1, j)
<1> DEFINE a == Append(s, x)
<1>1. /\ a \in Seq(Nat) /\ Len(a) = Len(s) + 1 /\ Len(s) \in Nat
      /\ \A i \in 1..Len(s) : a[i] = s[i]
  BY AppendProperties, LenProperties
<1> HIDE DEF a
<1>2. \A i \in 1..j : s[i] \in Nat /\ a[i] = s[i]
  BY <1>1, ElementOfSeq
<1>3. /\ SubSeq(a, 1, j) \in Seq(Nat) /\ Len(SubSeq(a, 1, j)) = j
      /\ \A i \in 1..j : SubSeq(a, 1, j)[i] = a[i]
  BY <1>1, <1>2, SubSeqProperties
<1>4. /\ SubSeq(s, 1, j) \in Seq(Nat) /\ Len(SubSeq(s, 1, j)) = j
      /\ \A i \in 1..j : SubSeq(s, 1, j)[i] = s[i]
  BY <1>1, <1>2, SubSeqProperties
<1> QED
  BY <1>2, <1>3, <1>4, SeqEqual DEF a

(* With a path, a trie has every prefix of it.                            *)
LEMMA TriePrefixes ==
  ASSUME NEW E, NEW t, Sound(E, t), IsTrie(t), NEW n \in ResponseNodes(t),
         NEW k \in 1..Len(t[n].path)
  PROVE  \E m \in ResponseNodes(t) : t[m].path = SubSeq(t[n].path, 1, k) /\ m <= n
<1> DEFINE Has(m, j) == \E x \in ResponseNodes(t) : t[x].path = SubSeq(t[m].path, 1, j) /\ x <= m
           Bad == {m \in ResponseNodes(t) : \E j \in 1..Len(t[m].path) : ~Has(m, j)}
<1>1. \A m \in DOMAIN t : /\ m \in Nat /\ m >= 1 /\ t[m].path \in Seq(Nat) /\ t[m].id \in Nat
                         /\ Len(t[m].path) \in Nat
  BY TrieNode, LenProperties
<1>2. Bad \in SUBSET Nat
  BY <1>1 DEF ResponseNodes
<1>3. Bad = {}
  <2> SUFFICES ASSUME Bad # {} PROVE FALSE
    OBVIOUS
  <2> DEFINE m == Min(Bad)
  <2>1. m \in Bad /\ \A y \in Bad : m <= y
    BY <1>2, MinIsLeast
  <2> HIDE DEF m
  <2>2. PICK j \in 1..Len(t[m].path) : ~Has(m, j)
    BY <2>1
  <2>3. m \in ResponseNodes(t) /\ m \in DOMAIN t /\ m \in Nat
    BY <1>1, <2>1 DEF ResponseNodes
  <2>4. j # Len(t[m].path)
    <3> SUFFICES ASSUME j = Len(t[m].path) PROVE FALSE
      OBVIOUS
    <3>1. SubSeq(t[m].path, 1, j) = t[m].path
      BY <1>1, <2>3, SubSeqFull
    <3> QED
      BY <2>2, <2>3, <3>1
  <2>5. m # ROOT
    <3> SUFFICES ASSUME m = ROOT PROVE FALSE
      OBVIOUS
    <3>1. Len(t[m].path) = 1
      BY DEF IsTrie
    <3> QED
      BY <2>4, <3>1
  <2>6. Extends(t, m)
    BY <2>3, <2>5 DEF IsTrie
  <2> DEFINE p == t[m].parent
  <2>7. p \in ResponseNodes(t) /\ p \in DOMAIN t /\ p < m /\ t[m].path = Append(t[p].path, t[m].id)
    BY <2>6 DEF Extends, ResponseNodes
  <2> HIDE DEF p
  <2>8. p \notin Bad
    <3>1. p \in Nat /\ m \in Nat /\ ~(m <= p)
      BY <1>1, <2>3, <2>7
    <3> HIDE DEF Bad
    <3> QED
      BY <2>1, <3>1
  <2>9. t[p].path \in Seq(Nat) /\ t[m].id \in Nat /\ p \in Nat /\ Len(t[p].path) \in Nat
    BY <1>1, <2>3, <2>7
  <2>10. Len(t[m].path) = Len(t[p].path) + 1
    BY <2>7, <2>9, AppendProperties
  <2>11. j \in 1..Len(t[p].path)
    BY <2>4, <2>9, <2>10
  <2>12. PICK x \in ResponseNodes(t) : t[x].path = SubSeq(t[p].path, 1, j) /\ x <= p
    BY <2>7, <2>8, <2>11
  <2>13. SubSeq(t[m].path, 1, j) = SubSeq(t[p].path, 1, j)
    BY <2>7, <2>9, <2>11, SubSeqOfAppend
  <2>14. x <= m
    <3>1. x \in Nat
      BY <1>1 DEF ResponseNodes
    <3> QED
      BY <2>3, <2>7, <2>9, <2>12, <3>1
  <2> QED
    BY <2>2, <2>12, <2>13, <2>14
<1> QED
  BY <1>3

-----------------------------------------------------------------------------
(* Growing the trie                                                         *)

(* What append_child makes of a tree: the old nodes and one or two new ones. *)
WithChild(t, u, p, id, colour, path) ==
  LET n == Len(t) + 1
  IN  /\ DOMAIN u = DOMAIN t \cup {n} \cup (IF colour = White THEN {n + 1} ELSE {})
      /\ \A m \in DOMAIN t : u[m] = t[m]
      /\ u[n].id = id /\ u[n].parent = p /\ u[n].colour = colour
      /\ u[n].path = path /\ u[n].seeds = <<>> /\ u[n].explored = FALSE
      /\ u[n].discovered = 0 /\ u[n].selected = 0
      /\ (colour = White =>
           /\ u[n].sim = n + 1 /\ u[n + 1].id = SimId /\ u[n + 1].parent = n
           /\ u[n + 1].colour = Golden /\ u[n + 1].path = path
           /\ u[n + 1].seeds = <<>> /\ u[n + 1].explored = FALSE
           /\ u[n + 1].discovered = 0 /\ u[n + 1].selected = 0)

LEMMA AppendChildIs ==
  ASSUME NEW E, NEW t, Sound(E, t), NEW p, NEW id, NEW colour \in {White, Black}, NEW path
  PROVE  WithChild(t, AppendChild(t, p, id, colour, path), p, id, colour, path)
<1> DEFINE n == Len(t) + 1
           u == AppendChild(t, p, id, colour, path)
           plain == NewNode(id, p, colour, path)
           white == [NewNode(id, p, White, path) EXCEPT !.sim = n + 1]
           sim == NewNode(SimId, n, Golden, path)
<1>1. DOMAIN t = 1..Len(t) /\ Len(t) \in Nat /\ t \in Seq(NodeRec(E))
  BY LenProperties DEF Sound
<1>2. /\ plain.id = id /\ plain.parent = p /\ plain.colour = colour /\ plain.path = path
      /\ plain.seeds = <<>> /\ plain.explored = FALSE /\ plain.discovered = 0
      /\ plain.selected = 0
  BY DEF NewNode
<1>3. /\ white.id = id /\ white.parent = p /\ white.colour = White /\ white.path = path
      /\ white.seeds = <<>> /\ white.explored = FALSE /\ white.sim = n + 1
      /\ white.discovered = 0 /\ white.selected = 0
  BY DEF NewNode
<1>4. /\ sim.id = SimId /\ sim.parent = n /\ sim.colour = Golden /\ sim.path = path
      /\ sim.seeds = <<>> /\ sim.explored = FALSE /\ sim.discovered = 0
      /\ sim.selected = 0
  BY DEF NewNode
<1>5. u = IF colour = White THEN t \o <<white, sim>> ELSE Append(t, plain)
  BY DEF AppendChild
<1> HIDE DEF plain, white, sim, u
<1>6. CASE colour = White
  <2>1. u = t \o <<white, sim>>
    BY <1>5, <1>6
  <2>2. /\ DOMAIN u = 1..(n + 1)
        /\ \A m \in DOMAIN t : u[m] = t[m]
        /\ u[n] = white /\ u[n + 1] = sim
    BY <1>1, <2>1
  <2>3. DOMAIN u = DOMAIN t \cup {n} \cup {n + 1}
    BY <1>1, <2>2
  <2> HIDE DEF n
  <2>4. WithChild(t, u, p, id, colour, path)
    BY <1>3, <1>4, <1>6, <2>2, <2>3 DEF WithChild, n
  <2> QED
    BY <2>4 DEF u
<1>7. CASE colour # White
  <2>1. u = Append(t, plain)
    BY <1>5, <1>7
  <2>2. /\ DOMAIN u = 1..n
        /\ \A m \in DOMAIN t : u[m] = t[m]
        /\ u[n] = plain
    BY <1>1, <2>1
  <2>3. DOMAIN u = DOMAIN t \cup {n} \cup {}
    BY <1>1, <2>2
  <2>4. WithChild(t, u, p, id, colour, path)
    BY <1>2, <1>7, <2>2, <2>3 DEF WithChild
  <2> QED
    BY <2>4 DEF u
<1> QED
  BY <1>6, <1>7

(* A child for a path that is not in the trie keeps it a trie.            *)
LEMMA AppendChildTrie ==
  ASSUME NEW E, NEW t, Sound(E, t), IsTrie(t), NEW p \in ResponseNodes(t),
         NEW id \in Nat, id # SimId, NEW colour \in {White, Black},
         \A m \in ResponseNodes(t) : t[m].path # Append(t[p].path, id)
  PROVE  LET u == AppendChild(t, p, id, colour, Append(t[p].path, id))
         IN  IsTrie(u) /\ ResponseNodes(u) = ResponseNodes(t) \cup {Len(t) + 1}
<1> DEFINE n == Len(t) + 1
           path == Append(t[p].path, id)
           u == AppendChild(t, p, id, colour, path)
<1>1. DOMAIN t = 1..Len(t) /\ Len(t) \in Nat /\ p \in DOMAIN t /\ n \in Nat /\ ROOT \in DOMAIN t
      /\ \A m \in DOMAIN t : m \in Nat /\ m < n
  BY LenProperties DEF Sound, ResponseNodes, ROOT, RootSim
<1>2. path \in Seq(Nat)
  BY <1>1, TrieNode, AppendProperties
<1>3. path = Append(t[p].path, id)
  OBVIOUS
<1> HIDE DEF path
<1>a. WithChild(t, u, p, id, colour, path)
  BY AppendChildIs
<1> HIDE DEF u
<1>4. /\ \A m \in DOMAIN t : u[m] = t[m]
      /\ u[n].id = id /\ u[n].parent = p /\ u[n].colour = colour /\ u[n].path = path
      /\ (colour = White =>
           /\ u[n].sim = n + 1 /\ u[n + 1].id = SimId /\ u[n + 1].parent = n
           /\ u[n + 1].colour = Golden /\ u[n + 1].path = path)
  BY <1>a DEF WithChild
<1>5. /\ DOMAIN u = DOMAIN t \cup {n} \cup (IF colour = White THEN {n + 1} ELSE {})
      /\ n \notin DOMAIN t /\ n + 1 \notin DOMAIN t /\ n + 1 # n
  BY <1>1, <1>a DEF WithChild
<1> HIDE DEF n
<1>6. ResponseNodes(u) = ResponseNodes(t) \cup {n}
  BY <1>4, <1>5 DEF ResponseNodes, White, Black, Golden
<1>7. SimulationNodes(u) = SimulationNodes(t) \cup (IF colour = White THEN {n + 1} ELSE {})
  BY <1>4, <1>5 DEF ResponseNodes, SimulationNodes, White, Black, Golden
<1>8. \A m \in ResponseNodes(u) \ {ROOT} : Extends(u, m)
  <2> TAKE m \in ResponseNodes(u) \ {ROOT}
  <2>1. CASE m = n
    BY <1>1, <1>3, <1>4, <1>6, <2>1 DEF Extends
  <2>2. CASE m \in ResponseNodes(t)
    <3>1. Extends(t, m) /\ m \in DOMAIN t
      BY <2>2 DEF IsTrie, ResponseNodes
    <3>2. t[m].parent \in DOMAIN t
      BY <3>1 DEF Extends, ResponseNodes
    <3> QED
      BY <1>4, <1>6, <3>1, <3>2 DEF Extends
  <2> QED
    BY <1>6, <2>1, <2>2
<1>9. \A m, k \in ResponseNodes(u) : u[m].path = u[k].path => m = k
  <2>1. \A m \in ResponseNodes(t) : u[m].path = t[m].path /\ t[m].path # path
    BY <1>3, <1>4 DEF ResponseNodes
  <2>2. \A m, k \in ResponseNodes(t) : t[m].path = t[k].path => m = k
    BY DEF IsTrie
  <2> QED
    BY <1>4, <1>6, <2>1, <2>2
<1>10. \A m \in ResponseNodes(u) :
         u[m].colour = White => u[m].sim \in SimulationNodes(u) /\ u[u[m].sim].parent = m
  <2> TAKE m \in ResponseNodes(u)
  <2>1. CASE m = n
    BY <1>4, <1>7, <2>1
  <2>2. CASE m \in ResponseNodes(t)
    <3>1. t[m].colour = White => t[m].sim \in SimulationNodes(t) /\ t[t[m].sim].parent = m
      BY <2>2 DEF IsTrie
    <3>2. u[m] = t[m] /\ \A s \in SimulationNodes(t) : u[s] = t[s]
      BY <1>4, <2>2 DEF ResponseNodes, SimulationNodes
    <3> QED
      BY <1>7, <3>1, <3>2
  <2> QED
    BY <1>6, <2>1, <2>2
<1>11. \A s \in SimulationNodes(u) : Simulates(u, s)
  <2> TAKE s \in SimulationNodes(u)
  <2>1. CASE s \in SimulationNodes(t)
    <3>1. Simulates(t, s) /\ s \in DOMAIN t
      BY <2>1 DEF IsTrie, SimulationNodes
    <3>2. t[s].parent \in DOMAIN t
      BY <3>1 DEF Simulates, ResponseNodes
    <3> QED
      BY <1>4, <1>6, <3>1, <3>2 DEF Simulates
  <2>2. CASE colour = White /\ s = n + 1
    <3>1. n < n + 1
      BY <1>1 DEF n
    <3> QED
      BY <1>4, <1>6, <2>2, <3>1 DEF Simulates
  <2> QED
    BY <1>7, <2>1, <2>2
<1>12. \A m \in ResponseNodes(u) : u[m].id # SimId
  BY <1>4, <1>6 DEF IsTrie, ResponseNodes
<1>13. u[ROOT].path = <<0>>
  BY <1>1, <1>4 DEF IsTrie
<1> QED
  BY <1>6, <1>8, <1>9, <1>10, <1>11, <1>12, <1>13 DEF IsTrie, n, u, path

(* What flipping makes of a tree: a white node and its simulation child.  *)
Flipped(t, u, n, path) ==
  LET s == Len(t) + 1
  IN  /\ DOMAIN u = DOMAIN t \cup {s}
      /\ \A m \in DOMAIN t \ {n} : u[m] = t[m]
      /\ u[n].colour = White /\ u[n].sim = s /\ u[n].id = t[n].id
      /\ u[n].parent = t[n].parent /\ u[n].path = t[n].path
      /\ u[n].seeds = t[n].seeds /\ u[n].explored = t[n].explored
      /\ u[n].discovered = t[n].discovered /\ u[n].selected = t[n].selected
      /\ u[s].id = SimId /\ u[s].parent = n /\ u[s].colour = Golden
      /\ u[s].path = path /\ u[s].seeds = <<>> /\ u[s].explored = FALSE
      /\ u[s].discovered = 0 /\ u[s].selected = 0

LEMMA FlipIs ==
  ASSUME NEW E, NEW t, Sound(E, t), NEW n \in DOMAIN t, NEW path
  PROVE  Flipped(t, Flip(t, n, path), n, path)
<1> DEFINE s == Len(t) + 1
           r == [t[n] EXCEPT !.colour = White, !.sim = s]
           v == [t EXCEPT ![n] = r]
           sim == NewNode(SimId, n, Golden, path)
           u == Flip(t, n, path)
<1>1. DOMAIN t = 1..Len(t) /\ Len(t) \in Nat /\ t \in Seq(NodeRec(E)) /\ t[n] \in NodeRec(E)
  BY LenProperties, NodeOfSound DEF Sound
<1>2. /\ sim.id = SimId /\ sim.parent = n /\ sim.colour = Golden /\ sim.path = path
      /\ sim.seeds = <<>> /\ sim.explored = FALSE /\ sim.discovered = 0
      /\ sim.selected = 0
  BY DEF NewNode
<1>3. u = Append(v, sim)
  BY <1>1 DEF Flip
<1> HIDE DEF s, sim
<1>4. /\ r.colour = White /\ r.sim = s /\ r.id = t[n].id /\ r.parent = t[n].parent
      /\ r.path = t[n].path /\ r.seeds = t[n].seeds /\ r.explored = t[n].explored
      /\ r.discovered = t[n].discovered /\ r.selected = t[n].selected
  BY <1>1 DEF NodeRec
<1> HIDE DEF r
<1>5. /\ DOMAIN v = 1..Len(t) /\ Len(v) = Len(t)
      /\ \A m \in DOMAIN t : v[m] = IF m = n THEN r ELSE t[m]
  BY <1>1
<1>6. v \in Seq(NodeRec(E) \cup {r})
  <2>1. v \in [1..Len(t) -> NodeRec(E) \cup {r}]
    BY <1>1
  <2> HIDE DEF v
  <2> QED
    BY <1>1, <2>1
<1> HIDE DEF v
<1>7. /\ DOMAIN u = 1..(Len(t) + 1) /\ u[Len(t) + 1] = sim
      /\ \A m \in 1..Len(t) : u[m] = v[m]
  BY <1>1, <1>3, <1>5, <1>6
<1>8. DOMAIN u = DOMAIN t \cup {s} /\ u[s] = sim
      /\ \A m \in DOMAIN t : u[m] = IF m = n THEN r ELSE t[m]
  BY <1>1, <1>5, <1>7 DEF s
<1> HIDE DEF u
<1>9. Flipped(t, u, n, path)
  BY <1>2, <1>4, <1>8 DEF Flipped, s
<1> QED
  BY <1>9 DEF u

LEMMA FlipTrie ==
  ASSUME NEW E, NEW t, Sound(E, t), IsTrie(t), NEW n \in ResponseNodes(t),
         t[n].colour = Black, n # ROOT
  PROVE  LET u == Flip(t, n, t[n].path)
         IN  IsTrie(u) /\ ResponseNodes(u) = ResponseNodes(t)
<1> DEFINE s == Len(t) + 1
           path == t[n].path
           u == Flip(t, n, path)
<1>1. DOMAIN t = 1..Len(t) /\ Len(t) \in Nat /\ n \in DOMAIN t /\ s \in Nat /\ ROOT \in DOMAIN t
      /\ \A m \in DOMAIN t : m \in Nat /\ m < s
  BY LenProperties DEF Sound, ResponseNodes, ROOT, RootSim
<1>a. Flipped(t, u, n, path)
  BY <1>1, FlipIs
<1> HIDE DEF u
<1>2. /\ \A m \in DOMAIN t \ {n} : u[m] = t[m]
      /\ u[n].colour = White /\ u[n].sim = s /\ u[n].id = t[n].id
      /\ u[n].parent = t[n].parent /\ u[n].path = t[n].path
      /\ u[s].id = SimId /\ u[s].parent = n /\ u[s].colour = Golden /\ u[s].path = t[n].path
  BY <1>a DEF Flipped
<1>3. DOMAIN u = DOMAIN t \cup {s} /\ s \notin DOMAIN t
  BY <1>1, <1>a DEF Flipped
<1> HIDE DEF path
<1> HIDE DEF s
<1>4. ResponseNodes(u) = ResponseNodes(t)
  BY <1>1, <1>2, <1>3 DEF ResponseNodes, White, Black, Golden
<1>5. SimulationNodes(u) = SimulationNodes(t) \cup {s}
  BY <1>1, <1>2, <1>3 DEF ResponseNodes, SimulationNodes, White, Black, Golden
<1>6. \A m \in DOMAIN t :
        /\ u[m].id = t[m].id /\ u[m].parent = t[m].parent /\ u[m].path = t[m].path
        /\ (m # n => u[m].colour = t[m].colour /\ u[m].sim = t[m].sim)
  BY <1>2
<1>7. \A m \in ResponseNodes(u) \ {ROOT} : Extends(u, m)
  <2> TAKE m \in ResponseNodes(u) \ {ROOT}
  <2>1. Extends(t, m) /\ m \in DOMAIN t
    BY <1>4 DEF IsTrie, ResponseNodes
  <2>2. t[m].parent \in DOMAIN t
    BY <2>1 DEF Extends, ResponseNodes
  <2> QED
    BY <1>4, <1>6, <2>1, <2>2 DEF Extends
<1>8. \A m, k \in ResponseNodes(u) : u[m].path = u[k].path => m = k
  BY <1>4, <1>6 DEF IsTrie, ResponseNodes
<1>9. \A m \in SimulationNodes(t) : m \in DOMAIN t /\ m # n /\ Simulates(t, m)
  BY DEF IsTrie, SimulationNodes
<1>10. \A m \in ResponseNodes(u) :
         u[m].colour = White => u[m].sim \in SimulationNodes(u) /\ u[u[m].sim].parent = m
  <2> TAKE m \in ResponseNodes(u)
  <2>1. CASE m = n
    BY <1>2, <1>5, <2>1
  <2>2. CASE m # n
    <3>1. t[m].colour = White => t[m].sim \in SimulationNodes(t) /\ t[t[m].sim].parent = m
      BY <1>4 DEF IsTrie
    <3>2. m \in DOMAIN t
      BY <1>4 DEF ResponseNodes
    <3> QED
      BY <1>5, <1>6, <1>9, <2>2, <3>1, <3>2
  <2> QED
    BY <2>1, <2>2
<1>11. \A m \in SimulationNodes(u) : Simulates(u, m)
  <2> TAKE m \in SimulationNodes(u)
  <2>1. CASE m \in SimulationNodes(t)
    <3>1. Simulates(t, m) /\ m \in DOMAIN t
      BY <1>9, <2>1
    <3>2. t[m].parent \in DOMAIN t /\ t[t[m].parent].colour = White
      BY <3>1 DEF Simulates, ResponseNodes
    <3>3. t[m].parent # n
      BY <3>2 DEF White, Black
    <3> QED
      BY <1>4, <1>6, <3>1, <3>2, <3>3 DEF Simulates
  <2>2. CASE m = s
    BY <1>1, <1>2, <1>4, <2>2 DEF Simulates
  <2> QED
    BY <1>5, <2>1, <2>2
<1>12. \A m \in ResponseNodes(u) : u[m].id # SimId
  BY <1>4, <1>6 DEF IsTrie, ResponseNodes
<1>13. u[ROOT].path = <<0>>
  BY <1>1, <1>6 DEF IsTrie
<1> QED
  BY <1>4, <1>7, <1>8, <1>10, <1>11, <1>12, <1>13 DEF IsTrie, u, path

-----------------------------------------------------------------------------
(* The walks along the tree                                                 *)

(* A function on lo..hi whose values are given one from the other.        *)
IsWalk(f, V, lo, hi, start, step) ==
  /\ f \in [lo..hi -> V] /\ f[lo] = start
  /\ \A k \in (lo + 1)..hi : f[k] = step[<<k, f[k - 1]>>]

LEMMA WalkExists ==
  ASSUME NEW V, NEW lo \in Nat, NEW hi \in Nat, lo <= hi, NEW start \in V,
         NEW step \in [(Nat \X V) -> V]
  PROVE  \E f : IsWalk(f, V, lo, hi, start, step)
<1> DEFINE Walk(f, h) == /\ f \in [lo..h -> V] /\ f[lo] = start
                         /\ \A k \in (lo + 1)..h : f[k] = step[<<k, f[k - 1]>>]
           Bad == {h \in Nat : lo <= h /\ ~\E f : Walk(f, h)}
<1>1. Bad = {}
  <2> SUFFICES ASSUME Bad # {} PROVE FALSE
    OBVIOUS
  <2> DEFINE h == Min(Bad)
  <2>1. h \in Bad /\ \A y \in Bad : h <= y
    BY MinIsLeast
  <2> HIDE DEF h
  <2>2. h \in Nat /\ lo <= h /\ ~\E f : Walk(f, h)
    BY <2>1
  <2>3. CASE h = lo
    <3> DEFINE f == [k \in lo..lo |-> start]
    <3>1. f \in [lo..lo -> V] /\ f[lo] = start /\ (lo + 1)..lo = {}
      OBVIOUS
    <3> HIDE DEF f
    <3>2. Walk(f, lo)
      BY <3>1
    <3> QED
      BY <2>2, <2>3, <3>2
  <2>4. CASE h > lo
    <3> DEFINE g == h - 1
    <3>1. g \in Nat /\ lo <= g /\ ~(h <= g) /\ h = g + 1
      BY <2>2, <2>4
    <3> HIDE DEF g
    <3>2. g \notin Bad
      BY <2>1, <3>1
    <3>3. PICK f : Walk(f, g)
      BY <3>1, <3>2
    <3> HIDE DEF Bad
    <3> DEFINE e == [k \in lo..h |-> IF k = h THEN step[<<h, f[g]>>] ELSE f[k]]
    <3>4. f \in [lo..g -> V] /\ f[lo] = start
          /\ \A k \in (lo + 1)..g : f[k] = step[<<k, f[k - 1]>>]
      BY <3>3
    <3>5. step[<<h, f[g]>>] \in V
      BY <2>2, <3>1, <3>4
    <3>6. e \in [lo..h -> V]
      BY <2>2, <3>1, <3>4, <3>5
    <3>7. /\ \A k \in lo..g : e[k] = f[k]
          /\ e[h] = step[<<h, f[g]>>]
      BY <2>2, <3>1
    <3> HIDE DEF e
    <3>8. e[lo] = start
      BY <3>1, <3>4, <3>7
    <3>9. ASSUME NEW k \in (lo + 1)..h PROVE e[k] = step[<<k, e[k - 1]>>]
      <4>1. CASE k = h
        <5>1. k - 1 = g /\ g \in lo..g
          BY <3>1, <4>1
        <5> QED
          BY <3>7, <4>1, <5>1
      <4>2. CASE k # h
        <5>1. k \in (lo + 1)..g /\ k \in lo..g /\ k - 1 \in lo..g
          BY <3>1, <4>2
        <5> QED
          BY <3>4, <3>7, <5>1
      <4> QED
        BY <4>1, <4>2
    <3>10. Walk(e, h)
      BY <3>6, <3>8, <3>9
    <3> QED
      BY <2>2, <3>10
  <2> QED
    BY <2>2, <2>3, <2>4
<1>2. \E f : Walk(f, hi)
  BY <1>1
<1> QED
  BY <1>2 DEF IsWalk

(* Prefixes of a sequence.                                                *)
LEMMA PrefixLength ==
  ASSUME NEW s \in Seq(Nat), NEW k \in 0..Len(s)
  PROVE  /\ SubSeq(s, 1, k) \in Seq(Nat) /\ Len(SubSeq(s, 1, k)) = k
         /\ \A i \in 1..k : SubSeq(s, 1, k)[i] = s[i]
<1>1. Len(s) \in Nat /\ \A i \in 1..k : s[i] \in Nat
  BY LenProperties, ElementOfSeq
<1> QED
  BY <1>1, SubSeqProperties

LEMMA PrefixGrows ==
  ASSUME NEW s \in Seq(Nat), NEW k \in 1..Len(s), NEW j, k = j + 1, j \in Nat
  PROVE  SubSeq(s, 1, k) = Append(SubSeq(s, 1, j), s[k])
<1>1. Len(s) \in Nat /\ s[k] \in Nat /\ j \in 0..Len(s) /\ k \in 0..Len(s)
  BY LenProperties, ElementOfSeq
<1> DEFINE a == SubSeq(s, 1, k)
           b == SubSeq(s, 1, j)
           c == Append(b, s[k])
<1>2. a \in Seq(Nat) /\ Len(a) = k /\ \A i \in 1..k : a[i] = s[i]
  BY <1>1, PrefixLength
<1>3. b \in Seq(Nat) /\ Len(b) = j /\ \A i \in 1..j : b[i] = s[i]
  BY <1>1, PrefixLength
<1> HIDE DEF a, b
<1>4. c \in Seq(Nat) /\ Len(c) = j + 1 /\ (\A i \in 1..j : c[i] = b[i]) /\ c[j + 1] = s[k]
  BY <1>1, <1>3, AppendProperties
<1> HIDE DEF c
<1>5. \A i \in 1..Len(a) : a[i] = c[i]
  <2> TAKE i \in 1..Len(a)
  <2>1. i \in 1..k /\ (i \in 1..j \/ i = j + 1)
    BY <1>2
  <2> QED
    BY <1>2, <1>3, <1>4, <2>1
<1>6. a = c
  BY <1>2, <1>4, <1>5, SeqEqual
<1> QED
  BY <1>6 DEF a, b, c

LEMMA PrefixOfPrefix ==
  ASSUME NEW s \in Seq(Nat), NEW k \in 0..Len(s), NEW j \in 0..k
  PROVE  SubSeq(SubSeq(s, 1, k), 1, j) = SubSeq(s, 1, j)
<1> DEFINE a == SubSeq(s, 1, k)
           b == SubSeq(s, 1, j)
           c == SubSeq(a, 1, j)
<1>1. Len(s) \in Nat /\ j \in 0..Len(s) /\ j \in Nat /\ k \in Nat
  BY LenProperties
<1>2. a \in Seq(Nat) /\ Len(a) = k /\ \A i \in 1..k : a[i] = s[i]
  BY PrefixLength
<1>3. b \in Seq(Nat) /\ Len(b) = j /\ \A i \in 1..j : b[i] = s[i]
  BY <1>1, PrefixLength
<1> HIDE DEF a, b
<1>4. c \in Seq(Nat) /\ Len(c) = j /\ \A i \in 1..j : c[i] = a[i]
  BY <1>2, PrefixLength
<1> HIDE DEF c
<1>5. \A i \in 1..Len(c) : c[i] = b[i]
  BY <1>1, <1>2, <1>3, <1>4
<1>6. c = b
  BY <1>3, <1>4, <1>5, SeqEqual
<1> QED
  BY <1>6 DEF a, b, c

(* The first-round walk finds the node of the whole sequence, if it is there. *)
LEMMA ReachFinds ==
  ASSUME NEW E, NEW t, Sound(E, t), IsTrie(t), NEW codes \in Seq(Nat), codes # <<>>,
         codes[1] = 0, \A k \in DOMAIN codes : codes[k] # SimId
  PROVE  Reach(t, codes) = NoNode <=> \A m \in ResponseNodes(t) : t[m].path # codes
<1> DEFINE L == Len(codes)
           next(k, v) == IF v = NoNode THEN NoNode ELSE ExistsChild(t, v, codes[k])
           Walk(f) == f = [k \in 1..L |-> IF k = 1 THEN ROOT
                                          ELSE IF f[k - 1] = NoNode THEN NoNode
                                          ELSE ExistsChild(t, f[k - 1], codes[k])]
           at == CHOOSE f : Walk(f)
<1>1. L \in Nat /\ L >= 1 /\ DOMAIN codes = 1..L /\ \A k \in 1..L : codes[k] \in Nat
  BY LenProperties, EmptySeq, ElementOfSeq
<1>2. \A k \in Nat, v \in Nat : next(k, v) \in Nat
  <2> TAKE k \in Nat, v \in Nat
  <2>1. ExistsChild(t, v, codes[k]) # NoNode => ExistsChild(t, v, codes[k]) \in DOMAIN t
    BY ExistsChildInTree
  <2>2. DOMAIN t \subseteq Nat
    BY LenProperties DEF Sound
  <2> QED
    BY <2>1, <2>2 DEF NoNode
<1>3. \E f : Walk(f)
  <2> DEFINE step == [x \in Nat \X Nat |-> next(x[1], x[2])]
  <2>1. step \in [(Nat \X Nat) -> Nat]
    BY <1>2
  <2>2. \A k \in Nat, v \in Nat : step[<<k, v>>] = next(k, v)
    OBVIOUS
  <2> HIDE DEF step
  <2>3. ROOT \in Nat /\ 1 \in Nat
    BY DEF ROOT
  <2>a. L \in Nat /\ 1 <= L
    BY <1>1
  <2> HIDE DEF L
  <2>b. \E f : IsWalk(f, Nat, 1, L, ROOT, step)
    BY <2>1, <2>3, <2>a, WalkExists
  <2>4. PICK f : /\ f \in [1..L -> Nat] /\ f[1] = ROOT
                 /\ \A k \in (1 + 1)..L : f[k] = step[<<k, f[k - 1]>>]
    BY <2>b DEF IsWalk
  <2>5. \A k \in 1..L : f[k] = IF k = 1 THEN ROOT ELSE next(k, f[k - 1])
    <3> TAKE k \in 1..L
    <3>1. CASE k = 1
      BY <2>4, <3>1
    <3>2. CASE k # 1
      <4>1. k \in (1 + 1)..L /\ k \in Nat /\ k - 1 \in 1..L
        BY <1>1, <3>2
      <4>2. f[k - 1] \in Nat
        BY <2>4, <4>1
      <4> HIDE DEF next
      <4> QED
        BY <2>2, <2>4, <3>2, <4>1, <4>2
    <3> QED
      BY <3>1, <3>2
  <2>6. Walk(f)
    BY <2>4, <2>5
  <2> QED
    BY <2>6
<1>4. Walk(at)
  BY <1>3
<1>5. Reach(t, codes) = at[L]
  BY DEF Reach
<1> HIDE DEF at
<1>6. at[1] = ROOT /\ \A k \in 2..L : at[k] = next(k, at[k - 1])
  BY <1>1, <1>4
<1> HIDE DEF next, Walk
<1> DEFINE Right(k) == IF at[k] = NoNode
                       THEN \A m \in ResponseNodes(t) : t[m].path # SubSeq(codes, 1, k)
                       ELSE at[k] \in ResponseNodes(t) /\ t[at[k]].path = SubSeq(codes, 1, k)
           Bad == {k \in 1..L : ~Right(k)}
<1>7. Bad = {}
  <2> SUFFICES ASSUME Bad # {} PROVE FALSE
    OBVIOUS
  <2> DEFINE k == Min(Bad)
  <2>1. k \in Bad /\ \A y \in Bad : k <= y
    <3>1. Bad \in SUBSET Nat
      BY <1>1
    <3> HIDE DEF Bad
    <3> QED
      BY <3>1, MinIsLeast
  <2> HIDE DEF k
  <2>2. k \in 1..L /\ ~Right(k)
    BY <2>1
  <2>3. k # 1
    <3> SUFFICES ASSUME k = 1 PROVE FALSE
      OBVIOUS
    <3>1. SubSeq(codes, 1, 1) = <<0>>
      <4> DEFINE a == SubSeq(codes, 1, 1)
      <4>1. a \in Seq(Nat) /\ Len(a) = 1 /\ \A i \in 1..1 : a[i] = codes[i]
        BY <1>1, PrefixLength
      <4> HIDE DEF a
      <4>2. a = <<0>>
        BY <4>1
      <4> QED
        BY <4>2 DEF a
    <3>2. ROOT \in ResponseNodes(t) /\ t[ROOT].path = <<0>>
      BY LenProperties DEF IsTrie, Sound, ResponseNodes, ROOT, RootSim, White, Golden
    <3>3. ROOT # NoNode
      BY DEF ROOT, NoNode
    <3>4. Right(1)
      BY <1>6, <3>1, <3>2, <3>3
    <3> QED
      BY <2>2, <3>4
  <2> DEFINE j == k - 1
  <2>4. j \in 1..L /\ ~(k <= j) /\ k \in 2..L /\ k = j + 1
    BY <1>1, <2>2, <2>3
  <2>5. Right(j)
    BY <2>1, <2>4
  <2>6. at[k] = next(k, at[j])
    BY <1>6, <2>4
  <2>7. SubSeq(codes, 1, k) = Append(SubSeq(codes, 1, j), codes[k])
    BY <1>1, <2>4, PrefixGrows
  <2>8. codes[k] \in Nat /\ codes[k] # SimId
    BY <1>1, <2>2
  <2> HIDE DEF j, Right
  <2>9. CASE at[j] = NoNode
    <3>1. at[k] = NoNode
      BY <2>6, <2>9 DEF next
    <3>2. \A m \in ResponseNodes(t) : t[m].path # SubSeq(codes, 1, j)
      BY <2>5, <2>9 DEF Right
    <3>3. ASSUME NEW m \in ResponseNodes(t), t[m].path = SubSeq(codes, 1, k) PROVE FALSE
      <4>1. t[m].path \in Seq(Nat) /\ Len(t[m].path) = k
        BY <1>1, <2>2, <3>3, PrefixLength
      <4>2. j \in 1..Len(t[m].path)
        BY <2>4, <4>1
      <4>3. PICK x \in ResponseNodes(t) : t[x].path = SubSeq(t[m].path, 1, j)
        BY <4>2, TriePrefixes
      <4>4. SubSeq(t[m].path, 1, j) = SubSeq(codes, 1, j)
        BY <1>1, <2>2, <2>4, <3>3, PrefixOfPrefix
      <4> QED
        BY <3>2, <4>3, <4>4
    <3>4. Right(k)
      BY <3>1, <3>3 DEF Right
    <3> QED
      BY <2>2, <3>4
  <2>10. CASE at[j] # NoNode
    <3> DEFINE n == at[j]
               c == ExistsChild(t, n, codes[k])
               path == Append(t[n].path, codes[k])
    <3>1. n \in ResponseNodes(t) /\ t[n].path = SubSeq(codes, 1, j)
      BY <2>5, <2>10 DEF Right
    <3>2. at[k] = c
      BY <2>6, <2>10 DEF next
    <3>3. path = SubSeq(codes, 1, k)
      BY <2>7, <3>1
    <3> HIDE DEF n
    <3> DEFINE id == codes[k]
    <3>a. id \in Nat /\ id # SimId
      BY <2>8
    <3> HIDE DEF id
    <3>4. /\ c = NoNode <=> \A m \in ResponseNodes(t) : t[m].path # path
          /\ c # NoNode => c \in ResponseNodes(t) /\ t[c].path = path
      <4>1. FindsChild(t, n, id)
        BY <3>1, <3>a, ExistsChildFinds
      <4> QED
        BY <4>1 DEF FindsChild, id
    <3> HIDE DEF c, path
    <3>5. Right(k)
      BY <3>2, <3>3, <3>4 DEF Right
    <3> QED
      BY <2>2, <3>5
  <2> QED
    BY <2>9, <2>10
<1>8. Right(L)
  <2>1. L \in 1..L
    BY <1>1
  <2> HIDE DEF Right
  <2> QED
    BY <1>7, <2>1
<1>9. SubSeq(codes, 1, L) = codes
  BY <1>1, SubSeqFull
<1> QED
  BY <1>5, <1>8, <1>9

(* The nodes collected on the way up, after each step.                     *)
IsUp(t, n, up) ==
  /\ up[0] = {n}
  /\ \A d \in 1..Len(t) : up[d] = up[d - 1] \cup {t[m].parent : m \in up[d - 1] \ {NoNode}}

LEMMA LineageWalk ==
  ASSUME NEW E, NEW t, Sound(E, t), NEW n \in DOMAIN t
  PROVE  \E up : IsUp(t, n, up) /\ Lineage(t, n) = up[Len(t)] \ {NoNode}
<1> DEFINE next(S) == S \cup {t[m].parent : m \in S \ {NoNode}}
           Walk(f) == f = [d \in 0..Len(t) |->
                             IF d = 0 THEN {n}
                             ELSE f[d - 1] \cup {t[m].parent : m \in f[d - 1] \ {NoNode}}]
           up == CHOOSE f : Walk(f)
           V == SUBSET (DOMAIN t \cup {NoNode})
<1>1. /\ Len(t) \in Nat /\ DOMAIN t = 1..Len(t) /\ ROOT \in DOMAIN t /\ NoNode \notin DOMAIN t
      /\ n \in Nat /\ n <= Len(t)
  BY LenProperties DEF Sound, ROOT, RootSim, NoNode
<1>2. \A m \in DOMAIN t : t[m].parent \in DOMAIN t \cup {NoNode}
  BY DEF Sound
<1>3. \A S \in V : next(S) \in V
  BY <1>1, <1>2
<1>4. \E f : Walk(f)
  <2> DEFINE step == [x \in Nat \X V |-> next(x[2])]
  <2>1. step \in [(Nat \X V) -> V]
    BY <1>3
  <2>2. \A k \in Nat, S \in V : step[<<k, S>>] = next(S)
    OBVIOUS
  <2>3. {n} \in V /\ 0 \in Nat
    OBVIOUS
  <2> HIDE DEF step, V
  <2>a. Len(t) \in Nat /\ 0 <= Len(t)
    BY <1>1
  <2> DEFINE L == Len(t)
             S == {n}
  <2>b. L \in Nat /\ 0 <= L /\ 0 \in Nat /\ S \in V
    BY <2>3, <2>a
  <2> HIDE DEF L, S
  <2>c. \E f : IsWalk(f, V, 0, L, S, step)
    BY <2>1, <2>b, WalkExists
  <2>4. PICK f : /\ f \in [0..Len(t) -> V] /\ f[0] = {n}
                 /\ \A k \in (0 + 1)..Len(t) : f[k] = step[<<k, f[k - 1]>>]
    BY <2>c DEF IsWalk, L, S
  <2>5. \A d \in 0..Len(t) : f[d] = IF d = 0 THEN {n} ELSE next(f[d - 1])
    <3> TAKE d \in 0..Len(t)
    <3>1. CASE d = 0
      BY <2>4, <3>1
    <3>2. CASE d # 0
      <4>1. d \in (0 + 1)..Len(t) /\ d \in Nat /\ d - 1 \in 0..Len(t)
        BY <1>1, <3>2
      <4>2. f[d - 1] \in V
        BY <2>4, <4>1
      <4> HIDE DEF next
      <4> QED
        BY <2>2, <2>4, <3>2, <4>1, <4>2
    <3> QED
      BY <3>1, <3>2
  <2>6. Walk(f)
    BY <2>4, <2>5
  <2> QED
    BY <2>6
<1>5. Walk(up)
  BY <1>4
<1>6. Lineage(t, n) = up[Len(t)] \ {NoNode}
  BY DEF Lineage
<1> HIDE DEF up
<1>7. up[0] = {n} /\ \A d \in 1..Len(t) : up[d] = next(up[d - 1])
  <2>1. \A d \in 0..Len(t) : up[d] = IF d = 0 THEN {n} ELSE next(up[d - 1])
    BY <1>5
  <2>2. 0 \in 0..Len(t) /\ \A d \in 1..Len(t) : d \in 0..Len(t) /\ d # 0
    BY <1>1
  <2> HIDE DEF next
  <2> QED
    BY <2>1, <2>2
<1> HIDE DEF Walk, V
<1>8. IsUp(t, n, up)
  BY <1>7 DEF IsUp
<1> QED
  BY <1>6, <1>8

(* The root is on the way up from every node.                             *)
LEMMA RootInLineage ==
  ASSUME NEW E, NEW t, Sound(E, t), IsTrie(t), NEW n \in DOMAIN t
  PROVE  ROOT \in Lineage(t, n)
<1> DEFINE next(S) == S \cup {t[m].parent : m \in S \ {NoNode}}
<1>1. /\ Len(t) \in Nat /\ DOMAIN t = 1..Len(t) /\ ROOT \in DOMAIN t /\ NoNode \notin DOMAIN t
      /\ n \in Nat /\ n <= Len(t)
  BY LenProperties DEF Sound, ROOT, RootSim, NoNode
<1>6. PICK up : IsUp(t, n, up) /\ Lineage(t, n) = up[Len(t)] \ {NoNode}
  BY LineageWalk
<1>7. up[0] = {n} /\ \A d \in 1..Len(t) : up[d] = next(up[d - 1])
  BY <1>6 DEF IsUp
<1> DEFINE Near(d) == ROOT \in up[d] \/ \E m \in DOMAIN t : m \in up[d] /\ m + d <= n
           Bad == {d \in 0..Len(t) : ~Near(d)}
<1>8. Bad = {}
  <2> SUFFICES ASSUME Bad # {} PROVE FALSE
    OBVIOUS
  <2> DEFINE d == Min(Bad)
  <2>1. d \in Bad /\ \A y \in Bad : d <= y
    <3>1. Bad \in SUBSET Nat
      OBVIOUS
    <3> HIDE DEF Bad
    <3> QED
      BY <3>1, MinIsLeast
  <2> HIDE DEF d
  <2>2. d \in 0..Len(t) /\ ~Near(d)
    BY <2>1
  <2>3. d # 0
    <3>1. Near(0)
      BY <1>1, <1>7
    <3> QED
      BY <2>2, <3>1
  <2> DEFINE g == d - 1
  <2>4. g \in 0..Len(t) /\ ~(d <= g) /\ d \in 1..Len(t) /\ d = g + 1 /\ g \in Nat
    BY <1>1, <2>2, <2>3
  <2>5. Near(g)
    BY <2>1, <2>4
  <2>6. up[d] = next(up[g])
    BY <1>7, <2>4
  <2> HIDE DEF g
  <2>7. CASE ROOT \in up[g]
    BY <2>2, <2>6, <2>7
  <2>8. CASE ROOT \notin up[g]
    <3>1. PICK m \in DOMAIN t : m \in up[g] /\ m + g <= n
      BY <2>5, <2>8
    <3>2. m # ROOT /\ m # NoNode
      BY <1>1, <2>8, <3>1
    <3>3. t[m].parent < m /\ t[m].parent \in DOMAIN t
      BY <3>2 DEF IsTrie, Extends, Simulates, ResponseNodes, SimulationNodes
    <3>4. t[m].parent \in up[d]
      BY <2>6, <3>1, <3>2
    <3>5. t[m].parent + d <= n
      <4> DEFINE p == t[m].parent
      <4>1. p \in Nat /\ m \in Nat /\ p < m
        BY <1>1, <3>3
      <4> HIDE DEF p
      <4>2. p + d <= n
        BY <1>1, <2>4, <3>1, <4>1
      <4> QED
        BY <4>2 DEF p
    <3> QED
      BY <2>2, <3>3, <3>4, <3>5
  <2> QED
    BY <2>7, <2>8
<1>9. Near(Len(t))
  BY <1>1, <1>8
<1>10. \A m \in DOMAIN t : m + Len(t) > n
  BY <1>1
<1>11. ROOT \in up[Len(t)]
  BY <1>9, <1>10, <1>1
<1> QED
  BY <1>1, <1>6, <1>11

(* With a node every parent above it is in the lineage; all of them are    *)
(* response nodes if the first one is.                                     *)
LEMMA LineageClosed ==
  ASSUME NEW E, NEW t, Sound(E, t), IsTrie(t), NEW n \in DOMAIN t, NEW m \in Lineage(t, n)
  PROVE  /\ m \in DOMAIN t
         /\ (m # ROOT => t[m].parent \in Lineage(t, n))
         /\ (n \in ResponseNodes(t) => m \in ResponseNodes(t))
<1>1. /\ Len(t) \in Nat /\ DOMAIN t = 1..Len(t) /\ ROOT \in DOMAIN t /\ NoNode \notin DOMAIN t
      /\ n \in Nat /\ n <= Len(t) /\ NoNode = 0
  BY LenProperties DEF Sound, ROOT, RootSim, NoNode
<1>2. PICK up : IsUp(t, n, up) /\ Lineage(t, n) = up[Len(t)] \ {NoNode}
  BY LineageWalk
<1> DEFINE L == Len(t)
           P(x) == t[x].parent
<1>3. \A x \in DOMAIN t \ {ROOT} : P(x) \in DOMAIN t /\ P(x) < x /\ P(x) \in ResponseNodes(t)
  BY DEF IsTrie, Extends, Simulates, ResponseNodes, SimulationNodes
<1>4. P(ROOT) = NoNode
  BY DEF Sound
<1>5. up[0] = {n} /\ \A d \in 1..L : \A x : x \in up[d] <=> x \in up[d - 1] \/ \E y \in up[d - 1] \ {NoNode} : x = P(y)
  BY <1>2 DEF IsUp
\* where a node is reached, and that it stays
<1> DEFINE Good(x) == /\ x \in DOMAIN t /\ x <= n
                      /\ (n \in ResponseNodes(t) => x \in ResponseNodes(t))
                      /\ x \in up[n - x]
           Right(d) == \A x \in up[d] : x # NoNode => Good(x)
           Stays(c, d) == up[c] \subseteq up[d]
<1>6. \A c, d \in 0..L : c <= d => Stays(c, d)
  <2> SUFFICES ASSUME NEW c \in 0..L PROVE \A d \in 0..L : c <= d => Stays(c, d)
    OBVIOUS
  <2> DEFINE Bad == {d \in 0..L : c <= d /\ ~Stays(c, d)}
  <2>1. SUFFICES ASSUME Bad # {} PROVE FALSE
    OBVIOUS
  <2>2. Bad \in SUBSET Nat
    OBVIOUS
  <2> DEFINE d == Min(Bad)
  <2>3. d \in Bad /\ \A y \in Bad : d <= y
    <3> HIDE DEF Bad
    <3> QED
      BY <2>1, <2>2, MinIsLeast
  <2> HIDE DEF d
  <2>4. d \in 0..L /\ c <= d /\ ~Stays(c, d)
    BY <2>3
  <2>5. c # d
    BY <2>4
  <2>6. d \in 1..L /\ d - 1 \in 0..L /\ c <= d - 1 /\ ~(d <= d - 1)
    BY <1>1, <2>4, <2>5
  <2>7. Stays(c, d - 1)
    BY <2>3, <2>6
  <2>8. up[d - 1] \subseteq up[d]
    BY <1>5, <2>6
  <2> QED
    BY <2>4, <2>7, <2>8
<1>7. \A d \in 0..L : Right(d)
  <2> DEFINE Bad == {d \in 0..L : ~Right(d)}
  <2>1. SUFFICES ASSUME Bad # {} PROVE FALSE
    OBVIOUS
  <2>2. Bad \in SUBSET Nat
    OBVIOUS
  <2> DEFINE d == Min(Bad)
  <2>3. d \in Bad /\ \A y \in Bad : d <= y
    <3> HIDE DEF Bad
    <3> QED
      BY <2>1, <2>2, MinIsLeast
  <2> HIDE DEF d
  <2>4. d \in 0..L /\ ~Right(d)
    BY <2>3
  <2>5. PICK x \in up[d] : x # NoNode /\ ~Good(x)
    BY <2>4
  <2>6. d # 0
    <3> SUFFICES ASSUME d = 0 PROVE FALSE
      OBVIOUS
    <3>1. x = n
      BY <1>5, <2>5
    <3>2. n - x = 0 /\ x \in up[0]
      BY <1>1, <1>5, <3>1
    <3> QED
      BY <1>1, <2>5, <3>1, <3>2
  <2>7. d \in 1..L /\ d - 1 \in 0..L /\ ~(d <= d - 1)
    BY <1>1, <2>4, <2>6
  <2>8. Right(d - 1)
    BY <2>3, <2>7
  <2>9. x \notin up[d - 1]
    BY <2>5, <2>8
  <2>10. PICK y \in up[d - 1] \ {NoNode} : x = P(y)
    BY <1>5, <2>5, <2>7, <2>9
  <2>11. Good(y)
    BY <2>8
  <2>12. y # ROOT /\ y \in DOMAIN t
    BY <1>4, <2>5, <2>10, <2>11
  <2>13. x \in DOMAIN t /\ x < y /\ x \in ResponseNodes(t)
    BY <1>3, <2>10, <2>12
  <2>14. /\ x \in Nat /\ y \in Nat /\ y <= n /\ x >= 1 /\ n - y \in 0..L /\ n - y + 1 \in 1..L
         /\ n - x \in 0..L /\ n - y + 1 <= n - x /\ (n - y + 1) - 1 = n - y
    BY <1>1, <2>11, <2>12, <2>13
  <2>15. x \in up[n - y + 1]
    <3>1. y \in up[n - y] \ {NoNode}
      BY <2>10, <2>11
    <3> QED
      BY <1>5, <2>10, <2>14, <3>1
  <2>16. x \in up[n - x]
    <3>1. n - y + 1 \in 0..L
      BY <1>1, <2>14
    <3>2. Stays(n - y + 1, n - x)
      BY <1>6, <2>14, <3>1
    <3> QED
      BY <2>15, <3>2
  <2>17. x <= n
    BY <2>13, <2>14
  <2> QED
    BY <2>5, <2>13, <2>16, <2>17
<1>8. m \in up[L] /\ m # NoNode /\ L \in 0..L
  BY <1>1, <1>2
<1>9. Good(m)
  BY <1>7, <1>8
<1>10. ASSUME m # ROOT PROVE P(m) \in Lineage(t, n)
  <2>1. P(m) \in DOMAIN t /\ P(m) # NoNode
    BY <1>1, <1>3, <1>9, <1>10
  <2>2. m >= 1 /\ m \in Nat /\ n - m \in 0..L /\ n - m + 1 \in 1..L /\ (n - m + 1) - 1 = n - m
        /\ n - m + 1 \in 0..L /\ n - m + 1 <= L
    <3>1. m \in 1..L /\ m <= n /\ m # ROOT
      BY <1>1, <1>9, <1>10
    <3> QED
      BY <1>1, <3>1
  <2>3. P(m) \in up[n - m + 1]
    BY <1>5, <1>8, <1>9, <2>2
  <2>4. Stays(n - m + 1, L)
    BY <1>6, <1>8, <2>2
  <2> QED
    BY <1>2, <2>1, <2>3, <2>4
<1> QED
  BY <1>9, <1>10

-----------------------------------------------------------------------------
(* The invariant of types and references.                                   *)
FrameInside ==
  pc = "dye" => ex.region \in 1..Len(ex.entry.counts) /\ ex.k >= 2

M2Chosen == pc = "fuzz" \/ (pc = "dye" /\ round > 0) => m2.count >= 1

Inv ==
  /\ TypeOK
  /\ Sound(Entries, tree)
  /\ pc # "crashed" => ~tree[ROOT].explored
  /\ pc = "climb" => cur # ROOT
  /\ pc = "m2" => curSeed \in DOMAIN tree[cur].seeds
  /\ pc = "dry" => round = 0
  /\ FrameInside
  /\ M2Chosen

-----------------------------------------------------------------------------
(* The steps of one iteration of Expansion's second round *)

GoodFrame(f, t) ==
  /\ f \in Frame /\ f.node \in DOMAIN t
  /\ f.k \in 2..Len(f.entry.codes)
  /\ f.region \in 1..Len(f.entry.counts)

LEMMA EntryType ==
  ASSUME NEW e \in Entries
  PROVE  /\ WellFormed(e) /\ e.codes \in Seq(Nat) /\ e.counts \in Seq(Nat)
         /\ Len(e.codes) \in Nat /\ Len(e.counts) \in Nat \ {0}
<1>1. WellFormed(e)
  BY EntriesAssumption
<1>2. e.codes \in Seq(Nat) /\ e.counts \in Seq(Nat) /\ e.counts # <<>>
  BY <1>1 DEF WellFormed
<1> QED
  BY <1>1, <1>2, LenProperties, EmptySeq

LEMMA MatchInside ==
  ASSUME NEW f, NEW t, GoodFrame(f, t)
  PROVE  Match(f).region \in 1..Len(f.entry.counts) /\ Match(f).exact \in BOOLEAN
<1> DEFINE from == f.region + (IF f.exact THEN 1 ELSE 0)
           hit == MatchRegion(f.entry, f.k, from)
<1>1. f.entry \in Entries /\ f.exact \in BOOLEAN /\ f.k \in Nat
  BY DEF GoodFrame, Frame
<1>2. WellFormed(f.entry) /\ Len(f.entry.counts) \in Nat
  BY <1>1, EntryType
<1>3. from \in Nat \ {0}
  BY <1>1, <1>2 DEF GoodFrame
<1> HIDE DEF from
<1>4. hit # NoRegion => hit \in 1..Len(f.entry.counts)
  BY <1>2, <1>3, MatchRegionInEntry
<1>5. Match(f) = IF hit = NoRegion THEN [region |-> f.region, exact |-> f.exact]
                 ELSE [region |-> hit, exact |-> f.entry.counts[hit] = f.k]
  BY DEF Match, from
<1>6. CASE hit = NoRegion
  <2>1. Match(f).region = f.region /\ Match(f).exact = f.exact
    BY <1>5, <1>6
  <2> QED
    BY <1>1, <2>1 DEF GoodFrame
<1>7. CASE hit # NoRegion
  <2>1. Match(f).region = hit /\ Match(f).exact = (f.entry.counts[hit] = f.k)
    BY <1>5, <1>7
  <2>2. (f.entry.counts[hit] = f.k) \in BOOLEAN
    OBVIOUS
  <2> QED
    BY <1>4, <1>7, <2>1, <2>2
<1> QED
  BY <1>6, <1>7

LEMMA ReopenSound ==
  ASSUME NEW t, Sound(Entries, t), ~t[ROOT].explored, NEW f, GoodFrame(f, t)
  PROVE  Succeeds(Entries, t, Reopen(t, f)) /\ Len(Reopen(t, f)) = Len(t)
         /\ DOMAIN Reopen(t, f) = DOMAIN t
<1> DEFINE n == f.node
           b == FALSE
           u == SetExplored(t, n, b)
<1>1. n \in DOMAIN t
  BY DEF GoodFrame
<1>2. ROOT \in DOMAIN t /\ Len(t) \in Nat
  BY LenProperties DEF Sound, ROOT, RootSim
<1>3. t[ROOT].explored = FALSE
  <2>1. t[ROOT] \in NodeRec(Entries)
    BY <1>2, NodeOfSound
  <2>2. t[ROOT].explored \in BOOLEAN
    BY <2>1 DEF NodeRec
  <2> QED
    BY <2>2
<1> HIDE DEF n
<1>4. b \in BOOLEAN
  OBVIOUS
<1>5. Reopen(t, f) = SetExplored(t, n, b) \/ Reopen(t, f) = t
  BY DEF Reopen, n
<1> HIDE DEF b
<1>6. /\ Sound(Entries, u) /\ Len(u) = Len(t) /\ DOMAIN u = DOMAIN t
      /\ u[n].explored = b
      /\ n # ROOT => u[ROOT] = t[ROOT]
  BY <1>1, <1>4, SetExploredSound
<1> HIDE DEF u
<1>7. u[ROOT].explored = t[ROOT].explored
  BY <1>3, <1>6 DEF b
<1>8. Succeeds(Entries, t, u) /\ Succeeds(Entries, t, t)
  BY <1>2, <1>6, <1>7 DEF Succeeds
<1> QED
  BY <1>5, <1>6, <1>8 DEF u

LEMMA GrowSound ==
  ASSUME NEW t, Sound(Entries, t), NEW f, GoodFrame(f, t)
  PROVE  Succeeds(Entries, t, Grow(t, f)) /\ Target(t, f) \in DOMAIN Grow(t, f)
<1>1. f.entry \in Entries /\ f.k \in 1..Len(f.entry.codes) /\ f.k \in Nat
  BY DEF GoodFrame, Frame
<1>2. f.entry.codes \in Seq(Nat) /\ Len(f.entry.codes) \in Nat
  BY <1>1, EntryType
<1>3. Len(t) \in Nat /\ DOMAIN t = 1..Len(t)
  BY LenProperties DEF Sound
<1>4. CASE Fresh(t, f)
  <2> DEFINE id == f.entry.codes[f.k]
             path == SubSeq(f.entry.codes, 1, f.k)
             colour == IF Match(f).exact THEN White ELSE Black
             u == AppendChild(t, f.node, id, colour, path)
  <2>1. id \in Nat
    BY <1>1, <1>2, ElementOfSeq
  <2>2. path \in Seq(Nat)
    BY <1>1, <1>2, SubSeqProperties, ElementOfSeq
  <2>3. colour \in {White, Black} /\ f.node \in DOMAIN t
    BY DEF GoodFrame
  <2>4. Grow(t, f) = u /\ Target(t, f) = Len(t) + 1
    BY <1>4 DEF Grow, Target
  <2> HIDE DEF id, path, colour
  <2>5. Succeeds(Entries, t, u) /\ Len(u) >= Len(t) + 1
    BY <2>1, <2>2, <2>3, AppendChildSound
  <2> HIDE DEF u
  <2>6. Len(u) \in Nat /\ DOMAIN u = 1..Len(u)
    BY <2>5, LenProperties DEF Sound, Succeeds
  <2> QED
    BY <1>3, <2>4, <2>5, <2>6
<1>5. CASE ~Fresh(t, f)
  <2>1. Grow(t, f) = t /\ Target(t, f) = ExistsChild(t, f.node, f.entry.codes[f.k])
    BY <1>5 DEF Grow, Target
  <2>2. ExistsChild(t, f.node, f.entry.codes[f.k]) # NoNode
    BY <1>5 DEF Fresh
  <2>3. Target(t, f) \in DOMAIN t
    BY <2>1, <2>2, ExistsChildInTree
  <2> QED
    BY <1>3, <2>1, <2>3 DEF Succeeds
<1> QED
  BY <1>4, <1>5

LEMMA WhitenSound ==
  ASSUME NEW t, Sound(Entries, t), NEW n \in DOMAIN t, NEW f, NEW s, GoodFrame(f, s)
  PROVE  Succeeds(Entries, t, Whiten(t, n, f))
<1> DEFINE path == SubSeq(f.entry.codes, 1, f.k)
<1>1. f.entry \in Entries /\ f.k \in 1..Len(f.entry.codes) /\ f.k \in Nat
  BY DEF GoodFrame, Frame
<1>2. path \in Seq(Nat)
  <2>1. f.entry.codes \in Seq(Nat) /\ Len(f.entry.codes) \in Nat
    BY <1>1, EntryType
  <2> QED
    BY <1>1, <2>1, SubSeqProperties, ElementOfSeq
<1>3. CASE t[n].colour = Black
  <2>1. n # ROOT
    BY <1>3 DEF Sound, White, Black
  <2>2. Whiten(t, n, f) = Flip(t, n, path) \/ Whiten(t, n, f) = t
    BY DEF Whiten
  <2> HIDE DEF path
  <2>3. Succeeds(Entries, t, Flip(t, n, path))
    BY <1>2, <2>1, FlipSound
  <2>4. Succeeds(Entries, t, t)
    BY LenProperties DEF Succeeds, Sound
  <2> QED
    BY <2>2, <2>3, <2>4
<1>4. CASE t[n].colour # Black
  <2>1. Whiten(t, n, f) = t
    BY <1>4 DEF Whiten
  <2> QED
    BY <2>1, LenProperties DEF Succeeds, Sound
<1> QED
  BY <1>3, <1>4

LEMMA SowSound ==
  ASSUME NEW t, Sound(Entries, t), NEW n \in DOMAIN t, NEW f, NEW s, GoodFrame(f, s)
  PROVE  Succeeds(Entries, t, Sow(t, n, f))
<1> DEFINE region == Match(f).region
           seed == NewSeed(f.entry, region)
           sim == t[n].sim
<1>1. f.entry \in Entries
  BY DEF GoodFrame, Frame
<1>2. WellFormed(f.entry) /\ Len(f.entry.counts) \in Nat
  BY <1>1, EntryType
<1>3. region \in 1..Len(f.entry.counts)
  BY MatchInside
<1>4. CASE Seeded(t, n, f)
  <2>1. SeedFits(f.entry, region)
    BY <1>4 DEF Seeded
  <2>2. Sow(t, n, f) = AddSeed(t, sim, seed)
    BY <1>4 DEF Sow
  <2> HIDE DEF region
  <2>3. region < Len(f.entry.counts) /\ region \in Nat /\ 1 <= region
    BY <1>2, <1>3, <2>1, FittingSeedHasRegionAfter
  <2>4. seed \in SeedRec(Entries) /\ HasRegionAfter(seed)
    BY <1>1, <2>3 DEF NewSeed, SeedRec, HasRegionAfter
  <2>5. sim \in Nat
    <3>1. t[n] \in NodeRec(Entries)
      BY NodeOfSound
    <3> QED
      BY <3>1 DEF NodeRec
  <2> HIDE DEF seed, sim
  <2> QED
    BY <2>2, <2>4, <2>5, AddSeedSound
<1>5. CASE ~Seeded(t, n, f)
  <2>1. Sow(t, n, f) = t
    BY <1>5 DEF Sow
  <2> QED
    BY <2>1, LenProperties DEF Succeeds, Sound
<1> QED
  BY <1>4, <1>5

(* What a step has shown of the tree when the new tree succeeds the old.    *)
LEMMA TreeStep ==
  ASSUME NEW t, Sound(Entries, t), NEW u, Succeeds(Entries, t, u)
  PROVE  /\ u \in Seq(NodeRec(Entries)) /\ Len(u) >= RootSim
         /\ DOMAIN t \subseteq DOMAIN u /\ ROOT \in DOMAIN u /\ RootSim \in DOMAIN u
         /\ \A n \in DOMAIN u : n \in Nat
<1>1. Len(t) \in Nat /\ DOMAIN t = 1..Len(t)
  BY LenProperties DEF Sound
<1>2. Len(u) \in Nat /\ DOMAIN u = 1..Len(u) /\ Len(u) >= Len(t)
  BY LenProperties DEF Sound, Succeeds
<1>3. u \in Seq(NodeRec(Entries)) /\ Len(u) >= RootSim
  BY DEF Sound, Succeeds
<1> QED
  BY <1>1, <1>2, <1>3 DEF ROOT, RootSim

-----------------------------------------------------------------------------
(* Initialisation and the steps of Expansion preserve Inv *)

LEMMA InitInv == Init => Inv
<1> SUFFICES ASSUME Init PROVE Inv
  OBVIOUS
<1> DEFINE path == <<0>>
           bare == NewNode(0, NoNode, White, path)
           root == [bare EXCEPT !.sim = RootSim]
           sim == NewNode(SimId, ROOT, Golden, path)
<1>1. path \in Seq(Nat)
  OBVIOUS
<1>2. tree = <<root, sim>>
  BY DEF Init, InitialTree
<1> HIDE DEF path
<1>3. /\ bare \in NodeRec(Entries) /\ bare.parent = NoNode
      /\ bare.colour = White /\ bare.seeds = <<>>
  BY <1>1, NewNodeType DEF NoNode, Colours
<1>4. /\ sim \in NodeRec(Entries) /\ sim.parent = ROOT /\ sim.seeds = <<>>
  BY <1>1, NewNodeType DEF ROOT, SimId, Colours
<1>5. /\ root \in NodeRec(Entries) /\ root.parent = NoNode /\ root.colour = White
      /\ root.seeds = <<>> /\ root.sim = RootSim /\ ~root.explored
  <2>1. ~bare.explored
    BY DEF NewNode
  <2> HIDE DEF bare
  <2> QED
    BY <1>3, <2>1 DEF NodeRec, RootSim
<1> HIDE DEF root, sim
<1>6. /\ tree \in Seq(NodeRec(Entries)) /\ Len(tree) = 2 /\ DOMAIN tree = 1..2
      /\ tree[1] = root /\ tree[2] = sim
  BY <1>4, <1>5, <1>2
<1>7. Sound(Entries, tree)
  BY <1>4, <1>5, <1>6 DEF Sound, ROOT, RootSim, NoNode, SeedsHaveRegions
<1>8. TypeOK
  <2>1. khmn \in [{0, SimId} -> Nat] /\ DOMAIN khmn = {0, SimId}
    BY DEF Init
  <2> QED
    BY <1>6, <2>1 DEF Init, TypeOK, Places, RootSim, SimId, NoSeed
<1> QED
  BY <1>5, <1>6, <1>7, <1>8 DEF Inv, Init, FrameInside, M2Chosen, ROOT

LEMMA BeginExpansionInv ==
  ASSUME Inv, NEW e \in Entries, DryRunEntry(e) \/ FuzzEntry(e)
  PROVE  Inv'
<1> DEFINE seed == NewSeed(e, 1)
<1>1. /\ BeginExpansion(e) /\ pc \in {"dry", "fuzz"}
      /\ pc = "dry" => round = 0
      /\ pc = "fuzz" => m2.count >= 1
  BY DEF DryRunEntry, FuzzEntry, Inv, M2Chosen
<1>2. Sound(Entries, tree) /\ tree[ROOT].sim = RootSim /\ RootSim \in Nat
  BY DEF Inv, Sound, RootSim
<1>3. seed \in SeedRec(Entries)
  BY DEF NewSeed, SeedRec
<1>4. tree' = AddSeed(tree, RootSim, seed)
  BY <1>1, <1>2 DEF BeginExpansion
<1> HIDE DEF seed
<1>5. Succeeds(Entries, tree, tree')
  BY <1>2, <1>3, <1>4, AddSeedSound
<1>6. /\ tree' \in Seq(NodeRec(Entries)) /\ Len(tree') >= RootSim
      /\ DOMAIN tree \subseteq DOMAIN tree' /\ ROOT \in DOMAIN tree'
  BY <1>2, <1>5, TreeStep
<1>7. Len(tree) \in Nat /\ Len(e.counts) \in Nat \ {0}
  BY <1>2, EntryType, LenProperties DEF Sound
<1>8. /\ ex' \in Frame /\ ex'.node = ROOT /\ ex'.region = 1 /\ ex'.k = 2
      /\ ex'.entry = e
  <2>1. (Reach(tree, e.codes) = NoNode) \in BOOLEAN
    OBVIOUS
  <2> DEFINE new == Reach(tree, e.codes) = NoNode
  <2>2. ex' = [entry |-> e, k |-> 2, node |-> ROOT, newPath |-> new,
               newNode |-> FALSE, region |-> 1, exact |-> FALSE,
               base |-> Len(tree)]
    BY <1>1 DEF BeginExpansion
  <2>3. new \in BOOLEAN
    OBVIOUS
  <2> HIDE DEF new
  <2> QED
    BY <1>7, <2>2, <2>3 DEF Frame, ROOT
<1>9. TypeOK'
  BY <1>1, <1>6, <1>8 DEF BeginExpansion, Inv, TypeOK, Places
<1>10. pc' = "dye" /\ round' = round /\ m2' = m2
  BY <1>1 DEF BeginExpansion
<1>11. ~tree'[ROOT].explored
  BY <1>1, <1>5 DEF Inv, Succeeds
<1>12. round > 0 => m2.count >= 1
  BY <1>1
<1> QED
  BY <1>5, <1>7, <1>8, <1>9, <1>10, <1>11, <1>12
     DEF Inv, Succeeds, FrameInside, M2Chosen

LEMMA GoodFrameWhileDyeing ==
  ASSUME Inv, pc = "dye", ex.k <= Len(ex.entry.codes)
  PROVE  GoodFrame(ex, tree)
<1>1. ex \in Frame /\ ex.node \in DOMAIN tree
  BY DEF Inv, TypeOK
<1>2. ex.region \in 1..Len(ex.entry.counts) /\ ex.k >= 2
  BY DEF Inv, FrameInside
<1>3. ex.entry \in Entries /\ ex.k \in Nat
  BY <1>1 DEF Frame
<1>4. Len(ex.entry.codes) \in Nat
  BY <1>3, EntryType
<1> QED
  BY <1>1, <1>2, <1>3, <1>4 DEF GoodFrame

LEMMA WhenSmall ==
  ASSUME NEW condition, NEW name
  PROVE  When(condition, name) \subseteq {name}
BY Zenon DEF When

LEMMA CheckFacts ==
  ASSUME NEW bad, NEW next, Check(bad, next), TypeOK,
         bad \subseteq Assertions
  PROVE  failed' \subseteq Assertions /\ pc' \in {"aborted", next}
BY DEF Check, TypeOK

LEMMA DyeInv ==
  ASSUME Inv, Dye
  PROVE  Inv'
<1> DEFINE t     == Reopen(tree, ex)
           node  == Target(t, ex)
           grow  == Grow(t, ex)
           grown == Whiten(grow, node, ex)
           code  == ex.entry.codes[ex.k]
           bad   == DyeAssertions(grown, node, ex)
<1>1. /\ pc = "dye" /\ ex.k <= Len(ex.entry.codes)
      /\ tree' = Sow(grown, node, ex)
      /\ khmn' = IF Fresh(t, ex) /\ code \notin DOMAIN khmn
                 THEN [id \in (DOMAIN khmn) \cup {code} |->
                         IF id = code THEN 0 ELSE khmn[id]]
                 ELSE khmn
      /\ ex' = [ex EXCEPT !.k = @ + 1, !.node = node,
                          !.newNode = Fresh(t, ex),
                          !.region = Match(ex).region,
                          !.exact = Match(ex).exact]
      /\ Check(bad, "dye")
      /\ UNCHANGED <<cur, curSeed, round, execs, m2>>
  BY DEF Dye
<1>2. GoodFrame(ex, tree) /\ Sound(Entries, tree) /\ ~tree[ROOT].explored
  BY <1>1, GoodFrameWhileDyeing DEF Inv
<1>3. Succeeds(Entries, tree, t) /\ DOMAIN t = DOMAIN tree
  BY <1>2, ReopenSound
<1>4. GoodFrame(ex, t) /\ Sound(Entries, t)
  BY <1>2, <1>3 DEF GoodFrame, Succeeds
<1> HIDE DEF t
<1>5. Succeeds(Entries, t, grow) /\ node \in DOMAIN grow
  BY <1>4, GrowSound
<1> HIDE DEF grow, node
<1>6. Succeeds(Entries, grow, grown)
  BY <1>4, <1>5, WhitenSound DEF Succeeds
<1> HIDE DEF grown
<1>7. node \in DOMAIN grown /\ Sound(Entries, grown)
  BY <1>5, <1>6, TreeStep DEF Succeeds
<1>8. Succeeds(Entries, grown, tree')
  BY <1>1, <1>4, <1>7, SowSound
<1>9. node \in DOMAIN tree'
  BY <1>7, <1>8, TreeStep
<1>10. Succeeds(Entries, tree, tree')
  <2>1. Succeeds(Entries, tree, grow)
    BY <1>2, <1>3, <1>5, SucceedsTrans
  <2>2. Succeeds(Entries, tree, grown)
    BY <1>2, <1>6, <2>1, SucceedsTrans
  <2> QED
    BY <1>2, <1>8, <2>2, SucceedsTrans
<1>11. /\ tree' \in Seq(NodeRec(Entries)) /\ Len(tree') >= RootSim
       /\ DOMAIN tree \subseteq DOMAIN tree' /\ node \in Nat
  BY <1>2, <1>9, <1>10, TreeStep
<1>12. failed' \subseteq Assertions /\ pc' \in {"aborted", "dye"}
  <2>1. bad \subseteq {"new_path_captured", "seed_path", "node_path"}
    BY WhenSmall, Zenon DEF DyeAssertions
  <2> HIDE DEF bad
  <2>2. {"new_path_captured", "seed_path", "node_path"} \subseteq Assertions
    BY DEF Assertions
  <2> QED
    BY <1>1, <2>1, <2>2, CheckFacts DEF Inv
<1>13. DOMAIN khmn' \subseteq Nat /\ khmn' \in [DOMAIN khmn' -> Nat]
  <2>1. code \in Nat
    <3>1. ex.entry.codes \in Seq(Nat) /\ Len(ex.entry.codes) \in Nat
      BY <1>2, EntryType DEF GoodFrame, Frame
    <3>2. ex.k \in 1..Len(ex.entry.codes)
      BY <1>2, <3>1 DEF GoodFrame
    <3> QED
      BY <3>1, <3>2, ElementOfSeq
  <2> HIDE DEF code
  <2>2. DOMAIN khmn \subseteq Nat /\ khmn \in [DOMAIN khmn -> Nat]
    BY DEF Inv, TypeOK
  <2> DEFINE more == [id \in (DOMAIN khmn) \cup {code} |->
                        IF id = code THEN 0 ELSE khmn[id]]
  <2>3. DOMAIN more \subseteq Nat /\ more \in [DOMAIN more -> Nat]
    BY <2>1, <2>2
  <2>4. khmn' = more \/ khmn' = khmn
    BY <1>1
  <2> HIDE DEF more
  <2> QED
    BY <2>2, <2>3, <2>4
<1>14. /\ ex' \in Frame /\ ex'.node = node /\ ex'.k = ex.k + 1
       /\ ex'.region = Match(ex).region /\ ex'.entry = ex.entry
  <2> DEFINE region == Match(ex).region
             exact == Match(ex).exact
             new == Fresh(t, ex)
             k == ex.k + 1
  <2>1. region \in 1..Len(ex.entry.counts) /\ exact \in BOOLEAN
    BY <1>2, MatchInside
  <2>2. new \in BOOLEAN
    BY DEF Fresh
  <2>3. ex \in Frame /\ k \in Nat
    BY <1>2 DEF GoodFrame, Frame
  <2>4. ex' = [ex EXCEPT !.k = k, !.node = node, !.newNode = new,
                         !.region = region, !.exact = exact]
    BY <1>1
  <2> HIDE DEF region, exact, new, k
  <2>5. /\ ex'.node = node /\ ex'.k = k
        /\ ex'.region = region /\ ex'.entry = ex.entry
    BY <2>3, <2>4 DEF Frame
  <2>6. region \in Nat
    <3>1. ex.entry \in Entries
      BY <2>3 DEF Frame
    <3> QED
      BY <2>1, <3>1, EntryType
  <2>7. ex' \in Frame
    BY <1>11, <2>1, <2>2, <2>3, <2>4, <2>6 DEF Frame
  <2> QED
    BY <2>5, <2>7 DEF k, region
<1>15. TypeOK'
  BY <1>1, <1>9, <1>11, <1>12, <1>13, <1>14 DEF Inv, TypeOK, Places
<1>16. FrameInside'
  BY <1>2, <1>14, MatchInside DEF GoodFrame, Frame, FrameInside
<1>17. M2Chosen'
  BY <1>1, <1>12 DEF Inv, M2Chosen
<1>18. ~tree'[ROOT].explored
  BY <1>2, <1>10 DEF Succeeds
<1> QED
  BY <1>10, <1>12, <1>15, <1>16, <1>17, <1>18 DEF Inv, Succeeds

LEMMA FinishExpansionInv ==
  ASSUME Inv, FinishExpansion
  PROVE  Inv'
<1> DEFINE n        == ex.node
           leaf     == IsLeaf(tree, n)
           marked   == SetExplored(tree, n, leaf)
           credited == CreditPath(marked, n)
<1>1. /\ pc = "dye"
      /\ UNCHANGED <<khmn, cur, curSeed, round, execs, m2, failed>>
      /\ IF tree[n].parent = NoNode
         THEN tree' = marked /\ pc' = "crashed" /\ ex' = ex
         ELSE /\ tree' = CASE ~ex.newPath -> marked
                           [] ex.newPath /\ round = 0 -> credited
                           [] ex.newPath /\ round > 0 ->
                                CreditSeed(credited, cur, curSeed)
              /\ pc' = IF round = 0 THEN "dry" ELSE "fuzz"
              /\ ex' = NoFrame
  BY DEF FinishExpansion, Parent
<1>2. /\ TypeOK /\ Sound(Entries, tree) /\ ~tree[ROOT].explored /\ M2Chosen
      /\ n \in DOMAIN tree /\ ex \in Frame
  BY <1>1 DEF Inv, TypeOK
<1>3. leaf \in BOOLEAN
  BY DEF IsLeaf
<1> HIDE DEF n, leaf
<1>4. /\ Sound(Entries, marked) /\ Len(marked) = Len(tree)
      /\ DOMAIN marked = DOMAIN tree
      /\ n # ROOT => marked[ROOT] = tree[ROOT]
  BY <1>2, <1>3, SetExploredSound
<1>5. Len(tree) \in Nat
  BY <1>2, LenProperties DEF Sound
<1> HIDE DEF marked
<1>6. CASE tree[n].parent = NoNode
  <2>1. /\ marked \in Seq(NodeRec(Entries)) /\ Len(marked) >= RootSim
    BY <1>4 DEF Sound
  <2>2. TypeOK'
    BY <1>1, <1>2, <1>4, <1>6, <2>1 DEF TypeOK, Places
  <2> QED
    BY <1>1, <1>4, <1>6, <2>2 DEF Inv, FrameInside, M2Chosen
<1>7. CASE tree[n].parent # NoNode
  <2>1. n # ROOT
    BY <1>2, <1>7 DEF Sound
  <2>2. Succeeds(Entries, tree, marked)
    BY <1>4, <1>5, <2>1 DEF Succeeds
  <2>3. Succeeds(Entries, marked, credited) /\ DOMAIN credited = DOMAIN tree
    BY <1>4, CreditPathSound
  <2> HIDE DEF credited
  <2>4. Succeeds(Entries, tree, credited)
    BY <1>2, <2>2, <2>3, SucceedsTrans
  <2>5. Succeeds(Entries, credited, CreditSeed(credited, cur, curSeed))
    <3>1. Sound(Entries, credited)
      BY <2>3 DEF Succeeds
    <3> QED
      BY <1>2, <2>3, <3>1, CreditSeedSound DEF TypeOK
  <2>6. Succeeds(Entries, tree, CreditSeed(credited, cur, curSeed))
    BY <1>2, <2>4, <2>5, SucceedsTrans
  <2>7. ex.newPath \in BOOLEAN /\ round \in Nat
    BY <1>2 DEF TypeOK, Frame
  <2>8. Succeeds(Entries, tree, tree')
    BY <1>1, <1>7, <2>2, <2>4, <2>6, <2>7
  <2>9. /\ tree' \in Seq(NodeRec(Entries)) /\ Len(tree') >= RootSim
        /\ DOMAIN tree \subseteq DOMAIN tree'
    BY <1>2, <2>8, TreeStep
  <2>10. pc' \in {"dry", "fuzz"} /\ (pc' = "dry" => round = 0)
         /\ (pc' = "fuzz" => round > 0) /\ ex' = NoFrame
    BY <1>1, <1>7, <2>7
  <2>11. TypeOK'
    BY <1>1, <1>2, <2>9, <2>10 DEF TypeOK, Places
  <2>12. ~tree'[ROOT].explored
    BY <1>2, <2>8 DEF Succeeds
  <2> QED
    BY <1>1, <1>2, <2>8, <2>10, <2>11, <2>12
       DEF Inv, Succeeds, FrameInside, M2Chosen
<1> QED
  BY <1>6, <1>7

-----------------------------------------------------------------------------
(* The steps of the main loop and of Selection preserve Inv *)

LEMMA BeginSelectionInv ==
  ASSUME Inv, BeginSelection
  PROVE  Inv'
<1>1. /\ pc = "main" /\ round' = round + 1 /\ cur' = ROOT /\ pc' = "select"
      /\ tree' = CountSelection(tree, ROOT)
      /\ UNCHANGED <<khmn, curSeed, execs, ex, m2, failed>>
  BY DEF BeginSelection
<1>2. TypeOK /\ Sound(Entries, tree) /\ ~tree[ROOT].explored
  BY <1>1 DEF Inv
<1>3. ROOT \in DOMAIN tree
  BY <1>2, LenProperties DEF Sound, ROOT, RootSim
<1>4. Succeeds(Entries, tree, tree')
  BY <1>1, <1>2, <1>3, MaxSelectedAssumption, CountSelectionSound
<1>5. /\ tree' \in Seq(NodeRec(Entries)) /\ Len(tree') >= RootSim
      /\ DOMAIN tree \subseteq DOMAIN tree'
  BY <1>2, <1>4, TreeStep
<1>6. TypeOK'
  BY <1>1, <1>2, <1>3, <1>5 DEF TypeOK, Places
<1> QED
  BY <1>1, <1>2, <1>4, <1>6 DEF Inv, Succeeds, FrameInside, M2Chosen

LEMMA DescendInv ==
  ASSUME Inv, Descend
  PROVE  Inv'
<1>1. PICK c \in BestChildren(tree, cur) :
        /\ cur' = c
        /\ tree' = CountSelection(tree, c)
        /\ Check(When(NegInf(tree, c) /\ tree[Parent(tree, c)].colour # Black,
                      "best_child_score"),
                 CASE NegInf(tree, c) -> "climb"
                   [] ~NegInf(tree, c) /\ tree[c].colour = Golden -> "seed"
                   [] OTHER -> "select")
  BY DEF Descend
<1>2. pc = "select" /\ UNCHANGED <<khmn, curSeed, round, execs, ex, m2>>
  BY DEF Descend
<1>3. TypeOK /\ Sound(Entries, tree) /\ ~tree[ROOT].explored
  BY <1>2 DEF Inv
<1>4. c \in DOMAIN tree /\ tree[c].parent = cur
  BY BestChildrenAreChildren DEF Children
<1>5. c # ROOT
  <2>1. cur # NoNode
    BY <1>3, LenProperties DEF TypeOK, Sound, NoNode
  <2> QED
    BY <1>3, <1>4, <2>1 DEF Sound
<1>6. Succeeds(Entries, tree, tree')
  BY <1>1, <1>3, <1>4, MaxSelectedAssumption, CountSelectionSound
<1>7. /\ tree' \in Seq(NodeRec(Entries)) /\ Len(tree') >= RootSim
      /\ DOMAIN tree \subseteq DOMAIN tree'
  BY <1>3, <1>6, TreeStep
<1> DEFINE bad  == When(NegInf(tree, c) /\ tree[Parent(tree, c)].colour # Black,
                        "best_child_score")
           next == CASE NegInf(tree, c) -> "climb"
                     [] ~NegInf(tree, c) /\ tree[c].colour = Golden -> "seed"
                     [] OTHER -> "select"
<1>8. failed' \subseteq Assertions /\ pc' \in {"aborted", next}
  <2>1. bad \subseteq {"best_child_score"}
    BY WhenSmall, Zenon
  <2>2. {"best_child_score"} \subseteq Assertions
    BY DEF Assertions
  <2>3. Check(bad, next)
    BY <1>1
  <2> HIDE DEF bad, next
  <2> QED
    BY <1>3, <2>1, <2>2, <2>3, CheckFacts
<1>9. next \in {"climb", "seed", "select"}
  OBVIOUS
<1> HIDE DEF bad, next
<1>10. TypeOK'
  BY <1>1, <1>2, <1>3, <1>4, <1>7, <1>8, <1>9 DEF TypeOK, Places
<1>11. ~tree'[ROOT].explored
  BY <1>3, <1>6 DEF Succeeds
<1> QED
  BY <1>1, <1>5, <1>6, <1>8, <1>9, <1>10, <1>11
     DEF Inv, Succeeds, FrameInside, M2Chosen

LEMMA ClimbInv ==
  ASSUME Inv, Climb
  PROVE  Inv'
<1> DEFINE p    == Parent(tree, cur)
           done == IsFullyExplored(tree, p)
           next == IF done THEN "climb" ELSE "select"
           bad  == When((~tree[p].explored /\ tree[p].colour = Black)
                          /\ Cardinality(Children(tree, p)) # 1, "one_child")
           b    == TRUE
           u    == SetExplored(tree, p, b)
<1>1. /\ pc = "climb" /\ Check(bad, next) /\ cur' = p
      /\ tree' = IF done /\ pc' # "aborted" THEN u ELSE tree
      /\ UNCHANGED <<khmn, curSeed, round, execs, ex, m2>>
  BY DEF Climb
<1>2. /\ TypeOK /\ Sound(Entries, tree) /\ ~tree[ROOT].explored
      /\ cur \in DOMAIN tree /\ cur # ROOT
  BY <1>1 DEF Inv, TypeOK
<1>3. p \in DOMAIN tree
  BY <1>2 DEF Sound, Parent
<1>4. p = ROOT => ~done
  BY <1>2 DEF Sound, IsFullyExplored, White, Black
<1>5. failed' \subseteq Assertions /\ pc' \in {"aborted", next}
  <2>1. bad \subseteq {"one_child"}
    BY WhenSmall, Zenon
  <2>2. {"one_child"} \subseteq Assertions
    BY DEF Assertions
  <2> HIDE DEF bad, next
  <2> QED
    BY <1>1, <1>2, <2>1, <2>2, CheckFacts
<1>6. b \in BOOLEAN
  OBVIOUS
<1> HIDE DEF p, done, b
<1>7. Succeeds(Entries, tree, tree')
  <2>1. CASE done /\ pc' # "aborted"
    <3>1. /\ Sound(Entries, u) /\ Len(u) = Len(tree) /\ u[ROOT] = tree[ROOT]
      BY <1>2, <1>3, <1>4, <1>6, <2>1, SetExploredSound
    <3>2. tree' = u
      BY <1>1, <2>1
    <3> QED
      BY <1>2, <3>1, <3>2, LenProperties DEF Succeeds, Sound
  <2>2. CASE ~(done /\ pc' # "aborted")
    <3>1. tree' = tree
      BY <1>1, <2>2
    <3> QED
      BY <1>2, <3>1, LenProperties DEF Succeeds, Sound
  <2> QED
    BY <2>1, <2>2
<1>8. /\ tree' \in Seq(NodeRec(Entries)) /\ Len(tree') >= RootSim
      /\ DOMAIN tree \subseteq DOMAIN tree'
  BY <1>2, <1>7, TreeStep
<1>9. pc' \in {"aborted", "climb", "select"} /\ (pc' = "climb" => cur' # ROOT)
  BY <1>1, <1>4, <1>5
<1>10. TypeOK'
  BY <1>1, <1>2, <1>3, <1>5, <1>8, <1>9 DEF TypeOK, Places
<1>11. ~tree'[ROOT].explored
  BY <1>2, <1>7 DEF Succeeds
<1> QED
  BY <1>1, <1>7, <1>9, <1>10, <1>11 DEF Inv, Succeeds, FrameInside, M2Chosen

LEMMA SelectSeedInv ==
  ASSUME Inv, SelectSeed
  PROVE  Inv'
<1>1. PICK s \in BestSeeds(tree, cur) :
        curSeed' = s /\ tree' = CountSeedSelection(tree, cur, s)
  BY DEF SelectSeed
<1>2. /\ pc = "seed" /\ pc' = "m2"
      /\ khmn' = [khmn EXCEPT ![tree[Parent(tree, cur)].id] = @ + 1]
      /\ UNCHANGED <<cur, round, execs, ex, m2, failed>>
  BY DEF SelectSeed
<1>3. TypeOK /\ Sound(Entries, tree) /\ ~tree[ROOT].explored /\ cur \in DOMAIN tree
  BY <1>2 DEF Inv, TypeOK
<1>4. s \in DOMAIN tree[cur].seeds /\ s \in Nat
  <2>1. tree[cur] \in NodeRec(Entries)
    BY <1>3, NodeOfSound
  <2>2. tree[cur].seeds \in Seq(SeedRec(Entries))
    BY <2>1 DEF NodeRec
  <2>3. DOMAIN tree[cur].seeds \subseteq Nat
    BY <2>2, LenProperties
  <2> QED
    BY <2>3, BestSeedsAreSeeds
<1>5. /\ Succeeds(Entries, tree, tree') /\ DOMAIN tree' = DOMAIN tree
      /\ DOMAIN tree'[cur].seeds = DOMAIN tree[cur].seeds
  BY <1>1, <1>3, <1>4, CountSeedSelectionSound
<1>6. /\ tree' \in Seq(NodeRec(Entries)) /\ Len(tree') >= RootSim
  BY <1>3, <1>5, TreeStep
<1>7. DOMAIN khmn' = DOMAIN khmn /\ khmn' \in [DOMAIN khmn -> Nat]
  <2> DEFINE id == tree[Parent(tree, cur)].id
             n == khmn[id] + 1
  <2>1. khmn' = [khmn EXCEPT ![id] = n]
    BY <1>2
  <2>2. khmn \in [DOMAIN khmn -> Nat]
    BY <1>3 DEF TypeOK
  <2>3. id \in DOMAIN khmn => n \in Nat
    BY <2>2
  <2> HIDE DEF id, n
  <2> QED
    BY <2>1, <2>2, <2>3
<1>8. TypeOK'
  BY <1>1, <1>2, <1>3, <1>4, <1>5, <1>6, <1>7 DEF TypeOK, Places
<1>9. ~tree'[ROOT].explored
  BY <1>3, <1>5 DEF Succeeds
<1> QED
  BY <1>1, <1>2, <1>4, <1>5, <1>8, <1>9 DEF Inv, Succeeds, FrameInside, M2Chosen

LEMMA FindM2Inv ==
  ASSUME Inv, FindM2
  PROVE  Inv'
<1> DEFINE seed  == tree[cur].seeds[curSeed]
           e     == seed.entry
           start == seed.region + 1
           count == M2Count(e, start, FuzzM3)
           path  == tree[cur].path
           span  == (Len(path) + 3) \div 4
           few   == When(count < 1, "m2_count")
           short == When(e.counts[seed.region] # Len(path), "m2_path_len")
           apart == When(SubSeq(path, 1, span) # SubSeq(e.codes, 1, span),
                         "m2_path")
           bad   == few \cup short \cup apart
<1>1. /\ pc = "m2"
      /\ IF tree[cur].parent = ROOT
         THEN m2' = [start |-> 1, count |-> Len(e.counts)] /\ Check({}, "fuzz")
         ELSE m2' = [start |-> start, count |-> count] /\ Check(bad, "fuzz")
      /\ UNCHANGED <<tree, khmn, cur, curSeed, round, execs, ex>>
  BY DEF FindM2, Parent
<1>2. /\ TypeOK /\ Sound(Entries, tree) /\ ~tree[ROOT].explored
      /\ cur \in DOMAIN tree /\ curSeed \in DOMAIN tree[cur].seeds
  BY <1>1 DEF Inv, TypeOK
<1>3. seed \in SeedRec(Entries)
  <2>1. tree[cur] \in NodeRec(Entries)
    BY <1>2, NodeOfSound
  <2>2. tree[cur].seeds \in Seq(SeedRec(Entries))
    BY <2>1 DEF NodeRec
  <2> QED
    BY <1>2, <2>2, LenProperties, ElementOfSeq
<1>4. e \in Entries /\ seed.region \in Nat
  BY <1>3 DEF SeedRec
<1>5. WellFormed(e) /\ Len(e.counts) \in Nat \ {0}
  BY <1>4, EntryType
<1>6. failed' \subseteq Assertions /\ pc' \in {"aborted", "fuzz"}
  <2>1. few \subseteq {"m2_count"}
    BY WhenSmall, Zenon
  <2>2. short \subseteq {"m2_path_len"}
    BY WhenSmall, Zenon
  <2>3. apart \subseteq {"m2_path"}
    BY WhenSmall, Zenon
  <2>4. Check({}, "fuzz") \/ Check(bad, "fuzz")
    BY <1>1
  <2> HIDE DEF few, short, apart
  <2>5. bad \subseteq Assertions /\ {} \subseteq Assertions
    BY <2>1, <2>2, <2>3 DEF Assertions
  <2> HIDE DEF bad
  <2>6. CASE Check({}, "fuzz")
    BY <1>2, <2>5, <2>6, CheckFacts
  <2>7. CASE Check(bad, "fuzz")
    BY <1>2, <2>5, <2>7, CheckFacts
  <2> QED
    BY <2>4, <2>6, <2>7
<1>7. m2' \in [start: Nat, count: Nat] /\ m2'.count >= 1
  <2> HIDE DEF bad
  <2>1. CASE tree[cur].parent = ROOT
    <3> DEFINE all == Len(e.counts)
    <3>1. m2' = [start |-> 1, count |-> all]
      BY <1>1, <2>1
    <3>2. all \in Nat /\ all >= 1
      BY <1>5
    <3> HIDE DEF all
    <3> QED
      BY <3>1, <3>2
  <2>2. CASE tree[cur].parent # ROOT
    <3>1. cur # RootSim
      BY <1>2, <2>2 DEF Sound
    <3>2. HasRegionAfter(seed)
      BY <1>2, <3>1 DEF Sound, SeedsHaveRegions
    <3>3. start \in 1..Len(e.counts) /\ start \in Nat
      <4> DEFINE region == seed.region
                 len == Len(e.counts)
      <4>1. region \in Nat /\ len \in Nat /\ region < len
        BY <1>4, <1>5, <3>2 DEF HasRegionAfter
      <4> HIDE DEF region, len
      <4>2. region + 1 \in 1..len /\ region + 1 \in Nat
        BY <4>1
      <4> QED
        BY <4>2 DEF region, len
    <3>4. m2' = [start |-> start, count |-> count]
      BY <1>1, <2>2
    <3> HIDE DEF seed, e, start
    <3>5. count \in Nat /\ count >= 1
      BY <1>5, <3>3, OptionsAssumption, M2CountPositive
    <3> HIDE DEF count
    <3> QED
      BY <3>3, <3>4, <3>5
  <2> QED
    BY <2>1, <2>2
<1>8. TypeOK'
  BY <1>1, <1>2, <1>6, <1>7 DEF TypeOK, Places
<1> QED
  BY <1>1, <1>2, <1>6, <1>7, <1>8 DEF Inv, FrameInside, M2Chosen

LEMMA QuietInv ==
  ASSUME Inv, StartFuzzing \/ EndFuzz \/ Stop \/ UNCHANGED vars
  PROVE  Inv'
<1>1. CASE StartFuzzing
  BY <1>1 DEF StartFuzzing, Inv, TypeOK, Places, FrameInside, M2Chosen
<1>2. CASE EndFuzz
  <2>1. [start |-> 0, count |-> 0] \in [start: Nat, count: Nat]
    OBVIOUS
  <2> QED
    BY <1>2, <2>1 DEF EndFuzz, Inv, TypeOK, Places, FrameInside, M2Chosen
<1>3. CASE Stop
  BY <1>3 DEF Stop, Inv, TypeOK, Places, FrameInside, M2Chosen
<1>4. CASE UNCHANGED vars
  BY <1>4 DEF vars, Inv, TypeOK, FrameInside, M2Chosen
<1> QED
  BY <1>1, <1>2, <1>3, <1>4

-----------------------------------------------------------------------------
(* Theorems *)

(* Every step of the program preserves the inductive invariant.            *)
LEMMA StepInv == Inv /\ [Next]_vars => Inv'
<1> SUFFICES ASSUME Inv, [Next]_vars PROVE Inv'
  OBVIOUS
<1>1. ASSUME NEW e \in Entries, DryRunEntry(e) \/ FuzzEntry(e) PROVE Inv'
  BY <1>1, BeginExpansionInv
<1>2. CASE Dye
  BY <1>2, DyeInv
<1>3. CASE FinishExpansion
  BY <1>3, FinishExpansionInv
<1>4. CASE BeginSelection
  BY <1>4, BeginSelectionInv
<1>5. CASE Descend
  BY <1>5, DescendInv
<1>6. CASE Climb
  BY <1>6, ClimbInv
<1>7. CASE SelectSeed
  BY <1>7, SelectSeedInv
<1>8. CASE FindM2
  BY <1>8, FindM2Inv
<1>9. CASE StartFuzzing \/ EndFuzz \/ Stop \/ Terminated \/ UNCHANGED vars
  BY <1>9, QuietInv DEF Terminated
<1> QED
  BY <1>1, <1>2, <1>3, <1>4, <1>5, <1>6, <1>7, <1>8, <1>9 DEF Next

THEOREM InductiveInvariant == Spec => []Inv
  BY InitInv, StepInv, PTL DEF Spec

(* TypeOK: pointers and indices stay inside the tree, and the root is never *)
(* given up, whatever responses arrive.                                     *)
THEOREM TypeCorrect == Spec => []TypeOK
<1>1. Inv => TypeOK
  BY DEF Inv
<1> QED
  BY <1>1, InductiveInvariant, PTL

(* Below the root every seed leaves a region for M2 (mcts.c:1136).          *)
THEOREM SeedsAlwaysUsable == Spec => []SeedsUsable
<1>1. Inv => SeedsUsable
  BY DEF Inv, Sound, SeedsHaveRegions, HasRegionAfter, SeedsUsable, Sims, Responses
<1> QED
  BY <1>1, InductiveInvariant, PTL

(* find_M2_region never chooses an empty M2 (afl-fuzz.c:478).               *)
THEOREM M2NeverEmpty == Spec => []M2NotEmpty
<1>1. Inv => M2NotEmpty
  BY DEF Inv, M2Chosen, M2NotEmpty
<1> QED
  BY <1>1, InductiveInvariant, PTL

-----------------------------------------------------------------------------
(* The seeds of a tree                                                      *)

Replays(seed, path) == SubSeq(seed.entry.codes, 1, seed.entry.counts[seed.region]) = path

ListReplays(seeds, path) == \A i \in DOMAIN seeds : Replays(seeds[i], path)

(* Every seed below the root replays to its node.                         *)
AllReplay(t) == \A n \in DOMAIN t \ {RootSim} : ListReplays(t[n].seeds, t[n].path)

(* What an update of seeds, counters and marks keeps.                     *)
LEMMA KeepsTrie ==
  ASSUME NEW E, NEW t, NEW u, Sound(E, t), IsTrie(t), AllReplay(t),
         SameShape(t, u), SameSeeds(t, u)
  PROVE  /\ IsTrie(u) /\ AllReplay(u) /\ DOMAIN u = DOMAIN t
         /\ ResponseNodes(u) = ResponseNodes(t)
         /\ \A n \in DOMAIN t : u[n].path = t[n].path /\ u[n].colour = t[n].colour
<1>1. DOMAIN u = DOMAIN t /\ \A n \in DOMAIN t : u[n].path = t[n].path /\ u[n].colour = t[n].colour
  BY DEF SameShape
<1>2. AllReplay(u)
  <2> SUFFICES ASSUME NEW n \in DOMAIN u \ {RootSim}, NEW i \in DOMAIN u[n].seeds
               PROVE  Replays(u[n].seeds[i], u[n].path)
    BY DEF AllReplay, ListReplays
  <2>1. n \in DOMAIN t \ {RootSim} /\ SameSeedList(t[n].seeds, u[n].seeds)
    BY <1>1 DEF SameSeeds
  <2>2. /\ i \in DOMAIN t[n].seeds /\ u[n].seeds[i].entry = t[n].seeds[i].entry
        /\ u[n].seeds[i].region = t[n].seeds[i].region
    BY <2>1 DEF SameSeedList
  <2>3. Replays(t[n].seeds[i], t[n].path)
    BY <2>1, <2>2 DEF AllReplay, ListReplays
  <2> QED
    BY <1>1, <2>1, <2>2, <2>3 DEF Replays
<1> QED
  BY <1>1, <1>2, TrieOfSameShape

-----------------------------------------------------------------------------
(* The entries of a server without the code of the simulation nodes, whose  *)
(* region indices stay below the length of their response sequence.         *)

Plain ==
  \A e \in Entries : /\ Len(e.counts) <= Len(e.codes)
                     /\ \A k \in DOMAIN e.codes : e.codes[k] # SimId

(* The responses the iteration has walked along.                          *)
Walked(f) == SubSeq(f.entry.codes, 1, f.k)

(* The locals of Expansion describe the trie.                             *)
FrameTrie(f, t) ==
  /\ f.node \in ResponseNodes(t) /\ t[f.node].path = SubSeq(f.entry.codes, 1, f.k - 1)
  /\ (f.newNode => \A c \in ResponseNodes(t) : t[c].parent # f.node)
  /\ (f.exact => f.entry.counts[f.region] = f.k - 1)
  /\ f.base \in RootSim..Len(t)
  /\ \A n \in ResponseNodes(t) :
       n > f.base => \E j \in 1..(f.k - 1) : t[n].path = SubSeq(f.entry.codes, 1, j)
  /\ f.newPath <=> \A n \in ResponseNodes(t) : n <= f.base => t[n].path # f.entry.codes

(* The region loop of an iteration finds a region, and is exact about it. *)
LEMMA MatchFindsRegion ==
  ASSUME Plain, NEW f, NEW t, GoodFrame(f, t), f.exact => f.entry.counts[f.region] = f.k - 1
  PROVE  Match(f).exact => f.entry.counts[Match(f).region] = f.k
<1> DEFINE e == f.entry
           last == Len(e.counts)
           from == f.region + (IF f.exact THEN 1 ELSE 0)
           hits == {r \in from .. last : r <= Len(e.codes) /\ f.k <= e.counts[r]}
           hit == MatchRegion(e, f.k, from)
<1>1. e \in Entries /\ f.exact \in BOOLEAN /\ f.k \in 2..Len(e.codes) /\ f.region \in 1..last
  BY DEF GoodFrame, Frame
<1>2. WellFormed(e) /\ last \in Nat /\ last >= 1 /\ Len(e.codes) \in Nat
  BY <1>1, EntryType
<1>3. e.counts[last] = Len(e.codes) /\ last <= Len(e.codes)
  BY <1>1, <1>2 DEF WellFormed, Plain
<1>4. from \in 1..last
  <2>1. CASE f.exact
    <3>1. e.counts[f.region] = f.k - 1
      BY <2>1
    <3>2. f.region # last
      BY <1>1, <1>2, <1>3, <3>1
    <3> QED
      BY <1>1, <1>2, <2>1, <3>2
  <2>2. CASE ~f.exact
    BY <1>1, <1>2, <2>2
  <2> QED
    BY <2>1, <2>2
<1>5. last \in hits
  <2>1. f.k <= e.counts[last]
    BY <1>1, <1>2, <1>3
  <2> QED
    BY <1>2, <1>3, <1>4, <2>1
<1>6. hits \in SUBSET Nat /\ \A r \in hits : r # NoRegion
  BY <1>4 DEF NoRegion
<1>7. hit = IF hits = {} THEN NoRegion ELSE Min(hits)
  BY DEF MatchRegion
<1>8. Match(f) = IF hit = NoRegion THEN [region |-> f.region, exact |-> f.exact]
                 ELSE [region |-> hit, exact |-> f.entry.counts[hit] = f.k]
  BY DEF Match
<1> HIDE DEF hits, hit
<1>9. hit # NoRegion
  BY <1>5, <1>6, <1>7, MinIsLeast
<1>10. Match(f).region = hit /\ Match(f).exact = (f.entry.counts[hit] = f.k)
  BY <1>8, <1>9
<1> QED
  BY <1>10

(* What the frame of an iteration of Expansion is.                        *)
LEMMA FrameFacts ==
  ASSUME Plain, NEW f, NEW t, GoodFrame(f, t)
  PROVE  /\ f.entry \in Entries /\ f.entry.codes \in Seq(Nat) /\ Len(f.entry.codes) \in Nat
         /\ f.k \in Nat /\ f.k - 1 \in Nat /\ f.k \in 2..Len(f.entry.codes)
         /\ f.entry.codes[f.k] \in Nat /\ f.entry.codes[f.k] # SimId
         /\ Walked(f) = Append(SubSeq(f.entry.codes, 1, f.k - 1), f.entry.codes[f.k])
         /\ Walked(f) \in Seq(Nat) /\ Len(Walked(f)) = f.k
<1> DEFINE s == f.entry.codes
           k == f.k
           j == k - 1
<1>1. f.entry \in Entries /\ k \in 2..Len(s)
  BY DEF GoodFrame, Frame
<1>2. s \in Seq(Nat) /\ Len(s) \in Nat
  BY <1>1, EntryType
<1>3. DOMAIN s = 1..Len(s) /\ s[k] \in Nat
  BY <1>1, <1>2, LenProperties, ElementOfSeq
<1>4. s[k] # SimId
  BY <1>1, <1>2, <1>3 DEF Plain
<1>5. k \in Nat /\ j \in Nat /\ k = j + 1 /\ k \in 1..Len(s) /\ k \in 0..Len(s)
  BY <1>1, <1>2
<1> HIDE DEF s, k, j
<1>6. SubSeq(s, 1, k) = Append(SubSeq(s, 1, j), s[k])
  BY <1>2, <1>5, PrefixGrows
<1>7. SubSeq(s, 1, k) \in Seq(Nat) /\ Len(SubSeq(s, 1, k)) = k
  BY <1>2, <1>5, PrefixLength
<1> QED
  BY <1>1, <1>2, <1>3, <1>4, <1>5, <1>6, <1>7 DEF Walked, s, k, j

(* An iteration makes a node exactly if the trie has none for its responses. *)
FreshIsUnknown(t, f) ==
  LET c == ExistsChild(t, f.node, f.entry.codes[f.k])
  IN  /\ Fresh(t, f) <=> c = NoNode
      /\ c = NoNode <=> \A m \in ResponseNodes(t) : t[m].path # Walked(f)
      /\ (c # NoNode => c \in ResponseNodes(t) /\ c # ROOT /\ t[c].path = Walked(f))

LEMMA FreshMeansUnknown ==
  ASSUME Plain, NEW t, Sound(Entries, t), IsTrie(t), NEW f, GoodFrame(f, t), FrameTrie(f, t)
  PROVE  FreshIsUnknown(t, f)
<1> DEFINE n == f.node
           id == f.entry.codes[f.k]
           c == ExistsChild(t, n, id)
<1>1. id \in Nat /\ id # SimId
  BY FrameFacts
<1>2. n \in ResponseNodes(t)
  BY DEF FrameTrie
<1>3. Append(t[n].path, id) = Walked(f)
  BY FrameFacts DEF FrameTrie
<1>4. Fresh(t, f) <=> f.newNode \/ c = NoNode
  BY DEF Fresh
<1> HIDE DEF id
<1>5. FindsChild(t, n, id)
  BY <1>1, <1>2, ExistsChildFinds
<1>6. /\ c = NoNode <=> \A m \in ResponseNodes(t) : t[m].path # Walked(f)
      /\ (c # NoNode => /\ c \in ResponseNodes(t) /\ c # ROOT
                        /\ t[c].path = Walked(f) /\ t[c].parent = n)
  BY <1>3, <1>5 DEF FindsChild
<1>7. f.newNode => c = NoNode
  BY <1>6 DEF FrameTrie
<1> QED
  BY <1>4, <1>6, <1>7 DEF FreshIsUnknown, id

-----------------------------------------------------------------------------
(* The tree while Expansion works on it                                     *)

(* The nodes of t are still there, as response or simulation nodes, and with *)
(* their path and discoveries.                                            *)
Keeps(t, u) ==
  /\ DOMAIN t \subseteq DOMAIN u
  /\ \A n \in DOMAIN t :
       /\ u[n].path = t[n].path /\ u[n].discovered = t[n].discovered
       /\ u[n].colour = Golden <=> t[n].colour = Golden

LEMMA KeepsTrans ==
  ASSUME NEW t, NEW u, NEW v, Keeps(t, u), Keeps(u, v)
  PROVE  Keeps(t, v)
BY DEF Keeps

(* The iteration is at a node of the trie for its responses.              *)
AtTarget(t, n, f) ==
  /\ IsTrie(t) /\ AllReplay(t)
  /\ n \in ResponseNodes(t) /\ n # ROOT /\ t[n].path = Walked(f)

LEMMA GrowTrie ==
  ASSUME Plain, NEW t, Sound(Entries, t), IsTrie(t), AllReplay(t),
         NEW f, GoodFrame(f, t), FrameTrie(f, t)
  PROVE  /\ AtTarget(Grow(t, f), Target(t, f), f) /\ Keeps(t, Grow(t, f))
         /\ ResponseNodes(Grow(t, f))
              = ResponseNodes(t) \cup (IF Fresh(t, f) THEN {Len(t) + 1} ELSE {})
<1> DEFINE c == ExistsChild(t, f.node, f.entry.codes[f.k])
           p == f.node
           id == f.entry.codes[f.k]
           n == Len(t) + 1
           path == Walked(f)
           colour == IF Match(f).exact THEN White ELSE Black
           u == AppendChild(t, p, id, colour, path)
<1>1. /\ Fresh(t, f) <=> c = NoNode
      /\ c = NoNode <=> \A m \in ResponseNodes(t) : t[m].path # path
      /\ (c # NoNode => c \in ResponseNodes(t) /\ c # ROOT /\ t[c].path = path)
  BY FreshMeansUnknown DEF FreshIsUnknown
<1>2. CASE ~Fresh(t, f)
  <2>1. Grow(t, f) = t /\ Target(t, f) = c
    BY <1>2 DEF Grow, Target
  <2>2. Keeps(t, t)
    BY DEF Keeps
  <2> QED
    BY <1>1, <1>2, <2>1, <2>2 DEF AtTarget
<1>3. CASE Fresh(t, f)
  <2>1. Grow(t, f) = u /\ Target(t, f) = n
    BY <1>3 DEF Grow, Target, Walked
  <2>2. p \in ResponseNodes(t) /\ path = Append(t[p].path, id) /\ id \in Nat /\ id # SimId
    BY FrameFacts DEF FrameTrie
  <2>3. colour \in {White, Black}
    OBVIOUS
  <2>4. \A m \in ResponseNodes(t) : t[m].path # path
    BY <1>1, <1>3
  <2>5. DOMAIN t = 1..Len(t) /\ Len(t) \in Nat /\ n \notin DOMAIN t /\ n + 1 \notin DOMAIN t
        /\ ROOT \in DOMAIN t
    BY LenProperties DEF Sound, ROOT, RootSim
  <2> HIDE DEF id, p, colour, path
  <2>6. IsTrie(u) /\ ResponseNodes(u) = ResponseNodes(t) \cup {n}
    BY <2>2, <2>3, <2>4, AppendChildTrie
  <2>7. WithChild(t, u, p, id, colour, path)
    BY <2>3, AppendChildIs
  <2> HIDE DEF u
  <2>8. /\ DOMAIN u = DOMAIN t \cup {n} \cup (IF colour = White THEN {n + 1} ELSE {})
        /\ \A m \in DOMAIN t : u[m] = t[m]
        /\ u[n].path = path /\ u[n].seeds = <<>>
        /\ (colour = White => u[n + 1].seeds = <<>>)
    BY <2>7 DEF WithChild
  <2> HIDE DEF n
  <2>9. Keeps(t, u)
    BY <2>8 DEF Keeps
  <2>10. AllReplay(u)
    <3> SUFFICES ASSUME NEW m \in DOMAIN u \ {RootSim} PROVE ListReplays(u[m].seeds, u[m].path)
      BY DEF AllReplay
    <3>1. CASE m \in DOMAIN t
      BY <2>8, <3>1 DEF AllReplay
    <3>2. CASE m \notin DOMAIN t
      <4>1. u[m].seeds = <<>>
        BY <2>8, <3>2
      <4> QED
        BY <4>1 DEF ListReplays
    <3> QED
      BY <3>1, <3>2
  <2>11. n # ROOT
    BY <2>5 DEF n
  <2>12. AtTarget(u, n, f)
    BY <2>6, <2>8, <2>10, <2>11 DEF AtTarget, path
  <2> QED
    BY <1>3, <2>1, <2>6, <2>9, <2>12 DEF n
<1> QED
  BY <1>2, <1>3

LEMMA WhitenTrie ==
  ASSUME NEW t, Sound(Entries, t), NEW n, NEW f, AtTarget(t, n, f)
  PROVE  /\ AtTarget(Whiten(t, n, f), n, f) /\ Keeps(t, Whiten(t, n, f))
         /\ ResponseNodes(Whiten(t, n, f)) = ResponseNodes(t)
<1> DEFINE path == t[n].path
           u == Flip(t, n, path)
           s == Len(t) + 1
<1>1. /\ IsTrie(t) /\ AllReplay(t) /\ n \in ResponseNodes(t) /\ n \in DOMAIN t /\ n # ROOT
      /\ path = Walked(f)
  BY DEF AtTarget, ResponseNodes
<1>2. CASE Whiten(t, n, f) = t
  BY <1>2 DEF Keeps
<1>3. CASE Whiten(t, n, f) # t
  <2>1. Whiten(t, n, f) = u /\ t[n].colour = Black
    BY <1>1, <1>3 DEF Whiten, Walked
  <2>2. IsTrie(u) /\ ResponseNodes(u) = ResponseNodes(t)
    BY <1>1, <2>1, FlipTrie
  <2>3. DOMAIN t = 1..Len(t) /\ Len(t) \in Nat /\ s \notin DOMAIN t
    BY LenProperties DEF Sound
  <2> HIDE DEF path
  <2>4. Flipped(t, u, n, path)
    BY <1>1, FlipIs
  <2> HIDE DEF u
  <2>5. /\ DOMAIN u = DOMAIN t \cup {s}
        /\ \A m \in DOMAIN t \ {n} : u[m] = t[m]
        /\ u[n].colour = White /\ u[n].path = t[n].path
        /\ u[n].seeds = t[n].seeds /\ u[n].discovered = t[n].discovered
        /\ u[s].seeds = <<>>
    BY <2>4 DEF Flipped
  <2> HIDE DEF s
  <2>6. Keeps(t, u)
    BY <1>1, <2>1, <2>5 DEF Keeps, White, Black, Golden
  <2>7. AllReplay(u)
    <3> SUFFICES ASSUME NEW m \in DOMAIN u \ {RootSim} PROVE ListReplays(u[m].seeds, u[m].path)
      BY DEF AllReplay
    <3>1. CASE m \in DOMAIN t
      <4>1. u[m].seeds = t[m].seeds /\ u[m].path = t[m].path
        BY <2>5, <3>1
      <4> QED
        BY <1>1, <3>1, <4>1 DEF AllReplay
    <3>2. CASE m \notin DOMAIN t
      <4>1. u[m].seeds = <<>>
        BY <2>5, <3>2
      <4> QED
        BY <4>1 DEF ListReplays
    <3> QED
      BY <3>1, <3>2
  <2>8. AtTarget(u, n, f)
    BY <1>1, <2>2, <2>5, <2>7 DEF AtTarget, path
  <2> QED
    BY <2>1, <2>2, <2>6, <2>8
<1> QED
  BY <1>2, <1>3

LEMMA SowTrie ==
  ASSUME NEW t, Sound(Entries, t), NEW n, NEW f, NEW s, GoodFrame(f, s), AtTarget(t, n, f),
         Match(f).exact => f.entry.counts[Match(f).region] = f.k
  PROVE  /\ AtTarget(Sow(t, n, f), n, f) /\ Keeps(t, Sow(t, n, f))
         /\ ResponseNodes(Sow(t, n, f)) = ResponseNodes(t)
         /\ SameShape(t, Sow(t, n, f))
<1> DEFINE region == Match(f).region
           seed == NewSeed(f.entry, region)
           sim == t[n].sim
           u == AddSeed(t, sim, seed)
<1>1. /\ IsTrie(t) /\ AllReplay(t) /\ n \in ResponseNodes(t) /\ n \in DOMAIN t /\ n # ROOT
      /\ t[n].path = Walked(f)
  BY DEF AtTarget, ResponseNodes
<1>2. CASE ~Seeded(t, n, f)
  <2>1. Sow(t, n, f) = t
    BY <1>2 DEF Sow
  <2>2. Keeps(t, t) /\ SameShape(t, t)
    BY DEF Keeps, SameShape
  <2> QED
    BY <2>1, <2>2
<1>3. CASE Seeded(t, n, f)
  <2>1. Sow(t, n, f) = u
    BY <1>3 DEF Sow
  <2>2. Match(f).exact /\ t[n].colour = White
    BY <1>3 DEF Seeded
  <2>3. sim \in SimulationNodes(t) /\ sim \in DOMAIN t /\ t[sim].parent = n
    BY <1>1, <2>2 DEF IsTrie, SimulationNodes
  <2>4. t[sim].path = Walked(f)
    BY <1>1, <2>3 DEF IsTrie, Simulates
  <2>5. f.entry \in Entries /\ region \in Nat
    <3>1. region \in 1..Len(f.entry.counts)
      BY MatchInside
    <3>2. f.entry \in Entries
      BY DEF GoodFrame, Frame
    <3> QED
      BY <3>1, <3>2, EntryType
  <2>6. seed \in SeedRec(Entries) /\ seed.entry = f.entry /\ seed.region = region
    BY <2>5 DEF NewSeed, SeedRec
  <2>7. Replays(seed, Walked(f))
    BY <2>2, <2>6 DEF Replays, Walked
  <2> HIDE DEF seed, sim
  <2>8. /\ SameShape(t, u) /\ SameExplored(t, u)
        /\ \A m \in DOMAIN t :
             /\ u[m].discovered = t[m].discovered
             /\ u[m].seeds = IF m = sim THEN Append(t[m].seeds, seed) ELSE t[m].seeds
    BY <2>3, <2>6, AddSeedKeeps
  <2> HIDE DEF u
  <2>9. DOMAIN u = DOMAIN t /\ \A m \in DOMAIN t : u[m].path = t[m].path /\ u[m].colour = t[m].colour
    BY <2>8 DEF SameShape
  <2>10. Keeps(t, u)
    BY <2>8, <2>9 DEF Keeps
  <2>11. IsTrie(u) /\ ResponseNodes(u) = ResponseNodes(t)
    BY <1>1, <2>8, TrieOfSameShape
  <2>12. AllReplay(u)
    <3> SUFFICES ASSUME NEW m \in DOMAIN u \ {RootSim} PROVE ListReplays(u[m].seeds, u[m].path)
      BY DEF AllReplay
    <3>1. m \in DOMAIN t /\ ListReplays(t[m].seeds, t[m].path) /\ u[m].path = t[m].path
      BY <1>1, <2>9 DEF AllReplay
    <3>2. CASE m # sim
      BY <2>8, <3>1, <3>2
    <3>3. CASE m = sim
      <4> DEFINE q == t[m].seeds
                 v == Append(q, seed)
      <4>1. q \in Seq(SeedRec(Entries))
        <5>1. t[m] \in NodeRec(Entries)
          BY <3>1, NodeOfSound
        <5> QED
          BY <5>1 DEF NodeRec
      <4>2. u[m].seeds = v
        BY <2>8, <3>1, <3>3
      <4> HIDE DEF q
      <4>3. /\ DOMAIN v = 1..(Len(q) + 1) /\ DOMAIN q = 1..Len(q) /\ Len(q) \in Nat
            /\ \A i \in 1..Len(q) : v[i] = q[i]
            /\ v[Len(q) + 1] = seed
        BY <2>6, <4>1, AppendProperties, LenProperties
      <4> HIDE DEF v
      <4>4. \A i \in DOMAIN v : i \in DOMAIN q \/ i = Len(q) + 1
        BY <4>3
      <4>5. \A i \in DOMAIN q : Replays(q[i], t[m].path)
        BY <3>1 DEF ListReplays, q
      <4>6. Replays(seed, t[m].path)
        BY <2>4, <2>7, <3>3
      <4>7. \A i \in DOMAIN v : Replays(v[i], t[m].path)
        BY <4>3, <4>4, <4>5, <4>6
      <4> QED
        BY <3>1, <4>2, <4>7 DEF ListReplays
    <3> QED
      BY <3>2, <3>3
  <2>13. AtTarget(u, n, f)
    BY <1>1, <2>9, <2>11, <2>12 DEF AtTarget
  <2> QED
    BY <2>1, <2>8, <2>10, <2>11, <2>13
<1> QED
  BY <1>2, <1>3

-----------------------------------------------------------------------------
(* The second inductive invariant                                           *)

TrieInv ==
  /\ IsTrie(tree) /\ AllReplay(tree)
  /\ pc \notin {"dye", "aborted", "crashed"} => ex = NoFrame
  /\ pc \in {"dry", "main", "seed", "m2", "fuzz", "dye"} => tree[cur].colour = Golden
  /\ pc = "dye" => ex.k \in 2..(Len(ex.entry.codes) + 1) /\ FrameTrie(ex, tree)
  /\ OnlyKnownFailures

LEMMA ReopenTrie ==
  ASSUME NEW t, Sound(Entries, t), NEW f, GoodFrame(f, t), IsTrie(t), AllReplay(t), FrameTrie(f, t)
  PROVE  /\ IsTrie(Reopen(t, f)) /\ AllReplay(Reopen(t, f)) /\ Keeps(t, Reopen(t, f))
         /\ ResponseNodes(Reopen(t, f)) = ResponseNodes(t)
         /\ FrameTrie(f, Reopen(t, f)) /\ SameShape(t, Reopen(t, f))
<1> DEFINE n == f.node
           b == FALSE
           u == SetExplored(t, n, b)
<1>1. n \in DOMAIN t /\ b \in BOOLEAN
  BY DEF GoodFrame
<1>2. Reopen(t, f) = u \/ Reopen(t, f) = t
  BY DEF Reopen
<1>3. SameShape(t, t) /\ Keeps(t, t)
  BY DEF SameShape, Keeps
<1> HIDE DEF n, b
<1>4. /\ SameShape(t, u) /\ SameSeeds(t, u)
      /\ \A m \in DOMAIN t : u[m].discovered = t[m].discovered
  BY <1>1, SetExploredKeeps
<1>5. Len(u) = Len(t)
  BY <1>1, SetExploredSound
<1> HIDE DEF u
<1>6. /\ IsTrie(u) /\ AllReplay(u) /\ DOMAIN u = DOMAIN t
      /\ ResponseNodes(u) = ResponseNodes(t)
      /\ \A m \in DOMAIN t : u[m].path = t[m].path /\ u[m].colour = t[m].colour
  BY <1>4, KeepsTrie
<1>7. Keeps(t, u)
  BY <1>4, <1>6 DEF Keeps
<1>8. \A m \in ResponseNodes(t) : u[m].path = t[m].path /\ u[m].parent = t[m].parent
  BY <1>4 DEF SameShape, ResponseNodes
<1>9. FrameTrie(f, u)
  BY <1>5, <1>6, <1>8 DEF FrameTrie
<1> QED
  BY <1>2, <1>3, <1>4, <1>6, <1>7, <1>9

(* What an iteration of Expansion makes of the tree.                      *)
LEMMA DyeGrows ==
  ASSUME Plain, Inv, TrieInv, Dye
  PROVE  /\ AtTarget(tree', ex'.node, ex) /\ Keeps(tree, tree')
         /\ ResponseNodes(tree') = ResponseNodes(tree)
              \cup (IF ex'.newNode THEN {Len(tree) + 1} ELSE {})
         /\ (ex'.newNode => ex'.node = Len(tree) + 1)
         /\ failed' = failed /\ pc' = "dye"
<1> DEFINE t     == Reopen(tree, ex)
           node  == Target(t, ex)
           grow  == Grow(t, ex)
           grown == Whiten(grow, node, ex)
           bad   == DyeAssertions(grown, node, ex)
<1>1. /\ pc = "dye" /\ ex.k <= Len(ex.entry.codes)
      /\ tree' = Sow(grown, node, ex)
      /\ ex' = [ex EXCEPT !.k = @ + 1, !.node = node,
                          !.newNode = Fresh(t, ex),
                          !.region = Match(ex).region,
                          !.exact = Match(ex).exact]
      /\ Check(bad, "dye")
  BY DEF Dye
<1>2. /\ GoodFrame(ex, tree) /\ Sound(Entries, tree) /\ ~tree[ROOT].explored
      /\ IsTrie(tree) /\ AllReplay(tree) /\ FrameTrie(ex, tree) /\ ex \in Frame
  BY <1>1, GoodFrameWhileDyeing DEF Inv, TrieInv, TypeOK
<1>3. Succeeds(Entries, tree, t) /\ DOMAIN t = DOMAIN tree /\ Len(t) = Len(tree)
  BY <1>2, ReopenSound
<1>4. /\ IsTrie(t) /\ AllReplay(t) /\ Keeps(tree, t) /\ ResponseNodes(t) = ResponseNodes(tree)
      /\ FrameTrie(ex, t) /\ SameShape(tree, t)
  BY <1>2, ReopenTrie
<1>5. GoodFrame(ex, t) /\ Sound(Entries, t)
  BY <1>2, <1>3 DEF GoodFrame, Succeeds
<1>6. ex'.node = node /\ ex'.newNode = Fresh(t, ex) /\ (Fresh(t, ex) => node = Len(t) + 1)
  <2>1. Fresh(t, ex) => node = Len(t) + 1
    BY DEF Target
  <2> HIDE DEF t, node
  <2>2. ex'.node = node /\ ex'.newNode = Fresh(t, ex)
    BY <1>1, <1>2 DEF Frame
  <2> QED
    BY <2>1, <2>2
<1> HIDE DEF t
<1>7. Succeeds(Entries, t, grow) /\ Sound(Entries, grow)
  BY <1>5, GrowSound DEF Succeeds
<1>8. /\ AtTarget(grow, node, ex) /\ Keeps(t, grow)
      /\ ResponseNodes(grow) = ResponseNodes(t) \cup (IF Fresh(t, ex) THEN {Len(t) + 1} ELSE {})
  BY <1>4, <1>5, GrowTrie
<1>9. FreshIsUnknown(t, ex)
  BY <1>4, <1>5, FreshMeansUnknown
<1> HIDE DEF grow, node
<1>10. node \in DOMAIN grow
  BY <1>8 DEF AtTarget, ResponseNodes
<1>11. Sound(Entries, grown)
  BY <1>5, <1>7, <1>10, WhitenSound DEF Succeeds
<1>12. /\ AtTarget(grown, node, ex) /\ Keeps(grow, grown)
       /\ ResponseNodes(grown) = ResponseNodes(grow)
  BY <1>7, <1>8, WhitenTrie
<1>13. Match(ex).exact => ex.entry.counts[Match(ex).region] = ex.k
  BY <1>5, <1>4, MatchFindsRegion DEF FrameTrie
<1> HIDE DEF grown
<1>14. /\ AtTarget(tree', node, ex) /\ Keeps(grown, tree')
       /\ ResponseNodes(tree') = ResponseNodes(grown)
  BY <1>1, <1>5, <1>11, <1>12, <1>13, SowTrie
<1>15. Keeps(tree, tree')
  <2>1. Keeps(tree, grow)
    BY <1>4, <1>8, KeepsTrans
  <2>2. Keeps(tree, grown)
    BY <1>12, <2>1, KeepsTrans
  <2> QED
    BY <1>14, <2>2, KeepsTrans
<1>16. bad = {}
  <2> DEFINE codes == ex.entry.codes
             k == ex.k
  <2>1. grown[node].path = SubSeq(codes, 1, k)
    BY <1>12 DEF AtTarget, Walked
  <2>2. ~(Seeded(grown, node, ex) /\ ex.entry.counts[Match(ex).region] < Len(grown[node].path))
    <3>1. Seeded(grown, node, ex) => Match(ex).exact
      BY DEF Seeded
    <3>2. Len(grown[node].path) = k /\ k \in Nat
      BY <1>5, <2>1, FrameFacts DEF Walked
    <3> QED
      BY <1>13, <3>1, <3>2
  <2>3. ~(~ex.newPath /\ ExistsChild(tree, ex.node, codes[k]) = NoNode)
    <3> SUFFICES ASSUME ~ex.newPath PROVE ExistsChild(tree, ex.node, codes[k]) # NoNode
      OBVIOUS
    <3>1. FreshIsUnknown(tree, ex)
      BY <1>2, FreshMeansUnknown
    <3>2. PICK m \in ResponseNodes(tree) : tree[m].path = codes
      BY <1>2 DEF FrameTrie
    <3>3. codes \in Seq(Nat) /\ k \in 1..Len(codes)
      BY <1>2, FrameFacts
    <3>4. k \in 1..Len(tree[m].path)
      BY <3>2, <3>3
    <3>5. PICK x \in ResponseNodes(tree) : tree[x].path = SubSeq(tree[m].path, 1, k)
      BY <1>2, <3>4, TriePrefixes
    <3>6. tree[x].path = Walked(ex)
      BY <3>2, <3>5 DEF Walked
    <3> QED
      BY <3>1, <3>6 DEF FreshIsUnknown
  <2> QED
    BY <2>1, <2>2, <2>3 DEF DyeAssertions, When
<1>17. failed' = failed /\ pc' = "dye"
  <2> HIDE DEF bad
  <2> QED
    BY <1>1, <1>16 DEF Check
<1> QED
  BY <1>3, <1>4, <1>6, <1>8, <1>12, <1>14, <1>15, <1>17

-----------------------------------------------------------------------------
(* The steps of Expansion                                                   *)

(* The variables of the abstract trie.                                    *)
KnownNow == {tree[n].path : n \in Committed}
FoundNow == tree[ROOT].discovered

LEMMA FrameIsNotNoFrame ==
  ASSUME NEW f \in Frame
  PROVE  f # NoFrame
<1>1. "node" \in DOMAIN f
  BY DEF Frame
<1>2. "node" \notin DOMAIN NoFrame
  BY DEF NoFrame
<1> QED
  BY <1>1, <1>2

LEMMA DyeFrame ==
  ASSUME Plain, Inv, TrieInv, Dye
  PROVE  ex'.k \in 2..(Len(ex'.entry.codes) + 1) /\ FrameTrie(ex', tree')
         /\ ex' \in Frame /\ ex'.base = ex.base
<1> DEFINE codes == ex.entry.codes
           k == ex.k
<1>1. /\ AtTarget(tree', ex'.node, ex) /\ Keeps(tree, tree')
      /\ ResponseNodes(tree') = ResponseNodes(tree)
           \cup (IF ex'.newNode THEN {Len(tree) + 1} ELSE {})
      /\ (ex'.newNode => ex'.node = Len(tree) + 1)
      /\ pc' = "dye"
  BY DyeGrows
<1>2. /\ GoodFrame(ex, tree) /\ Sound(Entries, tree)
      /\ IsTrie(tree) /\ FrameTrie(ex, tree) /\ ex \in Frame
      /\ pc = "dye"
  BY GoodFrameWhileDyeing DEF Inv, TrieInv, TypeOK, Dye
<1>3. Sound(Entries, tree') /\ ex' \in Frame
  BY <1>1, DyeInv DEF Inv, TypeOK
<1>4. /\ ex'.entry = ex.entry /\ ex'.k = k + 1 /\ ex'.region = Match(ex).region
      /\ ex'.exact = Match(ex).exact /\ ex'.base = ex.base /\ ex'.newPath = ex.newPath
  BY <1>2 DEF Dye, Frame
<1>5. /\ k \in Nat /\ k \in 2..Len(codes) /\ Len(codes) \in Nat /\ (k + 1) - 1 = k
      /\ \A j \in 1..(k - 1) : j \in 1..k
  BY <1>2, FrameFacts
<1>6. /\ Len(tree) \in Nat /\ Len(tree') \in Nat /\ DOMAIN tree = 1..Len(tree)
      /\ DOMAIN tree' = 1..Len(tree') /\ Len(tree) <= Len(tree')
  <2>1. /\ Len(tree) \in Nat /\ Len(tree') \in Nat /\ DOMAIN tree = 1..Len(tree)
        /\ DOMAIN tree' = 1..Len(tree')
    BY <1>2, <1>3, LenProperties DEF Sound
  <2>2. DOMAIN tree \subseteq DOMAIN tree'
    BY <1>1 DEF Keeps
  <2>3. Len(tree) \in DOMAIN tree
    BY <1>2, <2>1 DEF Sound, RootSim
  <2> QED
    BY <2>1, <2>2, <2>3
<1>7. /\ ex'.node \in ResponseNodes(tree') /\ tree'[ex'.node].path = SubSeq(codes, 1, k)
      /\ IsTrie(tree')
  BY <1>1 DEF AtTarget, Walked
<1>8. ASSUME ex'.newNode, NEW c \in ResponseNodes(tree') PROVE tree'[c].parent # ex'.node
  <2>1. c \in DOMAIN tree' /\ c <= Len(tree) + 1 /\ c \in Nat
    BY <1>1, <1>6 DEF ResponseNodes
  <2>2. CASE c = ROOT
    <3>1. tree'[c].parent = NoNode
      BY <1>3, <2>2 DEF Sound
    <3> QED
      BY <1>1, <1>6, <1>8, <3>1 DEF NoNode
  <2>3. CASE c # ROOT
    <3>1. Extends(tree', c)
      BY <1>7, <2>3 DEF IsTrie
    <3>2. tree'[c].parent < c /\ tree'[c].parent \in DOMAIN tree'
      BY <3>1 DEF Extends, ResponseNodes
    <3> QED
      BY <1>1, <1>6, <1>8, <2>1, <3>2
  <2> QED
    BY <2>2, <2>3
<1>9. ex'.exact => ex.entry.counts[ex'.region] = k
  BY <1>2, <1>4, MatchFindsRegion DEF FrameTrie
<1>10. ex.base \in RootSim..Len(tree) /\ ex.base \in RootSim..Len(tree')
  <2>1. ex.base \in RootSim..Len(tree)
    BY <1>2 DEF FrameTrie
  <2> QED
    BY <1>6, <2>1 DEF RootSim
<1>11. \A n \in ResponseNodes(tree) : tree'[n].path = tree[n].path
  BY <1>1 DEF Keeps, ResponseNodes
<1>12. ASSUME NEW n \in ResponseNodes(tree'), n > ex.base
       PROVE  \E j \in 1..k : tree'[n].path = SubSeq(codes, 1, j)
  <2>1. CASE n \in ResponseNodes(tree)
    <3>1. PICK j \in 1..(k - 1) : tree[n].path = SubSeq(codes, 1, j)
      BY <1>2, <1>12, <2>1 DEF FrameTrie
    <3> QED
      BY <1>5, <1>11, <2>1, <3>1
  <2>2. CASE n = ex'.node
    <3>1. k \in 1..k
      BY <1>5
    <3> QED
      BY <1>7, <2>2, <3>1
  <2> QED
    BY <1>1, <2>1, <2>2
<1>13. \A n \in ResponseNodes(tree') : n <= ex.base => n \in ResponseNodes(tree)
  <2>1. ~(Len(tree) + 1 <= ex.base)
    BY <1>6, <1>10 DEF RootSim
  <2> QED
    BY <1>1, <2>1
<1>14. ex.newPath <=> \A n \in ResponseNodes(tree') : n <= ex.base => tree'[n].path # codes
  <2>1. ex.newPath <=> \A n \in ResponseNodes(tree) : n <= ex.base => tree[n].path # codes
    BY <1>2 DEF FrameTrie
  <2>2. ResponseNodes(tree) \subseteq ResponseNodes(tree')
    BY <1>1
  <2> QED
    BY <1>11, <1>13, <2>1, <2>2
<1>15. ex'.k \in 2..(Len(codes) + 1)
  BY <1>4, <1>5
<1>16. ex'.k - 1 = k
  BY <1>4, <1>5
<1> HIDE DEF codes, k
<1>17. FrameTrie(ex', tree')
  BY <1>4, <1>7, <1>8, <1>9, <1>10, <1>12, <1>14, <1>16 DEF FrameTrie, codes
<1> QED
  BY <1>3, <1>4, <1>15, <1>17 DEF codes

(* The abstract trie does not see an iteration.                           *)
LEMMA DyeTrie ==
  ASSUME Plain, Inv, TrieInv, Dye
  PROVE  TrieInv' /\ KnownNow' = KnownNow /\ FoundNow' = FoundNow
<1>1. /\ AtTarget(tree', ex'.node, ex) /\ Keeps(tree, tree')
      /\ ResponseNodes(tree') = ResponseNodes(tree)
           \cup (IF ex'.newNode THEN {Len(tree) + 1} ELSE {})
      /\ failed' = failed /\ pc' = "dye"
  BY DyeGrows
<1>2. ex'.k \in 2..(Len(ex'.entry.codes) + 1) /\ FrameTrie(ex', tree')
      /\ ex' \in Frame /\ ex'.base = ex.base
  BY DyeFrame
<1>3. /\ pc = "dye" /\ cur' = cur /\ cur \in DOMAIN tree /\ ROOT \in DOMAIN tree /\ ex \in Frame
      /\ FrameTrie(ex, tree) /\ Len(tree) \in Nat
  BY LenProperties DEF Dye, Inv, TypeOK, TrieInv, Sound, ROOT, RootSim
<1>4. TrieInv'
  <2>1. IsTrie(tree') /\ AllReplay(tree')
    BY <1>1 DEF AtTarget
  <2>2. tree'[cur'].colour = Golden
    BY <1>1, <1>3 DEF TrieInv, Keeps
  <2>3. OnlyKnownFailures'
    BY <1>1 DEF TrieInv, OnlyKnownFailures
  <2> QED
    BY <1>1, <1>2, <2>1, <2>2, <2>3 DEF TrieInv
<1>5. ex # NoFrame /\ ex' # NoFrame
  BY <1>2, <1>3, FrameIsNotNoFrame
<1>6. Committed = {n \in ResponseNodes(tree) : n <= ex.base}
  BY <1>5 DEF Committed, Responses, ResponseNodes
<1>7. Committed' = {n \in ResponseNodes(tree') : n <= ex.base}
  BY <1>2, <1>5 DEF Committed, Responses, ResponseNodes
<1>8. ~(Len(tree) + 1 <= ex.base)
  BY <1>3 DEF FrameTrie, RootSim
<1>9. Committed' = Committed
  BY <1>1, <1>6, <1>7, <1>8
<1>10. \A n \in Committed : tree'[n].path = tree[n].path
  BY <1>1, <1>6 DEF Keeps, ResponseNodes
<1>11. KnownNow' = KnownNow
  BY <1>9, <1>10 DEF KnownNow
<1>12. FoundNow' = FoundNow
  BY <1>1, <1>3 DEF Keeps, FoundNow
<1> QED
  BY <1>4, <1>11, <1>12

-----------------------------------------------------------------------------
LEMMA InitTrie ==
  ASSUME Init
  PROVE  TrieInv /\ KnownNow = {<<0>>} /\ FoundNow = 0
<1> DEFINE root == [NewNode(0, NoNode, White, <<0>>) EXCEPT !.sim = RootSim]
           sim == NewNode(SimId, ROOT, Golden, <<0>>)
<1>1. tree = <<root, sim>> /\ pc = "dry" /\ cur = RootSim /\ ex = NoFrame /\ failed = {}
  BY DEF Init, InitialTree
<1>2. /\ root.id = 0 /\ root.parent = NoNode /\ root.colour = White /\ root.path = <<0>>
      /\ root.sim = RootSim /\ root.seeds = <<>> /\ root.discovered = 0
  BY DEF NewNode
<1>3. /\ sim.id = SimId /\ sim.parent = ROOT /\ sim.colour = Golden /\ sim.path = <<0>>
      /\ sim.seeds = <<>>
  BY DEF NewNode
<1> HIDE DEF root, sim
<1>4. DOMAIN tree = {ROOT, RootSim} /\ tree[ROOT] = root /\ tree[RootSim] = sim
  BY <1>1 DEF ROOT, RootSim
<1>5. ResponseNodes(tree) = {ROOT} /\ SimulationNodes(tree) = {RootSim}
  <2>1. White # Golden /\ ROOT # RootSim
    BY DEF White, Golden, ROOT, RootSim
  <2> QED
    BY <1>2, <1>3, <1>4, <2>1 DEF ResponseNodes, SimulationNodes
<1>6. IsTrie(tree)
  <2>1. 0 # SimId /\ ROOT < RootSim
    BY DEF SimId, ROOT, RootSim
  <2>2. Simulates(tree, RootSim)
    BY <1>2, <1>3, <1>4, <1>5, <2>1 DEF Simulates
  <2> QED
    BY <1>2, <1>3, <1>4, <1>5, <2>1, <2>2 DEF IsTrie
<1>7. AllReplay(tree)
  BY <1>2, <1>4 DEF AllReplay, ListReplays
<1>8. Committed = {ROOT}
  BY <1>1, <1>5 DEF Committed, Responses, ResponseNodes
<1> QED
  BY <1>1, <1>2, <1>3, <1>4, <1>6, <1>7, <1>8
     DEF TrieInv, OnlyKnownFailures, KnownNow, FoundNow

(* A step that keeps the shape of the tree, its seeds and the locals of   *)
(* Expansion.                                                             *)
LEMMA StillTrie ==
  ASSUME Inv, TrieInv, SameShape(tree, tree'), SameSeeds(tree, tree'), ex' = ex,
         FoundNow' = FoundNow
  PROVE  /\ IsTrie(tree') /\ AllReplay(tree') /\ KnownNow' = KnownNow
         /\ \A n \in DOMAIN tree : tree'[n].colour = tree[n].colour
<1>1. Sound(Entries, tree) /\ IsTrie(tree) /\ AllReplay(tree)
  BY DEF Inv, TrieInv
<1>2. /\ IsTrie(tree') /\ AllReplay(tree') /\ DOMAIN tree' = DOMAIN tree
      /\ ResponseNodes(tree') = ResponseNodes(tree)
      /\ \A n \in DOMAIN tree : tree'[n].path = tree[n].path /\ tree'[n].colour = tree[n].colour
  BY <1>1, KeepsTrie
<1>3. Committed' = Committed
  BY <1>2 DEF Committed, Responses, ResponseNodes
<1>4. \A n \in Committed : tree'[n].path = tree[n].path
  BY <1>2 DEF Committed, Responses
<1> QED
  BY <1>2, <1>3, <1>4 DEF KnownNow

LEMMA BeginExpansionTrie ==
  ASSUME Plain, Inv, TrieInv, NEW e \in Entries, DryRunEntry(e) \/ FuzzEntry(e)
  PROVE  TrieInv' /\ KnownNow' = KnownNow /\ FoundNow' = FoundNow
<1> DEFINE seed == NewSeed(e, 1)
           codes == e.codes
<1>1. /\ pc \in {"dry", "fuzz"} /\ BeginExpansion(e)
  BY DEF DryRunEntry, FuzzEntry
<1>2. /\ Sound(Entries, tree) /\ IsTrie(tree) /\ AllReplay(tree) /\ ex = NoFrame
      /\ OnlyKnownFailures /\ tree[cur].colour = Golden /\ cur \in DOMAIN tree
  BY <1>1 DEF Inv, TrieInv, TypeOK
<1>3. /\ tree' = AddSeed(tree, RootSim, seed) /\ pc' = "dye"
      /\ cur' = cur /\ failed' = failed
  BY <1>1, <1>2 DEF BeginExpansion, Sound
<1>4. Len(tree) \in Nat /\ RootSim \in DOMAIN tree /\ ROOT \in DOMAIN tree
      /\ DOMAIN tree = 1..Len(tree) /\ Len(tree) >= RootSim
  BY <1>2, LenProperties DEF Sound, ROOT, RootSim
<1>5. seed \in SeedRec(Entries)
  BY DEF NewSeed, SeedRec
<1> HIDE DEF seed
<1>6. /\ SameShape(tree, tree')
      /\ \A m \in DOMAIN tree :
           /\ tree'[m].discovered = tree[m].discovered
           /\ tree'[m].seeds = IF m = RootSim THEN Append(tree[m].seeds, seed)
                               ELSE tree[m].seeds
  <2> DEFINE n == RootSim
             u == AddSeed(tree, n, seed)
  <2>2. tree' = u /\ n \in DOMAIN tree
    BY <1>3, <1>4
  <2> HIDE DEF n
  <2>1. /\ SameShape(tree, u) /\ SameExplored(tree, u)
        /\ \A m \in DOMAIN tree :
             /\ u[m].discovered = tree[m].discovered
             /\ u[m].seeds = IF m = n THEN Append(tree[m].seeds, seed) ELSE tree[m].seeds
    BY <1>2, <1>5, <2>2, AddSeedKeeps
  <2> HIDE DEF u
  <2> QED
    BY <2>1, <2>2 DEF n
<1>7. /\ DOMAIN tree' = DOMAIN tree
      /\ \A m \in DOMAIN tree : tree'[m].path = tree[m].path /\ tree'[m].colour = tree[m].colour
  BY <1>6 DEF SameShape
<1>8. IsTrie(tree') /\ ResponseNodes(tree') = ResponseNodes(tree)
  BY <1>2, <1>6, TrieOfSameShape
<1>9. AllReplay(tree')
  BY <1>2, <1>6, <1>7 DEF AllReplay
<1>10. WellFormed(e) /\ codes \in Seq(Nat) /\ Len(codes) \in Nat /\ DOMAIN codes = 1..Len(codes)
  BY EntryType, LenProperties
<1>11. codes # <<>> /\ codes[1] = 0 /\ Len(codes) >= 1 /\ \A k \in DOMAIN codes : codes[k] # SimId
  BY <1>10, EmptySeq, LenProperties DEF WellFormed, Plain
<1> DEFINE new == Reach(tree, codes) = NoNode
<1>12. new <=> \A m \in ResponseNodes(tree) : tree[m].path # codes
  <2> HIDE DEF codes
  <2> QED
    BY <1>2, <1>10, <1>11, ReachFinds
<1>13. ex' = [entry |-> e, k |-> 2, node |-> ROOT, newPath |-> new, newNode |-> FALSE,
              region |-> 1, exact |-> FALSE, base |-> Len(tree)]
  BY <1>1 DEF BeginExpansion
<1> HIDE DEF new
<1>14. /\ ex'.entry = e /\ ex'.k = 2 /\ ex'.node = ROOT /\ ex'.newPath = new
       /\ ex'.newNode = FALSE /\ ex'.exact = FALSE /\ ex'.base = Len(tree)
  BY <1>13
<1>15. ex'.k \in 2..(Len(codes) + 1)
  BY <1>10, <1>11, <1>14
<1>16. FrameTrie(ex', tree')
  <2>1. SubSeq(codes, 1, 1) = <<0>>
    <3> DEFINE a == SubSeq(codes, 1, 1)
    <3>1. 1 \in 0..Len(codes)
      BY <1>10, <1>11
    <3> HIDE DEF codes
    <3>2. a \in Seq(Nat) /\ Len(a) = 1 /\ \A i \in 1..1 : a[i] = codes[i]
      BY <1>10, <3>1, PrefixLength
    <3> HIDE DEF a
    <3>3. a = <<0>>
      BY <1>11, <3>2
    <3> QED
      BY <3>3 DEF a
  <2>2. ROOT \in ResponseNodes(tree') /\ tree'[ROOT].path = <<0>>
    <3>1. ROOT \in ResponseNodes(tree)
      BY <1>2, <1>4 DEF Sound, ResponseNodes, White, Golden
    <3> QED
      BY <1>8, <3>1 DEF IsTrie
  <2>3. Len(tree') = Len(tree)
    <3>1. Sound(Entries, tree')
      BY BeginExpansionInv DEF Inv
    <3>2. DOMAIN tree' = 1..Len(tree') /\ Len(tree') \in Nat
      BY <3>1, LenProperties DEF Sound
    <3> QED
      BY <1>4, <1>7, <3>2
  <2>4. Len(tree) \in RootSim..Len(tree')
    BY <1>4, <2>3 DEF RootSim
  <2>5. \A n \in ResponseNodes(tree') : n <= Len(tree) /\ ~(n > Len(tree)) /\ tree'[n].path = tree[n].path
    BY <1>4, <1>7, <1>8 DEF ResponseNodes
  <2>6. new <=> \A n \in ResponseNodes(tree') : n <= Len(tree) => tree'[n].path # codes
    BY <1>8, <1>12, <2>5
  <2>7. ex'.k - 1 = 1
    BY <1>14
  <2> QED
    BY <1>14, <2>1, <2>2, <2>4, <2>5, <2>6, <2>7 DEF FrameTrie
<1>17. TrieInv'
  BY <1>2, <1>3, <1>7, <1>8, <1>9, <1>14, <1>15, <1>16 DEF TrieInv, OnlyKnownFailures
<1>18. KnownNow' = KnownNow
  <2>1. ex' # NoFrame
    BY <1>13 DEF NoFrame
  <2>2. Committed' = {n \in ResponseNodes(tree') : n <= Len(tree)}
    BY <1>14, <2>1 DEF Committed, Responses, ResponseNodes
  <2>3. Committed = ResponseNodes(tree)
    BY <1>2 DEF Committed, Responses, ResponseNodes
  <2>4. Committed' = Committed
    BY <1>4, <1>8, <2>2, <2>3 DEF ResponseNodes
  <2>5. \A n \in Committed : tree'[n].path = tree[n].path
    BY <1>7, <2>3 DEF ResponseNodes
  <2> QED
    BY <2>4, <2>5 DEF KnownNow
<1>19. FoundNow' = FoundNow
  BY <1>4, <1>6 DEF FoundNow
<1> QED
  BY <1>17, <1>18, <1>19

-----------------------------------------------------------------------------
LEMMA SameShapeTrans ==
  ASSUME NEW t, NEW u, NEW v, SameShape(t, u), SameSeeds(t, u), OnlyCounts(u, v)
  PROVE  SameShape(t, v) /\ SameSeeds(t, v)
BY DEF OnlyCounts, SameShape, SameSeeds, SameSeedList

(* The end of Expansion and Propagation touch marks and counters, and the *)
(* root is credited with a path that is new.                              *)
LEMMA FinishKeeps ==
  ASSUME Inv, TrieInv, FinishExpansion
  PROVE  /\ SameShape(tree, tree') /\ SameSeeds(tree, tree')
         /\ (pc' = "crashed" => ex' = ex /\ FoundNow' = FoundNow)
         /\ (pc' # "crashed" => FoundNow' = IF ex.newPath THEN FoundNow + 1 ELSE FoundNow)
<1> DEFINE n        == ex.node
           leaf     == IsLeaf(tree, n)
           marked   == SetExplored(tree, n, leaf)
           credited == CreditPath(marked, n)
           paid     == CreditSeed(credited, cur, curSeed)
<1>1. IF tree[n].parent = NoNode
      THEN tree' = marked /\ pc' = "crashed" /\ ex' = ex
      ELSE /\ tree' = CASE ~ex.newPath -> marked
                        [] ex.newPath /\ round = 0 -> credited
                        [] ex.newPath /\ round > 0 -> paid
           /\ pc' = IF round = 0 THEN "dry" ELSE "fuzz"
           /\ ex' = NoFrame
  BY DEF FinishExpansion, Parent
<1>2. /\ Sound(Entries, tree) /\ IsTrie(tree) /\ n \in DOMAIN tree /\ cur \in DOMAIN tree
      /\ curSeed \in Nat /\ round \in Nat /\ ex.newPath \in BOOLEAN
      /\ tree[cur].colour = Golden
  BY DEF FinishExpansion, Inv, TrieInv, TypeOK, Frame
<1>3. leaf \in BOOLEAN
  BY DEF IsLeaf
<1>4. ROOT \in DOMAIN tree /\ cur # ROOT
  BY <1>2, LenProperties DEF Sound, ROOT, RootSim, White, Golden
<1> HIDE DEF n, leaf
<1>5. /\ SameShape(tree, marked) /\ SameSeeds(tree, marked)
      /\ \A m \in DOMAIN tree : marked[m].discovered = tree[m].discovered
  BY <1>2, <1>3, SetExploredKeeps
<1>6. Sound(Entries, marked)
  BY <1>2, <1>3, SetExploredSound
<1> HIDE DEF marked
<1>7. IsTrie(marked) /\ DOMAIN marked = DOMAIN tree
  BY <1>2, <1>5, TrieOfSameShape DEF SameShape
<1>8. ROOT \in Lineage(marked, n)
  BY <1>2, <1>6, <1>7, RootInLineage
<1>9. /\ OnlyCounts(marked, credited)
      /\ \A m \in DOMAIN marked : credited[m].discovered
           = IF m \in Lineage(marked, n) THEN marked[m].discovered + 1 ELSE marked[m].discovered
  BY <1>6, CreditPathKeeps
<1>10. Sound(Entries, credited) /\ DOMAIN credited = DOMAIN tree
  BY <1>6, <1>7, CreditPathSound DEF Succeeds
<1> HIDE DEF credited
<1>11. credited[ROOT].discovered = tree[ROOT].discovered + 1
  BY <1>4, <1>5, <1>7, <1>8, <1>9
<1>12. SameShape(tree, credited) /\ SameSeeds(tree, credited)
  BY <1>5, <1>9, SameShapeTrans
<1>13. /\ OnlyCounts(credited, paid)
       /\ \A m \in DOMAIN credited : paid[m].discovered
            = IF m = cur THEN credited[m].discovered + 1 ELSE credited[m].discovered
  BY <1>2, <1>10, CreditSeedKeeps
<1> HIDE DEF paid
<1>14. SameShape(tree, paid) /\ SameSeeds(tree, paid)
  BY <1>12, <1>13, SameShapeTrans
<1>15. paid[ROOT].discovered = tree[ROOT].discovered + 1
  BY <1>4, <1>10, <1>11, <1>13
<1>16. marked[ROOT].discovered = tree[ROOT].discovered
  BY <1>4, <1>5
<1>17. CASE tree[n].parent = NoNode
  BY <1>1, <1>5, <1>16, <1>17 DEF FoundNow
<1>18. CASE tree[n].parent # NoNode
  <2>1. pc' # "crashed"
    BY <1>1, <1>18
  <2>2. CASE ~ex.newPath
    BY <1>1, <1>5, <1>16, <1>18, <2>1, <2>2 DEF FoundNow
  <2>3. CASE ex.newPath /\ round = 0
    BY <1>1, <1>11, <1>12, <1>18, <2>1, <2>3 DEF FoundNow
  <2>4. CASE ex.newPath /\ round > 0
    <3>1. tree' = paid
      BY <1>1, <1>2, <1>18, <2>4
    <3> QED
      BY <1>14, <1>15, <2>1, <2>4, <3>1 DEF FoundNow
  <2> QED
    BY <1>2, <2>2, <2>3, <2>4
<1> QED
  BY <1>17, <1>18

Prefixes(s) == {SubSeq(s, 1, k) : k \in 1..Len(s)}

(* Once Expansion is over the abstract trie has observed its responses.   *)
LEMMA FinishExpansionTrie ==
  ASSUME Plain, Inv, TrieInv, FinishExpansion
  PROVE  /\ TrieInv'
         /\ \/ KnownNow' = KnownNow /\ FoundNow' = FoundNow
            \/ \E e \in Entries :
                 /\ KnownNow' = KnownNow \cup Prefixes(e.codes)
                 /\ FoundNow' = IF e.codes \in KnownNow THEN FoundNow ELSE FoundNow + 1
<1> DEFINE codes == ex.entry.codes
           L == Len(codes)
<1>1. /\ pc = "dye" /\ ~(ex.k <= L) /\ cur' = cur /\ failed' = failed
      /\ \/ pc' = "crashed"
         \/ pc' \in {"dry", "fuzz"} /\ ex' = NoFrame
  <2>1. pc = "dye" /\ ex.k > L /\ cur' = cur /\ failed' = failed
    BY DEF FinishExpansion
  <2>2. \/ pc' = "crashed"
        \/ pc' \in {"dry", "fuzz"} /\ ex' = NoFrame
    BY DEF FinishExpansion
  <2>3. ex.k \in Nat /\ L \in Nat
    <3>1. ex \in Frame
      BY <2>1 DEF Inv, TypeOK
    <3>2. ex.entry \in Entries /\ ex.k \in Nat
      BY <3>1 DEF Frame
    <3> QED
      BY <3>2, EntryType
  <2> QED
    BY <2>1, <2>2, <2>3
<1>2. /\ Sound(Entries, tree) /\ IsTrie(tree) /\ AllReplay(tree) /\ ex \in Frame
      /\ FrameTrie(ex, tree) /\ ex.k \in 2..(L + 1) /\ cur \in DOMAIN tree
      /\ tree[cur].colour = Golden /\ OnlyKnownFailures
  BY <1>1 DEF Inv, TrieInv, TypeOK
<1>3. ex.entry \in Entries
  BY <1>2 DEF Frame
<1>4. codes \in Seq(Nat) /\ L \in Nat
  BY <1>3, EntryType
<1>5. ex.k - 1 = L /\ L \in 1..L
  BY <1>1, <1>2, <1>4
<1>6. ex.node \in ResponseNodes(tree) /\ tree[ex.node].path = codes
  <2>1. tree[ex.node].path = SubSeq(codes, 1, L)
    BY <1>2, <1>5 DEF FrameTrie
  <2> QED
    BY <1>2, <1>4, <2>1, SubSeqFull DEF FrameTrie
<1>7. /\ SameShape(tree, tree') /\ SameSeeds(tree, tree')
      /\ (pc' = "crashed" => ex' = ex /\ FoundNow' = FoundNow)
      /\ (pc' # "crashed" => FoundNow' = IF ex.newPath THEN FoundNow + 1 ELSE FoundNow)
  BY FinishKeeps
<1>8. /\ IsTrie(tree') /\ AllReplay(tree') /\ ResponseNodes(tree') = ResponseNodes(tree)
      /\ \A m \in DOMAIN tree : tree'[m].path = tree[m].path /\ tree'[m].colour = tree[m].colour
  BY <1>2, <1>7, KeepsTrie
<1>9. TrieInv'
  BY <1>1, <1>2, <1>8 DEF TrieInv, OnlyKnownFailures
<1>10. CASE pc' = "crashed"
  <2>1. ex' = ex /\ FoundNow' = FoundNow
    BY <1>7, <1>10
  <2>2. KnownNow' = KnownNow
    BY <1>7, <2>1, StillTrie
  <2> QED
    BY <1>9, <2>1, <2>2
<1>11. CASE pc' # "crashed"
  <2>1. ex' = NoFrame /\ ex # NoFrame
    BY <1>1, <1>2, <1>11, FrameIsNotNoFrame
  <2>2. KnownNow' = {tree[m].path : m \in ResponseNodes(tree)}
    <3>1. Committed' = ResponseNodes(tree)
      BY <1>8, <2>1 DEF Committed, Responses, ResponseNodes
    <3>2. \A m \in ResponseNodes(tree) : tree'[m].path = tree[m].path
      BY <1>8 DEF ResponseNodes
    <3> QED
      BY <3>1, <3>2 DEF KnownNow
  <2>3. KnownNow = {tree[m].path : m \in {x \in ResponseNodes(tree) : x <= ex.base}}
    BY <2>1 DEF KnownNow, Committed, Responses, ResponseNodes
  <2>4. ASSUME NEW m \in ResponseNodes(tree)
        PROVE  tree[m].path \in KnownNow \/ tree[m].path \in Prefixes(codes)
    <3>1. m \in Nat /\ ex.base \in Nat
      BY <1>2, TrieNode DEF ResponseNodes, FrameTrie, RootSim
    <3>2. CASE m <= ex.base
      BY <2>3, <3>2
    <3>3. CASE m > ex.base
      <4>1. PICK j \in 1..(ex.k - 1) : tree[m].path = SubSeq(codes, 1, j)
        BY <1>2, <3>3 DEF FrameTrie
      <4> QED
        BY <1>5, <4>1 DEF Prefixes
    <3> QED
      BY <3>1, <3>2, <3>3
  <2>5. ASSUME NEW k \in 1..L PROVE SubSeq(codes, 1, k) \in KnownNow'
    <3>1. k \in 1..Len(tree[ex.node].path)
      BY <1>6
    <3>2. PICK m \in ResponseNodes(tree) : tree[m].path = SubSeq(tree[ex.node].path, 1, k)
      BY <1>2, <1>6, <3>1, TriePrefixes
    <3> QED
      BY <1>6, <2>2, <3>2
  <2>6. KnownNow \subseteq KnownNow'
    BY <2>2, <2>3
  <2>7. KnownNow' = KnownNow \cup Prefixes(codes)
    BY <2>2, <2>4, <2>5, <2>6 DEF Prefixes
  <2>8. ex.newPath <=> codes \notin KnownNow
    BY <1>2, <2>3 DEF FrameTrie
  <2>9. FoundNow' = IF codes \in KnownNow THEN FoundNow ELSE FoundNow + 1
    BY <1>7, <1>11, <2>8
  <2> QED
    BY <1>3, <1>9, <2>7, <2>9
<1> QED
  BY <1>10, <1>11

-----------------------------------------------------------------------------
(* The steps of the main loop and of Selection                              *)

LEMMA SameSelf ==
  ASSUME NEW t
  PROVE  OnlyCounts(t, t)
BY DEF OnlyCounts, SameShape, SameSeeds, SameSeedList, SameExplored

(* Which assertions a Check can fail.                                     *)
LEMMA CheckFails ==
  ASSUME NEW bad, NEW next, Check(bad, next), OnlyKnownFailures,
         bad \subseteq {"best_child_score", "one_child"}
  PROVE  OnlyKnownFailures' /\ pc' \in {"aborted", next}
BY DEF Check, OnlyKnownFailures

LEMMA BeginSelectionTrie ==
  ASSUME Inv, TrieInv, BeginSelection
  PROVE  TrieInv' /\ KnownNow' = KnownNow /\ FoundNow' = FoundNow
<1> DEFINE u == CountSelection(tree, ROOT)
<1>1. /\ pc = "main" /\ pc' = "select" /\ tree' = u /\ ex' = ex /\ failed' = failed
  BY DEF BeginSelection
<1>2. Sound(Entries, tree) /\ ROOT \in DOMAIN tree /\ ex = NoFrame
  BY <1>1, LenProperties DEF Inv, TrieInv, Sound, ROOT, RootSim
<1>3. /\ OnlyCounts(tree, u)
      /\ \A m \in DOMAIN tree : u[m].discovered = tree[m].discovered
  BY <1>2, CountSelectionKeeps
<1> HIDE DEF u
<1>4. SameShape(tree, tree') /\ SameSeeds(tree, tree') /\ FoundNow' = FoundNow
  BY <1>1, <1>2, <1>3 DEF OnlyCounts, FoundNow
<1>5. IsTrie(tree') /\ AllReplay(tree') /\ KnownNow' = KnownNow
  BY <1>1, <1>4, StillTrie
<1>6. TrieInv'
  BY <1>1, <1>2, <1>5 DEF TrieInv, OnlyKnownFailures
<1> QED
  BY <1>4, <1>5, <1>6

LEMMA DescendTrie ==
  ASSUME Inv, TrieInv, Descend
  PROVE  TrieInv' /\ KnownNow' = KnownNow /\ FoundNow' = FoundNow
<1>1. PICK c \in BestChildren(tree, cur) :
        /\ cur' = c
        /\ tree' = CountSelection(tree, c)
        /\ Check(When(NegInf(tree, c) /\ tree[Parent(tree, c)].colour # Black,
                      "best_child_score"),
                 CASE NegInf(tree, c) -> "climb"
                   [] ~NegInf(tree, c) /\ tree[c].colour = Golden -> "seed"
                   [] OTHER -> "select")
  BY DEF Descend
<1> DEFINE u    == CountSelection(tree, c)
           bad  == When(NegInf(tree, c) /\ tree[Parent(tree, c)].colour # Black,
                        "best_child_score")
           next == CASE NegInf(tree, c) -> "climb"
                     [] ~NegInf(tree, c) /\ tree[c].colour = Golden -> "seed"
                     [] OTHER -> "select"
<1>2. pc = "select" /\ ex' = ex
  BY DEF Descend
<1>3. Sound(Entries, tree) /\ ROOT \in DOMAIN tree /\ c \in DOMAIN tree /\ ex = NoFrame
  BY <1>2, BestChildrenAreChildren, LenProperties
     DEF Inv, TrieInv, Children, Sound, ROOT, RootSim
<1>4. next \in {"climb", "seed", "select"} /\ (next = "seed" => tree[c].colour = Golden)
  OBVIOUS
<1>5. OnlyKnownFailures' /\ pc' \in {"aborted", next}
  <2>1. bad \subseteq {"best_child_score"}
    BY WhenSmall, Zenon
  <2>2. Check(bad, next)
    BY <1>1
  <2> HIDE DEF bad, next
  <2> QED
    BY <2>1, <2>2, CheckFails DEF TrieInv
<1> HIDE DEF next, bad
<1>6. /\ OnlyCounts(tree, u)
      /\ \A m \in DOMAIN tree : u[m].discovered = tree[m].discovered
  BY <1>3, CountSelectionKeeps
<1>7. tree' = u
  BY <1>1
<1> HIDE DEF u
<1>8. SameShape(tree, tree') /\ SameSeeds(tree, tree') /\ FoundNow' = FoundNow
  BY <1>3, <1>6, <1>7 DEF OnlyCounts, FoundNow
<1>9. /\ IsTrie(tree') /\ AllReplay(tree') /\ KnownNow' = KnownNow
      /\ \A n \in DOMAIN tree : tree'[n].colour = tree[n].colour
  BY <1>2, <1>8, StillTrie
<1>10. cur' = c
  BY <1>1
<1>11. pc' = "seed" => tree'[cur'].colour = Golden
  BY <1>3, <1>4, <1>5, <1>9, <1>10
<1>12. TrieInv'
  BY <1>2, <1>3, <1>4, <1>5, <1>9, <1>11 DEF TrieInv
<1> QED
  BY <1>8, <1>9, <1>12

LEMMA ClimbTrie ==
  ASSUME Inv, TrieInv, Climb
  PROVE  TrieInv' /\ KnownNow' = KnownNow /\ FoundNow' = FoundNow
<1> DEFINE p    == Parent(tree, cur)
           done == IsFullyExplored(tree, p)
           next == IF done THEN "climb" ELSE "select"
           bad  == When((~tree[p].explored /\ tree[p].colour = Black)
                          /\ Cardinality(Children(tree, p)) # 1, "one_child")
           b    == TRUE
           u    == SetExplored(tree, p, b)
<1>1. /\ pc = "climb" /\ Check(bad, next) /\ ex' = ex
      /\ tree' = IF done /\ pc' # "aborted" THEN u ELSE tree
  BY DEF Climb
<1>2. Sound(Entries, tree) /\ ROOT \in DOMAIN tree /\ cur \in DOMAIN tree /\ cur # ROOT /\ ex = NoFrame
  BY <1>1, LenProperties DEF Inv, TypeOK, TrieInv, Sound, ROOT, RootSim
<1>3. p \in DOMAIN tree /\ b \in BOOLEAN
  BY <1>2 DEF Sound, Parent
<1>4. next \in {"climb", "select"}
  OBVIOUS
<1>5. OnlyKnownFailures' /\ pc' \in {"aborted", next}
  <2>1. bad \subseteq {"one_child"}
    BY WhenSmall, Zenon
  <2> HIDE DEF bad, next
  <2> QED
    BY <1>1, <2>1, CheckFails DEF TrieInv
<1> HIDE DEF p, done, next, bad, b
<1>6. /\ SameShape(tree, u) /\ SameSeeds(tree, u)
      /\ \A m \in DOMAIN tree : u[m].discovered = tree[m].discovered
  BY <1>2, <1>3, SetExploredKeeps
<1> HIDE DEF u
<1>7. SameShape(tree, tree) /\ SameSeeds(tree, tree)
  BY SameSelf DEF OnlyCounts
<1>8. SameShape(tree, tree') /\ SameSeeds(tree, tree') /\ FoundNow' = FoundNow
  <2>1. CASE tree' = u
    BY <1>2, <1>6, <2>1 DEF FoundNow
  <2>2. CASE tree' = tree
    BY <1>7, <2>2 DEF FoundNow
  <2> QED
    BY <1>1, <2>1, <2>2
<1>9. IsTrie(tree') /\ AllReplay(tree') /\ KnownNow' = KnownNow
  BY <1>1, <1>8, StillTrie
<1>10. TrieInv'
  BY <1>1, <1>2, <1>4, <1>5, <1>9 DEF TrieInv
<1> QED
  BY <1>8, <1>9, <1>10

LEMMA SelectSeedTrie ==
  ASSUME Inv, TrieInv, SelectSeed
  PROVE  TrieInv' /\ KnownNow' = KnownNow /\ FoundNow' = FoundNow
<1>1. PICK s \in BestSeeds(tree, cur) : tree' = CountSeedSelection(tree, cur, s)
  BY DEF SelectSeed
<1> DEFINE u == CountSeedSelection(tree, cur, s)
<1>2. pc = "seed" /\ pc' = "m2" /\ cur' = cur /\ ex' = ex /\ failed' = failed
  BY DEF SelectSeed
<1>3. /\ Sound(Entries, tree) /\ ROOT \in DOMAIN tree /\ cur \in DOMAIN tree /\ ex = NoFrame
      /\ tree[cur].colour = Golden /\ OnlyKnownFailures
  BY <1>2, LenProperties DEF Inv, TypeOK, TrieInv, Sound, ROOT, RootSim
<1>4. /\ OnlyCounts(tree, u)
      /\ \A m \in DOMAIN tree : u[m].discovered = tree[m].discovered
  BY <1>3, CountSeedSelectionKeeps
<1>5. tree' = u
  BY <1>1
<1> HIDE DEF u
<1>6. SameShape(tree, tree') /\ SameSeeds(tree, tree') /\ FoundNow' = FoundNow
  BY <1>3, <1>4, <1>5 DEF OnlyCounts, FoundNow
<1>7. /\ IsTrie(tree') /\ AllReplay(tree') /\ KnownNow' = KnownNow
      /\ \A n \in DOMAIN tree : tree'[n].colour = tree[n].colour
  BY <1>2, <1>6, StillTrie
<1>8. TrieInv'
  BY <1>2, <1>3, <1>7 DEF TrieInv, OnlyKnownFailures
<1> QED
  BY <1>6, <1>7, <1>8

(* find_M2_region finds its assertions true of the selected seed.         *)
LEMMA FindM2Trie ==
  ASSUME Plain, Inv, TrieInv, FindM2
  PROVE  TrieInv' /\ KnownNow' = KnownNow /\ FoundNow' = FoundNow
<1> DEFINE seed  == tree[cur].seeds[curSeed]
           e     == seed.entry
           start == seed.region + 1
           count == M2Count(e, start, FuzzM3)
           path  == tree[cur].path
           span  == (Len(path) + 3) \div 4
           few   == When(count < 1, "m2_count")
           short == When(e.counts[seed.region] # Len(path), "m2_path_len")
           apart == When(SubSeq(path, 1, span) # SubSeq(e.codes, 1, span), "m2_path")
           bad   == few \cup short \cup apart
<1>1. /\ pc = "m2" /\ tree' = tree /\ cur' = cur /\ ex' = ex
      /\ IF tree[cur].parent = ROOT THEN Check({}, "fuzz") ELSE Check(bad, "fuzz")
  BY DEF FindM2, Parent
<1>2. /\ Sound(Entries, tree) /\ IsTrie(tree) /\ AllReplay(tree) /\ ex = NoFrame
      /\ cur \in DOMAIN tree /\ curSeed \in DOMAIN tree[cur].seeds
      /\ tree[cur].colour = Golden /\ OnlyKnownFailures
  BY <1>1 DEF Inv, TypeOK, TrieInv
<1>3. seed \in SeedRec(Entries)
  <2>1. tree[cur] \in NodeRec(Entries)
    BY <1>2, NodeOfSound
  <2>2. tree[cur].seeds \in Seq(SeedRec(Entries))
    BY <2>1 DEF NodeRec
  <2> QED
    BY <1>2, <2>2, LenProperties, ElementOfSeq
<1>4. e \in Entries /\ seed.region \in Nat
  BY <1>3 DEF SeedRec
<1>5. /\ WellFormed(e) /\ Len(e.counts) \in Nat /\ Len(e.codes) \in Nat
      /\ e.codes \in Seq(Nat) /\ e.counts \in Seq(Nat)
  BY <1>4, EntryType
<1>6. tree[cur].parent # ROOT => bad = {}
  <2> SUFFICES ASSUME tree[cur].parent # ROOT PROVE bad = {}
    OBVIOUS
  <2>1. cur # RootSim
    BY <1>2 DEF Sound
  <2>2. HasRegionAfter(seed) /\ Replays(seed, path)
    BY <1>2, <2>1 DEF Sound, SeedsHaveRegions, AllReplay, ListReplays
  <2> DEFINE r == seed.region
             len == Len(e.counts)
  <2>3. r \in 1..len /\ r < len /\ start \in 1..len /\ len \in 1..len
    <3>1. r \in Nat /\ len \in Nat /\ 1 <= r /\ r < len
      BY <1>4, <1>5, <2>2 DEF HasRegionAfter
    <3>2. start = r + 1
      OBVIOUS
    <3> HIDE DEF r, len, start
    <3> QED
      BY <3>1, <3>2
  <2>4. e.counts[r] \in Nat /\ e.counts[r] <= Len(e.codes)
    <3>1. DOMAIN e.counts = 1..len
      BY <1>5, LenProperties
    <3>2. e.counts[r] \in Nat
      BY <1>5, <2>3, ElementOfSeq
    <3>3. e.counts[r] <= e.counts[len] /\ e.counts[len] = Len(e.codes)
      <4>1. e.counts[len] = Len(e.codes)
        BY <1>5 DEF WellFormed
      <4>2. \A i, j \in DOMAIN e.counts : i <= j => e.counts[i] <= e.counts[j]
        BY <1>5 DEF WellFormed
      <4>3. r \in DOMAIN e.counts /\ len \in DOMAIN e.counts /\ r <= len
        BY <1>4, <1>5, <2>3, <3>1
      <4> HIDE DEF e, r, len
      <4> QED
        BY <4>1, <4>2, <4>3
    <3> QED
      BY <3>2, <3>3
  <2> DEFINE m == e.counts[r]
  <2>5. SubSeq(e.codes, 1, m) = path
    BY <2>2 DEF Replays
  <2>6. m \in 0..Len(e.codes)
    <3>1. Len(e.codes) \in Nat
      BY <1>5, LenProperties
    <3> QED
      BY <2>4, <3>1
  <2>7. Len(path) = m
    <3> HIDE DEF m, path
    <3> QED
      BY <1>5, <2>5, <2>6, PrefixLength
  <2>8. short = {}
    BY <2>7 DEF When
  <2>9. few = {}
    <3> HIDE DEF seed, e, start
    <3>1. count >= 1 /\ count \in Nat
      BY <1>5, <2>3, OptionsAssumption, M2CountPositive
    <3> HIDE DEF count
    <3>2. ~(count < 1)
      BY <3>1
    <3> QED
      BY <3>2 DEF When
  <2>10. apart = {}
    <3>1. path # <<>> /\ path \in Seq(Nat)
      BY <1>2, TrieNode
    <3>2. m \in Nat /\ m >= 1
      <4> HIDE DEF m, path
      <4> QED
        BY <2>6, <2>7, <3>1, EmptySeq, LenProperties
    <3>3. span = (m + 3) \div 4
      BY <2>7
    <3> HIDE DEF span, m
    <3>4. span \in 0..m
      BY <3>2, <3>3
    <3> HIDE DEF e
    <3>5. SubSeq(SubSeq(e.codes, 1, m), 1, span) = SubSeq(e.codes, 1, span)
      BY <1>5, <2>6, <3>4, PrefixOfPrefix
    <3> HIDE DEF path
    <3> QED
      BY <2>5, <3>5 DEF When
  <2> HIDE DEF few, short, apart
  <2> QED
    BY <2>8, <2>9, <2>10
<1> HIDE DEF bad
<1>7. Check({}, "fuzz")
  BY <1>1, <1>6
<1>8. OnlyKnownFailures' /\ pc' \in {"aborted", "fuzz"}
  BY <1>2, <1>7, CheckFails
<1>9. SameShape(tree, tree') /\ SameSeeds(tree, tree') /\ FoundNow' = FoundNow
  BY <1>1, SameSelf DEF OnlyCounts, FoundNow
<1>10. KnownNow' = KnownNow
  BY <1>1, <1>9, StillTrie
<1>11. TrieInv'
  BY <1>1, <1>2, <1>8 DEF TrieInv
<1> QED
  BY <1>9, <1>10, <1>11

-----------------------------------------------------------------------------
LEMMA QuietTrie ==
  ASSUME Inv, TrieInv, StartFuzzing \/ EndFuzz \/ Stop \/ UNCHANGED vars
  PROVE  TrieInv' /\ KnownNow' = KnownNow /\ FoundNow' = FoundNow
<1>1. tree' = tree /\ ex' = ex /\ cur' = cur /\ failed' = failed
  BY DEF StartFuzzing, EndFuzz, Stop, vars
<1>2. SameShape(tree, tree') /\ SameSeeds(tree, tree') /\ FoundNow' = FoundNow
  BY <1>1, SameSelf DEF OnlyCounts, FoundNow
<1>3. KnownNow' = KnownNow
  BY <1>1, <1>2, StillTrie
<1>4. \/ pc \in {"dry", "fuzz"} /\ pc' = "main"
      \/ pc \in {"dry", "main"} /\ pc' = "stopped"
      \/ pc' = pc
  BY DEF StartFuzzing, EndFuzz, Stop, vars
<1>5. IsTrie(tree') /\ AllReplay(tree')
  BY <1>1 DEF TrieInv
<1>6. OnlyKnownFailures'
  BY <1>1 DEF TrieInv, OnlyKnownFailures
<1>7. (pc \notin {"dye", "aborted", "crashed"} => ex = NoFrame)
      /\ (pc \in {"dry", "main", "seed", "m2", "fuzz", "dye"} => tree[cur].colour = Golden)
      /\ (pc = "dye" => ex.k \in 2..(Len(ex.entry.codes) + 1) /\ FrameTrie(ex, tree))
  BY DEF TrieInv
<1>8. pc' \notin {"dye", "aborted", "crashed"} => ex' = NoFrame
  BY <1>1, <1>4, <1>7
<1>9. pc' \in {"dry", "main", "seed", "m2", "fuzz", "dye"} => tree'[cur'].colour = Golden
  BY <1>1, <1>4, <1>7
<1>10. pc' = "dye" => ex'.k \in 2..(Len(ex'.entry.codes) + 1) /\ FrameTrie(ex', tree')
  BY <1>1, <1>4, <1>7
<1>11. TrieInv'
  BY <1>5, <1>6, <1>8, <1>9, <1>10 DEF TrieInv
<1> QED
  BY <1>2, <1>3, <1>11

(* A step of the abstract trie, or none.                                  *)
TrieStep ==
  \/ KnownNow' = KnownNow /\ FoundNow' = FoundNow
  \/ \E e \in Entries :
       /\ KnownNow' = KnownNow \cup Prefixes(e.codes)
       /\ FoundNow' = IF e.codes \in KnownNow THEN FoundNow ELSE FoundNow + 1

LEMMA StepTrie ==
  ASSUME Plain, Inv, TrieInv, [Next]_vars
  PROVE  TrieInv' /\ TrieStep
<1>1. ASSUME NEW e \in Entries, DryRunEntry(e) \/ FuzzEntry(e) PROVE TrieInv' /\ TrieStep
  BY <1>1, BeginExpansionTrie DEF TrieStep
<1>2. CASE Dye
  BY <1>2, DyeTrie DEF TrieStep
<1>3. CASE FinishExpansion
  BY <1>3, FinishExpansionTrie DEF TrieStep
<1>4. CASE BeginSelection
  BY <1>4, BeginSelectionTrie DEF TrieStep
<1>5. CASE Descend
  BY <1>5, DescendTrie DEF TrieStep
<1>6. CASE Climb
  BY <1>6, ClimbTrie DEF TrieStep
<1>7. CASE SelectSeed
  BY <1>7, SelectSeedTrie DEF TrieStep
<1>8. CASE FindM2
  BY <1>8, FindM2Trie DEF TrieStep
<1>9. CASE StartFuzzing \/ EndFuzz \/ Stop \/ Terminated \/ UNCHANGED vars
  BY <1>9, QuietTrie DEF Terminated, TrieStep
<1> QED
  BY <1>1, <1>2, <1>3, <1>4, <1>5, <1>6, <1>7, <1>8, <1>9 DEF Next

(* What Expansion leaves behind, and what it finds half done, is a trie.    *)
THEOREM TrieInvariant ==
  ASSUME Plain
  PROVE  Spec => [](Inv /\ TrieInv)
<1>1. Init => Inv /\ TrieInv
  BY InitInv, InitTrie
<1>2. Inv /\ TrieInv /\ [Next]_vars => (Inv /\ TrieInv)'
  BY StepInv, StepTrie
<1> QED
  BY <1>1, <1>2, PTL DEF Spec

(* append_child, flipping and the seeds of Expansion (mcts.c:1043): at      *)
(* every moment the tree is the trie of the responses, and each seed below  *)
(* the root replays to its node, for all plain entries in any order.        *)
THEOREM TrieAlways ==
  ASSUME Plain
  PROVE  Spec => [](TrieShape /\ SeedsReplay)
<1>1. Inv /\ TrieInv => TrieShape
  <2> SUFFICES ASSUME Inv, TrieInv PROVE TrieShape
    OBVIOUS
  <2>1. IsTrie(tree) /\ Responses = ResponseNodes(tree) /\ Sims = SimulationNodes(tree)
    BY DEF TrieInv, Responses, Sims, ResponseNodes, SimulationNodes
  <2>2. \A n \in Responses :
          {c \in Children(tree, n) : tree[c].colour = Golden}
            = IF tree[n].colour = White THEN {tree[n].sim} ELSE {}
    <3> TAKE n \in Responses
    <3>1. \A c \in Children(tree, n) :
            tree[c].colour = Golden => tree[n].colour = White /\ tree[n].sim = c
      BY <2>1 DEF IsTrie, Simulates, Children, SimulationNodes, ResponseNodes
    <3>2. CASE tree[n].colour = White
      <4>1. tree[n].sim \in SimulationNodes(tree) /\ tree[tree[n].sim].parent = n
        BY <2>1, <3>2 DEF IsTrie
      <4>2. tree[n].sim \in Children(tree, n) /\ tree[tree[n].sim].colour = Golden
        BY <4>1 DEF Children, SimulationNodes, ResponseNodes
      <4> QED
        BY <3>1, <3>2, <4>2
    <3>3. CASE tree[n].colour # White
      BY <3>1, <3>3
    <3> QED
      BY <3>2, <3>3
  <2>3. \A n \in Responses \ {ROOT} :
          /\ tree[n].parent \in Responses /\ tree[n].parent < n
          /\ tree[n].path = Append(tree[tree[n].parent].path, tree[n].id)
    BY <2>1 DEF IsTrie, Extends
  <2>4. \A m, n \in Responses : tree[m].path = tree[n].path => m = n
    BY <2>1 DEF IsTrie
  <2>5. \A s \in Sims : tree[s].path = tree[tree[s].parent].path
    BY <2>1 DEF IsTrie, Simulates
  <2> QED
    BY <2>2, <2>3, <2>4, <2>5 DEF TrieShape
<1>2. TrieInv => SeedsReplay
  BY DEF TrieInv, AllReplay, ListReplays, Replays, SeedsReplay, Sims, Responses
<1> QED
  BY <1>1, <1>2, TrieInvariant, PTL

(* Expansion adds the prefixes of its responses to the tree in one step of  *)
(* the abstract trie, and Propagation credits the root with exactly the     *)
(* sequences that are new (mcts.c:1000, mcts.c:1165).                       *)
THEOREM ExpansionImplementsTrie ==
  ASSUME Plain
  PROVE  Spec => ImplementsTrie
<1>1. Init => Trie!Init
  BY InitTrie DEF Trie!Init, KnownNow, FoundNow
<1>2. Inv /\ TrieInv /\ [Next]_vars => [Trie!Next]_<<KnownNow, FoundNow>>
  <2> SUFFICES ASSUME Inv, TrieInv, [Next]_vars PROVE [Trie!Next]_<<KnownNow, FoundNow>>
    OBVIOUS
  <2>1. TrieStep
    BY StepTrie
  <2>2. ASSUME NEW e \in Entries,
               KnownNow' = KnownNow \cup Prefixes(e.codes),
               FoundNow' = IF e.codes \in KnownNow THEN FoundNow ELSE FoundNow + 1
        PROVE  Trie!Next
    <3>1. Trie!Observe(e.codes)
      BY <2>2 DEF Trie!Observe, Trie!PrefixesOf, Prefixes, KnownNow, FoundNow
    <3> QED
      BY <3>1 DEF Trie!Next
  <2> QED
    BY <2>1, <2>2 DEF TrieStep
<1> QED
  BY <1>1, <1>2, TrieInvariant, PTL DEF Spec, ImplementsTrie, Trie!Spec, KnownNow, FoundNow

-----------------------------------------------------------------------------
(* Selection, whatever the entries are                                      *)

Childless(t, n) == t[n].colour # Golden /\ Children(t, n) = {}

(* Parents were created before their children.                            *)
Downward(t) == \A n \in DOMAIN t \ {ROOT} : t[n].parent < n

(* A is closed upwards from n, and no node of it above n is a simulation node. *)
ChainUp(t, n, A) ==
  /\ A \subseteq DOMAIN t /\ n \in A
  /\ \A m \in A : m <= n /\ (m # n => t[m].colour # Golden)
  /\ \A m \in A \ {ROOT} : t[m].parent \in A

(* Selection never stands where it cannot go on: a response node without a *)
(* child is given up, and the nodes above the one it stands at are no     *)
(* simulation nodes.                                                      *)
SelInv ==
  /\ Downward(tree)
  /\ \A n \in DOMAIN tree :
       Childless(tree, n) =>
         tree[n].explored \/ pc = "aborted" \/ (pc = "dye" /\ n = ex.node)
  /\ pc \in {"select", "climb"} => \E A : ChainUp(tree, cur, A)
  /\ pc = "select" => tree[cur].colour # Golden
  /\ pc = "climb" => NegInf(tree, cur)
  /\ pc = "select" => ~NegInf(tree, cur) /\ Children(tree, cur) # {}
  /\ pc = "seed" => tree[cur].seeds # <<>> /\ ~NegInf(tree, Parent(tree, cur))

LEMMA SameChildren ==
  ASSUME NEW t, NEW u, SameShape(t, u)
  PROVE  /\ \A n : Children(u, n) = Children(t, n)
         /\ \A n \in DOMAIN t : Childless(u, n) <=> Childless(t, n)
<1>1. \A n : Children(u, n) = Children(t, n)
  BY DEF SameShape, Children
<1> QED
  BY <1>1 DEF SameShape, Childless

LEMMA SameDownward ==
  ASSUME NEW t, NEW u, SameShape(t, u), Downward(t)
  PROVE  Downward(u)
BY DEF SameShape, Downward

(* Selection cares for nothing outside its own places.                    *)
LEMMA OutsideSelection ==
  ASSUME SelInv, SameShape(tree, tree'), SameExplored(tree, tree'),
         pc \notin {"dye", "aborted"}, pc' \notin {"select", "climb", "seed"}
  PROVE  SelInv'
<1>1. DOMAIN tree' = DOMAIN tree
  BY DEF SameShape
<1>2. \A n \in DOMAIN tree : Childless(tree', n) => tree'[n].explored
  BY SameChildren DEF SelInv, SameExplored
<1>3. Downward(tree')
  BY SameDownward DEF SelInv
<1> QED
  BY <1>1, <1>2, <1>3 DEF SelInv

LEMMA BeginSelectionSel ==
  ASSUME Inv, SelInv, BeginSelection
  PROVE  SelInv'
<1> DEFINE u == CountSelection(tree, ROOT)
<1>1. pc = "main" /\ pc' = "select" /\ tree' = u /\ cur' = ROOT
  BY DEF BeginSelection
<1>2. Sound(Entries, tree) /\ ROOT \in DOMAIN tree /\ RootSim \in DOMAIN tree /\ ~tree[ROOT].explored
  BY <1>1, LenProperties DEF Inv, Sound, ROOT, RootSim
<1>3. OnlyCounts(tree, u)
  BY <1>2, CountSelectionKeeps
<1> HIDE DEF u
<1>4. SameShape(tree, tree') /\ SameExplored(tree, tree') /\ DOMAIN tree' = DOMAIN tree
  BY <1>1, <1>3 DEF OnlyCounts, SameShape
<1>5. \A n \in DOMAIN tree : Childless(tree', n) => tree'[n].explored
  BY <1>1, <1>4, SameChildren DEF SelInv, SameExplored
<1>6. Downward(tree')
  BY <1>4, SameDownward DEF SelInv
<1>7. ChainUp(tree', ROOT, {ROOT})
  BY <1>2, <1>4 DEF ChainUp, ROOT
<1>8. tree'[ROOT].colour = White /\ ~tree'[ROOT].explored
  BY <1>2, <1>4 DEF SameShape, SameExplored, Sound
<1>9. ~NegInf(tree', ROOT) /\ tree'[ROOT].colour # Golden
  BY <1>8 DEF NegInf, White, Golden
<1>10. Children(tree', ROOT) # {}
  <2>1. RootSim \in Children(tree, ROOT)
    BY <1>2 DEF Children, Sound
  <2>2. Children(tree', ROOT) = Children(tree, ROOT)
    BY <1>4, SameChildren
  <2> QED
    BY <2>1, <2>2
<1> QED
  BY <1>1, <1>4, <1>5, <1>6, <1>7, <1>9, <1>10 DEF SelInv

LEMMA DescendSel ==
  ASSUME Inv, SelInv, Descend
  PROVE  SelInv'
<1>1. PICK c \in BestChildren(tree, cur) :
        /\ cur' = c
        /\ tree' = CountSelection(tree, c)
        /\ Check(When(NegInf(tree, c) /\ tree[Parent(tree, c)].colour # Black,
                      "best_child_score"),
                 CASE NegInf(tree, c) -> "climb"
                   [] ~NegInf(tree, c) /\ tree[c].colour = Golden -> "seed"
                   [] OTHER -> "select")
  BY DEF Descend
<1> DEFINE u    == CountSelection(tree, c)
           bad  == When(NegInf(tree, c) /\ tree[Parent(tree, c)].colour # Black,
                        "best_child_score")
           next == CASE NegInf(tree, c) -> "climb"
                     [] ~NegInf(tree, c) /\ tree[c].colour = Golden -> "seed"
                     [] OTHER -> "select"
<1>2. pc = "select"
  BY DEF Descend
<1>3. Sound(Entries, tree) /\ c \in DOMAIN tree /\ tree[c].parent = cur /\ cur \in DOMAIN tree
      /\ c # ROOT
  <2>1. /\ Sound(Entries, tree) /\ c \in DOMAIN tree /\ tree[c].parent = cur
        /\ cur \in DOMAIN tree
    BY <1>2, BestChildrenAreChildren DEF Inv, TypeOK, Children
  <2>2. cur # NoNode
    BY <2>1, LenProperties DEF Sound, NoNode
  <2> QED
    BY <2>1, <2>2 DEF Sound
<1>4. /\ next \in {"climb", "seed", "select"}
      /\ (next = "climb" => NegInf(tree, c))
      /\ (next = "seed" => ~NegInf(tree, c) /\ tree[c].colour = Golden)
      /\ (next = "select" => ~NegInf(tree, c) /\ tree[c].colour # Golden)
  OBVIOUS
<1>5. pc' \in {"aborted", next}
  BY <1>1 DEF Check
<1> HIDE DEF next
<1>6. /\ OnlyCounts(tree, u)
      /\ \A m \in DOMAIN tree : u[m].seeds = tree[m].seeds
  BY <1>3, CountSelectionKeeps
<1>7. tree' = u /\ cur' = c
  BY <1>1
<1> HIDE DEF u
<1>8. SameShape(tree, tree') /\ SameExplored(tree, tree') /\ DOMAIN tree' = DOMAIN tree
  BY <1>6, <1>7 DEF OnlyCounts, SameShape
<1>9. \A n \in DOMAIN tree : Childless(tree', n) => tree'[n].explored
  BY <1>2, <1>8, SameChildren DEF SelInv, SameExplored
<1>10. Downward(tree')
  BY <1>8, SameDownward DEF SelInv
<1>11. \A n \in DOMAIN tree : /\ NegInf(tree', n) <=> NegInf(tree, n)
                             /\ tree'[n].colour = tree[n].colour /\ tree'[n].seeds = tree[n].seeds
                             /\ tree'[n].parent = tree[n].parent
  BY <1>6, <1>7, <1>8 DEF NegInf, SameShape, SameExplored
<1>12. \E A : ChainUp(tree', c, A)
  <2>1. PICK A : ChainUp(tree, cur, A)
    BY <1>2 DEF SelInv
  <2>2. cur < c /\ cur \in Nat /\ c \in Nat /\ \A m \in A : m \in Nat
    <3>1. DOMAIN tree \subseteq Nat
      BY <1>3, LenProperties DEF Sound
    <3> QED
      BY <1>3, <2>1, <3>1 DEF SelInv, Downward, ChainUp
  <2>3. tree[cur].colour # Golden
    BY <1>2 DEF SelInv
  <2>4. \A m \in A : m <= c /\ m # c /\ tree'[m].colour # Golden
    BY <1>11, <2>1, <2>2, <2>3 DEF ChainUp
  <2>5. ChainUp(tree', c, A \cup {c})
    BY <1>3, <1>8, <1>11, <2>1, <2>2, <2>4 DEF ChainUp
  <2> QED
    BY <2>5
<1>13. next = "select" => Children(tree', c) # {}
  <2> SUFFICES ASSUME next = "select" PROVE Children(tree, c) # {}
    BY <1>8, SameChildren
  <2>1. ~tree[c].explored /\ tree[c].colour # Golden
    BY <1>4 DEF NegInf
  <2> QED
    BY <1>2, <1>3, <2>1 DEF SelInv, Childless
<1>14. next = "seed" => tree'[c].seeds # <<>> /\ ~NegInf(tree', Parent(tree', c))
  <2> SUFFICES ASSUME next = "seed" PROVE tree[c].seeds # <<>> /\ ~NegInf(tree, cur)
    BY <1>3, <1>11 DEF Parent
  <2>1. tree[c].seeds # <<>>
    BY <1>4 DEF NegInf
  <2> QED
    BY <1>2, <2>1 DEF SelInv
<1> QED
  BY <1>3, <1>4, <1>5, <1>7, <1>8, <1>9, <1>10, <1>11, <1>12, <1>13, <1>14 DEF SelInv

LEMMA ClimbSel ==
  ASSUME Inv, SelInv, Climb
  PROVE  SelInv'
<1> DEFINE p    == Parent(tree, cur)
           done == IsFullyExplored(tree, p)
           next == IF done THEN "climb" ELSE "select"
           b    == TRUE
           u    == SetExplored(tree, p, b)
<1>1. /\ pc = "climb" /\ pc' \in {"aborted", next} /\ cur' = p
      /\ tree' = IF done /\ pc' # "aborted" THEN u ELSE tree
  BY DEF Climb, Check
<1>2. Sound(Entries, tree) /\ cur \in DOMAIN tree /\ cur # ROOT /\ \A n \in DOMAIN tree : n \in Nat
  BY <1>1, LenProperties DEF Inv, TypeOK, Sound
<1>3. p \in DOMAIN tree /\ b \in BOOLEAN /\ p < cur /\ cur \in Children(tree, p)
  BY <1>2 DEF Sound, Parent, SelInv, Downward, Children
<1>4. ~done => ~tree[p].explored
  BY DEF IsFullyExplored
<1>5. PICK A : ChainUp(tree, cur, A)
  BY <1>1 DEF SelInv
<1>6. tree[p].colour # Golden /\ p \in A
  BY <1>2, <1>3, <1>5 DEF ChainUp, Parent
<1>7. ChainUp(tree, p, {m \in A : m <= p})
  <2> DEFINE B == {m \in A : m <= p}
  <2>1. \A m \in B : m \in A /\ m \in DOMAIN tree /\ m \in Nat /\ m # cur
    BY <1>2, <1>3, <1>5 DEF ChainUp
  <2>2. \A m \in B \ {ROOT} : tree[m].parent \in A /\ tree[m].parent <= p
    <3> TAKE m \in B \ {ROOT}
    <3>1. tree[m].parent \in A /\ tree[m].parent < m /\ m <= p /\ tree[m].parent \in Nat
      BY <1>2, <1>5, <2>1 DEF ChainUp, SelInv, Downward
    <3> QED
      BY <1>2, <1>3, <2>1, <3>1
  <2> QED
    BY <1>2, <1>3, <1>5, <1>6, <2>1, <2>2 DEF ChainUp
<1> HIDE DEF p, done, b
<1>8. /\ SameShape(tree, u)
      /\ \A m \in DOMAIN tree : u[m].explored = IF m = p THEN b ELSE tree[m].explored
  BY <1>2, <1>3, SetExploredKeeps
<1> HIDE DEF u
<1>9. SameShape(tree, tree)
  BY DEF SameShape
<1>10. /\ SameShape(tree, tree') /\ \A m \in DOMAIN tree : tree[m].explored => tree'[m].explored
  BY <1>1, <1>8, <1>9 DEF b
<1>11. DOMAIN tree' = DOMAIN tree /\ Downward(tree')
  BY <1>10, SameDownward DEF SelInv, SameShape
<1>12. \A n \in DOMAIN tree : Childless(tree', n) => tree'[n].explored
  BY <1>1, <1>10, SameChildren DEF SelInv
<1>13. ChainUp(tree', p, {m \in A : m <= p}) /\ tree'[p].colour # Golden
  BY <1>3, <1>5, <1>6, <1>7, <1>10 DEF ChainUp, SameShape
<1>14. CASE pc' = "aborted"
  BY <1>1, <1>11, <1>12, <1>14 DEF SelInv
<1>15. CASE pc' # "aborted" /\ done
  <2>1. pc' = "climb" /\ tree'[p].explored
    BY <1>1, <1>3, <1>8, <1>15 DEF b
  <2> QED
    BY <1>1, <1>11, <1>12, <1>13, <2>1 DEF SelInv, NegInf
<1>16. CASE pc' # "aborted" /\ ~done
  <2>1. pc' = "select" /\ tree' = tree
    BY <1>1, <1>16
  <2>2. ~NegInf(tree', p) /\ Children(tree', p) # {}
    BY <1>3, <1>4, <1>6, <1>16, <2>1 DEF NegInf
  <2> QED
    BY <1>1, <1>11, <1>12, <1>13, <2>1, <2>2 DEF SelInv
<1> QED
  BY <1>14, <1>15, <1>16

-----------------------------------------------------------------------------
(* u is t with children more; a new response node can only be n.          *)
GrowsBy(t, u, n) ==
  /\ DOMAIN t \subseteq DOMAIN u
  /\ \A m \in DOMAIN t :
       /\ u[m].parent = t[m].parent /\ u[m].explored = t[m].explored
       /\ u[m].colour = Golden <=> t[m].colour = Golden
  /\ \A m \in DOMAIN u \ DOMAIN t : u[m].colour = Golden \/ m = n
  /\ Downward(t) => Downward(u)

LEMMA GrowsByTrans ==
  ASSUME NEW t, NEW u, NEW v, NEW n, GrowsBy(t, u, n), GrowsBy(u, v, n)
  PROVE  GrowsBy(t, v, n)
BY DEF GrowsBy

LEMMA GrowsBySelf ==
  ASSUME NEW t, NEW u, NEW n, SameShape(t, u), SameExplored(t, u)
  PROVE  GrowsBy(t, u, n)
BY DEF GrowsBy, SameShape, SameExplored, Downward

LEMMA GrowGrows ==
  ASSUME NEW t, Sound(Entries, t), NEW f, GoodFrame(f, t)
  PROVE  GrowsBy(t, Grow(t, f), Target(t, f)) /\ Target(t, f) \in Children(Grow(t, f), f.node)
<1> DEFINE c == ExistsChild(t, f.node, f.entry.codes[f.k])
           p == f.node
           id == f.entry.codes[f.k]
           n == Len(t) + 1
           path == SubSeq(f.entry.codes, 1, f.k)
           colour == IF Match(f).exact THEN White ELSE Black
           u == AppendChild(t, p, id, colour, path)
<1>1. CASE ~Fresh(t, f)
  <2>1. Grow(t, f) = t /\ Target(t, f) = c /\ c # NoNode
    BY <1>1 DEF Grow, Target, Fresh
  <2>2. SameShape(t, t) /\ SameExplored(t, t)
    BY DEF SameShape, SameExplored
  <2>3. GrowsBy(t, t, c)
    BY <2>2, GrowsBySelf
  <2>4. c \in Children(t, p)
    <3> DEFINE matches == {x \in Children(t, p) : t[x].id = id}
    <3>1. matches \in SUBSET Nat
      BY LenProperties DEF Children, Sound
    <3>2. c = IF matches = {} THEN NoNode ELSE Min(matches)
      BY DEF ExistsChild
    <3> HIDE DEF c
    <3>3. matches # {} /\ c = Min(matches)
      BY <2>1, <3>2
    <3>4. matches \subseteq Children(t, p)
      OBVIOUS
    <3> HIDE DEF matches
    <3>5. c \in matches
      BY <3>1, <3>3, MinIsLeast
    <3> QED
      BY <3>4, <3>5
  <2> QED
    BY <2>1, <2>3, <2>4
<1>2. CASE Fresh(t, f)
  <2>1. Grow(t, f) = u /\ Target(t, f) = n
    BY <1>2 DEF Grow, Target
  <2>2. colour \in {White, Black} /\ p \in DOMAIN t
    BY DEF GoodFrame
  <2>3. /\ Len(t) \in Nat /\ n \in Nat /\ ROOT \in DOMAIN t
        /\ \A m \in DOMAIN t : m < n
        /\ n \notin DOMAIN t /\ n + 1 \notin DOMAIN t /\ n < n + 1
    BY LenProperties DEF Sound, ROOT, RootSim
  <2> HIDE DEF id, p, colour, path
  <2>4. WithChild(t, u, p, id, colour, path)
    BY <2>2, AppendChildIs
  <2> HIDE DEF u
  <2>5. /\ DOMAIN u = DOMAIN t \cup {n} \cup (IF colour = White THEN {n + 1} ELSE {})
        /\ \A m \in DOMAIN t : u[m] = t[m]
        /\ u[n].parent = p
        /\ (colour = White => u[n + 1].parent = n /\ u[n + 1].colour = Golden)
    BY <2>4 DEF WithChild
  <2> HIDE DEF n
  <2>6. Downward(t) => Downward(u)
    BY <2>2, <2>3, <2>5 DEF Downward
  <2>7. GrowsBy(t, u, n)
    BY <2>5, <2>6 DEF GrowsBy
  <2>8. n \in Children(u, p)
    BY <2>5 DEF Children
  <2> QED
    BY <2>1, <2>7, <2>8 DEF p
<1> QED
  BY <1>1, <1>2

LEMMA WhitenGrows ==
  ASSUME NEW t, Sound(Entries, t), NEW n \in DOMAIN t, NEW f
  PROVE  GrowsBy(t, Whiten(t, n, f), n)
<1> DEFINE path == SubSeq(f.entry.codes, 1, f.k)
           u == Flip(t, n, path)
           s == Len(t) + 1
<1>1. CASE Whiten(t, n, f) = t
  <2>1. SameShape(t, t) /\ SameExplored(t, t)
    BY DEF SameShape, SameExplored
  <2> QED
    BY <1>1, <2>1, GrowsBySelf
<1>2. CASE Whiten(t, n, f) # t
  <2>1. Whiten(t, n, f) = u /\ t[n].colour = Black
    BY <1>2 DEF Whiten
  <2>2. /\ s \in Nat /\ s # ROOT /\ s \notin DOMAIN t /\ \A m \in DOMAIN t : m < s
    BY LenProperties DEF Sound, ROOT, RootSim
  <2> HIDE DEF path
  <2>3. Flipped(t, u, n, path)
    BY FlipIs
  <2> HIDE DEF u
  <2>4. /\ DOMAIN u = DOMAIN t \cup {s}
        /\ \A m \in DOMAIN t \ {n} : u[m] = t[m]
        /\ u[n].colour = White /\ u[n].parent = t[n].parent /\ u[n].explored = t[n].explored
        /\ u[s].parent = n /\ u[s].colour = Golden
    BY <2>3 DEF Flipped
  <2> HIDE DEF s
  <2>5. \A m \in DOMAIN t : /\ u[m].parent = t[m].parent /\ u[m].explored = t[m].explored
                           /\ u[m].colour = Golden <=> t[m].colour = Golden
    BY <2>1, <2>4 DEF White, Black, Golden
  <2>6. Downward(t) => Downward(u)
    BY <2>2, <2>4, <2>5 DEF Downward
  <2>7. GrowsBy(t, u, n)
    BY <2>4, <2>5, <2>6 DEF GrowsBy
  <2> QED
    BY <2>1, <2>7
<1> QED
  BY <1>1, <1>2

LEMMA SowGrows ==
  ASSUME NEW t, Sound(Entries, t), NEW n \in DOMAIN t, NEW f, NEW s, GoodFrame(f, s)
  PROVE  GrowsBy(t, Sow(t, n, f), n)
<1> DEFINE seed == NewSeed(f.entry, Match(f).region)
           sim == t[n].sim
           u == AddSeed(t, sim, seed)
<1>1. SameShape(t, t) /\ SameExplored(t, t)
  BY DEF SameShape, SameExplored
<1>2. CASE Sow(t, n, f) = t
  BY <1>1, <1>2, GrowsBySelf
<1>3. CASE Sow(t, n, f) # t
  <2>1. Sow(t, n, f) = u
    BY <1>3 DEF Sow
  <2>2. sim \in DOMAIN t
    <3>1. sim \notin DOMAIN t => u = t
      BY LenProperties DEF AddSeed, Sound
    <3> QED
      BY <1>3, <2>1, <3>1
  <2>3. f.entry \in Entries /\ Match(f).region \in Nat
    <3>1. Match(f).region \in 1..Len(f.entry.counts) /\ f.entry \in Entries
      BY MatchInside DEF GoodFrame, Frame
    <3> QED
      BY <3>1, EntryType
  <2>4. seed \in SeedRec(Entries)
    BY <2>3 DEF NewSeed, SeedRec
  <2> HIDE DEF seed, sim
  <2>5. SameShape(t, u) /\ SameExplored(t, u)
    BY <2>2, <2>4, AddSeedKeeps
  <2> HIDE DEF u
  <2> QED
    BY <2>1, <2>5, GrowsBySelf
<1> QED
  BY <1>2, <1>3

LEMMA DyeSel ==
  ASSUME Inv, SelInv, Dye
  PROVE  SelInv'
<1> DEFINE t     == Reopen(tree, ex)
           node  == Target(t, ex)
           grow  == Grow(t, ex)
           grown == Whiten(grow, node, ex)
<1>1. /\ pc = "dye" /\ ex.k <= Len(ex.entry.codes)
      /\ tree' = Sow(grown, node, ex) /\ pc' \in {"aborted", "dye"}
      /\ ex' = [ex EXCEPT !.k = @ + 1, !.node = node,
                          !.newNode = Fresh(t, ex),
                          !.region = Match(ex).region,
                          !.exact = Match(ex).exact]
  BY DEF Dye, Check
<1>2. GoodFrame(ex, tree) /\ Sound(Entries, tree) /\ ~tree[ROOT].explored /\ ex \in Frame
  BY <1>1, GoodFrameWhileDyeing DEF Inv, TypeOK
<1>3. Succeeds(Entries, tree, t) /\ DOMAIN t = DOMAIN tree
  BY <1>2, ReopenSound
<1>4. GoodFrame(ex, t) /\ Sound(Entries, t)
  BY <1>2, <1>3 DEF GoodFrame, Succeeds
<1>5. /\ SameShape(tree, t)
      /\ \A m \in DOMAIN tree : m # ex.node => t[m].explored = tree[m].explored
  <2> DEFINE n == ex.node
             b == FALSE
             u == SetExplored(tree, n, b)
  <2>1. t = u \/ t = tree
    BY DEF Reopen
  <2>2. n \in DOMAIN tree /\ b \in BOOLEAN
    BY <1>2 DEF GoodFrame
  <2> HIDE DEF n, b, t
  <2>3. /\ SameShape(tree, u)
        /\ \A m \in DOMAIN tree : u[m].explored = IF m = n THEN b ELSE tree[m].explored
    BY <1>2, <2>2, SetExploredKeeps
  <2>4. SameShape(tree, tree)
    BY DEF SameShape
  <2> HIDE DEF u
  <2>5. CASE t = u
    BY <2>3, <2>5 DEF n
  <2>6. CASE t = tree
    BY <2>4, <2>6
  <2> QED
    BY <2>1, <2>5, <2>6
<1>6. ex'.node = node
  <2> HIDE DEF t, node
  <2> QED
    BY <1>1, <1>2 DEF Frame
<1> HIDE DEF t
<1>7. Succeeds(Entries, t, grow) /\ Sound(Entries, grow) /\ node \in DOMAIN grow
  BY <1>4, GrowSound DEF Succeeds
<1>8. GrowsBy(t, grow, node) /\ node \in Children(grow, ex.node)
  BY <1>4, GrowGrows
<1> HIDE DEF grow, node
<1>9. Sound(Entries, grown) /\ GrowsBy(grow, grown, node)
  BY <1>4, <1>7, WhitenSound, WhitenGrows DEF Succeeds
<1> HIDE DEF grown
<1>10. node \in DOMAIN grown
  BY <1>7, <1>9 DEF GrowsBy
<1>11. GrowsBy(grown, tree', node)
  BY <1>1, <1>4, <1>9, <1>10, SowGrows
<1>12. GrowsBy(grow, tree', node)
  BY <1>9, <1>11, GrowsByTrans
<1>13. GrowsBy(t, tree', node)
  BY <1>8, <1>12, GrowsByTrans
<1>14. node \in Children(tree', ex.node)
  BY <1>8, <1>12 DEF GrowsBy, Children
<1>15. Downward(tree')
  <2>1. Downward(t)
    BY <1>5, SameDownward DEF SelInv
  <2> QED
    BY <1>13, <2>1 DEF GrowsBy
<1>16. ASSUME NEW n \in DOMAIN tree', Childless(tree', n), n # node
       PROVE  tree'[n].explored
  <2>1. n # ex.node
    BY <1>14, <1>16 DEF Childless
  <2>2. n \in DOMAIN tree /\ tree'[n].explored = t[n].explored /\ tree[n].colour # Golden
    BY <1>3, <1>5, <1>13, <1>16 DEF GrowsBy, Childless, SameShape
  <2>3. Children(tree, n) \subseteq Children(tree', n)
    BY <1>3, <1>5, <1>13 DEF GrowsBy, Children, SameShape
  <2>4. Childless(tree, n)
    BY <1>16, <2>2, <2>3 DEF Childless
  <2> QED
    BY <1>1, <1>5, <2>1, <2>2, <2>4 DEF SelInv
<1> QED
  BY <1>1, <1>6, <1>15, <1>16 DEF SelInv

-----------------------------------------------------------------------------
LEMMA InitSel ==
  ASSUME Init
  PROVE  SelInv
<1> DEFINE root == [NewNode(0, NoNode, White, <<0>>) EXCEPT !.sim = RootSim]
           sim == NewNode(SimId, ROOT, Golden, <<0>>)
<1>1. tree = <<root, sim>> /\ pc = "dry"
  BY DEF Init, InitialTree
<1>2. sim.parent = ROOT /\ sim.colour = Golden
  BY DEF NewNode
<1> HIDE DEF root, sim
<1>3. DOMAIN tree = {ROOT, RootSim} /\ tree[RootSim] = sim /\ ROOT < RootSim
  BY <1>1 DEF ROOT, RootSim
<1>4. Downward(tree)
  BY <1>2, <1>3 DEF Downward
<1>5. \A n \in DOMAIN tree : ~Childless(tree, n)
  <2>1. RootSim \in Children(tree, ROOT)
    BY <1>2, <1>3 DEF Children
  <2> QED
    BY <1>2, <1>3, <2>1 DEF Childless
<1> QED
  BY <1>1, <1>4, <1>5 DEF SelInv

LEMMA BeginExpansionSel ==
  ASSUME Inv, SelInv, NEW e \in Entries, DryRunEntry(e) \/ FuzzEntry(e)
  PROVE  SelInv'
<1> DEFINE seed == NewSeed(e, 1)
           n == RootSim
           u == AddSeed(tree, n, seed)
<1>1. pc \in {"dry", "fuzz"} /\ BeginExpansion(e)
  BY DEF DryRunEntry, FuzzEntry
<1>2. Sound(Entries, tree) /\ n \in DOMAIN tree
  BY <1>1, LenProperties DEF Inv, Sound, RootSim
<1>3. tree' = u /\ pc' = "dye"
  BY <1>1, <1>2 DEF BeginExpansion, Sound
<1>4. seed \in SeedRec(Entries)
  BY DEF NewSeed, SeedRec
<1> HIDE DEF seed, n
<1>5. SameShape(tree, u) /\ SameExplored(tree, u)
  BY <1>2, <1>4, AddSeedKeeps
<1> HIDE DEF u
<1> QED
  BY <1>1, <1>3, <1>5, OutsideSelection

LEMMA FinishExpansionSel ==
  ASSUME Inv, SelInv, FinishExpansion
  PROVE  SelInv'
<1> DEFINE n        == ex.node
           leaf     == IsLeaf(tree, n)
           marked   == SetExplored(tree, n, leaf)
           credited == CreditPath(marked, n)
           paid     == CreditSeed(credited, cur, curSeed)
<1>1. /\ tree' \in {marked, credited, paid}
      /\ pc = "dye" /\ pc' \in {"dry", "fuzz", "crashed"}
  <2>1. IF tree[n].parent = NoNode
        THEN tree' = marked /\ pc' = "crashed"
        ELSE /\ tree' = CASE ~ex.newPath -> marked
                          [] ex.newPath /\ round = 0 -> credited
                          [] ex.newPath /\ round > 0 -> paid
             /\ pc' = IF round = 0 THEN "dry" ELSE "fuzz"
    BY DEF FinishExpansion, Parent
  <2>2. pc = "dye" /\ round \in Nat /\ ex.newPath \in BOOLEAN
    BY DEF FinishExpansion, Inv, TypeOK, Frame
  <2> HIDE DEF n, marked, credited, paid
  <2> QED
    BY <2>1, <2>2
<1>2. /\ Sound(Entries, tree) /\ n \in DOMAIN tree /\ cur \in DOMAIN tree /\ curSeed \in Nat
  BY <1>1 DEF Inv, TypeOK
<1>3. leaf \in BOOLEAN /\ (Children(tree, n) = {} => leaf)
  BY DEF IsLeaf
<1> HIDE DEF n, leaf
<1>4. /\ SameShape(tree, marked)
      /\ \A m \in DOMAIN tree : marked[m].explored = IF m = n THEN leaf ELSE tree[m].explored
  BY <1>2, <1>3, SetExploredKeeps
<1>5. Sound(Entries, marked) /\ DOMAIN marked = DOMAIN tree
  BY <1>2, <1>3, SetExploredSound
<1> HIDE DEF marked
<1>6. OnlyCounts(marked, marked) /\ OnlyCounts(marked, credited)
  BY <1>5, SameSelf, CreditPathKeeps
<1>7. Sound(Entries, credited) /\ DOMAIN credited = DOMAIN tree
  BY <1>5, CreditPathSound DEF Succeeds
<1> HIDE DEF credited
<1>8. OnlyCounts(credited, paid)
  BY <1>2, <1>7, CreditSeedKeeps
<1> HIDE DEF paid
<1>9. OnlyCounts(marked, paid)
  BY <1>6, <1>8, OnlyCountsTrans
<1>10. OnlyCounts(marked, tree')
  BY <1>1, <1>6, <1>9
<1>11. /\ SameShape(tree, tree') /\ DOMAIN tree' = DOMAIN tree
       /\ \A m \in DOMAIN tree : tree'[m].explored = IF m = n THEN leaf ELSE tree[m].explored
  BY <1>4, <1>10 DEF OnlyCounts, SameShape, SameExplored
<1>12. Downward(tree')
  BY <1>11, SameDownward DEF SelInv
<1>13. \A m \in DOMAIN tree : Childless(tree', m) => tree'[m].explored
  <2> SUFFICES ASSUME NEW m \in DOMAIN tree, Childless(tree, m) PROVE tree'[m].explored
    BY <1>11, SameChildren
  <2>1. CASE m = n
    BY <1>3, <1>11, <2>1 DEF Childless
  <2>2. CASE m # n
    BY <1>1, <1>11, <2>2 DEF SelInv, n
  <2> QED
    BY <2>1, <2>2
<1> QED
  BY <1>1, <1>11, <1>12, <1>13 DEF SelInv

LEMMA SelectSeedSel ==
  ASSUME Inv, SelInv, SelectSeed
  PROVE  SelInv'
<1>1. PICK s \in BestSeeds(tree, cur) : tree' = CountSeedSelection(tree, cur, s)
  BY DEF SelectSeed
<1> DEFINE u == CountSeedSelection(tree, cur, s)
<1>2. pc = "seed" /\ pc' = "m2" /\ tree' = u
  BY <1>1 DEF SelectSeed
<1>3. Sound(Entries, tree) /\ cur \in DOMAIN tree
  BY <1>2 DEF Inv, TypeOK
<1>4. OnlyCounts(tree, u)
  BY <1>3, CountSeedSelectionKeeps
<1> HIDE DEF u
<1> QED
  BY <1>2, <1>4, OutsideSelection DEF OnlyCounts

LEMMA QuietSel ==
  ASSUME SelInv, FindM2 \/ StartFuzzing \/ EndFuzz \/ Stop
  PROVE  SelInv'
<1>1. tree' = tree /\ pc \notin {"dye", "aborted"} /\ pc' \notin {"select", "climb", "seed"}
  BY DEF FindM2, Check, StartFuzzing, EndFuzz, Stop
<1>2. SameShape(tree, tree') /\ SameExplored(tree, tree')
  BY <1>1, SameSelf DEF OnlyCounts
<1> QED
  BY <1>1, <1>2, OutsideSelection

LEMMA StutterSel ==
  ASSUME SelInv, UNCHANGED vars
  PROVE  SelInv'
<1>1. tree' = tree /\ pc' = pc /\ cur' = cur /\ ex' = ex
  BY DEF vars
<1> QED
  BY <1>1 DEF SelInv

LEMMA StepSel ==
  ASSUME Inv, SelInv, [Next]_vars
  PROVE  SelInv'
<1>1. ASSUME NEW e \in Entries, DryRunEntry(e) \/ FuzzEntry(e) PROVE SelInv'
  BY <1>1, BeginExpansionSel
<1>2. CASE Dye
  BY <1>2, DyeSel
<1>3. CASE FinishExpansion
  BY <1>3, FinishExpansionSel
<1>4. CASE BeginSelection
  BY <1>4, BeginSelectionSel
<1>5. CASE Descend
  BY <1>5, DescendSel
<1>6. CASE Climb
  BY <1>6, ClimbSel
<1>7. CASE SelectSeed
  BY <1>7, SelectSeedSel
<1>8. CASE FindM2 \/ StartFuzzing \/ EndFuzz \/ Stop
  BY <1>8, QuietSel
<1>9. CASE Terminated \/ UNCHANGED vars
  BY <1>9, StutterSel DEF Terminated
<1> QED
  BY <1>1, <1>2, <1>3, <1>4, <1>5, <1>6, <1>7, <1>8, <1>9 DEF Next

(* select_tree_node reads through no node it must not: there is a child to  *)
(* choose, a seed to select and a parent to climb to, also under -a after   *)
(* failed assertions and for any entries (mcts.c:711, 736, 840).            *)
THEOREM SelectionGoesOn == Spec => []SelectionSteps
<1>1. Init => Inv /\ SelInv
  BY InitInv, InitSel
<1>2. Inv /\ SelInv /\ [Next]_vars => (Inv /\ SelInv)'
  BY StepInv, StepSel
<1>3. Inv /\ SelInv => SelectionSteps
  <2> SUFFICES ASSUME Inv, SelInv PROVE SelectionSteps
    OBVIOUS
  <2>1. pc # "crashed" => ~NegInf(tree, ROOT)
    BY DEF Inv, Sound, NegInf, White, Golden
  <2>2. pc = "climb" => cur # ROOT
    BY DEF Inv
  <2> QED
    BY <2>1, <2>2 DEF SelInv, SelectionSteps
<1> QED
  BY <1>1, <1>2, <1>3, PTL DEF Spec

-----------------------------------------------------------------------------
(* The tree while every response completes one code                         *)

HasSeeds(t, n) == DOMAIN t[n].seeds # {}

(* Selection can go on from a white node to its simulation child.         *)
Stocked(t, n) == HasSeeds(t, t[n].sim)

(* Every node on the way is white, and only a leaf is without a seed: one that *)
(* is given up, or that Expansion has just reached.                       *)
LockNode(t, n, last) ==
  /\ t[n].colour # Black
  /\ (t[n].colour = Golden => ~t[n].explored)
  /\ (t[n].colour = White =>
       Stocked(t, n) \/ (IsLeaf(t, n) /\ (t[n].explored \/ n = last)))

LockTree(t, last) == \A n \in DOMAIN t : LockNode(t, n, last)

(* The root keeps a seed of every entry that was expanded.                *)
Fed(t) == HasSeeds(t, RootSim)

AllLockstep(t) ==
  Fed(t) /\ \A i \in DOMAIN t[RootSim].seeds : Lockstep(t[RootSim].seeds[i].entry)

SeedsStay(t, u) ==
  \A i \in DOMAIN t[RootSim].seeds :
    i \in DOMAIN u[RootSim].seeds /\ u[RootSim].seeds[i].entry = t[RootSim].seeds[i].entry

LEMMA SeedsStayTrans ==
  ASSUME NEW t, NEW u, NEW v, SeedsStay(t, u), SeedsStay(u, v)
  PROVE  SeedsStay(t, v)
BY DEF SeedsStay

LEMMA SeedsStayFed ==
  ASSUME NEW t, NEW u, SeedsStay(t, u), Fed(t)
  PROVE  Fed(u) /\ (AllLockstep(u) => AllLockstep(t))
BY DEF SeedsStay, Fed, HasSeeds, AllLockstep

LEMMA Filled ==
  ASSUME NEW S, NEW s \in Seq(S)
  PROVE  s # <<>> <=> DOMAIN s # {}
<1>1. DOMAIN s = 1..Len(s) /\ Len(s) \in Nat
  BY LenProperties
<1>2. s # <<>> => Len(s) \in Nat \ {0}
  BY EmptySeq
<1>3. Len(<<>>) = 0
  BY EmptySeq
<1>4. s = <<>> => DOMAIN s = {}
  BY <1>1, <1>3
<1>5. s # <<>> => 1 \in DOMAIN s
  BY <1>1, <1>2
<1> QED
  BY <1>4, <1>5

LEMMA SeedsOfNode ==
  ASSUME NEW E, NEW t, Sound(E, t), NEW n \in DOMAIN t
  PROVE  t[n].seeds \in Seq(SeedRec(E)) /\ (t[n].seeds # <<>> <=> HasSeeds(t, n))
<1>1. t[n].seeds \in Seq(SeedRec(E))
  BY NodeOfSound DEF NodeRec
<1> QED
  BY <1>1, Filled DEF HasSeeds

(* What a simulation child is to its node.                                *)
LEMMA SimOfWhite ==
  ASSUME NEW t, IsTrie(t), NEW n \in DOMAIN t, t[n].colour = White
  PROVE  t[n].sim \in DOMAIN t /\ t[t[n].sim].colour = Golden /\ t[t[n].sim].parent = n
BY DEF IsTrie, ResponseNodes, SimulationNodes, White, Golden

(* Updates of counters and marks: what they keep.                         *)
LEMMA SameStock ==
  ASSUME NEW t, IsTrie(t), NEW u, SameShape(t, u), SameSeeds(t, u)
  PROVE  /\ (RootSim \in DOMAIN t => SeedsStay(t, u) /\ (Fed(u) <=> Fed(t)))
         /\ \A n \in DOMAIN t : t[n].colour = White => (Stocked(u, n) <=> Stocked(t, n))
         /\ \A n \in DOMAIN t : IsLeaf(u, n) <=> IsLeaf(t, n)
<1>1. \A n \in DOMAIN t : HasSeeds(u, n) <=> HasSeeds(t, n)
  BY DEF SameSeeds, SameSeedList, HasSeeds
<1>2. \A n \in DOMAIN t : t[n].colour = White => (Stocked(u, n) <=> Stocked(t, n))
  <2> SUFFICES ASSUME NEW n \in DOMAIN t, t[n].colour = White
               PROVE  Stocked(u, n) <=> Stocked(t, n)
    OBVIOUS
  <2>1. t[n].sim \in DOMAIN t
    BY SimOfWhite
  <2>2. u[n].sim = t[n].sim
    BY DEF SameShape
  <2> QED
    BY <1>1, <2>1, <2>2 DEF Stocked
<1>3. \A n \in DOMAIN t : IsLeaf(u, n) <=> IsLeaf(t, n)
  BY DEF SameShape, IsLeaf, Children
<1>4. RootSim \in DOMAIN t => SeedsStay(t, u) /\ (Fed(u) <=> Fed(t))
  BY <1>1 DEF SameSeeds, SameSeedList, SeedsStay, Fed
<1> QED
  BY <1>2, <1>3, <1>4

LEMMA LockWider ==
  ASSUME NEW E, NEW t, Sound(E, t), LockTree(t, NoNode), NEW last
  PROVE  LockTree(t, last)
<1>1. \A n \in DOMAIN t : n # NoNode
  BY LenProperties DEF Sound, NoNode
<1> QED
  BY <1>1 DEF LockTree, LockNode

-----------------------------------------------------------------------------
(* A seed for a white node.                                               *)
LEMMA SowLock ==
  ASSUME NEW E, NEW t, Sound(E, t), IsTrie(t), NEW n \in DOMAIN t, t[n].colour = White,
         NEW seed \in SeedRec(E), NEW last, LockTree(t, last)
  PROVE  LET u == AddSeed(t, t[n].sim, seed)
         IN  LockTree(u, last) /\ Stocked(u, n)
<1> DEFINE s == t[n].sim
           u == AddSeed(t, s, seed)
<1>1. s \in DOMAIN t
  BY SimOfWhite
<1> HIDE DEF s
<1>2. /\ SameShape(t, u) /\ SameExplored(t, u)
      /\ \A m \in DOMAIN t : u[m].seeds = IF m = s THEN Append(t[m].seeds, seed) ELSE t[m].seeds
  BY <1>1, AddSeedKeeps
<1> HIDE DEF u
<1>3. \A m \in DOMAIN t : HasSeeds(t, m) => HasSeeds(u, m)
  <2> SUFFICES ASSUME NEW m \in DOMAIN t, HasSeeds(t, m) PROVE HasSeeds(u, m)
    OBVIOUS
  <2>1. t[m].seeds \in Seq(SeedRec(E))
    BY SeedsOfNode
  <2>2. DOMAIN Append(t[m].seeds, seed) # {}
    BY <2>1, AppendProperties, Filled
  <2> QED
    BY <1>2, <2>2 DEF HasSeeds
<1>4. HasSeeds(u, s)
  <2>1. t[s].seeds \in Seq(SeedRec(E))
    BY <1>1, SeedsOfNode
  <2>2. DOMAIN Append(t[s].seeds, seed) # {}
    BY <2>1, AppendProperties, Filled
  <2> QED
    BY <1>1, <1>2, <2>2 DEF HasSeeds
<1>5. \A m \in DOMAIN t : t[m].colour = White => (Stocked(t, m) => Stocked(u, m))
  <2> SUFFICES ASSUME NEW m \in DOMAIN t, t[m].colour = White, Stocked(t, m)
               PROVE  Stocked(u, m)
    OBVIOUS
  <2>1. t[m].sim \in DOMAIN t /\ u[m].sim = t[m].sim
    BY <1>2, SimOfWhite DEF SameShape
  <2> QED
    BY <1>3, <2>1 DEF Stocked
<1>6. \A m \in DOMAIN t : IsLeaf(u, m) <=> IsLeaf(t, m)
  BY <1>2 DEF SameShape, IsLeaf, Children
<1>7. LockTree(u, last)
  <2>1. DOMAIN u = DOMAIN t
    BY <1>2 DEF SameShape
  <2>2. ASSUME NEW m \in DOMAIN t PROVE LockNode(u, m, last)
    <3>1. LockNode(t, m, last)
      BY DEF LockTree
    <3>2. u[m].colour = t[m].colour /\ u[m].explored = t[m].explored
      BY <1>2 DEF SameShape, SameExplored
    <3> QED
      BY <1>5, <1>6, <3>1, <3>2 DEF LockNode
  <2> QED
    BY <2>1, <2>2 DEF LockTree
<1>8. Stocked(u, n)
  BY <1>2, <1>4 DEF Stocked, SameShape, s
<1> QED
  BY <1>7, <1>8 DEF u, s

(* A node taken up again.                                                 *)
LEMMA ReopenLock ==
  ASSUME NEW t, Sound(Entries, t), IsTrie(t), NEW f, GoodFrame(f, t),
         f.node \in ResponseNodes(t)
  PROVE  /\ SeedsStay(t, Reopen(t, f)) /\ SameShape(t, Reopen(t, f))
         /\ (LockTree(t, NoNode) /\ Stocked(t, f.node) =>
               LockTree(Reopen(t, f), NoNode) /\ Stocked(Reopen(t, f), f.node))
<1> DEFINE n == f.node
           b == FALSE
           u == SetExplored(t, n, b)
<1>1. n \in DOMAIN t /\ b \in BOOLEAN /\ n \in ResponseNodes(t)
  BY DEF GoodFrame
<1>2. Reopen(t, f) = u \/ Reopen(t, f) = t
  BY DEF Reopen
<1> HIDE DEF n, b
<1>3. /\ SameShape(t, u) /\ SameSeeds(t, u)
      /\ \A m \in DOMAIN t : u[m].explored = IF m = n THEN b ELSE t[m].explored
  BY <1>1, SetExploredKeeps
<1> HIDE DEF u
<1>4. RootSim \in DOMAIN t
  BY LenProperties DEF Sound, RootSim
<1>5. /\ SeedsStay(t, u)
      /\ \A m \in DOMAIN t : t[m].colour = White => (Stocked(u, m) <=> Stocked(t, m))
      /\ \A m \in DOMAIN t : IsLeaf(u, m) <=> IsLeaf(t, m)
  BY <1>3, <1>4, SameStock
<1>6. SeedsStay(t, t) /\ SameShape(t, t)
  BY DEF SeedsStay, SameShape
<1>7. ASSUME LockTree(t, NoNode), Stocked(t, n)
      PROVE  LockTree(u, NoNode) /\ Stocked(u, n)
  <2>1. t[n].colour = White
    <3>1. t[n].colour \in Colours /\ t[n].colour # Golden
      BY <1>1, TrieNode DEF ResponseNodes
    <3>2. t[n].colour # Black
      BY <1>1, <1>7 DEF LockTree, LockNode
    <3> QED
      BY <3>1, <3>2 DEF Colours
  <2>2. Stocked(u, n)
    BY <1>1, <1>5, <1>7, <2>1
  <2>3. ASSUME NEW m \in DOMAIN t PROVE LockNode(u, m, NoNode)
    <3>1. LockNode(t, m, NoNode)
      BY <1>7 DEF LockTree
    <3>2. u[m].colour = t[m].colour
      BY <1>3 DEF SameShape
    <3>3. CASE m = n
      BY <1>3, <2>1, <2>2, <3>2, <3>3 DEF LockNode, White, Golden, Black
    <3>4. CASE m # n
      BY <1>3, <1>5, <3>1, <3>2, <3>4 DEF LockNode
    <3> QED
      BY <3>3, <3>4
  <2>4. DOMAIN u = DOMAIN t
    BY <1>3 DEF SameShape
  <2> QED
    BY <2>2, <2>3, <2>4 DEF LockTree
<1> QED
  BY <1>2, <1>3, <1>5, <1>6, <1>7 DEF n

(* A new white node under one that has seeds.                             *)
LEMMA ChildLock ==
  ASSUME NEW E, NEW t, Sound(E, t), IsTrie(t), NEW p \in DOMAIN t, NEW u, NEW id, NEW path,
         WithChild(t, u, p, id, White, path), LockTree(t, NoNode), t[p].colour = White, Stocked(t, p)
  PROVE  LockTree(u, Len(t) + 1) /\ u[Len(t) + 1].colour = White
<1> DEFINE n == Len(t) + 1
<1>1. /\ Len(t) \in Nat /\ DOMAIN t = 1..Len(t) /\ p \in Nat /\ p < n /\ n \in Nat
  BY LenProperties DEF Sound
<1>2. \A m \in DOMAIN t : m # n /\ m # n + 1 /\ m \in Nat /\ m # NoNode
  BY <1>1 DEF NoNode
<1>3. \A m \in DOMAIN t : t[m].parent \in DOMAIN t \cup {NoNode}
  BY DEF Sound
<1>4. n # NoNode /\ n + 1 # n
  BY <1>1 DEF NoNode
<1> HIDE DEF n
<1>5. /\ DOMAIN u = DOMAIN t \cup {n, n + 1}
      /\ \A m \in DOMAIN t : u[m] = t[m]
      /\ u[n].parent = p /\ u[n].colour = White /\ u[n].explored = FALSE
      /\ u[n + 1].parent = n /\ u[n + 1].colour = Golden /\ u[n + 1].explored = FALSE
  BY DEF WithChild, n
<1>6. LockNode(u, n + 1, n)
  BY <1>5 DEF LockNode, White, Golden, Black
<1>7. IsLeaf(u, n)
  <2> SUFFICES ASSUME NEW c \in DOMAIN u, u[c].parent = n PROVE u[c].colour = Golden
    BY DEF IsLeaf, Children
  <2>1. c \notin DOMAIN t
    BY <1>1, <1>2, <1>3, <1>4, <1>5
  <2>2. c # n
    BY <1>2, <1>5
  <2> QED
    BY <1>5, <2>1, <2>2
<1>8. LockNode(u, n, n)
  BY <1>5, <1>7 DEF LockNode, White, Golden, Black
<1>9. ASSUME NEW m \in DOMAIN t PROVE LockNode(u, m, n)
  <2>1. LockNode(t, m, NoNode) /\ u[m] = t[m]
    BY <1>5 DEF LockTree
  <2>2. t[m].colour = White /\ Stocked(t, m) => Stocked(u, m)
    BY <1>5, SimOfWhite DEF Stocked, HasSeeds
  <2>3. CASE m = p
    BY <2>1, <2>2, <2>3 DEF LockNode, White, Golden, Black
  <2>4. CASE m # p
    <3>1. IsLeaf(t, m) => IsLeaf(u, m)
      BY <1>2, <1>5, <2>4 DEF IsLeaf, Children
    <3> QED
      BY <1>2, <2>1, <2>2, <3>1 DEF LockNode
  <2> QED
    BY <2>3, <2>4
<1>10. LockTree(u, n)
  BY <1>5, <1>6, <1>8, <1>9 DEF LockTree
<1> QED
  BY <1>5, <1>10 DEF n

-----------------------------------------------------------------------------
LEMMA GrowStays ==
  ASSUME NEW t, Sound(Entries, t), NEW f
  PROVE  SeedsStay(t, Grow(t, f))
<1> DEFINE p == f.node
           id == f.entry.codes[f.k]
           path == SubSeq(f.entry.codes, 1, f.k)
           colour == IF Match(f).exact THEN White ELSE Black
           u == AppendChild(t, p, id, colour, path)
<1>1. Grow(t, f) = u \/ Grow(t, f) = t
  BY DEF Grow
<1>2. SeedsStay(t, t)
  BY DEF SeedsStay
<1>3. colour \in {White, Black} /\ RootSim \in DOMAIN t
  BY LenProperties DEF Sound, RootSim
<1> HIDE DEF p, id, path, colour
<1>4. WithChild(t, u, p, id, colour, path)
  BY <1>3, AppendChildIs
<1> HIDE DEF u
<1>5. u[RootSim] = t[RootSim]
  BY <1>3, <1>4 DEF WithChild
<1>6. SeedsStay(t, u)
  BY <1>5 DEF SeedsStay
<1> QED
  BY <1>1, <1>2, <1>6

LEMMA WhitenStays ==
  ASSUME NEW t, Sound(Entries, t), NEW n \in DOMAIN t, NEW f
  PROVE  SeedsStay(t, Whiten(t, n, f))
<1> DEFINE path == SubSeq(f.entry.codes, 1, f.k)
           u == Flip(t, n, path)
<1>1. Whiten(t, n, f) = u \/ Whiten(t, n, f) = t
  BY DEF Whiten
<1>2. SeedsStay(t, t)
  BY DEF SeedsStay
<1>3. RootSim \in DOMAIN t
  BY LenProperties DEF Sound, RootSim
<1> HIDE DEF path
<1>4. Flipped(t, u, n, path)
  BY FlipIs
<1> HIDE DEF u
<1>5. u[RootSim].seeds = t[RootSim].seeds
  BY <1>3, <1>4 DEF Flipped
<1>6. SeedsStay(t, u)
  BY <1>5 DEF SeedsStay
<1> QED
  BY <1>1, <1>2, <1>6

LEMMA AddSeedStays ==
  ASSUME NEW E, NEW t, Sound(E, t), NEW n \in DOMAIN t, NEW seed \in SeedRec(E)
  PROVE  SeedsStay(t, AddSeed(t, n, seed))
<1> DEFINE s == t[RootSim].seeds
           u == AddSeed(t, n, seed)
<1>1. RootSim \in DOMAIN t
  BY LenProperties DEF Sound, RootSim
<1>2. u[RootSim].seeds = IF RootSim = n THEN Append(s, seed) ELSE s
  BY <1>1, AddSeedKeeps
<1>3. s \in Seq(SeedRec(E))
  BY <1>1, SeedsOfNode
<1> HIDE DEF s, u
<1>4. \A i \in DOMAIN s : i \in DOMAIN Append(s, seed) /\ Append(s, seed)[i] = s[i]
  <2>1. /\ Append(s, seed) \in Seq(SeedRec(E)) /\ Len(Append(s, seed)) = Len(s) + 1
        /\ \A i \in 1..Len(s) : Append(s, seed)[i] = s[i]
    BY <1>3, AppendProperties
  <2>2. DOMAIN s = 1..Len(s) /\ Len(s) \in Nat
    BY <1>3, LenProperties
  <2>3. DOMAIN Append(s, seed) = 1..Len(Append(s, seed))
    BY <2>1, LenProperties
  <2> QED
    BY <2>1, <2>2, <2>3
<1>5. \A i \in DOMAIN s : i \in DOMAIN u[RootSim].seeds /\ u[RootSim].seeds[i] = s[i]
  BY <1>2, <1>4
<1> QED
  BY <1>5 DEF SeedsStay, s, u

LEMMA SowStays ==
  ASSUME NEW t, Sound(Entries, t), IsTrie(t), NEW n \in DOMAIN t, NEW f, NEW s, GoodFrame(f, s)
  PROVE  SeedsStay(t, Sow(t, n, f))
<1> DEFINE seed == NewSeed(f.entry, Match(f).region)
           sim == t[n].sim
<1>1. CASE ~Seeded(t, n, f)
  BY <1>1 DEF Sow, SeedsStay
<1>2. CASE Seeded(t, n, f)
  <2>1. Sow(t, n, f) = AddSeed(t, sim, seed) /\ t[n].colour = White
    BY <1>2 DEF Sow, Seeded
  <2>2. sim \in DOMAIN t
    BY <2>1, SimOfWhite
  <2>3. f.entry \in Entries /\ Match(f).region \in Nat
    <3>1. Match(f).region \in 1..Len(f.entry.counts)
      BY MatchInside
    <3>2. f.entry \in Entries
      BY DEF GoodFrame, Frame
    <3> QED
      BY <3>1, <3>2, EntryType
  <2>4. seed \in SeedRec(Entries)
    BY <2>3 DEF NewSeed, SeedRec
  <2> HIDE DEF seed, sim
  <2> QED
    BY <2>1, <2>2, <2>4, AddSeedStays
<1> QED
  BY <1>1, <1>2

LEMMA LockstepEntry ==
  ASSUME NEW e \in Entries, Lockstep(e)
  PROVE  /\ Len(e.codes) \in Nat /\ Len(e.codes) >= 2 /\ Len(e.counts) = Len(e.codes) - 1
         /\ \A r \in 1..Len(e.counts) : e.counts[r] = r + 1
<1> DEFINE n == Len(e.codes)
           m == Len(e.counts)
<1>1. n \in Nat /\ m \in Nat /\ m >= 1 /\ DOMAIN e.counts = 1..m
  BY EntryType, LenProperties
<1>2. DOMAIN e.counts = 1..(n - 1) /\ \A r \in 1..(n - 1) : e.counts[r] = r + 1
  BY DEF Lockstep
<1> HIDE DEF n, m
<1>3. 1..m = 1..(n - 1)
  BY <1>1, <1>2
<1>4. m = n - 1
  <2>1. m \in 1..m /\ 1 \in 1..m
    BY <1>1
  <2>2. m <= n - 1 /\ 1 <= n - 1
    BY <1>1, <1>3, <2>1
  <2>3. n - 1 \in 1..(n - 1)
    BY <1>1, <2>2
  <2>4. n - 1 <= m
    BY <1>1, <1>3, <2>3
  <2> QED
    BY <1>1, <2>2, <2>4
<1> QED
  BY <1>1, <1>2, <1>4 DEF n, m

(* The locals of Expansion when every region completes one code.          *)
LockLocals(f) ==
  /\ Lockstep(f.entry)
  /\ f.region = (IF f.k = 2 THEN 1 ELSE f.k - 2)
  /\ (f.exact <=> f.k > 2)

(* The region loop then goes exactly one region further.                  *)
LEMMA LockMatch ==
  ASSUME NEW f, NEW t, GoodFrame(f, t), LockLocals(f)
  PROVE  Match(f).exact /\ Match(f).region = f.k - 1
<1> DEFINE e == f.entry
           k == f.k
           last == Len(e.counts)
           from == f.region + (IF f.exact THEN 1 ELSE 0)
           hits == {r \in from .. last : r <= Len(e.codes) /\ k <= e.counts[r]}
           hit == MatchRegion(e, k, from)
<1>1. e \in Entries /\ k \in 2..Len(e.codes)
  BY DEF GoodFrame, Frame
<1>2. /\ Len(e.codes) \in Nat /\ last = Len(e.codes) - 1
      /\ \A r \in 1..last : e.counts[r] = r + 1
  BY <1>1, LockstepEntry DEF LockLocals
<1>3. from = k - 1
  <2>1. CASE k = 2
    <3>1. f.exact \in BOOLEAN
      BY DEF GoodFrame, Frame
    <3>2. f.region = 1 /\ ~f.exact
      BY <2>1, <3>1 DEF LockLocals
    <3> QED
      BY <2>1, <3>2
  <2>2. CASE k # 2
    <3>1. k \in Nat /\ k > 2
      BY <1>1, <1>2, <2>2
    <3>2. f.region = k - 2 /\ f.exact
      BY <2>2, <3>1 DEF LockLocals
    <3> QED
      BY <3>1, <3>2
  <2> QED
    BY <2>1, <2>2
<1>4. hit = IF hits = {} THEN NoRegion ELSE Min(hits)
  BY DEF MatchRegion
<1>5. Match(f) = IF hit = NoRegion THEN [region |-> f.region, exact |-> f.exact]
                 ELSE [region |-> hit, exact |-> e.counts[hit] = k]
  BY DEF Match
<1> HIDE DEF from, hit, last, k, e
<1>6. k - 1 \in hits /\ hits \in SUBSET Nat /\ \A r \in hits : r >= k - 1
  BY <1>1, <1>2, <1>3
<1> HIDE DEF hits
<1>7. hit = k - 1
  <2>1. Min(hits) \in hits /\ Min(hits) <= k - 1
    BY <1>6, MinIsLeast
  <2>2. Min(hits) >= k - 1 /\ Min(hits) \in Nat
    BY <1>6, <2>1
  <2> QED
    BY <1>1, <1>2, <1>4, <1>6, <2>1, <2>2
<1>8. hit # NoRegion /\ e.counts[hit] = k
  BY <1>1, <1>2, <1>7 DEF NoRegion
<1>9. Match(f) = [region |-> hit, exact |-> e.counts[hit] = k]
  BY <1>5, <1>8
<1>10. Match(f).region = hit /\ Match(f).exact = (e.counts[hit] = k)
  BY <1>9
<1> QED
  BY <1>7, <1>8, <1>10 DEF k

-----------------------------------------------------------------------------
(* The third inductive invariant                                            *)

(* The node Expansion has reached when it is at the end of the responses. *)
Last == IF pc = "dye" /\ ex.k > Len(ex.entry.codes) THEN ex.node ELSE NoNode

InLock ==
  /\ failed = {} /\ Alive /\ pc # "climb"
  /\ LockTree(tree, Last)
  /\ pc = "dye" => /\ LockLocals(ex)
                   /\ (ex.k <= Len(ex.entry.codes) => Stocked(tree, ex.node))

(* Without an entry there is nothing but the root.                        *)
UnfedYet ==
  /\ DOMAIN tree = {ROOT, RootSim} /\ ~tree[RootSim].explored
  /\ pc \notin {"seed", "m2", "fuzz", "dye"}
  /\ (pc = "dry" => failed = {})

LockInv == /\ (AllLockstep(tree) => InLock)
           /\ (~Fed(tree) => UnfedYet)

(* An iteration of Expansion and what it is made of.                      *)
LEMMA DyeParts ==
  ASSUME Plain, Inv, TrieInv, Dye
  PROVE  LET t     == Reopen(tree, ex)
             node  == Target(t, ex)
             grow  == Grow(t, ex)
             grown == Whiten(grow, node, ex)
         IN  /\ GoodFrame(ex, tree) /\ Sound(Entries, tree) /\ IsTrie(tree)
             /\ ex.node \in ResponseNodes(tree)
             /\ GoodFrame(ex, t) /\ Sound(Entries, t) /\ IsTrie(t) /\ Len(t) = Len(tree)
             /\ FreshIsUnknown(t, ex)
             /\ Sound(Entries, grow) /\ IsTrie(grow) /\ node \in ResponseNodes(grow)
             /\ Sound(Entries, grown) /\ IsTrie(grown) /\ node \in ResponseNodes(grown)
             /\ tree' = Sow(grown, node, ex)
<1> DEFINE t     == Reopen(tree, ex)
           node  == Target(t, ex)
           grow  == Grow(t, ex)
           grown == Whiten(grow, node, ex)
<1>1. pc = "dye" /\ ex.k <= Len(ex.entry.codes) /\ tree' = Sow(grown, node, ex)
  BY DEF Dye
<1>2. /\ GoodFrame(ex, tree) /\ Sound(Entries, tree) /\ ~tree[ROOT].explored
      /\ IsTrie(tree) /\ AllReplay(tree) /\ FrameTrie(ex, tree)
  BY <1>1, GoodFrameWhileDyeing DEF Inv, TrieInv
<1>3. Succeeds(Entries, tree, t) /\ DOMAIN t = DOMAIN tree /\ Len(t) = Len(tree)
  BY <1>2, ReopenSound
<1>4. IsTrie(t) /\ AllReplay(t) /\ FrameTrie(ex, t)
  BY <1>2, ReopenTrie
<1>5. GoodFrame(ex, t) /\ Sound(Entries, t)
  BY <1>2, <1>3 DEF GoodFrame, Succeeds
<1> HIDE DEF t
<1>6. Succeeds(Entries, t, grow) /\ Sound(Entries, grow)
  BY <1>5, GrowSound DEF Succeeds
<1>7. AtTarget(grow, node, ex)
  BY <1>4, <1>5, GrowTrie
<1>8. FreshIsUnknown(t, ex)
  BY <1>4, <1>5, FreshMeansUnknown
<1> HIDE DEF grow, node
<1>9. node \in DOMAIN grow
  BY <1>7 DEF AtTarget, ResponseNodes
<1>10. Sound(Entries, grown)
  BY <1>5, <1>6, <1>9, WhitenSound DEF Succeeds
<1>11. AtTarget(grown, node, ex)
  BY <1>6, <1>7, WhitenTrie
<1>12. ex.node \in ResponseNodes(tree)
  BY <1>2 DEF FrameTrie
<1> QED
  BY <1>1, <1>2, <1>3, <1>4, <1>5, <1>6, <1>7, <1>8, <1>10, <1>11, <1>12
     DEF AtTarget, t, node, grow, grown

LEMMA DyeStays ==
  ASSUME Plain, Inv, TrieInv, Dye
  PROVE  SeedsStay(tree, tree')
<1> DEFINE t     == Reopen(tree, ex)
           node  == Target(t, ex)
           grow  == Grow(t, ex)
           grown == Whiten(grow, node, ex)
<1>1. /\ GoodFrame(ex, tree) /\ Sound(Entries, tree) /\ IsTrie(tree)
      /\ ex.node \in ResponseNodes(tree) /\ Sound(Entries, t)
      /\ Sound(Entries, grow) /\ node \in ResponseNodes(grow)
      /\ Sound(Entries, grown) /\ IsTrie(grown) /\ node \in ResponseNodes(grown)
      /\ tree' = Sow(grown, node, ex)
  BY DyeParts
<1>2. SeedsStay(tree, t)
  BY <1>1, ReopenLock
<1> HIDE DEF t
<1>3. SeedsStay(t, grow)
  BY <1>1, GrowStays
<1> HIDE DEF grow, node
<1>4. node \in DOMAIN grow /\ node \in DOMAIN grown
  BY <1>1 DEF ResponseNodes
<1>5. SeedsStay(grow, grown)
  BY <1>1, <1>4, WhitenStays
<1> HIDE DEF grown
<1>6. SeedsStay(grown, tree')
  BY <1>1, <1>4, SowStays
<1>7. SeedsStay(tree, grow)
  BY <1>2, <1>3, SeedsStayTrans
<1>8. SeedsStay(tree, grown)
  BY <1>5, <1>7, SeedsStayTrans
<1> QED
  BY <1>6, <1>8, SeedsStayTrans

LEMMA WhiteInLock ==
  ASSUME NEW E, NEW t, Sound(E, t), IsTrie(t), NEW last, LockTree(t, last),
         NEW n \in ResponseNodes(t)
  PROVE  n \in DOMAIN t /\ t[n].colour = White
<1>1. n \in DOMAIN t /\ t[n].colour \in Colours /\ t[n].colour # Golden
  BY TrieNode DEF ResponseNodes
<1>2. t[n].colour # Black
  BY <1>1 DEF LockTree, LockNode
<1> QED
  BY <1>1, <1>2 DEF Colours

(* The iteration adds at most a white leaf, and a seed unless it is the last. *)
LEMMA DyeLock ==
  ASSUME Plain, Inv, TrieInv, Dye, InLock
  PROVE  InLock'
<1> DEFINE t     == Reopen(tree, ex)
           node  == Target(t, ex)
           grow  == Grow(t, ex)
           grown == Whiten(grow, node, ex)
           len   == Len(ex.entry.codes)
           seed  == NewSeed(ex.entry, Match(ex).region)
<1>1. /\ GoodFrame(ex, tree) /\ Sound(Entries, tree) /\ IsTrie(tree)
      /\ ex.node \in ResponseNodes(tree)
      /\ GoodFrame(ex, t) /\ Sound(Entries, t) /\ IsTrie(t) /\ Len(t) = Len(tree)
      /\ FreshIsUnknown(t, ex)
      /\ Sound(Entries, grow) /\ IsTrie(grow) /\ node \in ResponseNodes(grow)
      /\ Sound(Entries, grown) /\ IsTrie(grown) /\ node \in ResponseNodes(grown)
      /\ tree' = Sow(grown, node, ex)
  BY DyeParts
<1>2. /\ pc = "dye" /\ ex \in Frame /\ ex.k \in 2..len /\ ex.entry \in Entries
      /\ ex.k \in Nat /\ len \in Nat
  BY <1>1, EntryType DEF GoodFrame, Frame, Dye
<1>3. Last = NoNode
  BY <1>2 DEF Last
<1>4. LockLocals(ex) /\ LockTree(tree, NoNode) /\ Stocked(tree, ex.node)
  BY <1>2, <1>3 DEF InLock
<1>5. Match(ex).exact /\ Match(ex).region = ex.k - 1
  BY <1>1, <1>4, LockMatch
<1>6. LockTree(t, NoNode) /\ Stocked(t, ex.node) /\ SameShape(tree, t)
  BY <1>1, <1>4, ReopenLock
<1>7. ex.node \in DOMAIN t /\ t[ex.node].colour = White
  <2>1. ex.node \in ResponseNodes(t)
    BY <1>1, <1>6 DEF SameShape, ResponseNodes
  <2> HIDE DEF t
  <2> QED
    BY <1>1, <1>6, <2>1, WhiteInLock
<1>8. LockTree(grow, node)
  <2>1. CASE Fresh(t, ex)
    <3> DEFINE p == ex.node
               id == ex.entry.codes[ex.k]
               path == SubSeq(ex.entry.codes, 1, ex.k)
               u == AppendChild(t, p, id, White, path)
    <3>1. grow = u /\ node = Len(t) + 1
      BY <1>5, <2>1 DEF Grow, Target
    <3>2. p \in DOMAIN t /\ t[p].colour = White /\ Stocked(t, p)
      BY <1>6, <1>7
    <3> HIDE DEF t, p, id, path
    <3>3. WithChild(t, u, p, id, White, path)
      BY <1>1, AppendChildIs
    <3> HIDE DEF u
    <3> QED
      BY <1>1, <1>6, <3>1, <3>2, <3>3, ChildLock
  <2>2. CASE ~Fresh(t, ex)
    <3>1. grow = t
      BY <2>2 DEF Grow
    <3> HIDE DEF t, grow, node
    <3> QED
      BY <1>1, <1>6, <3>1, LockWider
  <2> QED
    BY <2>1, <2>2
<1> HIDE DEF t, grow, node
<1>9. node \in DOMAIN grow /\ grow[node].colour = White
  BY <1>1, <1>8, WhiteInLock
<1>10. grown = grow
  BY <1>9 DEF Whiten, White, Black
<1> HIDE DEF grown
<1>11. seed \in SeedRec(Entries)
  BY <1>2, <1>5 DEF NewSeed, SeedRec
<1>12. Seeded(grow, node, ex) <=> ex.k < len
  <2>1. ex.entry.counts[ex.k - 1] = ex.k
    <3>1. /\ Len(ex.entry.counts) = len - 1
          /\ \A r \in 1..Len(ex.entry.counts) : ex.entry.counts[r] = r + 1
      BY <1>2, <1>4, LockstepEntry DEF LockLocals
    <3> QED
      BY <1>2, <3>1
  <2> QED
    BY <1>5, <1>9, <2>1 DEF Seeded, SeedFits
<1>13. tree' = IF ex.k < len THEN AddSeed(grow, grow[node].sim, seed) ELSE grow
  BY <1>1, <1>10, <1>12 DEF Sow
<1>14. LockTree(tree', node) /\ (ex.k < len => Stocked(tree', node))
  <2> HIDE DEF seed, len
  <2>1. /\ LockTree(AddSeed(grow, grow[node].sim, seed), node)
        /\ Stocked(AddSeed(grow, grow[node].sim, seed), node)
    BY <1>1, <1>8, <1>9, <1>11, SowLock
  <2> QED
    BY <1>8, <1>13, <2>1
<1>15. /\ ex'.k = ex.k + 1 /\ ex'.node = node /\ ex'.entry = ex.entry
       /\ ex'.region = ex.k - 1 /\ (ex'.exact <=> TRUE)
  <2>1. ex' = [ex EXCEPT !.k = @ + 1, !.node = node, !.newNode = Fresh(t, ex),
                         !.region = Match(ex).region, !.exact = Match(ex).exact]
    BY DEF Dye, t, node
  <2> QED
    BY <1>2, <1>5, <2>1 DEF Frame
<1>16. failed' = failed /\ pc' = "dye"
  BY DyeGrows
<1>17. LockLocals(ex')
  BY <1>2, <1>4, <1>15 DEF LockLocals
<1>18. LockTree(tree', Last')
  <2>1. CASE ex.k < len
    <3>1. \A n \in DOMAIN tree' : LockNode(tree', n, NoNode)
      BY <1>14, <2>1 DEF LockTree, LockNode
    <3>2. Last' = NoNode
      BY <1>2, <1>15, <2>1 DEF Last
    <3> QED
      BY <3>1, <3>2 DEF LockTree
  <2>2. CASE ex.k = len
    <3>1. Last' = node
      BY <1>2, <1>15, <1>16, <2>2 DEF Last
    <3> QED
      BY <1>14, <3>1
  <2> QED
    BY <1>2, <2>1, <2>2
<1>19. ex'.k <= Len(ex'.entry.codes) => Stocked(tree', ex'.node)
  BY <1>2, <1>14, <1>15
<1> QED
  BY <1>16, <1>17, <1>18, <1>19 DEF InLock, Alive

-----------------------------------------------------------------------------
LEMMA RootSimInTree ==
  ASSUME Inv
  PROVE  /\ Sound(Entries, tree) /\ RootSim \in DOMAIN tree /\ ROOT \in DOMAIN tree
         /\ tree[ROOT].colour = White /\ tree[ROOT].sim = RootSim
BY LenProperties DEF Inv, Sound, ROOT, RootSim

LEMMA InitLock ==
  ASSUME Init
  PROVE  LockInv
<1> DEFINE root == [NewNode(0, NoNode, White, <<0>>) EXCEPT !.sim = RootSim]
           sim == NewNode(SimId, ROOT, Golden, <<0>>)
<1>1. tree = <<root, sim>> /\ pc = "dry" /\ failed = {}
  BY DEF Init, InitialTree
<1>2. sim.seeds = <<>> /\ ~sim.explored
  BY DEF NewNode
<1> HIDE DEF root, sim
<1>3. DOMAIN tree = {ROOT, RootSim} /\ tree[RootSim] = sim
  BY <1>1 DEF ROOT, RootSim
<1>4. ~Fed(tree)
  BY <1>2, <1>3 DEF Fed, HasSeeds
<1>5. UnfedYet
  BY <1>1, <1>2, <1>3 DEF UnfedYet
<1> QED
  BY <1>4, <1>5 DEF LockInv, AllLockstep

(* The first entry, or one more.                                          *)
LEMMA BeginExpansionLock ==
  ASSUME Inv, TrieInv, LockInv, NEW e \in Entries, DryRunEntry(e) \/ FuzzEntry(e)
  PROVE  LockInv'
<1> DEFINE seed == NewSeed(e, 1)
           u == AddSeed(tree, tree[ROOT].sim, seed)
<1>1. /\ pc \in {"dry", "fuzz"} /\ tree' = u /\ pc' = "dye" /\ failed' = failed
      /\ ex' = [entry |-> e, k |-> 2, node |-> ROOT,
                newPath |-> Reach(tree, e.codes) = NoNode, newNode |-> FALSE,
                region |-> 1, exact |-> FALSE, base |-> Len(tree)]
  BY DEF DryRunEntry, FuzzEntry, BeginExpansion
<1>2. /\ Sound(Entries, tree) /\ RootSim \in DOMAIN tree /\ ROOT \in DOMAIN tree
      /\ tree[ROOT].colour = White /\ tree[ROOT].sim = RootSim /\ IsTrie(tree)
  BY RootSimInTree DEF TrieInv
<1>3. seed \in SeedRec(Entries) /\ seed.entry = e
  BY DEF NewSeed, SeedRec
<1>4. ex'.entry = e /\ ex'.k = 2 /\ ex'.node = ROOT /\ ex'.region = 1 /\ ex'.exact = FALSE
  BY <1>1
<1> HIDE DEF seed
<1>5. tree'[RootSim].seeds = Append(tree[RootSim].seeds, seed)
  <2> DEFINE sim == tree[ROOT].sim
  <2>1. sim = RootSim /\ sim \in DOMAIN tree /\ tree' = AddSeed(tree, sim, seed)
    BY <1>1, <1>2
  <2> HIDE DEF sim, u
  <2> DEFINE v == AddSeed(tree, sim, seed)
  <2>2. \A m \in DOMAIN tree :
          v[m].seeds = IF m = sim THEN Append(tree[m].seeds, seed) ELSE tree[m].seeds
    <3>1. Sound(Entries, tree) /\ sim \in DOMAIN tree /\ seed \in SeedRec(Entries)
      BY <1>2, <1>3, <2>1
    <3> QED
      BY <3>1, AddSeedKeeps
  <2> HIDE DEF v
  <2>3. tree' = v
    BY <2>1 DEF v
  <2> QED
    BY <1>2, <2>1, <2>2, <2>3
<1>6. /\ Append(tree[RootSim].seeds, seed) # <<>>
      /\ LET q == Append(tree[RootSim].seeds, seed)
         IN  DOMAIN q # {} /\ Len(q) \in DOMAIN q /\ q[Len(q)] = seed
  <2>1. tree[RootSim].seeds \in Seq(SeedRec(Entries))
    BY <1>2, SeedsOfNode
  <2>2. LET q == Append(tree[RootSim].seeds, seed)
        IN  /\ q \in Seq(SeedRec(Entries)) /\ q # <<>>
            /\ Len(q) = Len(tree[RootSim].seeds) + 1
            /\ q[Len(tree[RootSim].seeds) + 1] = seed
    BY <1>3, <2>1, AppendProperties
  <2>3. Len(tree[RootSim].seeds) \in Nat
    BY <2>1, LenProperties
  <2> DEFINE q == Append(tree[RootSim].seeds, seed)
  <2>4. q \in Seq(SeedRec(Entries)) /\ q # <<>> /\ q[Len(q)] = seed /\ Len(q) >= 1
    BY <2>2, <2>3
  <2> HIDE DEF q
  <2>5. DOMAIN q = 1..Len(q) /\ Len(q) \in Nat
    BY <2>4, LenProperties
  <2>6. Len(q) \in DOMAIN q /\ DOMAIN q # {}
    BY <2>4, <2>5
  <2> QED
    BY <2>4, <2>6 DEF q
<1>7. Fed(tree')
  BY <1>5, <1>6 DEF Fed, HasSeeds
<1>8. AllLockstep(tree') => Lockstep(e)
  <2>1. PICK i : i \in DOMAIN tree'[RootSim].seeds /\ tree'[RootSim].seeds[i] = seed
    BY <1>5, <1>6
  <2> QED
    BY <1>3, <2>1 DEF AllLockstep
<1>9. SeedsStay(tree, tree')
  <2>1. SeedsStay(tree, u)
    BY <1>2, <1>3, AddSeedStays
  <2> QED
    BY <1>1, <2>1
<1> SUFFICES ASSUME AllLockstep(tree') PROVE InLock'
  BY <1>7 DEF LockInv
<1>10. failed = {} /\ LockTree(tree, ROOT)
  <2>1. CASE Fed(tree)
    <3>1. InLock
      BY <1>9, <2>1, SeedsStayFed DEF LockInv
    <3>2. LockTree(tree, NoNode)
      BY <1>1, <3>1 DEF InLock, Last
    <3> QED
      BY <1>2, <3>1, <3>2, LockWider DEF InLock
  <2>2. CASE ~Fed(tree)
    <3>1. UnfedYet
      BY <2>2 DEF LockInv
    <3>2. failed = {} /\ DOMAIN tree = {ROOT, RootSim} /\ ~tree[RootSim].explored
      BY <1>1, <3>1 DEF UnfedYet
    <3>3. tree[RootSim].colour = Golden /\ tree[RootSim].parent = ROOT
      BY <1>2, SimOfWhite
    <3>4. IsLeaf(tree, ROOT)
      <4>1. tree[ROOT].parent # ROOT
        BY <1>2 DEF Sound, NoNode, ROOT
      <4> QED
        BY <3>2, <3>3, <4>1 DEF IsLeaf, Children
    <3>5. LockNode(tree, ROOT, ROOT)
      BY <1>2, <3>4 DEF LockNode, White, Golden, Black
    <3>6. LockNode(tree, RootSim, ROOT)
      BY <3>2, <3>3 DEF LockNode, White, Golden, Black
    <3> QED
      BY <3>2, <3>5, <3>6 DEF LockTree
  <2> QED
    BY <2>1, <2>2
<1>11. LockTree(tree', ROOT) /\ Stocked(tree', ROOT)
  <2>1. LockTree(u, ROOT) /\ Stocked(u, ROOT)
    BY <1>2, <1>3, <1>10, SowLock
  <2> QED
    BY <1>1, <2>1
<1>12. LockTree(tree', Last')
  BY <1>11 DEF LockTree, LockNode
<1>13. LockLocals(ex')
  BY <1>4, <1>8 DEF LockLocals
<1> QED
  BY <1>1, <1>4, <1>10, <1>11, <1>12, <1>13 DEF InLock, Alive

(* The end of Expansion gives a leaf up.                                  *)
LEMMA FinishExpansionLock ==
  ASSUME Plain, Inv, TrieInv, LockInv, FinishExpansion
  PROVE  LockInv'
<1> DEFINE n        == ex.node
           leaf     == IsLeaf(tree, n)
           marked   == SetExplored(tree, n, leaf)
           credited == CreditPath(marked, n)
           paid     == CreditSeed(credited, cur, curSeed)
<1>1. /\ tree' \in {marked, credited, paid} /\ failed' = failed
      /\ pc = "dye" /\ pc' \in {"dry", "fuzz", "crashed"} /\ ex.k > Len(ex.entry.codes)
      /\ (pc' = "crashed" => tree[n].parent = NoNode)
  <2>1. IF tree[n].parent = NoNode
        THEN tree' = marked /\ pc' = "crashed"
        ELSE /\ tree' = CASE ~ex.newPath -> marked
                          [] ex.newPath /\ round = 0 -> credited
                          [] ex.newPath /\ round > 0 -> paid
             /\ pc' = IF round = 0 THEN "dry" ELSE "fuzz"
    BY DEF FinishExpansion, Parent
  <2>2. /\ pc = "dye" /\ round \in Nat /\ ex.newPath \in BOOLEAN
        /\ failed' = failed /\ ex.k > Len(ex.entry.codes)
    BY DEF FinishExpansion, Inv, TypeOK, Frame
  <2> HIDE DEF n, marked, credited, paid
  <2> QED
    BY <2>1, <2>2
<1>2. /\ Sound(Entries, tree) /\ n \in DOMAIN tree /\ cur \in DOMAIN tree /\ curSeed \in Nat
      /\ IsTrie(tree) /\ RootSim \in DOMAIN tree
  BY <1>1, RootSimInTree DEF Inv, TypeOK, TrieInv
<1>3. leaf \in BOOLEAN
  BY DEF IsLeaf
<1>4. n \in ResponseNodes(tree) /\ tree[n].path = SubSeq(ex.entry.codes, 1, ex.k - 1)
      /\ ex.k \in 2..(Len(ex.entry.codes) + 1) /\ ex.entry \in Entries
  BY <1>1 DEF TrieInv, FrameTrie, Inv, TypeOK, Frame
<1> HIDE DEF n, leaf
<1>5. \A m \in DOMAIN tree : marked[m].explored = IF m = n THEN leaf ELSE tree[m].explored
  BY <1>2, <1>3, SetExploredKeeps
<1>6. Sound(Entries, marked) /\ DOMAIN marked = DOMAIN tree
  BY <1>2, <1>3, SetExploredSound
<1> HIDE DEF marked
<1>7. SameExplored(marked, marked) /\ SameExplored(marked, credited) /\ DOMAIN credited = DOMAIN marked
  BY <1>6, SameSelf, CreditPathKeeps DEF OnlyCounts, SameShape
<1>8. Sound(Entries, credited) /\ DOMAIN credited = DOMAIN tree
  BY <1>6, CreditPathSound DEF Succeeds
<1> HIDE DEF credited
<1>9. SameExplored(credited, paid)
  BY <1>2, <1>8, CreditSeedKeeps DEF OnlyCounts
<1> HIDE DEF paid
<1>10. SameExplored(marked, tree')
  BY <1>1, <1>7, <1>9 DEF SameExplored
<1>11. SameShape(tree, tree') /\ SameSeeds(tree, tree')
  BY FinishKeeps
<1>12. \A m \in DOMAIN tree : tree'[m].explored = IF m = n THEN leaf ELSE tree[m].explored
  BY <1>5, <1>6, <1>10 DEF SameExplored
<1>13. /\ SeedsStay(tree, tree') /\ (Fed(tree') <=> Fed(tree))
       /\ \A m \in DOMAIN tree : tree[m].colour = White => (Stocked(tree', m) <=> Stocked(tree, m))
       /\ \A m \in DOMAIN tree : IsLeaf(tree', m) <=> IsLeaf(tree, m)
  BY <1>2, <1>11, SameStock
<1>14. Fed(tree) /\ Fed(tree')
  BY <1>1, <1>13 DEF LockInv, UnfedYet
<1> SUFFICES ASSUME AllLockstep(tree') PROVE InLock'
  BY <1>14 DEF LockInv
<1>15. InLock
  BY <1>13, <1>14, SeedsStayFed DEF LockInv
<1>16. failed = {} /\ LockTree(tree, n) /\ Lockstep(ex.entry)
  BY <1>1, <1>15 DEF InLock, Last, LockLocals, n
<1>17. pc' # "crashed"
  <2>1. n # ROOT
    <3> DEFINE codes == ex.entry.codes
    <3>1. codes \in Seq(Nat) /\ Len(codes) \in Nat /\ Len(codes) >= 2
      BY <1>4, <1>16, EntryType, LockstepEntry
    <3>2. ex.k - 1 = Len(codes)
      BY <1>1, <1>4, <3>1
    <3>3. tree[n].path = SubSeq(codes, 1, Len(codes))
      BY <1>4, <3>2
    <3> HIDE DEF codes
    <3>4. Len(tree[n].path) >= 2
      BY <3>1, <3>3, PrefixLength
    <3>5. tree[ROOT].path = <<0>> /\ Len(<<0>>) = 1
      BY <1>2 DEF IsTrie
    <3> HIDE DEF n
    <3>6. SUFFICES ASSUME n = ROOT PROVE FALSE
      OBVIOUS
    <3>7. tree[n].path = <<0>>
      BY <3>5, <3>6
    <3>8. Len(tree[n].path) = 1
      BY <3>5, <3>7
    <3> QED
      BY <3>4, <3>8
  <2>2. tree[n].parent # NoNode
    <3>1. tree[n].parent \in DOMAIN tree
      BY <1>2, <2>1 DEF Sound
    <3> QED
      BY <1>2, <3>1, LenProperties DEF Sound, NoNode
  <2> QED
    BY <1>1, <2>2
<1>18. LockTree(tree', NoNode)
  <2>1. DOMAIN tree' = DOMAIN tree
    BY <1>11 DEF SameShape
  <2>2. ASSUME NEW m \in DOMAIN tree PROVE LockNode(tree', m, NoNode)
    <3>1. LockNode(tree, m, n) /\ tree'[m].colour = tree[m].colour
      BY <1>11, <1>16 DEF LockTree, SameShape
    <3>2. CASE m # n
      BY <1>12, <1>13, <3>1, <3>2 DEF LockNode
    <3>3. CASE m = n
      <4>1. tree[n].colour = White
        BY <1>2, <1>4, <1>16, WhiteInLock
      <4>2. tree'[n].explored = leaf /\ (leaf <=> IsLeaf(tree, n))
        BY <1>2, <1>12 DEF leaf
      <4>3. Stocked(tree', n) \/ (IsLeaf(tree', n) /\ tree'[n].explored)
        BY <1>2, <1>13, <3>1, <3>3, <4>1, <4>2 DEF LockNode
      <4> QED
        BY <3>1, <3>3, <4>1, <4>3 DEF LockNode, White, Golden, Black
    <3> QED
      BY <3>2, <3>3
  <2> QED
    BY <2>1, <2>2 DEF LockTree
<1> QED
  BY <1>1, <1>16, <1>17, <1>18 DEF InLock, Alive, Last

-----------------------------------------------------------------------------
(* A step of the main loop or of Selection that changes counters only.    *)
LEMMA CountingLock ==
  ASSUME Inv, TrieInv, LockInv, OnlyCounts(tree, tree'),
         pc \notin {"dye", "aborted", "crashed", "climb"}, pc' # "dye",
         AllLockstep(tree) => failed' = failed /\ pc' \notin {"aborted", "crashed", "climb"},
         ~Fed(tree) => /\ pc' \notin {"seed", "m2", "fuzz", "dye"}
                       /\ (pc' = "dry" => pc = "dry" /\ failed' = failed)
  PROVE  LockInv'
<1>1. IsTrie(tree) /\ RootSim \in DOMAIN tree
  BY RootSimInTree DEF TrieInv
<1>2. /\ SameShape(tree, tree') /\ SameSeeds(tree, tree') /\ DOMAIN tree' = DOMAIN tree
      /\ \A m \in DOMAIN tree : tree'[m].explored = tree[m].explored
      /\ \A m \in DOMAIN tree : tree'[m].colour = tree[m].colour
  BY DEF OnlyCounts, SameShape, SameExplored
<1>3. /\ SeedsStay(tree, tree') /\ (Fed(tree') <=> Fed(tree))
      /\ \A m \in DOMAIN tree : tree[m].colour = White => (Stocked(tree', m) <=> Stocked(tree, m))
      /\ \A m \in DOMAIN tree : IsLeaf(tree', m) <=> IsLeaf(tree, m)
  BY <1>1, <1>2, SameStock
<1>4. ~Fed(tree') => UnfedYet'
  BY <1>1, <1>2, <1>3 DEF LockInv, UnfedYet
<1>5. ASSUME AllLockstep(tree') PROVE InLock'
  <2>1. Fed(tree)
    BY <1>3, <1>5 DEF AllLockstep
  <2>2. AllLockstep(tree) /\ InLock
    BY <1>3, <1>5, <2>1, SeedsStayFed DEF LockInv
  <2>3. LockTree(tree, NoNode)
    BY <2>2 DEF InLock, Last
  <2>4. \A m \in DOMAIN tree : LockNode(tree', m, NoNode)
    BY <1>2, <1>3, <2>3 DEF LockTree, LockNode
  <2>5. LockTree(tree', Last')
    BY <1>2, <2>4 DEF LockTree, Last
  <2> QED
    BY <2>2, <2>5 DEF InLock, Alive
<1> QED
  BY <1>4, <1>5 DEF LockInv

LEMMA BeginSelectionLock ==
  ASSUME Inv, TrieInv, LockInv, BeginSelection
  PROVE  LockInv'
<1> DEFINE u == CountSelection(tree, ROOT)
<1>1. /\ pc = "main" /\ pc' = "select" /\ tree' = u /\ failed' = failed
  BY DEF BeginSelection
<1>2. Sound(Entries, tree) /\ ROOT \in DOMAIN tree
  BY RootSimInTree
<1>3. OnlyCounts(tree, u)
  BY <1>2, CountSelectionKeeps
<1> HIDE DEF u
<1> QED
  BY <1>1, <1>3, CountingLock

(* With a child worth going on from, the best child is one.               *)
LEMMA BestChildLives ==
  ASSUME NEW E, NEW t, Sound(E, t), NEW n, NEW s \in Children(t, n), ~NegInf(t, s),
         NEW c \in BestChildren(t, n)
  PROVE  ~NegInf(t, c)
<1> DEFINE kids  == Children(t, n)
           live  == {d \in kids : ~NegInf(t, d)}
           fresh == {d \in live : t[d].selected = 0}
           best  == {d \in live : \A d2 \in live : ~Dominated(t[d], t[d2])}
<1>1. IsFiniteSet(kids)
  <2>1. DOMAIN t = 1..Len(t) /\ Len(t) \in Nat
    BY LenProperties DEF Sound
  <2>2. IsFiniteSet(1..Len(t))
    BY <2>1, FS_Interval
  <2>3. kids \in SUBSET (1..Len(t))
    BY <2>1 DEF Children
  <2> HIDE DEF kids
  <2> QED
    BY <2>2, <2>3, FS_Subset
<1>2. CASE Cardinality(kids) = 1
  <2>1. \E x : kids = {x}
    BY <1>1, <1>2, FS_Singleton
  <2>2. c \in kids
    BY BestChildrenAreChildren
  <2>3. c = s
    BY <2>1, <2>2
  <2> QED
    BY <2>3
<1>3. CASE Cardinality(kids) # 1
  <2>1. BestChildren(t, n) = CASE Cardinality(kids) = 1 -> kids
                               [] fresh # {} -> fresh
                               [] live # {} -> best
                               [] OTHER -> kids
    BY DEF BestChildren
  <2>2. live # {} /\ fresh \subseteq live /\ best \subseteq live
    OBVIOUS
  <2> HIDE DEF kids, fresh, best
  <2>3. BestChildren(t, n) \subseteq live
    <3> HIDE DEF live
    <3> QED
      BY <1>3, <2>1, <2>2
  <2> QED
    BY <2>3
<1> QED
  BY <1>2, <1>3

LEMMA DescendLock ==
  ASSUME Inv, TrieInv, SelInv, LockInv, Descend
  PROVE  LockInv'
<1>1. PICK c \in BestChildren(tree, cur) :
        /\ cur' = c
        /\ tree' = CountSelection(tree, c)
        /\ Check(When(NegInf(tree, c) /\ tree[Parent(tree, c)].colour # Black,
                      "best_child_score"),
                 CASE NegInf(tree, c) -> "climb"
                   [] ~NegInf(tree, c) /\ tree[c].colour = Golden -> "seed"
                   [] OTHER -> "select")
  BY DEF Descend
<1> DEFINE u    == CountSelection(tree, c)
           bad  == When(NegInf(tree, c) /\ tree[Parent(tree, c)].colour # Black,
                        "best_child_score")
           next == CASE NegInf(tree, c) -> "climb"
                     [] ~NegInf(tree, c) /\ tree[c].colour = Golden -> "seed"
                     [] OTHER -> "select"
<1>2. pc = "select" /\ tree' = u /\ Check(bad, next)
  BY <1>1 DEF Descend
<1>3. /\ Sound(Entries, tree) /\ IsTrie(tree) /\ c \in DOMAIN tree /\ RootSim \in DOMAIN tree
      /\ cur \in DOMAIN tree /\ tree[ROOT].colour = White
  BY <1>2, BestChildrenAreChildren, RootSimInTree DEF Inv, TypeOK, TrieInv, Children
<1>4. OnlyCounts(tree, u)
  BY <1>3, CountSelectionKeeps
<1>5. /\ next \in {"climb", "seed", "select"}
      /\ (next = "seed" => ~NegInf(tree, c) /\ tree[c].colour = Golden)
      /\ (~NegInf(tree, c) => next # "climb" /\ bad = {})
  <2>1. ~NegInf(tree, c) => bad = {}
    BY DEF When
  <2> HIDE DEF bad
  <2> QED
    BY <2>1
<1> HIDE DEF next, bad
<1>6. pc' \in {"aborted", next} /\ (bad = {} => failed' = failed /\ pc' = next)
  BY <1>2 DEF Check
<1> HIDE DEF u
<1>7. ASSUME AllLockstep(tree) PROVE failed' = failed /\ pc' \notin {"aborted", "crashed", "climb"}
  <2>1. LockTree(tree, NoNode)
    BY <1>2, <1>7 DEF LockInv, InLock, Last
  <2>2. tree[cur].colour # Golden /\ ~NegInf(tree, cur)
    BY <1>2 DEF SelInv
  <2>3. tree[cur].colour = White
    BY <1>3, <2>1, <2>2, WhiteInLock DEF ResponseNodes
  <2>4. Stocked(tree, cur)
    <3>1. ~tree[cur].explored /\ cur # NoNode
      BY <1>3, <2>2, LenProperties DEF NegInf, Sound, NoNode
    <3>2. LockNode(tree, cur, NoNode)
      BY <1>3, <2>1 DEF LockTree
    <3> QED
      BY <2>3, <3>1, <3>2 DEF LockNode
  <2> DEFINE s == tree[cur].sim
  <2>5. s \in DOMAIN tree /\ tree[s].colour = Golden /\ tree[s].parent = cur
    BY <1>3, <2>3, SimOfWhite
  <2>6. HasSeeds(tree, s)
    BY <2>4 DEF Stocked
  <2> HIDE DEF s
  <2>7. tree[s].seeds # <<>> /\ ~tree[s].explored
    BY <1>3, <2>1, <2>5, <2>6, SeedsOfNode DEF LockTree, LockNode
  <2>8. s \in Children(tree, cur) /\ ~NegInf(tree, s)
    BY <2>5, <2>7 DEF Children, NegInf
  <2>9. ~NegInf(tree, c)
    BY <1>3, <2>8, BestChildLives
  <2> QED
    BY <1>5, <1>6, <2>9
<1>8. ASSUME ~Fed(tree) PROVE pc' \notin {"seed", "m2", "fuzz", "dye", "dry"}
  <2>1. DOMAIN tree = {ROOT, RootSim}
    BY <1>8 DEF LockInv, UnfedYet
  <2>2. tree[RootSim].seeds = <<>>
    BY <1>3, <1>8, SeedsOfNode DEF Fed
  <2>3. next # "seed"
    BY <1>3, <1>5, <2>1, <2>2 DEF NegInf, White, Golden
  <2> QED
    BY <1>5, <1>6, <2>3
<1>9. pc' # "dye"
  BY <1>5, <1>6
<1> QED
  BY <1>2, <1>4, <1>7, <1>8, <1>9, CountingLock

(* Selection climbs only where some response did not complete one code.   *)
LEMMA ClimbLock ==
  ASSUME Inv, TrieInv, LockInv, Climb
  PROVE  LockInv'
<1> DEFINE p    == Parent(tree, cur)
           done == IsFullyExplored(tree, p)
           next == IF done THEN "climb" ELSE "select"
           bad  == When((~tree[p].explored /\ tree[p].colour = Black)
                          /\ Cardinality(Children(tree, p)) # 1, "one_child")
           b    == TRUE
           u    == SetExplored(tree, p, b)
<1>1. /\ pc = "climb" /\ Check(bad, next)
      /\ tree' = IF done /\ pc' # "aborted" THEN u ELSE tree
  BY DEF Climb
<1>2. /\ Sound(Entries, tree) /\ IsTrie(tree) /\ cur \in DOMAIN tree /\ cur # ROOT
      /\ RootSim \in DOMAIN tree
  BY <1>1, RootSimInTree DEF Inv, TypeOK, TrieInv
<1>3. p \in DOMAIN tree /\ b \in BOOLEAN /\ p \in ResponseNodes(tree)
  <2>1. p \in ResponseNodes(tree)
    <3>1. CASE cur \in ResponseNodes(tree)
      BY <1>2, <3>1 DEF IsTrie, Extends, Parent
    <3>2. CASE cur \in SimulationNodes(tree)
      BY <1>2, <3>2 DEF IsTrie, Simulates, Parent
    <3> QED
      BY <1>2, <3>1, <3>2 DEF SimulationNodes
  <2> QED
    BY <2>1 DEF ResponseNodes
<1>4. next \in {"climb", "select"}
  OBVIOUS
<1> HIDE DEF p, done, next, bad, b
<1>5. pc' \in {"aborted", "climb", "select"}
  BY <1>1, <1>4 DEF Check
<1>6. /\ SameShape(tree, u) /\ SameSeeds(tree, u)
      /\ \A m \in DOMAIN tree : u[m].explored = IF m = p THEN b ELSE tree[m].explored
  BY <1>2, <1>3, SetExploredKeeps
<1> HIDE DEF u
<1>7. SameShape(tree, tree) /\ SameSeeds(tree, tree)
  BY SameSelf DEF OnlyCounts
<1>8. /\ SameShape(tree, tree') /\ SameSeeds(tree, tree')
      /\ \A m \in DOMAIN tree \ {p} : tree'[m].explored = tree[m].explored
  BY <1>1, <1>6, <1>7
<1>9. SeedsStay(tree, tree') /\ (Fed(tree') <=> Fed(tree))
  BY <1>2, <1>8, SameStock
<1>10. ~AllLockstep(tree')
  <2>1. ~AllLockstep(tree)
    BY <1>1 DEF LockInv, InLock
  <2> QED
    BY <1>9, <2>1, SeedsStayFed DEF AllLockstep
<1>11. ASSUME ~Fed(tree) PROVE UnfedYet'
  <2>1. UnfedYet
    BY <1>11 DEF LockInv
  <2>2. p # RootSim
    <3>1. tree[RootSim].colour = Golden
      BY <1>2, RootSimInTree, SimOfWhite
    <3> QED
      BY <1>3, <3>1 DEF ResponseNodes
  <2>3. DOMAIN tree' = DOMAIN tree
    BY <1>8 DEF SameShape
  <2> QED
    BY <1>2, <1>5, <1>8, <2>1, <2>2, <2>3 DEF UnfedYet
<1> QED
  BY <1>9, <1>10, <1>11 DEF LockInv

LEMMA SelectSeedLock ==
  ASSUME Inv, TrieInv, LockInv, SelectSeed
  PROVE  LockInv'
<1>1. PICK s \in BestSeeds(tree, cur) : tree' = CountSeedSelection(tree, cur, s)
  BY DEF SelectSeed
<1> DEFINE u == CountSeedSelection(tree, cur, s)
<1>2. pc = "seed" /\ pc' = "m2" /\ tree' = u /\ failed' = failed
  BY <1>1 DEF SelectSeed
<1>3. Sound(Entries, tree) /\ cur \in DOMAIN tree
  BY <1>2 DEF Inv, TypeOK
<1>4. OnlyCounts(tree, u)
  BY <1>3, CountSeedSelectionKeeps
<1> HIDE DEF u
<1>5. Fed(tree)
  BY <1>2 DEF LockInv, UnfedYet
<1> QED
  BY <1>2, <1>4, <1>5, CountingLock

(* find_M2_region fails no assertion.                                     *)
LEMMA FindM2Passes ==
  ASSUME Plain, Inv, TrieInv, FindM2
  PROVE  failed' = failed /\ pc' = "fuzz" /\ pc = "m2" /\ tree' = tree
<1> DEFINE names == {"m2_count", "m2_path_len", "m2_path"}
<1>1. \E bad : bad \subseteq names /\ Check(bad, "fuzz")
  <2> DEFINE seed  == tree[cur].seeds[curSeed]
             e     == seed.entry
             start == seed.region + 1
             count == M2Count(e, start, FuzzM3)
             path  == tree[cur].path
             span  == (Len(path) + 3) \div 4
             few   == When(count < 1, "m2_count")
             short == When(e.counts[seed.region] # Len(path), "m2_path_len")
             apart == When(SubSeq(path, 1, span) # SubSeq(e.codes, 1, span), "m2_path")
             bad   == few \cup short \cup apart
  <2>1. IF tree[cur].parent = ROOT THEN Check({}, "fuzz") ELSE Check(bad, "fuzz")
    BY DEF FindM2, Parent
  <2>2. few \subseteq names /\ short \subseteq names /\ apart \subseteq names
    BY WhenSmall, Zenon DEF names
  <2> HIDE DEF few, short, apart, names
  <2>3. bad \subseteq names /\ {} \subseteq names
    BY <2>2
  <2> HIDE DEF bad
  <2> QED
    BY <2>1, <2>3
<1>2. PICK bad : bad \subseteq names /\ Check(bad, "fuzz")
  BY <1>1
<1>3. OnlyKnownFailures'
  BY FindM2Trie DEF TrieInv
<1>4. bad = {}
  BY <1>2, <1>3 DEF Check, OnlyKnownFailures
<1> QED
  BY <1>2, <1>4 DEF Check, FindM2

LEMMA QuietLock ==
  ASSUME Plain, Inv, TrieInv, LockInv, FindM2 \/ StartFuzzing \/ EndFuzz \/ Stop
  PROVE  LockInv'
<1>1. tree' = tree /\ failed' = failed
  BY FindM2Passes DEF StartFuzzing, EndFuzz, Stop
<1>2. \/ pc = "m2" /\ pc' = "fuzz"
      \/ pc = "dry" /\ pc' = "main"
      \/ pc = "fuzz" /\ pc' = "main"
      \/ pc \in {"dry", "main"} /\ pc' = "stopped"
  BY FindM2Passes DEF StartFuzzing, EndFuzz, Stop
<1>3. OnlyCounts(tree, tree')
  BY <1>1, SameSelf
<1>4. pc \in {"m2", "fuzz"} => Fed(tree)
  BY DEF LockInv, UnfedYet
<1> QED
  BY <1>1, <1>2, <1>3, <1>4, CountingLock

LEMMA StutterLock ==
  ASSUME LockInv, UNCHANGED vars
  PROVE  LockInv'
<1>1. tree' = tree /\ pc' = pc /\ ex' = ex /\ failed' = failed
  BY DEF vars
<1> QED
  BY <1>1 DEF LockInv, InLock, UnfedYet, Last, Alive

LEMMA StepLock ==
  ASSUME Plain, Inv, TrieInv, SelInv, LockInv, [Next]_vars
  PROVE  LockInv'
<1>1. ASSUME NEW e \in Entries, DryRunEntry(e) \/ FuzzEntry(e) PROVE LockInv'
  BY <1>1, BeginExpansionLock
<1>2. CASE Dye
  <2>1. SeedsStay(tree, tree')
    BY <1>2, DyeStays
  <2>2. Fed(tree)
    BY <1>2 DEF LockInv, UnfedYet, Dye
  <2>3. Fed(tree') /\ (AllLockstep(tree') => InLock)
    BY <2>1, <2>2, SeedsStayFed DEF LockInv
  <2> QED
    BY <1>2, <2>3, DyeLock DEF LockInv
<1>3. CASE FinishExpansion
  BY <1>3, FinishExpansionLock
<1>4. CASE BeginSelection
  BY <1>4, BeginSelectionLock
<1>5. CASE Descend
  BY <1>5, DescendLock
<1>6. CASE Climb
  BY <1>6, ClimbLock
<1>7. CASE SelectSeed
  BY <1>7, SelectSeedLock
<1>8. CASE FindM2 \/ StartFuzzing \/ EndFuzz \/ Stop
  BY <1>8, QuietLock
<1>9. CASE Terminated \/ UNCHANGED vars
  BY <1>9, StutterLock DEF Terminated
<1> QED
  BY <1>1, <1>2, <1>3, <1>4, <1>5, <1>6, <1>7, <1>8, <1>9 DEF Next

(* log_assert: only the two assertions about the scores of children can     *)
(* fail, and as long as every response has completed exactly one code none  *)
(* does and the process goes on, whatever is selected.                      *)
THEOREM AssertionsAlwaysHold ==
  ASSUME Plain
  PROVE  Spec => []AssertionsHold
<1> DEFINE AllInv == Inv /\ TrieInv /\ SelInv /\ LockInv
<1>1. Init => AllInv
  BY InitInv, InitTrie, InitSel, InitLock
<1>2. AllInv /\ [Next]_vars => AllInv'
  BY StepInv, StepTrie, StepSel, StepLock
<1>3. AllInv => AssertionsHold
  <2> SUFFICES ASSUME AllInv PROVE AssertionsHold
    OBVIOUS
  <2>1. tree[RootSim].seeds # <<>> => Fed(tree)
    BY RootSimInTree, SeedsOfNode DEF Fed
  <2>2. NoFailure
    BY <2>1 DEF NoFailure, LockInv, AllLockstep, InLock
  <2> QED
    BY <2>2 DEF AssertionsHold, TrieInv
<1> QED
  BY <1>1, <1>2, <1>3, PTL DEF Spec

-----------------------------------------------------------------------------
(* The counters of the seeds of a node *)

SelSum(q) == MapThenSumSet(LAMBDA i : q[i].selected, DOMAIN q)
FoundSum(q) == MapThenSumSet(LAMBDA i : q[i].discovered, DOMAIN q)

SelOf(q) == [i \in DOMAIN q |-> q[i].selected]
FoundOf(q) == [i \in DOMAIN q |-> q[i].discovered]

(* What MapThenSumSet computes is the sum, if it computes it as Sums says.  *)
LEMMA FixpointIsSum ==
  ASSUME NEW f, NEW S, IsFiniteSet(S), NEW i, Adds(f, S, i)
  PROVE  SumOf(f, S) = i[S]
<1>1. PICK g : Adds(f, S, g) /\ SumOf(f, S) = g[S]
  BY SumByAdds
<1>2. g[S] = i[S]
  BY <1>1, AddsAgree
<1> QED
  BY <1>1, <1>2

LEMMA SelSumIsSum ==
  ASSUME NEW q, IsFiniteSet(DOMAIN q)
  PROVE  SelSum(q) = SumOf(SelOf(q), DOMAIN q)
<1> DEFINE S == DOMAIN q
           f == SelOf(q)
           B(h) == [s \in SUBSET S |-> IF s = {} THEN 0 ELSE q[Pick(s)].selected + h[s \ {Pick(s)}]]
           i == CHOOSE h : h = B(h)
<1>1. SelSum(q) = i[S]
  BY Zenon DEF SelSum, MapThenSumSet, MapThenFoldSet, Pick
<1>2. \A h : Body(f, S, h) = B(h)
  <2> SUFFICES ASSUME NEW h PROVE Body(f, S, h) = B(h)
    OBVIOUS
  <2>1. \A s \in SUBSET S : s # {} => f[Pick(s)] = q[Pick(s)].selected
    BY PickIsIn DEF SelOf
  <2> HIDE DEF f
  <2> QED
    BY <2>1 DEF Body
<1>3. \E h : h = B(h)
  <2>1. \E h : Adds(f, S, h)
    BY AddsExists
  <2> HIDE DEF B, f, S
  <2> QED
    BY <1>2, <2>1 DEF Adds
<1>4. i = B(i)
  <2> HIDE DEF B
  <2> QED
    BY <1>3, Zenon
<1>5. Adds(f, S, i)
  BY <1>2, <1>4, Zenon DEF Adds
<1> HIDE DEF i, f, S
<1>6. IsFiniteSet(S)
  BY DEF S
<1>7. SumOf(f, S) = i[S]
  BY <1>5, <1>6, FixpointIsSum
<1> QED
  BY <1>1, <1>7 DEF f, S

LEMMA FoundSumIsSum ==
  ASSUME NEW q, IsFiniteSet(DOMAIN q)
  PROVE  FoundSum(q) = SumOf(FoundOf(q), DOMAIN q)
<1> DEFINE S == DOMAIN q
           f == FoundOf(q)
           B(h) == [s \in SUBSET S |-> IF s = {} THEN 0 ELSE q[Pick(s)].discovered + h[s \ {Pick(s)}]]
           i == CHOOSE h : h = B(h)
<1>1. FoundSum(q) = i[S]
  BY Zenon DEF FoundSum, MapThenSumSet, MapThenFoldSet, Pick
<1>2. \A h : Body(f, S, h) = B(h)
  <2> SUFFICES ASSUME NEW h PROVE Body(f, S, h) = B(h)
    OBVIOUS
  <2>1. \A s \in SUBSET S : s # {} => f[Pick(s)] = q[Pick(s)].discovered
    BY PickIsIn DEF FoundOf
  <2> HIDE DEF f
  <2> QED
    BY <2>1 DEF Body
<1>3. \E h : h = B(h)
  <2>1. \E h : Adds(f, S, h)
    BY AddsExists
  <2> HIDE DEF B, f, S
  <2> QED
    BY <1>2, <2>1 DEF Adds
<1>4. i = B(i)
  <2> HIDE DEF B
  <2> QED
    BY <1>3, Zenon
<1>5. Adds(f, S, i)
  BY <1>2, <1>4, Zenon DEF Adds
<1> HIDE DEF i, f, S
<1>6. IsFiniteSet(S)
  BY DEF S
<1>7. SumOf(f, S) = i[S]
  BY <1>5, <1>6, FixpointIsSum
<1> QED
  BY <1>1, <1>7 DEF f, S

LEMMA SeedList ==
  ASSUME NEW E, NEW q \in Seq(SeedRec(E))
  PROVE  /\ IsFiniteSet(DOMAIN q) /\ DOMAIN q = 1..Len(q) /\ Len(q) \in Nat
         /\ \A i \in DOMAIN q : /\ q[i] \in SeedRec(E)
                               /\ SelOf(q)[i] = q[i].selected /\ FoundOf(q)[i] = q[i].discovered
                               /\ SelOf(q)[i] \in Nat /\ FoundOf(q)[i] \in Nat
<1>1. DOMAIN q = 1..Len(q) /\ Len(q) \in Nat /\ \A i \in DOMAIN q : q[i] \in SeedRec(E)
  BY LenProperties, ElementOfSeq
<1>2. IsFiniteSet(DOMAIN q)
  BY <1>1, FS_Interval
<1>3. \A i \in DOMAIN q : q[i].selected \in Nat /\ q[i].discovered \in Nat
  BY <1>1 DEF SeedRec
<1> QED
  BY <1>1, <1>2, <1>3 DEF SelOf, FoundOf

LEMMA SeedSums ==
  ASSUME NEW E, NEW q \in Seq(SeedRec(E))
  PROVE  SelSum(q) \in Nat /\ FoundSum(q) \in Nat
<1>1. /\ IsFiniteSet(DOMAIN q)
      /\ \A i \in DOMAIN q : SelOf(q)[i] \in Nat /\ FoundOf(q)[i] \in Nat
  BY SeedList
<1>2. SumOf(SelOf(q), DOMAIN q) \in Nat /\ SumOf(FoundOf(q), DOMAIN q) \in Nat
  BY <1>1, SumNat
<1> QED
  BY <1>1, <1>2, SelSumIsSum, FoundSumIsSum

LEMMA NoSeeds == SelSum(<<>>) = 0 /\ FoundSum(<<>>) = 0
<1>1. DOMAIN <<>> = {} /\ IsFiniteSet({})
  BY FS_EmptySet
<1> DEFINE e == <<>>
<1>2. IsFiniteSet(DOMAIN e) /\ DOMAIN e = {}
  BY <1>1
<1> HIDE DEF e
<1>3. SelSum(e) = SumOf(SelOf(e), DOMAIN e) /\ FoundSum(e) = SumOf(FoundOf(e), DOMAIN e)
  BY <1>2, SelSumIsSum, FoundSumIsSum
<1>4. SumOf(SelOf(e), {}) = 0 /\ SumOf(FoundOf(e), {}) = 0
  BY SumNone
<1> QED
  BY <1>2, <1>3, <1>4 DEF e

(* A new seed was neither selected nor credited.                           *)
LEMMA SeedAdded ==
  ASSUME NEW E, NEW q \in Seq(SeedRec(E)), NEW x \in SeedRec(E), x.selected = 0, x.discovered = 0
  PROVE  SelSum(Append(q, x)) = SelSum(q) /\ FoundSum(Append(q, x)) = FoundSum(q)
<1> DEFINE p == Append(q, x)
           S == DOMAIN q
           T == DOMAIN p
<1>1. p \in Seq(SeedRec(E)) /\ Len(p) = Len(q) + 1 /\ p[Len(q) + 1] = x
      /\ \A i \in 1..Len(q) : p[i] = q[i]
  BY AppendProperties
<1> HIDE DEF p
<1>2. /\ IsFiniteSet(T) /\ T = 1..Len(p) /\ S = 1..Len(q) /\ Len(q) \in Nat /\ IsFiniteSet(S)
      /\ \A i \in T : /\ SelOf(p)[i] = p[i].selected /\ FoundOf(p)[i] = p[i].discovered
                      /\ SelOf(p)[i] \in Nat /\ FoundOf(p)[i] \in Nat
      /\ \A i \in S : SelOf(q)[i] = q[i].selected /\ FoundOf(q)[i] = q[i].discovered
  BY <1>1, SeedList
<1>3. /\ S \subseteq T /\ T \ S = {Len(q) + 1}
      /\ \A i \in T : SelOf(p)[i] \in Int /\ FoundOf(p)[i] \in Int
  BY <1>1, <1>2
<1> HIDE DEF S, T
<1>4. \A i \in S : SelOf(p)[i] = SelOf(q)[i] /\ FoundOf(p)[i] = FoundOf(q)[i]
  BY <1>1, <1>2, <1>3
<1>5. \A i \in T \ S : SelOf(p)[i] = 0 /\ FoundOf(p)[i] = 0
  BY <1>1, <1>2, <1>3
<1>6. SumOf(SelOf(p), T) = SumOf(SelOf(q), S) /\ SumOf(FoundOf(p), T) = SumOf(FoundOf(q), S)
  <2>1. SumOf(SelOf(p), T) = SumOf(SelOf(q), S)
    BY <1>2, <1>3, <1>4, <1>5, SumExtend
  <2>2. SumOf(FoundOf(p), T) = SumOf(FoundOf(q), S)
    BY <1>2, <1>3, <1>4, <1>5, SumExtend
  <2> QED
    BY <2>1, <2>2
<1>7. /\ SelSum(p) = SumOf(SelOf(p), T) /\ FoundSum(p) = SumOf(FoundOf(p), T)
      /\ SelSum(q) = SumOf(SelOf(q), S) /\ FoundSum(q) = SumOf(FoundOf(q), S)
  BY <1>2, SelSumIsSum, FoundSumIsSum DEF S, T
<1> QED
  BY <1>6, <1>7 DEF p

(* One seed changes.                                                       *)
LEMMA SeedChanged ==
  ASSUME NEW E, NEW q \in Seq(SeedRec(E)), NEW s \in DOMAIN q, NEW x \in SeedRec(E)
  PROVE  LET p == [q EXCEPT ![s] = x]
         IN  /\ SelSum(p) - SelSum(q) = x.selected - q[s].selected
             /\ FoundSum(p) - FoundSum(q) = x.discovered - q[s].discovered
<1> DEFINE p == [q EXCEPT ![s] = x]
           S == DOMAIN q
<1>1. p \in Seq(SeedRec(E)) /\ DOMAIN p = S /\ p[s] = x /\ \A i \in S \ {s} : p[i] = q[i]
  BY LenProperties
<1> HIDE DEF p
<1>2. /\ IsFiniteSet(S)
      /\ \A i \in S : /\ SelOf(p)[i] = p[i].selected /\ FoundOf(p)[i] = p[i].discovered
                      /\ SelOf(p)[i] \in Nat /\ FoundOf(p)[i] \in Nat
                      /\ SelOf(q)[i] = q[i].selected /\ FoundOf(q)[i] = q[i].discovered
                      /\ SelOf(q)[i] \in Nat /\ FoundOf(q)[i] \in Nat
  BY <1>1, SeedList
<1>3. \A i \in S : SelOf(p)[i] \in Int /\ FoundOf(p)[i] \in Int /\ SelOf(q)[i] \in Int /\ FoundOf(q)[i] \in Int
  BY <1>2
<1>4. \A i \in S \ {s} : SelOf(q)[i] = SelOf(p)[i] /\ FoundOf(q)[i] = FoundOf(p)[i]
  <2> HIDE DEF S
  <2> TAKE i \in S \ {s}
  <2>1. p[i] = q[i] /\ i \in S
    BY <1>1
  <2> QED
    BY <1>2, <2>1
<1>5. s \in S
  OBVIOUS
<1>6. /\ SelSum(p) = SumOf(SelOf(p), S) /\ FoundSum(p) = SumOf(FoundOf(p), S)
      /\ SelSum(q) = SumOf(SelOf(q), S) /\ FoundSum(q) = SumOf(FoundOf(q), S)
  BY <1>1, <1>2, SelSumIsSum, FoundSumIsSum
<1> HIDE DEF S
<1>7. /\ SumOf(SelOf(p), S) - SumOf(SelOf(q), S) = SelOf(p)[s] - SelOf(q)[s]
      /\ SumOf(FoundOf(p), S) - SumOf(FoundOf(q), S) = FoundOf(p)[s] - FoundOf(q)[s]
  BY <1>2, <1>3, <1>4, <1>5, SumChange
<1> QED
  BY <1>1, <1>2, <1>5, <1>6, <1>7 DEF p

-----------------------------------------------------------------------------
(* The counters of a tree *)

SelAt(t) == [n \in DOMAIN t |-> SelSum(t[n].seeds)]
FoundAt(t) == [n \in DOMAIN t |-> t[n].discovered]

SimsUnder(t, id) == {s \in SimulationNodes(t) : t[t[s].parent].id = id}

(* What a step does not change of a node, and what a new node has.         *)
SameNode(a, b) ==
  /\ b.id = a.id /\ b.parent = a.parent /\ (b.colour = Golden <=> a.colour = Golden)
  /\ b.discovered = a.discovered
  /\ SelSum(b.seeds) = SelSum(a.seeds) /\ FoundSum(b.seeds) = FoundSum(a.seeds)
  /\ DOMAIN a.seeds \subseteq DOMAIN b.seeds

Untouched(b) == b.discovered = 0 /\ SelSum(b.seeds) = 0 /\ FoundSum(b.seeds) = 0

Carries(t, u) ==
  /\ DOMAIN t \subseteq DOMAIN u
  /\ \A n \in DOMAIN t : SameNode(t[n], u[n])
  /\ \A n \in DOMAIN u \ DOMAIN t : Untouched(u[n])

SameSelected(t, u) ==
  /\ DOMAIN t \subseteq DOMAIN u
  /\ \A n \in DOMAIN t : u[n].selected = t[n].selected
  /\ \A n \in DOMAIN u \ DOMAIN t : u[n].selected = 0

LEMMA CarriesTrans ==
  ASSUME NEW t, NEW u, NEW v, Carries(t, u), Carries(u, v)
  PROVE  Carries(t, v)
<1>1. DOMAIN t \subseteq DOMAIN v
  BY DEF Carries
<1>2. \A n \in DOMAIN t : SameNode(t[n], v[n])
  BY DEF Carries, SameNode
<1>3. \A n \in DOMAIN v \ DOMAIN t : Untouched(v[n])
  <2> TAKE n \in DOMAIN v \ DOMAIN t
  <2>1. CASE n \in DOMAIN u
    <3>1. Untouched(u[n]) /\ SameNode(u[n], v[n])
      BY <2>1 DEF Carries
    <3> QED
      BY <3>1 DEF Untouched, SameNode
  <2>2. CASE n \notin DOMAIN u
    BY <2>2 DEF Carries
  <2> QED
    BY <2>1, <2>2
<1> QED
  BY <1>1, <1>2, <1>3 DEF Carries

LEMMA SameSelectedTrans ==
  ASSUME NEW t, NEW u, NEW v, SameSelected(t, u), SameSelected(u, v)
  PROVE  SameSelected(t, v)
BY DEF SameSelected

LEMMA CarriesSelf ==
  ASSUME NEW t
  PROVE  Carries(t, t) /\ SameSelected(t, t)
BY DEF Carries, SameSelected, SameNode

(* The same shape and the same seeds.                                      *)
LEMMA CarriesSame ==
  ASSUME NEW t, NEW u, SameShape(t, u),
         \A n \in DOMAIN t : u[n].discovered = t[n].discovered /\ u[n].seeds = t[n].seeds
  PROVE  Carries(t, u)
BY DEF SameShape, Carries, SameNode

LEMMA TreeNodes ==
  ASSUME NEW E, NEW t, Sound(E, t)
  PROVE  /\ IsFiniteSet(DOMAIN t) /\ DOMAIN t = 1..Len(t) /\ Len(t) \in Nat
         /\ \A n \in DOMAIN t : /\ t[n] \in NodeRec(E) /\ t[n].seeds \in Seq(SeedRec(E))
                               /\ SelSum(t[n].seeds) \in Nat /\ FoundSum(t[n].seeds) \in Nat
                               /\ t[n].discovered \in Nat /\ t[n].selected \in Nat
                               /\ SelAt(t)[n] = SelSum(t[n].seeds) /\ FoundAt(t)[n] = t[n].discovered
<1>1. DOMAIN t = 1..Len(t) /\ Len(t) \in Nat
  BY LenProperties DEF Sound
<1>2. IsFiniteSet(DOMAIN t)
  BY <1>1, FS_Interval
<1>3. \A n \in DOMAIN t : t[n] \in NodeRec(E)
  BY NodeOfSound
<1>4. \A n \in DOMAIN t : /\ t[n].seeds \in Seq(SeedRec(E))
                         /\ t[n].discovered \in Nat /\ t[n].selected \in Nat
  BY <1>3 DEF NodeRec
<1>5. \A n \in DOMAIN t : SelSum(t[n].seeds) \in Nat /\ FoundSum(t[n].seeds) \in Nat
  BY <1>4, SeedSums
<1> QED
  BY <1>1, <1>2, <1>3, <1>4, <1>5 DEF SelAt, FoundAt

LEMMA SimsOfTree ==
  ASSUME NEW E, NEW t, Sound(E, t)
  PROVE  /\ SimulationNodes(t) \subseteq DOMAIN t /\ IsFiniteSet(SimulationNodes(t))
         /\ \A id : SimsUnder(t, id) \subseteq DOMAIN t /\ IsFiniteSet(SimsUnder(t, id))
         /\ \A s \in SimulationNodes(t) : s # ROOT /\ t[s].parent \in DOMAIN t
<1>1. IsFiniteSet(DOMAIN t)
  BY TreeNodes
<1>2. SimulationNodes(t) \subseteq DOMAIN t
  BY DEF SimulationNodes
<1>3. \A id : SimsUnder(t, id) \subseteq DOMAIN t
  BY <1>2 DEF SimsUnder
<1>4. \A s \in SimulationNodes(t) : s # ROOT /\ t[s].parent \in DOMAIN t
  BY DEF SimulationNodes, ResponseNodes, Sound, White, Golden
<1> QED
  BY <1>1, <1>2, <1>3, <1>4, FS_Subset

(* The totals do not change.                                               *)
LEMMA SameTotals ==
  ASSUME NEW E, NEW t, NEW u, Sound(E, t), Sound(E, u), Carries(t, u)
  PROVE  /\ SumOf(SelAt(u), SimulationNodes(u)) = SumOf(SelAt(t), SimulationNodes(t))
         /\ SumOf(FoundAt(u), SimulationNodes(u)) = SumOf(FoundAt(t), SimulationNodes(t))
         /\ \A id : SumOf(SelAt(u), SimsUnder(u, id)) = SumOf(SelAt(t), SimsUnder(t, id))
<1>1. /\ \A n \in DOMAIN u : SelAt(u)[n] = SelSum(u[n].seeds) /\ FoundAt(u)[n] = u[n].discovered
                             /\ SelAt(u)[n] \in Nat /\ FoundAt(u)[n] \in Nat
      /\ \A n \in DOMAIN t : SelAt(t)[n] = SelSum(t[n].seeds) /\ FoundAt(t)[n] = t[n].discovered
  BY TreeNodes
<1>2. /\ \A n \in DOMAIN t : n \in DOMAIN u /\ SelAt(u)[n] = SelAt(t)[n] /\ FoundAt(u)[n] = FoundAt(t)[n]
      /\ \A n \in DOMAIN u \ DOMAIN t : SelAt(u)[n] = 0 /\ FoundAt(u)[n] = 0
      /\ \A n \in DOMAIN u : SelAt(u)[n] \in Int /\ FoundAt(u)[n] \in Int
  BY <1>1 DEF Carries, SameNode, Untouched
<1>3. \A n \in DOMAIN t : n \in SimulationNodes(u) <=> n \in SimulationNodes(t)
  BY DEF Carries, SameNode, SimulationNodes, ResponseNodes
<1>4. /\ SimulationNodes(t) \subseteq DOMAIN t
      /\ SimulationNodes(u) \subseteq DOMAIN u /\ IsFiniteSet(SimulationNodes(u))
      /\ \A id : SimsUnder(t, id) \subseteq DOMAIN t
      /\ \A id : SimsUnder(u, id) \subseteq DOMAIN u /\ IsFiniteSet(SimsUnder(u, id))
      /\ \A s \in SimulationNodes(t) : t[s].parent \in DOMAIN t
  BY SimsOfTree
<1>5. ASSUME NEW S, NEW T, S \subseteq DOMAIN t, T \subseteq DOMAIN u, IsFiniteSet(T),
             \A n \in DOMAIN t : n \in T <=> n \in S
      PROVE  SumOf(SelAt(u), T) = SumOf(SelAt(t), S) /\ SumOf(FoundAt(u), T) = SumOf(FoundAt(t), S)
  <2>1. /\ S \subseteq T
        /\ \A n \in S : SelAt(u)[n] = SelAt(t)[n] /\ FoundAt(u)[n] = FoundAt(t)[n]
        /\ \A n \in T \ S : SelAt(u)[n] = 0 /\ FoundAt(u)[n] = 0
        /\ \A n \in T : SelAt(u)[n] \in Int /\ FoundAt(u)[n] \in Int
    BY <1>2, <1>5
  <2> QED
    BY <1>5, <2>1, SumExtend
<1>6. ASSUME NEW id PROVE SumOf(SelAt(u), SimsUnder(u, id)) = SumOf(SelAt(t), SimsUnder(t, id))
  <2>1. \A n \in DOMAIN t : n \in SimsUnder(u, id) <=> n \in SimsUnder(t, id)
    <3> TAKE n \in DOMAIN t
    <3>1. n \in SimulationNodes(t) => u[n].parent = t[n].parent /\ u[t[n].parent].id = t[t[n].parent].id
      BY <1>4 DEF Carries, SameNode
    <3> QED
      BY <1>3, <3>1 DEF SimsUnder
  <2> QED
    BY <1>4, <1>5, <2>1
<1> QED
  BY <1>3, <1>4, <1>5, <1>6

(* A node is credited with no more discoveries than its parent.            *)
Monotone(t) ==
  \A n \in ResponseNodes(t) \ {ROOT} : t[n].discovered <= t[t[n].parent].discovered

(* The discoveries of a simulation node are those of its seeds.            *)
Credited(t) == \A s \in SimulationNodes(t) : t[s].discovered = FoundSum(t[s].seeds)

IdsIn(t, ids) == \A n \in DOMAIN t : t[n].id \in ids

LEMMA CarriesMonotone ==
  ASSUME NEW E, NEW t, NEW u, Sound(E, t), Sound(E, u), Carries(t, u), Monotone(t), Credited(t)
  PROVE  Monotone(u) /\ Credited(u)
<1>1. \A n \in DOMAIN u : u[n].discovered \in Nat
  BY TreeNodes
<1>2. \A n \in DOMAIN u \ {ROOT} : u[n].parent \in DOMAIN u
  BY DEF Sound
<1>3. \A n \in DOMAIN t \ {ROOT} : t[n].parent \in DOMAIN t
  BY DEF Sound
<1>4. Monotone(u)
  <2> SUFFICES ASSUME NEW n \in ResponseNodes(u) \ {ROOT}
               PROVE  u[n].discovered <= u[u[n].parent].discovered
    BY DEF Monotone
  <2>0. n \in DOMAIN u /\ n # ROOT /\ u[n].colour # Golden
    BY DEF ResponseNodes
  <2>1. CASE n \in DOMAIN t
    <3>1. n \in ResponseNodes(t) \ {ROOT} /\ t[n].parent \in DOMAIN t
      BY <1>3, <2>0, <2>1 DEF ResponseNodes, Carries, SameNode
    <3>2. t[n].discovered <= t[t[n].parent].discovered
      BY <3>1 DEF Monotone
    <3>3. u[n].discovered = t[n].discovered /\ u[n].parent = t[n].parent
          /\ u[t[n].parent].discovered = t[t[n].parent].discovered
      BY <2>1, <3>1 DEF Carries, SameNode
    <3> QED
      BY <3>2, <3>3
  <2>2. CASE n \notin DOMAIN t
    <3>1. u[n].discovered = 0
      BY <2>0, <2>2 DEF Carries, Untouched
    <3>2. u[u[n].parent].discovered \in Nat
      BY <1>1, <1>2, <2>0
    <3> QED
      BY <3>1, <3>2
  <2> QED
    BY <2>1, <2>2
<1>5. Credited(u)
  <2> SUFFICES ASSUME NEW s \in SimulationNodes(u) PROVE u[s].discovered = FoundSum(u[s].seeds)
    BY DEF Credited
  <2>1. CASE s \in DOMAIN t
    <3>1. s \in SimulationNodes(t)
      BY <2>1 DEF SimulationNodes, ResponseNodes, Carries, SameNode
    <3> QED
      BY <2>1, <3>1 DEF Credited, Carries, SameNode
  <2>2. CASE s \notin DOMAIN t
    BY <2>2 DEF Carries, Untouched, SimulationNodes
  <2> QED
    BY <2>1, <2>2
<1> QED
  BY <1>4, <1>5

-----------------------------------------------------------------------------
(* What the updates of the tree do to the counters *)

(* A node gets another record.                                             *)
LEMMA NodeReplaced ==
  ASSUME NEW E, NEW t, Sound(E, t), NEW n \in DOMAIN t, NEW r
  PROVE  /\ DOMAIN [t EXCEPT ![n] = r] = DOMAIN t
         /\ [t EXCEPT ![n] = r][n] = r
         /\ \A m \in DOMAIN t \ {n} : [t EXCEPT ![n] = r][m] = t[m]
BY OverwriteAt

LEMMA SetExploredCarries ==
  ASSUME NEW E, NEW t, Sound(E, t), NEW n \in DOMAIN t, NEW b \in BOOLEAN
  PROVE  Carries(t, SetExplored(t, n, b)) /\ SameSelected(t, SetExplored(t, n, b))
<1> DEFINE u == SetExplored(t, n, b)
           r == [t[n] EXCEPT !.explored = b]
<1>1. /\ SameShape(t, u)
      /\ \A m \in DOMAIN t : u[m].discovered = t[m].discovered /\ u[m].seeds = t[m].seeds
  BY SetExploredKeeps
<1>2. r.selected = t[n].selected
  BY NodeOfSound DEF NodeRec
<1>3. u = [t EXCEPT ![n] = r]
  BY DEF SetExplored
<1> HIDE DEF r
<1>4. DOMAIN u = DOMAIN t /\ \A m \in DOMAIN t : u[m].selected = t[m].selected
  BY <1>2, <1>3, NodeReplaced
<1> HIDE DEF u
<1> QED
  BY <1>1, <1>4, CarriesSame DEF SameSelected, u

LEMMA CountSelectionCounts ==
  ASSUME NEW E, NEW t, Sound(E, t), NEW n \in DOMAIN t, t[n].selected < MaxSelected
  PROVE  /\ CountSelection(t, n)[n].selected = t[n].selected + 1
         /\ \A m \in DOMAIN t \ {n} : CountSelection(t, n)[m].selected = t[m].selected
<1> DEFINE c == t[n].selected + 1
           r == [t[n] EXCEPT !.selected = c]
<1>1. t[n] \in NodeRec(E)
  BY NodeOfSound
<1>2. CountSelection(t, n) = [t EXCEPT ![n] = r]
  BY DEF CountSelection
<1> HIDE DEF c
<1>3. r.selected = c
  BY <1>1 DEF NodeRec
<1> HIDE DEF r
<1> QED
  BY <1>2, <1>3, NodeReplaced DEF c

LEMMA CountSelectionCarries ==
  ASSUME NEW E, NEW t, Sound(E, t), NEW n \in DOMAIN t
  PROVE  Carries(t, CountSelection(t, n))
<1> DEFINE u == CountSelection(t, n)
<1>1. /\ SameShape(t, u)
      /\ \A m \in DOMAIN t : u[m].discovered = t[m].discovered /\ u[m].seeds = t[m].seeds
  BY CountSelectionKeeps DEF OnlyCounts
<1> HIDE DEF u
<1> QED
  BY <1>1, CarriesSame DEF u

LEMMA AddSeedCarries ==
  ASSUME NEW E, NEW t, Sound(E, t), NEW n \in DOMAIN t, NEW seed \in SeedRec(E),
         seed.selected = 0, seed.discovered = 0
  PROVE  Carries(t, AddSeed(t, n, seed)) /\ SameSelected(t, AddSeed(t, n, seed))
<1> DEFINE u == AddSeed(t, n, seed)
           q == Append(t[n].seeds, seed)
           r == [t[n] EXCEPT !.seeds = q]
<1>1. /\ SameShape(t, u)
      /\ \A m \in DOMAIN t :
           /\ u[m].discovered = t[m].discovered
           /\ u[m].seeds = IF m = n THEN Append(t[m].seeds, seed) ELSE t[m].seeds
  BY AddSeedKeeps
<1>2. t[n] \in NodeRec(E) /\ t[n].seeds \in Seq(SeedRec(E))
  BY TreeNodes
<1>3. SelSum(q) = SelSum(t[n].seeds) /\ FoundSum(q) = FoundSum(t[n].seeds)
      /\ DOMAIN t[n].seeds \subseteq DOMAIN q
  <2>1. SelSum(q) = SelSum(t[n].seeds) /\ FoundSum(q) = FoundSum(t[n].seeds)
    BY <1>2, SeedAdded
  <2>2. Len(q) = Len(t[n].seeds) + 1 /\ q \in Seq(SeedRec(E))
    BY <1>2, AppendProperties
  <2>3. DOMAIN q = 1..Len(q) /\ DOMAIN t[n].seeds = 1..Len(t[n].seeds) /\ Len(t[n].seeds) \in Nat
    BY <1>2, <2>2, LenProperties
  <2> HIDE DEF q
  <2> QED
    BY <2>1, <2>2, <2>3
<1>4. u = [t EXCEPT ![n] = r]
  BY DEF AddSeed
<1>5. \A m \in DOMAIN t : u[m].seeds = IF m = n THEN q ELSE t[m].seeds
  BY <1>1
<1> HIDE DEF q
<1>6. r.selected = t[n].selected
  BY <1>2 DEF NodeRec
<1> HIDE DEF r
<1>7. DOMAIN u = DOMAIN t /\ \A m \in DOMAIN t : u[m].selected = t[m].selected
  BY <1>4, <1>6, NodeReplaced
<1> HIDE DEF u
<1>8. Carries(t, u)
  BY <1>1, <1>3, <1>5, <1>7 DEF Carries, SameNode, SameShape
<1> QED
  BY <1>7, <1>8 DEF SameSelected, u

LEMMA AppendChildCarries ==
  ASSUME NEW E, NEW t, Sound(E, t), NEW p, NEW id, NEW colour \in {White, Black}, NEW path
  PROVE  LET u == AppendChild(t, p, id, colour, path)
         IN  /\ Carries(t, u) /\ SameSelected(t, u)
             /\ \A m \in DOMAIN u \ DOMAIN t : u[m].id \in {id, SimId}
<1> DEFINE u == AppendChild(t, p, id, colour, path)
           n == Len(t) + 1
<1>1. WithChild(t, u, p, id, colour, path)
  BY AppendChildIs
<1> HIDE DEF u
<1>2. DOMAIN t = 1..Len(t) /\ Len(t) \in Nat
  BY TreeNodes
<1>3. n \notin DOMAIN t /\ n + 1 \notin DOMAIN t
  BY <1>2
<1>4. /\ DOMAIN t \subseteq DOMAIN u
      /\ \A m \in DOMAIN t : u[m] = t[m]
      /\ \A m \in DOMAIN u \ DOMAIN t :
           /\ u[m].discovered = 0 /\ u[m].selected = 0 /\ u[m].seeds = <<>> /\ u[m].id \in {id, SimId}
  <2> HIDE DEF n
  <2>1. \A m \in DOMAIN u \ DOMAIN t : m = n \/ (m = n + 1 /\ colour = White)
    BY <1>1 DEF WithChild, n
  <2>2. u[n].discovered = 0 /\ u[n].selected = 0 /\ u[n].seeds = <<>> /\ u[n].id = id
    BY <1>1 DEF WithChild, n
  <2>3. colour = White => u[n + 1].discovered = 0 /\ u[n + 1].selected = 0 /\ u[n + 1].seeds = <<>>
                          /\ u[n + 1].id = SimId
    BY <1>1 DEF WithChild, n
  <2>4. DOMAIN t \subseteq DOMAIN u /\ \A m \in DOMAIN t : u[m] = t[m]
    BY <1>1 DEF WithChild
  <2> QED
    BY <2>1, <2>2, <2>3, <2>4
<1>5. Carries(t, u)
  BY <1>4, NoSeeds DEF Carries, SameNode, Untouched
<1> QED
  BY <1>4, <1>5 DEF SameSelected, u

LEMMA FlipCarries ==
  ASSUME NEW E, NEW t, Sound(E, t), NEW n \in DOMAIN t, t[n].colour = Black, NEW path
  PROVE  LET u == Flip(t, n, path)
         IN  /\ Carries(t, u) /\ SameSelected(t, u)
             /\ \A m \in DOMAIN u \ DOMAIN t : u[m].id = SimId
<1> DEFINE u == Flip(t, n, path)
           s == Len(t) + 1
<1>1. Flipped(t, u, n, path)
  BY FlipIs
<1> HIDE DEF u
<1>2. DOMAIN t = 1..Len(t) /\ Len(t) \in Nat
  BY TreeNodes
<1>3. s \notin DOMAIN t
  BY <1>2
<1>4. /\ DOMAIN u = DOMAIN t \cup {s}
      /\ \A m \in DOMAIN t \ {n} : u[m] = t[m]
      /\ u[n].colour = White /\ u[n].id = t[n].id /\ u[n].parent = t[n].parent
      /\ u[n].seeds = t[n].seeds /\ u[n].discovered = t[n].discovered /\ u[n].selected = t[n].selected
      /\ u[s].id = SimId /\ u[s].seeds = <<>> /\ u[s].discovered = 0 /\ u[s].selected = 0
  BY <1>1 DEF Flipped
<1> HIDE DEF s
<1>5. SameNode(t[n], u[n])
  BY <1>4 DEF SameNode, White, Black, Golden
<1>6. \A m \in DOMAIN t \ {n} : SameNode(t[m], u[m])
  BY <1>4 DEF SameNode
<1>7. Untouched(u[s])
  BY <1>4, NoSeeds DEF Untouched
<1>8. Carries(t, u)
  BY <1>3, <1>4, <1>5, <1>6, <1>7 DEF Carries
<1>9. SameSelected(t, u)
  BY <1>3, <1>4 DEF SameSelected
<1> QED
  BY <1>4, <1>8, <1>9 DEF u

(* The selected seed: its counter, and that of nothing else.               *)
LEMMA SeedSelected ==
  ASSUME NEW E, NEW t, Sound(E, t), NEW n \in DOMAIN t, NEW s \in DOMAIN t[n].seeds
  PROVE  LET u == CountSeedSelection(t, n, s)
         IN  /\ SameShape(t, u)
             /\ \A m \in DOMAIN t : /\ u[m].discovered = t[m].discovered
                                   /\ u[m].selected = t[m].selected
                                   /\ FoundSum(u[m].seeds) = FoundSum(t[m].seeds)
             /\ SelSum(u[n].seeds) = SelSum(t[n].seeds) + 1
             /\ \A m \in DOMAIN t \ {n} : SelSum(u[m].seeds) = SelSum(t[m].seeds)
<1> DEFINE u == CountSeedSelection(t, n, s)
           y == t[n].seeds[s]
           x == [y EXCEPT !.selected = @ + 1]
           q == [t[n].seeds EXCEPT ![s] = x]
           r == [t[n] EXCEPT !.seeds = q]
<1>1. SameShape(t, u) /\ \A m \in DOMAIN t : u[m].discovered = t[m].discovered
  BY CountSeedSelectionKeeps DEF OnlyCounts
<1>2. t[n] \in NodeRec(E) /\ t[n].seeds \in Seq(SeedRec(E)) /\ SelSum(t[n].seeds) \in Nat
      /\ FoundSum(t[n].seeds) \in Nat
  BY TreeNodes
<1>3. y \in SeedRec(E)
  BY <1>2, SeedList
<1>4. x \in SeedRec(E) /\ x.selected = y.selected + 1 /\ x.discovered = y.discovered
      /\ y.selected \in Nat /\ y.discovered \in Nat
  BY <1>3 DEF SeedRec
<1>5. u = [t EXCEPT ![n] = r]
  BY DEF CountSeedSelection
<1> HIDE DEF x, y
<1>6. q \in Seq(SeedRec(E))
  BY <1>2, <1>4, SeedCount, LenProperties
<1>7. SelSum(q) - SelSum(t[n].seeds) = x.selected - t[n].seeds[s].selected
      /\ FoundSum(q) - FoundSum(t[n].seeds) = x.discovered - t[n].seeds[s].discovered
  BY <1>2, <1>4, SeedChanged
<1> HIDE DEF q
<1>8. SelSum(q) \in Nat /\ FoundSum(q) \in Nat
  BY <1>6, SeedSums
<1>9. SelSum(q) = SelSum(t[n].seeds) + 1 /\ FoundSum(q) = FoundSum(t[n].seeds)
  <2>1. SelSum(q) - SelSum(t[n].seeds) = (y.selected + 1) - y.selected
        /\ FoundSum(q) - FoundSum(t[n].seeds) = y.discovered - y.discovered
    BY <1>4, <1>7 DEF y
  <2> QED
    BY <1>2, <1>4, <1>8, <2>1
<1>10. r.seeds = q /\ r.selected = t[n].selected
  BY <1>2 DEF NodeRec
<1> HIDE DEF r, u
<1>11. u[n] = r /\ \A m \in DOMAIN t \ {n} : u[m] = t[m]
  BY <1>5, NodeReplaced
<1> QED
  BY <1>1, <1>9, <1>10, <1>11 DEF u

(* The credited seed and its node.                                         *)
LEMMA SeedCredited ==
  ASSUME NEW E, NEW t, Sound(E, t), NEW n \in DOMAIN t, NEW s \in DOMAIN t[n].seeds
  PROVE  LET u == CreditSeed(t, n, s)
         IN  /\ SameShape(t, u)
             /\ \A m \in DOMAIN t : /\ u[m].selected = t[m].selected
                                   /\ SelSum(u[m].seeds) = SelSum(t[m].seeds)
             /\ u[n].discovered = t[n].discovered + 1
             /\ FoundSum(u[n].seeds) = FoundSum(t[n].seeds) + 1
             /\ \A m \in DOMAIN t \ {n} : /\ u[m].discovered = t[m].discovered
                                         /\ FoundSum(u[m].seeds) = FoundSum(t[m].seeds)
<1> DEFINE u == CreditSeed(t, n, s)
           v == CountDiscovery(t, n)
           d == t[n].discovered + 1
           a == [t[n] EXCEPT !.discovered = d]
           y == t[n].seeds[s]
           x == [y EXCEPT !.discovered = @ + 1]
           q == [t[n].seeds EXCEPT ![s] = x]
           r == [a EXCEPT !.seeds = q]
<1>2. t[n] \in NodeRec(E) /\ t[n].seeds \in Seq(SeedRec(E)) /\ SelSum(t[n].seeds) \in Nat
      /\ FoundSum(t[n].seeds) \in Nat /\ t[n].discovered \in Nat
  BY TreeNodes
<1>0. s \in Nat
  BY <1>2, SeedList
<1>1. SameShape(t, u) /\ \A m \in DOMAIN t : u[m].discovered
                                = IF m = n THEN t[m].discovered + 1 ELSE t[m].discovered
  BY <1>0, CreditSeedKeeps DEF OnlyCounts
<1>3. y \in SeedRec(E)
  BY <1>2, SeedList
<1>4. x \in SeedRec(E) /\ x.selected = y.selected /\ x.discovered = y.discovered + 1
      /\ y.selected \in Nat /\ y.discovered \in Nat
  BY <1>3 DEF SeedRec
<1>5. a \in NodeRec(E) /\ a.seeds = t[n].seeds /\ a.selected = t[n].selected
  <2>1. d \in Nat
    BY <1>2
  <2> HIDE DEF d
  <2>2. a \in NodeRec(E)
    BY <1>2, <2>1 DEF NodeRec
  <2>3. a.seeds = t[n].seeds /\ a.selected = t[n].selected
    BY <1>2 DEF NodeRec
  <2> QED
    BY <2>2, <2>3
<1>6. v = [t EXCEPT ![n] = a]
  BY DEF CountDiscovery
<1>7. u = [v EXCEPT ![n].seeds[s].discovered = @ + 1]
  BY DEF CreditSeed, CountSeedDiscovery
<1> HIDE DEF a
<1>8. DOMAIN v = DOMAIN t /\ v[n] = a /\ \A m \in DOMAIN t \ {n} : v[m] = t[m]
  BY <1>6, NodeReplaced
<1> HIDE DEF v
<1>9. u = [v EXCEPT ![n] = r]
  BY <1>5, <1>7, <1>8
<1> HIDE DEF u
<1>10. /\ u[n] = r /\ \A m \in DOMAIN t \ {n} : u[m] = t[m]
  BY <1>8, <1>9
<1> HIDE DEF x, y
<1>11. q \in Seq(SeedRec(E))
  BY <1>2, <1>4, SeedCount, LenProperties
<1>12. SelSum(q) - SelSum(t[n].seeds) = x.selected - t[n].seeds[s].selected
      /\ FoundSum(q) - FoundSum(t[n].seeds) = x.discovered - t[n].seeds[s].discovered
  BY <1>2, <1>4, SeedChanged
<1> HIDE DEF q
<1>13. SelSum(q) \in Nat /\ FoundSum(q) \in Nat
  BY <1>11, SeedSums
<1>14. FoundSum(q) = FoundSum(t[n].seeds) + 1 /\ SelSum(q) = SelSum(t[n].seeds)
  <2>1. SelSum(q) - SelSum(t[n].seeds) = y.selected - y.selected
        /\ FoundSum(q) - FoundSum(t[n].seeds) = (y.discovered + 1) - y.discovered
    BY <1>4, <1>12 DEF y
  <2> QED
    BY <1>2, <1>4, <1>13, <2>1
<1>15. r.seeds = q /\ r.selected = t[n].selected
  BY <1>5 DEF NodeRec
<1> HIDE DEF r
<1> QED
  BY <1>1, <1>10, <1>14, <1>15 DEF u

(* The parts of an iteration of Expansion.                                 *)
LEMMA ReopenCarries ==
  ASSUME NEW t, Sound(Entries, t), NEW f, GoodFrame(f, t)
  PROVE  /\ Carries(t, Reopen(t, f)) /\ SameSelected(t, Reopen(t, f))
         /\ DOMAIN Reopen(t, f) = DOMAIN t
<1>1. f.node \in DOMAIN t /\ FALSE \in BOOLEAN
  BY DEF GoodFrame
<1> DEFINE b == FALSE
           u == SetExplored(t, f.node, b)
<1>2. Carries(t, u) /\ SameSelected(t, u) /\ DOMAIN u = DOMAIN t
  <2> HIDE DEF b
  <2>1. b \in BOOLEAN
    BY <1>1 DEF b
  <2>2. Carries(t, u) /\ SameSelected(t, u)
    BY <1>1, <2>1, SetExploredCarries
  <2>3. DOMAIN u = DOMAIN t
    BY <1>1, <2>1, SetExploredSound
  <2> QED
    BY <2>2, <2>3
<1>3. Reopen(t, f) = u \/ Reopen(t, f) = t
  BY DEF Reopen
<1> HIDE DEF u
<1> QED
  BY <1>2, <1>3, CarriesSelf

LEMMA GrowCarries ==
  ASSUME NEW t, Sound(Entries, t), NEW f, GoodFrame(f, t)
  PROVE  /\ Carries(t, Grow(t, f)) /\ SameSelected(t, Grow(t, f))
         /\ \A m \in DOMAIN Grow(t, f) \ DOMAIN t :
              Fresh(t, f) /\ Grow(t, f)[m].id \in {f.entry.codes[f.k], SimId}
<1> DEFINE p == f.node
           id == f.entry.codes[f.k]
           path == SubSeq(f.entry.codes, 1, f.k)
           colour == IF Match(f).exact THEN White ELSE Black
           u == AppendChild(t, p, id, colour, path)
<1>1. CASE ~Fresh(t, f)
  <2>1. Grow(t, f) = t
    BY <1>1 DEF Grow
  <2> QED
    BY <2>1, CarriesSelf
<1>2. CASE Fresh(t, f)
  <2>1. Grow(t, f) = u
    BY <1>2 DEF Grow
  <2>2. colour \in {White, Black}
    OBVIOUS
  <2> HIDE DEF p, colour, path
  <2>3. Carries(t, u) /\ SameSelected(t, u) /\ \A m \in DOMAIN u \ DOMAIN t : u[m].id \in {id, SimId}
    BY <2>2, AppendChildCarries
  <2> QED
    BY <1>2, <2>1, <2>3
<1> QED
  BY <1>1, <1>2

LEMMA WhitenCarries ==
  ASSUME NEW t, Sound(Entries, t), NEW n \in DOMAIN t, NEW f
  PROVE  /\ Carries(t, Whiten(t, n, f)) /\ SameSelected(t, Whiten(t, n, f))
         /\ \A m \in DOMAIN Whiten(t, n, f) \ DOMAIN t : Whiten(t, n, f)[m].id = SimId
<1> DEFINE path == SubSeq(f.entry.codes, 1, f.k)
           u == Flip(t, n, path)
<1>1. CASE Whiten(t, n, f) = t
  BY <1>1, CarriesSelf
<1>2. CASE Whiten(t, n, f) # t
  <2>1. Whiten(t, n, f) = u /\ t[n].colour = Black
    BY <1>2 DEF Whiten
  <2> HIDE DEF path
  <2>2. Carries(t, u) /\ SameSelected(t, u) /\ \A m \in DOMAIN u \ DOMAIN t : u[m].id = SimId
    BY <2>1, FlipCarries
  <2> QED
    BY <2>1, <2>2
<1> QED
  BY <1>1, <1>2

LEMMA NewSeedType ==
  ASSUME NEW e \in Entries, NEW region \in Nat
  PROVE  /\ NewSeed(e, region) \in SeedRec(Entries)
         /\ NewSeed(e, region).selected = 0 /\ NewSeed(e, region).discovered = 0
BY DEF NewSeed, SeedRec

LEMMA SowCarries ==
  ASSUME NEW t, Sound(Entries, t), IsTrie(t), NEW n \in DOMAIN t, NEW f, NEW s, GoodFrame(f, s)
  PROVE  /\ Carries(t, Sow(t, n, f)) /\ SameSelected(t, Sow(t, n, f))
         /\ DOMAIN Sow(t, n, f) \subseteq DOMAIN t
<1> DEFINE seed == NewSeed(f.entry, Match(f).region)
           u == AddSeed(t, t[n].sim, seed)
<1>1. CASE ~Seeded(t, n, f)
  <2>1. Sow(t, n, f) = t
    BY <1>1 DEF Sow
  <2> QED
    BY <2>1, CarriesSelf
<1>2. CASE Seeded(t, n, f)
  <2>1. Sow(t, n, f) = u
    BY <1>2 DEF Sow
  <2>2. f.entry \in Entries /\ Match(f).region \in Nat
    <3>1. f \in Frame
      BY DEF GoodFrame
    <3>2. Match(f).region \in 1..Len(f.entry.counts)
      BY MatchInside
    <3>3. f.entry \in Entries
      BY <3>1 DEF Frame
    <3>4. Len(f.entry.counts) \in Nat
      BY <3>3, EntryType
    <3> QED
      BY <3>2, <3>3, <3>4
  <2>3. seed \in SeedRec(Entries) /\ seed.selected = 0 /\ seed.discovered = 0
    BY <2>2, NewSeedType
  <2>4. t[n].sim \in DOMAIN t
    BY <1>2, SimOfWhite DEF Seeded
  <2> HIDE DEF seed
  <2>5. Carries(t, u) /\ SameSelected(t, u) /\ DOMAIN u = DOMAIN t
    BY <2>3, <2>4, AddSeedCarries, AddSeedKeeps DEF SameShape
  <2> QED
    BY <2>1, <2>5
<1> QED
  BY <1>1, <1>2

(* The first loop of Propagation credits the node and all above it.        *)
LEMMA PathCredited ==
  ASSUME NEW E, NEW t, Sound(E, t), IsTrie(t), NEW n \in ResponseNodes(t), Monotone(t), Credited(t)
  PROVE  LET u == CreditPath(t, n)
         IN  /\ SameShape(t, u) /\ Sound(E, u) /\ SimulationNodes(u) = SimulationNodes(t)
             /\ Monotone(u) /\ Credited(u)
             /\ u[ROOT].discovered = t[ROOT].discovered + 1
             /\ \A m \in DOMAIN t : u[m].selected = t[m].selected /\ u[m].seeds = t[m].seeds
             /\ \A m \in SimulationNodes(t) : u[m].discovered = t[m].discovered
<1> DEFINE u == CreditPath(t, n)
           line == Lineage(t, n)
<1>1. /\ SameShape(t, u)
      /\ \A m \in DOMAIN t : u[m].discovered = IF m \in line THEN t[m].discovered + 1 ELSE t[m].discovered
  BY CreditPathKeeps DEF OnlyCounts
<1>2. Sound(E, u)
  BY CreditPathSound DEF Succeeds
<1>3. n \in DOMAIN t /\ ROOT \in DOMAIN t
  BY TreeNodes DEF ResponseNodes, Sound, ROOT, RootSim
<1>4. ROOT \in line
  BY <1>3, RootInLineage
<1>5. \A m \in line : /\ m \in DOMAIN t /\ (m # ROOT => t[m].parent \in line)
                     /\ m \in ResponseNodes(t)
  BY <1>3, LineageClosed
<1>6. \A m \in DOMAIN t : t[m] \in NodeRec(E) /\ t[m].discovered \in Nat
  BY TreeNodes
<1>7. \A m \in DOMAIN t : u[m].selected = t[m].selected /\ u[m].seeds = t[m].seeds
  <2> HIDE DEF line
  <2> TAKE m \in DOMAIN t
  <2> DEFINE r == [t[m] EXCEPT !.discovered = @ + 1]
  <2>1. u[m] = IF m \in line THEN r ELSE t[m]
    BY DEF CreditPath, line
  <2>2. r.selected = t[m].selected /\ r.seeds = t[m].seeds
    BY <1>6 DEF NodeRec
  <2> HIDE DEF r, u
  <2> QED
    BY <2>1, <2>2
<1> HIDE DEF u, line
<1>8. ResponseNodes(u) = ResponseNodes(t) /\ SimulationNodes(u) = SimulationNodes(t)
  BY <1>1 DEF SameShape, ResponseNodes, SimulationNodes
<1>9. \A m \in SimulationNodes(t) : m \in DOMAIN t /\ u[m].discovered = t[m].discovered
  BY <1>1, <1>5 DEF SimulationNodes
<1>10. Monotone(u)
  <2> SUFFICES ASSUME NEW m \in ResponseNodes(u) \ {ROOT}
               PROVE  u[m].discovered <= u[u[m].parent].discovered
    BY DEF Monotone
  <2> DEFINE p == t[m].parent
  <2>1. m \in ResponseNodes(t) \ {ROOT} /\ m \in DOMAIN t /\ p \in DOMAIN t /\ u[m].parent = p
    BY <1>1, <1>8 DEF ResponseNodes, Sound, SameShape
  <2>2. t[m].discovered <= t[p].discovered /\ t[m].discovered \in Nat /\ t[p].discovered \in Nat
    BY <1>6, <2>1 DEF Monotone
  <2>3. m \in line => p \in line
    BY <1>5, <2>1
  <2> HIDE DEF p
  <2>4. u[m].discovered <= u[p].discovered
    BY <1>1, <2>1, <2>2, <2>3
  <2> QED
    BY <2>1, <2>4
<1>11. Credited(u)
  BY <1>7, <1>8, <1>9 DEF Credited
<1>12. u[ROOT].discovered = t[ROOT].discovered + 1
  BY <1>1, <1>3, <1>4
<1> QED
  BY <1>1, <1>2, <1>7, <1>8, <1>9, <1>10, <1>11, <1>12 DEF u

(* One seed is selected: the totals.                                       *)
LEMMA SelectedTotals ==
  ASSUME NEW E, NEW t, NEW u, Sound(E, t), Sound(E, u), SameShape(t, u),
         NEW n \in SimulationNodes(t),
         SelSum(u[n].seeds) = SelSum(t[n].seeds) + 1,
         \A m \in DOMAIN t \ {n} : SelSum(u[m].seeds) = SelSum(t[m].seeds)
  PROVE  /\ SimulationNodes(u) = SimulationNodes(t)
         /\ SumOf(SelAt(u), SimulationNodes(u)) = SumOf(SelAt(t), SimulationNodes(t)) + 1
         /\ \A id : SumOf(SelAt(u), SimsUnder(u, id))
                    = SumOf(SelAt(t), SimsUnder(t, id)) + (IF t[t[n].parent].id = id THEN 1 ELSE 0)
<1>1. /\ \A m \in DOMAIN u : SelAt(u)[m] = SelSum(u[m].seeds) /\ SelAt(u)[m] \in Nat
      /\ \A m \in DOMAIN t : SelAt(t)[m] = SelSum(t[m].seeds) /\ SelAt(t)[m] \in Nat
  BY TreeNodes
<1>2. DOMAIN u = DOMAIN t /\ n \in DOMAIN t
  BY DEF SameShape, SimulationNodes
<1>3. \A m \in DOMAIN t : SelAt(u)[m] \in Int /\ SelAt(t)[m] \in Int
  BY <1>1, <1>2
<1>4. SelAt(u)[n] = SelAt(t)[n] + 1 /\ \A m \in DOMAIN t \ {n} : SelAt(t)[m] = SelAt(u)[m]
  BY <1>1, <1>2
<1>5. ASSUME NEW S, S \subseteq DOMAIN t, IsFiniteSet(S), n \in S
      PROVE  SumOf(SelAt(u), S) = SumOf(SelAt(t), S) + 1
  <2>1. /\ \A m \in S : SelAt(t)[m] \in Int /\ SelAt(u)[m] \in Int
        /\ \A m \in S \ {n} : SelAt(t)[m] = SelAt(u)[m]
    BY <1>3, <1>4, <1>5
  <2>2. SumOf(SelAt(u), S) - SumOf(SelAt(t), S) = SelAt(u)[n] - SelAt(t)[n]
    BY <1>5, <2>1, SumChange
  <2>3. SumOf(SelAt(u), S) \in Int /\ SumOf(SelAt(t), S) \in Int
    BY <1>5, <2>1, SumType
  <2>4. SelAt(t)[n] \in Int
    BY <1>2, <1>3
  <2> QED
    BY <1>4, <2>2, <2>3, <2>4
<1>6. ASSUME NEW S, S \subseteq DOMAIN t, IsFiniteSet(S), n \notin S
      PROVE  SumOf(SelAt(u), S) = SumOf(SelAt(t), S) /\ SumOf(SelAt(t), S) \in Int
  <2>1. \A m \in S : SelAt(u)[m] = SelAt(t)[m] /\ SelAt(t)[m] \in Int
    BY <1>3, <1>4, <1>6
  <2> QED
    BY <1>6, <2>1, SumSame, SumType
<1>7. SimulationNodes(u) = SimulationNodes(t)
  BY DEF SameShape, SimulationNodes, ResponseNodes
<1>8. /\ SimulationNodes(t) \subseteq DOMAIN t /\ IsFiniteSet(SimulationNodes(t))
      /\ \A id : SimsUnder(t, id) \subseteq DOMAIN t /\ IsFiniteSet(SimsUnder(t, id))
      /\ \A s \in SimulationNodes(t) : t[s].parent \in DOMAIN t
  BY SimsOfTree
<1>9. \A id : SimsUnder(u, id) = SimsUnder(t, id)
  BY <1>7, <1>8 DEF SimsUnder, SameShape
<1>10. ASSUME NEW id
       PROVE  SumOf(SelAt(u), SimsUnder(u, id))
                = SumOf(SelAt(t), SimsUnder(t, id)) + (IF t[t[n].parent].id = id THEN 1 ELSE 0)
  <2>1. n \in SimsUnder(t, id) <=> t[t[n].parent].id = id
    BY DEF SimsUnder
  <2>2. CASE n \in SimsUnder(t, id)
    BY <1>5, <1>8, <1>9, <2>1, <2>2
  <2>3. CASE n \notin SimsUnder(t, id)
    <3>1. SumOf(SelAt(u), SimsUnder(u, id)) = SumOf(SelAt(t), SimsUnder(t, id))
          /\ SumOf(SelAt(t), SimsUnder(t, id)) \in Int
      BY <1>6, <1>8, <1>9, <2>3
    <3> QED
      BY <2>1, <2>3, <3>1
  <2> QED
    BY <2>2, <2>3
<1> QED
  BY <1>5, <1>7, <1>8, <1>10

(* One simulation node is credited: the total of discoveries.              *)
LEMMA FoundTotals ==
  ASSUME NEW E, NEW t, NEW u, Sound(E, t), Sound(E, u), SameShape(t, u),
         NEW n \in SimulationNodes(t), u[n].discovered = t[n].discovered + 1,
         \A m \in SimulationNodes(t) \ {n} : u[m].discovered = t[m].discovered
  PROVE  /\ SumOf(FoundAt(u), SimulationNodes(u)) - SumOf(FoundAt(t), SimulationNodes(t)) = 1
<1> DEFINE S == SimulationNodes(t)
<1>1. SimulationNodes(u) = S
  BY DEF SameShape, SimulationNodes, ResponseNodes
<1>2. S \subseteq DOMAIN t /\ IsFiniteSet(S) /\ DOMAIN u = DOMAIN t
  BY SimsOfTree DEF SameShape
<1> HIDE DEF S
<1>3. \A m \in S : /\ FoundAt(u)[m] = u[m].discovered /\ u[m].discovered \in Nat
                  /\ FoundAt(t)[m] = t[m].discovered /\ t[m].discovered \in Nat
  BY <1>2, TreeNodes
<1>4. /\ \A m \in S : FoundAt(t)[m] \in Int /\ FoundAt(u)[m] \in Int
      /\ \A m \in S \ {n} : FoundAt(t)[m] = FoundAt(u)[m]
      /\ n \in S
  BY <1>3 DEF S
<1>5. SumOf(FoundAt(u), S) - SumOf(FoundAt(t), S) = FoundAt(u)[n] - FoundAt(t)[n]
  BY <1>2, <1>4, SumChange
<1>6. FoundAt(u)[n] = FoundAt(t)[n] + 1 /\ FoundAt(t)[n] \in Nat
  BY <1>3, <1>4
<1>7. FoundAt(u)[n] - FoundAt(t)[n] = 1
  BY <1>6
<1> QED
  BY <1>1, <1>5, <1>7 DEF S

-----------------------------------------------------------------------------
(* The counters over the steps of the program.                             *)

(* Between the start of a round and the choice of its seed, the seeds have  *)
(* been chosen once less often than there are rounds; and between the      *)
(* choice of a simulation node and that of its seed, the node once more    *)
(* often than its seeds.                                                   *)
Choosing(where) == where \in {"select", "climb", "seed"}
OwedIn(where) == IF Choosing(where) THEN 1 ELSE 0
ExtraIn(where, c, s) == IF where = "seed" /\ s = c THEN 1 ELSE 0

KhmnCounts(t, k) == \A id \in DOMAIN k : k[id] = SumOf(SelAt(t), SimsUnder(t, id))

SelectionsAgree(t, where, c, r) ==
  /\ t[ROOT].selected = r
  /\ SumOf(SelAt(t), SimulationNodes(t)) + OwedIn(where) = r
  /\ \A s \in SimulationNodes(t) :
       t[s].selected = SelSum(t[s].seeds) + ExtraIn(where, c, s)

CountInv ==
  /\ Monotone(tree) /\ Credited(tree)
  /\ IdsIn(tree, DOMAIN khmn)
  /\ KhmnCounts(tree, khmn)
  /\ round <= MaxRounds
  /\ pc \in {"fuzz", "dye"} /\ round > 0 => curSeed \in DOMAIN tree[cur].seeds
  /\ MaxRounds <= MaxSelected /\ failed = {} => SelectionsAgree(tree, pc, cur, round)

(* What a step may add to the root and to the simulation nodes together.   *)
SameCredits(t, u) ==
  /\ u[ROOT].discovered = t[ROOT].discovered
  /\ SumOf(FoundAt(u), SimulationNodes(u)) = SumOf(FoundAt(t), SimulationNodes(t))

BalancedStep ==
  round > 0 =>
    tree'[ROOT].discovered - tree[ROOT].discovered
      = SumOf(FoundAt(tree'), SimulationNodes(tree')) - SumOf(FoundAt(tree), SimulationNodes(tree))

(* A code that khmn does not know is the code of no parent.                *)
LEMMA CarriedKhmn ==
  ASSUME NEW E, NEW t, NEW u, Sound(E, t), Sound(E, u), Carries(t, u),
         NEW k, NEW l, IdsIn(t, DOMAIN k), KhmnCounts(t, k),
         DOMAIN k \subseteq DOMAIN l,
         \A id \in DOMAIN k : l[id] = k[id], \A id \in DOMAIN l \ DOMAIN k : l[id] = 0
  PROVE  KhmnCounts(u, l)
<1>1. \A id : SumOf(SelAt(u), SimsUnder(u, id)) = SumOf(SelAt(t), SimsUnder(t, id))
  BY SameTotals
<1>2. \A s \in SimulationNodes(t) : t[s].parent \in DOMAIN t
  BY SimsOfTree
<1> SUFFICES ASSUME NEW id \in DOMAIN l
             PROVE  l[id] = SumOf(SelAt(u), SimsUnder(u, id))
  BY DEF KhmnCounts
<1>3. CASE id \in DOMAIN k
  BY <1>1, <1>3 DEF KhmnCounts
<1>4. CASE id \notin DOMAIN k
  <2>1. SimsUnder(t, id) = {}
    BY <1>2, <1>4 DEF SimsUnder, IdsIn
  <2>2. SumOf(SelAt(t), {}) = 0
    BY SumNone
  <2>3. l[id] = 0
    BY <1>4
  <2> QED
    BY <1>1, <2>1, <2>2, <2>3
<1> QED
  BY <1>3, <1>4

(* Steps that neither choose nor credit anything.                          *)
LEMMA CarriedSelections ==
  ASSUME NEW E, NEW t, NEW u, Sound(E, t), Sound(E, u), Carries(t, u), SameSelected(t, u),
         NEW a, NEW b, NEW c, NEW d, NEW r, SelectionsAgree(t, a, c, r),
         a # "seed", b # "seed", Choosing(b) <=> Choosing(a)
  PROVE  SelectionsAgree(u, b, d, r)
<1>1. SumOf(SelAt(u), SimulationNodes(u)) = SumOf(SelAt(t), SimulationNodes(t))
  BY SameTotals
<1>2. OwedIn(b) = OwedIn(a)
  BY DEF OwedIn
<1>3. ROOT \in DOMAIN t
  BY TreeNodes DEF ROOT, RootSim, Sound
<1>4. u[ROOT].selected = r
  BY <1>3 DEF SameSelected, SelectionsAgree
<1>5. ASSUME NEW s \in SimulationNodes(u)
      PROVE  u[s].selected = SelSum(u[s].seeds) + ExtraIn(b, d, s)
  <2>1. ExtraIn(b, d, s) = 0
    BY DEF ExtraIn
  <2>2. CASE s \in DOMAIN t
    <3>1. s \in SimulationNodes(t)
      BY <1>5, <2>2 DEF Carries, SameNode, SimulationNodes, ResponseNodes
    <3>2. t[s].selected = SelSum(t[s].seeds) + ExtraIn(a, c, s) /\ ExtraIn(a, c, s) = 0
      BY <3>1 DEF SelectionsAgree, ExtraIn
    <3>3. u[s].selected = t[s].selected /\ SelSum(u[s].seeds) = SelSum(t[s].seeds)
      BY <2>2 DEF Carries, SameNode, SameSelected
    <3> QED
      BY <2>1, <3>2, <3>3
  <2>3. CASE s \notin DOMAIN t
    <3>1. s \in DOMAIN u
      BY <1>5 DEF SimulationNodes
    <3>2. u[s].selected = 0 /\ SelSum(u[s].seeds) = 0
      BY <2>3, <3>1 DEF Carries, Untouched, SameSelected
    <3> QED
      BY <2>1, <3>2
  <2> QED
    BY <2>2, <2>3
<1> QED
  BY <1>1, <1>2, <1>4, <1>5 DEF SelectionsAgree

LEMMA CarriedCredits ==
  ASSUME NEW E, NEW t, NEW u, Sound(E, t), Sound(E, u), Carries(t, u)
  PROVE  SameCredits(t, u)
<1>1. ROOT \in DOMAIN t
  BY TreeNodes DEF ROOT, RootSim, Sound
<1> QED
  BY <1>1, SameTotals DEF SameCredits, Carries, SameNode

(* Credits that stay where they are balance.                               *)
LEMMA NothingCredited ==
  ASSUME Inv, Inv', SameCredits(tree, tree')
  PROVE  BalancedStep
<1>1. Sound(Entries, tree) /\ Sound(Entries, tree')
  BY DEF Inv
<1>2. /\ ROOT \in DOMAIN tree /\ IsFiniteSet(DOMAIN tree)
      /\ \A n \in DOMAIN tree : tree[n].discovered \in Nat /\ FoundAt(tree)[n] = tree[n].discovered
  <2>1. /\ IsFiniteSet(DOMAIN tree) /\ DOMAIN tree = 1..Len(tree) /\ Len(tree) \in Nat
        /\ \A n \in DOMAIN tree : tree[n].discovered \in Nat /\ FoundAt(tree)[n] = tree[n].discovered
    BY <1>1, TreeNodes
  <2>2. Len(tree) >= 2
    BY <1>1 DEF RootSim, Sound
  <2> QED
    BY <2>1, <2>2 DEF ROOT
<1>3. SimulationNodes(tree) \subseteq DOMAIN tree /\ IsFiniteSet(SimulationNodes(tree))
  BY <1>1, SimsOfTree
<1>4. SumOf(FoundAt(tree), SimulationNodes(tree)) \in Nat
  BY <1>2, <1>3, SumNat
<1> QED
  BY <1>2, <1>4 DEF SameCredits, BalancedStep

LEMMA CarriedStep ==
  ASSUME Inv, Inv', CountInv, Carries(tree, tree'), SameSelected(tree, tree'),
         IdsIn(tree', DOMAIN khmn'), DOMAIN khmn \subseteq DOMAIN khmn',
         \A id \in DOMAIN khmn : khmn'[id] = khmn[id],
         \A id \in DOMAIN khmn' \ DOMAIN khmn : khmn'[id] = 0,
         round' = round, pc # "seed", pc' # "seed",
         pc' \in {"fuzz", "dye"} /\ round > 0 =>
           pc \in {"m2", "fuzz", "dye"} /\ cur' = cur /\ curSeed' = curSeed,
         failed' = {} => failed = {} /\ (Choosing(pc') <=> Choosing(pc))
  PROVE  CountInv' /\ BalancedStep
<1>1. /\ Sound(Entries, tree) /\ Sound(Entries, tree') /\ cur \in DOMAIN tree
      /\ (pc = "m2" => curSeed \in DOMAIN tree[cur].seeds)
  BY DEF Inv, TypeOK
<1>2. Monotone(tree') /\ Credited(tree')
  BY <1>1, CarriesMonotone DEF CountInv
<1>3. KhmnCounts(tree', khmn')
  BY <1>1, CarriedKhmn DEF CountInv
<1>4. round' <= MaxRounds
  BY DEF CountInv
<1>5. ASSUME pc' \in {"fuzz", "dye"} /\ round' > 0
      PROVE  curSeed' \in DOMAIN tree'[cur'].seeds
  <2>1. pc \in {"m2", "fuzz", "dye"} /\ cur' = cur /\ curSeed' = curSeed /\ round > 0
    BY <1>5
  <2>2. curSeed \in DOMAIN tree[cur].seeds
    BY <1>1, <2>1 DEF CountInv
  <2>3. DOMAIN tree[cur].seeds \subseteq DOMAIN tree'[cur].seeds
    BY <1>1 DEF Carries, SameNode
  <2> QED
    BY <2>1, <2>2, <2>3
<1>6. ASSUME MaxRounds <= MaxSelected, failed' = {}
      PROVE  SelectionsAgree(tree', pc', cur', round')
  <2>1. failed = {} /\ (Choosing(pc') <=> Choosing(pc))
    BY <1>6
  <2>2. SelectionsAgree(tree, pc, cur, round)
    BY <1>6, <2>1 DEF CountInv
  <2>3. SelectionsAgree(tree', pc', cur', round)
    BY <1>1, <2>1, <2>2, CarriedSelections
  <2> QED
    BY <2>3
<1>7. BalancedStep
  BY <1>1, CarriedCredits, NothingCredited
<1> QED
  BY <1>2, <1>3, <1>4, <1>5, <1>6, <1>7 DEF CountInv

LEMMA InitCount ==
  ASSUME Init
  PROVE  CountInv
<1> DEFINE root == [NewNode(0, NoNode, White, <<0>>) EXCEPT !.sim = RootSim]
           sim == NewNode(SimId, ROOT, Golden, <<0>>)
           none == <<>>
<1>1. /\ tree = <<root, sim>> /\ pc = "dry" /\ round = 0
      /\ khmn = [id \in {0, SimId} |-> 0]
  BY DEF Init, InitialTree
<1>2. /\ root.id = 0 /\ root.colour = White /\ root.parent = NoNode
      /\ root.seeds = none /\ root.discovered = 0 /\ root.selected = 0
  BY DEF NewNode
<1>3. /\ sim.id = SimId /\ sim.colour = Golden /\ sim.parent = ROOT
      /\ sim.seeds = none /\ sim.discovered = 0 /\ sim.selected = 0
  BY DEF NewNode
<1>4. SelSum(none) = 0 /\ FoundSum(none) = 0
  BY NoSeeds
<1> HIDE DEF root, sim, none
<1>5. DOMAIN tree = {ROOT, RootSim} /\ tree[ROOT] = root /\ tree[RootSim] = sim
  BY <1>1 DEF ROOT, RootSim
<1>6. ResponseNodes(tree) = {ROOT} /\ SimulationNodes(tree) = {RootSim}
  <2>1. White # Golden /\ ROOT # RootSim
    BY DEF White, Golden, ROOT, RootSim
  <2> QED
    BY <1>2, <1>3, <1>5, <2>1 DEF ResponseNodes, SimulationNodes
<1>7. Monotone(tree) /\ Credited(tree)
  BY <1>3, <1>4, <1>5, <1>6 DEF Monotone, Credited
<1>8. IdsIn(tree, DOMAIN khmn)
  BY <1>1, <1>2, <1>3, <1>5 DEF IdsIn
<1>9. \A S : S \subseteq {RootSim} => SumOf(SelAt(tree), S) = 0
  <2> SUFFICES ASSUME NEW S, S \subseteq {RootSim}
               PROVE  SumOf(SelAt(tree), S) = 0
    OBVIOUS
  <2>1. IsFiniteSet({RootSim})
    BY FS_Singleton
  <2>2. IsFiniteSet(S)
    BY <2>1, FS_Subset
  <2>3. \A x \in S : SelAt(tree)[x] = 0
    BY <1>3, <1>4, <1>5 DEF SelAt
  <2> QED
    BY <2>2, <2>3, SumZero
<1>10. KhmnCounts(tree, khmn)
  <2>1. \A id : SimsUnder(tree, id) \subseteq {RootSim}
    BY <1>6 DEF SimsUnder
  <2>2. \A id : SumOf(SelAt(tree), SimsUnder(tree, id)) = 0
    BY <1>9, <2>1
  <2> QED
    BY <1>1, <2>2 DEF KhmnCounts
<1>11. SelectionsAgree(tree, pc, cur, round)
  <2>1. SumOf(SelAt(tree), SimulationNodes(tree)) = 0
    BY <1>6, <1>9
  <2>2. OwedIn(pc) = 0 /\ \A s : ExtraIn(pc, cur, s) = 0
    BY <1>1 DEF OwedIn, ExtraIn, Choosing
  <2> QED
    BY <1>1, <1>2, <1>3, <1>4, <1>5, <1>6, <2>1, <2>2 DEF SelectionsAgree
<1>12. round <= MaxRounds /\ round = 0
  BY <1>1, OptionsAssumption
<1> QED
  BY <1>7, <1>8, <1>10, <1>11, <1>12 DEF CountInv

(* The same ids in a tree of the same shape.                               *)
LEMMA SameIds ==
  ASSUME NEW t, NEW u, NEW ids, IdsIn(t, ids), Carries(t, u), DOMAIN u \subseteq DOMAIN t
  PROVE  IdsIn(u, ids)
  BY DEF IdsIn, Carries, SameNode

LEMMA BeginExpansionCount ==
  ASSUME Inv, Inv', CountInv, NEW e \in Entries, DryRunEntry(e) \/ FuzzEntry(e)
  PROVE  CountInv' /\ BalancedStep
<1> DEFINE one  == 1
           seed == NewSeed(e, one)
           n    == RootSim
           u    == AddSeed(tree, n, seed)
<1>1. /\ pc \in {"dry", "fuzz"} /\ BeginExpansion(e)
  BY DEF DryRunEntry, FuzzEntry
<1>2. Sound(Entries, tree) /\ (pc = "dry" => round = 0)
  BY DEF Inv
<1>3. /\ tree' = u /\ pc' = "dye" /\ khmn' = khmn /\ round' = round
      /\ cur' = cur /\ curSeed' = curSeed /\ failed' = failed
  BY <1>1, <1>2 DEF BeginExpansion, Sound
<1>4. n \in DOMAIN tree
  BY <1>2, TreeNodes DEF ROOT, RootSim, Sound
<1>5. seed \in SeedRec(Entries) /\ seed.selected = 0 /\ seed.discovered = 0
  <2>1. one \in Nat
    OBVIOUS
  <2> HIDE DEF one
  <2> QED
    BY <2>1, NewSeedType
<1> HIDE DEF seed, n
<1>6. Carries(tree, u) /\ SameSelected(tree, u)
  BY <1>2, <1>4, <1>5, AddSeedCarries
<1>7. DOMAIN u = DOMAIN tree
  BY <1>2, <1>4, <1>5, AddSeedKeeps DEF SameShape
<1> HIDE DEF u
<1>8. IdsIn(tree', DOMAIN khmn')
  BY <1>3, <1>6, <1>7, SameIds DEF CountInv
<1>9. Carries(tree, tree') /\ SameSelected(tree, tree')
  BY <1>3, <1>6
<1>10. pc' \in {"fuzz", "dye"} /\ round > 0 =>
         pc \in {"m2", "fuzz", "dye"} /\ cur' = cur /\ curSeed' = curSeed
  BY <1>1, <1>2, <1>3
<1>11. failed' = {} => failed = {} /\ (Choosing(pc') <=> Choosing(pc))
  BY <1>1, <1>3 DEF Choosing
<1>12. /\ DOMAIN khmn \subseteq DOMAIN khmn'
       /\ \A id \in DOMAIN khmn : khmn'[id] = khmn[id]
       /\ \A id \in DOMAIN khmn' \ DOMAIN khmn : khmn'[id] = 0
       /\ round' = round /\ pc # "seed" /\ pc' # "seed"
  BY <1>1, <1>3
<1> QED
  BY <1>8, <1>9, <1>10, <1>11, <1>12, CarriedStep

(* Steps that leave the tree and khmn alone.                               *)
LEMMA UntouchedCount ==
  ASSUME Inv, Inv', CountInv, tree' = tree, khmn' = khmn, round' = round,
         pc # "seed", pc' # "seed",
         pc' \in {"fuzz", "dye"} /\ round > 0 =>
           pc \in {"m2", "fuzz", "dye"} /\ cur' = cur /\ curSeed' = curSeed,
         failed' = {} => failed = {} /\ (Choosing(pc') <=> Choosing(pc))
  PROVE  CountInv' /\ BalancedStep
<1>1. Carries(tree, tree') /\ SameSelected(tree, tree')
  BY CarriesSelf
<1>2. IdsIn(tree', DOMAIN khmn')
  BY DEF CountInv
<1>3. /\ DOMAIN khmn \subseteq DOMAIN khmn'
      /\ \A id \in DOMAIN khmn : khmn'[id] = khmn[id]
      /\ \A id \in DOMAIN khmn' \ DOMAIN khmn : khmn'[id] = 0
  OBVIOUS
<1> QED
  BY <1>1, <1>2, <1>3, CarriedStep

LEMMA QuietCount ==
  ASSUME Plain, Inv, Inv', TrieInv, CountInv, FindM2 \/ StartFuzzing \/ EndFuzz \/ Stop
  PROVE  CountInv' /\ BalancedStep
<1>1. /\ khmn' = khmn /\ round' = round /\ cur' = cur /\ curSeed' = curSeed
      /\ tree' = tree
  BY DEF FindM2, StartFuzzing, EndFuzz, Stop
<1>2. failed' = failed
  <2>1. CASE FindM2
    BY <2>1, FindM2Passes
  <2>2. CASE StartFuzzing \/ EndFuzz \/ Stop
    BY <2>2 DEF StartFuzzing, EndFuzz, Stop
  <2> QED
    BY <2>1, <2>2
<1>3. \/ pc = "m2" /\ pc' = "fuzz"
      \/ pc \in {"dry", "main", "fuzz"} /\ pc' \in {"main", "stopped"}
  <2>1. CASE FindM2
    BY <2>1, FindM2Passes
  <2>2. CASE StartFuzzing \/ EndFuzz \/ Stop
    BY <2>2 DEF StartFuzzing, EndFuzz, Stop
  <2> QED
    BY <2>1, <2>2
<1>4. pc' \in {"fuzz", "dye"} /\ round > 0 =>
        pc \in {"m2", "fuzz", "dye"} /\ cur' = cur /\ curSeed' = curSeed
  BY <1>1, <1>3
<1>5. failed' = {} => failed = {} /\ (Choosing(pc') <=> Choosing(pc))
  BY <1>2, <1>3 DEF Choosing
<1>6. pc # "seed" /\ pc' # "seed"
  BY <1>3
<1> QED
  BY <1>1, <1>4, <1>5, <1>6, UntouchedCount

LEMMA StutterCount ==
  ASSUME CountInv, UNCHANGED vars, Inv, Inv'
  PROVE  CountInv' /\ BalancedStep
<1>1. /\ tree' = tree /\ pc' = pc /\ cur' = cur /\ curSeed' = curSeed
      /\ khmn' = khmn /\ round' = round /\ failed' = failed
  BY DEF vars
<1>2. CountInv'
  BY <1>1 DEF CountInv
<1>3. SameCredits(tree, tree')
  BY <1>1 DEF SameCredits
<1> QED
  BY <1>2, <1>3, NothingCredited

LEMMA DyeCount ==
  ASSUME Plain, Inv, Inv', TrieInv, CountInv, Dye
  PROVE  CountInv' /\ BalancedStep
<1> DEFINE t     == Reopen(tree, ex)
           node  == Target(t, ex)
           grow  == Grow(t, ex)
           grown == Whiten(grow, node, ex)
           code  == ex.entry.codes[ex.k]
<1>1. /\ GoodFrame(ex, tree) /\ Sound(Entries, tree)
      /\ GoodFrame(ex, t) /\ Sound(Entries, t)
      /\ Sound(Entries, grow) /\ node \in ResponseNodes(grow)
      /\ Sound(Entries, grown) /\ IsTrie(grown) /\ node \in ResponseNodes(grown)
      /\ tree' = Sow(grown, node, ex)
  BY DyeParts
<1>2. /\ khmn' = IF Fresh(t, ex) /\ code \notin DOMAIN khmn
                 THEN [id \in (DOMAIN khmn) \cup {code} |-> IF id = code THEN 0 ELSE khmn[id]]
                 ELSE khmn
      /\ cur' = cur /\ curSeed' = curSeed /\ round' = round /\ pc = "dye"
  BY DEF Dye
<1>3. failed' = failed /\ pc' = "dye"
  BY DyeGrows
<1>4. Carries(tree, t) /\ SameSelected(tree, t) /\ DOMAIN t = DOMAIN tree
  BY <1>1, ReopenCarries
<1> HIDE DEF t
<1>5. /\ Carries(t, grow) /\ SameSelected(t, grow)
      /\ \A m \in DOMAIN grow \ DOMAIN t : Fresh(t, ex) /\ grow[m].id \in {code, SimId}
  BY <1>1, GrowCarries
<1> HIDE DEF grow, node
<1>6. node \in DOMAIN grow /\ node \in DOMAIN grown
  BY <1>1 DEF ResponseNodes
<1>7. /\ Carries(grow, grown) /\ SameSelected(grow, grown)
      /\ \A m \in DOMAIN grown \ DOMAIN grow : grown[m].id = SimId
  BY <1>1, <1>6, WhitenCarries
<1> HIDE DEF grown
<1>8. /\ Carries(grown, tree') /\ SameSelected(grown, tree')
      /\ DOMAIN tree' \subseteq DOMAIN grown
  BY <1>1, <1>6, SowCarries
<1>9. Carries(tree, tree') /\ SameSelected(tree, tree')
  <2>1. Carries(tree, grow) /\ SameSelected(tree, grow)
    BY <1>4, <1>5, CarriesTrans, SameSelectedTrans
  <2>2. Carries(tree, grown) /\ SameSelected(tree, grown)
    BY <1>7, <2>1, CarriesTrans, SameSelectedTrans
  <2> QED
    BY <1>8, <2>2, CarriesTrans, SameSelectedTrans
<1> HIDE DEF code
<1>10. /\ DOMAIN khmn \subseteq DOMAIN khmn'
       /\ \A id \in DOMAIN khmn : khmn'[id] = khmn[id]
       /\ \A id \in DOMAIN khmn' \ DOMAIN khmn : khmn'[id] = 0
       /\ (Fresh(t, ex) => code \in DOMAIN khmn')
  <2>1. CASE Fresh(t, ex) /\ code \notin DOMAIN khmn
    BY <1>2, <2>1
  <2>2. CASE ~(Fresh(t, ex) /\ code \notin DOMAIN khmn)
    BY <1>2, <2>2
  <2> QED
    BY <2>1, <2>2
<1>11. SimId \in DOMAIN khmn
  <2>1. Simulates(tree, RootSim) /\ RootSim \in DOMAIN tree
    BY <1>1, LenProperties DEF TrieInv, IsTrie, Sound, ROOT, RootSim, ResponseNodes, White, Golden
  <2> QED
    BY <2>1 DEF Simulates, CountInv, IdsIn
<1>12. IdsIn(tree', DOMAIN khmn')
  <2>1. IdsIn(tree, DOMAIN khmn')
    BY <1>10 DEF CountInv, IdsIn
  <2>2. IdsIn(t, DOMAIN khmn')
    BY <1>4, <2>1, SameIds
  <2>3. IdsIn(grow, DOMAIN khmn')
    BY <1>5, <1>10, <1>11, <2>2 DEF IdsIn, Carries, SameNode
  <2>4. IdsIn(grown, DOMAIN khmn')
    BY <1>7, <1>10, <1>11, <2>3 DEF IdsIn, Carries, SameNode
  <2> QED
    BY <1>8, <2>4, SameIds
<1>13. pc' \in {"fuzz", "dye"} /\ round > 0 =>
         pc \in {"m2", "fuzz", "dye"} /\ cur' = cur /\ curSeed' = curSeed
  BY <1>2
<1>14. failed' = {} => failed = {} /\ (Choosing(pc') <=> Choosing(pc))
  BY <1>2, <1>3
<1>15. round' = round /\ pc # "seed" /\ pc' # "seed"
  BY <1>2, <1>3
<1> QED
  BY <1>9, <1>10, <1>12, <1>13, <1>14, <1>15, CarriedStep

LEMMA ClimbCount ==
  ASSUME Inv, Inv', CountInv, Climb
  PROVE  CountInv' /\ BalancedStep
<1> DEFINE p    == Parent(tree, cur)
           done == IsFullyExplored(tree, p)
           next == IF done THEN "climb" ELSE "select"
           bad  == When((~tree[p].explored /\ tree[p].colour = Black)
                          /\ Cardinality(Children(tree, p)) # 1, "one_child")
           b    == TRUE
           u    == SetExplored(tree, p, b)
<1>1. /\ pc = "climb" /\ Check(bad, next) /\ khmn' = khmn /\ round' = round
      /\ tree' = IF done /\ pc' # "aborted" THEN u ELSE tree
  BY DEF Climb
<1>2. Sound(Entries, tree) /\ cur \in DOMAIN tree /\ cur # ROOT
  BY <1>1 DEF Inv, TypeOK
<1>3. p \in DOMAIN tree /\ b \in BOOLEAN
  BY <1>2 DEF Sound, Parent
<1>4. next \in {"climb", "select"}
  OBVIOUS
<1>5. (failed' = {} => failed = {} /\ bad = {}) /\ pc' \in {"aborted", "climb", "select"}
      /\ (bad = {} => pc' = next)
  <2> HIDE DEF bad, next
  <2> QED
    BY <1>1, <1>4 DEF Check
<1> HIDE DEF p, done, next, bad, b
<1>6. Carries(tree, u) /\ SameSelected(tree, u) /\ DOMAIN u = DOMAIN tree
  BY <1>2, <1>3, SetExploredCarries, SetExploredKeeps DEF SameShape
<1> HIDE DEF u
<1>7. Carries(tree, tree) /\ SameSelected(tree, tree)
  BY CarriesSelf
<1>8. Carries(tree, tree') /\ SameSelected(tree, tree') /\ DOMAIN tree' = DOMAIN tree
  <2>1. CASE tree' = u
    BY <1>6, <2>1
  <2>2. CASE tree' = tree
    BY <1>7, <2>2
  <2> QED
    BY <1>1, <2>1, <2>2
<1>9. IdsIn(tree', DOMAIN khmn')
  BY <1>1, <1>8, SameIds DEF CountInv
<1>10. pc' \in {"fuzz", "dye"} /\ round > 0 =>
         pc \in {"m2", "fuzz", "dye"} /\ cur' = cur /\ curSeed' = curSeed
  BY <1>5
<1>11. failed' = {} => failed = {} /\ (Choosing(pc') <=> Choosing(pc))
  BY <1>1, <1>4, <1>5 DEF Choosing
<1>12. /\ DOMAIN khmn \subseteq DOMAIN khmn'
       /\ \A id \in DOMAIN khmn : khmn'[id] = khmn[id]
       /\ \A id \in DOMAIN khmn' \ DOMAIN khmn : khmn'[id] = 0
       /\ round' = round /\ pc # "seed" /\ pc' # "seed"
  BY <1>1, <1>5
<1> QED
  BY <1>8, <1>9, <1>10, <1>11, <1>12, CarriedStep

(* The root is selected: a round begins.                                   *)
LEMMA BeginSelectionCount ==
  ASSUME Inv, Inv', TrieInv, CountInv, BeginSelection
  PROVE  CountInv' /\ BalancedStep
<1> DEFINE n == ROOT
           u == CountSelection(tree, n)
<1>1. /\ pc = "main" /\ pc' = "select" /\ round < MaxRounds /\ round' = round + 1
      /\ tree' = u /\ khmn' = khmn /\ failed' = failed
  BY DEF BeginSelection
<1>2. Sound(Entries, tree) /\ Sound(Entries, tree') /\ round \in Nat /\ round' \in Nat
  BY DEF Inv, TypeOK
<1>3. n \in DOMAIN tree
  BY <1>2, TreeNodes DEF ROOT, RootSim, Sound
<1>4. \A s \in SimulationNodes(tree) : s # n /\ s \in DOMAIN tree
  BY <1>2, SimsOfTree
<1> HIDE DEF n
<1>5. Carries(tree, tree') /\ OnlyCounts(tree, u)
  BY <1>1, <1>2, <1>3, CountSelectionCarries, CountSelectionKeeps
<1>6. MaxSelected \in Nat /\ MaxRounds \in Nat
  BY MaxSelectedAssumption, OptionsAssumption
<1>7. tree[n].selected < MaxSelected =>
        /\ u[n].selected = tree[n].selected + 1
        /\ \A m \in DOMAIN tree \ {n} : u[m].selected = tree[m].selected
  BY <1>2, <1>3, CountSelectionCounts
<1>8. SimulationNodes(tree') = SimulationNodes(tree) /\ DOMAIN tree' = DOMAIN tree
  BY <1>1, <1>5 DEF OnlyCounts, SameShape, SimulationNodes, ResponseNodes
<1> HIDE DEF u
<1>9. Monotone(tree') /\ Credited(tree')
  BY <1>2, <1>5, CarriesMonotone DEF CountInv
<1>10. IdsIn(tree', DOMAIN khmn')
  BY <1>1, <1>5, <1>8, SameIds DEF CountInv
<1>11. KhmnCounts(tree', khmn')
  <2>1. DOMAIN khmn \subseteq DOMAIN khmn' /\ khmn' = khmn
    BY <1>1
  <2> QED
    BY <1>2, <1>5, <2>1, CarriedKhmn DEF CountInv
<1>12. round' <= MaxRounds
  BY <1>1, <1>2, <1>6
<1>13. ASSUME MaxRounds <= MaxSelected, failed' = {}
       PROVE  SelectionsAgree(tree', pc', cur', round')
  <2>1. SelectionsAgree(tree, pc, cur, round)
    BY <1>1, <1>13 DEF CountInv
  <2>2. tree[n].selected = round
    BY <2>1 DEF SelectionsAgree, n
  <2>3. tree[n].selected < MaxSelected
    BY <1>1, <1>2, <1>6, <1>13, <2>2
  <2>4. tree'[n].selected = round'
    BY <1>1, <1>7, <2>2, <2>3
  <2>5. SumOf(SelAt(tree), SimulationNodes(tree)) = round
    <3>1. SumOf(SelAt(tree), SimulationNodes(tree)) \in Nat
      BY <1>2, <1>4, TreeNodes, SimsOfTree, SumNat
    <3>2. SumOf(SelAt(tree), SimulationNodes(tree)) + OwedIn(pc) = round
      BY <2>1 DEF SelectionsAgree
    <3>3. OwedIn(pc) = 0
      BY <1>1 DEF OwedIn, Choosing
    <3> QED
      BY <3>1, <3>2, <3>3
  <2>6. SumOf(SelAt(tree'), SimulationNodes(tree')) = round
    BY <1>2, <1>5, <2>5, SameTotals
  <2>7. OwedIn(pc') = 1 /\ \A s : ExtraIn(pc', cur', s) = 0 /\ ExtraIn(pc, cur, s) = 0
    BY <1>1 DEF OwedIn, Choosing, ExtraIn
  <2>8. \A s \in SimulationNodes(tree') : tree'[s].selected = SelSum(tree'[s].seeds) + ExtraIn(pc', cur', s)
    <3> SUFFICES ASSUME NEW s \in SimulationNodes(tree)
                 PROVE  tree'[s].selected = SelSum(tree'[s].seeds) + ExtraIn(pc', cur', s)
      BY <1>8
    <3>1. tree'[s].selected = tree[s].selected
      BY <1>1, <1>4, <1>7, <2>3
    <3>2. SelSum(tree'[s].seeds) = SelSum(tree[s].seeds)
      BY <1>4, <1>5 DEF Carries, SameNode
    <3> QED
      BY <2>1, <2>7, <3>1, <3>2 DEF SelectionsAgree
  <2> QED
    BY <1>1, <2>4, <2>6, <2>7, <2>8 DEF SelectionsAgree, n
<1>14. BalancedStep
  BY <1>2, <1>5, CarriedCredits, NothingCredited
<1>15. pc' \notin {"fuzz", "dye"}
  BY <1>1
<1> QED
  BY <1>9, <1>10, <1>11, <1>12, <1>13, <1>14, <1>15 DEF CountInv

LEMMA CountSelectionOthers ==
  ASSUME NEW E, NEW t, Sound(E, t), NEW n \in DOMAIN t
  PROVE  \A m \in DOMAIN t \ {n} : CountSelection(t, n)[m].selected = t[m].selected
<1> DEFINE c == IF t[n].selected < MaxSelected THEN t[n].selected + 1 ELSE t[n].selected
           r == [t[n] EXCEPT !.selected = c]
<1>1. CountSelection(t, n) = [t EXCEPT ![n] = r]
  BY DEF CountSelection
<1> HIDE DEF r
<1> QED
  BY <1>1, NodeReplaced

(* While a round looks for its seed, no simulation node was selected more   *)
(* often than there are rounds: the bound of the counters is not met.      *)
LEMMA SimulationBelowBound ==
  ASSUME NEW E, NEW t, Sound(E, t), NEW where, NEW c, NEW r \in Nat, r <= MaxRounds,
         MaxRounds <= MaxSelected, where = "select", SelectionsAgree(t, where, c, r),
         NEW s \in SimulationNodes(t)
  PROVE  /\ t[s].selected = SelSum(t[s].seeds)
         /\ t[s].selected < MaxSelected
<1>1. MaxSelected \in Nat /\ MaxRounds \in Nat
  BY MaxSelectedAssumption, OptionsAssumption
<1> DEFINE S == SimulationNodes(t)
<1>2. /\ S \subseteq DOMAIN t /\ IsFiniteSet(S)
      /\ \A n \in DOMAIN t : SelAt(t)[n] \in Nat /\ SelAt(t)[n] = SelSum(t[n].seeds)
  BY TreeNodes, SimsOfTree
<1>3. SumOf(SelAt(t), S) + OwedIn(where) = r /\ OwedIn(where) = 1
  BY DEF SelectionsAgree, OwedIn, Choosing
<1>4. ExtraIn(where, c, s) = 0 /\ t[s].selected = SelSum(t[s].seeds) + ExtraIn(where, c, s)
  BY DEF SelectionsAgree, ExtraIn
<1>5. s \in S
  OBVIOUS
<1> HIDE DEF S
<1>6. SumOf(SelAt(t), S) \in Nat /\ SelAt(t)[s] <= SumOf(SelAt(t), S)
  BY <1>2, <1>5, SumNat
<1>7. SelAt(t)[s] \in Nat /\ SelAt(t)[s] = SelSum(t[s].seeds)
  BY <1>2, <1>5
<1>8. t[s].selected = SelAt(t)[s]
  BY <1>4, <1>7
<1> QED
  BY <1>1, <1>3, <1>6, <1>7, <1>8

LEMMA DescendCount ==
  ASSUME Inv, Inv', TrieInv, CountInv, Descend
  PROVE  CountInv' /\ BalancedStep
<1>1. PICK c \in BestChildren(tree, cur) :
        /\ cur' = c
        /\ tree' = CountSelection(tree, c)
        /\ Check(When(NegInf(tree, c) /\ tree[Parent(tree, c)].colour # Black,
                      "best_child_score"),
                 CASE NegInf(tree, c) -> "climb"
                   [] ~NegInf(tree, c) /\ tree[c].colour = Golden -> "seed"
                   [] OTHER -> "select")
  BY DEF Descend
<1> DEFINE u    == CountSelection(tree, c)
           lost == NegInf(tree, c) /\ tree[Parent(tree, c)].colour # Black
           bad  == When(lost, "best_child_score")
           next == CASE NegInf(tree, c) -> "climb"
                     [] ~NegInf(tree, c) /\ tree[c].colour = Golden -> "seed"
                     [] OTHER -> "select"
<1>2. /\ pc = "select" /\ khmn' = khmn /\ round' = round
      /\ tree' = u /\ cur' = c
  BY <1>1 DEF Descend
<1>3. /\ Sound(Entries, tree) /\ Sound(Entries, tree') /\ IsTrie(tree)
      /\ round \in Nat /\ cur \in DOMAIN tree
  BY DEF Inv, TypeOK, TrieInv
<1>4. c \in DOMAIN tree /\ c # ROOT /\ ROOT \in DOMAIN tree
  <2>1. c \in DOMAIN tree /\ tree[c].parent = cur
    BY BestChildrenAreChildren DEF Children
  <2>2. ROOT \in DOMAIN tree /\ \A n \in DOMAIN tree : n \in Nat /\ n # NoNode
    BY <1>3, LenProperties DEF Sound, ROOT, RootSim, NoNode
  <2> QED
    BY <1>3, <2>1, <2>2 DEF Sound
<1>5. /\ next \in {"climb", "seed", "select"}
      /\ (next = "seed" => tree[c].colour = Golden)
      /\ (next # "seed" /\ tree[c].colour = Golden => NegInf(tree, c))
  OBVIOUS
<1>6. tree[c].colour = Golden => tree[Parent(tree, c)].colour = White
  BY <1>3, <1>4 DEF IsTrie, Simulates, SimulationNodes, ResponseNodes, Parent
<1>7. /\ pc' \in {"aborted", "climb", "seed", "select"}
      /\ (failed' = {} => failed = {} /\ ~lost /\ pc' = next)
  <2>1. bad = {} => ~lost
    BY DEF When
  <2>2. Check(bad, next)
    BY <1>1
  <2> HIDE DEF bad, next, lost
  <2> QED
    BY <1>5, <2>1, <2>2 DEF Check
<1>8. failed' = {} => (pc' = "seed" <=> tree[c].colour = Golden)
  <2>1. ~lost /\ tree[c].colour = Golden => ~NegInf(tree, c)
    BY <1>6 DEF White, Black
  <2> HIDE DEF lost, next
  <2> QED
    BY <1>5, <1>7, <2>1
<1> HIDE DEF next, bad, lost
<1>9. Carries(tree, tree') /\ OnlyCounts(tree, u)
  BY <1>2, <1>3, <1>4, CountSelectionCarries, CountSelectionKeeps
<1>10. \A m \in DOMAIN tree \ {c} : tree'[m].selected = tree[m].selected
  BY <1>2, <1>3, <1>4, CountSelectionOthers
<1>11. tree[c].selected < MaxSelected => tree'[c].selected = tree[c].selected + 1
  BY <1>2, <1>3, <1>4, CountSelectionCounts
<1>12. /\ DOMAIN tree' = DOMAIN tree /\ SimulationNodes(tree') = SimulationNodes(tree)
       /\ SimulationNodes(tree) \subseteq DOMAIN tree
  BY <1>2, <1>9 DEF OnlyCounts, SameShape, SimulationNodes, ResponseNodes
<1> HIDE DEF u
<1>13. Monotone(tree') /\ Credited(tree')
  BY <1>3, <1>9, CarriesMonotone DEF CountInv
<1>14. IdsIn(tree', DOMAIN khmn')
  BY <1>2, <1>9, <1>12, SameIds DEF CountInv
<1>15. KhmnCounts(tree', khmn')
  <2>1. DOMAIN khmn \subseteq DOMAIN khmn' /\ khmn' = khmn
    BY <1>2
  <2> QED
    BY <1>3, <1>9, <2>1, CarriedKhmn DEF CountInv
<1>16. round' <= MaxRounds /\ round <= MaxRounds
  BY <1>2 DEF CountInv
<1>17. ASSUME MaxRounds <= MaxSelected, failed' = {}
       PROVE  SelectionsAgree(tree', pc', cur', round')
  <2>1. SelectionsAgree(tree, pc, cur, round)
    BY <1>7, <1>17 DEF CountInv
  <2>2. tree'[ROOT].selected = round'
    BY <1>2, <1>4, <1>10, <2>1 DEF SelectionsAgree
  <2>3. SumOf(SelAt(tree'), SimulationNodes(tree')) + OwedIn(pc') = round'
    <3>1. OwedIn(pc') = OwedIn(pc)
      BY <1>2, <1>5, <1>7, <1>17 DEF OwedIn, Choosing
    <3>2. SumOf(SelAt(tree'), SimulationNodes(tree')) = SumOf(SelAt(tree), SimulationNodes(tree))
      BY <1>3, <1>9, SameTotals
    <3> QED
      BY <1>2, <2>1, <3>1, <3>2 DEF SelectionsAgree
  <2>4. ASSUME NEW s \in SimulationNodes(tree)
        PROVE  tree'[s].selected = SelSum(tree'[s].seeds) + ExtraIn(pc', cur', s)
    <3>1. tree[s].selected = SelSum(tree[s].seeds) /\ tree[s].selected < MaxSelected
      BY <1>2, <1>3, <1>16, <1>17, <2>1, SimulationBelowBound
    <3>2. SelSum(tree'[s].seeds) = SelSum(tree[s].seeds) /\ SelSum(tree[s].seeds) \in Nat
      BY <1>3, <1>9, <1>12, TreeNodes DEF Carries, SameNode
    <3>3. CASE s = c
      <4>1. tree[c].colour = Golden
        BY <3>3 DEF SimulationNodes, ResponseNodes
      <4>2. pc' = "seed" /\ cur' = s
        BY <1>2, <1>8, <1>17, <3>3, <4>1
      <4>3. ExtraIn(pc', cur', s) = 1
        BY <4>2 DEF ExtraIn
      <4>4. tree'[s].selected = tree[s].selected + 1
        BY <1>11, <3>1, <3>3
      <4> QED
        BY <3>1, <3>2, <4>3, <4>4
    <3>4. CASE s # c
      <4>1. ExtraIn(pc', cur', s) = 0
        BY <1>2, <3>4 DEF ExtraIn
      <4>2. tree'[s].selected = tree[s].selected
        BY <1>10, <1>12, <3>4
      <4> QED
        BY <3>1, <3>2, <4>1, <4>2
    <3> QED
      BY <3>3, <3>4
  <2> QED
    BY <1>12, <2>2, <2>3, <2>4 DEF SelectionsAgree
<1>18. BalancedStep
  BY <1>3, <1>9, CarriedCredits, NothingCredited
<1>19. pc' \notin {"fuzz", "dye"}
  BY <1>7
<1> QED
  BY <1>13, <1>14, <1>15, <1>16, <1>17, <1>18, <1>19 DEF CountInv

(* The seed is chosen: the round is accounted for.                         *)
LEMMA SelectSeedCount ==
  ASSUME Inv, Inv', TrieInv, CountInv, SelectSeed
  PROVE  CountInv' /\ BalancedStep
<1>1. PICK s \in BestSeeds(tree, cur) :
        curSeed' = s /\ tree' = CountSeedSelection(tree, cur, s)
  BY DEF SelectSeed
<1> DEFINE u  == CountSeedSelection(tree, cur, s)
           id == tree[tree[cur].parent].id
<1>2. /\ pc = "seed" /\ pc' = "m2" /\ cur' = cur /\ round' = round /\ failed' = failed
      /\ tree' = u /\ khmn' = [khmn EXCEPT ![id] = @ + 1]
  BY <1>1 DEF SelectSeed, Parent
<1>3. /\ Sound(Entries, tree) /\ Sound(Entries, tree') /\ cur \in DOMAIN tree
      /\ tree[cur].colour = Golden /\ cur \in SimulationNodes(tree) /\ round \in Nat
      /\ khmn \in [DOMAIN khmn -> Nat]
  BY <1>2 DEF Inv, TypeOK, TrieInv, SimulationNodes, ResponseNodes
<1>4. s \in DOMAIN tree[cur].seeds
  BY BestSeedsAreSeeds
<1>5. /\ SameShape(tree, tree')
      /\ \A m \in DOMAIN tree : /\ tree'[m].discovered = tree[m].discovered
                               /\ tree'[m].selected = tree[m].selected
                               /\ FoundSum(tree'[m].seeds) = FoundSum(tree[m].seeds)
      /\ SelSum(tree'[cur].seeds) = SelSum(tree[cur].seeds) + 1
      /\ \A m \in DOMAIN tree \ {cur} : SelSum(tree'[m].seeds) = SelSum(tree[m].seeds)
  BY <1>2, <1>3, <1>4, SeedSelected
<1>6. /\ cur # ROOT /\ tree[cur].parent \in DOMAIN tree /\ ROOT \in DOMAIN tree
      /\ \A n \in SimulationNodes(tree) : n \in DOMAIN tree
  <2>1. cur # ROOT /\ tree[cur].parent \in DOMAIN tree
    BY <1>3, SimsOfTree
  <2>2. \A n \in SimulationNodes(tree) : n \in DOMAIN tree
    BY DEF SimulationNodes
  <2>3. ROOT \in DOMAIN tree
    BY <1>3, TreeNodes DEF ROOT, RootSim, Sound
  <2> QED
    BY <2>1, <2>2, <2>3
<1>7. /\ DOMAIN tree' = DOMAIN tree /\ SimulationNodes(tree') = SimulationNodes(tree)
      /\ ResponseNodes(tree') = ResponseNodes(tree)
      /\ \A m \in DOMAIN tree : tree'[m].id = tree[m].id /\ tree'[m].parent = tree[m].parent
  BY <1>5 DEF SameShape, SimulationNodes, ResponseNodes
<1> HIDE DEF u
<1>8. /\ SumOf(SelAt(tree'), SimulationNodes(tree')) = SumOf(SelAt(tree), SimulationNodes(tree)) + 1
      /\ \A i : SumOf(SelAt(tree'), SimsUnder(tree', i))
                = SumOf(SelAt(tree), SimsUnder(tree, i)) + (IF id = i THEN 1 ELSE 0)
  BY <1>3, <1>5, SelectedTotals
<1>9. id \in DOMAIN khmn
  BY <1>6 DEF CountInv, IdsIn
<1> HIDE DEF id
<1>10. /\ DOMAIN khmn' = DOMAIN khmn /\ khmn'[id] = khmn[id] + 1
       /\ \A i \in DOMAIN khmn \ {id} : khmn'[i] = khmn[i]
       /\ \A i \in DOMAIN khmn : khmn[i] \in Nat
  BY <1>2, <1>3, <1>9
<1>11. Monotone(tree')
  <2> SUFFICES ASSUME NEW n \in ResponseNodes(tree) \ {ROOT}
               PROVE  tree'[n].discovered <= tree'[tree'[n].parent].discovered
    BY <1>7 DEF Monotone
  <2>1. n \in DOMAIN tree /\ tree[n].parent \in DOMAIN tree
    BY <1>3 DEF ResponseNodes, Sound
  <2> QED
    BY <1>5, <1>7, <2>1 DEF CountInv, Monotone
<1>12. Credited(tree')
  BY <1>5, <1>6, <1>7 DEF CountInv, Credited
<1>13. IdsIn(tree', DOMAIN khmn')
  BY <1>7, <1>10 DEF CountInv, IdsIn
<1>14. KhmnCounts(tree', khmn')
  <2> SUFFICES ASSUME NEW i \in DOMAIN khmn
               PROVE  khmn'[i] = SumOf(SelAt(tree'), SimsUnder(tree', i))
    BY <1>10 DEF KhmnCounts
  <2>1. khmn[i] = SumOf(SelAt(tree), SimsUnder(tree, i))
    BY DEF CountInv, KhmnCounts
  <2>2. CASE i = id
    BY <1>8, <1>10, <2>1, <2>2
  <2>3. CASE i # id
    <3>1. SumOf(SelAt(tree'), SimsUnder(tree', i)) = khmn[i] + 0 /\ khmn[i] \in Nat
      BY <1>8, <1>10, <2>1, <2>3
    <3> QED
      BY <1>10, <2>3, <3>1
  <2> QED
    BY <2>2, <2>3
<1>15. round' <= MaxRounds
  BY <1>2 DEF CountInv
<1>16. ASSUME MaxRounds <= MaxSelected, failed' = {}
       PROVE  SelectionsAgree(tree', pc', cur', round')
  <2>1. SelectionsAgree(tree, pc, cur, round)
    BY <1>2, <1>16 DEF CountInv
  <2>2. OwedIn(pc) = 1 /\ OwedIn(pc') = 0
    BY <1>2 DEF OwedIn, Choosing
  <2>3. tree'[ROOT].selected = round'
    BY <1>2, <1>5, <1>6, <2>1 DEF SelectionsAgree
  <2>4. SumOf(SelAt(tree'), SimulationNodes(tree')) + OwedIn(pc') = round'
    BY <1>2, <1>3, <1>8, <2>1, <2>2 DEF SelectionsAgree
  <2>5. ASSUME NEW n \in SimulationNodes(tree)
        PROVE  tree'[n].selected = SelSum(tree'[n].seeds) + ExtraIn(pc', cur', n)
    <3>1. ExtraIn(pc', cur', n) = 0
      BY <1>2 DEF ExtraIn
    <3>2. tree[n].selected = SelSum(tree[n].seeds) + ExtraIn(pc, cur, n)
      BY <2>1 DEF SelectionsAgree
    <3>3. tree'[n].selected = tree[n].selected /\ n \in DOMAIN tree
      BY <1>5, <1>6
    <3>4. SelSum(tree[n].seeds) \in Nat
      BY <1>3, <3>3, TreeNodes
    <3>5. CASE n = cur
      <4>1. ExtraIn(pc, cur, n) = 1
        BY <1>2, <3>5 DEF ExtraIn
      <4> QED
        BY <1>5, <3>1, <3>2, <3>3, <3>4, <3>5, <4>1
    <3>6. CASE n # cur
      <4>1. ExtraIn(pc, cur, n) = 0
        BY <3>6 DEF ExtraIn
      <4> QED
        BY <1>5, <3>1, <3>2, <3>3, <3>4, <3>6, <4>1
    <3> QED
      BY <3>5, <3>6
  <2> QED
    BY <1>7, <2>3, <2>4, <2>5 DEF SelectionsAgree
<1>17. BalancedStep
  <2>1. \A n \in SimulationNodes(tree) : FoundAt(tree')[n] = FoundAt(tree)[n]
    BY <1>5, <1>6, <1>7 DEF FoundAt
  <2>2. IsFiniteSet(SimulationNodes(tree))
    BY <1>3, SimsOfTree
  <2>3. SumOf(FoundAt(tree'), SimulationNodes(tree)) = SumOf(FoundAt(tree), SimulationNodes(tree))
    BY <2>1, <2>2, SumSame
  <2>4. SameCredits(tree, tree')
    BY <1>5, <1>6, <1>7, <2>3 DEF SameCredits
  <2> QED
    BY <2>4, NothingCredited
<1>18. pc' \notin {"fuzz", "dye"}
  BY <1>2
<1> QED
  BY <1>11, <1>12, <1>13, <1>14, <1>15, <1>16, <1>17, <1>18 DEF CountInv

(* Crediting discoveries does not change what is counted of selections.    *)
LEMMA CreditedSelections ==
  ASSUME NEW E, NEW t, NEW u, Sound(E, t), Sound(E, u), SameShape(t, u),
         \A m \in DOMAIN t : /\ u[m].selected = t[m].selected
                            /\ SelSum(u[m].seeds) = SelSum(t[m].seeds)
  PROVE  /\ \A ids : IdsIn(t, ids) => IdsIn(u, ids)
         /\ \A k : KhmnCounts(t, k) => KhmnCounts(u, k)
         /\ \A a, b, c, r : (/\ SelectionsAgree(t, a, c, r)
                             /\ ~Choosing(a) /\ ~Choosing(b)) => SelectionsAgree(u, b, c, r)
<1>1. /\ DOMAIN u = DOMAIN t /\ SimulationNodes(u) = SimulationNodes(t)
      /\ \A id : SimsUnder(u, id) = SimsUnder(t, id)
      /\ \A m \in DOMAIN t : u[m].id = t[m].id
  <2>1. /\ DOMAIN u = DOMAIN t /\ SimulationNodes(u) = SimulationNodes(t)
        /\ \A m \in DOMAIN t : u[m].id = t[m].id /\ u[m].parent = t[m].parent
    BY DEF SameShape, SimulationNodes, ResponseNodes
  <2>2. \A s \in SimulationNodes(t) : s \in DOMAIN t /\ t[s].parent \in DOMAIN t
    BY SimsOfTree
  <2>3. \A id : SimsUnder(u, id) = SimsUnder(t, id)
    BY <2>1, <2>2 DEF SimsUnder
  <2> QED
    BY <2>1, <2>3
<1>2. /\ SimulationNodes(t) \subseteq DOMAIN t /\ IsFiniteSet(SimulationNodes(t))
      /\ \A id : SimsUnder(t, id) \subseteq DOMAIN t /\ IsFiniteSet(SimsUnder(t, id))
  BY SimsOfTree
<1>3. \A m \in DOMAIN t : SelAt(u)[m] = SelAt(t)[m]
  BY <1>1 DEF SelAt
<1>4. SumOf(SelAt(u), SimulationNodes(t)) = SumOf(SelAt(t), SimulationNodes(t))
  <2> DEFINE S == SimulationNodes(t)
  <2>1. IsFiniteSet(S) /\ \A m \in S : SelAt(u)[m] = SelAt(t)[m]
    BY <1>2, <1>3
  <2> HIDE DEF S
  <2>2. SumOf(SelAt(u), S) = SumOf(SelAt(t), S)
    BY <2>1, SumSame
  <2> QED
    BY <2>2 DEF S
<1>5. \A id : SumOf(SelAt(u), SimsUnder(t, id)) = SumOf(SelAt(t), SimsUnder(t, id))
  <2> TAKE id
  <2> DEFINE S == SimsUnder(t, id)
  <2>1. IsFiniteSet(S) /\ \A m \in S : SelAt(u)[m] = SelAt(t)[m]
    BY <1>2, <1>3
  <2> HIDE DEF S
  <2>2. SumOf(SelAt(u), S) = SumOf(SelAt(t), S)
    BY <2>1, SumSame
  <2> QED
    BY <2>2 DEF S
<1>6. \A ids : IdsIn(t, ids) => IdsIn(u, ids)
  BY <1>1 DEF IdsIn
<1>7. \A k : KhmnCounts(t, k) => KhmnCounts(u, k)
  BY <1>1, <1>5 DEF KhmnCounts
<1>8. ROOT \in DOMAIN t
  BY TreeNodes DEF ROOT, RootSim, Sound
<1>9. ASSUME NEW a, NEW b, NEW c, NEW r, SelectionsAgree(t, a, c, r), ~Choosing(a), ~Choosing(b)
      PROVE  SelectionsAgree(u, b, c, r)
  <2>1. OwedIn(a) = OwedIn(b) /\ \A s : ExtraIn(a, c, s) = ExtraIn(b, c, s)
    BY <1>9 DEF OwedIn, ExtraIn, Choosing
  <2>2. u[ROOT].selected = r
    BY <1>8, <1>9 DEF SelectionsAgree
  <2>3. SumOf(SelAt(u), SimulationNodes(u)) + OwedIn(b) = r
    BY <1>1, <1>4, <1>9, <2>1 DEF SelectionsAgree
  <2>4. \A s \in SimulationNodes(u) : u[s].selected = SelSum(u[s].seeds) + ExtraIn(b, c, s)
    BY <1>1, <1>2, <1>9, <2>1 DEF SelectionsAgree
  <2> QED
    BY <2>2, <2>3, <2>4 DEF SelectionsAgree
<1> QED
  BY <1>6, <1>7, <1>9

LEMMA FinishExpansionCount ==
  ASSUME Plain, Inv, Inv', TrieInv, CountInv, FinishExpansion
  PROVE  CountInv' /\ BalancedStep
<1> DEFINE n        == ex.node
           leaf     == IsLeaf(tree, n)
           marked   == SetExplored(tree, n, leaf)
           credited == CreditPath(marked, n)
           paid     == CreditSeed(credited, cur, curSeed)
<1>1. \/ tree' = marked /\ pc' \in {"crashed", "dry", "fuzz"}
      \/ tree' = credited /\ round = 0 /\ pc' = "dry"
      \/ tree' = paid /\ round > 0 /\ pc' = "fuzz"
  <2>1. IF tree[n].parent = NoNode
        THEN tree' = marked /\ pc' = "crashed"
        ELSE /\ tree' = CASE ~ex.newPath -> marked
                          [] ex.newPath /\ round = 0 -> credited
                          [] ex.newPath /\ round > 0 -> paid
             /\ pc' = IF round = 0 THEN "dry" ELSE "fuzz"
    BY DEF FinishExpansion, Parent
  <2>2. pc = "dye" /\ round \in Nat /\ ex.newPath \in BOOLEAN
    BY DEF FinishExpansion, Inv, TypeOK, Frame
  <2> HIDE DEF marked, credited, paid, n
  <2>3. CASE tree[n].parent = NoNode
    BY <2>1, <2>3
  <2>4. CASE tree[n].parent # NoNode
    <3>1. CASE ~ex.newPath
      BY <2>1, <2>4, <3>1
    <3>2. CASE ex.newPath /\ round = 0
      BY <2>1, <2>4, <3>2
    <3>3. CASE ex.newPath /\ round > 0
      BY <2>1, <2>4, <3>3
    <3> QED
      BY <2>2, <3>1, <3>2, <3>3
  <2> QED
    BY <2>3, <2>4
<1>2. /\ pc = "dye" /\ khmn' = khmn /\ cur' = cur /\ curSeed' = curSeed
      /\ round' = round /\ failed' = failed
  BY DEF FinishExpansion
<1>3. /\ Sound(Entries, tree) /\ Sound(Entries, tree') /\ IsTrie(tree)
      /\ n \in ResponseNodes(tree) /\ n \in DOMAIN tree
      /\ cur \in DOMAIN tree /\ cur \in SimulationNodes(tree) /\ round \in Nat
  BY <1>2 DEF Inv, TypeOK, TrieInv, FrameTrie, ResponseNodes, SimulationNodes
<1>4. leaf \in BOOLEAN
  BY DEF IsLeaf
<1>5. cur # ROOT /\ ROOT \in DOMAIN tree
  <2>1. ROOT \in DOMAIN tree
    BY <1>3, TreeNodes DEF ROOT, RootSim, Sound
  <2> QED
    BY <1>3, <2>1, SimsOfTree
<1> HIDE DEF n, leaf
<1>6. /\ Carries(tree, marked) /\ SameSelected(tree, marked) /\ Sound(Entries, marked)
      /\ SameShape(tree, marked)
      /\ \A m \in DOMAIN tree : /\ marked[m].discovered = tree[m].discovered
                               /\ marked[m].seeds = tree[m].seeds
  BY <1>3, <1>4, SetExploredCarries, SetExploredSound, SetExploredKeeps
<1> HIDE DEF marked
<1>7. /\ IsTrie(marked) /\ n \in ResponseNodes(marked) /\ DOMAIN marked = DOMAIN tree
      /\ SimulationNodes(marked) = SimulationNodes(tree)
      /\ ResponseNodes(marked) = ResponseNodes(tree)
  BY <1>3, <1>6, TrieOfSameShape DEF SameShape
<1>8. Monotone(marked) /\ Credited(marked)
  BY <1>3, <1>6, CarriesMonotone DEF CountInv
<1>9. /\ SameShape(marked, credited) /\ Sound(Entries, credited)
      /\ SimulationNodes(credited) = SimulationNodes(marked)
      /\ Monotone(credited) /\ Credited(credited)
      /\ credited[ROOT].discovered = marked[ROOT].discovered + 1
      /\ \A m \in DOMAIN marked : /\ credited[m].selected = marked[m].selected
                                 /\ credited[m].seeds = marked[m].seeds
      /\ \A m \in SimulationNodes(marked) : credited[m].discovered = marked[m].discovered
  BY <1>6, <1>7, <1>8, PathCredited
<1> HIDE DEF credited
<1>10. /\ SameShape(tree, credited) /\ DOMAIN credited = DOMAIN tree
       /\ SimulationNodes(credited) = SimulationNodes(tree)
       /\ \A m \in DOMAIN tree : /\ credited[m].selected = tree[m].selected
                                /\ credited[m].seeds = tree[m].seeds
       /\ \A m \in SimulationNodes(tree) : credited[m].discovered = tree[m].discovered
       /\ credited[ROOT].discovered = tree[ROOT].discovered + 1
  <2>1. SameShape(tree, credited)
    BY <1>6, <1>9 DEF SameShape
  <2>2. \A m \in DOMAIN tree : /\ credited[m].selected = tree[m].selected
                              /\ credited[m].seeds = tree[m].seeds
    BY <1>6, <1>7, <1>9 DEF SameSelected
  <2>3. \A m \in SimulationNodes(tree) : credited[m].discovered = tree[m].discovered
    BY <1>6, <1>7, <1>9 DEF SimulationNodes
  <2>4. credited[ROOT].discovered = tree[ROOT].discovered + 1
    BY <1>5, <1>6, <1>9
  <2>5. DOMAIN credited = DOMAIN tree /\ SimulationNodes(credited) = SimulationNodes(tree)
    BY <1>7, <1>9, <2>1 DEF SameShape
  <2> QED
    BY <2>1, <2>2, <2>3, <2>4, <2>5
<1>11. ~Choosing(pc) /\ ~Choosing(pc')
  BY <1>1, <1>2 DEF Choosing
<1>12. CASE tree' = marked /\ pc' \in {"crashed", "dry", "fuzz"}
  <2>1. Carries(tree, tree') /\ SameSelected(tree, tree')
    BY <1>6, <1>12
  <2>2. IdsIn(tree', DOMAIN khmn')
    BY <1>2, <1>7, <1>12, <2>1, SameIds DEF CountInv
  <2>3. pc' \in {"fuzz", "dye"} /\ round > 0 =>
          pc \in {"m2", "fuzz", "dye"} /\ cur' = cur /\ curSeed' = curSeed
    BY <1>2
  <2>4. failed' = {} => failed = {} /\ (Choosing(pc') <=> Choosing(pc))
    BY <1>2, <1>11
  <2>5. /\ DOMAIN khmn \subseteq DOMAIN khmn'
        /\ \A id \in DOMAIN khmn : khmn'[id] = khmn[id]
        /\ \A id \in DOMAIN khmn' \ DOMAIN khmn : khmn'[id] = 0
        /\ round' = round /\ pc # "seed" /\ pc' # "seed"
    BY <1>2, <1>12
  <2> QED
    BY <2>1, <2>2, <2>3, <2>4, <2>5, CarriedStep
<1>13. CASE tree' = credited /\ round = 0 /\ pc' = "dry"
  <2>1. Monotone(tree') /\ Credited(tree') /\ SameShape(tree, tree')
    BY <1>9, <1>10, <1>13
  <2>2. \A m \in DOMAIN tree : /\ tree'[m].selected = tree[m].selected
                              /\ SelSum(tree'[m].seeds) = SelSum(tree[m].seeds)
    BY <1>10, <1>13
  <2>3. /\ IdsIn(tree', DOMAIN khmn') /\ KhmnCounts(tree', khmn')
        /\ (MaxRounds <= MaxSelected /\ failed' = {} => SelectionsAgree(tree', pc', cur', round'))
    BY <1>2, <1>3, <1>11, <2>1, <2>2, CreditedSelections DEF CountInv
  <2>4. round' <= MaxRounds /\ ~(round > 0) /\ pc' \notin {"fuzz", "dye"}
    BY <1>2, <1>13 DEF CountInv
  <2> QED
    BY <2>1, <2>3, <2>4 DEF CountInv, BalancedStep
<1>14. CASE tree' = paid /\ round > 0 /\ pc' = "fuzz"
  <2>1. curSeed \in DOMAIN tree[cur].seeds
    BY <1>2, <1>14 DEF CountInv
  <2>2. curSeed \in DOMAIN credited[cur].seeds /\ cur \in DOMAIN credited
    BY <1>3, <1>10, <2>1
  <2>3. /\ SameShape(credited, paid)
        /\ \A m \in DOMAIN credited : /\ paid[m].selected = credited[m].selected
                                     /\ SelSum(paid[m].seeds) = SelSum(credited[m].seeds)
        /\ paid[cur].discovered = credited[cur].discovered + 1
        /\ FoundSum(paid[cur].seeds) = FoundSum(credited[cur].seeds) + 1
        /\ \A m \in DOMAIN credited \ {cur} :
             /\ paid[m].discovered = credited[m].discovered
             /\ FoundSum(paid[m].seeds) = FoundSum(credited[m].seeds)
    BY <1>9, <2>2, SeedCredited
  <2>4. OnlyCounts(credited, paid)
    <3>1. curSeed \in Nat
      BY DEF Inv, TypeOK
    <3> QED
      BY <1>9, <2>2, <3>1, CreditSeedKeeps
  <2> HIDE DEF paid
  <2>5. SameShape(tree, tree')
    BY <1>10, <1>14, <2>3 DEF SameShape
  <2>6. \A m \in DOMAIN tree : /\ tree'[m].selected = tree[m].selected
                              /\ SelSum(tree'[m].seeds) = SelSum(tree[m].seeds)
    BY <1>10, <1>14, <2>3
  <2>7. /\ DOMAIN tree' = DOMAIN tree /\ SimulationNodes(tree') = SimulationNodes(tree)
        /\ ResponseNodes(tree') = ResponseNodes(tree)
        /\ ResponseNodes(credited) = ResponseNodes(tree)
        /\ \A m \in DOMAIN tree : /\ tree'[m].parent = tree[m].parent
                                 /\ credited[m].parent = tree[m].parent
    BY <1>10, <2>5 DEF SameShape, SimulationNodes, ResponseNodes
  <2>8. /\ IdsIn(tree', DOMAIN khmn') /\ KhmnCounts(tree', khmn')
        /\ (MaxRounds <= MaxSelected /\ failed' = {} => SelectionsAgree(tree', pc', cur', round'))
    BY <1>2, <1>3, <1>11, <2>5, <2>6, CreditedSelections DEF CountInv
  <2>9. Monotone(tree')
    <3> SUFFICES ASSUME NEW m \in ResponseNodes(tree) \ {ROOT}
                 PROVE  tree'[m].discovered <= tree'[tree[m].parent].discovered
      BY <2>7 DEF Monotone, ResponseNodes
    <3>1. m \in DOMAIN tree /\ tree[m].parent \in ResponseNodes(tree) /\ m # cur
      BY <1>3 DEF ResponseNodes, SimulationNodes, IsTrie, Extends
    <3>2. tree[m].parent \in DOMAIN tree /\ tree[m].parent # cur
      BY <1>3, <3>1 DEF ResponseNodes, SimulationNodes
    <3>3. credited[m].discovered <= credited[tree[m].parent].discovered
      BY <1>9, <2>7, <3>1 DEF Monotone
    <3>4. /\ tree'[m].discovered = credited[m].discovered
          /\ tree'[tree[m].parent].discovered = credited[tree[m].parent].discovered
      BY <1>10, <1>14, <2>3, <3>1, <3>2
    <3> QED
      BY <3>3, <3>4
  <2>10. Credited(tree')
    <3> SUFFICES ASSUME NEW s \in SimulationNodes(tree)
                 PROVE  tree'[s].discovered = FoundSum(tree'[s].seeds)
      BY <2>7 DEF Credited
    <3>1. credited[s].discovered = FoundSum(credited[s].seeds) /\ s \in DOMAIN credited
      BY <1>9, <1>10 DEF Credited, SimulationNodes
    <3>2. CASE s = cur
      BY <1>14, <2>3, <3>1, <3>2
    <3>3. CASE s # cur
      BY <1>14, <2>3, <3>1, <3>3
    <3> QED
      BY <3>2, <3>3
  <2>11. BalancedStep
    <3>1. /\ tree'[cur].discovered = tree[cur].discovered + 1
          /\ \A m \in SimulationNodes(tree) \ {cur} : tree'[m].discovered = tree[m].discovered
      BY <1>3, <1>10, <1>14, <2>3 DEF SimulationNodes
    <3>2. SumOf(FoundAt(tree'), SimulationNodes(tree'))
            - SumOf(FoundAt(tree), SimulationNodes(tree)) = 1
      BY <1>3, <2>5, <3>1, FoundTotals
    <3>3. tree'[ROOT].discovered = tree[ROOT].discovered + 1 /\ tree[ROOT].discovered \in Nat
      BY <1>3, <1>5, <1>10, <1>14, <2>3, TreeNodes
    <3> QED
      BY <3>2, <3>3 DEF BalancedStep
  <2>12. curSeed' \in DOMAIN tree'[cur'].seeds
    BY <1>2, <1>3, <1>10, <1>14, <2>2, <2>4 DEF OnlyCounts, SameSeeds, SameSeedList
  <2>13. round' <= MaxRounds
    BY <1>2 DEF CountInv
  <2> QED
    BY <2>8, <2>9, <2>10, <2>11, <2>12, <2>13 DEF CountInv
<1> QED
  BY <1>1, <1>12, <1>13, <1>14

LEMMA StepCount ==
  ASSUME Plain, Inv, TrieInv, CountInv, [Next]_vars
  PROVE  CountInv' /\ BalancedStep
<1>1. Inv'
  BY StepInv
<1>2. ASSUME NEW e \in Entries, DryRunEntry(e) \/ FuzzEntry(e)
      PROVE  CountInv' /\ BalancedStep
  BY <1>1, <1>2, BeginExpansionCount
<1>3. CASE Dye
  BY <1>1, <1>3, DyeCount
<1>4. CASE FinishExpansion
  BY <1>1, <1>4, FinishExpansionCount
<1>5. CASE BeginSelection
  BY <1>1, <1>5, BeginSelectionCount
<1>6. CASE Descend
  BY <1>1, <1>6, DescendCount
<1>7. CASE Climb
  BY <1>1, <1>7, ClimbCount
<1>8. CASE SelectSeed
  BY <1>1, <1>8, SelectSeedCount
<1>9. CASE FindM2 \/ StartFuzzing \/ EndFuzz \/ Stop
  BY <1>1, <1>9, QuietCount
<1>10. CASE Terminated \/ UNCHANGED vars
  BY <1>1, <1>10, StutterCount DEF Terminated
<1> QED
  BY <1>2, <1>3, <1>4, <1>5, <1>6, <1>7, <1>8, <1>9, <1>10 DEF Next

(* The sums of the properties are the sums of the invariant.               *)
LEMMA SelectionsAreSums ==
  ASSUME NEW S, IsFiniteSet(S), S \subseteq DOMAIN tree
  PROVE  MapThenSumSet(Selections, S) = SumOf(SelAt(tree), S)
<1> DEFINE f == SelAt(tree)
           B(h) == [s \in SUBSET S |-> IF s = {} THEN 0 ELSE Selections(Pick(s)) + h[s \ {Pick(s)}]]
           i == CHOOSE h : h = B(h)
           sum == MapThenSumSet(Selections, S)
<1>1. sum = i[S]
  BY Zenon DEF MapThenSumSet, MapThenFoldSet, Pick
<1>2. \A h : Body(f, S, h) = B(h)
  <2> SUFFICES ASSUME NEW h PROVE Body(f, S, h) = B(h)
    OBVIOUS
  <2>1. \A n \in S : f[n] = Selections(n)
    BY DEF SelAt, SelSum, Selections
  <2> HIDE DEF f
  <2>2. \A s \in SUBSET S : s # {} => f[Pick(s)] = Selections(Pick(s))
    BY <2>1, PickIsIn
  <2> QED
    BY <2>2 DEF Body
<1>3. \E h : h = B(h)
  <2>1. \E h : Adds(f, S, h)
    BY AddsExists
  <2> HIDE DEF B, f
  <2> QED
    BY <1>2, <2>1 DEF Adds
<1>4. i = B(i)
  <2> HIDE DEF B
  <2> QED
    BY <1>3, Zenon
<1>5. Adds(f, S, i)
  BY <1>2, <1>4, Zenon DEF Adds
<1> HIDE DEF i, f, sum
<1>6. SumOf(f, S) = i[S]
  BY <1>5, FixpointIsSum
<1> QED
  BY <1>1, <1>6 DEF f, sum

FoundTotal(t, S) == MapThenSumSet(LAMBDA s : t[s].discovered, S)

LEMMA FoundTotalIsSum ==
  ASSUME NEW t, NEW S, IsFiniteSet(S), S \subseteq DOMAIN t
  PROVE  FoundTotal(t, S) = SumOf(FoundAt(t), S)
<1> DEFINE f == FoundAt(t)
           B(h) == [s \in SUBSET S |-> IF s = {} THEN 0 ELSE t[Pick(s)].discovered + h[s \ {Pick(s)}]]
           i == CHOOSE h : h = B(h)
<1>1. FoundTotal(t, S) = i[S]
  BY Zenon DEF FoundTotal, MapThenSumSet, MapThenFoldSet, Pick
<1>2. \A h : Body(f, S, h) = B(h)
  <2> SUFFICES ASSUME NEW h PROVE Body(f, S, h) = B(h)
    OBVIOUS
  <2>1. \A s \in SUBSET S : s # {} => f[Pick(s)] = t[Pick(s)].discovered
    BY PickIsIn DEF FoundAt
  <2> HIDE DEF f
  <2> QED
    BY <2>1 DEF Body
<1>3. \E h : h = B(h)
  <2>1. \E h : Adds(f, S, h)
    BY AddsExists
  <2> HIDE DEF B, f
  <2> QED
    BY <1>2, <2>1 DEF Adds
<1>4. i = B(i)
  <2> HIDE DEF B
  <2> QED
    BY <1>3, Zenon
<1>5. Adds(f, S, i)
  BY <1>2, <1>4, Zenon DEF Adds
<1> HIDE DEF i, f
<1>6. SumOf(f, S) = i[S]
  BY <1>5, FixpointIsSum
<1> QED
  BY <1>1, <1>6 DEF f

LEMMA CountersFollow ==
  ASSUME MaxRounds <= MaxSelected, Inv, TrieInv, CountInv
  PROVE  CountersAgree
<1> SUFFICES ASSUME pc \in {"main", "fuzz"}, failed = {}
             PROVE  /\ tree[ROOT].selected = round
                    /\ MapThenSumSet(Selections, Sims) = round
                    /\ \A s \in Sims : /\ tree[s].discovered = Discoveries(s)
                                      /\ tree[s].selected = Selections(s)
                    /\ \A n \in Responses \ {ROOT} :
                         tree[n].discovered <= tree[tree[n].parent].discovered
                    /\ \A id \in DOMAIN khmn :
                         khmn[id] = MapThenSumSet(Selections,
                                      {s \in Sims : tree[tree[s].parent].id = id})
  BY DEF CountersAgree
<1>1. Sound(Entries, tree) /\ round \in Nat
  BY DEF Inv, TypeOK
<1>2. Responses = ResponseNodes(tree) /\ Sims = SimulationNodes(tree)
  BY DEF Responses, Sims, ResponseNodes, SimulationNodes
<1>3. /\ SimulationNodes(tree) \subseteq DOMAIN tree /\ IsFiniteSet(SimulationNodes(tree))
      /\ \A id : SimsUnder(tree, id) \subseteq DOMAIN tree /\ IsFiniteSet(SimsUnder(tree, id))
      /\ \A n \in DOMAIN tree : SelSum(tree[n].seeds) \in Nat /\ SelAt(tree)[n] \in Nat
  BY <1>1, SimsOfTree, TreeNodes
<1>4. SelectionsAgree(tree, pc, cur, round)
  BY DEF CountInv
<1>5. OwedIn(pc) = 0 /\ \A s : ExtraIn(pc, cur, s) = 0
  BY DEF OwedIn, ExtraIn, Choosing
<1>6. MapThenSumSet(Selections, Sims) = round
  <2> DEFINE S == SimulationNodes(tree)
             sum == MapThenSumSet(Selections, S)
  <2>1. IsFiniteSet(S) /\ S \subseteq DOMAIN tree
    BY <1>3
  <2>2. SumOf(SelAt(tree), S) + 0 = round
    BY <1>4, <1>5 DEF SelectionsAgree
  <2> HIDE DEF S
  <2>3. SumOf(SelAt(tree), S) \in Nat
    BY <1>3, <2>1, SumNat
  <2>4. sum = SumOf(SelAt(tree), S)
    BY <2>1, SelectionsAreSums
  <2> HIDE DEF sum
  <2>5. sum = round
    BY <2>2, <2>3, <2>4
  <2> QED
    BY <1>2, <2>5, Zenon DEF sum, S
<1>7. \A s \in Sims : /\ tree[s].discovered = Discoveries(s)
                     /\ tree[s].selected = Selections(s)
  <2> SUFFICES ASSUME NEW s \in SimulationNodes(tree)
               PROVE  tree[s].discovered = Discoveries(s) /\ tree[s].selected = Selections(s)
    BY <1>2
  <2>1. Selections(s) = SelSum(tree[s].seeds) /\ Discoveries(s) = FoundSum(tree[s].seeds)
    BY DEF Selections, Discoveries, SelSum, FoundSum
  <2>2. tree[s].selected = SelSum(tree[s].seeds) + 0 /\ SelSum(tree[s].seeds) \in Nat
    BY <1>3, <1>4, <1>5 DEF SelectionsAgree
  <2>3. tree[s].discovered = FoundSum(tree[s].seeds)
    BY DEF CountInv, Credited
  <2> QED
    BY <2>1, <2>2, <2>3
<1>8. \A n \in Responses \ {ROOT} : tree[n].discovered <= tree[tree[n].parent].discovered
  BY <1>2 DEF CountInv, Monotone
<1>9. ASSUME NEW id \in DOMAIN khmn
      PROVE  khmn[id] = MapThenSumSet(Selections, {s \in Sims : tree[tree[s].parent].id = id})
  <2> DEFINE S == SimsUnder(tree, id)
             sum == MapThenSumSet(Selections, S)
  <2>1. IsFiniteSet(S) /\ S \subseteq DOMAIN tree
    BY <1>3
  <2>2. khmn[id] = SumOf(SelAt(tree), S)
    BY DEF CountInv, KhmnCounts
  <2>3. {s \in Sims : tree[tree[s].parent].id = id} = S
    BY <1>2 DEF SimsUnder
  <2> HIDE DEF S
  <2>4. sum = SumOf(SelAt(tree), S)
    BY <2>1, SelectionsAreSums
  <2> HIDE DEF sum
  <2>5. khmn[id] = sum
    BY <2>2, <2>4
  <2> QED
    BY <2>3, <2>5, Zenon DEF sum
<1> QED
  BY <1>4, <1>6, <1>7, <1>8, <1>9 DEF SelectionsAgree

(* Between rounds the counters that drive UCT agree with each other; only  *)
(* the bound of the model on the counters must not be met.                 *)
THEOREM TreeAlwaysSound ==
  ASSUME Plain, MaxRounds <= MaxSelected
  PROVE  Spec => []TreeSound
<1>1. Init => Inv /\ TrieInv /\ CountInv
  BY InitInv, InitTrie, InitCount
<1>2. Inv /\ TrieInv /\ CountInv /\ [Next]_vars => (Inv /\ TrieInv /\ CountInv)'
  BY StepInv, StepTrie, StepCount
<1>3. Inv /\ TrieInv /\ CountInv => CountersAgree
  BY CountersFollow
<1>4. Spec => [](TrieShape /\ SeedsReplay)
  BY TrieAlways
<1> QED
  BY <1>1, <1>2, <1>3, <1>4, PTL DEF Spec, TreeSound

(* What a step credits to the root, it credits to one simulation node.     *)
CreditStep ==
  round > 0 =>
    tree'[ROOT].discovered - tree[ROOT].discovered
      = MapThenSumSet(LAMBDA s : tree'[s].discovered, Sims')
        - MapThenSumSet(LAMBDA s : tree[s].discovered, Sims)

LEMMA BalancedCredits ==
  ASSUME Inv, Inv', BalancedStep
  PROVE  CreditStep
<1>1. Sound(Entries, tree) /\ Sound(Entries, tree')
  BY DEF Inv
<1>2. Sims = SimulationNodes(tree) /\ Sims' = SimulationNodes(tree')
  BY DEF Responses, Sims, ResponseNodes, SimulationNodes
<1>3. FoundTotal(tree, SimulationNodes(tree)) = SumOf(FoundAt(tree), SimulationNodes(tree))
  BY <1>1, SimsOfTree, FoundTotalIsSum
<1>4. FoundTotal(tree', SimulationNodes(tree')) = SumOf(FoundAt(tree'), SimulationNodes(tree'))
  BY <1>1, SimsOfTree, FoundTotalIsSum
<1>5. round > 0 =>
        tree'[ROOT].discovered - tree[ROOT].discovered
          = FoundTotal(tree', Sims') - FoundTotal(tree, Sims)
  BY <1>2, <1>3, <1>4 DEF BalancedStep
<1> QED
  BY <1>5, Zenon DEF CreditStep, FoundTotal

GivesUpStep ==
  "one_child" \notin failed' => \A n \in DOMAIN tree :
    pc = "climb" /\ ~tree[n].explored /\ tree'[n].explored =>
      /\ tree[n].colour = Black
      /\ \A m \in Children(tree, n) : NegInf(tree, m)

LEMMA ClimbGivesUp ==
  ASSUME Inv, Climb
  PROVE  GivesUpStep
<1> DEFINE p    == Parent(tree, cur)
           kids == Children(tree, p)
           asks == ~tree[p].explored /\ tree[p].colour = Black
           many == asks /\ Cardinality(kids) # 1
           done == IsFullyExplored(tree, p)
           next == IF done THEN "climb" ELSE "select"
           bad  == When(many, "one_child")
           b    == TRUE
           u    == SetExplored(tree, p, b)
<1>1. /\ pc = "climb" /\ Check(bad, next)
      /\ tree' = IF done /\ pc' # "aborted" THEN u ELSE tree
  BY DEF Climb
<1>2. Sound(Entries, tree) /\ cur \in DOMAIN tree /\ cur # ROOT
  BY <1>1 DEF Inv, TypeOK
<1>3. p \in DOMAIN tree /\ b \in BOOLEAN /\ cur \in kids
  BY <1>2 DEF Sound, Parent, Children
<1>4. "one_child" \notin failed' => ~many
  <2>1. "one_child" \notin bad => ~many
    BY DEF When
  <2> HIDE DEF bad, many, next
  <2> QED
    BY <1>1, <2>1 DEF Check
<1> SUFFICES ASSUME "one_child" \notin failed', NEW n \in DOMAIN tree,
                    ~tree[n].explored, tree'[n].explored
             PROVE  /\ tree[n].colour = Black
                    /\ \A m \in Children(tree, n) : NegInf(tree, m)
  BY DEF GivesUpStep
<1>5. done /\ tree' = u
  <2> HIDE DEF done, u
  <2> QED
    BY <1>1
<1>6. n = p
  <2> HIDE DEF p, b
  <2>1. \A m \in DOMAIN tree : u[m].explored = IF m = p THEN b ELSE tree[m].explored
    BY <1>2, <1>3, SetExploredKeeps
  <2> HIDE DEF u
  <2> QED
    BY <1>5, <2>1
<1>7. tree[p].colour = Black /\ NegInf(tree, Min(kids)) /\ asks
  BY <1>5, <1>6 DEF IsFullyExplored
<1>8. Cardinality(kids) = 1
  BY <1>4, <1>7
<1>9. IsFiniteSet(kids) /\ kids \in SUBSET Nat /\ kids # {}
  <2>1. IsFiniteSet(DOMAIN tree) /\ DOMAIN tree \in SUBSET Nat
    BY <1>2, TreeNodes
  <2>2. kids \subseteq DOMAIN tree
    BY DEF Children
  <2> HIDE DEF kids
  <2> QED
    BY <1>3, <2>1, <2>2, FS_Subset
<1> HIDE DEF kids
<1>10. \E x : kids = {x}
  BY <1>8, <1>9, FS_Singleton
<1>11. \A m \in kids : m = Min(kids)
  BY <1>9, <1>10, MinIsLeast
<1> QED
  BY <1>6, <1>7, <1>11 DEF kids

LEMMA StepGivesUp ==
  ASSUME Inv, [Next]_vars
  PROVE  GivesUpStep
<1>1. CASE pc # "climb"
  BY <1>1 DEF GivesUpStep
<1>2. CASE pc = "climb"
  <2>1. Climb \/ UNCHANGED vars
    BY <1>2 DEF Next, DryRunEntry, FuzzEntry, Dye, FinishExpansion, StartFuzzing,
       BeginSelection, Descend, SelectSeed, FindM2, EndFuzz, Stop, Terminated
  <2>2. CASE Climb
    BY <2>2, ClimbGivesUp
  <2>3. CASE UNCHANGED vars
    BY <2>3 DEF vars, GivesUpStep
  <2> QED
    BY <2>1, <2>2, <2>3
<1> QED
  BY <1>1, <1>2

(* A discovery is credited to one seed as often as to the root, and         *)
(* Selection gives up only nodes with nothing left to fuzz below them.     *)
THEOREM SteeringIsHonest ==
  ASSUME Plain
  PROVE  Spec => SteersHonestly
<1>1. Init => Inv /\ TrieInv /\ CountInv
  BY InitInv, InitTrie, InitCount
<1>2. Inv /\ TrieInv /\ CountInv /\ [Next]_vars =>
        (Inv /\ TrieInv /\ CountInv)' /\ [CreditStep]_vars /\ [GivesUpStep]_vars
  BY StepInv, StepTrie, StepCount, BalancedCredits, StepGivesUp
<1>3. Spec => [][CreditStep]_vars /\ [][GivesUpStep]_vars
  BY <1>1, <1>2, PTL DEF Spec
<1> QED
  BY <1>3 DEF SteersHonestly, CreditsBalance, GivesUpOnlyExhausted, CreditStep, GivesUpStep
=============================================================================
