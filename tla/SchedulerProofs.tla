-------------------------- MODULE SchedulerProofs --------------------------
(***************************************************************************)
(* State-aware selection (Scheduler.tla): what is learned from responses   *)
(* is all there was to learn, the tables of states agree whatever order    *)
(* responses, rounds and failures come in, and a round that starts has     *)
(* something to mutate behind its target state.                            *)
(***************************************************************************)
EXTENDS Scheduler, Sums, SequenceTheorems

Entry == [codes : Seq(States), counts : Seq(Nat), was_fuzzed : BOOLEAN]

(* The tables of states: what TablesAgree says of them, as an operator of  *)
(* the record that Insert takes and of the number of columns.              *)
Row == Seq({Unreachable, 0, 1})

StateRec(D) == [seeds : Seq(D), selected_seed_index : Nat, paths : Nat,
                paths_discovered : Nat]

TurnInside(state) ==
  state.selected_seed_index = 0 \/ state.selected_seed_index < Len(state.seeds)

StatesWell(states, n) ==
  /\ DOMAIN states \subseteq States /\ IsFiniteSet(DOMAIN states)
  /\ \A s \in DOMAIN states : states[s] \in StateRec(1..n) /\ TurnInside(states[s])

IdsWell(ids, states) ==
  /\ ids \in Seq(States) /\ IsInjective(ids) /\ Range(ids) = DOMAIN states
  /\ ids # <<>> => ids[1] = 0

MapWell(map, ids, n) ==
  /\ map \in Seq(Row) /\ Len(map) = IF Len(ids) >= 1 THEN Len(ids) ELSE 1
  /\ \A x \in DOMAIN map : Len(map[x]) = n
  /\ ids = <<>> => \A k \in 1..n : map[1][k] = Unreachable

TabWell(t, n) ==
  StatesWell(t.states, n) /\ IdsWell(t.ids, t.states) /\ MapWell(t.map, t.ids, n)

Processing == pc \in {"learn", "annotate", "reach"}

(* The entries: no response yet behind q, and the one that is looked at.   *)
EntriesWell ==
  /\ Len(queue) >= Seeds
  /\ \A k \in DOMAIN queue : WellFormed(queue[k])
  /\ \A k \in DOMAIN queue : k > q => queue[k].codes = <<>>
  /\ pc = "dry_run" => q <= Seeds /\ queue[q].codes = <<>>
  /\ Processing => queue[q].codes # <<>>
  /\ pc = "learn" => i \in 2..Len(queue[q].codes)
  /\ pc = "reach" => i \in 1..(Len(queue[q].counts) + 1)

(* The transitions of an entry that the graph has: up to index i while it  *)
(* is learned from.                                                        *)
DrawnTo(k) == IF pc = "learn" /\ k = q THEN i - 1 ELSE Len(queue[k].codes)

Drawn(k) ==
  {<<queue[k].codes[l - 1], queue[k].codes[l]>> :
     l \in 2..DrawnTo(k)}

(* A shortened sequence that is known has all its transitions in the graph *)
(* or in the entry that is learned from.                                   *)
PathsDrawn ==
  \A p \in khs_ipsm_paths : \A t \in TransitionsOf(p) :
     t \in ipsm \/ (pc = "learn" /\ t \in TransitionsOf(queue[q].codes))

MachineInv ==
  /\ Nodes = Known /\ IsFiniteSet(Known)
  /\ \A t : t \in ipsm <=> \E k \in DOMAIN queue : t \in Drawn(k)
  /\ PathsDrawn
  /\ \A k \in Learnt : Range(queue[k].codes) \subseteq Known
  /\ pc = "reach" => 0 \in Known
  /\ pc \in {"aborted", "crashed"} => Known = {}

(* M2 lies behind the target state in the entry of this round.             *)
FollowsTarget ==
  LET e == queue[selected_seed]
  IN  /\ M2.count > 0 /\ M2.start + M2.count <= Len(e.counts)
      /\ target_state_id # 0 =>
           M2.start > 0 /\ Reached(e, M2.start) = target_state_id

RoundInv ==
  /\ pc \in {"seed", "fuzz", "mutate", "sync"} \/ q > Seeds => target_state_id \in Known
  /\ M2 # NoM2 => pc = "mutate" \/ (Processing /\ q > Seeds)
  /\ pc = "mutate" => M2 # NoM2
  /\ pc = "fuzz" => queue[selected_seed].counts # <<>>
  /\ pc = "fuzz" \/ M2 # NoM2 =>
       selected_seed \in Range(khms_states[target_state_id].seeds)
  /\ M2 # NoM2 => FollowsTarget

SeedOf(k, s) == k \in Range(khms_states[s].seeds)

(* The regions before i, while the entry is annotated.                     *)
ReachedSoFar(s) ==
  s = 0 \/ \E l \in DOMAIN queue[q].counts :
             l < i /\ queue[q].counts[l] > 0 /\ Reached(queue[q], l) = s

MarksInv ==
  \A k \in DOMAIN queue, x \in DOMAIN state_ids :
    /\ SeedOf(k, state_ids[x]) <=> was_fuzzed_map[x][k] # Unreachable
    /\ was_fuzzed_map[x][k] = 1 => queue[k].was_fuzzed
    /\ k \in Learnt => (SeedOf(k, state_ids[x]) <=> Reaching(k, state_ids[x]))
    /\ k = q /\ pc = "reach" => (SeedOf(k, state_ids[x]) <=> ReachedSoFar(state_ids[x]))
    /\ k \notin Learnt /\ ~(k = q /\ pc = "reach") => ~SeedOf(k, state_ids[x])

(* The learnt entries that went through a state, and those that fuzzing    *)
(* found.                                                                  *)
Passed(s) == {k \in Learnt : s \in Range(queue[k].codes)}
FoundEntries == {k \in Learnt : k > Seeds}
FoundTotal(states) == MapThenSumSet(LAMBDA s : states[s].paths_discovered, DOMAIN states)

CountsInv ==
  /\ \A s \in Known : khms_states[s].paths = Cardinality(Passed(s))
  /\ FoundTotal(khms_states) = Cardinality(FoundEntries)

TypeRest ==
  /\ pc \in {"dry_run", "learn", "annotate", "reach", "choose", "seed",
             "fuzz", "mutate", "sync", "aborted", "crashed"}
  /\ queue \in Seq(Entry)
  /\ ipsm \subseteq States \X States /\ khs_ipsm_paths \subseteq Seq(States)
  /\ selected_state_index \in Nat /\ state_cycles \in 0..WarmUp
  /\ target_state_id \in States
  /\ q \in DOMAIN queue /\ i \in Nat
  /\ selected_seed \in (DOMAIN queue) \cup {NoEntry}
  /\ M2 \in [start : Nat, count : Nat]
  /\ options \in Algos
  /\ selected_state_index = 0 \/ selected_state_index < Len(state_ids)

IInv == /\ TypeRest /\ TabWell(Tables, Len(queue)) /\ EntriesWell
        /\ MachineInv /\ RoundInv /\ MarksInv /\ CountsInv

-----------------------------------------------------------------------------
(* Shortening a sequence loses no transition.  Trimmed folds over the      *)
(* indices: TrimBody is one round of the recursive function in the fold.   *)
LEMMA MaxOfInterval ==
  ASSUME NEW n \in Nat, NEW s \in SUBSET (1..n), s # {}
  PROVE  Max(s) \in s /\ \A y \in s : Max(s) >= y
<1> DEFINE B == {n - x : x \in s}
<1>0. \A x \in s : x \in Nat /\ n - x \in Nat
  OBVIOUS
<1>1. B \in SUBSET Nat /\ B # {}
  BY <1>0
<1>2. PICK m \in B : \A b \in B : m <= b
  <2> HIDE DEF B
  <2> QED
    BY <1>1, SmallestOf
<1>3. PICK x \in s : m = n - x
  BY <1>2
<1>4. \A y \in s : x >= y
  <2> TAKE y \in s
  <2>1. n - y \in B
    OBVIOUS
  <2>2. m <= n - y
    BY <1>2, <2>1
  <2> QED
    BY <1>3, <2>2
<1> QED
  BY <1>4 DEF Max

TrimStep(c, kept, k) ==
  IF k >= 3 /\ c[k] = c[k - 1] /\ c[k] = c[k - 2] THEN kept ELSE Append(kept, c[k])

TrimBody(c, h) ==
  [s \in SUBSET (1..Len(c)) |->
     IF s = {} THEN <<>> ELSE TrimStep(c, h[s \ {Max(s)}], Max(s))]

TrimUpto(c, n, g) ==
  g = [s \in Level(1..Len(c), n) |->
         IF s = {} THEN <<>> ELSE TrimStep(c, g[s \ {Max(s)}], Max(s))]

LEMMA TrimUptoExists ==
  ASSUME NEW c, Len(c) \in Nat, NEW n \in Nat
  PROVE  \E g : TrimUpto(c, n, g)
<1> DEFINE S == 1..Len(c)
           Bad == {k \in Nat : ~ \E g : TrimUpto(c, k, g)}
<1>0. /\ IsFiniteSet(S)
      /\ \A s \in SUBSET S : IsFiniteSet(s) /\ Cardinality(s) \in Nat
  <2>1. IsFiniteSet(S)
    BY FS_Interval, 1 \in Int
  <2> QED
    BY <2>1, FS_Subset, FS_CardinalityType
<1>1. SUFFICES ASSUME Bad # {} PROVE FALSE
  OBVIOUS
<1>2. PICK m \in Bad : \A k \in Bad : m <= k
  BY <1>1, SmallestOf
<1>3. m \in Nat /\ ~ \E g : TrimUpto(c, m, g)
  BY <1>2
<1>4. CASE m = 0
  <2> DEFINE g == [s \in Level(S, m) |-> <<>>]
  <2>1. \A s \in Level(S, m) : s = {}
    <3> TAKE s \in Level(S, m)
    <3>1. s \subseteq S /\ IsFiniteSet(s) /\ Cardinality(s) <= 0
      BY <1>0, <1>4 DEF Level
    <3> QED
      BY <3>1, FS_CardinalityType, FS_EmptySet
  <2>2. g = [s \in Level(S, m) |-> IF s = {} THEN <<>> ELSE TrimStep(c, g[s \ {Max(s)}], Max(s))]
    BY <2>1
  <2> QED
    BY <1>3, <2>2 DEF TrimUpto
<1>5. CASE m # 0
  <2>1. m - 1 \in Nat /\ m - 1 \notin Bad
    BY <1>2, <1>3, <1>5
  <2>2. PICK g : TrimUpto(c, m - 1, g)
    BY <2>1
  <2> DEFINE h == [s \in Level(S, m) |-> IF s = {} THEN <<>> ELSE TrimStep(c, g[s \ {Max(s)}], Max(s))]
  <2>3. ASSUME NEW t \in Level(S, m - 1) PROVE t \in Level(S, m) /\ h[t] = g[t]
    <3>1. t \in Level(S, m)
      BY <1>0, <1>3, <2>3 DEF Level
    <3>2. h[t] = IF t = {} THEN <<>> ELSE TrimStep(c, g[t \ {Max(t)}], Max(t))
      BY <3>1
    <3>3. g[t] = IF t = {} THEN <<>> ELSE TrimStep(c, g[t \ {Max(t)}], Max(t))
      BY <2>2, <2>3 DEF TrimUpto
    <3> QED
      BY <3>1, <3>2, <3>3
  <2>4. ASSUME NEW s \in Level(S, m), s # {} PROVE s \ {Max(s)} \in Level(S, m - 1)
    <3>1. s \subseteq S /\ IsFiniteSet(s) /\ Cardinality(s) <= m
      BY <1>0 DEF Level
    <3>2. Max(s) \in s
      BY <2>4, <3>1, MaxOfInterval
    <3>3. /\ Cardinality(s) \in Nat
          /\ Cardinality(s \ {Max(s)}) = Cardinality(s) - 1
      BY <3>1, <3>2, FS_RemoveElement, FS_CardinalityType
    <3>4. m \in Nat
      BY <1>3
    <3> HIDE DEF Bad, S
    <3>5. Cardinality(s \ {Max(s)}) <= m - 1
      BY <3>1, <3>3, <3>4
    <3>6. s \ {Max(s)} \in SUBSET S
      BY <3>1
    <3> QED
      BY <3>5, <3>6 DEF Level
  <2> HIDE DEF Bad
  <2>5. \A s \in Level(S, m) : s # {} => h[s \ {Max(s)}] = g[s \ {Max(s)}]
    BY <2>3, <2>4
  <2>6. h = [s \in Level(S, m) |-> IF s = {} THEN <<>> ELSE TrimStep(c, h[s \ {Max(s)}], Max(s))]
    BY <2>5
  <2> QED
    BY <1>3, <2>6 DEF TrimUpto
<1> QED
  BY <1>4, <1>5

LEMMA TrimmedByBody ==
  ASSUME NEW c, Len(c) \in Nat, DOMAIN c = 1..Len(c)
  PROVE  \E h : h = TrimBody(c, h) /\ Trimmed(c) = h[1..Len(c)]
<1> DEFINE S == 1..Len(c)
           index == [k \in DOMAIN c |-> k]
           B(h) == [s \in SUBSET DOMAIN index |->
                      IF s = {} THEN <<>>
                      ELSE TrimStep(c, h[s \ {Max(s)}], index[Max(s)])]
<1>1. Trimmed(c) = (CHOOSE h : h = B(h))[DOMAIN index]
  BY Zenon DEF Trimmed, FoldLeftDomain, FoldLeft, MapThenFoldSet, TrimStep
<1>2. DOMAIN index = S /\ \A k \in S : index[k] = k
  OBVIOUS
<1>3. \A s \in SUBSET S : s # {} => Max(s) \in S
  BY MaxOfInterval
<1>4. \A h : B(h) = TrimBody(c, h)
  <2> TAKE h
  <2>1. \A s \in SUBSET S : s # {} => index[Max(s)] = Max(s)
    BY <1>2, <1>3
  <2> HIDE DEF index
  <2> QED
    BY <1>2, <2>1 DEF TrimBody
<1>5. \E h : h = TrimBody(c, h)
  <2>1. IsFiniteSet(S) /\ Cardinality(S) \in Nat
    BY FS_Interval, FS_CardinalityType
  <2>2. PICK g : TrimUpto(c, Cardinality(S), g)
    BY <2>1, TrimUptoExists
  <2>3. Level(S, Cardinality(S)) = SUBSET S
    BY <2>1, FS_Subset DEF Level
  <2> QED
    BY <2>2, <2>3 DEF TrimUpto, TrimBody
<1> HIDE DEF B, index, S
<1> QED
  BY <1>1, <1>2, <1>4, <1>5, Zenon DEF S

TransUpto(c, n) == {<<c[l - 1], c[l]>> : l \in 2..n}

LEMMA AppendTransitions ==
  ASSUME NEW S, NEW kept \in Seq(S), NEW x \in S
  PROVE  /\ kept = <<>> => TransitionsOf(Append(kept, x)) = {}
         /\ kept # <<>> =>
              TransitionsOf(Append(kept, x)) = TransitionsOf(kept) \cup {<<kept[Len(kept)], x>>}
<1> DEFINE a == Append(kept, x)
<1>1. /\ Len(kept) \in Nat /\ Len(a) = Len(kept) + 1 /\ a[Len(kept) + 1] = x
      /\ \A l \in 1..Len(kept) : a[l] = kept[l]
  OBVIOUS
<1>2. CASE kept = <<>>
  <2>1. Len(a) = 1
    BY <1>1, <1>2
  <2>2. 2..Len(a) = {}
    BY <2>1
  <2> QED
    BY <1>2, <2>2 DEF TransitionsOf
<1>3. CASE kept # <<>>
  <2>1. Len(kept) >= 1
    BY <1>1, <1>3
  <2> HIDE DEF a
  <2>2. 2..Len(a) = (2..Len(kept)) \cup {Len(kept) + 1}
    BY <1>1, <2>1
  <2>3. \A l \in 2..Len(kept) : a[l] = kept[l] /\ a[l - 1] = kept[l - 1]
    BY <1>1
  <2>4. a[(Len(kept) + 1) - 1] = kept[Len(kept)]
    BY <1>1, <2>1
  <2> QED
    BY <1>1, <1>3, <2>2, <2>3, <2>4 DEF TransitionsOf, a
<1> QED
  BY <1>2, <1>3

KeptWell(S, c, n, kept) ==
  /\ kept \in Seq(S) /\ TransitionsOf(kept) = TransUpto(c, n)
  /\ n = 0 => kept = <<>>
  /\ n >= 1 => Len(kept) >= 1 /\ kept[Len(kept)] = c[n]

LEMMA TrimStepKeeps ==
  ASSUME NEW S, NEW c \in Seq(S), NEW n \in 1..Len(c), NEW kept,
         KeptWell(S, c, n - 1, kept)
  PROVE  KeptWell(S, c, n, TrimStep(c, kept, n))
<1> DEFINE a == Append(kept, c[n])
<1>1. kept \in Seq(S) /\ c[n] \in S /\ Len(kept) \in Nat /\ n \in Nat
  BY DEF KeptWell
<1>2. a \in Seq(S) /\ Len(a) >= 1 /\ a[Len(a)] = c[n]
  BY <1>1
<1>3. CASE n = 1
  <2>1. TransUpto(c, 1) = {}
    BY DEF TransUpto
  <2>2. TrimStep(c, kept, n) = a
    BY <1>3 DEF TrimStep
  <2>3. kept = <<>>
    BY <1>3 DEF KeptWell
  <2>4. TransitionsOf(a) = {}
    BY <1>1, <2>3, AppendTransitions
  <2>5. 1 # 0
    OBVIOUS
  <2> HIDE DEF a
  <2> QED
    BY <1>2, <1>3, <2>1, <2>2, <2>4, <2>5 DEF KeptWell
<1>4. CASE n # 1
  <2>1. n - 1 >= 1 /\ 2..n = (2..(n - 1)) \cup {n}
    BY <1>1, <1>4
  <2>2. Len(kept) >= 1 /\ kept[Len(kept)] = c[n - 1] /\ TransitionsOf(kept) = TransUpto(c, n - 1)
    BY <2>1 DEF KeptWell
  <2>3. TransUpto(c, n) = TransUpto(c, n - 1) \cup {<<c[n - 1], c[n]>>}
    BY <2>1 DEF TransUpto
  <2>4. CASE n >= 3 /\ c[n] = c[n - 1] /\ c[n] = c[n - 2]
    <3>1. TrimStep(c, kept, n) = kept
      BY <2>4 DEF TrimStep
    <3>2. <<c[(n - 1) - 1], c[n - 1]>> \in TransUpto(c, n - 1)
      <4>1. n - 1 \in 2..(n - 1)
        BY <1>1, <2>4
      <4> QED
        BY <4>1 DEF TransUpto
    <3>3. (n - 1) - 1 = n - 2
      BY <1>1
    <3>4. TransUpto(c, n) = TransUpto(c, n - 1)
      BY <2>3, <2>4, <3>2, <3>3
    <3> QED
      BY <1>1, <2>1, <2>2, <2>4, <3>1, <3>4 DEF KeptWell
  <2>5. CASE ~(n >= 3 /\ c[n] = c[n - 1] /\ c[n] = c[n - 2])
    <3>1. TrimStep(c, kept, n) = a
      BY <2>5 DEF TrimStep
    <3>2. kept # <<>>
      BY <2>2
    <3>3. TransitionsOf(a) = TransitionsOf(kept) \cup {<<kept[Len(kept)], c[n]>>}
      BY <1>1, <3>2, AppendTransitions
    <3> HIDE DEF a
    <3> QED
      BY <1>1, <1>2, <2>1, <2>2, <2>3, <3>1, <3>3 DEF KeptWell
  <2> QED
    BY <2>4, <2>5
<1> QED
  BY <1>3, <1>4

(* Whatever the lengths of the loops in it, the shortened sequence is one  *)
(* of states and has the transitions of the whole one.                     *)
LEMMA TrimmedKeeps ==
  ASSUME NEW S, NEW c \in Seq(S)
  PROVE  Trimmed(c) \in Seq(S) /\ TransitionsOf(Trimmed(c)) = TransitionsOf(c)
<1>1. Len(c) \in Nat /\ DOMAIN c = 1..Len(c)
  OBVIOUS
<1>2. PICK h : h = TrimBody(c, h) /\ Trimmed(c) = h[1..Len(c)]
  BY <1>1, TrimmedByBody
<1> DEFINE Good(n) == KeptWell(S, c, n, h[1..n])
           Bad == {n \in 0..Len(c) : ~Good(n)}
<1>3. Good(0)
  <2>1. 1..0 = {} /\ {} \in SUBSET (1..Len(c))
    OBVIOUS
  <2>2. h[{}] = <<>>
    BY <1>2, <2>1 DEF TrimBody
  <2>3. TransitionsOf(<<>>) = {} /\ TransUpto(c, 0) = {}
    BY DEF TransitionsOf, TransUpto
  <2>4. <<>> \in Seq(S)
    OBVIOUS
  <2>5. h[1..0] = <<>>
    BY <2>1, <2>2
  <2>6. ~(0 >= 1)
    OBVIOUS
  <2> QED
    BY <2>3, <2>4, <2>5, <2>6 DEF KeptWell
<1>4. \A n \in 1..Len(c) : Good(n - 1) => Good(n)
  <2> TAKE n \in 1..Len(c)
  <2> HAVE Good(n - 1)
  <2> DEFINE s == 1..n
  <2>1. s \in SUBSET (1..Len(c)) /\ s # {} /\ n \in Nat /\ n \in s /\ \A y \in s : n >= y
    BY <1>1
  <2>2. s \in SUBSET (1..n)
    OBVIOUS
  <2>3. Max(s) \in s /\ \A y \in s : Max(s) >= y
    BY <2>1, <2>2, MaxOfInterval
  <2>4. Max(s) = n
    BY <2>1, <2>3
  <2>5. s \ {n} = 1..(n - 1)
    BY <2>1
  <2>6. h[s] = TrimStep(c, h[1..(n - 1)], n)
    <3> HIDE DEF s
    <3>1. h[s] = TrimStep(c, h[s \ {Max(s)}], Max(s))
      BY <1>2, <2>1 DEF TrimBody
    <3> QED
      BY <2>4, <2>5, <3>1
  <2> QED
    BY <2>6, TrimStepKeeps
<1>5. Good(Len(c))
  <2>1. SUFFICES ASSUME Bad # {} PROVE FALSE
    BY <1>1
  <2> HIDE DEF Good
  <2>2. Bad \in SUBSET Nat
    BY <1>1
  <2>3. PICK m \in Bad : \A n \in Bad : m <= n
    <3> HIDE DEF Bad
    <3> QED
      BY <2>1, <2>2, SmallestOf
  <2>4. m \in 0..Len(c) /\ ~Good(m)
    BY <2>3
  <2>5. m # 0
    BY <1>3, <2>4
  <2>6. m \in 1..Len(c) /\ m - 1 \in 0..Len(c) /\ m - 1 < m
    BY <1>1, <2>4, <2>5
  <2>7. m - 1 \notin Bad
    <3> HIDE DEF Bad
    <3> QED
      BY <2>3, <2>6
  <2>8. Good(m - 1)
    BY <2>6, <2>7
  <2> QED
    BY <1>4, <2>4, <2>6, <2>8
<1>6. TransUpto(c, Len(c)) = TransitionsOf(c)
  BY DEF TransUpto, TransitionsOf
<1> QED
  BY <1>2, <1>5, <1>6 DEF KeptWell

-----------------------------------------------------------------------------
(* The operators that the choices are built from.                          *)
LEMMA StateIndexIs ==
  ASSUME NEW X, NEW ids \in Seq(X), IsInjective(ids), NEW x \in DOMAIN ids
  PROVE  StateIndex(ids, ids[x]) = x
<1>1. ids[x] \in Range(ids) /\ \A k \in DOMAIN ids : ids[k] = ids[x] => k = x
  BY DEF Range, IsInjective
<1>2. x \in Nat /\ \A l \in 1..(x - 1) : l \in DOMAIN ids /\ l # x
  OBVIOUS
<1>3. \A l \in 1..(x - 1) : ids[l] # ids[x]
  BY <1>1, <1>2
<1> DEFINE P(k) == ids[k] = ids[x] /\ \A l \in 1..(k - 1) : ids[l] # ids[x]
<1>4. P(x)
  BY <1>3
<1>5. \A k \in DOMAIN ids : P(k) => k = x
  BY <1>1
<1> HIDE DEF P
<1>6. (CHOOSE k \in DOMAIN ids : P(k)) = x
  BY <1>4, <1>5
<1> QED
  BY <1>1, <1>6 DEF StateIndex, P

LEMMA MaxOne ==
  ASSUME NEW n \in Nat
  PROVE  Max({1, n}) = IF n >= 1 THEN n ELSE 1
BY DEF Max

(* A run of regions starts with the region itself and ends in the entry.   *)
LEMMA RunLengthIs ==
  ASSUME NEW counts \in Seq(Nat), NEW k \in 1..Len(counts)
  PROVE  /\ RunLength(counts, k) \in Nat /\ RunLength(counts, k) >= 1
         /\ RunLength(counts, k) <= Len(counts) - k + 1
<1> DEFINE m == Len(counts) - k + 1
           s == {n \in 0..m : \A l \in k..(k + n - 1) : counts[l] = counts[k]}
           t == {n \in 1..m : n \in s}
<1>1. m \in Nat /\ m >= 1 /\ k \in Nat
  OBVIOUS
<1>2. 1 \in s
  <2>1. k..(k + 1 - 1) = {k}
    BY <1>1
  <2> QED
    BY <1>1, <2>1
<1> HIDE DEF m
<1>3. t \in SUBSET (1..m) /\ 1 \in t
  BY <1>1, <1>2
<1>4. Max(t) \in t /\ \A y \in t : Max(t) >= y
  <2> HIDE DEF t
  <2> QED
    BY <1>1, <1>3, MaxOfInterval
<1>5. Max(t) \in s /\ Max(t) \in 1..m /\ \A y \in s : Max(t) >= y
  <2>1. \A y \in s : y \in t \/ y = 0
    BY <1>1
  <2>2. Max(t) \in s /\ Max(t) \in 1..m
    BY <1>4
  <2> HIDE DEF t, s
  <2>3. \A y \in s : y = 0 => Max(t) >= y
    BY <2>2, <1>1
  <2> QED
    BY <1>4, <2>1, <2>2, <2>3
<1>6. Max(s) \in s /\ \A y \in s : Max(s) >= y
  <2> HIDE DEF s, t
  <2> QED
    BY <1>5 DEF Max
<1>7. Max(s) \in 0..m /\ Max(s) >= 1
  BY <1>1, <1>2, <1>6
<1>8. RunLength(counts, k) = Max(s)
  BY DEF RunLength, m
<1> HIDE DEF s
<1> QED
  BY <1>1, <1>7, <1>8 DEF m

(* M1 is not more than one: it ends in the first region of its kind.       *)
LEMMA M1LengthIs ==
  ASSUME NEW e, e.counts \in Seq(Nat), NEW s, s # 0, ~Skips(e, s)
  PROVE  /\ M1Length(e, s) \in DOMAIN e.counts /\ M1Length(e, s) < Len(e.counts)
         /\ Reached(e, M1Length(e, s)) = s
<1> DEFINE E == M1Ends(e, s)
<1>1. PICK k \in E : e.counts[k] # 0 /\ k # Len(e.counts)
  BY DEF Skips
<1>2. E \subseteq DOMAIN e.counts /\ DOMAIN e.counts = 1..Len(e.counts) /\ Len(e.counts) \in Nat
  BY DEF M1Ends
<1>3. \A x \in E : /\ e.counts[x] = 0 \/ Reached(e, x) = s
                   /\ \A l \in 1..(x - 1) : e.counts[l] > 0 /\ Reached(e, l) # s
  BY DEF M1Ends
<1> HIDE DEF E
<1>4. \A x \in E : x \in Nat /\ 1 <= x
  BY <1>2
<1>5. ASSUME NEW x \in E PROVE x = k
  <2>1. CASE x < k
    <3>1. x \in 1..(k - 1)
      BY <1>1, <1>4, <2>1
    <3>2. e.counts[x] > 0 /\ Reached(e, x) # s
      BY <1>1, <1>3, <3>1
    <3>3. e.counts[x] \in Nat
      BY <1>2
    <3> QED
      BY <1>3, <3>2, <3>3
  <2>2. CASE k < x
    <3>1. k \in 1..(x - 1)
      BY <1>1, <1>4, <2>2
    <3> QED
      BY <1>1, <1>3, <3>1
  <2> QED
    BY <1>1, <1>4, <2>1, <2>2
<1>6. M1Length(e, s) = k
  BY <1>1, <1>5 DEF M1Length, E
<1> QED
  BY <1>1, <1>2, <1>3, <1>6

-----------------------------------------------------------------------------
(* States are added behind those that were there, without seeds or marks.  *)
Grown(t, u, n) ==
  /\ DOMAIN t.states \subseteq DOMAIN u.states
  /\ \A s \in DOMAIN t.states : u.states[s] = t.states[s]
  /\ \A s \in DOMAIN u.states \ DOMAIN t.states : u.states[s] = NewState
  /\ Len(t.ids) <= Len(u.ids)
  /\ \A x \in DOMAIN t.ids : u.ids[x] = t.ids[x] /\ u.map[x] = t.map[x]
  /\ \A x \in DOMAIN u.ids \ DOMAIN t.ids : \A k \in 1..n : u.map[x][k] = Unreachable

LEMMA InsertGrows ==
  ASSUME NEW n \in Nat, NEW t, TabWell(t, n),
         NEW s \in States, s \notin DOMAIN t.states, t.ids = <<>> => s = 0
  PROVE  /\ TabWell(Insert(t, s, NewState), n) /\ Grown(t, Insert(t, s, NewState), n)
         /\ DOMAIN Insert(t, s, NewState).states = DOMAIN t.states \cup {s}
<1> DEFINE u == Insert(t, s, NewState)
           D == DOMAIN t.states
           ids == Append(t.ids, s)
           m == Len(t.ids)
<1>1. /\ u.states = [x \in D \cup {s} |-> IF x = s THEN NewState ELSE t.states[x]]
      /\ u.ids = ids /\ u.map = NewRow(t.map, s)
  BY DEF Insert
<1>2. StatesWell(t.states, n) /\ IdsWell(t.ids, t.states) /\ MapWell(t.map, t.ids, n)
  BY DEF TabWell
<1> HIDE DEF u
<1>3. DOMAIN u.states = D \cup {s} /\ u.states[s] = NewState /\ \A x \in D : u.states[x] = t.states[x]
  BY <1>1
<1>4. /\ t.ids \in Seq(States) /\ m \in Nat /\ ids \in Seq(States) /\ Len(ids) = m + 1
      /\ DOMAIN t.ids = 1..m /\ DOMAIN ids = 1..(m + 1) /\ ids[m + 1] = s
      /\ \A x \in 1..m : ids[x] = t.ids[x]
  BY <1>2 DEF IdsWell
<1>5. s = 0 <=> t.ids = <<>>
  <2>1. t.ids # <<>> => 0 \in Range(t.ids)
    <3> HAVE t.ids # <<>>
    <3>1. 1 \in DOMAIN t.ids /\ t.ids[1] = 0
      BY <1>2, <1>4 DEF IdsWell
    <3> QED
      BY <3>1 DEF Range
  <2> QED
    BY <1>2, <2>1 DEF IdsWell
<1>6. StatesWell(u.states, n)
  <2>1. NewState \in StateRec(1..n) /\ TurnInside(NewState)
    BY DEF NewState, StateRec, TurnInside
  <2>2. IsFiniteSet(D \cup {s})
    BY <1>2, FS_AddElement DEF StatesWell
  <2> QED
    BY <1>2, <1>3, <2>1, <2>2 DEF StatesWell
<1> HIDE DEF ids, m, D
<1>7. IdsWell(u.ids, u.states)
  <2>1. \A x \in 1..m : ids[x] # s
    <3> TAKE x \in 1..m
    <3>1. t.ids[x] \in Range(t.ids)
      BY <1>4 DEF Range
    <3> QED
      BY <1>2, <1>4, <3>1 DEF IdsWell
  <2>2. \A x \in 1..(m + 1) : x \in 1..m \/ x = m + 1
    BY <1>4
  <2>3. IsInjective(ids)
    <3>1. \A a, b \in 1..m : ids[a] = ids[b] => a = b
      BY <1>2, <1>4 DEF IdsWell, IsInjective
    <3> QED
      BY <1>4, <2>1, <2>2, <3>1 DEF IsInjective
  <2>4. Range(ids) = D \cup {s}
    <3>1. Range(t.ids) = D
      BY <1>2 DEF IdsWell, D
    <3>2. Range(ids) = {ids[x] : x \in 1..(m + 1)} /\ Range(t.ids) = {t.ids[x] : x \in 1..m}
      BY <1>4 DEF Range
    <3>3. m + 1 \in 1..(m + 1) /\ \A x \in 1..m : x \in 1..(m + 1)
      BY <1>4
    <3> QED
      BY <1>4, <2>2, <3>1, <3>2, <3>3
  <2>5. ids[1] = 0
    <3>1. CASE m = 0
      <4>1. t.ids = <<>>
        BY <1>4, <3>1 DEF m
      <4>2. ids[1] = s
        BY <1>4, <3>1
      <4> QED
        BY <1>5, <4>1, <4>2
    <3>2. CASE m # 0
      <4>1. t.ids # <<>> /\ 1 \in 1..m
        BY <1>4, <3>2
      <4> QED
        BY <1>2, <1>4, <4>1 DEF IdsWell
    <3> QED
      BY <3>1, <3>2
  <2> QED
    BY <1>1, <1>3, <1>4, <2>3, <2>4, <2>5 DEF IdsWell
<1>8. /\ MapWell(u.map, u.ids, n)
      /\ \A x \in 1..m : u.map[x] = t.map[x]
      /\ \A k \in 1..n : u.map[m + 1][k] = Unreachable
  <2>1. u.ids # <<>>
    BY <1>1, <1>4
  <2>2. CASE s = 0
    <3>1. m = 0 /\ t.ids = <<>> /\ u.map = t.map
      BY <1>1, <1>4, <1>5, <2>2 DEF NewRow, m
    <3>2. Len(u.ids) = 1 /\ 1..m = {}
      BY <1>1, <1>4, <3>1
    <3>3. Len(t.map) = 1 /\ t.map \in Seq(Row) /\ \A k \in 1..n : t.map[1][k] = Unreachable
      BY <1>2, <3>1 DEF MapWell, m
    <3>4. \A x \in DOMAIN t.map : Len(t.map[x]) = n
      BY <1>2 DEF MapWell
    <3> QED
      BY <2>1, <3>1, <3>2, <3>3, <3>4 DEF MapWell
  <2>3. CASE s # 0
    <3> DEFINE row == [k \in DOMAIN t.map[1] |-> Unreachable]
    <3>1. u.map = Append(t.map, row) /\ t.ids # <<>> /\ m >= 1
      BY <1>1, <1>4, <1>5, <2>3 DEF NewRow
    <3>2. t.map \in Seq(Row) /\ Len(t.map) = m /\ DOMAIN t.map = 1..m /\ 1 \in DOMAIN t.map
      BY <1>2, <1>4, <3>1 DEF MapWell, m
    <3>3. t.map[1] \in Row /\ Len(t.map[1]) = n /\ \A x \in DOMAIN t.map : Len(t.map[x]) = n
      BY <1>2, <3>2 DEF MapWell
    <3>4. DOMAIN t.map[1] = 1..n
      BY <3>3 DEF Row
    <3>5. row \in Row /\ Len(row) = n /\ \A k \in 1..n : row[k] = Unreachable
      BY <3>4 DEF Row
    <3> HIDE DEF row
    <3>6. /\ u.map \in Seq(Row) /\ Len(u.map) = m + 1 /\ DOMAIN u.map = 1..(m + 1)
          /\ u.map[m + 1] = row /\ \A x \in 1..m : u.map[x] = t.map[x]
      BY <1>4, <3>1, <3>2, <3>5
    <3>7. \A x \in DOMAIN u.map : x \in 1..m \/ x = m + 1
      BY <1>4, <3>6
    <3>8. Len(u.ids) = m + 1 /\ m + 1 >= 1
      BY <1>1, <1>4
    <3>9. \A x \in DOMAIN u.map : Len(u.map[x]) = n
      BY <3>2, <3>3, <3>5, <3>6, <3>7
    <3> QED
      BY <2>1, <3>5, <3>6, <3>8, <3>9 DEF MapWell
  <2> QED
    BY <2>2, <2>3
<1>9. Grown(t, u, n)
  <2>1. \A x \in (D \cup {s}) \ D : u.states[x] = NewState
    BY <1>3
  <2>2. \A x \in DOMAIN u.ids \ DOMAIN t.ids : x = m + 1
    BY <1>1, <1>4
  <2>3. Len(t.ids) <= Len(u.ids)
    BY <1>1, <1>4 DEF m
  <2> QED
    BY <1>1, <1>3, <1>4, <1>8, <2>1, <2>2, <2>3 DEF Grown, D
<1> QED
  BY <1>3, <1>6, <1>7, <1>8, <1>9 DEF TabWell, u, D

LEMMA GrownTwice ==
  ASSUME NEW n \in Nat, NEW t, NEW u, NEW w, TabWell(t, n), TabWell(u, n), TabWell(w, n),
         Grown(t, u, n), Grown(u, w, n)
  PROVE  Grown(t, w, n)
<1>1. /\ Len(t.ids) \in Nat /\ Len(u.ids) \in Nat /\ Len(w.ids) \in Nat
      /\ DOMAIN t.ids = 1..Len(t.ids) /\ DOMAIN u.ids = 1..Len(u.ids) /\ DOMAIN w.ids = 1..Len(w.ids)
  BY DEF TabWell, IdsWell
<1>2. Len(t.ids) <= Len(u.ids) /\ Len(u.ids) <= Len(w.ids)
  BY DEF Grown
<1>3. DOMAIN t.ids \subseteq DOMAIN u.ids /\ DOMAIN u.ids \subseteq DOMAIN w.ids
  BY <1>1, <1>2
<1>4. \A x \in DOMAIN t.ids : w.ids[x] = t.ids[x] /\ w.map[x] = t.map[x]
  BY <1>3 DEF Grown
<1>5. ASSUME NEW x \in DOMAIN w.ids \ DOMAIN t.ids, NEW k \in 1..n
      PROVE  w.map[x][k] = Unreachable
  <2>1. CASE x \in DOMAIN u.ids
    <3>1. w.map[x] = u.map[x] /\ u.map[x][k] = Unreachable
      BY <2>1 DEF Grown
    <3> QED
      BY <3>1
  <2>2. CASE x \notin DOMAIN u.ids
    BY <2>2 DEF Grown
  <2> QED
    BY <2>1, <2>2
<1>6. /\ DOMAIN t.states \subseteq DOMAIN w.states
      /\ \A s \in DOMAIN t.states : w.states[s] = t.states[s]
      /\ \A s \in DOMAIN w.states \ DOMAIN t.states : w.states[s] = NewState
  BY DEF Grown
<1> QED
  BY <1>1, <1>2, <1>4, <1>5, <1>6 DEF Grown

LEMMA GrownNot ==
  ASSUME NEW n \in Nat, NEW t, TabWell(t, n)
  PROVE  Grown(t, t, n)
BY DEF Grown, TabWell, IdsWell

(* The ends of a transition are added, each once, in the order in which    *)
(* the code looks at them; the first state of all is 0.                    *)
LEMMA InsertEndsGrows ==
  ASSUME NEW n \in Nat, NEW t, TabWell(t, n), Nodes = DOMAIN t.states,
         NEW from \in States, NEW to \in States, t.ids = <<>> => from = 0
  PROVE  /\ TabWell(InsertEnds(t, from, to), n) /\ Grown(t, InsertEnds(t, from, to), n)
         /\ DOMAIN InsertEnds(t, from, to).states = Nodes \cup {from, to}
<1> DEFINE u == IF from \in Nodes THEN t ELSE Insert(t, from, NewState)
           w == IF to \in Nodes \cup {from} THEN u ELSE Insert(u, to, NewState)
<1>1. TabWell(u, n) /\ Grown(t, u, n) /\ DOMAIN u.states = Nodes \cup {from}
  <2>1. CASE from \in Nodes
    BY <2>1, GrownNot
  <2>2. CASE from \notin Nodes
    BY <2>2, InsertGrows
  <2> QED
    BY <2>1, <2>2
<1>2. u.ids # <<>>
  <2>1. from \in Range(u.ids)
    BY <1>1 DEF TabWell, IdsWell
  <2> HIDE DEF u
  <2> QED
    BY <2>1 DEF Range
<1> HIDE DEF u
<1>3. TabWell(w, n) /\ Grown(u, w, n) /\ DOMAIN w.states = Nodes \cup {from, to}
  <2>1. CASE to \in Nodes \cup {from}
    BY <1>1, <2>1, GrownNot
  <2>2. CASE to \notin Nodes \cup {from}
    <3>1. to \notin DOMAIN u.states
      BY <1>1, <2>2
    <3> HIDE DEF w
    <3>2. w = Insert(u, to, NewState)
      BY <2>2 DEF w
    <3>3. TabWell(w, n) /\ Grown(u, w, n) /\ DOMAIN w.states = DOMAIN u.states \cup {to}
      BY <1>1, <1>2, <3>1, <3>2, InsertGrows
    <3> QED
      BY <1>1, <3>3
  <2> QED
    BY <2>1, <2>2
<1>4. InsertEnds(t, from, to) = w
  BY DEF InsertEnds, u, w
<1> HIDE DEF w
<1>5. Grown(t, w, n)
  BY <1>1, <1>3, GrownTwice
<1> QED
  BY <1>3, <1>4, <1>5

-----------------------------------------------------------------------------
(* What the invariant says of the tables and of the entries.               *)
LEMMA TablesWell ==
  ASSUME IInv
  PROVE  /\ StatesWell(khms_states, Len(queue)) /\ IdsWell(state_ids, khms_states)
         /\ MapWell(was_fuzzed_map, state_ids, Len(queue))
BY DEF IInv, TabWell, Tables

LEMMA EntriesAre ==
  ASSUME IInv
  PROVE  /\ Len(queue) \in Nat /\ DOMAIN queue = 1..Len(queue) /\ Len(queue) >= Seeds
         /\ q \in DOMAIN queue /\ q \in Nat /\ i \in Nat
         /\ \A k \in DOMAIN queue :
              /\ queue[k] \in Entry /\ k \in Nat
              /\ queue[k].codes \in Seq(States) /\ queue[k].counts \in Seq(Nat)
              /\ Len(queue[k].codes) \in Nat /\ Len(queue[k].counts) \in Nat
<1>1. /\ queue \in Seq(Entry) /\ q \in DOMAIN queue /\ i \in Nat /\ Len(queue) >= Seeds
  BY DEF IInv, TypeRest, EntriesWell
<1>2. Len(queue) \in Nat /\ DOMAIN queue = 1..Len(queue) /\ \A k \in DOMAIN queue : queue[k] \in Entry
  BY <1>1
<1>3. \A e \in Entry : /\ e.codes \in Seq(States) /\ e.counts \in Seq(Nat)
                       /\ Len(e.codes) \in Nat /\ Len(e.counts) \in Nat
  BY DEF Entry
<1> QED
  BY <1>1, <1>2, <1>3

LEMMA IdsAre ==
  ASSUME IInv
  PROVE  /\ state_ids \in Seq(States) /\ Len(state_ids) \in Nat
         /\ DOMAIN state_ids = 1..Len(state_ids)
         /\ DOMAIN was_fuzzed_map = 1..Len(was_fuzzed_map)
         /\ DOMAIN state_ids \subseteq DOMAIN was_fuzzed_map
         /\ 1 \in DOMAIN was_fuzzed_map
         /\ \A x \in DOMAIN was_fuzzed_map :
              /\ was_fuzzed_map[x] \in Row /\ DOMAIN was_fuzzed_map[x] = DOMAIN queue
              /\ Len(was_fuzzed_map[x]) = Len(queue)
         /\ \A x \in DOMAIN state_ids : state_ids[x] \in Known
         /\ \A s \in Known : \E x \in DOMAIN state_ids : state_ids[x] = s
         /\ Known # {} => 0 \in Known /\ state_ids # <<>> /\ state_ids[1] = 0
         /\ state_ids = <<>> => Known = {}
         /\ \A s \in Known : /\ khms_states[s] \in StateRec(DOMAIN queue)
                             /\ khms_states[s].seeds \in Seq(DOMAIN queue)
                             /\ khms_states[s].paths \in Nat
                             /\ khms_states[s].paths_discovered \in Nat
                             /\ khms_states[s].selected_seed_index \in Nat
                             /\ s \in States
<1>1. Len(queue) \in Nat /\ DOMAIN queue = 1..Len(queue)
  BY EntriesAre
<1>2. /\ StatesWell(khms_states, Len(queue)) /\ IdsWell(state_ids, khms_states)
      /\ MapWell(was_fuzzed_map, state_ids, Len(queue))
  BY TablesWell
<1>3. state_ids \in Seq(States) /\ Len(state_ids) \in Nat /\ DOMAIN state_ids = 1..Len(state_ids)
  BY <1>2 DEF IdsWell
<1>4. /\ was_fuzzed_map \in Seq(Row) /\ DOMAIN was_fuzzed_map = 1..Len(was_fuzzed_map)
      /\ Len(was_fuzzed_map) = IF Len(state_ids) >= 1 THEN Len(state_ids) ELSE 1
  <2>1. was_fuzzed_map \in Seq(Row)
    BY <1>2 DEF MapWell
  <2>2. DOMAIN was_fuzzed_map = 1..Len(was_fuzzed_map)
    BY <2>1
  <2>3. Len(was_fuzzed_map) = IF Len(state_ids) >= 1 THEN Len(state_ids) ELSE 1
    BY <1>2, Zenon DEF MapWell
  <2> QED
    BY <2>1, <2>2, <2>3
<1>5. DOMAIN state_ids \subseteq DOMAIN was_fuzzed_map /\ 1 \in DOMAIN was_fuzzed_map
  BY <1>3, <1>4
<1>6. \A x \in DOMAIN was_fuzzed_map :
        was_fuzzed_map[x] \in Row /\ DOMAIN was_fuzzed_map[x] = DOMAIN queue /\ Len(was_fuzzed_map[x]) = Len(queue)
  <2> TAKE x \in DOMAIN was_fuzzed_map
  <2>1. was_fuzzed_map[x] \in Row /\ Len(was_fuzzed_map[x]) = Len(queue)
    BY <1>2, <1>4 DEF MapWell
  <2> QED
    BY <1>1, <2>1 DEF Row
<1>7. Range(state_ids) = Known
  BY <1>2 DEF IdsWell, Known
<1>8. /\ \A x \in DOMAIN state_ids : state_ids[x] \in Known
      /\ \A s \in Known : \E x \in DOMAIN state_ids : state_ids[x] = s
  BY <1>7 DEF Range
<1>9. state_ids = <<>> => Known = {}
  BY <1>8
<1>10. Known # {} => 0 \in Known /\ state_ids # <<>> /\ state_ids[1] = 0
  <2> HAVE Known # {}
  <2>1. state_ids # <<>>
    BY <1>9
  <2>2. state_ids[1] = 0
    BY <1>2, <2>1 DEF IdsWell
  <2>3. 1 \in DOMAIN state_ids
    BY <1>3, <2>1
  <2> QED
    BY <1>8, <2>1, <2>2, <2>3
<1>11. \A s \in Known : khms_states[s] \in StateRec(DOMAIN queue) /\ s \in States
  BY <1>1, <1>2 DEF StatesWell, Known
<1>12. \A D : \A st \in StateRec(D) :
         /\ st.seeds \in Seq(D) /\ st.paths \in Nat /\ st.paths_discovered \in Nat
         /\ st.selected_seed_index \in Nat
  BY DEF StateRec
<1> QED
  BY <1>3, <1>4, <1>5, <1>6, <1>8, <1>9, <1>10, <1>11, <1>12

(* Only the states that are known are reached by an entry that was learned *)
(* from.                                                                   *)
LEMMA ReachedInside ==
  ASSUME NEW e, WellFormed(e), NEW l \in DOMAIN e.counts, e.counts[l] > 0
  PROVE  Reached(e, l) \in Range(e.codes) /\ e.codes # <<>>
<1>1. e.codes \in Seq(States) /\ e.counts \in Seq(Nat)
  BY DEF WellFormed
<1>2. e.codes # <<>>
  BY DEF WellFormed
<1>3. e.counts[l] <= Len(e.codes) /\ e.counts[l] \in Nat
  BY <1>1, <1>2 DEF WellFormed
<1>4. e.counts[l] \in DOMAIN e.codes
  BY <1>1, <1>3
<1> QED
  BY <1>2, <1>4 DEF Reached, Range

(* A step that learns nothing and only takes turns or marks a seed keeps   *)
(* what was learned.                                                       *)
Idle == pc \in {"dry_run", "choose", "seed", "fuzz", "mutate", "sync", "crashed"}

SameTables ==
  /\ state_ids' = state_ids /\ DOMAIN khms_states' = DOMAIN khms_states
  /\ \A s \in Known : /\ khms_states'[s].seeds = khms_states[s].seeds
                      /\ khms_states'[s].paths = khms_states[s].paths
                      /\ khms_states'[s].paths_discovered = khms_states[s].paths_discovered
  /\ \A x \in DOMAIN state_ids : \A k \in DOMAIN queue :
       /\ was_fuzzed_map'[x][k] # Unreachable <=> was_fuzzed_map[x][k] # Unreachable
       /\ was_fuzzed_map'[x][k] = 1 => queue'[k].was_fuzzed

SameEntries ==
  /\ DOMAIN queue' = DOMAIN queue
  /\ \A k \in DOMAIN queue : queue'[k].codes = queue[k].codes /\ queue'[k].counts = queue[k].counts

(* The sum that the balance of paths_discovered is about.                  *)
FoundAt(st) == [s \in DOMAIN st |-> st[s].paths_discovered]

LEMMA FoundTotalIsSum ==
  ASSUME NEW st, IsFiniteSet(DOMAIN st)
  PROVE  FoundTotal(st) = SumOf(FoundAt(st), DOMAIN st)
<1> DEFINE S == DOMAIN st
           f == FoundAt(st)
           B(h) == [s \in SUBSET S |->
                      IF s = {} THEN 0 ELSE st[Pick(s)].paths_discovered + h[s \ {Pick(s)}]]
           total == CHOOSE h : h = B(h)
<1>1. FoundTotal(st) = total[S]
  BY Zenon DEF FoundTotal, MapThenSumSet, MapThenFoldSet, Pick
<1>2. \A h : Body(f, S, h) = B(h)
  <2> SUFFICES ASSUME NEW h PROVE Body(f, S, h) = B(h)
    OBVIOUS
  <2>1. \A s \in SUBSET S : s # {} => f[Pick(s)] = st[Pick(s)].paths_discovered
    BY PickIsIn DEF FoundAt
  <2> HIDE DEF f
  <2> QED
    BY <2>1 DEF Body
<1>3. \E h : h = B(h)
  <2>1. \E h : Adds(f, S, h)
    BY AddsExists
  <2> HIDE DEF B, f, S
  <2> QED
    BY <1>2, <2>1 DEF Adds
<1>4. total = B(total)
  <2> HIDE DEF B
  <2> QED
    BY <1>3, Zenon
<1>5. Adds(f, S, total)
  BY <1>2, <1>4, Zenon DEF Adds
<1>6. PICK g : Adds(f, S, g) /\ SumOf(f, S) = g[S]
  BY SumByAdds
<1> HIDE DEF total, f, S
<1>7. IsFiniteSet(S) /\ S \subseteq S
  BY DEF S
<1>8. g[S] = total[S]
  BY <1>5, <1>6, <1>7, AddsAgree
<1> QED
  BY <1>1, <1>6, <1>8 DEF f, S

LEMMA TotalSame ==
  ASSUME NEW st, NEW su, DOMAIN st = DOMAIN su, IsFiniteSet(DOMAIN st),
         \A s \in DOMAIN st : st[s].paths_discovered = su[s].paths_discovered
  PROVE  FoundTotal(st) = FoundTotal(su)
<1>1. FoundAt(st) = FoundAt(su)
  BY DEF FoundAt
<1> QED
  BY <1>1, FoundTotalIsSum

LEMMA QuietStep ==
  ASSUME IInv, Idle, Idle', SameTables, SameEntries, UNCHANGED <<learned, q>>,
         pc' # "dry_run", pc' = "crashed" => Known = {}
  PROVE  MachineInv' /\ MarksInv' /\ CountsInv'
<1>1. /\ DOMAIN queue' = DOMAIN queue /\ q' = q /\ ipsm' = ipsm
      /\ khs_ipsm_paths' = khs_ipsm_paths /\ Known' = Known /\ state_ids' = state_ids
      /\ \A k \in DOMAIN queue : queue'[k].codes = queue[k].codes /\ queue'[k].counts = queue[k].counts
  BY DEF SameEntries, learned, SameTables, Known
<1>2. /\ pc \notin {"learn", "annotate", "reach", "aborted"}
      /\ pc' \notin {"learn", "annotate", "reach", "aborted"}
  BY DEF Idle
<1>3. Learnt' = Learnt
  BY <1>1, <1>2 DEF Learnt
<1>4. \A k \in DOMAIN queue : Drawn(k)' = Drawn(k)
  BY <1>1, <1>2 DEF Drawn, DrawnTo
<1>5. MachineInv /\ MarksInv /\ CountsInv
  BY DEF IInv
<1>6. Learnt \subseteq DOMAIN queue
  BY DEF Learnt
<1>7. MachineInv'
  <2>1. Nodes' = Known' /\ IsFiniteSet(Known')
    BY <1>1, <1>5 DEF MachineInv, Nodes
  <2>2. \A t : t \in ipsm' <=> \E k \in DOMAIN queue' : t \in Drawn(k)'
    BY <1>1, <1>4, <1>5 DEF MachineInv
  <2>3. PathsDrawn'
    <3>1. \A p \in khs_ipsm_paths : \A t \in TransitionsOf(p) : t \in ipsm
      BY <1>2, <1>5 DEF MachineInv, PathsDrawn
    <3> QED
      BY <1>1, <3>1 DEF PathsDrawn
  <2>4. (\A k \in Learnt : Range(queue[k].codes) \subseteq Known)'
    BY <1>1, <1>3, <1>5, <1>6 DEF MachineInv
  <2>5. (pc = "reach" => 0 \in Known)' /\ (pc \in {"aborted", "crashed"} => Known = {})'
    BY <1>1, <1>2
  <2> QED
    BY <2>1, <2>2, <2>3, <2>4, <2>5 DEF MachineInv
<1>8. MarksInv'
  <2> SUFFICES ASSUME NEW k \in DOMAIN queue, NEW x \in DOMAIN state_ids
      PROVE  (/\ SeedOf(k, state_ids[x]) <=> was_fuzzed_map[x][k] # Unreachable
              /\ was_fuzzed_map[x][k] = 1 => queue[k].was_fuzzed
              /\ k \in Learnt => (SeedOf(k, state_ids[x]) <=> Reaching(k, state_ids[x]))
              /\ k = q /\ pc = "reach" => (SeedOf(k, state_ids[x]) <=> ReachedSoFar(state_ids[x]))
              /\ k \notin Learnt /\ ~(k = q /\ pc = "reach") => ~SeedOf(k, state_ids[x]))'
    BY <1>1 DEF MarksInv
  <2>1. state_ids[x] \in Known
    BY IdsAre
  <2>2. SeedOf(k, state_ids[x])' <=> SeedOf(k, state_ids[x])
    BY <1>1, <2>1 DEF SeedOf, SameTables
  <2>3. Reaching(k, state_ids[x])' <=> Reaching(k, state_ids[x])
    BY <1>1 DEF Reaching, Reached
  <2>4. /\ was_fuzzed_map'[x][k] # Unreachable <=> was_fuzzed_map[x][k] # Unreachable
        /\ was_fuzzed_map'[x][k] = 1 => queue'[k].was_fuzzed
    BY DEF SameTables
  <2>5. /\ SeedOf(k, state_ids[x]) <=> was_fuzzed_map[x][k] # Unreachable
        /\ k \in Learnt => (SeedOf(k, state_ids[x]) <=> Reaching(k, state_ids[x]))
        /\ k \notin Learnt => ~SeedOf(k, state_ids[x])
    BY <1>2, <1>5 DEF MarksInv
  <2> QED
    BY <1>1, <1>2, <1>3, <2>2, <2>3, <2>4, <2>5
<1>9. CountsInv'
  <2>1. \A s : Passed(s)' = Passed(s)
    BY <1>1, <1>3, <1>6 DEF Passed
  <2>2. FoundEntries' = FoundEntries
    BY <1>3 DEF FoundEntries
  <2>3. FoundTotal(khms_states)' = FoundTotal(khms_states)
    <3>1. DOMAIN khms_states = DOMAIN khms_states' /\ IsFiniteSet(DOMAIN khms_states)
      BY <1>5 DEF SameTables, MachineInv, Known
    <3>2. \A s \in DOMAIN khms_states :
             khms_states[s].paths_discovered = khms_states'[s].paths_discovered
      BY DEF SameTables, Known
    <3>3. FoundTotal(khms_states) = FoundTotal(khms_states')
      BY <3>1, <3>2, TotalSame
    <3> QED
      BY <3>3
  <2>4. \A s \in Known : khms_states'[s].paths = khms_states[s].paths
    BY DEF SameTables
  <2> QED
    BY <1>1, <1>5, <2>1, <2>2, <2>3, <2>4 DEF CountsInv
<1> QED
  BY <1>7, <1>8, <1>9

(* A mark and a seed: what Annotate, Reach and Abandon do to one entry of  *)
(* the map and to one list.                                                *)
Marked(map, x, k, v) == [map EXCEPT ![x][k] = v]

OnlyMark(mark, map, ids, n, x, k, v) ==
  \A y \in DOMAIN ids : \A l \in 1..n :
    mark[y][l] = IF y = x /\ l = k THEN v ELSE map[y][l]

LEMMA MarkKeeps ==
  ASSUME NEW n \in Nat, NEW ids \in Seq(States), NEW map, MapWell(map, ids, n),
         NEW x \in DOMAIN ids, NEW k \in 1..n, NEW v \in {Unreachable, 0, 1}
  PROVE  /\ MapWell(Marked(map, x, k, v), ids, n)
         /\ OnlyMark(Marked(map, x, k, v), map, ids, n, x, k, v)
<1> DEFINE row == [map[x] EXCEPT ![k] = v]
           mark == Marked(map, x, k, v)
<1>1. mark = [map EXCEPT ![x] = row]
  BY DEF Marked
<1>2. /\ map \in Seq(Row) /\ Len(map) = IF Len(ids) >= 1 THEN Len(ids) ELSE 1
      /\ \A y \in DOMAIN map : Len(map[y]) = n
  BY DEF MapWell
<1>3. DOMAIN ids = 1..Len(ids) /\ Len(ids) \in Nat /\ DOMAIN map = 1..Len(map)
  BY <1>2
<1>4. DOMAIN ids \subseteq DOMAIN map /\ x \in DOMAIN map
  BY <1>2, <1>3
<1>5. map[x] \in Row /\ DOMAIN map[x] = 1..n /\ Len(map[x]) = n
  <2>1. map[x] \in Row /\ Len(map[x]) = n
    BY <1>2, <1>4
  <2> QED
    BY <2>1 DEF Row
<1>6. /\ row \in Row /\ Len(row) = n /\ row[k] = v
      /\ \A l \in 1..n : l # k => row[l] = map[x][l]
  BY <1>5 DEF Row
<1> HIDE DEF row, mark
<1>7. /\ mark \in Seq(Row) /\ Len(mark) = Len(map) /\ DOMAIN mark = DOMAIN map
      /\ mark[x] = row /\ \A y \in DOMAIN map : y # x => mark[y] = map[y]
  BY <1>1, <1>2, <1>4, <1>6
<1>8. MapWell(mark, ids, n)
  <2>1. \A y \in DOMAIN mark : Len(mark[y]) = n
    BY <1>2, <1>6, <1>7
  <2>2. ids # <<>>
    OBVIOUS
  <2> QED
    BY <1>2, <1>7, <2>1, <2>2 DEF MapWell
<1>9. ASSUME NEW y \in DOMAIN ids, NEW l \in 1..n
      PROVE  mark[y][l] = IF y = x /\ l = k THEN v ELSE map[y][l]
  BY <1>4, <1>6, <1>7
<1> QED
  BY <1>8, <1>9 DEF mark, OnlyMark

Seeded(states, s, k) == [states EXCEPT ![s] = WithSeed(@, k)]

OnlySeed(su, states, s, k) ==
  \A x \in DOMAIN states :
    /\ su[x].paths = states[x].paths /\ su[x].paths_discovered = states[x].paths_discovered
    /\ Range(su[x].seeds) = IF x = s THEN Range(states[x].seeds) \cup {k} ELSE Range(states[x].seeds)

LEMMA SeedKeeps ==
  ASSUME NEW n \in Nat, NEW states, StatesWell(states, n), NEW s \in DOMAIN states, NEW k \in 1..n
  PROVE  /\ StatesWell(Seeded(states, s, k), n) /\ DOMAIN Seeded(states, s, k) = DOMAIN states
         /\ OnlySeed(Seeded(states, s, k), states, s, k)
<1> DEFINE old == states[s]
           new == WithSeed(old, k)
           su == Seeded(states, s, k)
<1>1. old \in StateRec(1..n) /\ TurnInside(old)
  BY DEF StatesWell
<1>2. DOMAIN su = DOMAIN states /\ su[s] = new /\ \A x \in DOMAIN states : x # s => su[x] = states[x]
  BY DEF Seeded
<1> HIDE DEF old, su
<1>3. /\ old.seeds \in Seq(1..n) /\ old.selected_seed_index \in Nat
      /\ new \in StateRec(1..n) /\ new.seeds = Append(old.seeds, k)
      /\ new.selected_seed_index = old.selected_seed_index
      /\ new.paths = old.paths /\ new.paths_discovered = old.paths_discovered
  <2>1. old.seeds \in Seq(1..n)
    BY <1>1 DEF StateRec
  <2> DEFINE list == Append(old.seeds, k)
  <2>2. list \in Seq(1..n)
    BY <2>1
  <2>3. new = [old EXCEPT !.seeds = list]
    BY DEF WithSeed
  <2> HIDE DEF list, new
  <2>4. /\ old.selected_seed_index \in Nat /\ new \in StateRec(1..n) /\ new.seeds = list
        /\ new.selected_seed_index = old.selected_seed_index
        /\ new.paths = old.paths /\ new.paths_discovered = old.paths_discovered
    BY <1>1, <2>2, <2>3 DEF StateRec
  <2> QED
    BY <2>1, <2>4 DEF list
<1> HIDE DEF new
<1> DEFINE m == Len(old.seeds)
<1>4. /\ m \in Nat /\ Len(new.seeds) = m + 1 /\ DOMAIN old.seeds = 1..m /\ DOMAIN new.seeds = 1..(m + 1)
      /\ new.seeds[m + 1] = k /\ \A l \in 1..m : new.seeds[l] = old.seeds[l]
  BY <1>3
<1>5. TurnInside(new)
  BY <1>1, <1>3, <1>4 DEF TurnInside
<1> HIDE DEF m
<1>6. Range(new.seeds) = Range(old.seeds) \cup {k}
  <2>1. \A l \in 1..(m + 1) : l \in 1..m \/ l = m + 1
    BY <1>4
  <2>2. m + 1 \in 1..(m + 1) /\ \A l \in 1..m : l \in 1..(m + 1)
    BY <1>4
  <2> QED
    BY <1>4, <2>1, <2>2 DEF Range
<1>7. \A x \in DOMAIN states : su[x] \in StateRec(1..n) /\ TurnInside(su[x])
  BY <1>2, <1>3, <1>5 DEF StatesWell
<1>8. StatesWell(su, n)
  BY <1>2, <1>7 DEF StatesWell
<1>9. \A x \in DOMAIN states :
        /\ su[x].paths = states[x].paths /\ su[x].paths_discovered = states[x].paths_discovered
        /\ Range(su[x].seeds) = IF x = s THEN Range(states[x].seeds) \cup {k} ELSE Range(states[x].seeds)
  BY <1>2, <1>3, <1>6 DEF old
<1> QED
  BY <1>2, <1>8, <1>9 DEF su, OnlySeed

LEMMA EntriesQuiet ==
  ASSUME IInv, Idle', SameEntries, queue' \in Seq(Entry), q' = q, pc' # "dry_run"
  PROVE  EntriesWell' /\ Len(queue') = Len(queue)
<1>1. EntriesWell /\ DOMAIN queue' = DOMAIN queue /\ Len(queue) \in Nat /\ DOMAIN queue = 1..Len(queue)
  BY EntriesAre DEF SameEntries, IInv
<1>2. Len(queue') \in Nat /\ DOMAIN queue' = 1..Len(queue')
  OBVIOUS
<1>3. Len(queue') = Len(queue)
  BY <1>1, <1>2
<1>4. \A k \in DOMAIN queue : WellFormed(queue'[k])
  <2> TAKE k \in DOMAIN queue
  <2>1. queue'[k].codes = queue[k].codes /\ queue'[k].counts = queue[k].counts
    BY DEF SameEntries
  <2>2. WellFormed(queue[k])
    BY <1>1 DEF EntriesWell
  <2> QED
    BY <2>1, <2>2 DEF WellFormed
<1>5. \A k \in DOMAIN queue : k > q => queue'[k].codes = <<>>
  BY <1>1 DEF EntriesWell, SameEntries
<1>6. ~Processing' /\ pc' # "learn" /\ pc' # "reach"
  BY DEF Idle, Processing
<1>7. Len(queue') >= Seeds
  BY <1>1, <1>3 DEF EntriesWell
<1> QED
  BY <1>1, <1>3, <1>4, <1>5, <1>6, <1>7 DEF EntriesWell

LEMMA ChooseStateKeeps ==
  ASSUME IInv, ChooseState
  PROVE  IInv'
<1>1. /\ pc = "choose" /\ state_ids # <<>> /\ pc' = "seed" /\ TypeRest
      /\ UNCHANGED <<queue, learned, tables, selected_seed, M2, q, i, options>>
  BY DEF ChooseState, IInv
<1>2. /\ queue' = queue /\ q' = q /\ i' = i /\ M2' = M2 /\ selected_seed' = selected_seed
      /\ ipsm' = ipsm /\ khs_ipsm_paths' = khs_ipsm_paths
      /\ khms_states' = khms_states /\ state_ids' = state_ids /\ was_fuzzed_map' = was_fuzzed_map
      /\ state_selection_algo' = state_selection_algo /\ seed_selection_algo' = seed_selection_algo
  BY <1>1 DEF learned, tables, options
<1>3. Idle /\ Idle' /\ SameEntries
  BY <1>1, <1>2 DEF Idle, SameEntries
<1>4. SameTables
  <2>1. \A x \in DOMAIN state_ids : \A k \in DOMAIN queue :
          was_fuzzed_map[x][k] = 1 => queue[k].was_fuzzed
    BY DEF IInv, MarksInv
  <2> QED
    BY <1>2, <2>1 DEF SameTables
<1>5. /\ target_state_id' \in Range(state_ids)
      /\ selected_state_index' \in Nat /\ selected_state_index' < Len(state_ids)
      /\ state_cycles' \in 0..WarmUp
  <2>1. /\ Len(state_ids) \in Nat /\ DOMAIN state_ids = 1..Len(state_ids) /\ Len(state_ids) # 0
        /\ selected_state_index \in Nat /\ state_cycles \in 0..WarmUp
        /\ selected_state_index < Len(state_ids) /\ WarmUp \in Nat
    BY <1>1, IdsAre, EmptySeq, BoundsAssumption DEF TypeRest
  <2>2. CASE /\ TakesTurns
             /\ target_state_id' = state_ids[selected_state_index + 1]
             /\ selected_state_index' = Advance(selected_state_index, Len(state_ids))
             /\ state_cycles' = IF WarmingUp /\ selected_state_index' = 0
                                THEN state_cycles + 1 ELSE state_cycles
    <3>1. selected_state_index + 1 \in DOMAIN state_ids
      BY <2>1
    <3> DEFINE n == Len(state_ids)
    <3>a. selected_state_index' = Advance(selected_state_index, n)
      BY <2>2
    <3>b. n \in Nat /\ selected_state_index \in Nat /\ selected_state_index < n
      BY <2>1
    <3> HIDE DEF n
    <3>2. selected_state_index' \in Nat /\ selected_state_index' < n
      BY <3>a, <3>b DEF Advance
    <3> USE DEF n
    <3>3. WarmingUp => state_cycles < WarmUp
      BY DEF WarmingUp
    <3>4. state_cycles' \in 0..WarmUp
      BY <2>1, <2>2, <3>3
    <3> QED
      BY <2>2, <3>1, <3>2, <3>4 DEF Range
  <2>3. CASE /\ ~TakesTurns
             /\ \E k \in DOMAIN state_ids :
                  /\ target_state_id' = state_ids[k]
                  /\ selected_state_index' = IF state_selection_algo = Random
                                             THEN k - 1 ELSE selected_state_index
             /\ UNCHANGED state_cycles
    BY <2>1, <2>3 DEF Range
  <2> QED
    BY <2>2, <2>3 DEF ChooseState
<1>6. target_state_id' \in Known
  BY <1>5, TablesWell DEF IdsWell, Known
<1>7. target_state_id' \in States
  BY <1>6, IdsAre
<1>8. MachineInv' /\ MarksInv' /\ CountsInv'
  BY <1>1, <1>2, <1>3, <1>4, QuietStep
<1>9. EntriesWell'
  BY <1>1, <1>2, <1>3, EntriesQuiet DEF TypeRest
<1>10. TabWell(Tables, Len(queue))'
  BY <1>2 DEF IInv, Tables
<1>11. RoundInv'
  <2>1. M2 = NoM2
    BY <1>1 DEF IInv, RoundInv, Processing
  <2>2. target_state_id' \in Known'
    BY <1>2, <1>6 DEF Known
  <2> QED
    BY <1>1, <1>2, <2>1, <2>2 DEF RoundInv, NoM2
<1>12. TypeRest'
  BY <1>1, <1>2, <1>5, <1>7 DEF TypeRest, options
<1> QED
  BY <1>8, <1>9, <1>10, <1>11, <1>12 DEF IInv

LEMMA NoStatesKeeps ==
  ASSUME IInv, NoStates
  PROVE  IInv'
<1>1. /\ pc = "choose" /\ state_ids = <<>> /\ pc' = "crashed" /\ TypeRest
      /\ UNCHANGED <<queue, learned, tables, choice, q, i, options>>
  BY DEF NoStates, IInv
<1>2. /\ queue' = queue /\ q' = q /\ i' = i /\ M2' = M2 /\ selected_seed' = selected_seed
      /\ ipsm' = ipsm /\ khs_ipsm_paths' = khs_ipsm_paths
      /\ khms_states' = khms_states /\ state_ids' = state_ids /\ was_fuzzed_map' = was_fuzzed_map
      /\ selected_state_index' = selected_state_index /\ state_cycles' = state_cycles
      /\ target_state_id' = target_state_id
      /\ state_selection_algo' = state_selection_algo /\ seed_selection_algo' = seed_selection_algo
  BY <1>1 DEF learned, tables, options, choice
<1>3. Idle /\ Idle' /\ SameEntries
  BY <1>1, <1>2 DEF Idle, SameEntries
<1>4. SameTables
  <2>1. \A x \in DOMAIN state_ids : \A k \in DOMAIN queue :
          was_fuzzed_map[x][k] = 1 => queue[k].was_fuzzed
    BY DEF IInv, MarksInv
  <2> QED
    BY <1>2, <2>1 DEF SameTables
<1>5. Known = {}
  BY <1>1, IdsAre
<1>6. MachineInv' /\ MarksInv' /\ CountsInv'
  BY <1>1, <1>2, <1>3, <1>4, <1>5, QuietStep
<1>7. EntriesWell'
  BY <1>1, <1>2, <1>3, EntriesQuiet DEF TypeRest
<1>8. TabWell(Tables, Len(queue))'
  BY <1>2 DEF IInv, Tables
<1>9. RoundInv'
  <2>1. M2 = NoM2 /\ ~(q > Seeds)
    BY <1>1, <1>5 DEF IInv, RoundInv, Processing
  <2> QED
    BY <1>1, <1>2, <2>1 DEF RoundInv, NoM2
<1>10. TypeRest'
  BY <1>1, <1>2 DEF TypeRest, options
<1> QED
  BY <1>6, <1>7, <1>8, <1>9, <1>10 DEF IInv

LEMMA ContinueKeeps ==
  ASSUME IInv, Continue
  PROVE  IInv'
<1>1. /\ pc = "sync" /\ pc' = "choose" /\ TypeRest
      /\ UNCHANGED <<queue, learned, tables, choice, q, i, options>>
  BY DEF Continue, IInv
<1>2. /\ queue' = queue /\ q' = q /\ i' = i /\ M2' = M2 /\ selected_seed' = selected_seed
      /\ ipsm' = ipsm /\ khs_ipsm_paths' = khs_ipsm_paths
      /\ khms_states' = khms_states /\ state_ids' = state_ids /\ was_fuzzed_map' = was_fuzzed_map
      /\ selected_state_index' = selected_state_index /\ state_cycles' = state_cycles
      /\ target_state_id' = target_state_id
      /\ state_selection_algo' = state_selection_algo /\ seed_selection_algo' = seed_selection_algo
  BY <1>1 DEF learned, tables, options, choice
<1>3. Idle /\ Idle' /\ SameEntries
  BY <1>1, <1>2 DEF Idle, SameEntries
<1>4. SameTables
  <2>1. \A x \in DOMAIN state_ids : \A k \in DOMAIN queue :
          was_fuzzed_map[x][k] = 1 => queue[k].was_fuzzed
    BY DEF IInv, MarksInv
  <2> QED
    BY <1>2, <2>1 DEF SameTables
<1>5. MachineInv' /\ MarksInv' /\ CountsInv'
  BY <1>1, <1>2, <1>3, <1>4, QuietStep
<1>6. EntriesWell'
  BY <1>1, <1>2, <1>3, EntriesQuiet DEF TypeRest
<1>7. TabWell(Tables, Len(queue))'
  BY <1>2 DEF IInv, Tables
<1>8. RoundInv'
  <2>1. M2 = NoM2 /\ (q > Seeds => target_state_id \in Known)
    BY <1>1 DEF IInv, RoundInv, Processing
  <2> QED
    BY <1>1, <1>2, <2>1 DEF RoundInv, NoM2, Known
<1>9. TypeRest'
  BY <1>1, <1>2 DEF TypeRest, options
<1> QED
  BY <1>5, <1>6, <1>7, <1>8, <1>9 DEF IInv

LEMMA ChooseSeedKeeps ==
  ASSUME IInv, ChooseSeed
  PROVE  IInv'
<1> DEFINE state == khms_states[target_state_id]
           t == target_state_id
<1>1. /\ pc = "seed" /\ TypeRest
      /\ queue' = queue /\ q' = q /\ i' = i /\ M2' = M2
      /\ ipsm' = ipsm /\ khs_ipsm_paths' = khs_ipsm_paths
      /\ state_ids' = state_ids /\ was_fuzzed_map' = was_fuzzed_map
      /\ selected_state_index' = selected_state_index /\ state_cycles' = state_cycles
      /\ target_state_id' = t
      /\ state_selection_algo' = state_selection_algo /\ seed_selection_algo' = seed_selection_algo
  BY DEF ChooseSeed, IInv, learned, options
<1>2. M2 = NoM2 /\ t \in Known
  BY <1>1 DEF IInv, RoundInv, Processing
<1>3. /\ state \in StateRec(DOMAIN queue) /\ state.seeds \in Seq(DOMAIN queue)
      /\ state.selected_seed_index \in Nat
      /\ StatesWell(khms_states, Len(queue)) /\ TurnInside(state)
  BY <1>2, IdsAre, TablesWell DEF StatesWell, Known
<1>4. /\ pc' \in {"choose", "fuzz"} /\ StatesWell(khms_states', Len(queue))
      /\ DOMAIN khms_states' = Known
      /\ \A s \in Known : /\ khms_states'[s].seeds = khms_states[s].seeds
                          /\ khms_states'[s].paths = khms_states[s].paths
                          /\ khms_states'[s].paths_discovered = khms_states[s].paths_discovered
      /\ selected_seed' \in (DOMAIN queue) \cup {NoEntry}
      /\ pc' = "fuzz" => queue[selected_seed'].counts # <<>> /\ selected_seed' \in Range(state.seeds)
  <2>1. CASE state.seeds = <<>> /\ pc' = "choose" /\ UNCHANGED <<khms_states, selected_seed>>
    BY <1>1, <1>3, <2>1 DEF TypeRest, Known
  <2>2. CASE /\ state.seeds # <<>>
             /\ \E k \in Picks(state) :
                 /\ selected_seed' = state.seeds[k + 1]
                 /\ khms_states' =
                      [khms_states EXCEPT ![t].selected_seed_index =
                         IF seed_selection_algo = Random
                         THEN k ELSE Advance(k, Len(state.seeds))]
             /\ pc' = IF queue[selected_seed'].counts = <<>> THEN "choose" ELSE "fuzz"
    <3>1. PICK k \in Picks(state) :
                 /\ selected_seed' = state.seeds[k + 1]
                 /\ khms_states' =
                      [khms_states EXCEPT ![t].selected_seed_index =
                         IF seed_selection_algo = Random
                         THEN k ELSE Advance(k, Len(state.seeds))]
      BY <2>2
    <3> DEFINE n == Len(state.seeds)
               z == IF seed_selection_algo = Random THEN k ELSE Advance(k, n)
               upd == [state EXCEPT !.selected_seed_index = z]
    <3>2. n \in Nat /\ n # 0 /\ DOMAIN state.seeds = 1..n
      BY <1>3, <2>2, EmptySeq
    <3>3. k \in Nat /\ k < n
      <4>1. state.selected_seed_index < n
        BY <1>3, <3>2 DEF TurnInside
      <4> HIDE DEF n, state
      <4>2. k \in {state.selected_seed_index} \/ k \in 0..(n - 1)
        BY DEF Picks, n
      <4>3. state.selected_seed_index \in Nat
        BY <1>3
      <4> QED
        BY <3>2, <4>1, <4>2, <4>3
    <3>4. z \in Nat /\ z < n
      <4> HIDE DEF n
      <4>1. Advance(k, n) \in Nat /\ Advance(k, n) < n
        BY <3>2, <3>3 DEF Advance
      <4> QED
        BY <3>3, <4>1
    <3>5. khms_states' = [khms_states EXCEPT ![t] = upd]
      BY <3>1
    <3> HIDE DEF z
    <3>6. /\ upd \in StateRec(1..Len(queue)) /\ TurnInside(upd) /\ upd.seeds = state.seeds
          /\ upd.paths = state.paths /\ upd.paths_discovered = state.paths_discovered
      <4>1. state \in StateRec(1..Len(queue))
        BY <1>3, EntriesAre
      <4> HIDE DEF state
      <4>2. upd \in StateRec(1..Len(queue)) /\ upd.seeds = state.seeds
            /\ upd.paths = state.paths /\ upd.paths_discovered = state.paths_discovered
            /\ upd.selected_seed_index = z
        BY <3>4, <4>1 DEF StateRec
      <4> QED
        BY <3>4, <4>2 DEF TurnInside
    <3> HIDE DEF upd
    <3>7. /\ DOMAIN khms_states' = Known /\ khms_states'[t] = upd
          /\ \A s \in Known \ {t} : khms_states'[s] = khms_states[s]
      BY <1>2, <3>5 DEF Known
    <3>8. StatesWell(khms_states', Len(queue))
      <4>1. \A s \in Known : khms_states'[s] \in StateRec(1..Len(queue)) /\ TurnInside(khms_states'[s])
        BY <1>3, <3>6, <3>7 DEF StatesWell, Known
      <4> QED
        BY <1>3, <3>7, <4>1 DEF StatesWell, Known
    <3>9. k + 1 \in DOMAIN state.seeds
      BY <3>2, <3>3
    <3>10. selected_seed' \in DOMAIN queue /\ selected_seed' \in Range(state.seeds)
      BY <1>3, <3>1, <3>9, ElementOfSeq DEF Range
    <3> QED
      BY <2>2, <3>6, <3>7, <3>8, <3>10
  <2> QED
    BY <2>1, <2>2 DEF ChooseSeed
<1>5. Idle /\ Idle' /\ SameEntries
  BY <1>1, <1>4 DEF Idle, SameEntries
<1>6. SameTables
  <2>1. \A x \in DOMAIN state_ids : \A k \in DOMAIN queue :
          was_fuzzed_map[x][k] = 1 => queue[k].was_fuzzed
    BY DEF IInv, MarksInv
  <2> QED
    BY <1>1, <1>4, <2>1 DEF SameTables, Known
<1>7. MachineInv' /\ MarksInv' /\ CountsInv'
  BY <1>1, <1>4, <1>5, <1>6, QuietStep DEF learned
<1>8. EntriesWell'
  BY <1>1, <1>4, <1>5, EntriesQuiet DEF TypeRest
<1>9. TabWell(Tables, Len(queue))'
  <2>1. IdsWell(state_ids, khms_states) /\ MapWell(was_fuzzed_map, state_ids, Len(queue))
    BY TablesWell
  <2>2. IdsWell(state_ids', khms_states') /\ MapWell(was_fuzzed_map', state_ids', Len(queue'))
    BY <1>1, <1>4, <2>1 DEF IdsWell, Known
  <2> QED
    BY <1>1, <1>4, <2>2 DEF TabWell, Tables
<1>10. RoundInv'
  <2>1. target_state_id' \in Known'
    BY <1>1, <1>2, <1>4 DEF Known
  <2>2. pc' = "fuzz" => selected_seed' \in Range(khms_states'[target_state_id'].seeds)
    BY <1>1, <1>2, <1>4
  <2> QED
    BY <1>1, <1>2, <1>4, <2>1, <2>2 DEF RoundInv, NoM2
<1>11. TypeRest'
  BY <1>1, <1>4 DEF TypeRest, options
<1> QED
  BY <1>7, <1>8, <1>9, <1>10, <1>11 DEF IInv

LEMMA FuzzOneKeeps ==
  ASSUME IInv, FuzzOne
  PROVE  IInv'
<1> DEFINE e == queue[selected_seed]
           t == target_state_id
           start == M1Length(e, t)
<1>1. /\ pc = "fuzz" /\ TypeRest
      /\ queue' = queue /\ q' = q /\ i' = i
      /\ ipsm' = ipsm /\ khs_ipsm_paths' = khs_ipsm_paths
      /\ khms_states' = khms_states /\ state_ids' = state_ids /\ was_fuzzed_map' = was_fuzzed_map
      /\ selected_state_index' = selected_state_index /\ state_cycles' = state_cycles
      /\ target_state_id' = t
      /\ state_selection_algo' = state_selection_algo /\ seed_selection_algo' = seed_selection_algo
  BY DEF FuzzOne, IInv, learned, options, tables
<1>2. /\ M2 = NoM2 /\ t \in Known /\ e.counts # <<>> /\ selected_seed \in Range(khms_states[t].seeds)
  BY <1>1 DEF IInv, RoundInv, Processing
<1>3. selected_seed \in DOMAIN queue
  <2>1. khms_states[t].seeds \in Seq(DOMAIN queue)
    BY <1>2, IdsAre
  <2> QED
    BY <1>2, <2>1 DEF Range
<1>4. e \in Entry /\ e.counts \in Seq(Nat) /\ Len(e.counts) \in Nat /\ Len(e.counts) # 0
  BY <1>2, <1>3, EntriesAre, EmptySeq
<1>5. \/ pc' = "choose" /\ selected_seed' = NoEntry /\ M2' = M2
      \/ /\ pc' = "mutate" /\ selected_seed' = selected_seed /\ ~Skips(e, t)
         /\ M2' = [start |-> start, count |-> RunLength(e.counts, start + 1)]
  BY DEF FuzzOne
<1>6. Idle /\ Idle' /\ SameEntries /\ pc' # "dry_run" /\ pc' # "crashed"
  BY <1>1, <1>5 DEF Idle, SameEntries
<1>7. SameTables
  <2>1. \A x \in DOMAIN state_ids : \A k \in DOMAIN queue :
          was_fuzzed_map[x][k] = 1 => queue[k].was_fuzzed
    BY DEF IInv, MarksInv
  <2> QED
    BY <1>1, <2>1 DEF SameTables, Known
<1>8. MachineInv' /\ MarksInv' /\ CountsInv'
  BY <1>1, <1>6, <1>7, QuietStep DEF learned
<1>9. EntriesWell'
  BY <1>1, <1>6, EntriesQuiet DEF TypeRest
<1>10. TabWell(Tables, Len(queue))'
  BY <1>1 DEF IInv, Tables
<1>11. ASSUME pc' = "mutate" PROVE M2' \in [start : Nat, count : Nat] /\ M2' # NoM2 /\ FollowsTarget'
  <2>1. /\ selected_seed' = selected_seed /\ ~Skips(e, t)
        /\ M2' = [start |-> start, count |-> RunLength(e.counts, start + 1)]
    BY <1>5, <1>11
  <2>2. start \in Nat /\ start < Len(e.counts) /\ (t # 0 => start > 0 /\ Reached(e, start) = t)
    <3>1. CASE t = 0
      BY <1>4, <3>1 DEF M1Length
    <3>2. CASE t # 0
      <4>1. start \in DOMAIN e.counts /\ start < Len(e.counts) /\ Reached(e, start) = t
        BY <1>4, <2>1, <3>2, M1LengthIs
      <4>2. DOMAIN e.counts = 1..Len(e.counts)
        BY <1>4
      <4> QED
        BY <4>1, <4>2
    <3> QED
      BY <3>1, <3>2
  <2> HIDE DEF start
  <2> DEFINE n == RunLength(e.counts, start + 1)
  <2>3. start + 1 \in 1..Len(e.counts)
    BY <1>4, <2>2
  <2>4. n \in Nat /\ n >= 1 /\ n <= Len(e.counts) - (start + 1) + 1
    BY <1>4, <2>3, RunLengthIs
  <2> HIDE DEF n
  <2>5. M2' \in [start : Nat, count : Nat] /\ M2'.start = start /\ M2'.count = n
    BY <2>1, <2>2, <2>4 DEF n
  <2>6. M2' # NoM2
    BY <2>4, <2>5 DEF NoM2
  <2>7. start + n <= Len(e.counts) /\ n > 0
    BY <1>4, <2>2, <2>4
  <2>8. queue'[selected_seed'] = e
    BY <1>1, <2>1
  <2> HIDE DEF e
  <2> QED
    BY <1>1, <2>2, <2>5, <2>6, <2>7, <2>8 DEF FollowsTarget, Reached
<1>12. RoundInv'
  <2>1. target_state_id' \in Known' /\ target_state_id' = t /\ khms_states' = khms_states
    BY <1>1, <1>2 DEF Known
  <2>2. CASE pc' = "choose"
    BY <1>1, <1>2, <1>5, <2>1, <2>2 DEF RoundInv, NoM2
  <2>3. CASE pc' = "mutate"
    BY <1>1, <1>2, <1>5, <1>11, <2>1, <2>3 DEF RoundInv
  <2> QED
    BY <1>5, <2>2, <2>3
<1>13. TypeRest'
  <2>1. M2' \in [start : Nat, count : Nat]
    BY <1>1, <1>5, <1>11 DEF TypeRest
  <2>2. selected_seed' \in (DOMAIN queue') \cup {NoEntry}
    BY <1>1, <1>5 DEF TypeRest
  <2>3. pc' \in {"choose", "mutate"}
    BY <1>5
  <2> QED
    BY <1>1, <2>1, <2>2, <2>3 DEF TypeRest, options
<1> QED
  BY <1>8, <1>9, <1>10, <1>12, <1>13 DEF IInv

LEMMA AbandonKeeps ==
  ASSUME IInv, Abandon
  PROVE  IInv'
<1> DEFINE t == target_state_id
           e == queue[selected_seed]
<1>1. /\ pc = "mutate" /\ pc' = "sync" /\ selected_seed' = NoEntry /\ M2' = NoM2 /\ TypeRest
      /\ q' = q /\ i' = i
      /\ ipsm' = ipsm /\ khs_ipsm_paths' = khs_ipsm_paths
      /\ khms_states' = khms_states /\ state_ids' = state_ids
      /\ selected_state_index' = selected_state_index /\ state_cycles' = state_cycles
      /\ target_state_id' = t
      /\ state_selection_algo' = state_selection_algo /\ seed_selection_algo' = seed_selection_algo
  BY DEF Abandon, IInv, learned, options
<1>2. t \in Known /\ selected_seed \in Range(khms_states[t].seeds)
  BY <1>1 DEF IInv, RoundInv
<1>3. selected_seed \in DOMAIN queue
  <2>1. khms_states[t].seeds \in Seq(DOMAIN queue)
    BY <1>2, IdsAre
  <2> QED
    BY <1>2, <2>1 DEF Range
<1>4. PICK x \in DOMAIN state_ids : state_ids[x] = t
  BY <1>2, IdsAre
<1>5. StateIndex(state_ids, t) = x
  BY <1>4, TablesWell, StateIndexIs DEF IdsWell
<1>6. \/ queue' = queue /\ was_fuzzed_map' = was_fuzzed_map
      \/ /\ queue' = [queue EXCEPT ![selected_seed].was_fuzzed = TRUE]
         /\ was_fuzzed_map' = [was_fuzzed_map EXCEPT ![x][selected_seed] = 1]
  BY <1>5 DEF Abandon
<1>7. /\ queue' \in Seq(Entry) /\ SameEntries /\ Len(queue') = Len(queue)
      /\ MapWell(was_fuzzed_map', state_ids, Len(queue)) /\ SameTables
  <2>1. /\ queue \in Seq(Entry) /\ MapWell(was_fuzzed_map, state_ids, Len(queue))
        /\ \A y \in DOMAIN state_ids : \A k \in DOMAIN queue :
             was_fuzzed_map[y][k] = 1 => queue[k].was_fuzzed
    BY <1>1, TablesWell DEF TypeRest, IInv, MarksInv
  <2>2. CASE queue' = queue /\ was_fuzzed_map' = was_fuzzed_map
    BY <1>1, <2>1, <2>2 DEF SameEntries, SameTables, Known
  <2>3. CASE /\ queue' = [queue EXCEPT ![selected_seed].was_fuzzed = TRUE]
             /\ was_fuzzed_map' = [was_fuzzed_map EXCEPT ![x][selected_seed] = 1]
    <3> DEFINE upd == [e EXCEPT !.was_fuzzed = TRUE]
    <3>1. queue' = [queue EXCEPT ![selected_seed] = upd]
      BY <2>3
    <3>3. upd \in Entry /\ upd.codes = e.codes /\ upd.counts = e.counts /\ upd.was_fuzzed
      <4>1. e \in Entry
        BY <1>3, EntriesAre
      <4> HIDE DEF e
      <4> QED
        BY <4>1 DEF Entry
    <3> HIDE DEF upd
    <3>4. /\ queue' \in Seq(Entry) /\ Len(queue') = Len(queue) /\ DOMAIN queue' = DOMAIN queue
          /\ queue'[selected_seed] = upd
          /\ \A k \in DOMAIN queue \ {selected_seed} : queue'[k] = queue[k]
      BY <1>3, <2>1, <3>1, <3>3
    <3>5. SameEntries
      BY <3>3, <3>4 DEF SameEntries
    <3>6. Len(queue) \in Nat /\ DOMAIN queue = 1..Len(queue) /\ state_ids \in Seq(States)
          /\ 1 \in {Unreachable, 0, 1}
      BY EntriesAre, IdsAre
    <3>7. was_fuzzed_map' = Marked(was_fuzzed_map, x, selected_seed, 1)
      BY <2>3 DEF Marked
    <3>8. MapWell(was_fuzzed_map', state_ids, Len(queue))
      BY <1>3, <2>1, <3>6, <3>7, MarkKeeps
    <3>9. \A y \in DOMAIN state_ids : \A k \in DOMAIN queue :
            was_fuzzed_map'[y][k] = IF y = x /\ k = selected_seed THEN 1 ELSE was_fuzzed_map[y][k]
      <4>1. OnlyMark(was_fuzzed_map', was_fuzzed_map, state_ids, Len(queue), x, selected_seed, 1)
        BY <1>3, <2>1, <3>6, <3>7, MarkKeeps
      <4> QED
        BY <3>6, <4>1 DEF OnlyMark
    <3>11. was_fuzzed_map[x][selected_seed] # Unreachable
      <4>1. SeedOf(selected_seed, state_ids[x])
        BY <1>2, <1>4 DEF SeedOf
      <4> QED
        BY <1>3, <4>1 DEF IInv, MarksInv
    <3>12. \A y \in DOMAIN state_ids : \A k \in DOMAIN queue :
             /\ was_fuzzed_map'[y][k] # Unreachable <=> was_fuzzed_map[y][k] # Unreachable
             /\ was_fuzzed_map'[y][k] = 1 => queue'[k].was_fuzzed
      <4> TAKE y \in DOMAIN state_ids
      <4> TAKE k \in DOMAIN queue
      <4>1. 1 # Unreachable
        BY DEF Unreachable
      <4>2. was_fuzzed_map[y][k] = 1 => queue'[k].was_fuzzed
        BY <2>1, <3>3, <3>4
      <4>3. CASE y = x /\ k = selected_seed
        BY <3>3, <3>4, <3>9, <3>11, <4>1, <4>3
      <4>4. CASE ~(y = x /\ k = selected_seed)
        BY <3>9, <4>2, <4>4
      <4> QED
        BY <4>3, <4>4
    <3>13. SameTables
      BY <1>1, <3>12 DEF SameTables, Known
    <3> QED
      BY <3>4, <3>5, <3>8, <3>13
  <2> QED
    BY <1>6, <2>2, <2>3
<1>8. Idle /\ Idle'
  BY <1>1 DEF Idle
<1>9. MachineInv' /\ MarksInv' /\ CountsInv'
  BY <1>1, <1>7, <1>8, QuietStep DEF learned
<1>10. EntriesWell'
  BY <1>1, <1>7, <1>8, EntriesQuiet
<1>11. TabWell(Tables, Len(queue))'
  <2>1. StatesWell(khms_states, Len(queue)) /\ IdsWell(state_ids, khms_states)
    BY TablesWell
  <2> QED
    BY <1>1, <1>7, <2>1 DEF TabWell, Tables
<1>12. RoundInv'
  BY <1>1, <1>2 DEF RoundInv, NoM2, Known
<1>13. TypeRest'
  <2>1. NoM2 \in [start : Nat, count : Nat]
    BY DEF NoM2
  <2>2. DOMAIN queue' = DOMAIN queue
    BY <1>7 DEF SameEntries
  <2> QED
    BY <1>1, <1>7, <2>1, <2>2 DEF TypeRest, options
<1> QED
  BY <1>9, <1>10, <1>11, <1>12, <1>13 DEF IInv

(* While an entry is annotated it becomes a seed of one state after        *)
(* another; nothing else that was learned changes.                         *)
Annotating == pc \in {"annotate", "reach"}

LEMMA AnnotatingLearnt ==
  ASSUME IInv, Annotating, Annotating', UNCHANGED <<queue, learned, q>>
  PROVE  /\ Learnt' = Learnt /\ (\A k \in DOMAIN queue : Drawn(k)' = Drawn(k))
         /\ q \notin Learnt /\ PathsDrawn'
<1>1. /\ queue' = queue /\ q' = q /\ ipsm' = ipsm /\ khs_ipsm_paths' = khs_ipsm_paths
      /\ pc \in {"annotate", "reach"} /\ pc' \in {"annotate", "reach"}
  BY DEF Annotating, learned
<1>2. Learnt' = Learnt /\ q \notin Learnt
  BY <1>1 DEF Learnt
<1>3. \A k \in DOMAIN queue : Drawn(k)' = Drawn(k)
  BY <1>1 DEF Drawn, DrawnTo
<1>4. PathsDrawn'
  <2>1. \A p \in khs_ipsm_paths : \A t \in TransitionsOf(p) : t \in ipsm
    BY <1>1 DEF IInv, MachineInv, PathsDrawn
  <2> QED
    BY <1>1, <2>1 DEF PathsDrawn
<1> QED
  BY <1>2, <1>3, <1>4

LEMMA SeedStep ==
  ASSUME IInv, Annotating, pc' = "reach", NEW x \in DOMAIN state_ids,
         khms_states' = Seeded(khms_states, state_ids[x], q),
         was_fuzzed_map' = Marked(was_fuzzed_map, x, q, 0),
         UNCHANGED <<queue, learned, state_ids, choice, q, options>>,
         i' \in 1..(Len(queue[q].counts) + 1),
         \A y \in DOMAIN state_ids :
           ReachedSoFar(state_ids[y])' <=> y = x \/ SeedOf(q, state_ids[y])
  PROVE  IInv'
<1> DEFINE n == Len(queue)
           s == state_ids[x]
<1>1. /\ TypeRest /\ EntriesWell /\ MachineInv /\ RoundInv /\ MarksInv /\ CountsInv
      /\ StatesWell(khms_states, n) /\ IdsWell(state_ids, khms_states)
      /\ MapWell(was_fuzzed_map, state_ids, n)
  BY TablesWell DEF IInv
<1>2. /\ queue' = queue /\ q' = q /\ state_ids' = state_ids /\ M2' = M2
      /\ ipsm' = ipsm /\ khs_ipsm_paths' = khs_ipsm_paths
      /\ selected_seed' = selected_seed /\ target_state_id' = target_state_id
      /\ selected_state_index' = selected_state_index /\ state_cycles' = state_cycles
      /\ state_selection_algo' = state_selection_algo /\ seed_selection_algo' = seed_selection_algo
  BY DEF learned, choice, options
<1>3. n \in Nat /\ DOMAIN queue = 1..n /\ q \in 1..n /\ s \in Known /\ state_ids \in Seq(States)
  BY EntriesAre, IdsAre
<1>4. Annotating' /\ pc \in {"annotate", "reach"}
  BY DEF Annotating
<1>5. /\ Learnt' = Learnt /\ (\A k \in DOMAIN queue : Drawn(k)' = Drawn(k))
      /\ q \notin Learnt /\ PathsDrawn'
  BY <1>2, <1>4, AnnotatingLearnt DEF learned
<1>a. /\ StatesWell(khms_states', n) /\ DOMAIN khms_states' = DOMAIN khms_states
      /\ OnlySeed(khms_states', khms_states, s, q)
  BY <1>1, <1>3, SeedKeeps DEF Known
<1>6. /\ StatesWell(khms_states', n) /\ DOMAIN khms_states' = Known /\ Known' = Known
      /\ \A z \in Known :
           /\ khms_states'[z].paths = khms_states[z].paths
           /\ khms_states'[z].paths_discovered = khms_states[z].paths_discovered
           /\ Range(khms_states'[z].seeds) =
                IF z = s THEN Range(khms_states[z].seeds) \cup {q} ELSE Range(khms_states[z].seeds)
  BY <1>a DEF Known, OnlySeed
<1>7. MapWell(was_fuzzed_map', state_ids, n) /\ OnlyMark(was_fuzzed_map', was_fuzzed_map, state_ids, n, x, q, 0)
  BY <1>1, <1>3, MarkKeeps
<1>8. TabWell(Tables, Len(queue))'
  <2>1. IdsWell(state_ids', khms_states')
    BY <1>1, <1>2, <1>6 DEF IdsWell, Known
  <2> QED
    BY <1>2, <1>6, <1>7, <2>1 DEF TabWell, Tables
<1>9. EntriesWell'
  BY <1>1, <1>2, <1>4 DEF EntriesWell, Processing
<1>10. MachineInv'
  <2>1. Nodes' = Known' /\ IsFiniteSet(Known')
    BY <1>1, <1>2, <1>6 DEF MachineInv, Nodes
  <2>2. \A t : t \in ipsm' <=> \E k \in DOMAIN queue' : t \in Drawn(k)'
    BY <1>1, <1>2, <1>5 DEF MachineInv
  <2>3. (\A k \in Learnt : Range(queue[k].codes) \subseteq Known)'
    BY <1>1, <1>2, <1>5, <1>6 DEF MachineInv
  <2>4. 0 \in Known'
    BY <1>3, <1>6, IdsAre
  <2> QED
    BY <1>5, <2>1, <2>2, <2>3, <2>4 DEF MachineInv
<1>11. RoundInv'
  <2>1. q > Seeds => target_state_id \in Known
    BY <1>1 DEF RoundInv
  <2>2. M2 # NoM2 => /\ q > Seeds /\ FollowsTarget
                     /\ selected_seed \in Range(khms_states[target_state_id].seeds)
    BY <1>1, <1>4 DEF RoundInv
  <2>3. M2 # NoM2 => selected_seed \in Range(khms_states'[target_state_id].seeds)
    BY <1>6, <2>1, <2>2
  <2>4. M2 # NoM2 => FollowsTarget'
    BY <1>2, <2>2 DEF FollowsTarget, Reached
  <2> QED
    BY <1>2, <1>6, <2>1, <2>2, <2>3, <2>4 DEF RoundInv, NoM2, Processing
<1>12. MarksInv'
  <2> SUFFICES ASSUME NEW k \in DOMAIN queue, NEW y \in DOMAIN state_ids
      PROVE  (/\ SeedOf(k, state_ids[y]) <=> was_fuzzed_map[y][k] # Unreachable
              /\ was_fuzzed_map[y][k] = 1 => queue[k].was_fuzzed
              /\ k \in Learnt => (SeedOf(k, state_ids[y]) <=> Reaching(k, state_ids[y]))
              /\ k = q /\ pc = "reach" => (SeedOf(k, state_ids[y]) <=> ReachedSoFar(state_ids[y]))
              /\ k \notin Learnt /\ ~(k = q /\ pc = "reach") => ~SeedOf(k, state_ids[y]))'
    BY <1>2 DEF MarksInv
  <2>1. state_ids[y] \in Known /\ (state_ids[y] = s <=> y = x)
    BY <1>1, IdsAre DEF IdsWell, IsInjective
  <2>2. SeedOf(k, state_ids[y])' <=> SeedOf(k, state_ids[y]) \/ (y = x /\ k = q)
    <3>1. SeedOf(k, state_ids[y])' <=> k \in Range(khms_states'[state_ids[y]].seeds)
      BY <1>2 DEF SeedOf
    <3>2. CASE y = x
      <4>1. Range(khms_states'[s].seeds) = Range(khms_states[s].seeds) \cup {q}
        BY <1>3, <1>6
      <4> QED
        BY <3>1, <3>2, <4>1 DEF SeedOf
    <3>3. CASE y # x
      <4>1. Range(khms_states'[state_ids[y]].seeds) = Range(khms_states[state_ids[y]].seeds)
        BY <1>6, <2>1, <3>3
      <4> QED
        BY <3>1, <3>3, <4>1 DEF SeedOf
    <3> QED
      BY <3>2, <3>3
  <2>3. was_fuzzed_map'[y][k] = IF y = x /\ k = q THEN 0 ELSE was_fuzzed_map[y][k]
    BY <1>3, <1>7 DEF OnlyMark
  <2>4. Reaching(k, state_ids[y])' <=> Reaching(k, state_ids[y])
    BY <1>2 DEF Reaching, Reached
  <2>5. /\ SeedOf(k, state_ids[y]) <=> was_fuzzed_map[y][k] # Unreachable
        /\ was_fuzzed_map[y][k] = 1 => queue[k].was_fuzzed
        /\ k \in Learnt => (SeedOf(k, state_ids[y]) <=> Reaching(k, state_ids[y]))
        /\ k \notin Learnt /\ k # q => ~SeedOf(k, state_ids[y])
    BY <1>1 DEF MarksInv
  <2>6. k = q => (SeedOf(k, state_ids[y])' <=> ReachedSoFar(state_ids[y])')
    BY <2>2
  <2>7. SeedOf(k, state_ids[y])' <=> was_fuzzed_map'[y][k] # Unreachable
    BY <2>2, <2>3, <2>5 DEF Unreachable
  <2>8. was_fuzzed_map'[y][k] = 1 => queue'[k].was_fuzzed
    BY <1>2, <2>3, <2>5
  <2>9. k \in Learnt' => (SeedOf(k, state_ids[y])' <=> Reaching(k, state_ids[y])')
    BY <1>5, <2>2, <2>4, <2>5
  <2>10. k \notin Learnt' /\ k # q' => ~SeedOf(k, state_ids[y])'
    BY <1>2, <1>5, <2>2, <2>5
  <2> QED
    BY <1>2, <2>6, <2>7, <2>8, <2>9, <2>10
<1>13. CountsInv'
  <2>1. \A z : Passed(z)' = Passed(z)
    BY <1>2, <1>5 DEF Passed
  <2>2. FoundEntries' = FoundEntries
    BY <1>5 DEF FoundEntries
  <2>3. FoundTotal(khms_states)' = FoundTotal(khms_states)
    <3>1. DOMAIN khms_states = DOMAIN khms_states' /\ IsFiniteSet(DOMAIN khms_states)
      BY <1>1, <1>6 DEF MachineInv, Known
    <3>2. \A z \in DOMAIN khms_states :
             khms_states[z].paths_discovered = khms_states'[z].paths_discovered
      BY <1>6 DEF Known
    <3>3. FoundTotal(khms_states) = FoundTotal(khms_states')
      BY <3>1, <3>2, TotalSame
    <3> QED
      BY <3>3
  <2> QED
    BY <1>1, <1>6, <2>1, <2>2, <2>3 DEF CountsInv
<1>14. TypeRest'
  BY <1>1, <1>2 DEF TypeRest, options
<1> QED
  BY <1>8, <1>9, <1>10, <1>11, <1>12, <1>13, <1>14 DEF IInv

LEMMA AnnotateKeeps ==
  ASSUME IInv, Annotate
  PROVE  IInv'
<1>1. /\ pc = "annotate" /\ TypeRest /\ EntriesWell /\ MachineInv /\ RoundInv /\ MarksInv /\ CountsInv
      /\ UNCHANGED <<queue, learned, state_ids, choice, q, options>>
  BY DEF Annotate, IInv
<1>2. CASE 0 \in Known
  <2>1. /\ khms_states' = [khms_states EXCEPT ![0] = WithSeed(@, q)]
        /\ was_fuzzed_map' = [was_fuzzed_map EXCEPT ![1][q] = 0]
        /\ i' = 1 /\ pc' = "reach"
    BY <1>2 DEF Annotate
  <2>2. 1 \in DOMAIN state_ids /\ state_ids[1] = 0
    BY <1>2, IdsAre, EmptySeq
  <2>3. khms_states' = Seeded(khms_states, state_ids[1], q)
    BY <2>1, <2>2 DEF Seeded
  <2>4. was_fuzzed_map' = Marked(was_fuzzed_map, 1, q, 0)
    BY <2>1 DEF Marked
  <2>5. q \in DOMAIN queue /\ q \notin Learnt
    BY <1>1, EntriesAre DEF Learnt
  <2>6. \A y \in DOMAIN state_ids : ~SeedOf(q, state_ids[y])
    BY <1>1, <2>5 DEF MarksInv
  <2>7. \A y \in DOMAIN state_ids : state_ids[y] = 0 <=> y = 1
    BY <2>2, TablesWell DEF IdsWell, IsInjective
  <2>8. Len(queue[q].counts) \in Nat /\ DOMAIN queue[q].counts = 1..Len(queue[q].counts)
    BY <2>5, EntriesAre
  <2>9. \A y \in DOMAIN state_ids : ReachedSoFar(state_ids[y])' <=> state_ids[y] = 0
    BY <1>1, <2>1, <2>8 DEF ReachedSoFar
  <2>10. \A y \in DOMAIN state_ids : ReachedSoFar(state_ids[y])' <=> y = 1 \/ SeedOf(q, state_ids[y])
    BY <2>6, <2>7, <2>9
  <2>11. i' \in 1..(Len(queue[q].counts) + 1)
    BY <2>1, <2>8
  <2>12. Annotating
    BY <1>1 DEF Annotating
  <2> QED
    BY <1>1, <2>1, <2>2, <2>3, <2>4, <2>10, <2>11, <2>12, SeedStep
<1>3. CASE 0 \notin Known
  <2>1. /\ pc' = "aborted" /\ queue' = queue /\ q' = q /\ i' = i /\ M2' = M2
        /\ ipsm' = ipsm /\ khs_ipsm_paths' = khs_ipsm_paths
        /\ khms_states' = khms_states /\ state_ids' = state_ids /\ was_fuzzed_map' = was_fuzzed_map
        /\ selected_seed' = selected_seed /\ target_state_id' = target_state_id
        /\ selected_state_index' = selected_state_index /\ state_cycles' = state_cycles
        /\ state_selection_algo' = state_selection_algo /\ seed_selection_algo' = seed_selection_algo
    BY <1>1, <1>3 DEF Annotate, learned, choice, options
  <2>2. Known = {} /\ state_ids = <<>> /\ Known' = Known
    <3>1. Known = {}
      BY <1>3, IdsAre
    <3>2. DOMAIN state_ids = {} /\ Len(state_ids) \in Nat /\ DOMAIN state_ids = 1..Len(state_ids)
      BY <3>1, IdsAre
    <3>3. Len(state_ids) = 0
      BY <3>2
    <3>4. state_ids = <<>>
      BY <3>3, IdsAre, EmptySeq
    <3> QED
      BY <2>1, <3>1, <3>4 DEF Known
  <2>3. M2 = NoM2 /\ ~(q > Seeds)
    BY <1>1, <2>2 DEF RoundInv
  <2>4. Learnt' = Learnt
    BY <1>1, <2>1 DEF Learnt
  <2>5. \A k \in DOMAIN queue : Drawn(k)' = Drawn(k)
    BY <1>1, <2>1 DEF Drawn, DrawnTo
  <2>6. EntriesWell'
    BY <1>1, <2>1 DEF EntriesWell, Processing
  <2>7. MachineInv'
    <3>1. PathsDrawn'
      <4>1. \A p \in khs_ipsm_paths : \A t \in TransitionsOf(p) : t \in ipsm
        BY <1>1 DEF MachineInv, PathsDrawn
      <4> QED
        BY <2>1, <4>1 DEF PathsDrawn
    <3>2. (\A k \in Learnt : Range(queue[k].codes) \subseteq Known)'
      BY <1>1, <2>1, <2>2, <2>4 DEF MachineInv
    <3>3. \A t : t \in ipsm' <=> \E k \in DOMAIN queue' : t \in Drawn(k)'
      BY <1>1, <2>1, <2>5 DEF MachineInv
    <3>4. Nodes' = Known' /\ IsFiniteSet(Known')
      BY <1>1, <2>1, <2>2 DEF MachineInv, Nodes
    <3> QED
      BY <2>1, <2>2, <3>1, <3>2, <3>3, <3>4 DEF MachineInv
  <2>8. RoundInv'
    BY <2>1, <2>3 DEF RoundInv, NoM2
  <2>9. MarksInv'
    BY <2>1, <2>2 DEF MarksInv
  <2>10. CountsInv'
    <3>1. FoundEntries' = FoundEntries
      BY <2>4 DEF FoundEntries
    <3>2. FoundTotal(khms_states') = FoundTotal(khms_states)
      BY <2>1
    <3> QED
      BY <1>1, <2>2, <3>1, <3>2 DEF CountsInv
  <2>11. TabWell(Tables, Len(queue))'
    BY <2>1 DEF IInv, Tables
  <2>12. TypeRest'
    BY <1>1, <2>1 DEF TypeRest, options
  <2> QED
    BY <2>6, <2>7, <2>8, <2>9, <2>10, <2>11, <2>12 DEF IInv
<1> QED
  BY <1>2, <1>3

(* An entry that was learned from goes through known states only.          *)
LEMMA CodesKnown ==
  ASSUME IInv, pc # "learn", NEW k \in DOMAIN queue, 0 \in Known
  PROVE  Range(queue[k].codes) \subseteq Known
<1> DEFINE c == queue[k].codes
<1>1. WellFormed(queue[k]) /\ c \in Seq(States) /\ Len(c) \in Nat
  BY EntriesAre DEF IInv, EntriesWell
<1>2. SUFFICES ASSUME NEW l \in 1..Len(c) PROVE c[l] \in Known
  BY <1>1 DEF Range
<1>3. c # <<>>
  BY <1>1
<1>4. c[1] = 0
  BY <1>1, <1>3 DEF WellFormed
<1>5. CASE l = 1
  BY <1>4, <1>5
<1>6. CASE l # 1
  <2>1. l \in 2..Len(c)
    BY <1>6
  <2>2. <<c[l - 1], c[l]>> \in Drawn(k)
    BY <2>1 DEF Drawn, DrawnTo
  <2>3. <<c[l - 1], c[l]>> \in ipsm
    BY <2>2 DEF IInv, MachineInv
  <2> HIDE DEF c
  <2>4. c[l] \in Nodes
    BY <2>3 DEF Nodes
  <2> QED
    BY <2>4 DEF IInv, MachineInv
<1> QED
  BY <1>5, <1>6

LEMMA ReachKeeps ==
  ASSUME IInv, Reach
  PROVE  IInv'
<1> DEFINE e == queue[q]
           s == Reached(e, i)
<1>1. /\ pc = "reach" /\ pc' = "reach" /\ i <= Len(e.counts) /\ i' = i + 1
      /\ UNCHANGED <<queue, learned, choice, q, options>>
      /\ TypeRest /\ EntriesWell /\ MachineInv /\ RoundInv /\ MarksInv /\ CountsInv
  BY DEF Reach, IInv
<1>2. /\ i \in 1..Len(e.counts) /\ i' \in 1..(Len(e.counts) + 1) /\ i \in Nat
      /\ Len(e.counts) \in Nat /\ DOMAIN e.counts = 1..Len(e.counts)
      /\ q \in DOMAIN queue /\ \A l \in DOMAIN e.counts : e.counts[l] \in Nat /\ l \in Nat
      /\ 0 \in Known /\ WellFormed(e)
  <2>1. q \in DOMAIN queue /\ i \in Nat /\ e.counts \in Seq(Nat) /\ Len(e.counts) \in Nat
    BY EntriesAre
  <2>2. i \in 1..(Len(e.counts) + 1) /\ WellFormed(e)
    BY <1>1, <2>1 DEF EntriesWell
  <2>3. 0 \in Known
    BY <1>1 DEF MachineInv
  <2> HIDE DEF e
  <2>4. i \in 1..Len(e.counts) /\ i' \in 1..(Len(e.counts) + 1)
    BY <1>1, <2>1, <2>2
  <2>5. DOMAIN e.counts = 1..Len(e.counts) /\ \A l \in DOMAIN e.counts : e.counts[l] \in Nat /\ l \in Nat
    BY <2>1
  <2> QED
    BY <2>1, <2>2, <2>3, <2>4, <2>5
<1>3. q \notin Learnt /\ Annotating /\ Annotating'
  BY <1>1 DEF Learnt, Annotating
<1>4. \A y : (ReachedSoFar(y)' <=> ReachedSoFar(y) \/ (e.counts[i] > 0 /\ s = y))
  <2> SUFFICES ASSUME NEW y
               PROVE  ReachedSoFar(y)' <=> ReachedSoFar(y) \/ (e.counts[i] > 0 /\ s = y)
    OBVIOUS
  <2> DEFINE P(l) == e.counts[l] > 0 /\ Reached(e, l) = y
  <2>1. ReachedSoFar(y)' <=> y = 0 \/ \E l \in DOMAIN e.counts : l < i + 1 /\ P(l)
    BY <1>1 DEF ReachedSoFar, Reached
  <2>2. ReachedSoFar(y) <=> y = 0 \/ \E l \in DOMAIN e.counts : l < i /\ P(l)
    BY DEF ReachedSoFar
  <2>3. P(i) <=> e.counts[i] > 0 /\ s = y
    OBVIOUS
  <2>4. i \in DOMAIN e.counts /\ \A l \in DOMAIN e.counts : l < i + 1 <=> l < i \/ l = i
    BY <1>2
  <2> HIDE DEF P, s
  <2> QED
    BY <2>1, <2>2, <2>3, <2>4
<1>5. CASE e.counts[i] = 0
  <2>1. /\ queue' = queue /\ q' = q /\ M2' = M2
        /\ ipsm' = ipsm /\ khs_ipsm_paths' = khs_ipsm_paths
        /\ khms_states' = khms_states /\ state_ids' = state_ids /\ was_fuzzed_map' = was_fuzzed_map
        /\ selected_seed' = selected_seed /\ target_state_id' = target_state_id
        /\ selected_state_index' = selected_state_index /\ state_cycles' = state_cycles
        /\ state_selection_algo' = state_selection_algo /\ seed_selection_algo' = seed_selection_algo
    BY <1>1, <1>5 DEF Reach, learned, choice, options, tables
  <2>2. /\ Learnt' = Learnt /\ (\A k \in DOMAIN queue : Drawn(k)' = Drawn(k)) /\ PathsDrawn'
    BY <1>1, <1>3, AnnotatingLearnt
  <2>3. \A y : ReachedSoFar(y)' <=> ReachedSoFar(y)
    BY <1>4, <1>5
  <2>4. EntriesWell'
    BY <1>1, <1>2, <2>1 DEF EntriesWell, Processing
  <2>5. Known' = Known
    BY <2>1 DEF Known
  <2>6. MachineInv'
    <3>1. (\A k \in Learnt : Range(queue[k].codes) \subseteq Known)'
      BY <1>1, <2>1, <2>2, <2>5 DEF MachineInv
    <3>2. \A t : t \in ipsm' <=> \E k \in DOMAIN queue' : t \in Drawn(k)'
      BY <1>1, <2>1, <2>2 DEF MachineInv
    <3>3. Nodes' = Known' /\ IsFiniteSet(Known')
      BY <1>1, <2>1, <2>5 DEF MachineInv, Nodes
    <3> QED
      BY <1>1, <1>2, <2>2, <2>5, <3>1, <3>2, <3>3 DEF MachineInv
  <2>7. RoundInv'
    BY <1>1, <2>1, <2>5 DEF RoundInv, NoM2, Processing, FollowsTarget, Reached
  <2>8. MarksInv'
    <3> SUFFICES ASSUME NEW k \in DOMAIN queue, NEW y \in DOMAIN state_ids
        PROVE  (/\ SeedOf(k, state_ids[y]) <=> was_fuzzed_map[y][k] # Unreachable
                /\ was_fuzzed_map[y][k] = 1 => queue[k].was_fuzzed
                /\ k \in Learnt => (SeedOf(k, state_ids[y]) <=> Reaching(k, state_ids[y]))
                /\ k = q /\ pc = "reach" => (SeedOf(k, state_ids[y]) <=> ReachedSoFar(state_ids[y]))
                /\ k \notin Learnt /\ ~(k = q /\ pc = "reach") => ~SeedOf(k, state_ids[y]))'
      BY <2>1 DEF MarksInv
    <3>1. SeedOf(k, state_ids[y])' <=> SeedOf(k, state_ids[y])
      BY <2>1 DEF SeedOf
    <3>2. Reaching(k, state_ids[y])' <=> Reaching(k, state_ids[y])
      BY <2>1 DEF Reaching, Reached
    <3>3. ReachedSoFar(state_ids[y])' <=> ReachedSoFar(state_ids[y])
      <4>1. state_ids'[y] = state_ids[y]
        BY <2>1
      <4> QED
        BY <2>3, <4>1
    <3>4. /\ SeedOf(k, state_ids[y]) <=> was_fuzzed_map[y][k] # Unreachable
          /\ was_fuzzed_map[y][k] = 1 => queue[k].was_fuzzed
          /\ k \in Learnt => (SeedOf(k, state_ids[y]) <=> Reaching(k, state_ids[y]))
          /\ k = q => (SeedOf(k, state_ids[y]) <=> ReachedSoFar(state_ids[y]))
          /\ k \notin Learnt /\ k # q => ~SeedOf(k, state_ids[y])
      BY <1>1 DEF MarksInv
    <3> QED
      BY <1>1, <2>1, <2>2, <3>1, <3>2, <3>3, <3>4
  <2>9. CountsInv'
    <3>1. FoundEntries' = FoundEntries
      BY <2>2 DEF FoundEntries
    <3>2. FoundTotal(khms_states') = FoundTotal(khms_states)
      BY <2>1
    <3>3. \A z : Passed(z)' = Passed(z)
      BY <2>1, <2>2 DEF Passed
    <3> QED
      BY <1>1, <2>1, <2>5, <3>1, <3>2, <3>3 DEF CountsInv
  <2>10. TabWell(Tables, Len(queue))'
    BY <2>1 DEF IInv, Tables
  <2>11. TypeRest'
    BY <1>1, <1>2, <2>1 DEF TypeRest, options
  <2> QED
    BY <2>4, <2>6, <2>7, <2>8, <2>9, <2>10, <2>11 DEF IInv
<1>6. CASE e.counts[i] # 0
  <2>1. e.counts[i] > 0
    BY <1>2, <1>6
  <2>2. s \in Range(e.codes)
    BY <1>2, <2>1, ReachedInside
  <2>3. s \in Known
    BY <1>1, <1>2, <2>2, CodesKnown
  <2>4. PICK x \in DOMAIN state_ids : state_ids[x] = s
    BY <2>3, IdsAre
  <2>5. StateIndex(state_ids, s) = x
    BY <2>4, TablesWell, StateIndexIs DEF IdsWell
  <2>6. /\ khms_states' = Seeded(khms_states, state_ids[x], q)
        /\ was_fuzzed_map' = Marked(was_fuzzed_map, x, q, 0) /\ state_ids' = state_ids
    <3> HIDE DEF s
    <3> DEFINE t == [Tables EXCEPT !.states[s] = WithSeed(@, q)]
    <3>1. SetTables([t EXCEPT !.map[StateIndex(t.ids, s)][q] = 0])
      BY <1>6, <2>3 DEF Reach, s
    <3>2. t = [states |-> Seeded(khms_states, s, q), ids |-> state_ids, map |-> was_fuzzed_map]
      BY DEF Tables, Seeded
    <3> HIDE DEF t
    <3>3. StateIndex(t.ids, s) = x
      BY <2>5, <3>2
    <3>4. [t EXCEPT !.map[StateIndex(t.ids, s)][q] = 0]
            = [states |-> Seeded(khms_states, s, q), ids |-> state_ids,
               map |-> Marked(was_fuzzed_map, x, q, 0)]
      BY <3>2, <3>3 DEF Marked
    <3> QED
      BY <2>4, <3>1, <3>4 DEF SetTables
  <2>7. \A y \in DOMAIN state_ids :
          ReachedSoFar(state_ids[y])' <=> y = x \/ SeedOf(q, state_ids[y])
    <3> TAKE y \in DOMAIN state_ids
    <3>1. state_ids[y] = s <=> y = x
      BY <2>4, TablesWell DEF IdsWell, IsInjective
    <3>2. SeedOf(q, state_ids[y]) <=> ReachedSoFar(state_ids[y])
      BY <1>1, <1>2 DEF MarksInv
    <3>3. state_ids'[y] = state_ids[y]
      BY <2>6
    <3>4. ReachedSoFar(state_ids[y])' <=> ReachedSoFar(state_ids[y]) \/ s = state_ids[y]
      BY <1>4, <2>1, <3>3
    <3> QED
      BY <3>1, <3>2, <3>4
  <2> QED
    BY <1>1, <1>2, <1>3, <2>6, <2>7, SeedStep
<1> QED
  BY <1>5, <1>6

LEMMA CreditKeeps ==
  ASSUME IInv, Credit
  PROVE  IInv'
<1> DEFINE e == queue[q]
           n == Len(queue)
<1>1. /\ pc = "reach" /\ i > Len(e.counts)
      /\ khms_states' = [s \in Known |-> Credited(s, khms_states[s], e.codes)]
      /\ i' = 0 /\ q' = (IF q < Seeds THEN q + 1 ELSE q)
      /\ pc' = (CASE q < Seeds -> "dry_run"
                  [] q = Seeds -> "choose"
                  [] OTHER -> IF M2 = NoM2 THEN "sync" ELSE "mutate")
      /\ queue' = queue /\ ipsm' = ipsm /\ khs_ipsm_paths' = khs_ipsm_paths
      /\ state_ids' = state_ids /\ was_fuzzed_map' = was_fuzzed_map /\ M2' = M2
      /\ selected_seed' = selected_seed /\ target_state_id' = target_state_id
      /\ selected_state_index' = selected_state_index /\ state_cycles' = state_cycles
      /\ state_selection_algo' = state_selection_algo /\ seed_selection_algo' = seed_selection_algo
  BY DEF Credit, Return, learned, choice, options
<1>2. TypeRest /\ EntriesWell /\ MachineInv /\ RoundInv /\ MarksInv /\ CountsInv
  BY DEF IInv
<1>3. /\ n \in Nat /\ DOMAIN queue = 1..n /\ q \in 1..n /\ Seeds \in Nat \ {0} /\ Seeds <= n
      /\ q \in Nat /\ i \in Nat /\ Len(e.counts) \in Nat
  BY EntriesAre, BoundsAssumption
<1>4. /\ pc' \in {"dry_run", "choose", "sync", "mutate"}
      /\ pc' = "dry_run" <=> q < Seeds
      /\ pc' \in {"sync", "mutate"} => q > Seeds
      /\ q > Seeds => pc' = IF M2 = NoM2 THEN "sync" ELSE "mutate"
  BY <1>1, <1>3
<1>5. /\ q' \in 1..n /\ (q < Seeds => q' = q + 1 /\ q' <= Seeds) /\ (q >= Seeds => q' = q)
      /\ (q' > Seeds <=> q > Seeds) /\ q' \in Nat
  BY <1>1, <1>3
<1>6. e.codes # <<>> /\ q \notin Learnt
  BY <1>1, <1>2 DEF EntriesWell, Processing, Learnt
<1>7. Learnt' = Learnt \cup {q}
  <2>1. \A k \in DOMAIN queue : k \in Learnt' <=> queue[k].codes # <<>>
    BY <1>1, <1>4 DEF Learnt
  <2>2. \A k \in DOMAIN queue : k \in Learnt \cup {q} <=> queue[k].codes # <<>>
    BY <1>1, <1>6 DEF Learnt
  <2>3. Learnt' \subseteq DOMAIN queue /\ Learnt \cup {q} \subseteq DOMAIN queue
    BY <1>1, <1>3 DEF Learnt
  <2> QED
    BY <2>1, <2>2, <2>3
<1>8. DOMAIN khms_states' = Known /\ Known' = Known
  BY <1>1 DEF Known
<1>9. \A s \in Known :
        /\ khms_states'[s] \in StateRec(1..n) /\ TurnInside(khms_states'[s])
        /\ khms_states'[s].seeds = khms_states[s].seeds
        /\ khms_states'[s].paths = IF s \in Range(e.codes) THEN khms_states[s].paths + 1
                                   ELSE khms_states[s].paths
        /\ khms_states'[s].paths_discovered =
             IF q > Seeds /\ s = target_state_id
             THEN khms_states[s].paths_discovered + 1 ELSE khms_states[s].paths_discovered
  <2> SUFFICES ASSUME NEW s \in Known
      PROVE /\ khms_states'[s] \in StateRec(1..n) /\ TurnInside(khms_states'[s])
            /\ khms_states'[s].seeds = khms_states[s].seeds
            /\ khms_states'[s].paths = IF s \in Range(e.codes) THEN khms_states[s].paths + 1
                                       ELSE khms_states[s].paths
            /\ khms_states'[s].paths_discovered =
                 IF q > Seeds /\ s = target_state_id
                 THEN khms_states[s].paths_discovered + 1 ELSE khms_states[s].paths_discovered
    OBVIOUS
  <2> DEFINE old == khms_states[s]
             new == khms_states'[s]
             on == s \in Range(e.codes)
             hit == q > Seeds /\ s = target_state_id
  <2>1. new = Credited(s, old, e.codes)
    BY <1>1
  <2>2. old \in StateRec(1..n) /\ TurnInside(old)
    BY TablesWell DEF StatesWell, Known
  <2>3. DryRunning <=> ~(q > Seeds)
    BY <1>3 DEF DryRunning
  <2> HIDE DEF old, new
  <2>4. new = [old EXCEPT !.paths = IF on THEN @ + 1 ELSE @,
                          !.paths_discovered = IF hit THEN @ + 1 ELSE @]
    BY <2>1, <2>3 DEF Credited
  <2> HIDE DEF on, hit
  <2>5. /\ new \in StateRec(1..n) /\ new.seeds = old.seeds
        /\ new.selected_seed_index = old.selected_seed_index
        /\ new.paths = (IF on THEN old.paths + 1 ELSE old.paths)
        /\ new.paths_discovered = IF hit THEN old.paths_discovered + 1 ELSE old.paths_discovered
    <3> DEFINE p == IF on THEN old.paths + 1 ELSE old.paths
               d == IF hit THEN old.paths_discovered + 1 ELSE old.paths_discovered
    <3>1. new = [old EXCEPT !.paths = p, !.paths_discovered = d]
      BY <2>4
    <3>2. old.paths \in Nat /\ old.paths_discovered \in Nat
      BY <2>2 DEF StateRec
    <3>3. p \in Nat /\ d \in Nat
      BY <3>2
    <3> HIDE DEF p, d
    <3>4. /\ new \in StateRec(1..n) /\ new.seeds = old.seeds
          /\ new.selected_seed_index = old.selected_seed_index
          /\ new.paths = p /\ new.paths_discovered = d
      BY <2>2, <3>1, <3>3 DEF StateRec
    <3> QED
      BY <3>4 DEF p, d
  <2>6. TurnInside(new)
    BY <2>2, <2>5 DEF TurnInside
  <2> QED
    BY <2>5, <2>6 DEF old, new, on, hit
<1>10. TabWell(Tables, Len(queue))'
  <2>1. StatesWell(khms_states', n)
    BY <1>8, <1>9, TablesWell DEF StatesWell, Known
  <2>2. IdsWell(state_ids', khms_states')
    BY <1>1, <1>8, TablesWell DEF IdsWell, Known
  <2> QED
    BY <1>1, <2>1, <2>2, TablesWell DEF TabWell, Tables
<1>11. EntriesWell'
  <2>1. q < Seeds => queue[q + 1].codes = <<>>
    BY <1>2, <1>3 DEF EntriesWell
  <2>2. \A k \in DOMAIN queue : k > q' => k > q
    BY <1>3, <1>5
  <2>3. pc' = "dry_run" => q' <= Seeds /\ queue[q'].codes = <<>>
    BY <1>4, <1>5, <2>1
  <2>4. ~Processing' /\ pc' # "learn" /\ pc' # "reach"
    BY <1>4 DEF Processing
  <2> QED
    BY <1>1, <1>2, <2>2, <2>3, <2>4 DEF EntriesWell
<1>12. MachineInv'
  <2>1. \A k \in DOMAIN queue : Drawn(k)' = Drawn(k)
    BY <1>1, <1>4 DEF Drawn, DrawnTo
  <2>2. Nodes' = Known' /\ IsFiniteSet(Known')
    BY <1>1, <1>2, <1>8 DEF MachineInv, Nodes
  <2>3. \A t : t \in ipsm' <=> \E k \in DOMAIN queue' : t \in Drawn(k)'
    BY <1>1, <1>2, <2>1 DEF MachineInv
  <2>4. PathsDrawn'
    <3>1. \A p \in khs_ipsm_paths : \A t \in TransitionsOf(p) : t \in ipsm
      BY <1>1, <1>2 DEF MachineInv, PathsDrawn
    <3> QED
      BY <1>1, <3>1 DEF PathsDrawn
  <2>5. Range(e.codes) \subseteq Known
    BY <1>1, <1>2, <1>3, CodesKnown DEF MachineInv
  <2>6. (\A k \in Learnt : Range(queue[k].codes) \subseteq Known)'
    BY <1>1, <1>2, <1>7, <1>8, <2>5 DEF MachineInv
  <2> QED
    BY <1>4, <2>2, <2>3, <2>4, <2>6 DEF MachineInv
<1>13. RoundInv'
  <2>1. /\ q > Seeds => target_state_id \in Known
        /\ M2 # NoM2 => /\ q > Seeds /\ FollowsTarget
                        /\ selected_seed \in Range(khms_states[target_state_id].seeds)
    BY <1>1, <1>2 DEF RoundInv
  <2>2. M2 # NoM2 => selected_seed \in Range(khms_states'[target_state_id].seeds)
    BY <1>9, <2>1
  <2>3. M2 # NoM2 => FollowsTarget'
    BY <1>1, <2>1 DEF FollowsTarget, Reached
  <2>4. /\ pc' \in {"seed", "fuzz", "mutate", "sync"} \/ q' > Seeds => target_state_id' \in Known'
    BY <1>1, <1>4, <1>5, <1>8, <2>1
  <2>5. pc' = "mutate" <=> M2 # NoM2
    BY <1>4, <2>1
  <2> QED
    BY <1>1, <1>4, <2>2, <2>3, <2>4, <2>5 DEF RoundInv, NoM2
<1>14. MarksInv'
  <2> SUFFICES ASSUME NEW k \in DOMAIN queue, NEW y \in DOMAIN state_ids
      PROVE  (/\ SeedOf(k, state_ids[y]) <=> was_fuzzed_map[y][k] # Unreachable
              /\ was_fuzzed_map[y][k] = 1 => queue[k].was_fuzzed
              /\ k \in Learnt => (SeedOf(k, state_ids[y]) <=> Reaching(k, state_ids[y]))
              /\ k = q /\ pc = "reach" => (SeedOf(k, state_ids[y]) <=> ReachedSoFar(state_ids[y]))
              /\ k \notin Learnt /\ ~(k = q /\ pc = "reach") => ~SeedOf(k, state_ids[y]))'
    BY <1>1 DEF MarksInv
  <2>1. state_ids[y] \in Known
    BY IdsAre
  <2>2. SeedOf(k, state_ids[y])' <=> SeedOf(k, state_ids[y])
    BY <1>1, <1>9, <2>1 DEF SeedOf
  <2>3. Reaching(k, state_ids[y])' <=> Reaching(k, state_ids[y])
    BY <1>1 DEF Reaching, Reached
  <2>4. /\ SeedOf(k, state_ids[y]) <=> was_fuzzed_map[y][k] # Unreachable
        /\ was_fuzzed_map[y][k] = 1 => queue[k].was_fuzzed
        /\ k \in Learnt => (SeedOf(k, state_ids[y]) <=> Reaching(k, state_ids[y]))
        /\ k = q => (SeedOf(k, state_ids[y]) <=> ReachedSoFar(state_ids[y]))
        /\ k \notin Learnt /\ k # q => ~SeedOf(k, state_ids[y])
    BY <1>1, <1>2 DEF MarksInv
  <2>5. ReachedSoFar(state_ids[y]) <=> Reaching(q, state_ids[y])
    <3>1. DOMAIN e.counts = 1..Len(e.counts)
      BY <1>3, EntriesAre
    <3>2. \A l \in DOMAIN e.counts : l < i
      BY <1>1, <1>3, <3>1
    <3> QED
      BY <3>2 DEF ReachedSoFar, Reaching
  <2> QED
    BY <1>1, <1>4, <1>7, <2>2, <2>3, <2>4, <2>5
<1>15. CountsInv'
  <2>1. IsFiniteSet(Learnt) /\ Learnt \subseteq DOMAIN queue /\ Learnt' \subseteq DOMAIN queue
    <3>1. IsFiniteSet(1..n)
      BY <1>3, FS_Interval
    <3>2. Learnt \subseteq 1..n
      BY <1>3 DEF Learnt
    <3> QED
      BY <1>3, <1>7, <3>1, <3>2, FS_Subset
  <2>2. ASSUME NEW s \in Known PROVE khms_states'[s].paths = Cardinality(Passed(s)')
    <3> DEFINE P == Passed(s)
    <3>1. IsFiniteSet(P) /\ q \notin P /\ khms_states[s].paths = Cardinality(P)
      BY <1>2, <1>6, <2>1, FS_Subset DEF Passed, CountsInv
    <3>2. CASE s \in Range(e.codes)
      <4>1. Passed(s)' = P \cup {q}
        BY <1>1, <1>7, <2>1, <3>2 DEF Passed
      <4> HIDE DEF P
      <4>2. Cardinality(P \cup {q}) = Cardinality(P) + 1
        BY <3>1, FS_AddElement
      <4> QED
        BY <1>9, <3>1, <3>2, <4>1, <4>2
    <3>3. CASE s \notin Range(e.codes)
      <4>1. Passed(s)' = P
        BY <1>1, <1>7, <2>1, <3>3 DEF Passed
      <4> QED
        BY <1>9, <3>1, <3>3, <4>1
    <3> QED
      BY <3>2, <3>3
  <2>3. FoundTotal(khms_states') = Cardinality(FoundEntries')
    <3> DEFINE F == FoundEntries
               f == FoundAt(khms_states)
               h == FoundAt(khms_states')
    <3>1. IsFiniteSet(F) /\ q \notin F /\ FoundTotal(khms_states) = Cardinality(F)
      BY <1>2, <1>6, <2>1, FS_Subset DEF FoundEntries, CountsInv
    <3>2. IsFiniteSet(Known) /\ DOMAIN khms_states = Known
      BY <1>2 DEF MachineInv, Known
    <3>3. FoundTotal(khms_states) = SumOf(f, Known) /\ FoundTotal(khms_states') = SumOf(h, Known)
      BY <1>8, <3>2, FoundTotalIsSum
    <3>4. \A s \in Known : f[s] = khms_states[s].paths_discovered /\ h[s] = khms_states'[s].paths_discovered
                           /\ f[s] \in Nat
      BY <1>8, <3>2, IdsAre DEF FoundAt
    <3>5. CASE q > Seeds
      <4>1. FoundEntries' = F \cup {q}
        BY <1>1, <1>3, <1>7, <3>5 DEF FoundEntries
      <4> HIDE DEF F, f, h
      <4>2. Cardinality(F \cup {q}) = Cardinality(F) + 1
        BY <3>1, FS_AddElement
      <4>3. target_state_id \in Known
        BY <1>2, <3>5 DEF RoundInv
      <4>4. /\ h[target_state_id] = f[target_state_id] + 1
            /\ \A s \in Known \ {target_state_id} : f[s] = h[s]
            /\ \A s \in Known : f[s] \in Int /\ h[s] \in Int
        BY <1>9, <3>4, <3>5, <4>3
      <4>5. SumOf(h, Known) - SumOf(f, Known) = h[target_state_id] - f[target_state_id]
        BY <3>2, <4>3, <4>4, SumChange
      <4>6. SumOf(h, Known) \in Int /\ SumOf(f, Known) \in Int
        BY <3>2, <4>4, SumType
      <4>7. SumOf(h, Known) = SumOf(f, Known) + 1
        <5>1. h[target_state_id] - f[target_state_id] = 1
          BY <4>3, <4>4
        <5> QED
          BY <4>5, <4>6, <5>1
      <4> QED
        BY <3>1, <3>3, <4>1, <4>2, <4>7
    <3>6. CASE ~(q > Seeds)
      <4>1. FoundEntries' = F
        BY <1>1, <1>3, <1>7, <3>6 DEF FoundEntries
      <4>2. \A s \in DOMAIN khms_states : khms_states[s].paths_discovered = khms_states'[s].paths_discovered
        BY <1>9, <3>2, <3>6
      <4>3. FoundTotal(khms_states) = FoundTotal(khms_states')
        BY <1>8, <3>2, <4>2, TotalSame
      <4> QED
        BY <3>1, <4>1, <4>3
    <3> QED
      BY <3>5, <3>6
  <2> QED
    BY <1>8, <2>2, <2>3 DEF CountsInv
<1>16. TypeRest'
  BY <1>1, <1>2, <1>3, <1>4, <1>5 DEF TypeRest, options
<1> QED
  BY <1>10, <1>11, <1>12, <1>13, <1>14, <1>15, <1>16 DEF IInv

LEMMA LearnKeeps ==
  ASSUME IInv, Learn
  PROVE  IInv'
<1> DEFINE c == queue[q].codes
           n == Len(queue)
           from == c[i - 1]
           to == c[i]
           u == InsertEnds(Tables, from, to)
<1>1. /\ pc = "learn" /\ SetTables(u) /\ ipsm' = ipsm \cup {<<from, to>>}
      /\ IF i < Len(c) THEN i' = i + 1 /\ pc' = "learn" ELSE i' = 0 /\ pc' = "annotate"
      /\ queue' = queue /\ q' = q /\ khs_ipsm_paths' = khs_ipsm_paths /\ M2' = M2
      /\ selected_seed' = selected_seed /\ target_state_id' = target_state_id
      /\ selected_state_index' = selected_state_index /\ state_cycles' = state_cycles
      /\ state_selection_algo' = state_selection_algo /\ seed_selection_algo' = seed_selection_algo
  BY DEF Learn, choice, options
<1>2. /\ TypeRest /\ EntriesWell /\ MachineInv /\ RoundInv /\ MarksInv /\ CountsInv
      /\ TabWell(Tables, n)
  BY DEF IInv
<1>3. /\ n \in Nat /\ DOMAIN queue = 1..n /\ q \in DOMAIN queue /\ c \in Seq(States)
      /\ Len(c) \in Nat /\ DOMAIN c = 1..Len(c) /\ i \in 2..Len(c) /\ i \in Nat
      /\ from \in States /\ to \in States
  <2>1. /\ n \in Nat /\ DOMAIN queue = 1..n /\ q \in DOMAIN queue /\ c \in Seq(States)
        /\ Len(c) \in Nat /\ i \in 2..Len(c)
    BY <1>1, <1>2, EntriesAre DEF EntriesWell
  <2> QED
    BY <2>1
<1>4. c[1] = 0
  <2>1. c # <<>>
    BY <1>3
  <2> QED
    BY <1>2, <1>3, <2>1 DEF EntriesWell, WellFormed
<1> HIDE DEF c
<1>5. Nodes = Known /\ IsFiniteSet(Known)
  BY <1>2 DEF MachineInv
<1>6. Tables.ids = <<>> => from = 0
  <2> HAVE Tables.ids = <<>>
  <2>1. Known = {}
    BY IdsAre DEF Tables
  <2>2. ipsm = {}
    <3>1. \A t \in ipsm : t[1] \in Nodes
      BY DEF Nodes
    <3> QED
      BY <1>5, <2>1, <3>1
  <2>3. CASE i = 2
    <3>1. i - 1 = 1
      BY <2>3
    <3> QED
      BY <1>4, <3>1
  <2>4. CASE i # 2
    <3>1. 2 \in 2..(i - 1)
      BY <1>3, <2>4
    <3>2. <<c[2 - 1], c[2]>> \in Drawn(q)
      BY <1>1, <3>1 DEF Drawn, DrawnTo, c
    <3> QED
      BY <1>2, <1>3, <2>2, <3>2 DEF MachineInv
  <2> QED
    BY <2>3, <2>4
<1> HIDE DEF from, to
<1>7. TabWell(u, n) /\ Grown(Tables, u, n) /\ DOMAIN u.states = Nodes \cup {from, to}
  <2>1. Nodes = DOMAIN Tables.states
    BY <1>5 DEF Tables, Known
  <2> QED
    BY <1>2, <1>3, <1>6, <2>1, InsertEndsGrows
<1> HIDE DEF u
<1>8. /\ khms_states' = u.states /\ state_ids' = u.ids /\ was_fuzzed_map' = u.map
      /\ Known' = Nodes \cup {from, to}
  BY <1>1, <1>7 DEF SetTables, Known
<1>9. /\ Known \subseteq Known'
      /\ \A s \in Known : khms_states'[s] = khms_states[s]
      /\ \A s \in Known' \ Known : khms_states'[s] = NewState
      /\ Len(state_ids) <= Len(state_ids')
      /\ \A x \in DOMAIN state_ids : state_ids'[x] = state_ids[x] /\ was_fuzzed_map'[x] = was_fuzzed_map[x]
      /\ \A x \in DOMAIN state_ids' \ DOMAIN state_ids : \A k \in 1..n : was_fuzzed_map'[x][k] = Unreachable
  <2>1. Tables.states = khms_states /\ Tables.ids = state_ids /\ Tables.map = was_fuzzed_map
    BY DEF Tables
  <2> QED
    BY <1>7, <1>8, <2>1 DEF Grown, Known
<1>10. StatesWell(khms_states', n) /\ IdsWell(state_ids', khms_states') /\ MapWell(was_fuzzed_map', state_ids', n)
  BY <1>7, <1>8 DEF TabWell
<1>11. /\ pc' \in {"learn", "annotate"} /\ i' \in Nat
       /\ pc' = "learn" => i' \in 2..Len(c) /\ i' - 1 = i
       /\ pc' = "annotate" => i = Len(c)
  <2> DEFINE m == Len(c)
  <2>1. m \in Nat /\ i \in 2..m /\ i \in Nat
    BY <1>3
  <2>2. IF i < m THEN i' = i + 1 /\ pc' = "learn" ELSE i' = 0 /\ pc' = "annotate"
    BY <1>1
  <2> HIDE DEF m
  <2>3. CASE i < m
    BY <2>1, <2>2, <2>3 DEF m
  <2>4. CASE ~(i < m)
    BY <2>1, <2>2, <2>4 DEF m
  <2> QED
    BY <2>3, <2>4
<1>12. /\ \A k \in DOMAIN queue : k # q => Drawn(k)' = Drawn(k)
       /\ Drawn(q)' = Drawn(q) \cup {<<from, to>>}
       /\ pc' = "annotate" => Drawn(q)' = TransitionsOf(c)
  <2>1. \A k \in DOMAIN queue : k # q => Drawn(k)' = Drawn(k)
    BY <1>1 DEF Drawn, DrawnTo
  <2>2. DrawnTo(q)' = i
    <3>1. CASE pc' = "learn"
      BY <1>1, <1>11, <3>1 DEF DrawnTo
    <3>2. CASE pc' = "annotate"
      BY <1>1, <1>11, <3>2 DEF DrawnTo, c
    <3> QED
      BY <1>11, <3>1, <3>2
  <2>3. Drawn(q)' = {<<c[l - 1], c[l]>> : l \in 2..i}
    BY <1>1, <2>2 DEF Drawn, c
  <2>4. Drawn(q) = {<<c[l - 1], c[l]>> : l \in 2..(i - 1)}
    BY <1>1 DEF Drawn, DrawnTo, c
  <2>5. 2..i = (2..(i - 1)) \cup {i}
    BY <1>3
  <2>6. Drawn(q)' = Drawn(q) \cup {<<from, to>>}
    BY <2>3, <2>4, <2>5 DEF from, to
  <2>7. pc' = "annotate" => Drawn(q)' = TransitionsOf(c)
    BY <1>11, <2>3 DEF TransitionsOf
  <2> QED
    BY <2>1, <2>6, <2>7
<1>13. Learnt' = Learnt /\ q \notin Learnt /\ Learnt \subseteq DOMAIN queue
  BY <1>1, <1>11 DEF Learnt
<1>14. EntriesWell'
  BY <1>1, <1>2, <1>11 DEF EntriesWell, Processing, c
<1>15. MachineInv'
  <2>1. Nodes' = Nodes \cup {from, to}
    <3> DEFINE new == <<from, to>>
    <3>1. ipsm' = ipsm \cup {new} /\ new[1] = from /\ new[2] = to
      BY <1>1
    <3> HIDE DEF new
    <3>2. {edge[1] : edge \in ipsm'} = {edge[1] : edge \in ipsm} \cup {from}
      BY <3>1
    <3>3. {edge[2] : edge \in ipsm'} = {edge[2] : edge \in ipsm} \cup {to}
      BY <3>1
    <3> QED
      BY <3>2, <3>3 DEF Nodes
  <2>2. IsFiniteSet(Known')
    BY <1>10 DEF StatesWell, Known
  <2>3. \A t : t \in ipsm' <=> \E k \in DOMAIN queue' : t \in Drawn(k)'
    <3> SUFFICES ASSUME NEW t PROVE t \in ipsm' <=> \E k \in DOMAIN queue : t \in Drawn(k)'
      BY <1>1
    <3>1. t \in ipsm <=> \E k \in DOMAIN queue : t \in Drawn(k)
      BY <1>2 DEF MachineInv
    <3>2. t \in ipsm' <=> t \in ipsm \/ t = <<from, to>>
      BY <1>1
    <3>3. CASE t = <<from, to>>
      BY <1>1, <1>3, <1>12, <3>2, <3>3
    <3>4. CASE t # <<from, to>>
      <4>1. \A k \in DOMAIN queue : t \in Drawn(k)' <=> t \in Drawn(k)
        BY <1>1, <1>12, <3>4
      <4> QED
        BY <3>1, <3>2, <3>4, <4>1
    <3> QED
      BY <3>3, <3>4
  <2>4. PathsDrawn'
    <3> SUFFICES ASSUME NEW p \in khs_ipsm_paths, NEW t \in TransitionsOf(p)
        PROVE t \in ipsm' \/ (pc' = "learn" /\ t \in TransitionsOf(c))
      BY <1>1 DEF PathsDrawn, c
    <3>1. t \in ipsm \/ t \in TransitionsOf(c)
      BY <1>2 DEF MachineInv, PathsDrawn, c
    <3>2. pc' = "annotate" /\ t \in TransitionsOf(c) => t \in ipsm'
      BY <1>1, <1>3, <1>12, <2>3
    <3> QED
      BY <1>1, <1>11, <3>1, <3>2
  <2>5. (\A k \in Learnt : Range(queue[k].codes) \subseteq Known)'
    BY <1>1, <1>2, <1>9, <1>13 DEF MachineInv
  <2> QED
    BY <1>5, <1>8, <1>11, <2>1, <2>2, <2>3, <2>4, <2>5 DEF MachineInv
<1>16. RoundInv'
  <2>1. /\ q > Seeds => target_state_id \in Known
        /\ M2 # NoM2 => /\ q > Seeds /\ FollowsTarget
                        /\ selected_seed \in Range(khms_states[target_state_id].seeds)
    BY <1>1, <1>2 DEF RoundInv
  <2>2. M2 # NoM2 => selected_seed \in Range(khms_states'[target_state_id].seeds)
    BY <1>9, <2>1
  <2>3. M2 # NoM2 => FollowsTarget'
    BY <1>1, <2>1 DEF FollowsTarget, Reached
  <2>4. q > Seeds => target_state_id \in Known'
    BY <1>9, <2>1
  <2>5. Processing' /\ pc' \notin {"seed", "fuzz", "mutate", "sync"}
    BY <1>11 DEF Processing
  <2> QED
    BY <1>1, <2>1, <2>2, <2>3, <2>4, <2>5 DEF RoundInv, NoM2
<1>17. \A k \in Learnt : 0 \in Known /\ Range(queue[k].codes) \subseteq Known /\ WellFormed(queue[k])
  <2> TAKE k \in Learnt
  <2>1. Range(queue[k].codes) \subseteq Known /\ WellFormed(queue[k]) /\ queue[k].codes # <<>>
    BY <1>2, <1>13 DEF MachineInv, EntriesWell, Learnt
  <2>2. queue[k].codes[1] = 0 /\ queue[k].codes \in Seq(States)
    BY <2>1 DEF WellFormed
  <2>3. 1 \in DOMAIN queue[k].codes
    BY <2>1, <2>2
  <2> QED
    BY <2>1, <2>2, <2>3 DEF Range
<1>18. MarksInv'
  <2> SUFFICES ASSUME NEW k \in DOMAIN queue, NEW y \in DOMAIN state_ids'
      PROVE  (/\ SeedOf(k, state_ids[y]) <=> was_fuzzed_map[y][k] # Unreachable
              /\ was_fuzzed_map[y][k] = 1 => queue[k].was_fuzzed
              /\ k \in Learnt => (SeedOf(k, state_ids[y]) <=> Reaching(k, state_ids[y]))
              /\ k = q /\ pc = "reach" => (SeedOf(k, state_ids[y]) <=> ReachedSoFar(state_ids[y]))
              /\ k \notin Learnt /\ ~(k = q /\ pc = "reach") => ~SeedOf(k, state_ids[y]))'
    BY <1>1 DEF MarksInv
  <2>1. \A s : Reaching(k, s)' <=> Reaching(k, s)
    BY <1>1 DEF Reaching, Reached
  <2>2. CASE y \in DOMAIN state_ids
    <3>1. state_ids[y] \in Known /\ state_ids'[y] = state_ids[y] /\ was_fuzzed_map'[y] = was_fuzzed_map[y]
      BY <1>9, <2>2, IdsAre
    <3>2. SeedOf(k, state_ids[y])' <=> SeedOf(k, state_ids[y])
      BY <1>9, <3>1 DEF SeedOf
    <3>3. Reaching(k, state_ids[y])' <=> Reaching(k, state_ids[y])
      BY <2>1, <3>1
    <3>4. /\ SeedOf(k, state_ids[y]) <=> was_fuzzed_map[y][k] # Unreachable
          /\ was_fuzzed_map[y][k] = 1 => queue[k].was_fuzzed
          /\ k \in Learnt => (SeedOf(k, state_ids[y]) <=> Reaching(k, state_ids[y]))
          /\ k \notin Learnt => ~SeedOf(k, state_ids[y])
      BY <1>1, <1>2, <2>2 DEF MarksInv
    <3> QED
      BY <1>1, <1>11, <1>13, <3>1, <3>2, <3>3, <3>4
  <2>3. CASE y \notin DOMAIN state_ids
    <3> DEFINE s == state_ids'[y]
    <3>1. s \in Known' /\ s \notin Known
      <4>1. s \in Known'
        BY <1>10 DEF IdsWell, Range, Known
      <4>2. SUFFICES ASSUME s \in Known PROVE FALSE
        BY <4>1
      <4>3. PICK z \in DOMAIN state_ids : state_ids[z] = s
        BY <4>2, IdsAre
      <4>4. z \in DOMAIN state_ids'
        <5>1. state_ids' \in Seq(States) /\ DOMAIN state_ids' = 1..Len(state_ids') /\ Len(state_ids') \in Nat
          BY <1>10 DEF IdsWell
        <5>2. DOMAIN state_ids = 1..Len(state_ids) /\ Len(state_ids) \in Nat
          BY IdsAre
        <5> QED
          BY <1>9, <5>1, <5>2
      <4>5. state_ids'[z] = state_ids'[y]
        BY <1>9, <4>3
      <4>6. z = y
        BY <1>10, <4>4, <4>5 DEF IdsWell, IsInjective
      <4> QED
        BY <2>3, <4>6
    <3>2. was_fuzzed_map'[y][k] = Unreachable
      BY <1>3, <1>9, <2>3
    <3>3. ~SeedOf(k, state_ids[y])'
      <4>1. khms_states'[s].seeds = <<>>
        BY <1>9, <3>1 DEF NewState
      <4> HIDE DEF s
      <4>2. Range(khms_states'[s].seeds) = {}
        BY <4>1 DEF Range
      <4> QED
        BY <4>2 DEF SeedOf, s
    <3>4. k \in Learnt => ~Reaching(k, s)
      <4> HAVE k \in Learnt
      <4>1. s # 0
        BY <1>17, <3>1
      <4>2. \A l \in DOMAIN queue[k].counts : queue[k].counts[l] > 0 => Reached(queue[k], l) \in Known
        BY <1>17, ReachedInside
      <4> HIDE DEF s
      <4> QED
        BY <3>1, <4>1, <4>2 DEF Reaching
    <3>5. Reaching(k, state_ids[y])' <=> Reaching(k, s)
      BY <2>1
    <3> QED
      BY <1>11, <1>13, <3>2, <3>3, <3>4, <3>5 DEF Unreachable
  <2> QED
    BY <2>2, <2>3
<1>19. CountsInv'
  <2>1. \A s : Passed(s)' = Passed(s)
    BY <1>1, <1>13 DEF Passed
  <2>2. FoundEntries' = FoundEntries
    BY <1>13 DEF FoundEntries
  <2>3. \A s \in Known' \ Known : Passed(s) = {}
    BY <1>17 DEF Passed
  <2>4. \A s \in Known' : khms_states'[s].paths = Cardinality(Passed(s))
    <3> TAKE s \in Known'
    <3>1. CASE s \in Known
      BY <1>2, <1>9, <3>1 DEF CountsInv
    <3>2. CASE s \notin Known
      <4>1. khms_states'[s].paths = 0
        BY <1>9, <3>2 DEF NewState
      <4> QED
        BY <2>3, <3>2, <4>1, FS_EmptySet
    <3> QED
      BY <3>1, <3>2
  <2>5. FoundTotal(khms_states') = FoundTotal(khms_states)
    <3> DEFINE f == FoundAt(khms_states)
               h == FoundAt(khms_states')
               T == DOMAIN khms_states'
               S == DOMAIN khms_states
    <3>1. IsFiniteSet(T) /\ IsFiniteSet(S) /\ S \subseteq T /\ S = Known /\ T = Known'
      BY <1>5, <1>9, <1>10 DEF StatesWell, Known
    <3>2. FoundTotal(khms_states) = SumOf(f, S) /\ FoundTotal(khms_states') = SumOf(h, T)
      BY <3>1, FoundTotalIsSum
    <3>3. /\ \A s \in S : f[s] = khms_states[s].paths_discovered /\ f[s] \in Nat
          /\ \A s \in T : h[s] = khms_states'[s].paths_discovered
      BY <3>1, IdsAre DEF FoundAt
    <3>4. \A s \in S : h[s] = f[s] /\ h[s] \in Int
      BY <1>9, <3>1, <3>3
    <3>5. \A s \in T \ S : h[s] = 0
      BY <1>9, <3>1, <3>3 DEF NewState
    <3>6. \A s \in T : h[s] \in Int
      BY <3>4, <3>5
    <3> HIDE DEF f, h, T, S
    <3>7. SumOf(h, T) = SumOf(f, S)
      BY <3>1, <3>4, <3>5, <3>6, SumExtend
    <3> QED
      BY <3>2, <3>7
  <2> QED
    BY <1>2, <2>1, <2>2, <2>4, <2>5 DEF CountsInv
<1>20. TypeRest'
  <2>1. ipsm' \subseteq States \X States
    BY <1>1, <1>2, <1>3 DEF TypeRest
  <2>2. selected_state_index' = 0 \/ selected_state_index' < Len(state_ids')
    <3>1. Len(state_ids') \in Nat /\ Len(state_ids) \in Nat /\ selected_state_index \in Nat
      BY <1>2, <1>10, IdsAre DEF IdsWell, TypeRest
    <3> QED
      BY <1>1, <1>2, <1>9, <3>1 DEF TypeRest
  <2> QED
    BY <1>1, <1>2, <1>11, <2>1, <2>2 DEF TypeRest, options
<1>21. TabWell(Tables, Len(queue))'
  BY <1>1, <1>10 DEF TabWell, Tables
<1> QED
  BY <1>14, <1>15, <1>16, <1>18, <1>19, <1>20, <1>21 DEF IInv

(* The response to entry k arrives, which was not looked at before: the    *)
(* entry is a seed of no state, and what it adds to the graph is known     *)
(* already or still to be learned.                                         *)
Arrives(k, r) ==
  /\ queue' \in Seq(Entry) /\ k \in DOMAIN queue' /\ DOMAIN queue' = DOMAIN queue \cup {k}
  /\ Len(queue) <= Len(queue') /\ queue'[k] = EntryOf(r)
  /\ \A j \in DOMAIN queue : j # k => queue'[j] = queue[j]
  /\ \A j \in DOMAIN queue' : j > k => queue'[j].codes = <<>>
  /\ k \in DOMAIN queue => queue[k].codes = <<>>
  /\ pc \in {"dry_run", "mutate", "sync"} /\ (pc = "dry_run" <=> k <= Seeds)
  /\ k \notin DOMAIN queue <=> k > Seeds
  /\ MapWell(was_fuzzed_map', state_ids, Len(queue'))
  /\ \A x \in DOMAIN state_ids :
       /\ \A j \in DOMAIN queue : was_fuzzed_map'[x][j] = was_fuzzed_map[x][j]
       /\ k \notin DOMAIN queue => was_fuzzed_map'[x][k] = Unreachable
  /\ UNCHANGED <<khms_states, state_ids, choice, options>>

LEMMA ObserveKeeps ==
  ASSUME IInv, NEW r \in Responses, NEW k \in Nat, Arrives(k, r), Observe(k, r)
  PROVE  IInv'
<1> DEFINE c == r.codes
           n == Len(queue)
<1>1. /\ queue' \in Seq(Entry) /\ k \in DOMAIN queue' /\ DOMAIN queue' = DOMAIN queue \cup {k}
      /\ n <= Len(queue') /\ queue'[k] = EntryOf(r)
      /\ \A j \in DOMAIN queue : j # k => queue'[j] = queue[j]
      /\ \A j \in DOMAIN queue' : j > k => queue'[j].codes = <<>>
      /\ k \in DOMAIN queue => queue[k].codes = <<>>
      /\ pc \in {"dry_run", "mutate", "sync"} /\ (pc = "dry_run" <=> k <= Seeds)
      /\ k \notin DOMAIN queue <=> k > Seeds
      /\ khms_states' = khms_states /\ state_ids' = state_ids /\ M2' = M2
      /\ selected_seed' = selected_seed /\ target_state_id' = target_state_id
      /\ selected_state_index' = selected_state_index /\ state_cycles' = state_cycles
      /\ state_selection_algo' = state_selection_algo /\ seed_selection_algo' = seed_selection_algo
  BY DEF Arrives, choice, options
<1>2. /\ TypeRest /\ EntriesWell /\ MachineInv /\ RoundInv /\ MarksInv /\ CountsInv
  BY DEF IInv
<1>3. /\ n \in Nat /\ DOMAIN queue = 1..n /\ Seeds \in Nat \ {0} /\ Seeds <= n
      /\ Len(queue') \in Nat /\ DOMAIN queue' = 1..Len(queue') /\ WellFormed(r)
  <2>1. n \in Nat /\ DOMAIN queue = 1..n /\ Seeds \in Nat \ {0} /\ Seeds <= n
    BY EntriesAre, BoundsAssumption
  <2>2. Len(queue') \in Nat /\ DOMAIN queue' = 1..Len(queue')
    BY <1>1
  <2>3. WellFormed(r)
    BY ResponsesAssumption
  <2> QED
    BY <2>1, <2>2, <2>3
<1>4. /\ c \in Seq(States) /\ Len(c) \in Nat /\ queue'[k].codes = c /\ queue'[k].counts = r.counts
      /\ c = <<>> <=> Len(c) = 0
  BY <1>1, <1>3, EmptySeq DEF EntryOf, WellFormed
<1> HIDE DEF c
<1>5. \/ /\ c = <<>> /\ Return(k) /\ ipsm' = ipsm /\ khs_ipsm_paths' = khs_ipsm_paths
      \/ /\ c # <<>> /\ q' = k /\ i' = 0 /\ pc' = "annotate" /\ ipsm' = ipsm
         /\ Trimmed(c) \in khs_ipsm_paths /\ khs_ipsm_paths' = khs_ipsm_paths
      \/ /\ c # <<>> /\ q' = k /\ i' = 2 /\ pc' = "learn" /\ ipsm' = ipsm /\ Len(c) > 1
         /\ khs_ipsm_paths' = khs_ipsm_paths \cup {Trimmed(c)}
      \/ /\ c # <<>> /\ q' = k /\ i' = 0 /\ pc' = "annotate" /\ ipsm' = ipsm /\ Len(c) = 1
         /\ khs_ipsm_paths' = khs_ipsm_paths \cup {Trimmed(c)}
  <2>1. CASE c = <<>> /\ Return(k) /\ UNCHANGED learned
    BY <2>1 DEF learned
  <2>2. CASE /\ c # <<>> /\ Trimmed(c) \in khs_ipsm_paths
             /\ q' = k /\ i' = 0 /\ pc' = "annotate" /\ UNCHANGED learned
    BY <2>2 DEF learned
  <2>3. CASE /\ c # <<>> /\ khs_ipsm_paths' = khs_ipsm_paths \cup {Trimmed(c)} /\ q' = k
             /\ IF Len(c) > 1 THEN i' = 2 /\ pc' = "learn" ELSE i' = 0 /\ pc' = "annotate"
             /\ UNCHANGED ipsm
    <3>1. Len(c) \in Nat /\ Len(c) # 0
      BY <1>4, <2>3
    <3>2. CASE Len(c) > 1
      BY <2>3, <3>2
    <3>3. CASE ~(Len(c) > 1)
      <4>1. Len(c) = 1
        BY <3>1, <3>3
      <4> QED
        BY <2>3, <3>3, <4>1
    <3> QED
      BY <3>2, <3>3
  <2> QED
    BY <2>1, <2>2, <2>3 DEF Observe, c
<1>6. Return(k) => /\ i' = 0 /\ q' \in DOMAIN queue' /\ q' >= k
                   /\ pc' \in {"dry_run", "choose", "sync", "mutate"}
                   /\ (pc' = "dry_run" <=> k < Seeds) /\ (k < Seeds => q' = k + 1)
                   /\ (k >= Seeds => q' = k)
                   /\ pc' \in {"sync", "mutate"} => k > Seeds
                   /\ k > Seeds => pc' = IF M2 = NoM2 THEN "sync" ELSE "mutate"
  BY <1>1, <1>3 DEF Return
<1>7. /\ ipsm' = ipsm /\ q' \in DOMAIN queue' /\ q' \in Nat /\ k \in Nat /\ i' \in Nat /\ q' >= k
      /\ pc' \in {"dry_run", "choose", "sync", "mutate", "learn", "annotate"}
      /\ pc' \in {"learn", "annotate"} => q' = k /\ c # <<>>
      /\ pc' \notin {"learn", "annotate"} => c = <<>>
      /\ pc' = "dry_run" => c = <<>> /\ k < Seeds /\ q' = k + 1
      /\ pc' \in {"sync", "mutate"} => k > Seeds
      /\ pc' = "learn" => i' = 2 /\ Len(c) > 1
      /\ q' > Seeds => k > Seeds
  BY <1>1, <1>3, <1>5, <1>6
<1>8. Known' = Known
  BY <1>1 DEF Known
<1>9. k \notin Learnt
  BY <1>1 DEF Learnt
<1>10. Learnt' = Learnt
  <2>1. \A j \in DOMAIN queue : j # k => (j \in Learnt' <=> j \in Learnt)
    BY <1>1, <1>7 DEF Learnt
  <2>2. k \notin Learnt'
    BY <1>4, <1>7 DEF Learnt
  <2>3. Learnt \subseteq DOMAIN queue /\ Learnt' \subseteq DOMAIN queue \cup {k}
    BY <1>1 DEF Learnt
  <2> QED
    BY <1>9, <2>1, <2>2, <2>3
<1>11. /\ \A j \in DOMAIN queue : j # k => Drawn(j)' = Drawn(j)
       /\ k \in DOMAIN queue => Drawn(k) = {}
       /\ Drawn(k)' \subseteq ipsm
  <2>1. \A j \in DOMAIN queue : j # k => Drawn(j)' = Drawn(j)
    <3> TAKE j \in DOMAIN queue
    <3> HAVE j # k
    <3>1. queue'[j] = queue[j]
      BY <1>1
    <3>2. DrawnTo(j)' = Len(queue[j].codes) /\ DrawnTo(j) = Len(queue[j].codes)
      BY <1>1, <1>7, <3>1 DEF DrawnTo
    <3> QED
      BY <3>1, <3>2 DEF Drawn
  <2>2. k \in DOMAIN queue => Drawn(k) = {}
    <3> HAVE k \in DOMAIN queue
    <3>1. Len(queue[k].codes) = 0 /\ pc # "learn"
      BY <1>1
    <3>2. DrawnTo(k) = 0
      BY <3>1 DEF DrawnTo
    <3> QED
      BY <3>2 DEF Drawn
  <2>3. pc' # "learn" => Drawn(k)' = TransitionsOf(c)
    <3> HAVE pc' # "learn"
    <3>1. DrawnTo(k)' = Len(c)
      BY <1>4 DEF DrawnTo
    <3> QED
      BY <1>4, <3>1 DEF Drawn, TransitionsOf
  <2>4. Len(c) <= 1 => TransitionsOf(c) = {}
    BY <1>4 DEF TransitionsOf
  <2>5. Drawn(k)' \subseteq ipsm
    <3>1. CASE c = <<>>
      <4>1. pc' # "learn" /\ Len(c) <= 1
        BY <1>4, <1>7, <3>1
      <4> QED
        BY <2>3, <2>4, <4>1
    <3>2. CASE c # <<>> /\ Trimmed(c) \in khs_ipsm_paths /\ pc' = "annotate"
      <4>1. TransitionsOf(Trimmed(c)) = TransitionsOf(c)
        BY <1>4, TrimmedKeeps
      <4>2. \A t \in TransitionsOf(Trimmed(c)) : t \in ipsm
        BY <1>1, <1>2, <3>2 DEF MachineInv, PathsDrawn
      <4> QED
        BY <2>3, <3>2, <4>1, <4>2
    <3>3. CASE pc' = "learn"
      <4>1. DrawnTo(k)' = 1
        BY <1>7, <3>3 DEF DrawnTo
      <4>2. Drawn(k)' = {}
        BY <4>1 DEF Drawn
      <4> QED
        BY <4>2
    <3>4. CASE pc' = "annotate" /\ Len(c) = 1
      BY <2>3, <2>4, <3>4
    <3> QED
      BY <1>5, <3>1, <3>2, <3>3, <3>4
  <2> QED
    BY <2>1, <2>2, <2>5
<1>12. EntriesWell'
  <2>1. \A j \in DOMAIN queue' : WellFormed(queue'[j])
    <3>1. WellFormed(queue'[k])
      BY <1>3, <1>4 DEF WellFormed, c
    <3> QED
      BY <1>1, <1>2, <3>1 DEF EntriesWell
  <2>2. \A j \in DOMAIN queue' : j > q' => queue'[j].codes = <<>>
    BY <1>1, <1>3, <1>7
  <2>3. pc' = "dry_run" => q' <= Seeds /\ queue'[q'].codes = <<>>
    BY <1>1, <1>3, <1>7
  <2>4. Processing' => queue'[q'].codes # <<>>
    BY <1>4, <1>7 DEF Processing
  <2>5. pc' = "learn" => i' \in 2..Len(queue'[q'].codes)
    BY <1>4, <1>7
  <2>6. Len(queue') >= Seeds /\ pc' # "reach"
    BY <1>1, <1>3, <1>7
  <2> QED
    BY <2>1, <2>2, <2>3, <2>4, <2>5, <2>6 DEF EntriesWell
<1>13. MachineInv'
  <2>1. Nodes' = Known' /\ IsFiniteSet(Known')
    BY <1>2, <1>7, <1>8 DEF MachineInv, Nodes
  <2>2. \A t : t \in ipsm' <=> \E j \in DOMAIN queue' : t \in Drawn(j)'
    <3> SUFFICES ASSUME NEW t PROVE t \in ipsm <=> \E j \in DOMAIN queue' : t \in Drawn(j)'
      BY <1>7
    <3>1. t \in ipsm <=> \E j \in DOMAIN queue : t \in Drawn(j)
      BY <1>2 DEF MachineInv
    <3>2. ASSUME t \in ipsm PROVE \E j \in DOMAIN queue' : t \in Drawn(j)'
      <4>1. PICK j \in DOMAIN queue : t \in Drawn(j)
        BY <3>1, <3>2
      <4>2. j # k
        BY <1>11, <4>1
      <4>3. j \in DOMAIN queue' /\ t \in Drawn(j)'
        BY <1>1, <1>11, <4>1, <4>2
      <4> QED
        BY <4>3
    <3>3. ASSUME NEW j \in DOMAIN queue', t \in Drawn(j)' PROVE t \in ipsm
      <4>1. CASE j = k
        BY <1>11, <3>3, <4>1
      <4>2. CASE j # k
        <5>1. j \in DOMAIN queue /\ t \in Drawn(j)
          BY <1>1, <1>11, <3>3, <4>2
        <5> QED
          BY <3>1, <5>1
      <4> QED
        BY <4>1, <4>2
    <3> QED
      BY <3>2, <3>3
  <2>3. PathsDrawn'
    <3>1. \A p \in khs_ipsm_paths : \A t \in TransitionsOf(p) : t \in ipsm
      BY <1>1, <1>2 DEF MachineInv, PathsDrawn
    <3>2. TransitionsOf(Trimmed(c)) = TransitionsOf(c)
      BY <1>4, TrimmedKeeps
    <3>3. Len(c) = 1 => TransitionsOf(c) = {}
      BY DEF TransitionsOf
    <3>4. pc' = "learn" => queue'[q'].codes = c
      BY <1>4, <1>7
    <3>5. \A p \in khs_ipsm_paths' :
            \/ p \in khs_ipsm_paths
            \/ p = Trimmed(c) /\ (Len(c) = 1 \/ pc' = "learn")
      <4>1. CASE khs_ipsm_paths' = khs_ipsm_paths
        BY <4>1
      <4>2. CASE khs_ipsm_paths' = khs_ipsm_paths \cup {Trimmed(c)} /\ (Len(c) = 1 \/ pc' = "learn")
        BY <4>2
      <4> QED
        BY <1>5, <4>1, <4>2
    <3> QED
      BY <1>7, <3>1, <3>2, <3>3, <3>4, <3>5 DEF PathsDrawn
  <2>4. (\A j \in Learnt : Range(queue[j].codes) \subseteq Known)'
    <3>1. Learnt \subseteq DOMAIN queue
      BY DEF Learnt
    <3> QED
      BY <1>1, <1>2, <1>8, <1>9, <1>10, <3>1 DEF MachineInv
  <2> QED
    BY <1>7, <2>1, <2>2, <2>3, <2>4 DEF MachineInv
<1>14. RoundInv'
  <2>1. /\ k > Seeds => target_state_id \in Known
        /\ M2 # NoM2 => /\ pc = "mutate" /\ FollowsTarget /\ k > Seeds
                        /\ selected_seed \in Range(khms_states[target_state_id].seeds)
    BY <1>1, <1>2, <1>3, <1>7 DEF RoundInv, Processing
  <2>2. M2 # NoM2 => selected_seed \in DOMAIN queue /\ selected_seed # k
    <3> HAVE M2 # NoM2
    <3>1. khms_states[target_state_id].seeds \in Seq(DOMAIN queue)
      BY <2>1, IdsAre
    <3>2. selected_seed \in DOMAIN queue
      BY <2>1, <3>1 DEF Range
    <3> QED
      BY <1>1, <2>1, <3>2
  <2>3. M2 # NoM2 => queue'[selected_seed'] = queue[selected_seed]
    BY <1>1, <2>2
  <2>4. M2 # NoM2 => FollowsTarget'
    BY <1>1, <2>1, <2>3 DEF FollowsTarget, Reached
  <2>5. M2 # NoM2 => pc' = "mutate" \/ (Processing' /\ q' > Seeds)
    <3>1. CASE c = <<>>
      BY <1>5, <1>6, <2>1, <3>1
    <3>2. CASE c # <<>>
      BY <1>7, <2>1, <3>2 DEF Processing
    <3> QED
      BY <3>1, <3>2
  <2>6. pc' = "mutate" => M2 # NoM2
    BY <1>5, <1>6, <1>7
  <2>7. pc' \in {"seed", "fuzz", "mutate", "sync"} \/ q' > Seeds => target_state_id' \in Known'
    BY <1>1, <1>7, <1>8, <2>1
  <2> QED
    BY <1>1, <1>7, <2>1, <2>4, <2>5, <2>6, <2>7 DEF RoundInv, NoM2
<1>15. MarksInv'
  <2> SUFFICES ASSUME NEW j \in DOMAIN queue', NEW y \in DOMAIN state_ids
      PROVE  (/\ SeedOf(j, state_ids[y]) <=> was_fuzzed_map[y][j] # Unreachable
              /\ was_fuzzed_map[y][j] = 1 => queue[j].was_fuzzed
              /\ j \in Learnt => (SeedOf(j, state_ids[y]) <=> Reaching(j, state_ids[y]))
              /\ j = q /\ pc = "reach" => (SeedOf(j, state_ids[y]) <=> ReachedSoFar(state_ids[y]))
              /\ j \notin Learnt /\ ~(j = q /\ pc = "reach") => ~SeedOf(j, state_ids[y]))'
    BY <1>1 DEF MarksInv
  <2>1. SeedOf(j, state_ids[y])' <=> SeedOf(j, state_ids[y])
    BY <1>1 DEF SeedOf
  <2>2. CASE j # k
    <3>1. j \in DOMAIN queue /\ queue'[j] = queue[j] /\ was_fuzzed_map'[y][j] = was_fuzzed_map[y][j]
      BY <1>1, <2>2 DEF Arrives
    <3>2. Reaching(j, state_ids[y])' <=> Reaching(j, state_ids[y])
      BY <1>1, <3>1 DEF Reaching, Reached
    <3>3. /\ SeedOf(j, state_ids[y]) <=> was_fuzzed_map[y][j] # Unreachable
          /\ was_fuzzed_map[y][j] = 1 => queue[j].was_fuzzed
          /\ j \in Learnt => (SeedOf(j, state_ids[y]) <=> Reaching(j, state_ids[y]))
          /\ j \notin Learnt => ~SeedOf(j, state_ids[y])
      BY <1>1, <1>2, <3>1 DEF MarksInv
    <3> QED
      BY <1>7, <1>10, <2>1, <3>1, <3>2, <3>3
  <2>3. CASE j = k
    <3>1. ~SeedOf(k, state_ids[y]) /\ was_fuzzed_map'[y][k] = Unreachable
      <4>1. CASE k \in DOMAIN queue
        <5>1. ~SeedOf(k, state_ids[y]) /\ was_fuzzed_map[y][k] = Unreachable
          BY <1>1, <1>2, <1>9, <4>1 DEF MarksInv
        <5>2. was_fuzzed_map'[y][k] = was_fuzzed_map[y][k]
          BY <4>1 DEF Arrives
        <5> QED
          BY <5>1, <5>2
      <4>2. CASE k \notin DOMAIN queue
        <5>1. khms_states[state_ids[y]].seeds \in Seq(DOMAIN queue)
          BY IdsAre
        <5>2. ~SeedOf(k, state_ids[y])
          BY <4>2, <5>1 DEF SeedOf, Range
        <5>3. was_fuzzed_map'[y][k] = Unreachable
          BY <4>2 DEF Arrives
        <5> QED
          BY <5>2, <5>3
      <4> QED
        BY <4>1, <4>2
    <3> QED
      BY <1>7, <1>9, <1>10, <2>1, <2>3, <3>1 DEF Unreachable
  <2> QED
    BY <2>2, <2>3
<1>16. CountsInv'
  <2>1. \A s : Passed(s)' = Passed(s)
    <3>1. \A j \in Learnt : queue'[j] = queue[j]
      BY <1>1, <1>9 DEF Learnt
    <3> QED
      BY <1>10, <3>1 DEF Passed
  <2>2. FoundEntries' = FoundEntries
    BY <1>10 DEF FoundEntries
  <2>3. FoundTotal(khms_states') = FoundTotal(khms_states)
    BY <1>1
  <2> QED
    BY <1>1, <1>2, <1>8, <2>1, <2>2, <2>3 DEF CountsInv
<1>17. TypeRest'
  <2>1. khs_ipsm_paths' \subseteq Seq(States)
    <3>1. Trimmed(c) \in Seq(States)
      BY <1>4, TrimmedKeeps
    <3> QED
      BY <1>2, <1>5, <3>1 DEF TypeRest
  <2>2. selected_seed' \in (DOMAIN queue') \cup {NoEntry}
    BY <1>1, <1>2 DEF TypeRest
  <2>3. pc' \in {"dry_run", "choose", "sync", "mutate", "learn", "annotate"}
    BY <1>7
  <2> QED
    BY <1>1, <1>2, <1>7, <2>1, <2>2, <2>3 DEF TypeRest, options
<1>18. TabWell(Tables, Len(queue))'
  <2>1. StatesWell(khms_states, n) /\ IdsWell(state_ids, khms_states)
    BY TablesWell
  <2>2. StatesWell(khms_states', Len(queue'))
    <3>1. 1..n \subseteq 1..Len(queue')
      BY <1>1, <1>3
    <3>2. Seq(1..n) \subseteq Seq(1..Len(queue'))
      <4> SUFFICES ASSUME NEW s \in Seq(1..n) PROVE s \in Seq(1..Len(queue'))
        OBVIOUS
      <4>1. Len(s) \in Nat /\ s = [l \in 1..Len(s) |-> s[l]] /\ \A l \in 1..Len(s) : s[l] \in 1..n
        OBVIOUS
      <4> QED
        BY <3>1, <4>1, IsASeq
    <3>3. StateRec(1..n) \subseteq StateRec(1..Len(queue'))
      BY <3>2 DEF StateRec
    <3> QED
      BY <1>1, <2>1, <3>3 DEF StatesWell
  <2>3. MapWell(was_fuzzed_map', state_ids', Len(queue'))
    BY <1>1 DEF Arrives
  <2> QED
    BY <1>1, <2>1, <2>2, <2>3 DEF TabWell, Tables
<1> QED
  BY <1>12, <1>13, <1>14, <1>15, <1>16, <1>17, <1>18 DEF IInv

LEMMA EntryOfIsOne ==
  ASSUME NEW r \in Responses
  PROVE  EntryOf(r) \in Entry
BY ResponsesAssumption DEF EntryOf, Entry, WellFormed

LEMMA DryRunKeeps ==
  ASSUME IInv, DryRun
  PROVE  IInv'
<1>1. PICK r \in Responses : queue' = [queue EXCEPT ![q] = EntryOf(r)] /\ Observe(q, r)
  BY DEF DryRun
<1>2. /\ pc = "dry_run" /\ UNCHANGED <<tables, choice, options>>
      /\ TypeRest /\ EntriesWell /\ MarksInv
  BY DEF DryRun, IInv
<1>3. khms_states' = khms_states /\ state_ids' = state_ids /\ was_fuzzed_map' = was_fuzzed_map
  BY <1>2 DEF tables
<1>4. /\ queue \in Seq(Entry) /\ q \in DOMAIN queue /\ q \in Nat /\ q <= Seeds /\ Seeds \in Nat
      /\ queue[q].codes = <<>> /\ EntryOf(r) \in Entry
      /\ \A j \in DOMAIN queue : j > q => queue[j].codes = <<>>
  BY <1>2, EntriesAre, BoundsAssumption, EntryOfIsOne DEF TypeRest, EntriesWell
<1>5. /\ queue' \in Seq(Entry) /\ Len(queue') = Len(queue) /\ DOMAIN queue' = DOMAIN queue
      /\ queue'[q] = EntryOf(r) /\ \A j \in DOMAIN queue : j # q => queue'[j] = queue[j]
  BY <1>1, <1>4
<1>6. \A j \in DOMAIN queue' : j > q => queue'[j].codes = <<>>
  <2>1. \A j \in DOMAIN queue : j > q => j # q
    BY <1>4, EntriesAre
  <2> QED
    BY <1>4, <1>5, <2>1
<1>7. MapWell(was_fuzzed_map', state_ids, Len(queue'))
  BY <1>3, <1>5, TablesWell
<1>8. Arrives(q, r)
  BY <1>2, <1>3, <1>4, <1>5, <1>6, <1>7, EntriesAre DEF Arrives
<1> QED
  BY <1>1, <1>4, <1>8, ObserveKeeps

LEMMA SaveKeeps ==
  ASSUME IInv, Save
  PROVE  IInv'
<1> DEFINE n == Len(queue)
           k == Len(queue) + 1
           m == Len(was_fuzzed_map)
<1>1. PICK r \in Responses : queue' = Append(queue, EntryOf(r)) /\ Observe(k, r)
  BY DEF Save
<1>2. /\ pc \in {"mutate", "sync"}
      /\ was_fuzzed_map' = [x \in DOMAIN was_fuzzed_map |-> Append(was_fuzzed_map[x], Unreachable)]
      /\ UNCHANGED <<khms_states, state_ids, choice, options>> /\ TypeRest /\ EntriesWell
  BY DEF Save, IInv
<1>3. /\ queue \in Seq(Entry) /\ n \in Nat /\ DOMAIN queue = 1..n /\ Seeds <= n /\ Seeds \in Nat
      /\ EntryOf(r) \in Entry
  BY <1>2, EntriesAre, BoundsAssumption, EntryOfIsOne DEF TypeRest
<1>4. /\ queue' \in Seq(Entry) /\ Len(queue') = k /\ DOMAIN queue' = 1..k
      /\ queue'[k] = EntryOf(r) /\ \A j \in 1..n : queue'[j] = queue[j]
  BY <1>1, <1>3
<1>5. /\ k \in Nat /\ 1..k = (1..n) \cup {k} /\ k \notin 1..n /\ k > Seeds /\ n <= k
      /\ \A j \in 1..k : ~(j > k)
  BY <1>3
<1>6. /\ MapWell(was_fuzzed_map, state_ids, n) /\ m \in Nat /\ DOMAIN was_fuzzed_map = 1..m
      /\ DOMAIN state_ids \subseteq DOMAIN was_fuzzed_map /\ 1 \in DOMAIN was_fuzzed_map
      /\ \A x \in DOMAIN was_fuzzed_map : was_fuzzed_map[x] \in Row /\ Len(was_fuzzed_map[x]) = n
  <2>1. MapWell(was_fuzzed_map, state_ids, n)
    BY TablesWell
  <2>2. was_fuzzed_map \in Seq(Row)
    BY <2>1 DEF MapWell
  <2> QED
    BY <2>1, <2>2, IdsAre
<1>7. \A x \in DOMAIN was_fuzzed_map :
        /\ was_fuzzed_map'[x] \in Row /\ Len(was_fuzzed_map'[x]) = k
        /\ was_fuzzed_map'[x][k] = Unreachable
        /\ \A j \in 1..n : was_fuzzed_map'[x][j] = was_fuzzed_map[x][j]
  <2> TAKE x \in DOMAIN was_fuzzed_map
  <2>1. was_fuzzed_map'[x] = Append(was_fuzzed_map[x], Unreachable)
    BY <1>2
  <2>2. was_fuzzed_map[x] \in Row /\ Len(was_fuzzed_map[x]) = n
    BY <1>6
  <2> QED
    BY <1>3, <2>1, <2>2 DEF Row
<1>8. /\ was_fuzzed_map' \in Seq(Row) /\ Len(was_fuzzed_map') = m
      /\ DOMAIN was_fuzzed_map' = DOMAIN was_fuzzed_map
  <2>1. DOMAIN was_fuzzed_map' = 1..m
    BY <1>2, <1>6
  <2>2. \A x \in 1..m : was_fuzzed_map'[x] \in Row
    BY <1>6, <1>7
  <2>3. was_fuzzed_map' = [x \in 1..m |-> was_fuzzed_map'[x]]
    BY <1>2, <1>6
  <2>4. was_fuzzed_map' \in Seq(Row)
    BY <1>6, <2>2, <2>3, IsASeq
  <2> QED
    BY <1>6, <2>1, <2>4
<1> HIDE DEF k, n, m
<1>9. MapWell(was_fuzzed_map', state_ids, k)
  <2>1. m = IF Len(state_ids) >= 1 THEN Len(state_ids) ELSE 1
    BY <1>6 DEF MapWell, m
  <2>2. state_ids = <<>> => \A j \in 1..k : was_fuzzed_map'[1][j] = Unreachable
    BY <1>5, <1>6, <1>7 DEF MapWell
  <2>3. \A x \in DOMAIN was_fuzzed_map' : Len(was_fuzzed_map'[x]) = k
    BY <1>7, <1>8
  <2> QED
    BY <1>8, <2>1, <2>2, <2>3 DEF MapWell
<1>10. Arrives(k, r)
  <2>1. \A x \in DOMAIN state_ids :
          /\ \A j \in DOMAIN queue : was_fuzzed_map'[x][j] = was_fuzzed_map[x][j]
          /\ k \notin DOMAIN queue => was_fuzzed_map'[x][k] = Unreachable
    BY <1>3, <1>6, <1>7
  <2>2. \A j \in DOMAIN queue' : j > k => queue'[j].codes = <<>>
    BY <1>4, <1>5
  <2>3. pc \in {"dry_run", "mutate", "sync"} /\ (pc = "dry_run" <=> k <= Seeds)
    BY <1>2, <1>3, <1>5
  <2> QED
    BY <1>2, <1>3, <1>4, <1>5, <1>9, <2>1, <2>2, <2>3 DEF Arrives, n
<1> QED
  BY <1>1, <1>5, <1>10, ObserveKeeps

-----------------------------------------------------------------------------
(* Before anything has run every entry has one region without an answer.   *)
LEMMA InitInv ==
  ASSUME Init
  PROVE  IInv
<1> DEFINE none == [codes |-> <<>>, counts |-> <<0>>, was_fuzzed |-> FALSE]
<1>1. /\ queue = [k \in 1..Seeds |-> none] /\ pc = "dry_run" /\ ipsm = {} /\ khs_ipsm_paths = {}
      /\ khms_states = <<>> /\ state_ids = <<>>
      /\ was_fuzzed_map = <<[k \in 1..Seeds |-> Unreachable]>>
      /\ selected_state_index = 0 /\ state_cycles = 0 /\ target_state_id = 0
      /\ q = 1 /\ i = 0 /\ selected_seed = NoEntry /\ M2 = NoM2
      /\ \E a \in Algos : state_selection_algo = a[1] /\ seed_selection_algo = a[2]
  BY DEF Init, EntryOf
<1>2. Seeds \in Nat \ {0} /\ 0 \in States /\ WarmUp \in Nat
  BY BoundsAssumption, StatesAssumption
<1>3. /\ none \in Entry /\ WellFormed(none) /\ none.codes = <<>> /\ Len(none.codes) = 0
  <2>1. <<>> \in Seq(States) /\ <<0>> \in Seq(Nat) /\ DOMAIN <<0>> = {1} /\ <<0>>[1] = 0
    OBVIOUS
  <2> QED
    BY <2>1 DEF Entry, WellFormed
<1> HIDE DEF none
<1>4. /\ queue \in Seq(Entry) /\ Len(queue) = Seeds /\ DOMAIN queue = 1..Seeds
      /\ \A k \in DOMAIN queue : queue[k] = none
  BY <1>1, <1>2, <1>3, IsASeq
<1>5. /\ DOMAIN khms_states = {} /\ Known = {} /\ DOMAIN state_ids = {} /\ Len(state_ids) = 0
      /\ Range(state_ids) = {} /\ state_ids \in Seq(States)
  BY <1>1 DEF Known, Range
<1>6. Learnt = {}
  BY <1>3, <1>4 DEF Learnt
<1>7. TypeRest
  <2>1. options \in Algos
    <3>1. PICK a \in Algos : state_selection_algo = a[1] /\ seed_selection_algo = a[2]
      BY <1>1
    <3>2. a = <<a[1], a[2]>>
      BY AlgosAssumption
    <3> QED
      BY <3>1, <3>2 DEF options
  <2> QED
    BY <1>1, <1>2, <1>4, <2>1 DEF TypeRest, NoM2, NoEntry
<1>8. TabWell(Tables, Len(queue))
  <2>1. StatesWell(khms_states, Seeds)
    BY <1>5, FS_EmptySet DEF StatesWell
  <2>2. IdsWell(state_ids, khms_states)
    BY <1>1, <1>5 DEF IdsWell, IsInjective
  <2>3. MapWell(was_fuzzed_map, state_ids, Seeds)
    <3> DEFINE row == [k \in 1..Seeds |-> Unreachable]
    <3>1. row \in Row /\ Len(row) = Seeds /\ \A k \in 1..Seeds : row[k] = Unreachable
      BY <1>2, IsASeq DEF Row
    <3> HIDE DEF row
    <3>2. <<row>> \in Seq(Row) /\ Len(<<row>>) = 1 /\ DOMAIN <<row>> = {1} /\ <<row>>[1] = row
      BY <3>1
    <3>3. was_fuzzed_map = <<row>>
      BY <1>1 DEF row
    <3> QED
      BY <1>5, <3>1, <3>2, <3>3 DEF MapWell
  <2> QED
    BY <1>4, <2>1, <2>2, <2>3 DEF TabWell, Tables
<1>9. EntriesWell
  BY <1>1, <1>2, <1>3, <1>4 DEF EntriesWell, Processing
<1>10. MachineInv
  <2>1. Nodes = Known /\ IsFiniteSet(Known)
    BY <1>1, <1>5, FS_EmptySet DEF Nodes
  <2>2. \A k \in DOMAIN queue : Drawn(k) = {}
    <3> TAKE k \in DOMAIN queue
    <3>1. DrawnTo(k) = 0
      BY <1>1, <1>3, <1>4 DEF DrawnTo
    <3> QED
      BY <3>1 DEF Drawn
  <2> QED
    BY <1>1, <1>6, <2>1, <2>2 DEF MachineInv, PathsDrawn
<1>11. RoundInv
  BY <1>1, <1>2 DEF RoundInv
<1>12. MarksInv
  BY <1>5 DEF MarksInv
<1>13. CountsInv
  <2>1. FoundTotal(khms_states) = 0
    BY <1>5, FS_EmptySet, FoundTotalIsSum, SumNone
  <2>2. FoundEntries = {}
    BY <1>6 DEF FoundEntries
  <2> QED
    BY <1>5, <2>1, <2>2, FS_EmptySet DEF CountsInv
<1> QED
  BY <1>7, <1>8, <1>9, <1>10, <1>11, <1>12, <1>13 DEF IInv

LEMMA StutterKeeps ==
  ASSUME IInv, UNCHANGED vars
  PROVE  IInv'
<1>1. UNCHANGED <<pc, queue, ipsm, khs_ipsm_paths, khms_states, state_ids, was_fuzzed_map,
                  selected_state_index, state_cycles, target_state_id, selected_seed, M2,
                  q, i, state_selection_algo, seed_selection_algo>>
  BY DEF vars, learned, tables, choice, options
<1>2. (TypeRest /\ TabWell(Tables, Len(queue)) /\ EntriesWell)'
  <2>1. options' = options /\ Tables' = Tables
    BY <1>1 DEF options, Tables
  <2>2. TypeRest'
    BY <1>1, <2>1 DEF IInv, TypeRest
  <2>3. EntriesWell'
    BY <1>1 DEF IInv, EntriesWell, Processing
  <2> QED
    BY <1>1, <2>1, <2>2, <2>3 DEF IInv
<1>3. Known' = Known /\ Nodes' = Nodes /\ Learnt' = Learnt
  BY <1>1 DEF Known, Nodes, Learnt
<1>4. MachineInv'
  <2>1. \A k : Drawn(k)' = Drawn(k)
    BY <1>1 DEF Drawn, DrawnTo
  <2>2. PathsDrawn'
    BY <1>1 DEF IInv, MachineInv, PathsDrawn
  <2> QED
    BY <1>1, <1>3, <2>1, <2>2 DEF IInv, MachineInv
<1>5. RoundInv'
  BY <1>1, <1>3 DEF IInv, RoundInv, FollowsTarget, Reached, Processing
<1>6. MarksInv'
  BY <1>1, <1>3 DEF IInv, MarksInv, SeedOf, Reaching, ReachedSoFar, Reached
<1>7. CountsInv'
  <2>1. \A s : Passed(s)' = Passed(s)
    BY <1>1, <1>3 DEF Passed
  <2>2. FoundEntries' = FoundEntries
    BY <1>3 DEF FoundEntries
  <2> QED
    BY <1>1, <1>3, <2>1, <2>2 DEF IInv, CountsInv
<1> QED
  BY <1>2, <1>4, <1>5, <1>6, <1>7 DEF IInv

LEMMA NextKeeps ==
  ASSUME IInv, [Next]_vars
  PROVE  IInv'
<1>1. CASE DryRun
  BY <1>1, DryRunKeeps
<1>2. CASE Learn
  BY <1>2, LearnKeeps
<1>3. CASE Annotate
  BY <1>3, AnnotateKeeps
<1>4. CASE Reach
  BY <1>4, ReachKeeps
<1>5. CASE Credit
  BY <1>5, CreditKeeps
<1>6. CASE ChooseState
  BY <1>6, ChooseStateKeeps
<1>7. CASE NoStates
  BY <1>7, NoStatesKeeps
<1>8. CASE ChooseSeed
  BY <1>8, ChooseSeedKeeps
<1>9. CASE FuzzOne
  BY <1>9, FuzzOneKeeps
<1>10. CASE Abandon
  BY <1>10, AbandonKeeps
<1>11. CASE Continue
  BY <1>11, ContinueKeeps
<1>12. CASE Save
  BY <1>12, SaveKeeps
<1>13. CASE Terminated
  BY <1>13, StutterKeeps DEF Terminated
<1>14. CASE UNCHANGED vars
  BY <1>14, StutterKeeps
<1> QED
  BY <1>1, <1>2, <1>3, <1>4, <1>5, <1>6, <1>7, <1>8, <1>9, <1>10, <1>11, <1>12, <1>13, <1>14
  DEF Next, Step

\* The invariant that the tables, the graph and the rounds keep together, for
\* any queue, any states and any responses, also between the steps that
\* update_state_aware_variables and fuzz_one consist of.
THEOREM SchedulerInvariant == Spec => []IInv
<1>1. Init => IInv
  BY InitInv
<1>2. IInv /\ [Next]_vars => IInv'
  BY NextKeeps
<1> QED
  BY <1>1, <1>2, PTL DEF Spec

LEMMA InvGivesTypes ==
  ASSUME IInv
  PROVE  TypeOK /\ TablesAgree
<1>1. TypeRest
  BY DEF IInv
<1>2. TypeOK
  <2>1. queue \in Seq([codes : Seq(States), counts : Seq(Nat), was_fuzzed : BOOLEAN])
    BY <1>1 DEF TypeRest, Entry
  <2>2. Known \subseteq States /\ state_ids \in Seq(States)
    BY IdsAre
  <2>3. \A s \in Known : khms_states[s] \in
          [seeds : Seq(DOMAIN queue), selected_seed_index : Nat, paths : Nat,
           paths_discovered : Nat]
    BY IdsAre DEF StateRec
  <2>4. was_fuzzed_map \in Seq(Seq({Unreachable, 0, 1}))
    BY TablesWell DEF MapWell, Row
  <2> QED
    BY <1>1, <2>1, <2>2, <2>3, <2>4 DEF TypeRest, TypeOK
<1>3. IsInjective(state_ids) /\ Range(state_ids) = Known /\ (state_ids # <<>> => state_ids[1] = 0)
  BY TablesWell DEF IdsWell, Known
<1>4. Len(was_fuzzed_map) = Max({1, Len(state_ids)})
  BY TablesWell, IdsAre, MaxOne DEF MapWell
<1>5. state_ids # <<>> => selected_state_index < Len(state_ids)
  <2> HAVE state_ids # <<>>
  <2>1. Len(state_ids) \in Nat /\ Len(state_ids) # 0
    BY IdsAre, EmptySeq
  <2> QED
    BY <1>1, <2>1 DEF TypeRest
<1>6. \A s \in Known : khms_states[s].seeds # <<>> =>
        khms_states[s].selected_seed_index < Len(khms_states[s].seeds)
  <2> SUFFICES ASSUME NEW s \in Known, khms_states[s].seeds # <<>>
      PROVE  khms_states[s].selected_seed_index < Len(khms_states[s].seeds)
    OBVIOUS
  <2>1. TurnInside(khms_states[s])
    BY TablesWell DEF StatesWell, Known
  <2>2. Len(khms_states[s].seeds) \in Nat /\ Len(khms_states[s].seeds) # 0
    BY IdsAre, EmptySeq
  <2> QED
    BY <2>1, <2>2 DEF TurnInside
<1> QED
  BY <1>2, <1>3, <1>4, <1>5, <1>6, IdsAre DEF TablesAgree

LEMMA InvGivesLearned ==
  ASSUME IInv
  PROVE  MachineObserved /\ SeedsMarked /\ PathsBalance
<1>1. MachineInv /\ MarksInv /\ CountsInv
  BY DEF IInv
<1>2. MachineObserved
  <2> SUFFICES ASSUME pc # "learn"
      PROVE  ipsm = UNION {TransitionsOf(queue[k].codes) : k \in DOMAIN queue} /\ Nodes = Known
    BY DEF MachineObserved
  <2>1. \A k \in DOMAIN queue : Drawn(k) = TransitionsOf(queue[k].codes)
    BY DEF Drawn, DrawnTo, TransitionsOf
  <2>2. \A t : t \in ipsm <=> \E k \in DOMAIN queue : t \in TransitionsOf(queue[k].codes)
    BY <1>1, <2>1 DEF MachineInv
  <2> QED
    BY <1>1, <2>2 DEF MachineInv
<1>3. SeedsMarked
  BY <1>1 DEF MarksInv, SeedsMarked, SeedOf
<1>4. PathsBalance
  BY <1>1 DEF CountsInv, PathsBalance, Passed, FoundEntries, FoundTotal, Known
<1> QED
  BY <1>2, <1>3, <1>4

LEMMA InvGivesRounds ==
  ASSUME IInv
  PROVE  RoundsAreSound
<1>1. MachineInv /\ RoundInv
  BY DEF IInv
<1>2. M2Follows
  BY <1>1 DEF RoundInv, FollowsTarget, M2Follows
<1>3. OnlyEmptyStartFails
  <2> SUFFICES ASSUME pc \in {"aborted", "crashed"}, NEW k \in DOMAIN queue
      PROVE  Len(queue[k].codes) <= 1
    BY DEF OnlyEmptyStartFails
  <2>1. Nodes = {} /\ \A t \in Drawn(k) : t \in ipsm
    BY <1>1 DEF MachineInv
  <2>2. ipsm = {}
    BY <2>1 DEF Nodes
  <2>3. Drawn(k) = {} /\ DrawnTo(k) = Len(queue[k].codes)
    BY <2>1, <2>2 DEF DrawnTo
  <2>4. Len(queue[k].codes) \in Nat
    BY EntriesAre
  <2>5. ASSUME Len(queue[k].codes) > 1 PROVE FALSE
    <3>1. 2 \in 2..DrawnTo(k)
      BY <2>3, <2>4, <2>5
    <3>2. <<queue[k].codes[2 - 1], queue[k].codes[2]>> \in Drawn(k)
      BY <3>1 DEF Drawn
    <3> QED
      BY <2>3, <3>2
  <2> QED
    BY <2>4, <2>5
<1> QED
  BY <1>2, <1>3 DEF RoundsAreSound

\* The graph has the transitions of every response that was looked at and no
\* others, although sequences known up to the length of their loops are not
\* looked at; the tables of states agree, an entry is a seed of exactly the
\* states its regions end in, and paths and paths_discovered count entries,
\* however seeds, rounds and saved cases interleave (afl-fuzz.c:578-602, 887-1115).
THEOREM LearnsAlways == Spec => []LearnsAll
<1>1. IInv => LearnsAll
  BY InvGivesTypes, InvGivesLearned DEF LearnsAll
<1> QED
  BY <1>1, SchedulerInvariant, PTL

\* A round that reaches its mutations has a region M2 that is not empty, inside
\* the entry and behind regions that lead to the target state, also after cases
\* were saved during the round; and the program ends itself only when no
\* response of the dry run had a transition (afl-fuzz.c:1028, 6006-6066).
THEOREM RoundsAlwaysSound == Spec => []RoundsAreSound
<1>1. IInv => RoundsAreSound
  BY InvGivesRounds
<1> QED
  BY <1>1, SchedulerInvariant, PTL
=============================================================================
