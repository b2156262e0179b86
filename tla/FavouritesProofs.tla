-------------------------- MODULE FavouritesProofs --------------------------
(***************************************************************************)
(* The reference counts of the kept traces, the cover of the bitmap by the *)
(* favoured entries, and the states of the winners, for every size of the  *)
(* bitmap and of the queue.                                                *)
(***************************************************************************)
EXTENDS Favourites, FiniteSetTheorems, TLAPS

(* The scoring loop: the entry it scores has won no byte that is still to   *)
(* come, and the trace it keeps is the one that is being scored.            *)
ScoringInv ==
  /\ q \in Nat \ {0}
  /\ pc \in {"dry_run", "annotate"} => q <= Seeds + 1
  /\ pc = "annotate" => q <= Seeds
  /\ Seeds <= Len(queue)
  /\ pc = "dry_run" => \A b \in Bytes : top_rated[b] < q
  /\ pc = "annotate" => \A b \in Bytes : top_rated[b] < q + 1
  /\ pc = "score" =>
       /\ q \in Entries
       /\ queue[q].is_initial_seed => q <= Seeds /\ \A b \in Bytes : top_rated[b] < q + 1
       /\ ~queue[q].is_initial_seed => queue_cur \in Entries
       /\ trace_bits # {}
       /\ queue[q].trace_mini \in {NoTrace, trace_bits}
       /\ \A b \in Bytes : b >= i => top_rated[b] # q
  /\ pc = "fuzz" => queue_cur \in Entries

Covered(b) == \E k \in Entries : queue[k].favored /\ b \in queue[k].trace_mini

FavouredForAByte ==
  \A k \in Entries : queue[k].favored /\ ~queue[k].is_initial_seed => WonBy(k) # {}

(* The culling loop: the bytes it has passed, and those it has taken out of *)
(* temp_v, are covered if they were won.                                    *)
CullingInv ==
  /\ pc = "cull" =>
       /\ ~score_changed
       /\ FavouredForAByte
       /\ \A b \in Bytes : top_rated[b] # None /\ (b < i \/ b \notin temp_v) => Covered(b)
  /\ pc # "cull" /\ ~score_changed =>
       /\ FavouredForAByte
       /\ \A b \in Bytes : top_rated[b] # None => Covered(b)

(* The dry run: a seed that was not annotated yet has no states; the one    *)
(* that is scored has won its bytes or lost them to one that has some.      *)
DryRunInv ==
  /\ pc \in {"dry_run", "annotate"} \/ (pc = "score" /\ queue[q].is_initial_seed) =>
       \A k \in Entries : k >= q => queue[k].unique_state_count = 0
  /\ pc = "dry_run" => \A b \in Bytes : \A k \in contenders[b] : k < q
  /\ pc = "annotate" => queue[q].is_initial_seed
  /\ pc = "annotate" \/ (pc = "score" /\ queue[q].is_initial_seed) =>
       \A b \in Bytes : \A k \in contenders[b] :
         /\ k < q + 1
         /\ k = q /\ top_rated[b] # q =>
              top_rated[b] # None /\ queue[top_rated[b]].unique_state_count > 0

Inv ==
  /\ TypeOK /\ RefCounts /\ WonBytesTraced /\ ScoringInv /\ CullingInv
  /\ DryRunInv /\ MostStatesWin

LEMMA BytesFinite ==
  /\ IsFiniteSet(Bytes)
  /\ \A S \in SUBSET Bytes : IsFiniteSet(S) /\ Cardinality(S) \in Nat
<1>1. IsFiniteSet(Bytes)
  BY FS_Interval, MapAssumption DEF Bytes
<1> QED
  BY <1>1, FS_Subset, FS_CardinalityType

-----------------------------------------------------------------------------
(* Types *)

(* Entries stay entries when a field is assigned.                           *)
LEMMA FieldTypes ==
  ASSUME NEW e \in Entry
  PROVE  /\ \A b \in BOOLEAN : /\ [e EXCEPT !.cal_failed = b] \in Entry
                               /\ [e EXCEPT !.is_initial_seed = b] \in Entry
                               /\ [e EXCEPT !.was_fuzzed = b] \in Entry
                               /\ [e EXCEPT !.favored = b] \in Entry
                               /\ [e EXCEPT !.fs_redundant = b] \in Entry
         /\ \A n \in Nat : /\ [e EXCEPT !.unique_state_count = n] \in Entry
                           /\ [e EXCEPT !.factor = n] \in Entry
         /\ e.favored \in BOOLEAN /\ e.is_initial_seed \in BOOLEAN
         /\ e.tc_ref \in Nat /\ e.trace_mini \in (SUBSET Bytes) \cup {NoTrace}
<1>1. \A b \in BOOLEAN : [e EXCEPT !.cal_failed = b] \in Entry
  BY DEF Entry
<1>2. \A b \in BOOLEAN : [e EXCEPT !.is_initial_seed = b] \in Entry
  BY DEF Entry
<1>3. \A b \in BOOLEAN : [e EXCEPT !.was_fuzzed = b] \in Entry
  BY DEF Entry
<1>4. \A b \in BOOLEAN : [e EXCEPT !.favored = b] \in Entry
  BY DEF Entry
<1>5. \A b \in BOOLEAN : [e EXCEPT !.fs_redundant = b] \in Entry
  BY DEF Entry
<1>6. \A n \in Nat : [e EXCEPT !.unique_state_count = n] \in Entry
  BY DEF Entry
<1>7. \A n \in Nat : [e EXCEPT !.factor = n] \in Entry
  BY DEF Entry
<1>8. /\ e.favored \in BOOLEAN /\ e.is_initial_seed \in BOOLEAN
      /\ e.tc_ref \in Nat /\ e.trace_mini \in (SUBSET Bytes) \cup {NoTrace}
  BY DEF Entry
<1> QED
  BY <1>1, <1>2, <1>3, <1>4, <1>5, <1>6, <1>7, <1>8

LEMMA NewEntryType ==
  ASSUME NEW s \in States
  PROVE  /\ NewEntry(s) \in Entry
         /\ \A n \in Nat : [NewEntry(s) EXCEPT !.unique_state_count = n] \in Entry
<1>1. NoTrace \in (SUBSET Bytes) \cup {NoTrace}
  OBVIOUS
<1>2. NewEntry(s) \in Entry
  <2> HIDE DEF NoTrace
  <2> QED
    BY <1>1 DEF NewEntry, Entry
<1> QED
  BY <1>2, FieldTypes

LEMMA ReferenceTypes ==
  ASSUME NEW e \in Entry, NEW trace \in SUBSET Bytes
  PROVE  /\ Win(e, trace) \in Entry
         /\ e.tc_ref # 0 => Release(e) \in Entry
<1> DEFINE T == (SUBSET Bytes) \cup {NoTrace}
           kept == IF e.trace_mini = NoTrace THEN trace ELSE e.trace_mini
           left == IF e.tc_ref = 1 THEN NoTrace ELSE e.trace_mini
<1>1. kept \in T /\ left \in T /\ e.tc_ref \in Nat
  BY FieldTypes
<1>2. /\ Win(e, trace) = [e EXCEPT !.tc_ref = e.tc_ref + 1, !.trace_mini = kept]
      /\ Release(e) = [e EXCEPT !.tc_ref = e.tc_ref - 1, !.trace_mini = left]
  BY DEF Win, Release
<1> HIDE DEF T, kept, left
<1>3. \A n \in Nat, t \in T : [e EXCEPT !.tc_ref = n, !.trace_mini = t] \in Entry
  BY DEF Entry, T
<1>4. e.tc_ref + 1 \in Nat /\ (e.tc_ref # 0 => e.tc_ref - 1 \in Nat)
  BY <1>1
<1> QED
  BY <1>1, <1>2, <1>3, <1>4

LEMMA QueueUpdate ==
  ASSUME TypeOK, NEW k \in Entries, NEW e \in Entry
  PROVE  [queue EXCEPT ![k] = e] \in Seq(Entry) /\ DOMAIN [queue EXCEPT ![k] = e] = Entries
BY DEF TypeOK, Entries

LEMMA EntryAt == TypeOK => /\ \A k \in Entries : queue[k] \in Entry
                           /\ Entries = 1..Len(queue) /\ Len(queue) \in Nat
BY DEF TypeOK, Entries

LEMMA InitType == Init => TypeOK
<1> SUFFICES ASSUME Init PROVE TypeOK
  OBVIOUS
<1>1. NewEntry(0) \in Entry
  BY StatesAssumption, NewEntryType
<1>2. queue \in Seq(Entry) /\ Entries = 1..Seeds
  BY <1>1, BoundsAssumption DEF Init, Entries
<1>3. was_fuzzed_map \in [States -> [Entries -> {0, 1, Unreachable}]]
  BY <1>2 DEF Init
<1>4. top_rated \in [Bytes -> Entries \cup {None}] /\ queue_cur \in Entries \cup {None}
  BY DEF Init
<1>5. pending_favored \in 0..(Wrap - 1) /\ i \in 1..(MapSize + 1)
  BY BoundsAssumption, MapAssumption DEF Init
<1>6. /\ pc = "dry_run" /\ score_changed \in BOOLEAN /\ target_state_id \in States
      /\ q \in Nat /\ trace_bits \subseteq Bytes /\ temp_v \subseteq Bytes
  BY StatesAssumption DEF Init
<1>7. contenders \in [Bytes -> SUBSET Entries]
  BY DEF Init
<1> QED
  BY <1>2, <1>3, <1>4, <1>5, <1>6, <1>7 DEF TypeOK

LEMMA CalibratedType ==
  ASSUME NEW entries \in Seq(Entry), NEW done, q' \in DOMAIN entries,
         done \in {"annotate", "fuzz"}, TypeOK, Calibrated(entries, done)
  PROVE  /\ queue' \in Seq(Entry) /\ DOMAIN queue' = DOMAIN entries
         /\ pc' \in {"annotate", "fuzz", "score"}
         /\ trace_bits' \subseteq Bytes /\ i' \in 1..(MapSize + 1)
<1>1. CASE /\ queue' = [entries EXCEPT ![q'].cal_failed = TRUE]
           /\ pc' = done /\ UNCHANGED <<trace_bits, i>>
  <2>0. entries[q'] \in Entry
    OBVIOUS
  <2>1. [entries[q'] EXCEPT !.cal_failed = TRUE] \in Entry
    BY <2>0, FieldTypes
  <2> QED
    BY <1>1, <2>1 DEF TypeOK
<1>2. ASSUME NEW f \in Factors, NEW trace \in (SUBSET Bytes) \ {{}},
             queue' = [entries EXCEPT ![q'].factor = f],
             trace_bits' = trace, i' = 1, pc' = "score"
      PROVE  /\ queue' \in Seq(Entry) /\ DOMAIN queue' = DOMAIN entries
             /\ pc' \in {"annotate", "fuzz", "score"}
             /\ trace_bits' \subseteq Bytes /\ i' \in 1..(MapSize + 1)
  <2>0. entries[q'] \in Entry /\ f \in Nat
    BY FactorsAssumption
  <2>1. [entries[q'] EXCEPT !.factor = f] \in Entry
    BY <2>0, FieldTypes
  <2> QED
    BY <1>2, <2>1, MapAssumption
<1> QED
  BY <1>1, <1>2 DEF Calibrated

(* Reaches gives the new entry a cell in every row. *)
LEMMA ReachesType ==
  ASSUME NEW n \in Nat, NEW seen \in SUBSET States, NEW reached \in SUBSET States, TypeOK,
         n \in Entries \/ n = Len(queue) + 1, Reaches(n, seen, reached)
  PROVE  was_fuzzed_map' \in [States -> [Entries \cup {n} -> {0, 1, Unreachable}]]
<1> SUFFICES ASSUME NEW s \in States
             PROVE  was_fuzzed_map'[s] \in [Entries \cup {n} -> {0, 1, Unreachable}]
  BY DEF Reaches
<1> DEFINE old == was_fuzzed_map[s]
           row == IF n \in DOMAIN old THEN old ELSE Append(old, Unreachable)
<1>1. old \in [Entries -> {0, 1, Unreachable}] /\ Entries = 1..Len(queue) /\ Len(queue) \in Nat
  BY DEF TypeOK, Entries
<1>2. row \in [Entries \cup {n} -> {0, 1, Unreachable}]
  <2>1. CASE n \in Entries
    BY <1>1, <2>1
  <2>2. CASE n = Len(queue) + 1
    <3>1. old \in Seq({0, 1, Unreachable}) /\ Len(old) = Len(queue)
      BY <1>1
    <3>2. n \notin DOMAIN old
      BY <1>1, <2>2
    <3> HIDE DEF old
    <3>3. Append(old, Unreachable) \in [1..(Len(queue) + 1) -> {0, 1, Unreachable}]
      <4> DEFINE S == {0, 1, Unreachable}
      <4>1. Unreachable \in S
        OBVIOUS
      <4> HIDE DEF S
      <4>2. Append(old, Unreachable) \in Seq(S) /\ Len(Append(old, Unreachable)) = Len(old) + 1
        BY <3>1, <4>1 DEF S
      <4> DEFINE new == Append(old, Unreachable)
      <4>3. new \in Seq(S) /\ Len(new) = Len(queue) + 1
        BY <3>1, <4>2
      <4> HIDE DEF new
      <4>4. new \in [1..(Len(queue) + 1) -> S]
        BY <4>3
      <4> QED
        BY <4>4 DEF S, new
    <3> QED
      BY <1>1, <2>2, <3>1, <3>2, <3>3
  <2> QED
    BY <2>1, <2>2
<1>3. was_fuzzed_map'[s] = IF s \in reached THEN [row EXCEPT ![n] = 0] ELSE row
  BY DEF Reaches
<1> HIDE DEF row
<1> QED
  BY <1>2, <1>3

(* What a byte that changes hands does to the two entries. *)
LEMMA HandedType ==
  ASSUME TypeOK, NEW old \in Entries \cup {None}, NEW new \in Entries, old # new,
         old # None => queue[old].tc_ref # 0
  PROVE  /\ Handed(old, new) \in Seq(Entry) /\ DOMAIN Handed(old, new) = Entries
         /\ old # None => Handed(old, new)[old] = Release(queue[old])
         /\ Handed(old, new)[new] = Win(queue[new], trace_bits)
         /\ \A k \in Entries \ {old, new} : Handed(old, new)[k] = queue[k]
<1>0. Entries = 1..Len(queue) /\ Len(queue) \in Nat /\ queue \in Seq(Entry) /\ None \notin Entries
  BY DEF TypeOK, Entries, None
<1> DEFINE freed == IF old = None THEN queue
                    ELSE [queue EXCEPT ![old] = Release(queue[old])]
<1>1. /\ freed \in Seq(Entry) /\ DOMAIN freed = Entries
      /\ old # None => freed[old] = Release(queue[old])
      /\ \A k \in Entries \ {old} : freed[k] = queue[k]
  <2>1. CASE old = None
    BY <1>0, <2>1 DEF Entries
  <2>2. CASE old # None
    <3>1. queue[old] \in Entry
      BY <1>0, <2>2
    <3>2. Release(queue[old]) \in Entry
      BY <3>1, <2>2, ReferenceTypes
    <3> QED
      BY <1>0, <2>2, <3>2 DEF Entries
  <2> QED
    BY <2>1, <2>2
<1>2. Handed(old, new) = [freed EXCEPT ![new] = Win(freed[new], trace_bits)]
  BY DEF Handed
<1> HIDE DEF freed
<1>3. freed[new] = queue[new] /\ queue[new] \in Entry
  BY <1>0, <1>1
<1>4. Win(queue[new], trace_bits) \in Entry
  BY <1>3, ReferenceTypes DEF TypeOK
<1> QED
  BY <1>0, <1>1, <1>2, <1>3, <1>4

(* The winner of a byte has a reference. *)
LEMMA WinnerHasReference ==
  ASSUME TypeOK, RefCounts, NEW b \in Bytes, top_rated[b] # None
  PROVE  top_rated[b] \in Entries /\ queue[top_rated[b]].tc_ref # 0
<1>1. b \in WonBy(top_rated[b]) /\ top_rated[b] \in Entries
  BY DEF WonBy, TypeOK
<1>2. IsFiniteSet(WonBy(top_rated[b]))
  BY BytesFinite DEF WonBy
<1> QED
  BY <1>1, <1>2, FS_EmptySet DEF RefCounts

LEMMA TypeStep ==
  ASSUME TypeOK, RefCounts, ScoringInv, [Next]_vars
  PROVE  TypeOK'
<1> USE DEF main, scores
<1>0. Entries = 1..Len(queue) /\ Len(queue) \in Nat /\ queue \in Seq(Entry)
  BY DEF TypeOK, Entries
<1>1. CASE DryRunCalibrate
  <2> DEFINE entries == [queue EXCEPT ![q].is_initial_seed = TRUE]
  <2>1. q \in Entries
    BY <1>0, <1>1, BoundsAssumption DEF DryRunCalibrate, ScoringInv
  <2>2. [queue[q] EXCEPT !.is_initial_seed = TRUE] \in Entry
    BY <2>1, EntryAt, FieldTypes
  <2>3. entries \in Seq(Entry) /\ DOMAIN entries = Entries
    BY <2>1, <2>2, QueueUpdate
  <2>4. q' = q /\ Calibrated(entries, "annotate")
    BY <1>1 DEF DryRunCalibrate
  <2> HIDE DEF entries
  <2>5. /\ queue' \in Seq(Entry) /\ DOMAIN queue' = Entries
        /\ pc' \in {"annotate", "fuzz", "score"}
        /\ trace_bits' \subseteq Bytes /\ i' \in 1..(MapSize + 1)
    BY <2>1, <2>3, <2>4, CalibratedType
  <2> QED
    BY <1>1, <2>4, <2>5 DEF DryRunCalibrate, TypeOK, Entries
<1>2. CASE DryRunAnnotate
  <2>1. PICK seen \in SUBSET States, reached \in SUBSET States :
          /\ Reaches(q, seen, reached)
          /\ queue' = [queue EXCEPT ![q].unique_state_count = Cardinality(seen)]
    BY <1>2 DEF DryRunAnnotate
  <2>2. Cardinality(seen) \in Nat
    BY FS_Subset, FS_CardinalityType, StatesAssumption
  <2>3. q \in Entries
    BY <1>0, <1>2, BoundsAssumption DEF DryRunAnnotate, ScoringInv
  <2>4. [queue[q] EXCEPT !.unique_state_count = Cardinality(seen)] \in Entry
    BY <2>2, <2>3, EntryAt, FieldTypes
  <2>5. queue' \in Seq(Entry) /\ DOMAIN queue' = Entries
    BY <2>1, <2>3, <2>4, QueueUpdate
  <2>6. was_fuzzed_map' \in [States -> [Entries -> {0, 1, Unreachable}]]
    BY <2>1, <2>3, ReachesType, Entries \cup {q} = Entries DEF TypeOK
  <2> QED
    BY <1>2, <2>3, <2>5, <2>6 DEF DryRunAnnotate, TypeOK, Entries
<1>3. CASE ScoreByte
  <2>0. contenders' \in [Bytes -> SUBSET Entries]
    <3>1. i \in Bytes /\ q \in Entries
      BY <1>3 DEF ScoreByte, ScoringInv, TypeOK, Bytes
    <3> QED
      BY <1>3, <3>1 DEF ScoreByte, TypeOK
  <2>1. CASE Wins(i)
    <3>1. i \in Bytes /\ q \in Entries /\ top_rated[i] \in Entries \cup {None}
      BY <1>3 DEF ScoreByte, ScoringInv, TypeOK, Bytes
    <3>2. top_rated[i] # q
      BY <1>3, <3>1 DEF ScoreByte, ScoringInv, TypeOK
    <3>3. queue' = Handed(top_rated[i], q)
      BY <1>3, <2>1 DEF ScoreByte
    <3>4. queue' \in Seq(Entry) /\ DOMAIN queue' = Entries
      BY <3>1, <3>2, <3>3, HandedType, WinnerHasReference
    <3>5. top_rated' \in [Bytes -> Entries \cup {None}]
      BY <1>3, <2>1, <3>1 DEF ScoreByte, TypeOK
    <3>6. score_changed' \in BOOLEAN
      BY <1>3, <2>1 DEF ScoreByte, TypeOK, Changes
    <3> QED
      BY <1>3, <2>0, <3>1, <3>4, <3>5, <3>6, MapAssumption DEF ScoreByte, TypeOK, Entries
  <2> QED
    BY <1>3, <2>0, <2>1, MapAssumption DEF ScoreByte, TypeOK, Entries
<1>4. CASE ScoreEnd
  BY <1>4, MapAssumption DEF ScoreEnd, TypeOK, Entries
<1>5. CASE CullStart
  <2>1. target_state_id' \in States /\ pc' \in {"cull", "select"}
    BY <1>5 DEF CullStart, TypeOK
  <2>2. CASE score_changed
    <3>1. queue' = [k \in DOMAIN queue |->
                     IF queue[k].is_initial_seed THEN queue[k]
                     ELSE [queue[k] EXCEPT !.favored = FALSE]]
      BY <1>5, <2>2 DEF CullStart
    <3>2. \A k \in Entries : [queue[k] EXCEPT !.favored = FALSE] \in Entry /\ queue[k] \in Entry
      BY EntryAt, FieldTypes
    <3>3. queue' \in Seq(Entry) /\ DOMAIN queue' = Entries
      BY <1>0, <3>1, <3>2 DEF Entries
    <3>4. pending_favored' \in 0..(Wrap - 1) /\ i' \in 1..(MapSize + 1) /\ temp_v' = Bytes
      BY <1>5, <2>2, MapAssumption, BoundsAssumption DEF CullStart
    <3> QED
      BY <1>5, <2>1, <2>2, <3>3, <3>4 DEF CullStart, TypeOK, Entries
  <2>3. CASE ~score_changed
    BY <1>5, <2>1, <2>3 DEF CullStart, TypeOK, Entries
  <2> QED
    BY <2>2, <2>3
<1>6. CASE CullByte
  <2>1. i \in Bytes
    BY <1>6 DEF CullByte, TypeOK, Bytes
  <2>2. CASE top_rated[i] # None /\ i \in temp_v
    <3>1. top_rated[i] \in Entries
      BY <2>1, <2>2 DEF TypeOK
    <3>2. [queue[top_rated[i]] EXCEPT !.favored = TRUE] \in Entry
      BY <3>1, EntryAt, FieldTypes
    <3>3. queue' = [queue EXCEPT ![top_rated[i]].favored = TRUE]
      BY <1>6, <2>2 DEF CullByte
    <3>4. queue' \in Seq(Entry) /\ DOMAIN queue' = Entries
      BY <3>1, <3>2, <3>3, QueueUpdate
    <3>5. pending_favored' \in 0..(Wrap - 1)
      <4>1. pending_favored' \in {(pending_favored + 1) % Wrap, pending_favored}
        BY <1>6, <2>2 DEF CullByte
      <4> QED
        BY <4>1, BoundsAssumption DEF TypeOK
    <3>6. temp_v' \subseteq Bytes
      BY <1>6, <2>2 DEF CullByte, TypeOK
    <3>7. i' \in 1..(MapSize + 1)
      BY <1>6, <2>1, MapAssumption DEF CullByte, Bytes
    <3> QED
      BY <1>6, <3>4, <3>5, <3>6, <3>7 DEF CullByte, TypeOK, Entries
  <2>3. CASE ~(top_rated[i] # None /\ i \in temp_v)
    BY <1>6, <2>1, <2>3, MapAssumption DEF CullByte, TypeOK, Entries, Bytes
  <2> QED
    BY <2>2, <2>3
<1>7. CASE CullEnd
  <2>1. \A k \in Entries : [queue[k] EXCEPT !.fs_redundant = ~queue[k].favored] \in Entry
    BY EntryAt, FieldTypes
  <2>2. queue' \in Seq(Entry) /\ DOMAIN queue' = Entries
    BY <1>0, <1>7, <2>1 DEF CullEnd, Entries
  <2> QED
    BY <1>7, <2>2, MapAssumption DEF CullEnd, TypeOK, Entries
<1>8. CASE Select
  BY <1>8 DEF Select, Reachable, TypeOK, Entries
<1>9. CASE Save
  <2> DEFINE n == Len(queue) + 1
  <2>1. q' = n /\ n \in Nat /\ 1..n = Entries \cup {n}
    BY <1>0, <1>9 DEF Save
  <2>2. PICK seen \in SUBSET States, reached \in SUBSET States :
          /\ Reaches(q', seen, reached)
          /\ Calibrated(Append(queue, [NewEntry(target_state_id) EXCEPT
                          !.unique_state_count = Cardinality(seen)]), "fuzz")
    BY <1>9 DEF Save
  <2>3. Cardinality(seen) \in Nat
    BY FS_Subset, FS_CardinalityType, StatesAssumption
  <2> DEFINE e == [NewEntry(target_state_id) EXCEPT !.unique_state_count = Cardinality(seen)]
  <2>4. e \in Entry
    BY <2>3, NewEntryType DEF TypeOK
  <2> HIDE DEF e
  <2> DEFINE entries == Append(queue, e)
  <2>5. entries \in Seq(Entry) /\ DOMAIN entries = 1..n
    BY <1>0, <2>4
  <2>6. Calibrated(entries, "fuzz")
    BY <2>2 DEF e
  <2> HIDE DEF entries
  <2>7. /\ queue' \in Seq(Entry) /\ DOMAIN queue' = 1..n
        /\ pc' \in {"annotate", "fuzz", "score"}
        /\ trace_bits' \subseteq Bytes /\ i' \in 1..(MapSize + 1)
    BY <2>1, <2>5, <2>6, CalibratedType
  <2>8. was_fuzzed_map' \in [States -> [1..n -> {0, 1, Unreachable}]]
    BY <2>1, <2>2, ReachesType
  <2>9. UNCHANGED <<scores, pending_favored, target_state_id, queue_cur, temp_v>>
    BY <1>9 DEF Save
  <2> HIDE DEF n
  <2>10. /\ top_rated' \in [Bytes -> 1..n \cup {None}] /\ queue_cur' \in 1..n \cup {None}
         /\ contenders' \in [Bytes -> SUBSET (1..n)]
    BY <2>1, <2>9 DEF TypeOK
  <2> QED
    BY <2>1, <2>7, <2>8, <2>9, <2>10 DEF TypeOK, Entries
<1>10. CASE Abandon
  <2>1. queue_cur \in Entries
    BY <1>10 DEF Abandon, ScoringInv
  <2>2. CASE Done(queue[queue_cur])
    BY <1>10, <2>2 DEF Abandon, TypeOK, Entries
  <2>3. CASE ~Done(queue[queue_cur])
    <3>1. [queue[queue_cur] EXCEPT !.was_fuzzed = TRUE] \in Entry
      BY <2>1, EntryAt, FieldTypes
    <3>2. queue' \in Seq(Entry) /\ DOMAIN queue' = Entries
      <4>1. queue' = [queue EXCEPT ![queue_cur] = [queue[queue_cur] EXCEPT !.was_fuzzed = TRUE]]
        BY <1>10, <2>3 DEF Abandon
      <4> QED
        BY <2>1, <3>1, <4>1, QueueUpdate
    <3>3. was_fuzzed_map' \in [States -> [Entries -> {0, 1, Unreachable}]]
      <4>1. /\ was_fuzzed_map' = [was_fuzzed_map EXCEPT ![target_state_id][queue_cur] = 1]
            /\ was_fuzzed_map \in [States -> [Entries -> {0, 1, Unreachable}]]
            /\ target_state_id \in States
        BY <1>10, <2>3 DEF Abandon, TypeOK
      <4> QED
        BY <2>1, <4>1
    <3>4. pending_favored' \in 0..(Wrap - 1)
      <4>1. pending_favored' \in {Decremented(pending_favored), pending_favored}
        BY <1>10, <2>3 DEF Abandon
      <4> QED
        BY <4>1, BoundsAssumption DEF Decremented, TypeOK
    <3> QED
      BY <1>10, <3>2, <3>3, <3>4 DEF Abandon, TypeOK, Entries
  <2> QED
    BY <2>2, <2>3
<1>11. CASE UNCHANGED vars
  BY <1>11 DEF vars, TypeOK, Entries
<1> QED
  BY <1>1, <1>2, <1>3, <1>4, <1>5, <1>6, <1>7, <1>8, <1>9, <1>10, <1>11 DEF Next

-----------------------------------------------------------------------------
(* References *)

(* What most steps leave as it is in an entry.                              *)
SameReferences(e, f) == f.tc_ref = e.tc_ref /\ f.trace_mini = e.trace_mini

SameFlags(e, f) == f.favored = e.favored /\ f.is_initial_seed = e.is_initial_seed

EntriesKept ==
  /\ Entries \subseteq Entries'
  /\ \A k \in Entries : SameReferences(queue[k], queue'[k]) /\ SameFlags(queue[k], queue'[k])
  /\ \A k \in Entries' \ Entries :
       queue'[k].tc_ref = 0 /\ queue'[k].trace_mini = NoTrace /\ queue'[k].favored = FALSE

ReferencesKept ==
  /\ Entries \subseteq Entries'
  /\ \A k \in Entries : SameReferences(queue[k], queue'[k])
  /\ \A k \in Entries' \ Entries : queue'[k].tc_ref = 0 /\ queue'[k].trace_mini = NoTrace

(* Assigning another field keeps the references and the flags.              *)
LEMMA SameFields ==
  ASSUME NEW e \in Entry, NEW v
  PROVE  /\ SameReferences(e, e) /\ SameFlags(e, e)
         /\ SameReferences(e, [e EXCEPT !.cal_failed = v])
         /\ SameFlags(e, [e EXCEPT !.cal_failed = v])
         /\ SameReferences(e, [e EXCEPT !.factor = v])
         /\ SameFlags(e, [e EXCEPT !.factor = v])
         /\ SameReferences(e, [e EXCEPT !.unique_state_count = v])
         /\ SameFlags(e, [e EXCEPT !.unique_state_count = v])
         /\ SameReferences(e, [e EXCEPT !.was_fuzzed = v])
         /\ SameFlags(e, [e EXCEPT !.was_fuzzed = v])
         /\ SameReferences(e, [e EXCEPT !.fs_redundant = v])
         /\ SameFlags(e, [e EXCEPT !.fs_redundant = v])
         /\ SameReferences(e, [e EXCEPT !.favored = v])
         /\ [e EXCEPT !.favored = v].is_initial_seed = e.is_initial_seed
         /\ [e EXCEPT !.favored = v].favored = v
         /\ SameReferences(e, [e EXCEPT !.is_initial_seed = v])
         /\ [e EXCEPT !.is_initial_seed = v].is_initial_seed = v
         /\ [e EXCEPT !.is_initial_seed = v].favored = e.favored
BY DEF Entry, SameReferences, SameFlags

LEMMA CalibratedKeeps ==
  ASSUME NEW entries \in Seq(Entry), NEW done, q' \in DOMAIN entries, Calibrated(entries, done)
  PROVE  /\ DOMAIN queue' = DOMAIN entries
         /\ \A k \in DOMAIN entries : /\ SameReferences(entries[k], queue'[k])
                                      /\ SameFlags(entries[k], queue'[k])
<1>0. \A k \in DOMAIN entries : entries[k] \in Entry
  OBVIOUS
<1>1. CASE queue' = [entries EXCEPT ![q'].cal_failed = TRUE]
  BY <1>0, <1>1, SameFields
<1>2. ASSUME NEW f \in Factors, queue' = [entries EXCEPT ![q'].factor = f]
      PROVE  /\ DOMAIN queue' = DOMAIN entries
             /\ \A k \in DOMAIN entries : /\ SameReferences(entries[k], queue'[k])
                                          /\ SameFlags(entries[k], queue'[k])
  BY <1>0, <1>2, SameFields
<1> QED
  BY <1>1, <1>2 DEF Calibrated

(* A new entry is appended without references.                              *)
LEMMA SaveKeeps ==
  ASSUME TypeOK, Save
  PROVE  EntriesKept /\ q' = Len(queue) + 1 /\ Entries' = Entries \cup {q'}
         /\ queue'[q'].is_initial_seed = FALSE
<1>0. Entries = 1..Len(queue) /\ Len(queue) \in Nat /\ queue \in Seq(Entry)
  BY DEF TypeOK, Entries
<1> DEFINE n == Len(queue) + 1
<1>1. q' = n /\ n \in Nat /\ 1..n = Entries \cup {n} /\ n \notin Entries
  BY <1>0 DEF Save
<1>2. PICK seen \in SUBSET States :
        Calibrated(Append(queue, [NewEntry(target_state_id) EXCEPT
                        !.unique_state_count = Cardinality(seen)]), "fuzz")
  BY DEF Save
<1>3. Cardinality(seen) \in Nat
  BY FS_Subset, FS_CardinalityType, StatesAssumption
<1> DEFINE e == [NewEntry(target_state_id) EXCEPT !.unique_state_count = Cardinality(seen)]
<1>4. e \in Entry
  BY <1>3, NewEntryType DEF TypeOK
<1>5. e.tc_ref = 0 /\ e.trace_mini = NoTrace /\ e.favored = FALSE /\ e.is_initial_seed = FALSE
  BY DEF NewEntry
<1> HIDE DEF e
<1> DEFINE entries == Append(queue, e)
<1>6. /\ entries \in Seq(Entry) /\ DOMAIN entries = 1..n
      /\ entries[n] = e /\ \A k \in Entries : entries[k] = queue[k]
  BY <1>0, <1>4
<1>7. Calibrated(entries, "fuzz")
  BY <1>2 DEF e
<1> HIDE DEF entries
<1>8. /\ DOMAIN queue' = 1..n
      /\ \A k \in 1..n : SameReferences(entries[k], queue'[k]) /\ SameFlags(entries[k], queue'[k])
  BY <1>1, <1>6, <1>7, CalibratedKeeps
<1> HIDE DEF n
<1>9. Entries' = Entries \cup {n}
  BY <1>1, <1>8 DEF Entries
<1>10. \A k \in Entries : SameReferences(queue[k], queue'[k]) /\ SameFlags(queue[k], queue'[k])
  BY <1>1, <1>6, <1>8
<1>11. SameReferences(e, queue'[n]) /\ SameFlags(e, queue'[n])
  BY <1>1, <1>6, <1>8
<1>12. /\ queue'[n].tc_ref = 0 /\ queue'[n].trace_mini = NoTrace
       /\ queue'[n].favored = FALSE /\ queue'[n].is_initial_seed = FALSE
  BY <1>5, <1>11 DEF SameReferences, SameFlags
<1> QED
  BY <1>1, <1>9, <1>10, <1>12 DEF EntriesKept, n

(* The dry run calibrates an entry and marks it as a seed.                  *)
LEMMA DryRunCalibrateKeeps ==
  ASSUME TypeOK, ScoringInv, DryRunCalibrate
  PROVE  /\ q \in Entries /\ q' = q /\ Entries' = Entries
         /\ \A k \in Entries : /\ SameReferences(queue[k], queue'[k])
                               /\ queue'[k].favored = queue[k].favored
                               /\ k # q => SameFlags(queue[k], queue'[k])
         /\ queue'[q].is_initial_seed = TRUE
<1>0. Entries = 1..Len(queue) /\ Len(queue) \in Nat /\ queue \in Seq(Entry)
  BY DEF TypeOK, Entries
<1> DEFINE entries == [queue EXCEPT ![q].is_initial_seed = TRUE]
<1>1. q \in Entries
  BY <1>0, BoundsAssumption DEF DryRunCalibrate, ScoringInv
<1>2. [queue[q] EXCEPT !.is_initial_seed = TRUE] \in Entry /\ \A k \in Entries : queue[k] \in Entry
  BY <1>1, EntryAt, FieldTypes
<1>3. entries \in Seq(Entry) /\ DOMAIN entries = Entries
  BY <1>1, <1>2, QueueUpdate
<1>4. /\ \A k \in Entries : /\ SameReferences(queue[k], entries[k])
                            /\ entries[k].favored = queue[k].favored
                            /\ k # q => SameFlags(queue[k], entries[k])
      /\ entries[q].is_initial_seed = TRUE
  <2>1. entries[q] = [queue[q] EXCEPT !.is_initial_seed = TRUE]
        /\ \A k \in Entries \ {q} : entries[k] = queue[k]
    BY <1>0, <1>1 DEF Entries
  <2>2. \A k \in Entries : SameReferences(queue[k], queue[k]) /\ SameFlags(queue[k], queue[k])
    BY DEF SameReferences, SameFlags
  <2> DEFINE e == [queue[q] EXCEPT !.is_initial_seed = TRUE]
  <2>3. /\ SameReferences(queue[q], e) /\ e.favored = queue[q].favored
        /\ e.is_initial_seed = TRUE
    BY <1>1, <1>2, SameFields
  <2>4. entries[q] = e
    BY <2>1
  <2> HIDE DEF entries, e
  <2> QED
    BY <1>1, <2>1, <2>2, <2>3, <2>4 DEF SameFlags
<1>5. q' = q /\ Calibrated(entries, "annotate")
  BY DEF DryRunCalibrate
<1> HIDE DEF entries
<1>6. /\ DOMAIN queue' = Entries
      /\ \A k \in Entries : SameReferences(entries[k], queue'[k]) /\ SameFlags(entries[k], queue'[k])
  BY <1>1, <1>3, <1>5, CalibratedKeeps
<1> QED
  BY <1>1, <1>4, <1>5, <1>6 DEF Entries, SameReferences, SameFlags

(* Culling changes no more than the flag favored.                           *)
LEMMA CullStartKeeps ==
  ASSUME TypeOK, CullStart, score_changed
  PROVE  /\ Entries' = Entries
         /\ \A k \in Entries : /\ SameReferences(queue[k], queue'[k])
                               /\ queue'[k].is_initial_seed = queue[k].is_initial_seed
                               /\ ~queue[k].is_initial_seed => queue'[k].favored = FALSE
<1>1. queue' = [k \in DOMAIN queue |->
                 IF queue[k].is_initial_seed THEN queue[k]
                 ELSE [queue[k] EXCEPT !.favored = FALSE]]
  BY DEF CullStart
<1>2. SUFFICES ASSUME NEW k \in Entries
               PROVE  /\ SameReferences(queue[k], queue'[k])
                      /\ queue'[k].is_initial_seed = queue[k].is_initial_seed
                      /\ ~queue[k].is_initial_seed => queue'[k].favored = FALSE
  BY <1>1 DEF Entries
<1>3. queue[k] \in Entry
  BY EntryAt
<1>4. CASE queue[k].is_initial_seed
  <2>1. queue'[k] = queue[k]
    BY <1>1, <1>2, <1>4 DEF Entries
  <2> QED
    BY <2>1, <1>4 DEF SameReferences
<1>5. CASE ~queue[k].is_initial_seed
  <2> DEFINE e == [queue[k] EXCEPT !.favored = FALSE]
  <2>1. /\ SameReferences(queue[k], e) /\ e.is_initial_seed = queue[k].is_initial_seed
        /\ e.favored = FALSE
    BY <1>3, SameFields
  <2>2. queue'[k] = e
    BY <1>1, <1>2, <1>5 DEF Entries
  <2> HIDE DEF e
  <2> QED
    BY <2>1, <2>2
<1> QED
  BY <1>4, <1>5

LEMMA CullByteKeeps ==
  ASSUME TypeOK, NEW w \in Entries, queue' = [queue EXCEPT ![w].favored = TRUE]
  PROVE  /\ Entries' = Entries
         /\ \A k \in Entries : /\ SameReferences(queue[k], queue'[k])
                               /\ queue'[k].is_initial_seed = queue[k].is_initial_seed
                               /\ k # w => queue'[k].favored = queue[k].favored
         /\ queue'[w].favored = TRUE
<1> DEFINE e == [queue[w] EXCEPT !.favored = TRUE]
<1>1. /\ SameReferences(queue[w], e) /\ e.is_initial_seed = queue[w].is_initial_seed
      /\ e.favored = TRUE
  BY EntryAt, SameFields
<1>2. queue'[w] = e /\ DOMAIN queue' = Entries /\ \A k \in Entries \ {w} : queue'[k] = queue[k]
  BY DEF Entries
<1> HIDE DEF e
<1> QED
  BY <1>1, <1>2 DEF Entries, SameReferences

(* The other steps, but for ScoreByte, keep every entry.                    *)
LEMMA OthersKeep ==
  ASSUME TypeOK, ScoringInv,
         \/ DryRunAnnotate \/ ScoreEnd \/ (CullStart /\ ~score_changed)
         \/ CullEnd \/ Select \/ Abandon \/ UNCHANGED vars
  PROVE  Entries' = Entries /\ EntriesKept
<1>0. Entries = 1..Len(queue) /\ Len(queue) \in Nat /\ queue \in Seq(Entry)
      /\ \A k \in Entries : queue[k] \in Entry
  BY DEF TypeOK, Entries
<1>1. CASE queue' = queue
  BY <1>0, <1>1 DEF Entries, EntriesKept, SameReferences, SameFlags
<1>2. ASSUME NEW j \in Entries, NEW e, SameReferences(queue[j], e), SameFlags(queue[j], e),
             queue' = [queue EXCEPT ![j] = e]
      PROVE  Entries' = Entries /\ EntriesKept
  <2>1. Entries' = Entries /\ queue'[j] = e /\ \A k \in Entries \ {j} : queue'[k] = queue[k]
    BY <1>2 DEF Entries
  <2> QED
    BY <1>2, <2>1 DEF EntriesKept, SameReferences, SameFlags
<1>3. CASE DryRunAnnotate
  <2>1. PICK seen \in SUBSET States :
          queue' = [queue EXCEPT ![q].unique_state_count = Cardinality(seen)]
    BY <1>3 DEF DryRunAnnotate
  <2>2. q \in Entries
    BY <1>0, <1>3, BoundsAssumption DEF DryRunAnnotate, ScoringInv
  <2> DEFINE e == [queue[q] EXCEPT !.unique_state_count = Cardinality(seen)]
  <2>3. SameReferences(queue[q], e) /\ SameFlags(queue[q], e)
    BY <1>0, <2>2, SameFields
  <2>4. queue' = [queue EXCEPT ![q] = e]
    BY <2>1
  <2> HIDE DEF e
  <2> QED
    BY <1>2, <2>2, <2>3, <2>4
<1>4. CASE CullEnd
  <2>1. queue' = [k \in Entries |-> [queue[k] EXCEPT !.fs_redundant = ~queue[k].favored]]
    BY <1>4 DEF CullEnd, Entries
  <2>2. ASSUME NEW k \in Entries
        PROVE  SameReferences(queue[k], queue'[k]) /\ SameFlags(queue[k], queue'[k])
    <3> DEFINE e == [queue[k] EXCEPT !.fs_redundant = ~queue[k].favored]
    <3>1. SameReferences(queue[k], e) /\ SameFlags(queue[k], e)
      BY <1>0, SameFields
    <3>2. queue'[k] = e
      BY <2>1
    <3> HIDE DEF e
    <3> QED
      BY <3>1, <3>2
  <2>3. Entries' = Entries
    BY <2>1 DEF Entries
  <2> QED
    BY <2>2, <2>3 DEF EntriesKept
<1>5. CASE Abandon
  <2>1. CASE Done(queue[queue_cur])
    BY <1>1, <1>5, <2>1 DEF Abandon
  <2>2. CASE ~Done(queue[queue_cur])
    <3>1. queue_cur \in Entries
      BY <1>5 DEF Abandon, ScoringInv
    <3> DEFINE e == [queue[queue_cur] EXCEPT !.was_fuzzed = TRUE]
    <3>2. SameReferences(queue[queue_cur], e) /\ SameFlags(queue[queue_cur], e)
      BY <1>0, <3>1, SameFields
    <3>3. queue' = [queue EXCEPT ![queue_cur] = e]
      BY <1>5, <2>2 DEF Abandon
    <3> HIDE DEF e
    <3> QED
      BY <1>2, <3>1, <3>2, <3>3
  <2> QED
    BY <2>1, <2>2
<1> QED
  BY <1>1, <1>3, <1>4, <1>5 DEF ScoreEnd, CullStart, Select, vars

(* Steps that change neither references nor winners. *)
LEMMA KeptReferences ==
  ASSUME TypeOK, TypeOK', RefCounts, WonBytesTraced, ReferencesKept, UNCHANGED top_rated
  PROVE  RefCounts' /\ WonBytesTraced'
<1>1. \A k \in Entries' \ Entries : WonBy(k) = {}
  BY DEF TypeOK, WonBy, Entries, None
<1>2. \A k : WonBy(k)' = WonBy(k)
  BY DEF WonBy
<1>3. Cardinality({}) = 0
  BY FS_EmptySet
<1>4. RefCounts'
  BY <1>1, <1>2, <1>3 DEF RefCounts, ReferencesKept, SameReferences
<1>5. WonBytesTraced'
  BY <1>1, <1>2 DEF WonBytesTraced, ReferencesKept, SameReferences
<1> QED
  BY <1>4, <1>5

(* A byte is won: the counts follow the sets of bytes.                      *)
LEMMA ScoreByteReferences ==
  ASSUME TypeOK, RefCounts, WonBytesTraced, ScoringInv, ScoreByte, Wins(i)
  PROVE  /\ Entries' = Entries /\ RefCounts' /\ WonBytesTraced'
         /\ queue'[q].trace_mini = trace_bits
<1> DEFINE old == top_rated[i]
           WonNext(k) == {b \in Bytes : top_rated'[b] = k}
<1>0. Entries = 1..Len(queue) /\ Len(queue) \in Nat /\ \A k \in Entries : queue[k] \in Entry
  BY DEF TypeOK, Entries
<1>1. i \in Bytes /\ q \in Entries /\ old \in Entries \cup {None} /\ old # q /\ q # None
      /\ trace_bits \subseteq Bytes /\ i \in trace_bits
  BY <1>0 DEF ScoreByte, ScoringInv, TypeOK, Bytes, Wins, None
<1>2. old # None => queue[old].tc_ref # 0
  BY <1>1, WinnerHasReference
<1>3. queue' = Handed(old, q) /\ top_rated' = [top_rated EXCEPT ![i] = q]
  BY DEF ScoreByte
<1> HIDE DEF old, WonNext
<1>4. /\ Entries' = Entries
      /\ old # None => queue'[old] = Release(queue[old])
      /\ queue'[q] = Win(queue[q], trace_bits)
      /\ \A k \in Entries \ {old, q} : queue'[k] = queue[k]
  BY <1>1, <1>2, <1>3, HandedType DEF Entries
<1>5. /\ WonNext(q) = WonBy(q) \cup {i} /\ i \notin WonBy(q)
      /\ old # None => WonNext(old) = WonBy(old) \ {i} /\ i \in WonBy(old)
      /\ \A k \in Entries \ {old, q} : WonNext(k) = WonBy(k)
  <2>1. top_rated[i] = old /\ i \notin WonBy(q)
    BY <1>1 DEF WonBy, old
  <2>2. \A b \in Bytes : top_rated'[b] = IF b = i THEN q ELSE top_rated[b]
    BY <1>1, <1>3 DEF TypeOK
  <2>3. WonNext(q) = WonBy(q) \cup {i}
    BY <1>1, <2>2 DEF WonBy, WonNext
  <2>4. WonNext(old) = WonBy(old) \ {i} /\ i \in WonBy(old)
    BY <1>1, <2>1, <2>2 DEF WonBy, WonNext
  <2>5. \A k \in Entries \ {old, q} : WonNext(k) = WonBy(k)
    BY <1>1, <2>1, <2>2 DEF WonBy, WonNext
  <2> QED
    BY <2>1, <2>3, <2>4, <2>5
<1>6. NoTrace \notin SUBSET Bytes /\ trace_bits # NoTrace
  BY <1>1 DEF NoTrace, Bytes
<1>7. \A k \in Entries : /\ IsFiniteSet(WonBy(k)) /\ Cardinality(WonBy(k)) \in Nat
                         /\ queue[k].tc_ref = Cardinality(WonBy(k))
                         /\ (queue[k].trace_mini = NoTrace) <=> (WonBy(k) = {})
                         /\ WonBy(k) \subseteq queue[k].trace_mini
                         /\ queue[k].tc_ref \in Nat
  BY BytesFinite DEF WonBy, RefCounts, WonBytesTraced
<1>8. /\ queue'[q].tc_ref = queue[q].tc_ref + 1
      /\ queue'[q].trace_mini = IF queue[q].trace_mini = NoTrace THEN trace_bits
                                ELSE queue[q].trace_mini
  BY <1>0, <1>1, <1>4 DEF Win, Entry
<1>9. /\ queue'[q].tc_ref = Cardinality(WonNext(q))
      /\ queue'[q].trace_mini = trace_bits
      /\ WonNext(q) \subseteq queue'[q].trace_mini /\ WonNext(q) # {}
  <2>1. queue[q].trace_mini \in {NoTrace, trace_bits}
    BY DEF ScoringInv, ScoreByte
  <2>2. queue'[q].trace_mini = trace_bits
    BY <1>8, <2>1
  <2>3. WonBy(q) \subseteq trace_bits
    BY <1>1, <1>7, <2>1
  <2>4. Cardinality(WonBy(q) \cup {i}) = Cardinality(WonBy(q)) + 1
    BY <1>1, <1>5, <1>7, FS_AddElement
  <2> QED
    BY <1>1, <1>5, <1>7, <1>8, <2>2, <2>3, <2>4
<1>10. ASSUME old # None
       PROVE  /\ queue'[old].tc_ref = Cardinality(WonNext(old))
              /\ queue'[old].trace_mini = NoTrace <=> WonNext(old) = {}
              /\ WonNext(old) \subseteq queue'[old].trace_mini
  <2>1. old \in Entries
    BY <1>1, <1>10
  <2>2. /\ queue'[old].tc_ref = queue[old].tc_ref - 1
        /\ queue'[old].trace_mini = IF queue[old].tc_ref = 1 THEN NoTrace
                                    ELSE queue[old].trace_mini
    BY <1>0, <1>4, <1>10, <2>1 DEF Release, Entry
  <2> DEFINE W == WonBy(old) \ {i}
  <2>3. IsFiniteSet(W) /\ Cardinality(W) = Cardinality(WonBy(old)) - 1
    BY <1>5, <1>7, <1>10, <2>1, FS_RemoveElement
  <2>4. Cardinality(W) = 0 <=> W = {}
    BY <2>3, FS_EmptySet
  <2>5. WonNext(old) = W /\ W \subseteq WonBy(old) /\ WonBy(old) # {}
    BY <1>5, <1>10
  <2> HIDE DEF W
  <2>6. queue[old].tc_ref = Cardinality(WonBy(old)) /\ queue[old].tc_ref \in Nat
    BY <1>7, <2>1
  <2>7. queue[old].tc_ref = 1 <=> W = {}
    BY <2>3, <2>4, <2>6
  <2>8. queue[old].trace_mini # NoTrace /\ W \subseteq queue[old].trace_mini
    BY <1>7, <2>1, <2>5
  <2> QED
    BY <2>2, <2>3, <2>5, <2>6, <2>7, <2>8
<1>11. \A k \in Entries \ {old, q} :
         /\ queue'[k].tc_ref = Cardinality(WonNext(k))
         /\ queue'[k].trace_mini = NoTrace <=> WonNext(k) = {}
         /\ WonNext(k) \subseteq queue'[k].trace_mini
  BY <1>4, <1>5, <1>7
<1>12. None \notin Entries
  BY <1>0 DEF None
<1>13. \A k \in Entries : /\ queue'[k].tc_ref = Cardinality(WonNext(k))
                          /\ queue'[k].trace_mini = NoTrace <=> WonNext(k) = {}
                          /\ WonNext(k) \subseteq queue'[k].trace_mini
  <2> TAKE k \in Entries
  <2>1. CASE k = q
    BY <1>6, <1>9, <2>1
  <2>2. CASE k = old
    BY <1>10, <1>12, <2>2
  <2>3. CASE k \notin {old, q}
    BY <1>11, <2>3
  <2> QED
    BY <2>1, <2>2, <2>3
<1>14. RefCounts' /\ WonBytesTraced'
  <2>1. \A k : WonNext(k) = WonBy(k)'
    BY DEF WonBy, WonNext
  <2> QED
    BY <1>4, <1>13, <2>1 DEF RefCounts, WonBytesTraced
<1> QED
  BY <1>4, <1>9, <1>14

LEMMA ReferencesStep ==
  ASSUME TypeOK, TypeOK', RefCounts, WonBytesTraced, ScoringInv, [Next]_vars
  PROVE  RefCounts' /\ WonBytesTraced'
<1>1. CASE ScoreByte
  <2>1. CASE Wins(i)
    BY <1>1, <2>1, ScoreByteReferences
  <2>2. CASE ~Wins(i)
    <3>1. UNCHANGED <<queue, top_rated>>
      BY <1>1, <2>2 DEF ScoreByte
    <3> QED
      BY <3>1, KeptReferences DEF ReferencesKept, SameReferences, Entries
  <2> QED
    BY <2>1, <2>2
<1>2. CASE ~ScoreByte
  <2>1. UNCHANGED top_rated
    BY <1>2 DEF Next, vars, scores, DryRunCalibrate, DryRunAnnotate, ScoreEnd, CullStart,
                CullByte, CullEnd, Select, Save, Abandon
  <2>2. EntriesKept => ReferencesKept
    BY DEF EntriesKept, ReferencesKept
  <2>3. ReferencesKept
    <3>1. CASE DryRunCalibrate
      BY <3>1, DryRunCalibrateKeeps DEF ReferencesKept
    <3>2. CASE CullStart /\ score_changed
      BY <3>2, CullStartKeeps DEF ReferencesKept
    <3>3. CASE CullByte
      <4>1. CASE top_rated[i] # None /\ i \in temp_v
        <5>1. top_rated[i] \in Entries
          BY <3>3, <4>1 DEF TypeOK
        <5>2. queue' = [queue EXCEPT ![top_rated[i]].favored = TRUE]
          BY <3>3, <4>1 DEF CullByte
        <5> QED
          BY <5>1, <5>2, CullByteKeeps DEF ReferencesKept
      <4>2. CASE ~(top_rated[i] # None /\ i \in temp_v)
        BY <3>3, <4>2 DEF CullByte, ReferencesKept, SameReferences, Entries
      <4> QED
        BY <4>1, <4>2
    <3>4. CASE Save
      BY <2>2, <3>4, SaveKeeps
    <3>5. CASE \/ DryRunAnnotate \/ ScoreEnd \/ (CullStart /\ ~score_changed)
               \/ CullEnd \/ Select \/ Abandon \/ UNCHANGED vars
      BY <2>2, <3>5, OthersKeep
    <3>6. CASE Next
      <4>1. CASE CullStart
        BY <3>2, <3>5, <4>1
      <4>2. CASE DryRunAnnotate \/ ScoreEnd \/ CullEnd \/ Select \/ Abandon
        BY <3>5, <4>2
      <4> QED
        BY <1>2, <3>1, <3>3, <3>4, <3>6, <4>1, <4>2 DEF Next
    <3>7. CASE UNCHANGED vars
      BY <3>5, <3>7
    <3> QED
      BY <3>6, <3>7
  <2> QED
    BY <2>1, <2>3, KeptReferences
<1> QED
  BY <1>1, <1>2

-----------------------------------------------------------------------------
(* The loops *)

LEMMA ScoringStep ==
  ASSUME TypeOK, TypeOK', RefCounts, WonBytesTraced, ScoringInv, [Next]_vars
  PROVE  ScoringInv'
<1> USE DEF main, scores
<1>0. /\ Entries = 1..Len(queue) /\ Len(queue) \in Nat
      /\ Entries' = 1..Len(queue') /\ Len(queue') \in Nat
      /\ \A b \in Bytes : top_rated[b] \in Nat /\ top_rated[b] <= Len(queue)
      /\ i \in Nat /\ Seeds \in Nat
  <2>1. queue \in Seq(Entry) /\ queue' \in Seq(Entry)
        /\ top_rated \in [Bytes -> Entries \cup {None}] /\ i \in 1..(MapSize + 1)
    BY DEF TypeOK
  <2>2. /\ Entries = 1..Len(queue) /\ Len(queue) \in Nat
        /\ Entries' = 1..Len(queue') /\ Len(queue') \in Nat
    BY <2>1 DEF Entries
  <2> QED
    BY <2>1, <2>2, BoundsAssumption, MapAssumption DEF None
<1>1. CASE DryRunCalibrate
  <2>1. /\ q \in Entries /\ q' = q /\ Entries' = Entries
        /\ SameReferences(queue[q], queue'[q]) /\ queue'[q].is_initial_seed = TRUE
    BY <1>1, DryRunCalibrateKeeps
  <2>2. UNCHANGED <<top_rated, queue_cur>> /\ Len(queue') = Len(queue) /\ pc = "dry_run"
        /\ q <= Seeds
    BY <1>0, <1>1, <2>1 DEF DryRunCalibrate
  <2>3. \/ pc' = "annotate"
        \/ pc' = "score" /\ i' = 1 /\ trace_bits' # {}
    BY <1>1 DEF DryRunCalibrate, Calibrated
  <2>4. queue'[q].trace_mini = NoTrace
    <3>1. WonBy(q) = {}
      BY <1>0, <2>2 DEF ScoringInv, WonBy
    <3> QED
      BY <2>1, <3>1 DEF RefCounts, SameReferences
  <2>5. \A b \in Bytes : top_rated[b] < q /\ top_rated[b] # q /\ top_rated[b] < q + 1
    BY <1>0, <2>1, <2>2 DEF ScoringInv
  <2> QED
    BY <1>0, <2>1, <2>2, <2>3, <2>4, <2>5 DEF ScoringInv
<1>2. CASE DryRunAnnotate
  <2>1. EntriesKept /\ Entries' = Entries
    BY <1>2, OthersKeep
  <2>2. pc = "annotate" /\ pc' = "dry_run" /\ q' = q + 1 /\ UNCHANGED top_rated
        /\ Len(queue') = Len(queue)
    BY <1>0, <1>2, <2>1 DEF DryRunAnnotate
  <2> QED
    BY <1>0, <2>2 DEF ScoringInv
<1>3. CASE ScoreByte
  <2>1. pc = "score" /\ pc' = "score" /\ i' = i + 1 /\ UNCHANGED <<q, trace_bits, queue_cur>>
        /\ i \in Bytes /\ q \in Entries
    BY <1>0, <1>3 DEF ScoreByte, ScoringInv, Bytes, TypeOK
  <2>2. CASE Wins(i)
    <3>1. Entries' = Entries /\ queue'[q].trace_mini = trace_bits
      BY <1>3, <2>2, ScoreByteReferences
    <3>2. top_rated' = [top_rated EXCEPT ![i] = q] /\ queue' = Handed(top_rated[i], q)
      BY <1>3, <2>2 DEF ScoreByte
    <3>3. queue'[q].is_initial_seed = queue[q].is_initial_seed
      <4>1. top_rated[i] # q /\ top_rated[i] \in Entries \cup {None}
        BY <1>0, <2>1 DEF ScoringInv, TypeOK
      <4>2. queue'[q] = Win(queue[q], trace_bits)
        BY <2>1, <3>2, <4>1, HandedType, WinnerHasReference
      <4> QED
        BY <2>1, <4>2, EntryAt DEF Win, Entry
    <3>4. \A b \in Bytes : top_rated'[b] = IF b = i THEN q ELSE top_rated[b]
      BY <2>1, <3>2 DEF TypeOK
    <3>5. \A b \in Bytes : b >= i' => top_rated'[b] # q
      <4>1. \A b \in Bytes : b >= i + 1 => b >= i /\ b # i
        BY <1>0 DEF Bytes
      <4> QED
        BY <2>1, <3>4, <4>1 DEF ScoringInv
    <3>6. queue[q].is_initial_seed => q <= Seeds /\ \A b \in Bytes : top_rated'[b] < q + 1
      BY <1>0, <2>1, <3>4 DEF ScoringInv
    <3>7. Seeds <= Len(queue')
      BY <1>0, <3>1 DEF ScoringInv
    <3> QED
      BY <1>0, <2>1, <3>1, <3>3, <3>5, <3>6, <3>7 DEF ScoringInv
  <2>3. CASE ~Wins(i)
    <3>1. UNCHANGED <<queue, top_rated>>
      BY <1>3, <2>3 DEF ScoreByte
    <3>2. \A b \in Bytes : b >= i + 1 => b >= i
      BY <1>0 DEF Bytes
    <3> QED
      BY <2>1, <3>1, <3>2 DEF ScoringInv, Entries
  <2> QED
    BY <2>2, <2>3
<1>4. CASE ScoreEnd
  BY <1>0, <1>4 DEF ScoreEnd, ScoringInv, Entries
<1>5. CASE CullStart
  <2>1. Entries' = Entries
    BY <1>5, CullStartKeeps, OthersKeep
  <2>2. UNCHANGED <<q, top_rated>> /\ pc' \in {"cull", "select"}
    BY <1>5 DEF CullStart
  <2> QED
    BY <1>0, <2>1, <2>2 DEF ScoringInv
<1>6. CASE CullByte
  <2>1. Entries' = Entries
    BY <1>6 DEF CullByte, Entries
  <2>2. UNCHANGED <<q, top_rated, pc>> /\ pc = "cull"
    BY <1>6 DEF CullByte
  <2> QED
    BY <1>0, <2>1, <2>2 DEF ScoringInv
<1>7. CASE CullEnd
  <2>1. Entries' = Entries
    BY <1>7, OthersKeep
  <2>2. UNCHANGED <<q, top_rated>> /\ pc' = "select"
    BY <1>7 DEF CullEnd
  <2> QED
    BY <1>0, <2>1, <2>2 DEF ScoringInv
<1>8. CASE Select
  <2>1. UNCHANGED <<q, top_rated, queue>> /\ pc' \in {"fuzz", "loop"}
        /\ (pc' = "fuzz" => queue_cur' \in Entries)
    BY <1>8 DEF Select, Reachable, Entries
  <2> QED
    BY <2>1 DEF ScoringInv, Entries
<1>9. CASE Save
  <2>1. EntriesKept /\ q' = Len(queue) + 1 /\ Entries' = Entries \cup {q'}
        /\ queue'[q'].is_initial_seed = FALSE
    BY <1>9, SaveKeeps
  <2>2. UNCHANGED <<top_rated, queue_cur>> /\ queue_cur \in Entries
    BY <1>9 DEF Save, ScoringInv
  <2>3. \/ pc' = "fuzz"
        \/ pc' = "score" /\ i' = 1 /\ trace_bits' # {}
    BY <1>9 DEF Save, Calibrated
  <2>4. queue'[q'].trace_mini = NoTrace
    BY <1>0, <2>1 DEF EntriesKept
  <2>5. Seeds <= Len(queue')
    BY <1>0, <2>1 DEF ScoringInv
  <2>6. \A b \in Bytes : top_rated[b] # q'
    BY <1>0, <2>1
  <2> QED
    BY <1>0, <2>1, <2>2, <2>3, <2>4, <2>5, <2>6 DEF ScoringInv
<1>10. CASE Abandon
  <2>1. Entries' = Entries
    BY <1>10, OthersKeep
  <2>2. UNCHANGED <<q, top_rated>> /\ pc' = "loop"
    BY <1>10 DEF Abandon
  <2> QED
    BY <1>0, <2>1, <2>2 DEF ScoringInv
<1>11. CASE UNCHANGED vars
  BY <1>11 DEF vars, ScoringInv, Entries
<1> QED
  BY <1>1, <1>2, <1>3, <1>4, <1>5, <1>6, <1>7, <1>8, <1>9, <1>10, <1>11 DEF Next

(* What is favoured and covered stays so while no byte changes hands.       *)
LEMMA KeptCover ==
  ASSUME TypeOK, TypeOK', UNCHANGED top_rated, ReferencesKept,
         \A k \in Entries : queue[k].favored => queue'[k].favored
  PROVE  \A b \in Bytes : Covered(b) => Covered(b)'
BY DEF Covered, ReferencesKept, SameReferences

LEMMA KeptFavoured ==
  ASSUME FavouredForAByte, UNCHANGED top_rated,
         \A k \in Entries' : queue'[k].favored /\ ~queue'[k].is_initial_seed =>
            \/ k \in Entries /\ queue[k].favored /\ ~queue[k].is_initial_seed
            \/ WonBy(k) # {}
  PROVE  FavouredForAByte'
BY DEF FavouredForAByte, WonBy

LEMMA CullingStep ==
  ASSUME TypeOK, TypeOK', RefCounts, WonBytesTraced, ScoringInv, CullingInv, [Next]_vars
  PROVE  CullingInv'
<1> USE DEF main, scores
<1>0. EntriesKept => ReferencesKept
  BY DEF EntriesKept, ReferencesKept
<1>1. ASSUME EntriesKept, UNCHANGED <<top_rated, score_changed>>, pc # "cull", pc' # "cull"
      PROVE  CullingInv'
  <2>1. FavouredForAByte => FavouredForAByte'
    BY <1>1, KeptFavoured DEF EntriesKept, SameFlags
  <2>2. \A b \in Bytes : Covered(b) => Covered(b)'
    BY <1>0, <1>1, KeptCover DEF EntriesKept, SameFlags
  <2> QED
    BY <1>1, <2>1, <2>2 DEF CullingInv
<1>2. CASE DryRunCalibrate
  <2>1. /\ Entries' = Entries
        /\ \A k \in Entries : /\ SameReferences(queue[k], queue'[k])
                              /\ queue'[k].favored = queue[k].favored
                              /\ k # q => SameFlags(queue[k], queue'[k])
        /\ queue'[q].is_initial_seed = TRUE
    BY <1>2, DryRunCalibrateKeeps
  <2>2. UNCHANGED <<top_rated, score_changed>> /\ pc # "cull" /\ pc' # "cull"
    BY <1>2 DEF DryRunCalibrate, Calibrated
  <2>3. FavouredForAByte => FavouredForAByte'
    BY <2>1, <2>2, KeptFavoured DEF SameFlags
  <2>4. \A b \in Bytes : Covered(b) => Covered(b)'
    BY <2>1, <2>2, KeptCover DEF ReferencesKept
  <2> QED
    BY <2>2, <2>3, <2>4 DEF CullingInv
<1>3. CASE ScoreByte
  <2>1. pc' = "score" /\ pc = "score"
    BY <1>3 DEF ScoreByte
  <2>2. CASE Wins(i)
    <3>1. score_changed'
      BY <1>3, <2>2 DEF ScoreByte, Changes
    <3> QED
      BY <2>1, <3>1 DEF CullingInv
  <2>3. CASE ~Wins(i)
    <3>1. UNCHANGED <<queue, top_rated, score_changed>>
      BY <1>3, <2>3 DEF ScoreByte
    <3>2. EntriesKept
      BY <3>1 DEF EntriesKept, SameReferences, SameFlags, Entries
    <3> QED
      BY <1>1, <2>1, <3>1, <3>2
  <2> QED
    BY <2>2, <2>3
<1>4. CASE CullStart
  <2>1. CASE score_changed
    <3>1. /\ Entries' = Entries
          /\ \A k \in Entries : /\ SameReferences(queue[k], queue'[k])
                                /\ queue'[k].is_initial_seed = queue[k].is_initial_seed
                                /\ ~queue[k].is_initial_seed => queue'[k].favored = FALSE
      BY <1>4, <2>1, CullStartKeeps
    <3>2. pc' = "cull" /\ ~score_changed' /\ i' = 1 /\ temp_v' = Bytes
      BY <1>4, <2>1 DEF CullStart
    <3>3. FavouredForAByte'
      BY <3>1 DEF FavouredForAByte
    <3>4. \A b \in Bytes : ~(b < 1) /\ b \in Bytes
      BY MapAssumption DEF Bytes
    <3> QED
      BY <3>2, <3>3, <3>4 DEF CullingInv, Bytes
  <2>2. CASE ~score_changed
    <3>1. EntriesKept
      BY <1>4, <2>2, OthersKeep
    <3>2. UNCHANGED top_rated /\ score_changed' = FALSE /\ score_changed = FALSE
          /\ pc # "cull" /\ pc' # "cull"
      BY <1>4, <2>2 DEF CullStart, TypeOK
    <3> QED
      BY <1>1, <3>1, <3>2
  <2> QED
    BY <2>1, <2>2
<1>5. CASE CullByte
  <2>0. /\ pc = "cull" /\ pc' = "cull" /\ i' = i + 1 /\ i \in Bytes
        /\ UNCHANGED <<top_rated, score_changed>>
        /\ ~score_changed /\ FavouredForAByte
        /\ \A b \in Bytes : top_rated[b] # None /\ (b < i \/ b \notin temp_v) => Covered(b)
    BY <1>5 DEF CullByte, CullingInv, TypeOK, Bytes
  <2>1. \A b \in Bytes : b < i + 1 => b < i \/ b = i
    BY <2>0 DEF Bytes
  <2>2. CASE top_rated[i] # None /\ i \in temp_v
    <3> DEFINE w == top_rated[i]
    <3>1. w \in Entries /\ i \in WonBy(w)
      BY <2>0, <2>2 DEF TypeOK, WonBy
    <3>2. queue' = [queue EXCEPT ![w].favored = TRUE] /\ temp_v' = temp_v \ queue[w].trace_mini
      BY <1>5, <2>2 DEF CullByte
    <3> HIDE DEF w
    <3>3. /\ Entries' = Entries
          /\ \A k \in Entries : /\ SameReferences(queue[k], queue'[k])
                                /\ queue'[k].is_initial_seed = queue[k].is_initial_seed
                                /\ k # w => queue'[k].favored = queue[k].favored
          /\ queue'[w].favored = TRUE
      BY <3>1, <3>2, CullByteKeeps
    <3>4. FavouredForAByte'
      <4>1. WonBy(w) # {}
        BY <3>1
      <4> QED
        BY <2>0, <3>3, <4>1, KeptFavoured
    <3>5. \A b \in Bytes : Covered(b) => Covered(b)'
      <4>1. ReferencesKept /\ \A k \in Entries : queue[k].favored => queue'[k].favored
        BY <3>3 DEF ReferencesKept
      <4> QED
        BY <2>0, <4>1, KeptCover
    <3>6. \A b \in Bytes : b \in queue[w].trace_mini => Covered(b)'
      BY <3>1, <3>3 DEF Covered, SameReferences
    <3>7. i \in queue[w].trace_mini
      BY <3>1 DEF WonBytesTraced
    <3>8. \A b \in Bytes : top_rated[b] # None /\ (b < i + 1 \/ b \notin temp_v')
                             => Covered(b)'
      BY <2>0, <2>1, <3>2, <3>5, <3>6, <3>7
    <3> QED
      BY <2>0, <3>4, <3>8 DEF CullingInv
  <2>3. CASE ~(top_rated[i] # None /\ i \in temp_v)
    <3>1. UNCHANGED <<queue, temp_v>>
      BY <1>5, <2>3 DEF CullByte
    <3>2. FavouredForAByte' /\ \A b \in Bytes : Covered(b) => Covered(b)'
      BY <2>0, <3>1 DEF FavouredForAByte, Covered, Entries, WonBy
    <3>3. \A b \in Bytes : top_rated[b] # None /\ (b < i + 1 \/ b \notin temp_v) => Covered(b)
      BY <2>0, <2>1, <2>3
    <3> QED
      BY <2>0, <3>1, <3>2, <3>3 DEF CullingInv
  <2> QED
    BY <2>2, <2>3
<1>6. CASE CullEnd
  <2>1. EntriesKept /\ UNCHANGED <<top_rated, score_changed>>
    BY <1>6, OthersKeep DEF CullEnd
  <2>2. pc = "cull" /\ pc' = "select" /\ i > MapSize
    BY <1>6 DEF CullEnd
  <2>3. FavouredForAByte /\ ~score_changed /\ \A b \in Bytes : top_rated[b] # None => Covered(b)
    <3>1. \A b \in Bytes : b < i
      BY <2>2, MapAssumption DEF TypeOK, Bytes
    <3> QED
      BY <2>2, <3>1 DEF CullingInv
  <2>4. FavouredForAByte'
    BY <2>1, <2>3, KeptFavoured DEF EntriesKept, SameFlags
  <2>5. \A b \in Bytes : Covered(b) => Covered(b)'
    BY <1>0, <2>1, KeptCover DEF EntriesKept, SameFlags
  <2> QED
    BY <2>1, <2>2, <2>3, <2>4, <2>5 DEF CullingInv
<1>7. CASE Save
  <2>1. EntriesKept
    BY <1>7, SaveKeeps
  <2>2. UNCHANGED <<top_rated, score_changed>> /\ pc # "cull" /\ pc' # "cull"
    BY <1>7 DEF Save, Calibrated
  <2> QED
    BY <1>1, <2>1, <2>2
<1>8. CASE DryRunAnnotate \/ ScoreEnd \/ Select \/ Abandon
  <2>1. EntriesKept
    BY <1>8, OthersKeep
  <2>2. UNCHANGED <<top_rated, score_changed>> /\ pc # "cull" /\ pc' # "cull"
    BY <1>8 DEF DryRunAnnotate, ScoreEnd, Select, Abandon
  <2> QED
    BY <1>1, <2>1, <2>2
<1>9. CASE UNCHANGED vars
  BY <1>9 DEF vars, CullingInv, FavouredForAByte, Covered, WonBy, Entries
<1> QED
  BY <1>2, <1>3, <1>4, <1>5, <1>6, <1>7, <1>8, <1>9 DEF Next

-----------------------------------------------------------------------------
(* The states of the winners *)

(* What a step leaves of the rank of an entry: a seed stays one.            *)
SameRank(e, f) ==
  /\ f.unique_state_count = e.unique_state_count
  /\ e.is_initial_seed => f.is_initial_seed

RanksKept == Entries \subseteq Entries' /\ \A k \in Entries : SameRank(queue[k], queue'[k])

(* Assigning another field keeps the rank.                                  *)
LEMMA RankFields ==
  ASSUME NEW e \in Entry, NEW v
  PROVE  /\ SameRank(e, e)
         /\ SameRank(e, [e EXCEPT !.cal_failed = v])
         /\ SameRank(e, [e EXCEPT !.factor = v])
         /\ SameRank(e, [e EXCEPT !.was_fuzzed = v])
         /\ SameRank(e, [e EXCEPT !.fs_redundant = v])
         /\ SameRank(e, [e EXCEPT !.favored = v])
         /\ SameRank(e, [e EXCEPT !.is_initial_seed = TRUE])
         /\ SameRank(e, Release(e))
         /\ SameRank(e, Win(e, v))
BY DEF Entry, SameRank, Release, Win

LEMMA OneRank ==
  ASSUME TypeOK, NEW j \in Entries, NEW e, SameRank(queue[j], e), queue' = [queue EXCEPT ![j] = e]
  PROVE  Entries' = Entries /\ RanksKept
<1>1. Entries' = Entries /\ queue'[j] = e /\ \A k \in Entries \ {j} : queue'[k] = queue[k]
  BY DEF TypeOK, Entries
<1> QED
  BY <1>1 DEF RanksKept, SameRank

LEMMA CalibratedRanks ==
  ASSUME NEW entries \in Seq(Entry), NEW done, q' \in DOMAIN entries, Calibrated(entries, done)
  PROVE  \A k \in DOMAIN entries : k \in DOMAIN queue' /\ SameRank(entries[k], queue'[k])
<1>0. \A k \in DOMAIN entries : entries[k] \in Entry
  OBVIOUS
<1>1. CASE queue' = [entries EXCEPT ![q'].cal_failed = TRUE]
  BY <1>0, <1>1, RankFields
<1>2. ASSUME NEW f \in Factors, queue' = [entries EXCEPT ![q'].factor = f]
      PROVE  \A k \in DOMAIN entries : k \in DOMAIN queue' /\ SameRank(entries[k], queue'[k])
  BY <1>0, <1>2, RankFields
<1> QED
  BY <1>1, <1>2 DEF Calibrated

(* Only the dry run counts the states of an entry that is there already.    *)
LEMMA RanksStep ==
  ASSUME TypeOK, RefCounts, ScoringInv, [Next]_vars, ~DryRunAnnotate
  PROVE  RanksKept
<1>0. /\ Entries = 1..Len(queue) /\ Len(queue) \in Nat /\ queue \in Seq(Entry)
      /\ \A k \in Entries : queue[k] \in Entry
  BY DEF TypeOK, Entries
<1>1. CASE queue' = queue
  BY <1>0, <1>1 DEF Entries, RanksKept, SameRank
<1>2. CASE DryRunCalibrate
  <2> DEFINE e == [queue[q] EXCEPT !.is_initial_seed = TRUE]
             entries == [queue EXCEPT ![q] = e]
  <2>0. q \in Entries /\ q' = q
    BY <1>0, <1>2, BoundsAssumption DEF DryRunCalibrate, ScoringInv
  <2>1. q \in Entries /\ q' = q /\ e \in Entry /\ SameRank(queue[q], e)
    <3>1. e \in Entry
      BY <1>0, <2>0, FieldTypes
    <3>2. SameRank(queue[q], e)
      BY <1>0, <2>0, RankFields
    <3> QED
      BY <2>0, <3>1, <3>2
  <2>2. Calibrated(entries, "annotate")
    BY <1>2 DEF DryRunCalibrate
  <2> HIDE DEF e
  <2>3. /\ entries \in Seq(Entry) /\ DOMAIN entries = Entries /\ entries[q] = e
        /\ \A k \in Entries \ {q} : entries[k] = queue[k]
    BY <1>0, <2>1 DEF Entries
  <2> HIDE DEF entries
  <2>4. \A k \in Entries : k \in DOMAIN queue' /\ SameRank(entries[k], queue'[k])
    BY <2>1, <2>2, <2>3, CalibratedRanks
  <2> QED
    BY <2>1, <2>3, <2>4 DEF RanksKept, SameRank, Entries
<1>3. CASE ScoreByte /\ Wins(i)
  <2> DEFINE old == top_rated[i]
  <2>1. i \in Bytes /\ q \in Entries /\ old \in Entries \cup {None} /\ old # q
    BY <1>0, <1>3 DEF ScoreByte, ScoringInv, TypeOK, Bytes
  <2>2. old # None => queue[old].tc_ref # 0
    BY <2>1, WinnerHasReference
  <2>3. queue' = Handed(old, q)
    BY <1>3 DEF ScoreByte
  <2> HIDE DEF old
  <2>4. /\ Entries' = Entries
        /\ old # None => queue'[old] = Release(queue[old])
        /\ queue'[q] = Win(queue[q], trace_bits)
        /\ \A k \in Entries \ {old, q} : queue'[k] = queue[k]
    BY <1>3, <2>1, <2>2, <2>3, HandedType DEF Entries, ScoreByte, TypeOK
  <2>5. \A k \in Entries : SameRank(queue[k], queue'[k])
    <3> TAKE k \in Entries
    <3>0. /\ SameRank(queue[k], queue[k]) /\ SameRank(queue[k], Release(queue[k]))
          /\ SameRank(queue[k], Win(queue[k], trace_bits))
      <4>1. queue[k] \in Entry
        BY <1>0
      <4> QED
        BY <4>1, RankFields
    <3>1. CASE k = q
      BY <2>4, <3>0, <3>1
    <3>2. CASE k = old
      <4>1. old # None
        BY <1>0, <3>2 DEF None
      <4> QED
        BY <2>4, <3>0, <3>2, <4>1
    <3>3. CASE k \notin {old, q}
      BY <2>4, <3>0, <3>3
    <3> QED
      BY <3>1, <3>2, <3>3
  <2> QED
    BY <2>4, <2>5 DEF RanksKept
<1>4. CASE CullStart /\ score_changed
  <2>1. queue' = [k \in Entries |-> IF queue[k].is_initial_seed THEN queue[k]
                                    ELSE [queue[k] EXCEPT !.favored = FALSE]]
    BY <1>4 DEF CullStart, Entries
  <2>2. ASSUME NEW k \in Entries PROVE SameRank(queue[k], queue'[k])
    <3> DEFINE e == [queue[k] EXCEPT !.favored = FALSE]
    <3>1. SameRank(queue[k], queue[k]) /\ SameRank(queue[k], e)
      BY <1>0, RankFields
    <3>2. queue'[k] = IF queue[k].is_initial_seed THEN queue[k] ELSE e
      BY <2>1
    <3> HIDE DEF e
    <3> QED
      BY <3>1, <3>2
  <2> QED
    BY <2>1, <2>2 DEF RanksKept, Entries
<1>5. CASE CullByte /\ top_rated[i] # None /\ i \in temp_v
  <2>1. top_rated[i] \in Entries
    BY <1>5 DEF CullByte, TypeOK
  <2> DEFINE e == [queue[top_rated[i]] EXCEPT !.favored = TRUE]
  <2>2. SameRank(queue[top_rated[i]], e)
    BY <1>0, <2>1, RankFields
  <2>3. queue' = [queue EXCEPT ![top_rated[i]] = e]
    BY <1>5 DEF CullByte
  <2> HIDE DEF e
  <2> QED
    BY <2>1, <2>2, <2>3, OneRank
<1>6. CASE CullEnd
  <2>1. queue' = [k \in Entries |-> [queue[k] EXCEPT !.fs_redundant = ~queue[k].favored]]
    BY <1>6 DEF CullEnd, Entries
  <2>2. ASSUME NEW k \in Entries PROVE SameRank(queue[k], queue'[k])
    <3> DEFINE e == [queue[k] EXCEPT !.fs_redundant = ~queue[k].favored]
    <3>1. SameRank(queue[k], e)
      BY <1>0, RankFields
    <3>2. queue'[k] = e
      BY <2>1
    <3> HIDE DEF e
    <3> QED
      BY <3>1, <3>2
  <2> QED
    BY <2>1, <2>2 DEF RanksKept, Entries
<1>7. CASE Save
  <2>1. PICK seen \in SUBSET States :
          Calibrated(Append(queue, [NewEntry(target_state_id) EXCEPT
                          !.unique_state_count = Cardinality(seen)]), "fuzz")
    BY <1>7 DEF Save
  <2>2. Cardinality(seen) \in Nat
    BY FS_Subset, FS_CardinalityType, StatesAssumption
  <2> DEFINE e == [NewEntry(target_state_id) EXCEPT !.unique_state_count = Cardinality(seen)]
             entries == Append(queue, e)
  <2>3. e \in Entry
    BY <2>2, NewEntryType DEF TypeOK
  <2>4. Calibrated(entries, "fuzz")
    BY <2>1
  <2> HIDE DEF e
  <2>5. /\ entries \in Seq(Entry) /\ DOMAIN entries = 1..(Len(queue) + 1)
        /\ \A k \in Entries : entries[k] = queue[k]
    BY <1>0, <2>3
  <2>6. q' \in DOMAIN entries /\ Entries \subseteq DOMAIN entries
    BY <1>0, <1>7, <2>5 DEF Save
  <2> HIDE DEF entries
  <2>7. \A k \in DOMAIN entries : k \in DOMAIN queue' /\ SameRank(entries[k], queue'[k])
    BY <2>4, <2>5, <2>6, CalibratedRanks
  <2> QED
    BY <2>5, <2>6, <2>7 DEF RanksKept, Entries
<1>8. CASE Abandon /\ ~Done(queue[queue_cur])
  <2>1. queue_cur \in Entries
    BY <1>8 DEF Abandon, ScoringInv
  <2> DEFINE e == [queue[queue_cur] EXCEPT !.was_fuzzed = TRUE]
  <2>2. SameRank(queue[queue_cur], e)
    BY <1>0, <2>1, RankFields
  <2>3. queue' = [queue EXCEPT ![queue_cur] = e]
    BY <1>8 DEF Abandon
  <2> HIDE DEF e
  <2> QED
    BY <2>1, <2>2, <2>3, OneRank
<1>9. CASE ScoreByte /\ ~Wins(i)
  BY <1>1, <1>9 DEF ScoreByte
<1>10. CASE CullByte /\ ~(top_rated[i] # None /\ i \in temp_v)
  BY <1>1, <1>10 DEF CullByte
<1>11. CASE ScoreEnd \/ (CullStart /\ ~score_changed) \/ Select \/ UNCHANGED vars
  BY <1>1, <1>11 DEF ScoreEnd, CullStart, Select, vars
<1>12. CASE Abandon /\ Done(queue[queue_cur])
  BY <1>1, <1>12 DEF Abandon
<1> QED
  BY <1>2, <1>3, <1>4, <1>5, <1>6, <1>7, <1>8, <1>9, <1>10, <1>11, <1>12 DEF Next

(* Winners and contenders that stay, with the states they have.             *)
LEMMA KeptWinners ==
  ASSUME TypeOK, MostStatesWin, RanksKept, UNCHANGED <<top_rated, contenders>>
  PROVE  MostStatesWin'
<1> SUFFICES ASSUME NEW b \in Bytes, NEW k \in contenders[b]
             PROVE  /\ top_rated[b] # None
                    /\ LET most == queue'[top_rated[b]].unique_state_count
                       IN  \/ queue'[k].unique_state_count <= most
                           \/ queue'[k].is_initial_seed /\ most > 0
  BY DEF MostStatesWin
<1>1. top_rated[b] # None /\ top_rated[b] \in Entries /\ k \in Entries
  BY DEF TypeOK, MostStatesWin
<1>2. SameRank(queue[k], queue'[k]) /\ SameRank(queue[top_rated[b]], queue'[top_rated[b]])
  BY <1>1 DEF RanksKept
<1> QED
  BY <1>1, <1>2 DEF MostStatesWin, SameRank

LEMMA AnnotateWinners ==
  ASSUME TypeOK, ScoringInv, DryRunInv, MostStatesWin, DryRunAnnotate
  PROVE  DryRunInv' /\ MostStatesWin'
<1>0. /\ Entries = 1..Len(queue) /\ Len(queue) \in Nat /\ queue \in Seq(Entry)
      /\ \A k \in Entries : queue[k] \in Entry /\ queue[k].unique_state_count \in Nat
  <2>1. /\ Entries = 1..Len(queue) /\ Len(queue) \in Nat /\ queue \in Seq(Entry)
        /\ \A k \in Entries : queue[k] \in Entry
    BY DEF TypeOK, Entries
  <2> QED
    BY <2>1 DEF Entry
<1>1. PICK seen \in SUBSET States :
        queue' = [queue EXCEPT ![q].unique_state_count = Cardinality(seen)]
  BY DEF DryRunAnnotate
<1>2. Cardinality(seen) \in Nat
  BY FS_Subset, FS_CardinalityType, StatesAssumption
<1>3. /\ q \in Entries /\ q' = q + 1 /\ pc = "annotate" /\ pc' = "dry_run"
      /\ UNCHANGED <<top_rated, contenders>>
  BY <1>0, BoundsAssumption DEF DryRunAnnotate, ScoringInv, scores
<1>4. /\ Entries' = Entries /\ queue'[q].unique_state_count = Cardinality(seen)
      /\ queue'[q].is_initial_seed = queue[q].is_initial_seed
      /\ \A k \in Entries \ {q} : queue'[k] = queue[k]
  BY <1>0, <1>1, <1>3 DEF Entries, Entry
<1>5. /\ \A k \in Entries : k >= q => queue[k].unique_state_count = 0
      /\ queue[q].is_initial_seed
      /\ \A b \in Bytes : \A k \in contenders[b] :
           /\ k < q + 1
           /\ k = q /\ top_rated[b] # q =>
                top_rated[b] # None /\ queue[top_rated[b]].unique_state_count > 0
  BY <1>3 DEF DryRunInv
<1>6. DryRunInv'
  <2>1. \A k \in Entries : k >= q + 1 => queue'[k].unique_state_count = 0
    <3> SUFFICES ASSUME NEW k \in Entries, k >= q + 1 PROVE queue'[k].unique_state_count = 0
      OBVIOUS
    <3>1. k # q /\ k >= q
      BY <1>0, <1>3
    <3> QED
      BY <1>4, <1>5, <3>1
  <2> QED
    BY <1>3, <1>4, <1>5, <2>1 DEF DryRunInv
<1>7. MostStatesWin'
  <2> SUFFICES ASSUME NEW b \in Bytes, NEW k \in contenders[b]
               PROVE  /\ top_rated[b] # None
                      /\ LET most == queue'[top_rated[b]].unique_state_count
                         IN  \/ queue'[k].unique_state_count <= most
                             \/ queue'[k].is_initial_seed /\ most > 0
    BY <1>3 DEF MostStatesWin
  <2> DEFINE t == top_rated[b]
  <2>1. /\ t # None /\ t \in Entries /\ k \in Entries
        /\ \/ queue[k].unique_state_count <= queue[t].unique_state_count
           \/ queue[k].is_initial_seed /\ queue[t].unique_state_count > 0
    BY DEF TypeOK, MostStatesWin
  <2> HIDE DEF t
  <2>2. CASE k = q /\ t = q
    <3>1. queue'[k].unique_state_count = queue'[t].unique_state_count
          /\ queue'[k].unique_state_count \in Nat
      BY <1>2, <1>4, <2>2
    <3> QED
      BY <2>1, <3>1 DEF t
  <2>3. CASE k # q /\ t = q
    <3>1. queue[q].unique_state_count = 0
      BY <1>0, <1>3, <1>5
    <3>2. queue[k].unique_state_count = 0
      BY <1>0, <2>1, <2>3, <3>1
    <3>3. queue'[k].unique_state_count <= queue'[t].unique_state_count
      BY <1>2, <1>4, <2>1, <2>3, <3>2
    <3> QED
      BY <2>1, <3>3 DEF t
  <2>4. CASE k = q /\ t # q
    <3>1. queue[t].unique_state_count > 0 /\ queue'[t] = queue[t] /\ queue'[k].is_initial_seed
      BY <1>4, <1>5, <2>1, <2>4 DEF t
    <3> QED
      BY <2>1, <3>1 DEF t
  <2>5. CASE k # q /\ t # q
    BY <1>4, <2>1, <2>5 DEF t
  <2> QED
    BY <2>2, <2>3, <2>4, <2>5
<1> QED
  BY <1>6, <1>7

LEMMA ScoreWinners ==
  ASSUME TypeOK, RefCounts, ScoringInv, DryRunInv, MostStatesWin, ScoreByte, i \in trace_bits
  PROVE  DryRunInv' /\ MostStatesWin'
<1> DEFINE old == top_rated[i]
           uc(k) == queue[k].unique_state_count
<1>0. /\ Entries = 1..Len(queue) /\ Len(queue) \in Nat
      /\ \A k \in Entries : queue[k] \in Entry /\ uc(k) \in Nat
  <2>1. /\ Entries = 1..Len(queue) /\ Len(queue) \in Nat
        /\ \A k \in Entries : queue[k] \in Entry
    BY DEF TypeOK, Entries
  <2> QED
    BY <2>1 DEF Entry
<1>1. /\ i \in Bytes /\ q \in Entries /\ old \in Entries \cup {None} /\ old # q /\ q # None
      /\ pc = "score" /\ pc' = "score" /\ q' = q
      /\ contenders' = [contenders EXCEPT ![i] = @ \cup {q}]
  BY <1>0 DEF ScoreByte, ScoringInv, TypeOK, Bytes, None
<1>2. RanksKept
  BY RanksStep DEF Next, ScoreByte, DryRunAnnotate
<1>3. /\ Entries' = Entries /\ queue'[q].is_initial_seed = queue[q].is_initial_seed
      /\ \/ /\ top_rated' = [top_rated EXCEPT ![i] = q]
            /\ old # None => uc(q) >= uc(old)
         \/ top_rated' = top_rated /\ old # None /\ uc(q) < uc(old)
  <2>1. CASE Wins(i)
    <3>1. old # None => queue[old].tc_ref # 0
      BY <1>1, WinnerHasReference
    <3>2. queue' = Handed(old, q) /\ top_rated' = [top_rated EXCEPT ![i] = q]
      BY <2>1 DEF ScoreByte
    <3>3. old # None => uc(q) >= uc(old)
      BY <1>0, <1>1, <2>1 DEF Wins, Loses
    <3> HIDE DEF old
    <3>4. Entries' = Entries /\ queue'[q] = Win(queue[q], trace_bits)
      BY <1>1, <3>1, <3>2, HandedType DEF Entries, TypeOK
    <3>5. queue'[q].is_initial_seed = queue[q].is_initial_seed
      BY <1>0, <1>1, <3>4 DEF Win, Entry
    <3> QED
      BY <3>2, <3>3, <3>4, <3>5
  <2>2. CASE ~Wins(i)
    <3>1. queue' = queue /\ top_rated' = top_rated
      BY <2>2 DEF ScoreByte
    <3>2. old # None /\ Loses(queue[q], queue[old])
      BY <2>2 DEF Wins
    <3> QED
      BY <1>0, <1>1, <3>1, <3>2 DEF Loses, Entries
  <2> QED
    BY <2>1, <2>2
<1>4. /\ contenders'[i] = contenders[i] \cup {q}
      /\ \A b \in Bytes \ {i} : contenders'[b] = contenders[b] /\ top_rated'[b] = top_rated[b]
      /\ \A b \in Bytes : contenders[b] \subseteq Entries /\ top_rated[b] \in Entries \cup {None}
      /\ top_rated'[i] = q \/ top_rated'[i] = old
  BY <1>1, <1>3 DEF TypeOK
<1>5. \A k \in Entries : /\ queue'[k].unique_state_count = uc(k)
                         /\ queue[k].is_initial_seed => queue'[k].is_initial_seed
  BY <1>2 DEF RanksKept, SameRank
<1>6. ASSUME NEW k \in contenders[i]
      PROVE  /\ old # None
             /\ uc(k) <= uc(old) \/ (queue[k].is_initial_seed /\ uc(old) > 0)
  BY <1>1 DEF MostStatesWin
<1>7. top_rated'[i] = q => (old # None => uc(q) >= uc(old))
  BY <1>1, <1>3 DEF TypeOK
<1>8. top_rated'[i] # q => top_rated'[i] = old /\ old # None /\ uc(q) < uc(old)
  BY <1>1, <1>3 DEF TypeOK
<1>9. MostStatesWin'
  <2> SUFFICES ASSUME NEW b \in Bytes, NEW k \in contenders'[b]
               PROVE  /\ top_rated'[b] # None
                      /\ LET most == queue'[top_rated'[b]].unique_state_count
                         IN  \/ queue'[k].unique_state_count <= most
                             \/ queue'[k].is_initial_seed /\ most > 0
    BY DEF MostStatesWin
  <2>1. CASE b # i
    <3>1. /\ top_rated[b] # None /\ top_rated[b] \in Entries /\ k \in Entries
          /\ uc(k) <= uc(top_rated[b]) \/ (queue[k].is_initial_seed /\ uc(top_rated[b]) > 0)
      BY <1>4, <2>1 DEF MostStatesWin
    <3> QED
      BY <1>4, <1>5, <2>1, <3>1
  <2>2. CASE b = i
    <3>1. k \in contenders[i] \cup {q} /\ k \in Entries
      BY <1>1, <1>4, <2>2
    <3>2. CASE top_rated'[i] = q
      <4>1. uc(k) <= uc(q) \/ (queue[k].is_initial_seed /\ uc(q) > 0)
        <5>1. CASE k = q
          BY <1>0, <1>1, <5>1
        <5>2. CASE k \in contenders[i]
          <6>1. old # None /\ old \in Entries /\ uc(q) >= uc(old)
                /\ (uc(k) <= uc(old) \/ (queue[k].is_initial_seed /\ uc(old) > 0))
            BY <1>1, <1>6, <1>7, <3>2, <5>2
          <6>2. uc(q) \in Nat /\ uc(old) \in Nat /\ uc(k) \in Nat
            BY <1>0, <1>1, <3>1, <6>1
          <6> HIDE DEF uc
          <6> QED
            BY <6>1, <6>2
        <5> QED
          BY <3>1, <5>1, <5>2
      <4> QED
        BY <1>1, <1>5, <2>2, <3>1, <3>2, <4>1
    <3>3. CASE top_rated'[i] # q
      <4>1. /\ top_rated'[i] = old /\ old # None /\ old \in Entries
            /\ uc(k) <= uc(old) \/ (queue[k].is_initial_seed /\ uc(old) > 0)
        <5>1. top_rated'[i] = old /\ old # None /\ old \in Entries /\ uc(q) < uc(old)
          BY <1>1, <1>8, <3>3
        <5>2. uc(q) <= uc(old)
          <6>1. uc(q) \in Nat /\ uc(old) \in Nat
            BY <1>0, <1>1, <5>1
          <6> HIDE DEF uc
          <6> QED
            BY <5>1, <6>1
        <5> QED
          BY <1>6, <3>1, <5>1, <5>2
      <4> QED
        BY <1>5, <2>2, <3>1, <4>1
    <3> QED
      BY <3>2, <3>3
  <2> QED
    BY <2>1, <2>2
<1>10. DryRunInv'
  <2> SUFFICES ASSUME queue'[q].is_initial_seed PROVE DryRunInv'
    BY <1>1 DEF DryRunInv
  <2>1. /\ queue[q].is_initial_seed
        /\ \A k \in Entries : k >= q => uc(k) = 0
        /\ \A b \in Bytes : \A k \in contenders[b] :
             /\ k < q + 1
             /\ k = q /\ top_rated[b] # q => top_rated[b] # None /\ uc(top_rated[b]) > 0
    BY <1>1, <1>3 DEF DryRunInv
  <2>2. \A k \in Entries : k >= q => queue'[k].unique_state_count = 0
    BY <1>5, <2>1
  <2>3. ASSUME NEW b \in Bytes, NEW k \in contenders'[b]
        PROVE  /\ k < q + 1
               /\ k = q /\ top_rated'[b] # q =>
                    top_rated'[b] # None /\ queue'[top_rated'[b]].unique_state_count > 0
    <3>1. CASE b # i
      BY <1>4, <1>5, <2>1, <3>1
    <3>2. CASE b = i
      <4>1. k < q + 1
        BY <1>0, <1>1, <1>4, <2>1, <3>2
      <4>2. top_rated'[i] # q => top_rated'[i] = old /\ old # None /\ old \in Entries /\ uc(old) > 0
        <5> SUFFICES ASSUME top_rated'[i] # q
                     PROVE  top_rated'[i] = old /\ old # None /\ old \in Entries /\ uc(old) > 0
          OBVIOUS
        <5>1. top_rated'[i] = old /\ old # None /\ old \in Entries /\ uc(q) < uc(old)
          BY <1>1, <1>8
        <5>2. uc(q) \in Nat /\ uc(old) \in Nat
          BY <1>0, <1>1, <5>1
        <5> HIDE DEF uc
        <5> QED
          BY <5>1, <5>2
      <4> QED
        BY <1>5, <3>2, <4>1, <4>2
    <3> QED
      BY <3>1, <3>2
  <2> QED
    BY <1>1, <1>3, <2>2, <2>3 DEF DryRunInv
<1> QED
  BY <1>9, <1>10

LEMMA WinnersStep ==
  ASSUME TypeOK, TypeOK', RefCounts, ScoringInv, DryRunInv, MostStatesWin, [Next]_vars
  PROVE  DryRunInv' /\ MostStatesWin'
<1> USE DEF main, scores
<1>1. CASE DryRunAnnotate
  BY <1>1, AnnotateWinners
<1>2. CASE ScoreByte /\ i \in trace_bits
  BY <1>2, ScoreWinners
<1>3. CASE ~DryRunAnnotate /\ ~(ScoreByte /\ i \in trace_bits)
  <2>1. UNCHANGED <<top_rated, contenders>>
    <3>1. CASE ScoreByte
      <4>1. ~Wins(i)
        BY <1>3, <3>1 DEF Wins
      <4> QED
        BY <1>3, <3>1, <4>1 DEF ScoreByte
    <3>2. CASE ~ScoreByte
      BY <1>3, <3>2 DEF Next, vars, DryRunCalibrate, ScoreEnd, CullStart,
                        CullByte, CullEnd, Select, Save, Abandon
    <3> QED
      BY <3>1, <3>2
  <2>2. MostStatesWin'
    BY <1>3, <2>1, RanksStep, KeptWinners
  <2>3. CASE DryRunCalibrate
    <3>1. /\ q \in Entries /\ q' = q /\ Entries' = Entries /\ queue'[q].is_initial_seed = TRUE
      BY <2>3, DryRunCalibrateKeeps
    <3>2. /\ pc = "dry_run" /\ pc' \in {"annotate", "score"}
      BY <2>3 DEF DryRunCalibrate, Calibrated
    <3>3. /\ \A k \in Entries : k >= q => queue'[k].unique_state_count = 0
      BY <1>3, <2>3, <3>2, RanksStep DEF DryRunInv, RanksKept, SameRank
    <3>4. \A b \in Bytes : \A k \in contenders[b] : k < q + 1 /\ k # q
      <4> SUFFICES ASSUME NEW b \in Bytes, NEW k \in contenders[b] PROVE k < q + 1 /\ k # q
        OBVIOUS
      <4>1. k < q /\ k \in Int /\ q \in Int
        BY <3>1, <3>2 DEF DryRunInv, TypeOK, Entries
      <4> QED
        BY <4>1
    <3>5. DryRunInv'
      BY <2>1, <3>1, <3>2, <3>3, <3>4 DEF DryRunInv
    <3> QED
      BY <2>2, <3>5
  <2>4. CASE ScoreByte
    <3>1. ~Wins(i)
      BY <1>3, <2>4 DEF Wins
    <3>2. UNCHANGED <<pc, q, queue>>
      BY <2>4, <3>1 DEF ScoreByte
    <3>3. DryRunInv'
      BY <2>1, <3>2 DEF DryRunInv, Entries
    <3> QED
      BY <2>2, <3>3
  <2>5. CASE ScoreEnd
    <3>1. /\ UNCHANGED <<q, queue>> /\ pc = "score"
          /\ pc' = IF queue[q].is_initial_seed THEN "annotate" ELSE "fuzz"
      BY <2>5 DEF ScoreEnd
    <3>2. DryRunInv'
      BY <2>1, <3>1 DEF DryRunInv, Entries
    <3> QED
      BY <2>2, <3>2
  <2>6. CASE Save
    <3>1. queue'[q'].is_initial_seed = FALSE /\ pc' \in {"fuzz", "score"}
      BY <2>6, SaveKeeps DEF Save, Calibrated
    <3>2. DryRunInv'
      BY <3>1 DEF DryRunInv
    <3> QED
      BY <2>2, <3>2
  <2>7. CASE CullStart \/ CullByte \/ CullEnd \/ Select \/ Abandon
    <3>1. pc' \in {"loop", "cull", "select", "fuzz"}
      BY <2>7 DEF CullStart, CullByte, CullEnd, Select, Abandon
    <3>2. DryRunInv'
      BY <3>1 DEF DryRunInv
    <3> QED
      BY <2>2, <3>2
  <2>8. CASE UNCHANGED vars
    <3>1. DryRunInv'
      BY <2>8 DEF vars, DryRunInv, Entries
    <3> QED
      BY <2>2, <3>1
  <2> QED
    BY <1>3, <2>3, <2>4, <2>5, <2>6, <2>7, <2>8 DEF Next
<1> QED
  BY <1>1, <1>2, <1>3

-----------------------------------------------------------------------------
(* Theorems *)

LEMMA InitInv == Init => Inv
<1> SUFFICES ASSUME Init PROVE Inv
  OBVIOUS
<1>1. TypeOK
  BY InitType
<1>2. Entries = 1..Seeds /\ Len(queue) = Seeds /\ q = 1 /\ pc = "dry_run" /\ ~score_changed
      /\ \A b \in Bytes : top_rated[b] = None
  BY BoundsAssumption DEF Init, Entries
<1>3. \A k \in Entries : /\ queue[k].tc_ref = 0 /\ queue[k].trace_mini = NoTrace
                         /\ queue[k].favored = FALSE
  BY <1>2 DEF Init, NewEntry
<1>4. \A k \in Entries : WonBy(k) = {}
  BY <1>2 DEF WonBy, None
<1>5. RefCounts /\ WonBytesTraced
  BY <1>3, <1>4, FS_EmptySet DEF RefCounts, WonBytesTraced
<1>6. ScoringInv
  BY <1>2, BoundsAssumption DEF ScoringInv, None
<1>7. CullingInv
  BY <1>2, <1>3 DEF CullingInv, FavouredForAByte
<1>8. DryRunInv /\ MostStatesWin
  <2>1. \A b \in Bytes : contenders[b] = {}
    BY DEF Init
  <2>2. \A k \in Entries : queue[k].unique_state_count = 0
    BY <1>2 DEF Init, NewEntry
  <2> QED
    BY <1>2, <2>1, <2>2 DEF DryRunInv, MostStatesWin
<1> QED
  BY <1>1, <1>5, <1>6, <1>7, <1>8 DEF Inv

(* The invariant that carries the theorems: types, references, and what the *)
(* loops of update_bitmap_score and cull_queue have done so far.            *)
THEOREM FavouritesInvariant == Spec => []Inv
<1>1. Init => Inv
  BY InitInv
<1>2. Inv /\ [Next]_vars => Inv'
  <2> SUFFICES ASSUME Inv, [Next]_vars PROVE Inv'
    OBVIOUS
  <2>1. /\ TypeOK /\ RefCounts /\ WonBytesTraced /\ ScoringInv /\ CullingInv
        /\ DryRunInv /\ MostStatesWin
    BY DEF Inv
  <2>2. TypeOK'
    BY <2>1, TypeStep
  <2>3. RefCounts' /\ WonBytesTraced'
    BY <2>1, <2>2, ReferencesStep
  <2>4. ScoringInv'
    BY <2>1, <2>2, ScoringStep
  <2>5. CullingInv'
    BY <2>1, <2>2, CullingStep
  <2>6. DryRunInv' /\ MostStatesWin'
    BY <2>1, <2>2, <2>4, WinnersStep
  <2> QED
    BY <2>2, <2>3, <2>4, <2>5, <2>6 DEF Inv
<1> QED
  BY <1>1, <1>2, PTL DEF Spec

(* Every state of the favourites is well typed.                             *)
THEOREM FavouritesTypes == Spec => []TypeOK
<1>1. Inv => TypeOK
  BY DEF Inv
<1> QED
  BY <1>1, FavouritesInvariant, PTL

(* tc_ref is the number of bytes an entry has won, and its trace is kept    *)
(* exactly as long as there are some, whatever the order in which           *)
(* update_bitmap_score takes bytes from entries.                            *)
THEOREM ReferencesCounted == Spec => []RefCounts
<1>1. Inv => RefCounts
  BY DEF Inv
<1> QED
  BY <1>1, FavouritesInvariant, PTL

(* The kept trace of a winner has all the bytes it has won.                 *)
THEOREM WinnersTraced == Spec => []WonBytesTraced
<1>1. Inv => WonBytesTraced
  BY DEF Inv
<1> QED
  BY <1>1, FavouritesInvariant, PTL

(* What cull_queue marks covers every byte that was won, until a byte       *)
(* changes hands.                                                           *)
THEOREM FavouritesCover == Spec => []FavouredCover
<1>1. Inv => FavouredCover
  BY DEF Inv, CullingInv, FavouredCover, Culled, Covered, FavouredForAByte
<1> QED
  BY <1>1, FavouritesInvariant, PTL

(* An entry that was saved never lost a byte to one with fewer states, and  *)
(* a seed not to one without any, however winners follow each other.        *)
THEOREM WinnersHaveMostStates == Spec => []MostStatesWin
<1>1. Inv => MostStatesWin
  BY DEF Inv
<1> QED
  BY <1>1, FavouritesInvariant, PTL
=============================================================================
