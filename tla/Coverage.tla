------------------------------ MODULE Coverage ------------------------------
(***************************************************************************)
(* Bitmaps.  A byte of a map is the set of the bits that are set in it; an *)
(* execution leaves a number of hits in each byte of trace_bits, and       *)
(* classify_counts replaces it by one bit.  The functions of the code go   *)
(* word by word, which changes nothing in what they return.                *)
(***************************************************************************)
EXTENDS Integers, Sequences, FiniteSets, FiniteSetsExt

CONSTANT MAP_SIZE

ASSUME CoverageAssumption == MAP_SIZE \in Nat \ {0}

MapBytes == 1 .. MAP_SIZE
Bits == 0 .. 7
BitMap == [MapBytes -> SUBSET Bits]

Pristine == [i \in MapBytes |-> Bits]
Blank == [i \in MapBytes |-> {}]

\* the bucket of a number of hits
count_class_lookup8 == <<1 .. 1, 2 .. 2, 3 .. 3, 4 .. 7, 8 .. 15, 16 .. 31, 32 .. 127, 128 .. 255>>

classify_counts(hits) ==
  [i \in MapBytes |-> {k \in Bits : hits[i] \in count_class_lookup8[k + 1]}]

\* hit or not hit, as 0x80 and 0x01
simplify_trace(trace) == [i \in MapBytes |-> IF trace[i] = {} THEN {0} ELSE {7}]

count_bytes(map) == Cardinality({i \in MapBytes : map[i] # {}})

\* 2 for a byte never hit before, 1 for a new number of hits
has_new_bits(trace, virgin) ==
  IF \E i \in MapBytes : trace[i] # {} /\ virgin[i] = Bits THEN 2
  ELSE IF \E i \in MapBytes : trace[i] \cap virgin[i] # {} THEN 1 ELSE 0

\* and what it leaves of the virgin map
Without(virgin, trace) == [i \in MapBytes |-> virgin[i] \ trace[i]]
=============================================================================
