-------------------------- MODULE CalibrationProofs -------------------------
(***************************************************************************)
(* Proofs about Calibration: what the virgin maps have lost is what was    *)
(* seen, what is filed is of the run it says it is of, what is called      *)
(* variable varied, and the totals are those of the queue and the files,   *)
(* for any map, any outcomes and any number of entries, runs and cycles.   *)
(***************************************************************************)
EXTENDS Calibration, FiniteSetTheorems, SequenceTheorems, Sums, TLAPS

-----------------------------------------------------------------------------
(* The inductive invariant *)

Places == {"dry_run", "calibrate", "calibrated", "fuzz", "file", "verify", "ended"}
Callers == {"perform_dry_run", "save_if_interesting"}

EntryRecord ==
  [exec_cksum : BitMap \cup {NoCksum}, cal_failed : Nat, has_new_cov : BOOLEAN,
   var_behavior : BOOLEAN, bitmap_size : Nat, sent : Nat]

CalRecord ==
  [stage_cur : Nat, stage_max : Nat, first_run : BOOLEAN, new_bits : 0 .. 2,
   var_detected : BOOLEAN, fault : Faults \cup {"noinst", "nobits"}, caller : Callers]

CrashRecord == [sent : Nat, sig : Nat, of : Faults, trace : BitMap]
HangRecord == [sent : Nat, of : Faults, trace : BitMap]

MapTypes ==
  /\ trace_bits \in BitMap /\ first_trace \in BitMap
  /\ virgin_bits \in BitMap /\ virgin_tmout \in BitMap /\ virgin_crash \in BitMap
  /\ seen \in Seq(SUBSET BitMap)
  /\ var_bytes \subseteq MapBytes

RecordTypes ==
  /\ queue \in Seq(EntryRecord) /\ cal \in CalRecord
  /\ crashes \in Seq(CrashRecord) /\ hangs \in Seq(HangRecord)
  /\ crash_mode \in Modes /\ at \in Nat \ {0} /\ messages_sent \in Nat /\ kill_signal \in Nat
  /\ fault \in Faults /\ last \in Faults /\ pc \in Places

\* an entry is being calibrated
Calibrating == pc \in {"calibrate", "calibrated"}

Located ==
  /\ Len(seen) = Len(queue) /\ Seeds <= Len(queue)
  /\ Calibrating => at \in DOMAIN queue

\* The checksum of an entry is of a trace it showed.
Checksummed == \A q \in DOMAIN queue : queue[q].exec_cksum \in seen[q] \cup {NoCksum}

\* A bit is missing in the map exactly when an entry showed it, and likewise for
\* the map of the crashes.
Shown(traces, i, b) == \E q \in DOMAIN traces : \E t \in traces[q] : b \in t[i]
Recorded(records, i, b) == \E k \in DOMAIN records : b \in records[k].trace[i]

BitsSeen == \A i \in MapBytes, b \in Bits : b \notin virgin_bits[i] <=> Shown(seen, i, b)
BitsCrashed == \A i \in MapBytes, b \in Bits : b \notin virgin_crash[i] <=> Recorded(crashes, i, b)
BitsHung ==
  /\ \A i \in MapBytes, b \in Bits : Recorded(hangs, i, b) => b \notin virgin_tmout[i]
  /\ pc = "verify" => \A i \in MapBytes : trace_bits[i] \cap virgin_tmout[i] = {}

\* Without -C the verdict that is filed is that of the last run.
Judged ==
  crash_mode = "none" =>
    /\ \A k \in DOMAIN crashes : crashes[k].of = "crash"
    /\ \A k \in DOMAIN hangs : hangs[k].of = "tmout"
    /\ pc = "file" /\ fault \in {"crash", "tmout"} => last = fault
    /\ Calibrating /\ cal.caller = "save_if_interesting" => fault = "none"

\* Seeds that were not yet calibrated have no checksum, so the trace the others
\* are compared with is their own.
Fresh ==
  /\ pc = "dry_run" => \A q \in DOMAIN queue : q >= at => queue[q].exec_cksum = NoCksum
  /\ Calibrating /\ cal.caller = "perform_dry_run" =>
       \A q \in DOMAIN queue : q > at => queue[q].exec_cksum = NoCksum
  /\ pc = "calibrate" /\ queue[at].exec_cksum # NoCksum => first_trace \in seen[at]

Differ(S) == \E t, u \in S : t # u

Vary ==
  /\ \A i \in var_bytes : \E q \in DOMAIN seen : \E t, u \in seen[q] : t[i] # u[i]
  /\ Calibrating /\ cal.var_detected => Differ(seen[at])
  /\ \A q \in DOMAIN queue : queue[q].var_behavior => Differ(seen[q])
  /\ \A q \in DOMAIN seen : IsFiniteSet(seen[q])

IInv ==
  /\ MapTypes /\ RecordTypes /\ Located /\ Checksummed
  /\ BitsSeen /\ BitsCrashed /\ BitsHung /\ Judged /\ Fresh /\ Vary

-----------------------------------------------------------------------------
(* The operators of Coverage *)

LEMMA ClassifyTyped ==
  ASSUME NEW o \in Outcomes
  PROVE  /\ classify_counts(o.hits) \in BitMap
         /\ o.fault \in Faults /\ o.sent \in Nat /\ o.sig \in Nat
BY CalibrationAssumption DEF classify_counts, BitMap

LEMMA SimplifyTyped ==
  ASSUME NEW t \in BitMap
  PROVE  simplify_trace(t) \in BitMap
<1>1. {0} \subseteq Bits /\ {7} \subseteq Bits
  BY DEF Bits
<1> QED
  BY <1>1 DEF simplify_trace, BitMap

\* Without takes from the virgin map the bits of the trace, and no others.
LEMMA WithoutTakes ==
  ASSUME NEW v \in BitMap, NEW t \in BitMap
  PROVE  /\ Without(v, t) \in BitMap
         /\ \A i \in MapBytes : \A b \in Bits :
              b \notin Without(v, t)[i] <=> b \notin v[i] \/ b \in t[i]
BY DEF Without, BitMap

\* When has_new_bits finds nothing, the virgin map has no bit of the trace.
LEMMA NothingFound ==
  ASSUME NEW v \in BitMap, NEW t \in BitMap, has_new_bits(t, v) = 0
  PROVE  /\ \A i \in MapBytes : \A b \in Bits : b \in t[i] => b \notin v[i]
         /\ \A i \in MapBytes : t[i] \cap v[i] = {}
<1>1. ~ \E i \in MapBytes : t[i] \cap v[i] # {}
  BY DEF has_new_bits
<1> QED
  BY <1>1

LEMMA NewBitsTyped ==
  ASSUME NEW v, NEW t
  PROVE  has_new_bits(t, v) \in 0 .. 2
BY DEF has_new_bits

LEMMA MaxTyped ==
  ASSUME NEW a \in 0 .. 2, NEW b \in 0 .. 2
  PROVE  Max({a, b}) \in 0 .. 2
<1>1. \E x \in {a, b} : \A y \in {a, b} : x >= y
  <2>1. CASE a >= b
    BY <2>1
  <2>2. CASE b >= a
    BY <2>2
  <2> QED
    BY <2>1, <2>2
<1>2. Max({a, b}) \in {a, b}
  BY <1>1 DEF Max
<1> QED
  BY <1>2

LEMMA CountTyped ==
  ASSUME NEW m
  PROVE  count_bytes(m) \in Nat
<1>1. IsFiniteSet(MapBytes)
  BY CoverageAssumption, FS_Interval DEF MapBytes
<1>2. IsFiniteSet({i \in MapBytes : m[i] # {}})
  BY <1>1, FS_Subset
<1> QED
  BY <1>2, FS_CardinalityType DEF count_bytes

\* A checksum that is not set differs from every checksum.
LEMMA ChecksumOfTrace ==
  ASSUME NEW t \in BitMap
  PROVE  t # NoCksum
<1>1. 1 \in DOMAIN t
  BY CoverageAssumption DEF BitMap, MapBytes
<1>2. DOMAIN NoCksum = {}
  BY DEF NoCksum
<1> QED
  BY <1>1, <1>2

-----------------------------------------------------------------------------
(* Sequences *)

LEMMA Appended ==
  ASSUME NEW S, NEW s \in Seq(S), NEW e \in S
  PROVE  LET n == Append(s, e)
         IN  /\ n \in Seq(S) /\ Len(s) \in Nat /\ Len(n) = Len(s) + 1
             /\ DOMAIN s = 1 .. Len(s) /\ DOMAIN n = 1 .. Len(s) + 1
             /\ \A k \in DOMAIN s : n[k] = s[k]
             /\ n[Len(s) + 1] = e
BY AppendProperties, LenProperties

LEMMA Replaced ==
  ASSUME NEW S, NEW s \in Seq(S), NEW q \in DOMAIN s, NEW e \in S
  PROVE  LET n == [s EXCEPT ![q] = e]
         IN  /\ n \in Seq(S) /\ Len(n) = Len(s) /\ DOMAIN n = DOMAIN s
             /\ n[q] = e
             /\ \A k \in DOMAIN s : k # q => n[k] = s[k]
BY ExceptSeq

\* A trace that is added shows its own bits, and the others show what they did.
LEMMA TraceAppended ==
  ASSUME NEW s \in Seq(SUBSET BitMap), NEW t \in BitMap
  PROVE  \A i, b : Shown(Append(s, {t}), i, b) <=> Shown(s, i, b) \/ b \in t[i]
<1> DEFINE n == Append(s, {t})
<1>1. /\ DOMAIN s = 1 .. Len(s) /\ DOMAIN n = 1 .. Len(s) + 1 /\ Len(s) \in Nat
      /\ \A k \in DOMAIN s : n[k] = s[k]
      /\ n[Len(s) + 1] = {t}
  BY Appended
<1> HIDE DEF n
<1>2. \A k \in DOMAIN n : k \in DOMAIN s \/ k = Len(s) + 1
  BY <1>1
<1>3. DOMAIN s \subseteq DOMAIN n /\ Len(s) + 1 \in DOMAIN n
  BY <1>1
<1>4. \A i, b : Shown(n, i, b) <=> Shown(s, i, b) \/ b \in t[i]
  BY <1>1, <1>2, <1>3 DEF Shown
<1> QED
  BY <1>4 DEF n

LEMMA TraceAdded ==
  ASSUME NEW s \in Seq(SUBSET BitMap), NEW q \in DOMAIN s, NEW t \in BitMap
  PROVE  \A i, b : Shown([s EXCEPT ![q] = @ \cup {t}], i, b) <=> Shown(s, i, b) \/ b \in t[i]
<1> DEFINE n == [s EXCEPT ![q] = @ \cup {t}]
<1>1. DOMAIN n = DOMAIN s /\ n[q] = s[q] \cup {t} /\ \A k \in DOMAIN s : k # q => n[k] = s[k]
  OBVIOUS
<1> HIDE DEF n
<1>4. \A i, b : Shown(n, i, b) <=> Shown(s, i, b) \/ b \in t[i]
  BY <1>1 DEF Shown
<1> QED
  BY <1>4 DEF n

LEMMA RecordAppended ==
  ASSUME NEW S, NEW f \in Seq(S), NEW r \in S
  PROVE  \A i, b : Recorded(Append(f, r), i, b) <=> Recorded(f, i, b) \/ b \in r.trace[i]
<1> DEFINE n == Append(f, r)
<1>1. /\ DOMAIN f = 1 .. Len(f) /\ DOMAIN n = 1 .. Len(f) + 1 /\ Len(f) \in Nat
      /\ \A k \in DOMAIN f : n[k] = f[k]
      /\ n[Len(f) + 1] = r
  BY Appended
<1> HIDE DEF n
<1>2. \A k \in DOMAIN n : k \in DOMAIN f \/ k = Len(f) + 1
  BY <1>1
<1>3. DOMAIN f \subseteq DOMAIN n /\ Len(f) + 1 \in DOMAIN n
  BY <1>1
<1>4. \A i, b : Recorded(n, i, b) <=> Recorded(f, i, b) \/ b \in r.trace[i]
  BY <1>1, <1>2, <1>3 DEF Recorded
<1> QED
  BY <1>4 DEF n

-----------------------------------------------------------------------------
(* What most actions leave alone *)

\* No entry shows anything new, and none changes its checksum.
SameEntries ==
  /\ seen' = seen /\ virgin_bits' = virgin_bits
  /\ queue' \in Seq(EntryRecord) /\ Len(queue') = Len(queue)
  /\ \A q \in 1 .. Len(queue) :
       /\ queue'[q].exec_cksum = queue[q].exec_cksum
       /\ queue'[q].var_behavior => queue[q].var_behavior \/ Differ(seen[q])

Marked == \A q \in DOMAIN queue : queue[q].var_behavior => Differ(seen[q])
AllFinite == \A q \in DOMAIN seen : IsFiniteSet(seen[q])
BytesVary == \A i \in var_bytes : \E q \in DOMAIN seen : \E t, u \in seen[q] : t[i] # u[i]

LEMMA Domains ==
  ASSUME MapTypes, RecordTypes, Located
  PROVE  /\ Len(queue) \in Nat /\ DOMAIN queue = 1 .. Len(queue) /\ DOMAIN seen = DOMAIN queue
         /\ \A q \in DOMAIN queue : queue[q] \in EntryRecord /\ seen[q] \subseteq BitMap
BY LenProperties DEF MapTypes, RecordTypes, Located

LEMMA EntriesKept ==
  ASSUME IInv, SameEntries
  PROVE  /\ Len(queue) \in Nat /\ DOMAIN queue = 1 .. Len(queue)
         /\ DOMAIN queue' = DOMAIN queue /\ Len(seen') = Len(queue') /\ Seeds <= Len(queue')
         /\ Checksummed' /\ BitsSeen' /\ Marked' /\ AllFinite'
<1>1. /\ Len(queue) \in Nat /\ DOMAIN queue = 1 .. Len(queue) /\ DOMAIN queue' = DOMAIN queue
      /\ DOMAIN seen = DOMAIN queue
  BY LenProperties, Domains DEF IInv, SameEntries
<1>2. Len(seen') = Len(queue') /\ Seeds <= Len(queue')
  BY DEF IInv, Located, SameEntries
<1>3. Checksummed'
  BY <1>1 DEF IInv, Checksummed, SameEntries
<1>4. BitsSeen'
  BY DEF IInv, BitsSeen, SameEntries, Shown
<1>5. Marked'
  BY <1>1 DEF IInv, Vary, Marked, SameEntries, Differ
<1>6. AllFinite'
  BY DEF IInv, Vary, AllFinite, SameEntries
<1> QED
  BY <1>1, <1>2, <1>3, <1>4, <1>5, <1>6

LEMMA QueueKept ==
  ASSUME IInv, UNCHANGED <<seen, virgin_bits, queue>>
  PROVE  SameEntries
BY DEF IInv, RecordTypes, SameEntries

LEMMA FilesKept ==
  ASSUME IInv, UNCHANGED files, pc' # "verify"
  PROVE  BitsCrashed' /\ BitsHung'
<1>1. BitsCrashed'
  BY DEF IInv, BitsCrashed, files, Recorded
<1>2. BitsHung'
  BY DEF IInv, BitsHung, files, Recorded
<1> QED
  BY <1>1, <1>2

\* abort_calibration changes no checksum, and marks an entry that varied.
LEMMA MarksKeep ==
  ASSUME IInv, pc = "calibrated", NEW changed \in EntryRecord,
         changed.exec_cksum = queue[at].exec_cksum,
         changed.var_behavior = queue[at].var_behavior,
         Marks(changed), UNCHANGED <<seen, virgin_bits>>
  PROVE  SameEntries
<1> DEFINE newcov == cal.new_bits = 2 /\ ~ queue[at].has_new_cov
           newvar == cal.var_detected /\ ~ queue[at].var_behavior
           e == [changed EXCEPT !.has_new_cov = @ \/ newcov, !.var_behavior = @ \/ newvar]
<1>1. queue' = [queue EXCEPT ![at] = e]
  BY DEF Marks
<1>2. newcov \in BOOLEAN /\ newvar \in BOOLEAN
  OBVIOUS
<1>3. /\ e.exec_cksum = changed.exec_cksum /\ (e.var_behavior <=> changed.var_behavior \/ newvar)
      /\ e \in EntryRecord
  <2> HIDE DEF newcov, newvar
  <2>1. /\ changed.has_new_cov \in BOOLEAN /\ changed.var_behavior \in BOOLEAN
    BY DEF EntryRecord
  <2>2. (changed.has_new_cov \/ newcov) \in BOOLEAN /\ (changed.var_behavior \/ newvar) \in BOOLEAN
    OBVIOUS
  <2> QED
    BY <1>2, <2>1, <2>2 DEF EntryRecord
<1>4. at \in DOMAIN queue /\ queue \in Seq(EntryRecord)
  BY DEF IInv, Located, Calibrating, RecordTypes
<1>5. cal.var_detected => Differ(seen[at])
  BY DEF IInv, Vary, Calibrating
<1>6. newvar => cal.var_detected
  OBVIOUS
<1> HIDE DEF e, newcov, newvar
<1>7. /\ queue' \in Seq(EntryRecord) /\ Len(queue') = Len(queue)
      /\ queue'[at] = e
      /\ \A k \in DOMAIN queue : k # at => queue'[k] = queue[k]
  BY <1>1, <1>3, <1>4, Replaced
<1>8. \A q \in DOMAIN queue :
        /\ queue'[q].exec_cksum = queue[q].exec_cksum
        /\ queue'[q].var_behavior => queue[q].var_behavior \/ Differ(seen[q])
  BY <1>3, <1>5, <1>6, <1>7
<1>9. DOMAIN queue = 1 .. Len(queue)
  BY <1>4, LenProperties
<1> QED
  BY <1>7, <1>8, <1>9 DEF SameEntries

-----------------------------------------------------------------------------
(* One lemma for every action *)

LEMMA InitGivesIInv ==
  ASSUME Init
  PROVE  IInv
<1> DEFINE e == Entry(0, NoCksum)
           n == [q \in 1 .. Seeds |-> e]
           s == [q \in 1 .. Seeds |-> {}]
<1>1. Seeds \in Nat \ {0}
  BY CalibrationAssumption
<1>2. Pristine \in BitMap /\ Blank \in BitMap
  BY DEF Pristine, Blank, BitMap
<1>3. e \in EntryRecord /\ e.exec_cksum = NoCksum /\ ~ e.var_behavior
  BY DEF Entry, EntryRecord
<1> HIDE DEF e
<1>4. n \in Seq(EntryRecord) /\ Len(n) = Seeds /\ DOMAIN n = 1 .. Seeds
  BY <1>1, <1>3, SeqDef, LenProperties
<1>5. s \in Seq(SUBSET BitMap) /\ Len(s) = Seeds /\ DOMAIN s = 1 .. Seeds
  BY <1>1, SeqDef, LenProperties
<1>6. << >> \in Seq(CrashRecord) /\ << >> \in Seq(HangRecord) /\ DOMAIN << >> = {}
  BY EmptySeq
<1>7. queue = n /\ seen = s
  BY DEF Init, e
<1>8. /\ \A q \in DOMAIN queue : queue[q].exec_cksum = NoCksum /\ ~ queue[q].var_behavior
      /\ \A q \in DOMAIN seen : seen[q] = {}
      /\ DOMAIN crashes = {} /\ DOMAIN hangs = {}
  BY <1>3, <1>4, <1>5, <1>6, <1>7 DEF Init
<1>9. MapTypes
  BY <1>2, <1>5, <1>7 DEF Init, MapTypes
<1>10. cal \in CalRecord
  BY DEF Init, CalRecord, Callers, Faults
<1>11. RecordTypes
  <2>1. queue \in Seq(EntryRecord) /\ crashes \in Seq(CrashRecord) /\ hangs \in Seq(HangRecord)
    BY <1>4, <1>6, <1>7 DEF Init
  <2>2. /\ crash_mode \in Modes /\ at = 1 /\ messages_sent = 0 /\ kill_signal = 0
        /\ fault = "none" /\ last = "none" /\ pc = "dry_run"
    BY DEF Init
  <2> QED
    BY <1>10, <2>1, <2>2 DEF RecordTypes, Faults, Places
<1>12. Located
  BY <1>1, <1>4, <1>5, <1>7 DEF Init, Located, Calibrating
<1>13. Checksummed /\ Fresh
  BY <1>8 DEF Init, Checksummed, Fresh, Calibrating
<1>14. BitsSeen /\ BitsCrashed /\ BitsHung
  BY <1>8 DEF Init, BitsSeen, BitsCrashed, BitsHung, Shown, Recorded, Pristine
<1>15. Judged
  BY <1>8 DEF Init, Judged, Calibrating
<1>16. Vary
  BY <1>8, FS_EmptySet DEF Init, Vary, Calibrating
<1> QED
  BY <1>9, <1>11, <1>12, <1>13, <1>14, <1>15, <1>16 DEF IInv

LEMMA StopKeeps ==
  ASSUME IInv, UNCHANGED <<crash_mode, queue, trace_bits, messages_sent, kill_signal, virgin_bits,
                           files, var_bytes, first_trace, cal, at, fault, pc, seen, last>>
  PROVE  IInv'
<1>1. MapTypes' /\ RecordTypes'
  BY DEF IInv, MapTypes, RecordTypes, files
<1>2. Located' /\ Checksummed' /\ BitsSeen'
  BY DEF IInv, Located, Calibrating, Checksummed, BitsSeen, Shown
<1>3. BitsCrashed' /\ BitsHung'
  BY DEF IInv, BitsCrashed, BitsHung, Recorded, files
<1>4. Judged' /\ Fresh'
  BY DEF IInv, Judged, Fresh, Calibrating, files
<1>5. Vary'
  BY DEF IInv, Vary, Differ, Calibrating
<1> QED
  BY <1>1, <1>2, <1>3, <1>4, <1>5 DEF IInv

\* A run that does not end as it should.
LEMMA FailedCycleKeeps ==
  ASSUME IInv, pc = "calibrate", NEW o \in Outcomes, run_target(o), seen' = seen,
         NEW f \in Faults \cup {"noinst"}, cal' = [cal EXCEPT !.fault = f],
         pc' = "calibrated",
         UNCHANGED <<queue, virgin_bits, var_bytes, first_trace, options, runs, files, at, fault,
                     counters, stop_soon>>
  PROVE  IInv'
<1>1. classify_counts(o.hits) \in BitMap /\ o.fault \in Faults /\ o.sent \in Nat /\ o.sig \in Nat
  BY ClassifyTyped
<1>2. MapTypes'
  BY <1>1 DEF IInv, MapTypes, run_target, files
<1>3. cal' \in CalRecord /\ cal'.caller = cal.caller /\ cal'.var_detected = cal.var_detected
  BY DEF IInv, RecordTypes, CalRecord
<1>4. RecordTypes'
  BY <1>1, <1>3 DEF IInv, RecordTypes, run_target, files, options, Places
<1>5. SameEntries
  BY QueueKept
<1>6. /\ Checksummed' /\ BitsSeen' /\ Len(seen') = Len(queue') /\ Seeds <= Len(queue')
  BY <1>5, EntriesKept
<1>7. Located'
  BY <1>6 DEF IInv, Located, Calibrating
<1>8. BitsCrashed' /\ BitsHung'
  BY FilesKept
<1>9. Judged' /\ Fresh'
  BY <1>3 DEF IInv, Judged, Fresh, Calibrating, files, options
<1>10. Vary'
  BY <1>3 DEF IInv, Vary, Differ, Calibrating
<1> QED
  BY <1>2, <1>4, <1>6, <1>7, <1>8, <1>9, <1>10 DEF IInv

\* What every cycle that ends as it should adds to what was seen.
LEMMA SeenGrows ==
  ASSUME IInv, pc = "calibrate", NEW t \in BitMap, seen' = [seen EXCEPT ![at] = @ \cup {t}]
  PROVE  /\ seen' \in Seq(SUBSET BitMap) /\ Len(seen') = Len(seen) /\ DOMAIN seen' = DOMAIN seen
         /\ at \in DOMAIN seen /\ t \in seen'[at] /\ seen'[at] = seen[at] \cup {t}
         /\ \A q \in DOMAIN seen : seen[q] \subseteq seen'[q]
         /\ \A q \in DOMAIN seen : Differ(seen[q]) => Differ(seen'[q])
         /\ BytesVary /\ var_bytes' = var_bytes => BytesVary'
         /\ AllFinite'
         /\ \A i, b : Shown(seen', i, b) <=> Shown(seen, i, b) \/ b \in t[i]
<1>1. at \in DOMAIN seen /\ seen \in Seq(SUBSET BitMap)
  BY Domains DEF IInv, Located, Calibrating, MapTypes
<1>2. seen[at] \cup {t} \in SUBSET BitMap
  BY <1>1, LenProperties
<1>3. /\ seen' \in Seq(SUBSET BitMap) /\ Len(seen') = Len(seen) /\ DOMAIN seen' = DOMAIN seen
      /\ seen'[at] = seen[at] \cup {t}
      /\ \A q \in DOMAIN seen : q # at => seen'[q] = seen[q]
  BY <1>1, <1>2, Replaced
<1>4. \A q \in DOMAIN seen : seen[q] \subseteq seen'[q]
  BY <1>3
<1>5. \A q \in DOMAIN seen : Differ(seen[q]) => Differ(seen'[q])
  BY <1>4 DEF Differ
<1>6. BytesVary /\ var_bytes' = var_bytes => BytesVary'
  BY <1>3, <1>4 DEF BytesVary
<1>7. AllFinite'
  <2>1. \A q \in DOMAIN seen : IsFiniteSet(seen[q])
    BY DEF IInv, Vary
  <2>2. IsFiniteSet(seen[at] \cup {t})
    BY <1>1, <2>1, FS_AddElement
  <2> QED
    BY <1>3, <2>1, <2>2 DEF AllFinite
<1>8. \A i, b : Shown(seen', i, b) <=> Shown(seen, i, b) \/ b \in t[i]
  BY <1>1, TraceAdded
<1> QED
  BY <1>1, <1>3, <1>4, <1>5, <1>6, <1>7, <1>8

\* A run that shows the trace whose checksum the entry has.
LEMMA SameCycleKeeps ==
  ASSUME IInv, pc = "calibrate", NEW o \in Outcomes, run_target(o),
         o.fault = crash_mode,
         seen' = [seen EXCEPT ![at] = @ \cup {classify_counts(o.hits)}],
         queue[at].exec_cksum = classify_counts(o.hits),
         cal' = [cal EXCEPT !.fault = o.fault, !.stage_cur = @ + 1],
         UNCHANGED <<queue, virgin_bits, var_bytes, first_trace, pc, options, runs, files, at, fault,
                     counters, stop_soon>>
  PROVE  IInv'
<1> DEFINE t == classify_counts(o.hits)
<1>1. t \in BitMap /\ o.fault \in Faults /\ o.sent \in Nat /\ o.sig \in Nat
  BY ClassifyTyped
<1>2. MapTypes /\ RecordTypes /\ Located /\ Checksummed /\ BitsSeen /\ Judged /\ Fresh /\ Vary
  BY DEF IInv
<1>3. t \in seen[at] /\ at \in DOMAIN queue
  BY <1>1, <1>2, ChecksumOfTrace DEF Checksummed, Located, Calibrating
<1>4. /\ trace_bits' = t /\ messages_sent' = o.sent /\ last' = o.fault
      /\ kill_signal' \in {o.sig, kill_signal}
  BY DEF run_target
<1>5. seen' = [seen EXCEPT ![at] = @ \cup {t}]
  OBVIOUS
<1> HIDE DEF t
<1>6. /\ seen' \in Seq(SUBSET BitMap) /\ Len(seen') = Len(seen) /\ DOMAIN seen' = DOMAIN seen
      /\ at \in DOMAIN seen /\ seen'[at] = seen[at] \cup {t}
      /\ \A q \in DOMAIN seen : seen[q] \subseteq seen'[q]
      /\ \A q \in DOMAIN seen : Differ(seen[q]) => Differ(seen'[q])
      /\ BytesVary /\ var_bytes' = var_bytes => BytesVary'
      /\ AllFinite'
  BY <1>1, <1>5, SeenGrows
<1>7. \A i, b : Shown(seen', i, b) <=> Shown(seen, i, b)
  <2>1. \A i, b : Shown(seen', i, b) <=> Shown(seen, i, b) \/ b \in t[i]
    BY <1>1, <1>5, SeenGrows
  <2>2. \A i, b : b \in t[i] => Shown(seen, i, b)
    BY <1>3, <1>6 DEF Shown
  <2> QED
    BY <2>1, <2>2
<1>8. MapTypes'
  BY <1>1, <1>2, <1>4, <1>6 DEF MapTypes, files
<1>9. cal' \in CalRecord /\ cal'.caller = cal.caller /\ cal'.var_detected = cal.var_detected
  <2>1. cal \in CalRecord
    BY <1>2 DEF RecordTypes
  <2>2. cal.stage_cur + 1 \in Nat /\ o.fault \in Faults \cup {"noinst", "nobits"}
    BY <1>1, <2>1 DEF CalRecord
  <2> QED
    BY <2>1, <2>2 DEF CalRecord
<1>10. RecordTypes'
  BY <1>1, <1>2, <1>4, <1>9 DEF RecordTypes, files, options
<1>11. Located'
  BY <1>2, <1>6 DEF Located, Calibrating
<1>12. Checksummed'
  BY <1>2, <1>6, Domains DEF Checksummed
<1>13. BitsSeen'
  BY <1>2, <1>7 DEF BitsSeen
<1>14. BitsCrashed' /\ BitsHung'
  BY FilesKept
<1>15. Judged'
  BY <1>2, <1>9 DEF Judged, Calibrating, files, options
<1>16. Fresh'
  BY <1>2, <1>6, <1>9 DEF Fresh, Calibrating
<1>17. Vary'
  BY <1>2, <1>6, <1>9, Domains DEF Vary, BytesVary, AllFinite, Calibrating
<1> QED
  BY <1>8, <1>10, <1>11, <1>12, <1>13, <1>14, <1>15, <1>16, <1>17 DEF IInv

\* A run that shows another trace than the checksum is of, or the first one.
LEMMA NewCycleKeeps ==
  ASSUME IInv, pc = "calibrate", NEW o \in Outcomes, run_target(o),
         o.fault = crash_mode,
         seen' = [seen EXCEPT ![at] = @ \cup {classify_counts(o.hits)}],
         queue[at].exec_cksum # classify_counts(o.hits),
         virgin_bits' = Without(virgin_bits, classify_counts(o.hits)),
         cal' \in CalRecord, cal'.caller = cal.caller,
         cal'.var_detected <=> cal.var_detected \/ queue[at].exec_cksum # NoCksum,
         \/ /\ queue[at].exec_cksum = NoCksum
            /\ queue' = [queue EXCEPT ![at].exec_cksum = classify_counts(o.hits)]
            /\ first_trace' = classify_counts(o.hits)
            /\ var_bytes' = var_bytes
         \/ /\ queue[at].exec_cksum # NoCksum
            /\ var_bytes' = var_bytes \cup {i \in MapBytes : /\ i \notin var_bytes
                                                             /\ first_trace[i] # classify_counts(o.hits)[i]}
            /\ UNCHANGED <<queue, first_trace>>,
         UNCHANGED <<pc, options, runs, files, at, fault, counters, stop_soon>>
  PROVE  IInv'
<1> DEFINE t == classify_counts(o.hits)
<1>1. t \in BitMap /\ o.fault \in Faults /\ o.sent \in Nat /\ o.sig \in Nat
  BY ClassifyTyped
<1>2. MapTypes /\ RecordTypes /\ Located /\ Checksummed /\ BitsSeen /\ Judged /\ Fresh /\ Vary
  BY DEF IInv
<1>3. /\ trace_bits' = t /\ messages_sent' = o.sent /\ last' = o.fault
      /\ kill_signal' \in {o.sig, kill_signal}
  BY DEF run_target
<1>4. /\ seen' = [seen EXCEPT ![at] = @ \cup {t}]
      /\ virgin_bits' = Without(virgin_bits, t)
      /\ queue[at].exec_cksum # t
  OBVIOUS
<1>5. \/ /\ queue[at].exec_cksum = NoCksum
         /\ queue' = [queue EXCEPT ![at].exec_cksum = t]
         /\ first_trace' = t
         /\ var_bytes' = var_bytes
      \/ /\ queue[at].exec_cksum # NoCksum
         /\ var_bytes' = var_bytes \cup {i \in MapBytes : i \notin var_bytes /\ first_trace[i] # t[i]}
         /\ UNCHANGED <<queue, first_trace>>
  OBVIOUS
<1> HIDE DEF t
<1>6. /\ seen' \in Seq(SUBSET BitMap) /\ Len(seen') = Len(seen) /\ DOMAIN seen' = DOMAIN seen
      /\ at \in DOMAIN seen /\ seen'[at] = seen[at] \cup {t}
      /\ \A q \in DOMAIN seen : seen[q] \subseteq seen'[q]
      /\ \A q \in DOMAIN seen : Differ(seen[q]) => Differ(seen'[q])
      /\ BytesVary /\ var_bytes' = var_bytes => BytesVary'
      /\ AllFinite'
      /\ \A i, b : Shown(seen', i, b) <=> Shown(seen, i, b) \/ b \in t[i]
  BY <1>1, <1>4, SeenGrows
<1>7. /\ virgin_bits' \in BitMap
      /\ \A i \in MapBytes : \A b \in Bits :
           b \notin virgin_bits'[i] <=> b \notin virgin_bits[i] \/ b \in t[i]
  BY <1>1, <1>2, <1>4, WithoutTakes DEF MapTypes
<1>8. /\ DOMAIN queue = 1 .. Len(queue) /\ DOMAIN seen = DOMAIN queue
      /\ queue[at] \in EntryRecord /\ queue \in Seq(EntryRecord)
      /\ BytesVary
  BY <1>2, <1>6, Domains DEF RecordTypes, Vary, BytesVary
<1>9. /\ queue' \in Seq(EntryRecord) /\ Len(queue') = Len(queue) /\ DOMAIN queue' = DOMAIN queue
      /\ first_trace' \in BitMap /\ var_bytes' \subseteq MapBytes
      /\ queue'[at].exec_cksum \in seen'[at]
      /\ \A q \in DOMAIN queue : queue'[q].var_behavior => queue[q].var_behavior
      /\ \A q \in DOMAIN queue : q # at => queue'[q] = queue[q]
      /\ first_trace' \in seen'[at]
      /\ BytesVary'
      /\ queue[at].exec_cksum # NoCksum => Differ(seen'[at])
  <2>1. CASE queue[at].exec_cksum = NoCksum
    <3> DEFINE e == [queue[at] EXCEPT !.exec_cksum = t]
    <3>1. queue' = [queue EXCEPT ![at] = e] /\ first_trace' = t /\ var_bytes' = var_bytes
      BY <1>5, <2>1
    <3>2. e \in EntryRecord /\ e.exec_cksum = t /\ e.var_behavior = queue[at].var_behavior
      BY <1>1, <1>8 DEF EntryRecord
    <3> HIDE DEF e
    <3>3. /\ queue' \in Seq(EntryRecord) /\ Len(queue') = Len(queue) /\ DOMAIN queue' = DOMAIN queue
          /\ queue'[at] = e
          /\ \A q \in DOMAIN queue : q # at => queue'[q] = queue[q]
      BY <1>6, <1>8, <3>1, <3>2, Replaced
    <3>4. var_bytes' \subseteq MapBytes
      BY <1>2, <3>1 DEF MapTypes
    <3>5. \A q \in DOMAIN queue : queue'[q].var_behavior => queue[q].var_behavior
      BY <3>2, <3>3
    <3> QED
      BY <1>1, <1>6, <1>8, <2>1, <3>1, <3>2, <3>3, <3>4, <3>5
  <2>2. CASE queue[at].exec_cksum # NoCksum
    <3> DEFINE varying == {i \in MapBytes : i \notin var_bytes /\ first_trace[i] # t[i]}
    <3>1. queue' = queue /\ first_trace' = first_trace /\ var_bytes' = var_bytes \cup varying
      BY <1>5, <2>2
    <3>2. first_trace \in seen[at] /\ queue[at].exec_cksum \in seen[at]
      BY <1>2, <1>6, <1>8, <2>2 DEF Fresh, Checksummed
    <3>3. first_trace \in BitMap /\ var_bytes \subseteq MapBytes
      BY <1>2 DEF MapTypes
    <3>4. \A i \in varying : first_trace[i] # t[i] /\ first_trace \in seen'[at] /\ t \in seen'[at]
      BY <1>6, <3>2
    <3>5. varying \subseteq MapBytes
      OBVIOUS
    <3> HIDE DEF varying
    <3>6. \A i \in var_bytes : \E q \in DOMAIN seen' : \E u, v \in seen'[q] : u[i] # v[i]
      BY <1>6, <1>8 DEF BytesVary
    <3>7. BytesVary'
      BY <1>6, <3>1, <3>4, <3>6 DEF BytesVary
    <3>8. Differ(seen'[at])
      BY <1>4, <1>6, <3>2 DEF Differ
    <3> QED
      BY <1>6, <1>8, <3>1, <3>2, <3>3, <3>5, <3>7, <3>8
  <2> QED
    BY <2>1, <2>2
<1>10. MapTypes'
  <2>1. virgin_tmout' = virgin_tmout /\ virgin_crash' = virgin_crash
    BY DEF files
  <2> QED
    BY <1>1, <1>2, <1>3, <1>6, <1>7, <1>9, <2>1 DEF MapTypes
<1>11. RecordTypes'
  <2>1. /\ crashes' = crashes /\ hangs' = hangs /\ crash_mode' = crash_mode
        /\ messages_sent' \in Nat /\ last' \in Faults
    BY <1>1, <1>3 DEF files, options
  <2>2. kill_signal' \in Nat
    BY <1>1, <1>2, <1>3 DEF RecordTypes
  <2> QED
    BY <1>2, <1>9, <2>1, <2>2 DEF RecordTypes
<1>12. Located'
  BY <1>2, <1>6, <1>9 DEF Located, Calibrating
<1>13. Checksummed'
  BY <1>2, <1>6, <1>8, <1>9 DEF Checksummed
<1>14. BitsSeen'
  BY <1>2, <1>6, <1>7 DEF BitsSeen
<1>15. BitsCrashed' /\ BitsHung'
  BY FilesKept
<1>16. Judged'
  BY <1>2 DEF Judged, Calibrating, files, options
<1>17. Fresh'
  <2>1. pc' = pc /\ at' = at
    OBVIOUS
  <2>2. \A q \in DOMAIN queue' : q > at => queue'[q] = queue[q]
    <3>1. \A q \in 1 .. Len(queue) : q > at => q # at
      BY <1>2 DEF RecordTypes
    <3> QED
      BY <1>8, <1>9, <3>1
  <2> QED
    BY <1>2, <1>9, <2>1, <2>2 DEF Fresh, Calibrating
<1>18. Vary'
  <2>1. \A q \in DOMAIN queue' : queue'[q].var_behavior => Differ(seen'[q])
    BY <1>2, <1>6, <1>8, <1>9 DEF Vary
  <2>2. Calibrating' /\ cal'.var_detected => Differ(seen'[at])
    BY <1>2, <1>6, <1>9 DEF Vary, Calibrating
  <2> QED
    BY <1>6, <1>9, <2>1, <2>2 DEF Vary, BytesVary, AllFinite
<1> QED
  BY <1>10, <1>11, <1>12, <1>13, <1>14, <1>15, <1>16, <1>17, <1>18 DEF IInv

LEMMA CycleKeeps ==
  ASSUME IInv, NEW o \in Outcomes, Cycle(o)
  PROVE  IInv'
<1> DEFINE trace == classify_counts(o.hits)
           q == queue[at]
           varying == {i \in MapBytes : i \notin var_bytes /\ first_trace[i] # trace[i]}
           failed == \/ stop_soon \/ o.fault # crash_mode
                     \/ cal.stage_cur = 0 /\ count_bytes(trace) = 0
<1>1. /\ pc = "calibrate" /\ run_target(o)
      /\ UNCHANGED <<options, runs, files, at, fault, counters, stop_soon>>
      /\ seen' = IF failed THEN seen ELSE [seen EXCEPT ![at] = @ \cup {trace}]
  BY DEF Cycle
<1>2. CASE /\ failed
           /\ cal' = [cal EXCEPT !.fault = IF stop_soon \/ o.fault # crash_mode THEN o.fault
                                                                              ELSE "noinst"]
           /\ pc' = "calibrated"
           /\ UNCHANGED <<queue, virgin_bits, var_bytes, first_trace>>
  <2> DEFINE f == IF stop_soon \/ o.fault # crash_mode THEN o.fault ELSE "noinst"
  <2>1. f \in Faults \cup {"noinst"} /\ cal' = [cal EXCEPT !.fault = f]
    BY <1>2, ClassifyTyped
  <2> HIDE DEF f
  <2> QED
    BY <1>1, <1>2, <2>1, FailedCycleKeeps
<1>3. CASE /\ ~ failed /\ q.exec_cksum = trace
           /\ cal' = [cal EXCEPT !.fault = o.fault, !.stage_cur = @ + 1]
           /\ UNCHANGED <<queue, virgin_bits, var_bytes, first_trace, pc>>
  <2>1. seen' = [seen EXCEPT ![at] = @ \cup {trace}] /\ o.fault = crash_mode
    BY <1>1, <1>3
  <2> QED
    BY <1>1, <1>3, <2>1, SameCycleKeeps
<1>4. CASE /\ ~ failed /\ q.exec_cksum # trace
           /\ virgin_bits' = Without(virgin_bits, trace)
           /\ IF q.exec_cksum = NoCksum
                THEN /\ queue' = [queue EXCEPT ![at].exec_cksum = trace]
                     /\ first_trace' = trace
                     /\ var_bytes' = var_bytes
                ELSE /\ var_bytes' = var_bytes \cup varying
                     /\ UNCHANGED <<queue, first_trace>>
           /\ cal' = [cal EXCEPT !.fault = o.fault,
                                 !.stage_cur = @ + 1,
                                 !.new_bits = Max({@, has_new_bits(trace, virgin_bits)}),
                                 !.stage_max = IF q.exec_cksum # NoCksum /\ varying # {}
                                                 THEN CAL_CYCLES_LONG ELSE @,
                                 !.var_detected = @ \/ q.exec_cksum # NoCksum]
           /\ pc' = pc
  <2>1. seen' = [seen EXCEPT ![at] = @ \cup {trace}] /\ o.fault = crash_mode
    BY <1>1, <1>4
  <2> DEFINE sm == IF q.exec_cksum # NoCksum /\ varying # {} THEN CAL_CYCLES_LONG ELSE cal.stage_max
             nb == Max({cal.new_bits, has_new_bits(trace, virgin_bits)})
             vd == cal.var_detected \/ q.exec_cksum # NoCksum
  <2>2. cal \in CalRecord
    BY DEF IInv, RecordTypes
  <2>3. cal.new_bits \in 0 .. 2 /\ cal.stage_max \in Nat /\ cal.stage_cur + 1 \in Nat
    BY <2>2 DEF CalRecord
  <2>4. nb \in 0 .. 2
    BY <2>3, NewBitsTyped, MaxTyped
  <2>5. sm \in Nat
    BY <2>3, CalibrationAssumption
  <2>6. vd \in BOOLEAN /\ o.fault \in Faults \cup {"noinst", "nobits"}
    BY ClassifyTyped
  <2>7. cal' = [cal EXCEPT !.fault = o.fault, !.stage_cur = cal.stage_cur + 1, !.new_bits = nb,
                           !.stage_max = sm, !.var_detected = vd]
    BY <1>4, <2>2 DEF CalRecord
  <2>8. cal' \in CalRecord /\ cal'.caller = cal.caller /\ cal'.var_detected = vd
    <3> HIDE DEF sm, nb, vd
    <3> QED
      BY <2>2, <2>3, <2>4, <2>5, <2>6, <2>7 DEF CalRecord
  <2> QED
    BY <1>1, <1>4, <2>1, <2>8, NewCycleKeeps
<1> QED
  BY <1>2, <1>3, <1>4 DEF Cycle

LEMMA LeavesEntries ==
  ASSUME IInv, SameEntries, UNCHANGED <<var_bytes, first_trace, cal, at>>,
         pc' \in {"fuzz", "file", "verify", "ended"},
         MapTypes', RecordTypes', BitsCrashed', BitsHung', Judged'
  PROVE  IInv'
<1>1. /\ Checksummed' /\ BitsSeen' /\ Marked' /\ AllFinite'
      /\ Len(seen') = Len(queue') /\ Seeds <= Len(queue')
  BY EntriesKept
<1>2. ~ Calibrating' /\ pc' # "dry_run" /\ pc' # "calibrate"
  BY DEF Calibrating
<1>3. Located' /\ Fresh'
  BY <1>1, <1>2 DEF Located, Fresh
<1>4. Vary'
  BY <1>1, <1>2 DEF IInv, Vary, SameEntries, Marked, AllFinite
<1> QED
  BY <1>1, <1>3, <1>4 DEF IInv

LEMMA MeasuredKeeps ==
  ASSUME IInv, Measured
  PROVE  IInv'
<1> DEFINE n == count_bytes(trace_bits)
           e == [queue[at] EXCEPT !.bitmap_size = n, !.cal_failed = 0]
<1>1. /\ pc = "calibrate" /\ pc' = "calibrated"
      /\ UNCHANGED <<options, runs, trace_bits, messages_sent, kill_signal, virgin_bits, files,
                     var_bytes, first_trace, at, fault, stop_soon, seen, last>>
  BY DEF Measured
<1>2. MapTypes /\ RecordTypes /\ Located /\ Checksummed /\ BitsSeen /\ Judged /\ Fresh /\ Vary
  BY DEF IInv
<1>3. /\ DOMAIN queue = 1 .. Len(queue) /\ DOMAIN seen = DOMAIN queue
      /\ at \in DOMAIN queue /\ queue[at] \in EntryRecord /\ queue \in Seq(EntryRecord)
  BY <1>1, <1>2, Domains DEF RecordTypes, Located, Calibrating
<1>4. queue' = [queue EXCEPT ![at] = e]
  BY <1>3 DEF Measured, EntryRecord
<1>5. n \in Nat
  BY CountTyped
<1>6. /\ e \in EntryRecord /\ e.exec_cksum = queue[at].exec_cksum
      /\ e.var_behavior = queue[at].var_behavior
  <2> HIDE DEF n
  <2> QED
    BY <1>3, <1>5 DEF EntryRecord
<1> HIDE DEF e
<1>7. /\ queue' \in Seq(EntryRecord) /\ Len(queue') = Len(queue)
      /\ queue'[at] = e
      /\ \A k \in DOMAIN queue : k # at => queue'[k] = queue[k]
  BY <1>3, <1>4, <1>6, Replaced
<1>8. SameEntries
  BY <1>1, <1>3, <1>6, <1>7 DEF SameEntries
<1>9. /\ Checksummed' /\ BitsSeen' /\ Marked' /\ AllFinite' /\ DOMAIN queue' = DOMAIN queue
      /\ Len(seen') = Len(queue') /\ Seeds <= Len(queue')
  BY <1>8, EntriesKept
<1>10. cal' \in CalRecord /\ cal'.caller = cal.caller /\ cal'.var_detected = cal.var_detected
  <2>1. cal' \in {cal, [cal EXCEPT !.fault = "nobits"]}
    BY DEF Measured
  <2> QED
    BY <1>2, <2>1 DEF RecordTypes, CalRecord
<1>11. MapTypes'
  BY <1>1, <1>2 DEF MapTypes, files
<1>12. RecordTypes'
  BY <1>1, <1>2, <1>7, <1>10 DEF RecordTypes, files, options, Places
<1>13. Located'
  BY <1>1, <1>3, <1>9 DEF Located
<1>14. BitsCrashed' /\ BitsHung'
  BY <1>1, FilesKept
<1>15. Judged'
  BY <1>1, <1>2, <1>10 DEF Judged, Calibrating, files, options
<1>16. Fresh'
  BY <1>1, <1>2, <1>3, <1>8, <1>9, <1>10 DEF Fresh, Calibrating, SameEntries
<1>17. Vary'
  BY <1>1, <1>2, <1>9, <1>10 DEF Vary, Marked, AllFinite, Calibrating
<1> QED
  BY <1>9, <1>11, <1>12, <1>13, <1>14, <1>15, <1>16, <1>17 DEF IInv

LEMMA DryRunKeeps ==
  ASSUME IInv, DryRun
  PROVE  IInv'
<1>1. /\ pc = "dry_run"
      /\ UNCHANGED <<options, runs, trace_bits, messages_sent, kill_signal, virgin_bits, files,
                     var_bytes, fault, counters, stop_soon, seen, last>>
  BY DEF DryRun
<1>2. MapTypes /\ RecordTypes /\ Located /\ Checksummed /\ BitsSeen /\ Judged /\ Fresh /\ Vary
  BY DEF IInv
<1>3. CASE at <= Seeds /\ Begin(at, queue, trace_bits, "perform_dry_run")
  <2> DEFINE e == [queue[at] EXCEPT !.cal_failed = @ + 1]
  <2>1. /\ DOMAIN queue = 1 .. Len(queue) /\ DOMAIN seen = DOMAIN queue /\ Len(queue) \in Nat
        /\ \A q \in DOMAIN queue : queue[q] \in EntryRecord
        /\ queue \in Seq(EntryRecord) /\ at \in Nat \ {0}
    BY <1>2, Domains DEF RecordTypes
  <2>2. at \in DOMAIN queue
    BY <1>2, <1>3, <2>1, CalibrationAssumption DEF Located
  <2>3. queue' = [queue EXCEPT ![at] = e] /\ at' = at /\ pc' = "calibrate"
    BY <1>3 DEF Begin
  <2>4. queue[at].exec_cksum = NoCksum
    BY <1>1, <1>2, <2>1, <2>2 DEF Fresh
  <2>5. /\ e \in EntryRecord /\ e.exec_cksum = queue[at].exec_cksum
        /\ e.var_behavior = queue[at].var_behavior
    <3>0. queue[at] \in EntryRecord
      BY <2>1, <2>2
    <3>1. queue[at].cal_failed + 1 \in Nat
      BY <3>0 DEF EntryRecord
    <3> QED
      BY <3>0, <3>1 DEF EntryRecord
  <2> HIDE DEF e
  <2>6. /\ queue' \in Seq(EntryRecord) /\ Len(queue') = Len(queue)
        /\ queue'[at] = e
        /\ \A k \in DOMAIN queue : k # at => queue'[k] = queue[k]
    BY <2>1, <2>2, <2>3, <2>5, Replaced
  <2>7. SameEntries
    BY <1>1, <2>1, <2>5, <2>6 DEF SameEntries
  <2>8. /\ Checksummed' /\ BitsSeen' /\ Marked' /\ AllFinite' /\ DOMAIN queue' = DOMAIN queue
        /\ Len(seen') = Len(queue') /\ Seeds <= Len(queue')
    BY <2>7, EntriesKept
  <2>9. /\ cal' \in CalRecord /\ cal'.caller = "perform_dry_run" /\ ~ cal'.var_detected
        /\ first_trace' = first_trace
    BY <1>3, <2>4, CalibrationAssumption DEF Begin, CalRecord, Callers, Faults
  <2>10. MapTypes'
    BY <1>1, <1>2, <2>9 DEF MapTypes, files
  <2>11. RecordTypes'
    BY <1>1, <1>2, <2>3, <2>6, <2>9 DEF RecordTypes, files, options, Places
  <2>12. Located'
    BY <2>2, <2>3, <2>8 DEF Located
  <2>13. BitsCrashed' /\ BitsHung'
    BY <1>1, <2>3, FilesKept
  <2>14. Judged'
    BY <1>1, <1>2, <2>3, <2>9 DEF Judged, files, options
  <2>15. Fresh'
    <3>1. \A q \in DOMAIN queue : q > at => queue[q].exec_cksum = NoCksum
      BY <1>1, <1>2, <2>1 DEF Fresh
    <3> QED
      BY <2>1, <2>2, <2>3, <2>4, <2>7, <2>8, <3>1 DEF Fresh, Calibrating, SameEntries
  <2>16. Vary'
    BY <1>1, <1>2, <2>8, <2>9 DEF Vary, Marked, AllFinite
  <2> QED
    BY <2>8, <2>10, <2>11, <2>12, <2>13, <2>14, <2>15, <2>16 DEF IInv
<1>4. CASE /\ at > Seeds
           /\ pc' = IF counters.cal_failures = Len(queue) THEN "ended" ELSE "fuzz"
           /\ UNCHANGED <<queue, first_trace, cal, at>>
  <2>1. pc' \in {"fuzz", "ended"}
    BY <1>4
  <2>2. SameEntries
    BY <1>1, <1>4, QueueKept
  <2>3. BitsCrashed' /\ BitsHung'
    BY <1>1, <2>1, FilesKept
  <2>4. MapTypes'
    BY <1>1, <1>2, <1>4 DEF MapTypes, files
  <2>5. RecordTypes'
    BY <1>1, <1>2, <1>4, <2>1 DEF RecordTypes, files, options, Places
  <2>6. Judged'
    BY <1>1, <1>2, <2>1 DEF Judged, Calibrating, files, options
  <2> QED
    BY <1>1, <1>4, <2>1, <2>2, <2>3, <2>4, <2>5, <2>6, LeavesEntries
<1> QED
  BY <1>3, <1>4 DEF DryRun

LEMMA DryVerdictKeeps ==
  ASSUME IInv, DryVerdict
  PROVE  IInv'
<1> DEFINE cf == IF ~stop_soon /\ tolerant /\ \/ cal.fault = "tmout"
                                              \/ cal.fault = "crash" /\ crash_mode = "none"
                   THEN CAL_CHANCES ELSE queue[at].cal_failed
           changed == [queue[at] EXCEPT !.sent = messages_sent, !.cal_failed = cf]
<1>1. /\ pc = "calibrated" /\ cal.caller = "perform_dry_run"
      /\ UNCHANGED <<options, runs, trace_bits, messages_sent, kill_signal, virgin_bits, files,
                     var_bytes, first_trace, cal, fault, stop_soon, seen, last>>
      /\ \/ pc' = "ended" /\ at' = at
         \/ pc' = "dry_run" /\ at' = at + 1
  BY DEF DryVerdict
<1>2. MapTypes /\ RecordTypes /\ Located /\ Checksummed /\ BitsSeen /\ Judged /\ Fresh /\ Vary
  BY DEF IInv
<1>3. /\ DOMAIN queue = 1 .. Len(queue) /\ DOMAIN seen = DOMAIN queue /\ Len(queue) \in Nat
      /\ at \in DOMAIN queue /\ queue[at] \in EntryRecord
  BY <1>1, <1>2, Domains DEF Located, Calibrating
<1>4. cf \in Nat /\ messages_sent \in Nat
  BY <1>2, <1>3, CalibrationAssumption DEF RecordTypes, EntryRecord
<1>5. Marks(changed)
  BY <1>3 DEF DryVerdict, EntryRecord
<1> HIDE DEF cf
<1>6. /\ changed \in EntryRecord /\ changed.exec_cksum = queue[at].exec_cksum
      /\ changed.var_behavior = queue[at].var_behavior
  BY <1>3, <1>4 DEF EntryRecord
<1> HIDE DEF changed
<1>7. SameEntries
  BY <1>1, <1>5, <1>6, MarksKeep
<1>8. /\ Checksummed' /\ BitsSeen' /\ Marked' /\ AllFinite' /\ DOMAIN queue' = DOMAIN queue
      /\ Len(seen') = Len(queue') /\ Seeds <= Len(queue')
  BY <1>7, EntriesKept
<1>9. ~ Calibrating' /\ pc' \in Places /\ pc' \notin {"calibrate", "verify", "file"}
  BY <1>1 DEF Calibrating, Places
<1>10. MapTypes'
  BY <1>1, <1>2 DEF MapTypes, files
<1>11. RecordTypes'
  BY <1>1, <1>2, <1>7, <1>9 DEF RecordTypes, files, options, SameEntries
<1>12. Located'
  BY <1>8, <1>9 DEF Located
<1>13. BitsCrashed' /\ BitsHung'
  BY <1>1, <1>9, FilesKept
<1>14. Judged'
  BY <1>1, <1>2, <1>9 DEF Judged, files, options
<1>15. Fresh'
  <2>1. \A q \in DOMAIN queue : q > at => queue'[q].exec_cksum = NoCksum
    BY <1>1, <1>2, <1>3, <1>7 DEF Fresh, Calibrating, SameEntries
  <2>2. ASSUME pc' = "dry_run", NEW q \in DOMAIN queue', q >= at'
        PROVE  queue'[q].exec_cksum = NoCksum
    <3>1. at' = at + 1
      BY <1>1, <2>2
    <3> QED
      BY <1>3, <1>8, <2>1, <2>2, <3>1
  <2> QED
    BY <1>9, <2>2 DEF Fresh
<1>16. Vary'
  BY <1>1, <1>2, <1>8, <1>9 DEF Vary, Marked, AllFinite
<1> QED
  BY <1>8, <1>10, <1>11, <1>12, <1>13, <1>14, <1>15, <1>16 DEF IInv

\* A run that is not looked at, shows nothing new, or is filed.
LEMMA UnlookedKeeps ==
  ASSUME IInv, NEW o \in Outcomes, pc = "fuzz", run_target(o),
         UNCHANGED <<options, files, var_bytes, queue, virgin_bits, first_trace, cal, at, seen>>,
         \/ pc' \in {"fuzz", "ended"} /\ fault' = fault
         \/ pc' = "file" /\ fault' = o.fault
  PROVE  IInv'
<1>1. classify_counts(o.hits) \in BitMap /\ o.fault \in Faults /\ o.sent \in Nat /\ o.sig \in Nat
  BY ClassifyTyped
<1>2. MapTypes /\ RecordTypes /\ Judged
  BY DEF IInv
<1>3. /\ trace_bits' = classify_counts(o.hits) /\ messages_sent' = o.sent /\ last' = o.fault
      /\ kill_signal' \in {o.sig, kill_signal}
  BY DEF run_target
<1>4. SameEntries
  BY QueueKept
<1>5. BitsCrashed' /\ BitsHung'
  BY FilesKept
<1>6. MapTypes'
  BY <1>1, <1>2, <1>3 DEF MapTypes, files
<1>7. RecordTypes'
  <2>1. kill_signal' \in Nat /\ pc' \in Places /\ fault' \in Faults
    BY <1>1, <1>2, <1>3 DEF RecordTypes, Places
  <2> QED
    BY <1>1, <1>2, <1>3, <2>1 DEF RecordTypes, files, options
<1>8. Judged'
  BY <1>2, <1>3 DEF Judged, Calibrating, files, options
<1> QED
  BY <1>4, <1>5, <1>6, <1>7, <1>8, LeavesEntries

LEMMA DiscoveredKeeps ==
  ASSUME IInv, NEW o \in Outcomes, pc = "fuzz", run_target(o), Discovered(o),
         UNCHANGED <<options, files, var_bytes>>
  PROVE  IInv'
<1> DEFINE t == classify_counts(o.hits)
           hnb == has_new_bits(t, virgin_bits)
           entry == [Entry(o.sent, t) EXCEPT !.has_new_cov = hnb = 2]
           n == Len(queue) + 1
           e == [entry EXCEPT !.cal_failed = @ + 1]
<1>1. t \in BitMap /\ o.fault \in Faults /\ o.sent \in Nat
  BY ClassifyTyped
<1>2. o.sig \in Nat
  BY ClassifyTyped
<1>3. MapTypes /\ RecordTypes /\ Located /\ Checksummed /\ BitsSeen /\ Judged /\ Fresh /\ Vary
  BY DEF IInv
<1>4. /\ trace_bits' = t /\ messages_sent' = o.sent /\ last' = o.fault
      /\ kill_signal' \in {o.sig, kill_signal}
  BY DEF run_target
<1>5. /\ o.fault = crash_mode /\ fault' = o.fault
      /\ virgin_bits' = Without(virgin_bits, t) /\ seen' = Append(seen, {t})
      /\ Begin(n, Append(queue, entry), t, "save_if_interesting")
  BY DEF Discovered
<1>6. /\ entry \in EntryRecord /\ e \in EntryRecord /\ entry.exec_cksum = t /\ e.exec_cksum = t
      /\ ~ e.var_behavior
  <2>1. (hnb = 2) \in BOOLEAN
    OBVIOUS
  <2> HIDE DEF hnb, t
  <2>2. /\ entry \in EntryRecord /\ entry.exec_cksum = t /\ ~ entry.var_behavior
        /\ entry.cal_failed = 0
    BY <1>1, <2>1 DEF Entry, EntryRecord
  <2> HIDE DEF entry
  <2>3. entry.cal_failed + 1 \in Nat
    BY <2>2
  <2> QED
    BY <2>2, <2>3 DEF EntryRecord
<1>7. e = [entry EXCEPT !.cal_failed = @ + 1]
  OBVIOUS
<1> HIDE DEF t, hnb, entry, e
<1>8. /\ Append(queue, entry) \in Seq(EntryRecord) /\ Len(Append(queue, entry)) = n
      /\ DOMAIN queue = 1 .. Len(queue) /\ DOMAIN Append(queue, entry) = 1 .. n
      /\ Len(queue) \in Nat
      /\ \A k \in DOMAIN queue : Append(queue, entry)[k] = queue[k]
      /\ Append(queue, entry)[n] = entry
  BY <1>3, <1>6, Appended DEF RecordTypes
<1>9. /\ queue' = [Append(queue, entry) EXCEPT ![n] = e] /\ at' = n /\ pc' = "calibrate"
  BY <1>5, <1>7, <1>8 DEF Begin
<1>10. /\ cal' \in CalRecord /\ cal'.caller = "save_if_interesting" /\ ~ cal'.var_detected
       /\ first_trace' = t
  <2>1. Append(queue, entry)[n].exec_cksum # NoCksum
    BY <1>1, <1>6, <1>8, ChecksumOfTrace
  <2> QED
    BY <1>5, <2>1, CalibrationAssumption DEF Begin, CalRecord, Callers, Faults
<1>11. /\ queue' \in Seq(EntryRecord) /\ Len(queue') = n /\ DOMAIN queue' = 1 .. n
       /\ queue'[n] = e
       /\ \A k \in DOMAIN queue : queue'[k] = queue[k]
  <2>1. n \in DOMAIN Append(queue, entry)
    BY <1>8
  <2>2. /\ queue' \in Seq(EntryRecord) /\ Len(queue') = n /\ DOMAIN queue' = 1 .. n
        /\ queue'[n] = e
        /\ \A k \in 1 .. n : k # n => queue'[k] = Append(queue, entry)[k]
    <3> DEFINE a == Append(queue, entry)
    <3>1. a \in Seq(EntryRecord) /\ n \in DOMAIN a /\ Len(a) = n /\ DOMAIN a = 1 .. n
      BY <1>8, <2>1
    <3>2. queue' = [a EXCEPT ![n] = e]
      BY <1>9
    <3> HIDE DEF a
    <3>3. /\ queue' \in Seq(EntryRecord) /\ Len(queue') = Len(a) /\ DOMAIN queue' = DOMAIN a
          /\ queue'[n] = e
          /\ \A k \in DOMAIN a : k # n => queue'[k] = a[k]
      BY <1>6, <3>1, <3>2, Replaced
    <3> QED
      BY <3>1, <3>3 DEF a
  <2> QED
    BY <1>8, <2>2
<1>12. /\ seen' \in Seq(SUBSET BitMap) /\ Len(seen') = n /\ DOMAIN seen' = 1 .. n
       /\ DOMAIN seen = 1 .. Len(queue) /\ seen'[n] = {t}
       /\ \A k \in DOMAIN seen : seen'[k] = seen[k]
  <2>1. {t} \in SUBSET BitMap /\ seen \in Seq(SUBSET BitMap) /\ Len(seen) = Len(queue)
    BY <1>1, <1>3 DEF MapTypes, Located
  <2> QED
    BY <1>5, <2>1, Appended
<1>13. \A i, b : Shown(seen', i, b) <=> Shown(seen, i, b) \/ b \in t[i]
  BY <1>1, <1>3, <1>5, TraceAppended DEF MapTypes
<1>14. /\ virgin_bits' \in BitMap
       /\ \A i \in MapBytes : \A b \in Bits :
            b \notin virgin_bits'[i] <=> b \notin virgin_bits[i] \/ b \in t[i]
  BY <1>1, <1>3, <1>5, WithoutTakes DEF MapTypes
<1>15. MapTypes'
  BY <1>1, <1>3, <1>4, <1>10, <1>12, <1>14 DEF MapTypes, files
<1>16. RecordTypes'
  <2>1. /\ kill_signal' \in Nat /\ pc' \in Places /\ at' \in Nat \ {0} /\ fault' \in Faults
    BY <1>1, <1>2, <1>3, <1>4, <1>5, <1>8, <1>9 DEF RecordTypes, Places
  <2> QED
    BY <1>1, <1>3, <1>4, <1>10, <1>11, <2>1 DEF RecordTypes, files, options
<1>17. Located'
  BY <1>3, <1>8, <1>9, <1>11, <1>12, CalibrationAssumption DEF Located
<1>18. \A k \in 1 .. n : k \in DOMAIN queue \/ k = n
  BY <1>8
<1>19. Checksummed'
  BY <1>3, <1>6, <1>8, <1>11, <1>12, <1>18 DEF Checksummed
<1>20. BitsSeen'
  BY <1>3, <1>13, <1>14 DEF BitsSeen
<1>21. BitsCrashed' /\ BitsHung'
  BY <1>9, FilesKept
<1>22. Judged'
  BY <1>3, <1>5, <1>9 DEF Judged, files, options
<1>23. Fresh'
  BY <1>9, <1>10, <1>12 DEF Fresh, Calibrating
<1>24. Vary'
  <2>1. \A i \in var_bytes' : \E q \in DOMAIN seen' : \E u, v \in seen'[q] : u[i] # v[i]
    <3>1. DOMAIN seen \subseteq DOMAIN seen'
      BY <1>8, <1>12
    <3> QED
      BY <1>3, <1>12, <3>1 DEF Vary
  <2>2. \A q \in DOMAIN queue' : queue'[q].var_behavior => Differ(seen'[q])
    BY <1>3, <1>6, <1>8, <1>11, <1>12, <1>18 DEF Vary
  <2>3. \A q \in DOMAIN seen' : IsFiniteSet(seen'[q])
    <3>1. IsFiniteSet(seen'[n])
      BY <1>12, FS_Singleton
    <3>2. \A q \in DOMAIN seen : IsFiniteSet(seen'[q])
      BY <1>3, <1>12 DEF Vary
    <3> QED
      BY <1>8, <1>12, <1>18, <3>1, <3>2
  <2> QED
    BY <1>10, <2>1, <2>2, <2>3 DEF Vary
<1> QED
  BY <1>15, <1>16, <1>17, <1>19, <1>20, <1>21, <1>22, <1>23, <1>24 DEF IInv

LEMMA ExecuteKeeps ==
  ASSUME IInv, NEW o \in Outcomes, Execute(o)
  PROVE  IInv'
<1>1. pc = "fuzz" /\ run_target(o) /\ UNCHANGED <<options, files, var_bytes, stop_soon>>
  BY DEF Execute
<1>2. CASE NotLooked
  BY <1>1, <1>2, UnlookedKeeps DEF NotLooked
<1>3. CASE NothingNew(o)
  BY <1>1, <1>3, UnlookedKeeps DEF NothingNew
<1>4. CASE Discovered(o)
  BY <1>1, <1>4, DiscoveredKeeps
<1>5. CASE Unexpected(o)
  BY <1>1, <1>5, UnlookedKeeps DEF Unexpected
<1> QED
  BY <1>2, <1>3, <1>4, <1>5 DEF Execute

LEMMA DiscoveryCalibratedKeeps ==
  ASSUME IInv, DiscoveryCalibrated
  PROVE  IInv'
<1>1. /\ pc = "calibrated" /\ cal.caller = "save_if_interesting" /\ Marks(queue[at])
      /\ pc' \in {"ended", "file"}
      /\ UNCHANGED <<options, runs, trace_bits, messages_sent, kill_signal, virgin_bits, files,
                     var_bytes, first_trace, cal, at, fault, stop_soon, seen, last>>
  BY DEF DiscoveryCalibrated
<1>2. MapTypes /\ RecordTypes /\ Located /\ Judged
  BY DEF IInv
<1>3. queue[at] \in EntryRecord
  BY <1>1, <1>2, Domains DEF Located, Calibrating
<1>4. SameEntries
  BY <1>1, <1>3, MarksKeep
<1>5. BitsCrashed' /\ BitsHung'
  BY <1>1, FilesKept
<1>6. MapTypes'
  BY <1>1, <1>2, <1>4 DEF MapTypes, files
<1>7. RecordTypes'
  BY <1>1, <1>2, <1>4 DEF RecordTypes, files, options, SameEntries, Places
<1>8. Judged'
  BY <1>1, <1>2 DEF Judged, Calibrating, files, options
<1> QED
  BY <1>1, <1>4, <1>5, <1>6, <1>7, <1>8, LeavesEntries

\* A hang that is kept takes its bits from the map of the hangs.
LEMMA HangFiled ==
  ASSUME IInv, NEW r \in HangRecord, hangs' = Append(hangs, r),
         virgin_tmout' \in BitMap,
         \A i \in MapBytes : virgin_tmout'[i] \subseteq virgin_tmout[i]
                             /\ r.trace[i] \cap virgin_tmout'[i] = {}
  PROVE  /\ hangs' \in Seq(HangRecord)
         /\ \A i \in MapBytes, b \in Bits : Recorded(hangs', i, b) => b \notin virgin_tmout'[i]
         /\ (\A k \in DOMAIN hangs : hangs[k].of = "tmout") /\ r.of = "tmout" =>
              \A k \in DOMAIN hangs' : hangs'[k].of = "tmout"
<1>1. hangs \in Seq(HangRecord)
  BY DEF IInv, RecordTypes
<1>2. /\ hangs' \in Seq(HangRecord) /\ Len(hangs) \in Nat
      /\ DOMAIN hangs = 1 .. Len(hangs) /\ DOMAIN hangs' = 1 .. Len(hangs) + 1
      /\ \A k \in DOMAIN hangs : hangs'[k] = hangs[k]
      /\ hangs'[Len(hangs) + 1] = r
  BY <1>1, Appended
<1>3. \A i, b : Recorded(hangs', i, b) <=> Recorded(hangs, i, b) \/ b \in r.trace[i]
  BY <1>1, RecordAppended
<1>4. \A k \in DOMAIN hangs' : k \in DOMAIN hangs \/ k = Len(hangs) + 1
  BY <1>2
<1> QED
  BY <1>2, <1>3, <1>4 DEF IInv, BitsHung

LEMMA HangKeeps ==
  ASSUME IInv, Hang
  PROVE  IInv'
<1> DEFINE trace == simplify_trace(trace_bits)
<1>1. /\ pc = "file" /\ fault = "tmout"
      /\ UNCHANGED <<options, queue, runs, virgin_bits, virgin_crash, var_bytes, first_trace, cal, at,
                     fault, stop_soon, seen>>
  BY DEF Hang
<1>2. MapTypes /\ RecordTypes /\ BitsCrashed /\ BitsHung /\ Judged
  BY DEF IInv
<1>3. trace \in BitMap
  BY <1>2, SimplifyTyped DEF MapTypes
<1>4. SameEntries
  BY <1>1, QueueKept
<1>5. CASE NotKept /\ UNCHANGED <<trace_bits, virgin_tmout>>
  <2>1. UNCHANGED <<options, files, messages_sent, kill_signal, last, trace_bits>> /\ pc' = "fuzz"
    BY <1>1, <1>5 DEF NotKept, files
  <2>2. BitsCrashed' /\ BitsHung'
    BY <2>1, FilesKept
  <2>3. MapTypes'
    BY <1>1, <1>2, <2>1 DEF MapTypes, files
  <2>4. RecordTypes'
    BY <1>1, <1>2, <2>1 DEF RecordTypes, files, options, Places
  <2>5. Judged'
    BY <1>1, <1>2, <2>1 DEF Judged, Calibrating, files, options
  <2> QED
    BY <1>1, <1>4, <2>1, <2>2, <2>3, <2>4, <2>5, LeavesEntries
<1>6. CASE /\ trace_bits' = trace
           /\ virgin_tmout' = Without(virgin_tmout, trace)
           /\ IF has_new_bits(trace, virgin_tmout) = 0
                THEN NotKept
                ELSE IF exec_tmout_low
                  THEN pc' = "verify" /\ UNCHANGED <<counters, crashes, hangs>>
                  ELSE KeepHang(messages_sent, last, trace)
           /\ UNCHANGED <<messages_sent, kill_signal, last>>
  <2> DEFINE r == [sent |-> messages_sent, of |-> last, trace |-> trace]
  <2>1. /\ trace_bits' = trace /\ virgin_tmout' = Without(virgin_tmout, trace)
        /\ UNCHANGED <<crash_mode, messages_sent, kill_signal, last, crashes>>
        /\ \/ pc' \in {"fuzz", "verify"} /\ hangs' = hangs
           \/ pc' = "fuzz" /\ hangs' = Append(hangs, r)
    BY <1>1, <1>6 DEF NotKept, KeepHang, options
  <2>2. r \in HangRecord /\ r.trace = trace /\ r.of = last
    BY <1>2, <1>3 DEF HangRecord, RecordTypes
  <2> HIDE DEF trace, r
  <2>3. /\ virgin_tmout' \in BitMap
        /\ \A i \in MapBytes : virgin_tmout'[i] \subseteq virgin_tmout[i]
                               /\ trace[i] \cap virgin_tmout'[i] = {}
    <3>1. virgin_tmout \in BitMap
      BY <1>2 DEF MapTypes
    <3> QED
      BY <1>3, <2>1, <3>1, WithoutTakes DEF Without
  <2>4. /\ hangs' \in Seq(HangRecord)
        /\ \A i \in MapBytes, b \in Bits : Recorded(hangs', i, b) => b \notin virgin_tmout'[i]
        /\ crash_mode = "none" => \A k \in DOMAIN hangs' : hangs'[k].of = "tmout"
    <3>1. CASE hangs' = hangs
      BY <1>2, <2>3, <3>1 DEF RecordTypes, BitsHung, Judged
    <3>2. CASE hangs' = Append(hangs, r)
      <4>1. crash_mode = "none" => r.of = "tmout" /\ \A k \in DOMAIN hangs : hangs[k].of = "tmout"
        BY <1>1, <1>2, <2>2 DEF Judged
      <4> QED
        BY <2>2, <2>3, <3>2, <4>1, HangFiled
    <3> QED
      BY <2>1, <3>1, <3>2
  <2>5. BitsHung'
    BY <2>1, <2>3, <2>4 DEF BitsHung
  <2>6. BitsCrashed'
    BY <1>1, <1>2, <2>1 DEF BitsCrashed, Recorded
  <2>7. MapTypes'
    BY <1>1, <1>2, <1>3, <2>1, <2>3 DEF MapTypes
  <2>8. RecordTypes'
    BY <1>1, <1>2, <2>1, <2>4 DEF RecordTypes, Places
  <2>9. Judged'
    BY <1>1, <1>2, <2>1, <2>4 DEF Judged, Calibrating
  <2>10. pc' \in {"fuzz", "verify"}
    BY <2>1
  <2> QED
    BY <1>1, <1>4, <2>5, <2>6, <2>7, <2>8, <2>9, <2>10, LeavesEntries
<1> QED
  BY <1>5, <1>6 DEF Hang

LEMMA VerifyKeeps ==
  ASSUME IInv, NEW o \in Outcomes, Verify(o)
  PROVE  IInv'
<1> DEFINE r == [sent |-> o.sent, of |-> o.fault, trace |-> trace_bits]
<1>1. /\ pc = "verify"
      /\ UNCHANGED <<options, queue, runs, virgin_bits, virgin_tmout, virgin_crash, var_bytes,
                     first_trace, cal, at, stop_soon, seen>>
      /\ crashes' = crashes
      /\ \/ pc' = "file" /\ fault' = "crash" /\ o.fault = "crash" /\ hangs' = hangs
         \/ pc' = "fuzz" /\ fault' = fault /\ hangs' = hangs
         \/ pc' = "fuzz" /\ fault' = fault /\ hangs' = Append(hangs, r) /\ o.fault = "tmout"
  BY DEF Verify, KeepHang
<1>2. MapTypes /\ RecordTypes /\ BitsCrashed /\ BitsHung /\ Judged
  BY DEF IInv
<1>3. classify_counts(o.hits) \in BitMap /\ o.fault \in Faults /\ o.sent \in Nat /\ o.sig \in Nat
  BY ClassifyTyped
<1>4. /\ trace_bits' = classify_counts(o.hits) /\ messages_sent' = o.sent /\ last' = o.fault
      /\ kill_signal' \in {o.sig, kill_signal}
  BY DEF Verify, run_target
<1>5. r \in HangRecord /\ r.trace = trace_bits /\ r.of = o.fault
  BY <1>2, <1>3 DEF HangRecord, MapTypes
<1>6. SameEntries
  BY <1>1, QueueKept
<1> HIDE DEF r
<1>7. /\ hangs' \in Seq(HangRecord)
      /\ \A i \in MapBytes, b \in Bits : Recorded(hangs', i, b) => b \notin virgin_tmout'[i]
      /\ crash_mode = "none" => \A k \in DOMAIN hangs' : hangs'[k].of = "tmout"
  <2>1. CASE hangs' = hangs
    BY <1>1, <1>2, <2>1 DEF RecordTypes, BitsHung, Judged
  <2>2. CASE hangs' = Append(hangs, r) /\ o.fault = "tmout"
    <3>1. crash_mode = "none" => r.of = "tmout" /\ \A k \in DOMAIN hangs : hangs[k].of = "tmout"
      BY <1>2, <1>5, <2>2 DEF Judged
    <3>2. /\ virgin_tmout' \in BitMap
          /\ \A i \in MapBytes : virgin_tmout'[i] \subseteq virgin_tmout[i]
                                 /\ r.trace[i] \cap virgin_tmout'[i] = {}
      BY <1>1, <1>2, <1>5 DEF MapTypes, BitsHung
    <3> QED
      BY <1>5, <2>2, <3>1, <3>2, HangFiled
  <2> QED
    BY <1>1, <2>1, <2>2
<1>8. pc' \in {"file", "fuzz"}
  BY <1>1
<1>9. BitsHung' /\ BitsCrashed'
  BY <1>1, <1>2, <1>7, <1>8 DEF BitsHung, BitsCrashed, Recorded
<1>10. MapTypes'
  BY <1>1, <1>2, <1>3, <1>4 DEF MapTypes
<1>11. RecordTypes'
  <2>1. kill_signal' \in Nat /\ fault' \in Faults
    BY <1>1, <1>2, <1>3, <1>4 DEF RecordTypes, Faults
  <2> QED
    BY <1>1, <1>2, <1>3, <1>4, <1>7, <1>8, <2>1 DEF RecordTypes, options, Places
<1>12. Judged'
  BY <1>1, <1>2, <1>4, <1>7 DEF Judged, Calibrating, options
<1> QED
  BY <1>1, <1>6, <1>8, <1>9, <1>10, <1>11, <1>12, LeavesEntries

LEMMA CrashKeeps ==
  ASSUME IInv, Crash
  PROVE  IInv'
<1> DEFINE trace == simplify_trace(trace_bits)
           r == [sent |-> messages_sent, sig |-> kill_signal, of |-> last, trace |-> trace]
<1>1. /\ pc = "file" /\ fault = "crash" /\ pc' = "fuzz"
      /\ UNCHANGED <<options, queue, runs, virgin_bits, virgin_tmout, var_bytes, first_trace, cal, at,
                     fault, stop_soon, seen>>
      /\ UNCHANGED <<messages_sent, kill_signal, hangs, last>>
      /\ \/ crashes' = crashes /\ trace_bits' = trace_bits /\ virgin_crash' = virgin_crash
         \/ /\ trace_bits' = trace /\ virgin_crash' = Without(virgin_crash, trace)
            /\ has_new_bits(trace, virgin_crash) = 0 /\ crashes' = crashes
         \/ /\ trace_bits' = trace /\ virgin_crash' = Without(virgin_crash, trace)
            /\ crashes' = Append(crashes, r)
  BY DEF Crash, NotKept
<1>2. MapTypes /\ RecordTypes /\ BitsCrashed /\ BitsHung /\ Judged
  BY DEF IInv
<1>3. trace \in BitMap
  BY <1>2, SimplifyTyped DEF MapTypes
<1>4. r \in CrashRecord /\ r.trace = trace /\ r.of = last
  BY <1>2, <1>3 DEF CrashRecord, RecordTypes
<1>5. SameEntries
  BY <1>1, QueueKept
<1> HIDE DEF trace, r
<1>6. virgin_crash \in BitMap /\ crashes \in Seq(CrashRecord)
  BY <1>2 DEF MapTypes, RecordTypes
<1>7. /\ Without(virgin_crash, trace) \in BitMap
      /\ \A i \in MapBytes : \A b \in Bits :
           b \notin Without(virgin_crash, trace)[i] <=> b \notin virgin_crash[i] \/ b \in trace[i]
  BY <1>3, <1>6, WithoutTakes
<1>8. /\ virgin_crash' \in BitMap /\ BitsCrashed' /\ crashes' \in Seq(CrashRecord)
      /\ crash_mode = "none" => \A k \in DOMAIN crashes' : crashes'[k].of = "crash"
  <2>1. CASE crashes' = crashes /\ virgin_crash' = virgin_crash
    BY <1>2, <1>6, <2>1 DEF BitsCrashed, Recorded, Judged
  <2>2. CASE /\ virgin_crash' = Without(virgin_crash, trace)
             /\ has_new_bits(trace, virgin_crash) = 0 /\ crashes' = crashes
    <3>1. \A i \in MapBytes : \A b \in Bits : b \in trace[i] => b \notin virgin_crash[i]
      BY <1>3, <1>6, <2>2, NothingFound
    <3> QED
      BY <1>2, <1>6, <1>7, <2>2, <3>1 DEF BitsCrashed, Recorded, Judged
  <2>3. CASE virgin_crash' = Without(virgin_crash, trace) /\ crashes' = Append(crashes, r)
    <3>1. \A i, b : Recorded(crashes', i, b) <=> Recorded(crashes, i, b) \/ b \in trace[i]
      BY <1>4, <1>6, <2>3, RecordAppended
    <3>2. /\ crashes' \in Seq(CrashRecord) /\ Len(crashes) \in Nat
          /\ DOMAIN crashes = 1 .. Len(crashes) /\ DOMAIN crashes' = 1 .. Len(crashes) + 1
          /\ \A k \in DOMAIN crashes : crashes'[k] = crashes[k]
          /\ crashes'[Len(crashes) + 1] = r
      BY <1>4, <1>6, <2>3, Appended
    <3>3. \A k \in DOMAIN crashes' : k \in DOMAIN crashes \/ k = Len(crashes) + 1
      BY <3>2
    <3>4. crash_mode = "none" => r.of = "crash"
      BY <1>1, <1>2, <1>4 DEF Judged
    <3> QED
      BY <1>2, <1>7, <2>3, <3>1, <3>2, <3>3, <3>4 DEF BitsCrashed, Judged
  <2> QED
    BY <1>1, <2>1, <2>2, <2>3
<1>9. BitsHung'
  BY <1>1, <1>2 DEF BitsHung, Recorded
<1>10. MapTypes'
  BY <1>1, <1>2, <1>3, <1>8 DEF MapTypes
<1>11. RecordTypes'
  BY <1>1, <1>2, <1>8 DEF RecordTypes, options, Places
<1>12. Judged'
  BY <1>1, <1>2, <1>8 DEF Judged, Calibrating, options
<1> QED
  BY <1>1, <1>5, <1>8, <1>9, <1>10, <1>11, <1>12, LeavesEntries

LEMMA OtherFaultKeeps ==
  ASSUME IInv, OtherFault
  PROVE  IInv'
<1>1. /\ pc' \in {"fuzz", "ended"}
      /\ UNCHANGED <<options, queue, runs, trace_bits, messages_sent, kill_signal, virgin_bits, files,
                     var_bytes, first_trace, cal, at, fault, counters, stop_soon, seen, last>>
  BY DEF OtherFault
<1>2. MapTypes /\ RecordTypes /\ Judged
  BY DEF IInv
<1>3. SameEntries
  BY <1>1, QueueKept
<1>4. BitsCrashed' /\ BitsHung'
  BY <1>1, FilesKept
<1>5. MapTypes'
  BY <1>1, <1>2 DEF MapTypes, files
<1>6. RecordTypes'
  BY <1>1, <1>2 DEF RecordTypes, files, options, Places
<1>7. Judged'
  BY <1>1, <1>2 DEF Judged, Calibrating, files, options
<1> QED
  BY <1>1, <1>3, <1>4, <1>5, <1>6, <1>7, LeavesEntries

LEMMA NextKeepsIInv ==
  ASSUME IInv, [Next]_calibration
  PROVE  IInv'
<1>1. CASE UNCHANGED calibration
  BY <1>1, StopKeeps DEF calibration, options, files
<1>2. CASE Stop
  BY <1>2, StopKeeps DEF Stop, options
<1>3. CASE Calibrate
  BY <1>3, CycleKeeps, MeasuredKeeps DEF Calibrate
<1>4. CASE DryRun \/ DryVerdict
  BY <1>4, DryRunKeeps, DryVerdictKeeps
<1>5. CASE DiscoveryCalibrated \/ Hang \/ Crash \/ OtherFault
  BY <1>5, DiscoveryCalibratedKeeps, HangKeeps, CrashKeeps, OtherFaultKeeps
<1>6. CASE \E o \in Outcomes : Execute(o) \/ Verify(o)
  BY <1>6, ExecuteKeeps, VerifyKeeps
<1> QED
  BY <1>1, <1>2, <1>3, <1>4, <1>5, <1>6 DEF Next

-----------------------------------------------------------------------------
(* What follows of it *)

LEMMA IInvGivesRecordsAreTrue ==
  ASSUME IInv
  PROVE  RecordsAreTrue
<1>1. MapTypes /\ RecordTypes /\ Located /\ BitsSeen /\ BitsCrashed /\ BitsHung /\ Judged
  BY DEF IInv
<1>2. DOMAIN seen = DOMAIN queue /\ \A q \in DOMAIN queue : seen[q] \subseteq BitMap
  BY <1>1, Domains
<1>3. Cleared(virgin_bits) = Joined(UNION {seen[q] : q \in DOMAIN queue})
  <2> DEFINE traces == UNION {seen[q] : q \in DOMAIN queue}
  <2>1. \A i \in MapBytes : Bits \ virgin_bits[i] = UNION {t[i] : t \in traces}
    <3>1. \A t \in traces, i \in MapBytes : t[i] \subseteq Bits
      BY <1>2 DEF BitMap
    <3>2. \A i \in MapBytes, b \in Bits : Shown(seen, i, b) <=> \E t \in traces : b \in t[i]
      BY <1>2 DEF Shown
    <3> HIDE DEF traces
    <3> QED
      BY <1>1, <3>1, <3>2 DEF BitsSeen
  <2> QED
    BY <2>1 DEF Cleared, Joined
<1>4. Cleared(virgin_crash) = Joined({c.trace : c \in {crashes[k] : k \in DOMAIN crashes}})
  <2> DEFINE traces == {c.trace : c \in {crashes[k] : k \in DOMAIN crashes}}
  <2>1. \A i \in MapBytes : Bits \ virgin_crash[i] = UNION {t[i] : t \in traces}
    <3>1. \A t \in traces, i \in MapBytes : t[i] \subseteq Bits
      <4>1. \A k \in DOMAIN crashes : crashes[k] \in CrashRecord
        BY <1>1 DEF RecordTypes
      <4>2. traces \subseteq BitMap
        BY <4>1 DEF CrashRecord
      <4> QED
        BY <4>2 DEF BitMap
    <3>2. \A i \in MapBytes, b \in Bits : Recorded(crashes, i, b) <=> \E t \in traces : b \in t[i]
      BY DEF Recorded
    <3> HIDE DEF traces
    <3> QED
      BY <1>1, <3>1, <3>2 DEF BitsCrashed
  <2> QED
    BY <2>1 DEF Cleared, Joined
<1>5. \A k \in DOMAIN hangs : \A i \in MapBytes : hangs[k].trace[i] \cap virgin_tmout[i] = {}
  <2>1. virgin_tmout \in BitMap
    BY <1>1 DEF MapTypes
  <2>2. \A i \in MapBytes : virgin_tmout[i] \subseteq Bits
    BY <2>1 DEF BitMap
  <2> QED
    BY <1>1, <2>2 DEF BitsHung, Recorded
<1>6. FilesReproduce
  BY <1>1 DEF Judged, FilesReproduce
<1> QED
  BY <1>3, <1>4, <1>5, <1>6 DEF RecordsAreTrue, NothingIsForgotten

LEMMA IInvGivesVariableBytesVary ==
  ASSUME IInv
  PROVE  VariableBytesVary
<1>1. MapTypes /\ RecordTypes /\ Located /\ Vary
  BY DEF IInv
<1>2. DOMAIN seen = DOMAIN queue
  BY <1>1, Domains
<1>3. \A i \in var_bytes : \E q \in DOMAIN queue : \E t, u \in seen[q] : t[i] # u[i]
  BY <1>1, <1>2 DEF Vary
<1>4. ASSUME NEW q \in DOMAIN queue, queue[q].var_behavior
      PROVE  Cardinality(seen[q]) > 1
  <2>1. PICK t, u \in seen[q] : t # u
    BY <1>1, <1>4 DEF Vary, Differ
  <2>2. IsFiniteSet(seen[q])
    BY <1>1, <1>2, <1>4 DEF Vary
  <2>3. IsFiniteSet({t}) /\ Cardinality({t}) = 1 /\ {t} \in SUBSET seen[q]
    BY <2>1, FS_Singleton
  <2>4. Cardinality({t}) <= Cardinality(seen[q]) /\ Cardinality({t}) # Cardinality(seen[q])
    BY <2>1, <2>2, <2>3, FS_Subset
  <2>5. Cardinality(seen[q]) \in Nat
    BY <2>2, FS_CardinalityType
  <2> QED
    BY <2>3, <2>4, <2>5
<1> QED
  BY <1>3, <1>4 DEF VariableBytesVary

\* The inductive invariant holds in every state of every execution.
THEOREM CalibrationInvariant == Spec => []IInv
<1>1. Init => IInv
  BY InitGivesIInv
<1>2. IInv /\ [Next]_calibration => IInv'
  BY NextKeepsIInv
<1> QED
  BY <1>1, <1>2, PTL DEF Spec

\* What the virgin maps have lost is what the entries and the crashes on disk
\* show, no more and no less, no kept hang is taken for a new one, and without
\* -C what is filed crashed, or hung, in the run that is filed (calibrate_case
\* and save_if_interesting, afl-fuzz.c:3531-3641 and 4048-4266).
THEOREM CalibrationRecords == Spec => []RecordsAreTrue
<1>1. IInv => RecordsAreTrue
  BY IInvGivesRecordsAreTrue
<1> QED
  BY <1>1, CalibrationInvariant, PTL

\* A byte is called variable, and an entry, only when two runs of one entry
\* differ, though first_trace is kept from one calibration to the next
\* (calibrate_case, afl-fuzz.c:3537-3543, 3593-3614).
THEOREM CalibrationVariables == Spec => []VariableBytesVary
<1>1. IInv => VariableBytesVary
  BY IInvGivesVariableBytesVary
<1> QED
  BY <1>1, CalibrationInvariant, PTL

-----------------------------------------------------------------------------
(* Counts and sums over the queue *)

CovOf(qs) == {q \in DOMAIN qs : qs[q].has_new_cov}
VarOf(qs) == {q \in DOMAIN qs : qs[q].var_behavior}
DoneOf(qs) == {q \in DOMAIN qs : qs[q].cal_failed = 0 /\ qs[q].exec_cksum # NoCksum}
SizeOf(qs) == MapThenSumSet(LAMBDA q : qs[q].bitmap_size, DOMAIN qs)

Done(e) == e.cal_failed = 0 /\ e.exec_cksum # NoCksum
One(b) == IF b THEN 1 ELSE 0

Sizes(qs) == [q \in DOMAIN qs |-> qs[q].bitmap_size]

LEMMA FiniteQueue ==
  ASSUME NEW qs \in Seq(EntryRecord)
  PROVE  /\ IsFiniteSet(DOMAIN qs) /\ DOMAIN qs = 1 .. Len(qs) /\ Len(qs) \in Nat
         /\ \A q \in DOMAIN qs : qs[q] \in EntryRecord
<1>1. DOMAIN qs = 1 .. Len(qs) /\ Len(qs) \in Nat
  BY LenProperties
<1>2. IsFiniteSet(1 .. Len(qs))
  BY <1>1, FS_Interval
<1>3. \A q \in DOMAIN qs : qs[q] \in EntryRecord
  BY ElementOfSeq, <1>1
<1> QED
  BY <1>1, <1>2, <1>3

LEMMA SizeIsSum ==
  ASSUME NEW qs, IsFiniteSet(DOMAIN qs)
  PROVE  SizeOf(qs) = SumOf(Sizes(qs), DOMAIN qs)
<1> DEFINE S == DOMAIN qs
           f == Sizes(qs)
           B(h) == [s \in SUBSET S |-> IF s = {} THEN 0 ELSE qs[Pick(s)].bitmap_size + h[s \ {Pick(s)}]]
           i == CHOOSE h : h = B(h)
<1>1. SizeOf(qs) = i[S]
  BY Zenon DEF SizeOf, MapThenSumSet, MapThenFoldSet, Pick
<1>2. \A h : Body(f, S, h) = B(h)
  <2> SUFFICES ASSUME NEW h PROVE Body(f, S, h) = B(h)
    OBVIOUS
  <2>1. \A s \in SUBSET S : s # {} => f[Pick(s)] = qs[Pick(s)].bitmap_size
    BY PickIsIn DEF Sizes
  <2> HIDE DEF f
  <2> QED
    BY <2>1 DEF Body
<1>3. \E h : h = B(h)
  <2>1. \E h : Adds(f, S, h)
    BY AddsExists
  <2> HIDE DEF B, f, S
  <2> QED
    BY <1>2, <2>1 DEF Adds
<1>4. i = B(i)
  <2> HIDE DEF B
  <2> QED
    BY <1>3, Zenon
<1>5. Adds(f, S, i)
  BY <1>2, <1>4, Zenon DEF Adds
<1>6. PICK g : Adds(f, S, g) /\ SumOf(f, S) = g[S]
  BY SumByAdds
<1>7. g[S] = i[S]
  <2> HIDE DEF i, f, S
  <2>1. IsFiniteSet(S) /\ S \subseteq S /\ \A x \in S : f[x] = f[x]
    BY DEF S
  <2> QED
    BY <1>5, <1>6, <2>1, AddsAgree
<1> QED
  BY <1>1, <1>6, <1>7

LEMMA CountChanged ==
  ASSUME NEW A, NEW B, NEW a, IsFiniteSet(A), A \ {a} = B \ {a}
  PROVE  /\ Cardinality(A) \in Nat /\ IsFiniteSet(B)
         /\ Cardinality(B) = Cardinality(A) + One(a \in B) - One(a \in A)
<1> DEFINE C == A \ {a}
<1>1. IsFiniteSet(C) /\ a \notin C /\ Cardinality(C) \in Nat /\ Cardinality(A) \in Nat
  BY FS_Subset, FS_CardinalityType
<1>2. IsFiniteSet(C \cup {a}) /\ Cardinality(C \cup {a}) = Cardinality(C) + 1
  <2> HIDE DEF C
  <2> QED
    BY <1>1, FS_AddElement
<1>3. A = IF a \in A THEN C \cup {a} ELSE C
  OBVIOUS
<1>4. B = IF a \in B THEN C \cup {a} ELSE C
  OBVIOUS
<1> HIDE DEF C
<1> QED
  BY <1>1, <1>2, <1>3, <1>4 DEF One

-----------------------------------------------------------------------------
(* One entry changes, or one is appended *)

Shifted(u, v, e, d) ==
  /\ Cardinality(CovOf(v)) = Cardinality(CovOf(u)) + One(e.has_new_cov) - One(d.has_new_cov)
  /\ Cardinality(VarOf(v)) = Cardinality(VarOf(u)) + One(e.var_behavior) - One(d.var_behavior)
  /\ Cardinality(DoneOf(v)) = Cardinality(DoneOf(u)) + One(Done(e)) - One(Done(d))
  /\ SizeOf(v) = SizeOf(u) + e.bitmap_size - d.bitmap_size

CountsTyped(u) ==
  /\ Cardinality(CovOf(u)) \in Nat /\ Cardinality(VarOf(u)) \in Nat
  /\ Cardinality(DoneOf(u)) \in Nat /\ SizeOf(u) \in Int

LEMMA SizesTyped ==
  ASSUME NEW qs \in Seq(EntryRecord)
  PROVE  \A q \in DOMAIN qs : Sizes(qs)[q] \in Int /\ Sizes(qs)[q] = qs[q].bitmap_size
<1>1. \A q \in DOMAIN qs : qs[q].bitmap_size \in Int
  <2>1. \A q \in DOMAIN qs : qs[q] \in EntryRecord
    BY FiniteQueue
  <2> QED
    BY <2>1 DEF EntryRecord
<1> QED
  BY <1>1 DEF Sizes

LEMMA TypedCounts ==
  ASSUME NEW u \in Seq(EntryRecord)
  PROVE  CountsTyped(u)
<1>1. IsFiniteSet(DOMAIN u)
  BY FiniteQueue
<1>2. IsFiniteSet(CovOf(u)) /\ IsFiniteSet(VarOf(u)) /\ IsFiniteSet(DoneOf(u))
  BY <1>1, FS_Subset DEF CovOf, VarOf, DoneOf
<1>3. SumOf(Sizes(u), DOMAIN u) \in Int
  BY <1>1, SizesTyped, SumType
<1> QED
  BY <1>1, <1>2, <1>3, SizeIsSum, FS_CardinalityType DEF CountsTyped

LEMMA CountsReplaced ==
  ASSUME NEW u \in Seq(EntryRecord), NEW a \in DOMAIN u, NEW e \in EntryRecord,
         NEW v \in Seq(EntryRecord), DOMAIN v = DOMAIN u, v[a] = e,
         \A k \in DOMAIN u : k # a => v[k] = u[k]
  PROVE  Shifted(u, v, e, u[a])
<1>2. IsFiniteSet(DOMAIN u)
  BY FiniteQueue
<1>3. Cardinality(CovOf(v)) = Cardinality(CovOf(u)) + One(e.has_new_cov) - One(u[a].has_new_cov)
  <2>1. CovOf(u) \ {a} = CovOf(v) \ {a} /\ (a \in CovOf(v) <=> e.has_new_cov)
        /\ (a \in CovOf(u) <=> u[a].has_new_cov)
    BY DEF CovOf
  <2>2. IsFiniteSet(CovOf(u))
    BY <1>2, FS_Subset DEF CovOf
  <2>3. Cardinality(CovOf(v)) = Cardinality(CovOf(u)) + One(a \in CovOf(v)) - One(a \in CovOf(u))
    BY <2>1, <2>2, CountChanged
  <2> QED
    BY <2>1, <2>3 DEF One
<1>4. Cardinality(VarOf(v)) = Cardinality(VarOf(u)) + One(e.var_behavior) - One(u[a].var_behavior)
  <2>1. VarOf(u) \ {a} = VarOf(v) \ {a} /\ (a \in VarOf(v) <=> e.var_behavior)
        /\ (a \in VarOf(u) <=> u[a].var_behavior)
    BY DEF VarOf
  <2>2. IsFiniteSet(VarOf(u))
    BY <1>2, FS_Subset DEF VarOf
  <2>3. Cardinality(VarOf(v)) = Cardinality(VarOf(u)) + One(a \in VarOf(v)) - One(a \in VarOf(u))
    BY <2>1, <2>2, CountChanged
  <2> QED
    BY <2>1, <2>3 DEF One
<1>5. Cardinality(DoneOf(v)) = Cardinality(DoneOf(u)) + One(Done(e)) - One(Done(u[a]))
  <2>1. DoneOf(u) \ {a} = DoneOf(v) \ {a} /\ (a \in DoneOf(v) <=> Done(e))
        /\ (a \in DoneOf(u) <=> Done(u[a]))
    BY DEF DoneOf, Done
  <2>2. IsFiniteSet(DoneOf(u))
    BY <1>2, FS_Subset DEF DoneOf
  <2>3. Cardinality(DoneOf(v)) = Cardinality(DoneOf(u)) + One(a \in DoneOf(v)) - One(a \in DoneOf(u))
    BY <2>1, <2>2, CountChanged
  <2> QED
    BY <2>1, <2>3 DEF One
<1>6. SizeOf(v) = SizeOf(u) + e.bitmap_size - u[a].bitmap_size
  <2>1. /\ \A q \in DOMAIN u : Sizes(u)[q] \in Int /\ Sizes(v)[q] \in Int
        /\ \A q \in DOMAIN u \ {a} : Sizes(u)[q] = Sizes(v)[q]
        /\ Sizes(u)[a] = u[a].bitmap_size /\ Sizes(v)[a] = e.bitmap_size
        /\ Sizes(u)[a] \in Int /\ Sizes(v)[a] \in Int
    BY SizesTyped
  <2>2. SumOf(Sizes(v), DOMAIN u) - SumOf(Sizes(u), DOMAIN u) = Sizes(v)[a] - Sizes(u)[a]
    BY <1>2, <2>1, SumChange
  <2>3. SumOf(Sizes(v), DOMAIN u) \in Int /\ SumOf(Sizes(u), DOMAIN u) \in Int
    BY <1>2, <2>1, SumType
  <2> QED
    BY <1>2, <2>1, <2>2, <2>3, SizeIsSum
<1> QED
  BY <1>3, <1>4, <1>5, <1>6 DEF Shifted

LEMMA EntryReplaced ==
  ASSUME NEW u \in Seq(EntryRecord), NEW a \in DOMAIN u, NEW e \in EntryRecord,
         NEW v, v = [u EXCEPT ![a] = e]
  PROVE  v \in Seq(EntryRecord) /\ DOMAIN v = DOMAIN u /\ Shifted(u, v, e, u[a])
<1>1. /\ v \in Seq(EntryRecord) /\ DOMAIN v = DOMAIN u /\ v[a] = e
      /\ \A k \in DOMAIN u : k # a => v[k] = u[k]
  BY Replaced
<1> QED
  BY <1>1, CountsReplaced

NoEntryYet == Entry(0, NoCksum)

LEMMA EntryAppended ==
  ASSUME NEW u \in Seq(EntryRecord), NEW e \in EntryRecord, NEW v, v = Append(u, e)
  PROVE  /\ v \in Seq(EntryRecord) /\ Len(v) = Len(u) + 1 /\ Len(u) \in Nat
         /\ DOMAIN v = DOMAIN u \cup {Len(u) + 1} /\ v[Len(u) + 1] = e
         /\ Shifted(u, v, e, NoEntryYet)
<1> DEFINE a == Len(u) + 1
<1>1. /\ v \in Seq(EntryRecord) /\ Len(u) \in Nat /\ DOMAIN u = 1 .. Len(u)
      /\ Len(v) = Len(u) + 1 /\ DOMAIN v = 1 .. Len(u) + 1 /\ v[a] = e
      /\ \A k \in DOMAIN u : v[k] = u[k]
  BY Appended
<1>2. IsFiniteSet(DOMAIN u) /\ IsFiniteSet(DOMAIN v)
  BY <1>1, FiniteQueue
<1>3. DOMAIN v = DOMAIN u \cup {a} /\ a \notin DOMAIN u
  BY <1>1
<1> HIDE DEF a
<1>4. Cardinality(CovOf(v)) = Cardinality(CovOf(u)) + One(e.has_new_cov)
  <2>1. CovOf(u) \ {a} = CovOf(v) \ {a} /\ (a \in CovOf(v) <=> e.has_new_cov) /\ a \notin CovOf(u)
    BY <1>1, <1>3 DEF CovOf
  <2>2. IsFiniteSet(CovOf(u))
    BY <1>2, FS_Subset DEF CovOf
  <2>3. /\ Cardinality(CovOf(v)) = Cardinality(CovOf(u)) + One(a \in CovOf(v)) - One(a \in CovOf(u))
        /\ Cardinality(CovOf(u)) \in Nat
    BY <2>1, <2>2, CountChanged
  <2> QED
    BY <2>1, <2>3 DEF One
<1>5. Cardinality(VarOf(v)) = Cardinality(VarOf(u)) + One(e.var_behavior)
  <2>1. VarOf(u) \ {a} = VarOf(v) \ {a} /\ (a \in VarOf(v) <=> e.var_behavior) /\ a \notin VarOf(u)
    BY <1>1, <1>3 DEF VarOf
  <2>2. IsFiniteSet(VarOf(u))
    BY <1>2, FS_Subset DEF VarOf
  <2>3. /\ Cardinality(VarOf(v)) = Cardinality(VarOf(u)) + One(a \in VarOf(v)) - One(a \in VarOf(u))
        /\ Cardinality(VarOf(u)) \in Nat
    BY <2>1, <2>2, CountChanged
  <2> QED
    BY <2>1, <2>3 DEF One
<1>6. Cardinality(DoneOf(v)) = Cardinality(DoneOf(u)) + One(Done(e))
  <2>1. DoneOf(u) \ {a} = DoneOf(v) \ {a} /\ (a \in DoneOf(v) <=> Done(e)) /\ a \notin DoneOf(u)
    BY <1>1, <1>3 DEF DoneOf, Done
  <2>2. IsFiniteSet(DoneOf(u))
    BY <1>2, FS_Subset DEF DoneOf
  <2>3. /\ Cardinality(DoneOf(v)) = Cardinality(DoneOf(u)) + One(a \in DoneOf(v)) - One(a \in DoneOf(u))
        /\ Cardinality(DoneOf(u)) \in Nat
    BY <2>1, <2>2, CountChanged
  <2> QED
    BY <2>1, <2>3 DEF One
<1>7. SizeOf(v) = SizeOf(u) + e.bitmap_size
  <2>1. \A q \in DOMAIN u \cup {a} : Sizes(v)[q] \in Int /\ Sizes(v)[q] = v[q].bitmap_size
    BY <1>1, <1>3, SizesTyped
  <2>2. \A q \in DOMAIN u : Sizes(u)[q] = Sizes(v)[q]
    BY <1>1, <1>3, SizesTyped
  <2>3. SumOf(Sizes(v), DOMAIN u \cup {a}) = SumOf(Sizes(v), DOMAIN u) + Sizes(v)[a]
    BY <1>2, <1>3, <2>1, SumAdd
  <2>4. SumOf(Sizes(v), DOMAIN u) = SumOf(Sizes(u), DOMAIN u)
    BY <1>2, <2>2, SumSame
  <2>5. Sizes(v)[a] = e.bitmap_size
    BY <1>1, <2>1
  <2> QED
    BY <1>2, <1>3, <2>3, <2>4, <2>5, SizeIsSum
<1>8. e.bitmap_size \in Nat /\ CountsTyped(u)
  BY TypedCounts DEF EntryRecord
<1>9. /\ NoEntryYet.has_new_cov = FALSE /\ NoEntryYet.var_behavior = FALSE
      /\ ~ Done(NoEntryYet) /\ NoEntryYet.bitmap_size = 0
  BY DEF NoEntryYet, Entry, Done
<1>10. Shifted(u, v, e, NoEntryYet)
  BY <1>4, <1>5, <1>6, <1>7, <1>8, <1>9 DEF Shifted, One, CountsTyped
<1> QED
  BY <1>1, <1>3, <1>10 DEF a

-----------------------------------------------------------------------------
(* The invariant of the totals *)

CounterRecord ==
  [queued_with_cov : Int, queued_variable : Int, total_bitmap_size : Int,
   total_bitmap_entries : Int, cal_failures : Int, useless_at_start : Int,
   unique_crashes : Int, unique_hangs : Int]

Agree(qs, c) ==
  /\ c.queued_with_cov = Cardinality(CovOf(qs))
  /\ c.queued_variable = Cardinality(VarOf(qs))
  /\ c.total_bitmap_size = SizeOf(qs)
  /\ c.total_bitmap_entries = Cardinality(DoneOf(qs))

Filed == counters.unique_crashes = Len(crashes) /\ counters.unique_hangs = Len(hangs)

Ranges ==
  /\ cal.stage_max \in {0, CAL_CYCLES, CAL_CYCLES_LONG} /\ cal.stage_cur <= CAL_CYCLES_LONG
  /\ at \in 1 .. Len(queue) + 1 /\ Len(queue) <= MaxEntries

\* An entry is measured once, and until it is it counts for nothing.
Unmeasured ==
  /\ pc = "dry_run" => \A q \in DOMAIN queue : q >= at => queue[q].bitmap_size = 0
  /\ Calibrating /\ cal.caller = "perform_dry_run" =>
       \A q \in DOMAIN queue : q > at => queue[q].bitmap_size = 0
  /\ pc = "calibrate" =>
       /\ queue[at].bitmap_size = 0 /\ queue[at].cal_failed > 0
       /\ cal.stage_max # 0
       /\ cal.stage_cur > 0 => queue[at].exec_cksum # NoCksum /\ cal.fault = crash_mode
  /\ pc = "calibrated" /\ queue[at].cal_failed = 0 => cal.fault \in {crash_mode, "nobits"}

TotalsInv ==
  /\ counters \in CounterRecord /\ Agree(queue, counters) /\ Filed /\ Ranges /\ Unmeasured

LEMMA QuietTotals ==
  ASSUME IInv, TotalsInv, UNCHANGED <<queue, cal, at, crash_mode>>, counters' \in CounterRecord, Filed',
         counters'.queued_with_cov = counters.queued_with_cov,
         counters'.queued_variable = counters.queued_variable,
         counters'.total_bitmap_size = counters.total_bitmap_size,
         counters'.total_bitmap_entries = counters.total_bitmap_entries,
         pc' = pc \/ pc' \notin {"dry_run", "calibrate", "calibrated"}
  PROVE  TotalsInv'
<1>1. Agree(queue', counters')
  BY DEF TotalsInv, Agree
<1>2. Ranges'
  BY DEF TotalsInv, Ranges
<1>3. Unmeasured'
  BY DEF TotalsInv, Unmeasured, Calibrating
<1> QED
  BY <1>1, <1>2, <1>3 DEF TotalsInv

LEMMA SameTotals ==
  ASSUME IInv, TotalsInv, UNCHANGED <<queue, cal, at, crash_mode, counters, crashes, hangs>>,
         pc' = pc \/ pc' \notin {"dry_run", "calibrate", "calibrated"}
  PROVE  TotalsInv'
<1>1. counters' \in CounterRecord /\ Filed'
  BY DEF TotalsInv, Filed
<1> QED
  BY <1>1, QuietTotals

LEMMA InitTotals ==
  ASSUME Init
  PROVE  TotalsInv
<1> DEFINE e == Entry(0, NoCksum)
           n == [q \in 1 .. Seeds |-> e]
<1>1. Seeds \in Nat \ {0} /\ Seeds <= MaxEntries /\ CAL_CYCLES_LONG \in Nat
  BY CalibrationAssumption
<1>2. queue = n /\ queue \in Seq(EntryRecord) /\ Len(queue) = Seeds /\ DOMAIN queue = 1 .. Seeds
  <2>1. e \in EntryRecord
    BY DEF Entry, EntryRecord
  <2>2. queue = n
    BY DEF Init
  <2> HIDE DEF e
  <2> QED
    BY <1>1, <2>1, <2>2, SeqDef, LenProperties
<1>3. \A q \in DOMAIN queue :
        /\ ~ queue[q].has_new_cov /\ ~ queue[q].var_behavior
        /\ queue[q].exec_cksum = NoCksum /\ queue[q].bitmap_size = 0
  BY <1>2 DEF Entry
<1>4. CovOf(queue) = {} /\ VarOf(queue) = {} /\ DoneOf(queue) = {}
  BY <1>3 DEF CovOf, VarOf, DoneOf
<1>5. Cardinality({}) = 0
  BY FS_EmptySet
<1>6. SizeOf(queue) = 0
  <2>1. IsFiniteSet(DOMAIN queue)
    BY <1>2, FiniteQueue
  <2>2. \A q \in DOMAIN queue : Sizes(queue)[q] = 0
    BY <1>3 DEF Sizes
  <2> QED
    BY <2>1, <2>2, SizeIsSum, SumZero
<1>7. /\ counters = [queued_with_cov |-> 0, queued_variable |-> 0, total_bitmap_size |-> 0,
                 total_bitmap_entries |-> 0, cal_failures |-> 0, useless_at_start |-> 0,
                 unique_crashes |-> 0, unique_hangs |-> 0]
      /\ crashes = << >> /\ hangs = << >> /\ at = 1 /\ pc = "dry_run"
      /\ cal.stage_max = 0 /\ cal.stage_cur = 0
  BY DEF Init
<1>8. counters \in CounterRecord
  BY <1>7 DEF CounterRecord
<1>9. Agree(queue, counters)
  BY <1>4, <1>5, <1>6, <1>7 DEF Agree
<1>10. Filed
  BY <1>7 DEF Filed
<1>11. Ranges
  BY <1>1, <1>2, <1>7 DEF Ranges
<1>12. Unmeasured
  BY <1>3, <1>7 DEF Unmeasured, Calibrating
<1> QED
  BY <1>8, <1>9, <1>10, <1>11, <1>12 DEF TotalsInv

LEMMA Parts ==
  ASSUME IInv
  PROVE  /\ queue \in Seq(EntryRecord) /\ Len(queue) \in Nat /\ DOMAIN queue = 1 .. Len(queue)
         /\ \A q \in DOMAIN queue : queue[q] \in EntryRecord
         /\ Calibrating => at \in DOMAIN queue
         /\ cal \in CalRecord /\ crash_mode \in {"none", "crash"} /\ at \in Nat \ {0}
         /\ Seeds <= Len(queue)
<1>1. MapTypes /\ RecordTypes /\ Located
  BY DEF IInv
<1> QED
  BY <1>1, Domains, CalibrationAssumption DEF RecordTypes, Located

\* An entry that is replaced by one that counts for as much.
LEMMA AgreeReplaced ==
  ASSUME NEW u \in Seq(EntryRecord), NEW a \in DOMAIN u, NEW e \in EntryRecord,
         NEW v, v = [u EXCEPT ![a] = e], NEW c, NEW k,
         Agree(u, c),
         k.queued_with_cov = c.queued_with_cov + One(e.has_new_cov) - One(u[a].has_new_cov),
         k.queued_variable = c.queued_variable + One(e.var_behavior) - One(u[a].var_behavior),
         k.total_bitmap_size = c.total_bitmap_size + e.bitmap_size - u[a].bitmap_size,
         k.total_bitmap_entries = c.total_bitmap_entries + One(Done(e)) - One(Done(u[a]))
  PROVE  Agree(v, k)
<1>1. Shifted(u, v, e, u[a])
  BY EntryReplaced
<1> QED
  BY <1>1 DEF Agree, Shifted

LEMMA AgreeAppended ==
  ASSUME NEW u \in Seq(EntryRecord), NEW e \in EntryRecord, NEW v, v = Append(u, e), NEW c, NEW k,
         Agree(u, c), ~ e.var_behavior, ~ Done(e), e.bitmap_size = 0,
         k.queued_with_cov = c.queued_with_cov + One(e.has_new_cov),
         k.queued_variable = c.queued_variable,
         k.total_bitmap_size = c.total_bitmap_size,
         k.total_bitmap_entries = c.total_bitmap_entries
  PROVE  Agree(v, k)
<1>1. Shifted(u, v, e, NoEntryYet) /\ CountsTyped(u)
  BY EntryAppended, TypedCounts
<1>2. /\ NoEntryYet.has_new_cov = FALSE /\ NoEntryYet.var_behavior = FALSE
      /\ ~ Done(NoEntryYet) /\ NoEntryYet.bitmap_size = 0
  BY DEF NoEntryYet, Entry, Done
<1> QED
  BY <1>1, <1>2 DEF Agree, Shifted, One, CountsTyped

LEMMA CycleTotals ==
  ASSUME IInv, TotalsInv, NEW o \in Outcomes, Cycle(o)
  PROVE  TotalsInv'
<1> DEFINE trace == classify_counts(o.hits)
           q == queue[at]
<1>1. /\ pc = "calibrate" /\ cal.stage_cur < cal.stage_max
      /\ UNCHANGED <<crash_mode, crashes, hangs, at, counters>>
  BY DEF Cycle, options, files
<1>2. /\ queue \in Seq(EntryRecord) /\ at \in DOMAIN queue /\ q \in EntryRecord
      /\ cal \in CalRecord /\ DOMAIN queue = 1 .. Len(queue)
  BY <1>1, Parts DEF Calibrating
<1>3. q.bitmap_size = 0 /\ q.cal_failed > 0 /\ cal.stage_max # 0
  BY <1>1 DEF TotalsInv, Unmeasured
<1>4. trace \in BitMap /\ trace # NoCksum
  BY ClassifyTyped, ChecksumOfTrace
<1>5. /\ cal.stage_cur \in Nat /\ cal.stage_max \in Nat /\ CAL_CYCLES \in Nat \ {0}
      /\ CAL_CYCLES_LONG \in Nat \ {0} /\ CAL_CYCLES <= CAL_CYCLES_LONG
  BY <1>2, CalibrationAssumption DEF CalRecord
<1>6. \/ /\ pc' = "calibrated" /\ queue' = queue
         /\ \E f : cal' = [cal EXCEPT !.fault = f]
      \/ /\ pc' = "calibrate" /\ queue' = queue /\ o.fault = crash_mode
         /\ q.exec_cksum = trace
         /\ cal' = [cal EXCEPT !.fault = o.fault, !.stage_cur = @ + 1]
      \/ /\ pc' = "calibrate" /\ o.fault = crash_mode
         /\ \/ queue' = [queue EXCEPT ![at].exec_cksum = trace]
            \/ queue' = queue /\ q.exec_cksum # NoCksum
         /\ cal'.fault = o.fault /\ cal'.stage_cur = cal.stage_cur + 1
         /\ cal'.stage_max \in {cal.stage_max, CAL_CYCLES_LONG} /\ cal'.caller = cal.caller
  <2> DEFINE failed == \/ stop_soon \/ o.fault # crash_mode
                       \/ cal.stage_cur = 0 /\ count_bytes(trace) = 0
             varying == {i \in MapBytes : i \notin var_bytes /\ first_trace[i] # trace[i]}
             f == IF stop_soon \/ o.fault # crash_mode THEN o.fault ELSE "noinst"
             n == Max({cal.new_bits, has_new_bits(trace, virgin_bits)})
             m == IF q.exec_cksum # NoCksum /\ varying # {} THEN CAL_CYCLES_LONG ELSE cal.stage_max
             d == cal.var_detected \/ q.exec_cksum # NoCksum
  <2>1. ~ failed => o.fault = crash_mode
    OBVIOUS
  <2>2. m \in {cal.stage_max, CAL_CYCLES_LONG}
    OBVIOUS
  <2>3. \/ cal' = [cal EXCEPT !.fault = f] /\ pc' = "calibrated" /\ queue' = queue
        \/ /\ ~ failed /\ q.exec_cksum = trace
           /\ cal' = [cal EXCEPT !.fault = o.fault, !.stage_cur = @ + 1]
           /\ queue' = queue /\ pc' = pc
        \/ /\ ~ failed /\ pc' = pc
           /\ \/ queue' = [queue EXCEPT ![at].exec_cksum = trace]
              \/ queue' = queue /\ q.exec_cksum # NoCksum
           /\ cal' = [cal EXCEPT !.fault = o.fault, !.stage_cur = @ + 1,
                                 !.new_bits = n, !.stage_max = m, !.var_detected = d]
    BY DEF Cycle
  <2> HIDE DEF failed, varying, f, n, m, d
  <2>4. CASE cal' = [cal EXCEPT !.fault = f] /\ pc' = "calibrated" /\ queue' = queue
    BY <2>4
  <2>5. CASE /\ ~ failed /\ q.exec_cksum = trace
             /\ cal' = [cal EXCEPT !.fault = o.fault, !.stage_cur = @ + 1]
             /\ queue' = queue /\ pc' = pc
    BY <1>1, <2>1, <2>5
  <2>6. CASE /\ ~ failed /\ pc' = pc
             /\ \/ queue' = [queue EXCEPT ![at].exec_cksum = trace]
                \/ queue' = queue /\ q.exec_cksum # NoCksum
             /\ cal' = [cal EXCEPT !.fault = o.fault, !.stage_cur = @ + 1,
                                   !.new_bits = n, !.stage_max = m, !.var_detected = d]
    <3>1. /\ cal'.fault = o.fault /\ cal'.stage_cur = cal.stage_cur + 1
          /\ cal'.stage_max \in {cal.stage_max, CAL_CYCLES_LONG} /\ cal'.caller = cal.caller
      BY <1>2, <2>2, <2>6 DEF CalRecord
    <3>2. pc' = "calibrate" /\ o.fault = crash_mode
      BY <1>1, <2>1, <2>6
    <3> HIDE DEF q
    <3> QED
      BY <2>6, <3>1, <3>2
  <2> QED
    BY <2>3, <2>4, <2>5, <2>6
<1>7. /\ Ranges /\ Filed /\ counters \in CounterRecord /\ Agree(queue, counters)
      /\ cal.caller = "perform_dry_run" => \A k \in DOMAIN queue : k > at => queue[k].bitmap_size = 0
  BY <1>1 DEF TotalsInv, Unmeasured, Calibrating
<1> HIDE DEF trace
<1>8. CASE pc' = "calibrated" /\ queue' = queue /\ \E f : cal' = [cal EXCEPT !.fault = f]
  <2>1. cal'.stage_max = cal.stage_max /\ cal'.stage_cur = cal.stage_cur /\ cal'.caller = cal.caller
    BY <1>2, <1>8 DEF CalRecord
  <2>2. Ranges'
    BY <1>1, <1>7, <1>8, <2>1 DEF Ranges
  <2>3. Unmeasured'
    BY <1>1, <1>2, <1>3, <1>7, <1>8, <2>1 DEF Unmeasured, Calibrating, EntryRecord
  <2>4. Filed' /\ counters' \in CounterRecord /\ Agree(queue', counters')
    BY <1>1, <1>7, <1>8 DEF Filed
  <2> QED
    BY <2>2, <2>3, <2>4 DEF TotalsInv
<1>9. CASE /\ pc' = "calibrate" /\ o.fault = crash_mode
           /\ \/ queue' = [queue EXCEPT ![at].exec_cksum = trace]
              \/ queue' = queue /\ q.exec_cksum # NoCksum
           /\ cal'.fault = o.fault /\ cal'.stage_cur = cal.stage_cur + 1
           /\ cal'.stage_max \in {cal.stage_max, CAL_CYCLES_LONG} /\ cal'.caller = cal.caller
  <2> DEFINE e == [q EXCEPT !.exec_cksum = trace]
  <2>1. /\ Agree(queue', counters') /\ DOMAIN queue' = DOMAIN queue /\ Len(queue') = Len(queue)
        /\ \A k \in DOMAIN queue : queue'[k].bitmap_size = queue[k].bitmap_size
        /\ queue'[at].cal_failed = q.cal_failed /\ queue'[at].exec_cksum # NoCksum
    <3>1. CASE queue' = queue /\ q.exec_cksum # NoCksum
      BY <1>1, <1>7, <3>1
    <3>2. CASE queue' = [queue EXCEPT ![at].exec_cksum = trace]
      <4>1. queue' = [queue EXCEPT ![at] = e]
        BY <3>2
      <4>2. /\ e \in EntryRecord /\ e.has_new_cov = q.has_new_cov /\ e.var_behavior = q.var_behavior
            /\ e.bitmap_size = q.bitmap_size /\ e.cal_failed = q.cal_failed /\ e.exec_cksum = trace
        BY <1>2, <1>4 DEF EntryRecord
      <4> HIDE DEF e
      <4>3. ~ Done(e) /\ ~ Done(q)
        BY <1>2, <1>3, <4>2 DEF Done, EntryRecord
      <4>4. /\ One(Done(e)) = 0 /\ One(Done(q)) = 0
            /\ One(e.has_new_cov) = One(q.has_new_cov) /\ One(q.has_new_cov) \in Int
            /\ One(e.var_behavior) = One(q.var_behavior) /\ One(q.var_behavior) \in Int
        BY <4>2, <4>3 DEF One
      <4>5. q.bitmap_size \in Int /\ e.bitmap_size = q.bitmap_size
        BY <1>3, <4>2
      <4>6. /\ counters.queued_with_cov \in Int /\ counters.queued_variable \in Int
            /\ counters.total_bitmap_size \in Int /\ counters.total_bitmap_entries \in Int
        BY <1>7 DEF CounterRecord
      <4> HIDE DEF q
      <4>9. /\ counters.queued_with_cov
                 = counters.queued_with_cov + One(e.has_new_cov) - One(q.has_new_cov)
            /\ counters.queued_variable
                 = counters.queued_variable + One(e.var_behavior) - One(q.var_behavior)
            /\ counters.total_bitmap_size
                 = counters.total_bitmap_size + e.bitmap_size - q.bitmap_size
            /\ counters.total_bitmap_entries
                 = counters.total_bitmap_entries + One(Done(e)) - One(Done(q))
        BY <4>4, <4>5, <4>6
      <4>10. q = queue[at]
        BY DEF q
      <4>7. Agree(queue', counters)
        BY <1>2, <1>7, <4>1, <4>2, <4>9, <4>10, AgreeReplaced
      <4>8. /\ DOMAIN queue' = DOMAIN queue /\ Len(queue') = Len(queue) /\ queue'[at] = e
            /\ \A k \in DOMAIN queue : k # at => queue'[k] = queue[k]
        BY <1>2, <4>1, <4>2, Replaced
      <4> QED
        BY <1>1, <1>2, <1>4, <4>2, <4>7, <4>8, <4>10
    <3> QED
      BY <1>9, <3>1, <3>2
  <2>2. Ranges'
    BY <1>1, <1>5, <1>7, <1>9, <2>1 DEF Ranges
  <2>3. Unmeasured'
    <3>1. pc' = "calibrate" => /\ queue'[at'].bitmap_size = 0 /\ queue'[at'].cal_failed > 0
                               /\ cal'.stage_max # 0
                               /\ cal'.stage_cur > 0 =>
                                    queue'[at'].exec_cksum # NoCksum /\ cal'.fault = crash_mode'
      BY <1>1, <1>2, <1>3, <1>5, <1>9, <2>1
    <3>2. cal'.caller = "perform_dry_run" =>
            \A k \in DOMAIN queue' : k > at' => queue'[k].bitmap_size = 0
      BY <1>1, <1>7, <1>9, <2>1
    <3> QED
      BY <1>9, <3>1, <3>2 DEF Unmeasured
  <2>4. Filed' /\ counters' \in CounterRecord
    BY <1>1, <1>7 DEF Filed
  <2> QED
    BY <2>1, <2>2, <2>3, <2>4 DEF TotalsInv
<1> QED
  <2>1. CASE /\ pc' = "calibrate" /\ queue' = queue /\ o.fault = crash_mode
             /\ q.exec_cksum = trace
             /\ cal' = [cal EXCEPT !.fault = o.fault, !.stage_cur = @ + 1]
    BY <1>2, <1>4, <1>9, <2>1 DEF CalRecord
  <2> QED
    BY <1>6, <1>8, <1>9, <2>1

LEMMA MeasuredTotals ==
  ASSUME IInv, TotalsInv, Measured
  PROVE  TotalsInv'
<1> DEFINE n == count_bytes(trace_bits)
           q == queue[at]
           e == [q EXCEPT !.bitmap_size = n, !.cal_failed = 0]
<1>1. /\ pc = "calibrate" /\ pc' = "calibrated" /\ cal.stage_cur >= cal.stage_max
      /\ UNCHANGED <<crash_mode, crashes, hangs, at>>
      /\ queue' = [queue EXCEPT ![at] = e]
      /\ counters' = [counters EXCEPT !.total_bitmap_size = @ + n, !.total_bitmap_entries = @ + 1]
      /\ cal' = cal \/ cal' = [cal EXCEPT !.fault = "nobits"]
  BY DEF Measured, options, files
<1>2. /\ queue \in Seq(EntryRecord) /\ at \in DOMAIN queue /\ q \in EntryRecord
      /\ cal \in CalRecord /\ DOMAIN queue = 1 .. Len(queue)
  BY <1>1, Parts DEF Calibrating
<1>3. cal.stage_cur \in Nat /\ cal.stage_max \in Nat /\ n \in Nat
  BY <1>2, CountTyped DEF CalRecord
<1>4. /\ q.bitmap_size = 0 /\ q.cal_failed > 0 /\ q.exec_cksum # NoCksum /\ cal.fault = crash_mode
      /\ cal.caller = "perform_dry_run" => \A k \in DOMAIN queue : k > at => queue[k].bitmap_size = 0
  BY <1>1, <1>3 DEF TotalsInv, Unmeasured, Calibrating
<1>5. Ranges /\ Filed /\ counters \in CounterRecord /\ Agree(queue, counters)
  BY DEF TotalsInv
<1>6. /\ cal'.stage_max = cal.stage_max /\ cal'.stage_cur = cal.stage_cur /\ cal'.caller = cal.caller
      /\ cal'.fault \in {crash_mode, "nobits"}
  BY <1>1, <1>2, <1>4 DEF CalRecord
<1> HIDE DEF n
<1>7. /\ e \in EntryRecord /\ e.has_new_cov = q.has_new_cov /\ e.var_behavior = q.var_behavior
      /\ e.bitmap_size = n /\ e.cal_failed = 0 /\ e.exec_cksum = q.exec_cksum
  BY <1>2, <1>3 DEF EntryRecord
<1> HIDE DEF e
<1>8. Done(e) /\ ~ Done(q)
  BY <1>2, <1>4, <1>7 DEF Done, EntryRecord
<1>9. /\ One(Done(e)) = 1 /\ One(Done(q)) = 0
      /\ One(e.has_new_cov) = One(q.has_new_cov) /\ One(q.has_new_cov) \in Int
      /\ One(e.var_behavior) = One(q.var_behavior) /\ One(q.var_behavior) \in Int
  BY <1>7, <1>8 DEF One
<1>10. /\ counters.queued_with_cov \in Int /\ counters.queued_variable \in Int
       /\ counters.total_bitmap_size \in Int /\ counters.total_bitmap_entries \in Int
  BY <1>5 DEF CounterRecord
<1>11. /\ counters'.queued_with_cov = counters.queued_with_cov
       /\ counters'.queued_variable = counters.queued_variable
       /\ counters'.total_bitmap_size = counters.total_bitmap_size + n
       /\ counters'.total_bitmap_entries = counters.total_bitmap_entries + 1
       /\ counters'.unique_crashes = counters.unique_crashes
       /\ counters'.unique_hangs = counters.unique_hangs
  BY <1>1, <1>5 DEF CounterRecord
<1>17. counters' \in CounterRecord
  <2> DEFINE c == [counters EXCEPT !.total_bitmap_size = @ + n]
  <2>1. counters.total_bitmap_size + n \in Int /\ counters.total_bitmap_entries + 1 \in Int
    BY <1>3, <1>10
  <2>2. c \in CounterRecord /\ c.total_bitmap_entries = counters.total_bitmap_entries
    BY <1>5, <2>1 DEF CounterRecord
  <2>3. counters' = [c EXCEPT !.total_bitmap_entries = @ + 1]
    BY <1>1
  <2> HIDE DEF c
  <2> QED
    BY <2>1, <2>2, <2>3 DEF CounterRecord
<1> HIDE DEF q
<1>18. /\ counters'.queued_with_cov
                 = counters.queued_with_cov + One(e.has_new_cov) - One(q.has_new_cov)
       /\ counters'.queued_variable
                 = counters.queued_variable + One(e.var_behavior) - One(q.var_behavior)
       /\ counters'.total_bitmap_size
                 = counters.total_bitmap_size + e.bitmap_size - q.bitmap_size
       /\ counters'.total_bitmap_entries
                 = counters.total_bitmap_entries + One(Done(e)) - One(Done(q))
  BY <1>3, <1>4, <1>7, <1>9, <1>10, <1>11
<1>19. q = queue[at]
  BY DEF q
<1>20. queue' = [queue EXCEPT ![at] = e]
  BY <1>1
<1>12. Agree(queue', counters')
  BY <1>2, <1>5, <1>7, <1>18, <1>19, <1>20, AgreeReplaced
<1>13. /\ DOMAIN queue' = DOMAIN queue /\ Len(queue') = Len(queue) /\ queue'[at] = e
       /\ \A k \in DOMAIN queue : k # at => queue'[k] = queue[k]
  BY <1>1, <1>2, <1>7, Replaced
<1>14. Ranges'
  BY <1>1, <1>5, <1>6, <1>13 DEF Ranges
<1>15. Unmeasured'
  <2>1. cal'.caller = "perform_dry_run" =>
            \A k \in DOMAIN queue' : k > at' => queue'[k].bitmap_size = 0
    BY <1>1, <1>2, <1>4, <1>6, <1>13
  <2> QED
    BY <1>1, <1>6, <2>1 DEF Unmeasured
<1>16. Filed'
  BY <1>1, <1>5, <1>11 DEF Filed
<1> QED
  BY <1>12, <1>14, <1>15, <1>16, <1>17 DEF TotalsInv

LEMMA DryRunTotals ==
  ASSUME IInv, TotalsInv, DryRun
  PROVE  TotalsInv'
<1> DEFINE q == queue[at]
           e == [q EXCEPT !.cal_failed = @ + 1]
<1>1. /\ pc = "dry_run" /\ UNCHANGED <<crash_mode, crashes, hangs, counters>>
      /\ \/ /\ at <= Seeds /\ queue' = [queue EXCEPT ![at].cal_failed = @ + 1]
            /\ cal'.stage_cur = 0 /\ cal'.stage_max = CAL_CYCLES /\ at' = at /\ pc' = "calibrate"
         \/ pc' \in {"ended", "fuzz"} /\ UNCHANGED <<queue, cal, at>>
  BY DEF DryRun, Begin, options, files
<1>2. CASE pc' \in {"ended", "fuzz"} /\ UNCHANGED <<queue, cal, at>>
  BY <1>1, <1>2, SameTotals
<1>3. CASE /\ at <= Seeds /\ queue' = [queue EXCEPT ![at].cal_failed = @ + 1]
           /\ cal'.stage_cur = 0 /\ cal'.stage_max = CAL_CYCLES /\ at' = at /\ pc' = "calibrate"
  <2>1. /\ queue \in Seq(EntryRecord) /\ at \in DOMAIN queue /\ q \in EntryRecord
        /\ DOMAIN queue = 1 .. Len(queue) /\ Len(queue) \in Nat /\ at \in Nat
    BY <1>3, Parts, CalibrationAssumption
  <2>2. q.exec_cksum = NoCksum /\ \A k \in DOMAIN queue : k >= at => queue[k].bitmap_size = 0
    BY <1>1, <2>1 DEF IInv, Fresh, TotalsInv, Unmeasured
  <2>3. /\ e \in EntryRecord /\ e.has_new_cov = q.has_new_cov /\ e.var_behavior = q.var_behavior
        /\ e.bitmap_size = q.bitmap_size /\ e.cal_failed > 0 /\ e.exec_cksum = q.exec_cksum
    <3>1. q.cal_failed \in Nat
      BY <2>1 DEF EntryRecord
    <3>2. q.cal_failed + 1 \in Nat /\ q.cal_failed + 1 > 0
      BY <3>1
    <3> HIDE DEF q
    <3> QED
      BY <2>1, <3>2 DEF EntryRecord
  <2>4. queue' = [queue EXCEPT ![at] = e]
    BY <1>3
  <2> HIDE DEF e
  <2>5. Ranges /\ Filed /\ counters \in CounterRecord /\ Agree(queue, counters)
    BY DEF TotalsInv
  <2>6. ~ Done(e) /\ ~ Done(q)
    BY <2>2, <2>3 DEF Done
  <2>7. /\ One(Done(e)) = 0 /\ One(Done(q)) = 0
        /\ One(e.has_new_cov) = One(q.has_new_cov) /\ One(q.has_new_cov) \in Int
        /\ One(e.var_behavior) = One(q.var_behavior) /\ One(q.var_behavior) \in Int
    BY <2>3, <2>6 DEF One
  <2>8. /\ counters.queued_with_cov \in Int /\ counters.queued_variable \in Int
        /\ counters.total_bitmap_size \in Int /\ counters.total_bitmap_entries \in Int
        /\ q.bitmap_size = 0
    BY <2>1, <2>2, <2>5 DEF CounterRecord
  <2> HIDE DEF q
  <2>9. /\ counters.queued_with_cov
             = counters.queued_with_cov + One(e.has_new_cov) - One(q.has_new_cov)
        /\ counters.queued_variable
             = counters.queued_variable + One(e.var_behavior) - One(q.var_behavior)
        /\ counters.total_bitmap_size
             = counters.total_bitmap_size + e.bitmap_size - q.bitmap_size
        /\ counters.total_bitmap_entries
             = counters.total_bitmap_entries + One(Done(e)) - One(Done(q))
    BY <2>3, <2>7, <2>8
  <2>10. q = queue[at]
    BY DEF q
  <2>11. Agree(queue', counters)
    BY <2>1, <2>3, <2>4, <2>5, <2>9, <2>10, AgreeReplaced
  <2>12. /\ DOMAIN queue' = DOMAIN queue /\ Len(queue') = Len(queue) /\ queue'[at] = e
         /\ \A k \in DOMAIN queue : k # at => queue'[k] = queue[k]
    BY <2>1, <2>3, <2>4, Replaced
  <2>13. Ranges'
    BY <1>3, <2>5, <2>12, CalibrationAssumption DEF Ranges
  <2>14. Unmeasured'
    <3>1. \A k \in DOMAIN queue' : k > at' => queue'[k].bitmap_size = 0
      BY <1>3, <2>1, <2>2, <2>12
    <3>2. queue'[at'].bitmap_size = 0 /\ queue'[at'].cal_failed > 0 /\ cal'.stage_max # 0
      BY <1>3, <2>3, <2>8, <2>12, CalibrationAssumption
    <3> QED
      BY <1>3, <3>1, <3>2 DEF Unmeasured
  <2> QED
    BY <1>1, <2>5, <2>11, <2>13, <2>14 DEF TotalsInv, Filed
<1> QED
  BY <1>1, <1>2, <1>3

\* abort_calibration counts what it marks.
LEMMA MarksTotals ==
  ASSUME IInv, TotalsInv, pc = "calibrated", NEW changed \in EntryRecord,
         changed.has_new_cov = queue[at].has_new_cov, changed.var_behavior = queue[at].var_behavior,
         changed.bitmap_size = queue[at].bitmap_size, Done(changed) <=> Done(queue[at]),
         Marks(changed)
  PROVE  /\ counters' \in CounterRecord /\ Agree(queue', counters')
         /\ counters'.unique_crashes = counters.unique_crashes
         /\ counters'.unique_hangs = counters.unique_hangs
         /\ DOMAIN queue' = DOMAIN queue /\ Len(queue') = Len(queue)
         /\ \A k \in DOMAIN queue : queue'[k].bitmap_size = queue[k].bitmap_size
<1> DEFINE q == queue[at]
           newcov == cal.new_bits = 2 /\ ~ q.has_new_cov
           newvar == cal.var_detected /\ ~ q.var_behavior
           e == [changed EXCEPT !.has_new_cov = @ \/ newcov, !.var_behavior = @ \/ newvar]
           c == IF newcov THEN 1 ELSE 0
           v == IF newvar THEN 1 ELSE 0
           f == IF changed.cal_failed = CAL_CHANCES THEN 1 ELSE 0
           u == IF cal.caller = "perform_dry_run" /\ cal.fault = "nobits" THEN 1 ELSE 0
<1>1. /\ queue' = [queue EXCEPT ![at] = e]
      /\ counters' = [counters EXCEPT !.queued_with_cov = @ + c, !.queued_variable = @ + v,
                                      !.cal_failures = @ + f, !.useless_at_start = @ + u]
  BY DEF Marks
<1>2. c \in Int /\ v \in Int /\ f \in Int /\ u \in Int
  OBVIOUS
<1>3. /\ queue \in Seq(EntryRecord) /\ at \in DOMAIN queue /\ q \in EntryRecord
      /\ q.has_new_cov \in BOOLEAN /\ q.var_behavior \in BOOLEAN
  BY Parts DEF Calibrating, EntryRecord
<1>4. newcov \in BOOLEAN /\ newvar \in BOOLEAN /\ (newcov => ~ q.has_new_cov)
      /\ (newvar => ~ q.var_behavior) /\ c = One(newcov) /\ v = One(newvar)
  BY DEF One
<1> HIDE DEF newcov, newvar
<1>5. (changed.has_new_cov \/ newcov) \in BOOLEAN /\ (changed.var_behavior \/ newvar) \in BOOLEAN
  OBVIOUS
<1>6. /\ e \in EntryRecord /\ (e.has_new_cov <=> changed.has_new_cov \/ newcov)
      /\ (e.var_behavior <=> changed.var_behavior \/ newvar)
      /\ e.bitmap_size = changed.bitmap_size
      /\ e.cal_failed = changed.cal_failed /\ e.exec_cksum = changed.exec_cksum
  BY <1>5 DEF EntryRecord
<1> HIDE DEF e, c, v, f, u, q
<1>7. q = queue[at]
  BY DEF q
<1>8. /\ counters \in CounterRecord /\ Agree(queue, counters)
      /\ counters.queued_with_cov \in Int /\ counters.queued_variable \in Int
      /\ counters.total_bitmap_size \in Int /\ counters.total_bitmap_entries \in Int
      /\ counters.cal_failures \in Int /\ counters.useless_at_start \in Int
  BY DEF TotalsInv, CounterRecord
<1>9. /\ counters'.queued_with_cov = counters.queued_with_cov + c
      /\ counters'.queued_variable = counters.queued_variable + v
      /\ counters'.total_bitmap_size = counters.total_bitmap_size
      /\ counters'.total_bitmap_entries = counters.total_bitmap_entries
      /\ counters'.unique_crashes = counters.unique_crashes
      /\ counters'.unique_hangs = counters.unique_hangs
  BY <1>1, <1>8 DEF CounterRecord
<1>10. counters' \in CounterRecord
  <2> DEFINE c1 == [counters EXCEPT !.queued_with_cov = @ + c]
             c2 == [c1 EXCEPT !.queued_variable = @ + v]
             c3 == [c2 EXCEPT !.cal_failures = @ + f]
             c4 == [c3 EXCEPT !.useless_at_start = @ + u]
  <2>1. counters' = c4
    BY <1>1
  <2>2. c1 \in CounterRecord
    BY <1>2, <1>8 DEF CounterRecord
  <2> HIDE DEF c1
  <2>3. c1.queued_variable + v \in Int
    BY <1>2, <2>2 DEF CounterRecord
  <2>4. c2 \in CounterRecord
    BY <2>2, <2>3 DEF CounterRecord
  <2> HIDE DEF c2
  <2>5. c2.cal_failures + f \in Int
    BY <1>2, <2>4 DEF CounterRecord
  <2>6. c3 \in CounterRecord
    BY <2>4, <2>5 DEF CounterRecord
  <2> HIDE DEF c3
  <2>7. c3.useless_at_start + u \in Int
    BY <1>2, <2>6 DEF CounterRecord
  <2>8. c4 \in CounterRecord
    BY <2>6, <2>7 DEF CounterRecord
  <2> QED
    BY <2>1, <2>8
<1>11. Done(e) <=> Done(q)
  BY <1>6, <1>7 DEF Done
<1>12. /\ One(e.has_new_cov) = One(q.has_new_cov) + c /\ One(e.var_behavior) = One(q.var_behavior) + v
       /\ One(q.has_new_cov) \in Int /\ One(q.var_behavior) \in Int
       /\ One(Done(e)) = One(Done(q)) /\ One(Done(q)) \in Int
  BY <1>4, <1>6, <1>7, <1>11 DEF One
<1>13. q.bitmap_size \in Int /\ e.bitmap_size = q.bitmap_size
  BY <1>3, <1>6, <1>7 DEF EntryRecord
<1>14. /\ counters'.queued_with_cov
            = counters.queued_with_cov + One(e.has_new_cov) - One(q.has_new_cov)
       /\ counters'.queued_variable
            = counters.queued_variable + One(e.var_behavior) - One(q.var_behavior)
       /\ counters'.total_bitmap_size
            = counters.total_bitmap_size + e.bitmap_size - q.bitmap_size
       /\ counters'.total_bitmap_entries
            = counters.total_bitmap_entries + One(Done(e)) - One(Done(q))
  BY <1>2, <1>8, <1>9, <1>12, <1>13
<1>15. queue' = [queue EXCEPT ![at] = e]
  BY <1>1
<1>16. Agree(queue', counters')
  BY <1>3, <1>6, <1>7, <1>8, <1>14, <1>15, AgreeReplaced
<1>17. /\ DOMAIN queue' = DOMAIN queue /\ Len(queue') = Len(queue) /\ queue'[at] = e
       /\ \A k \in DOMAIN queue : k # at => queue'[k] = queue[k]
  BY <1>3, <1>6, <1>15, Replaced
<1> QED
  BY <1>7, <1>9, <1>10, <1>13, <1>16, <1>17

LEMMA DryVerdictTotals ==
  ASSUME IInv, TotalsInv, DryVerdict
  PROVE  TotalsInv'
<1> DEFINE passed == tolerant /\ \/ cal.fault = "tmout"
                                 \/ cal.fault = "crash" /\ crash_mode = "none"
           cf == IF ~stop_soon /\ passed THEN CAL_CHANCES ELSE queue[at].cal_failed
           changed == [queue[at] EXCEPT !.sent = messages_sent, !.cal_failed = cf]
<1>1. /\ pc = "calibrated" /\ cal.caller = "perform_dry_run"
      /\ UNCHANGED <<crash_mode, cal, crashes, hangs>>
      /\ \/ pc' = "ended" /\ at' = at
         \/ pc' = "dry_run" /\ at' = at + 1
  BY DEF DryVerdict, options, files
<1>2. /\ at \in DOMAIN queue /\ queue[at] \in EntryRecord /\ DOMAIN queue = 1 .. Len(queue)
      /\ crash_mode \in {"none", "crash"} /\ Len(queue) \in Nat /\ messages_sent \in Nat
  BY <1>1, Parts DEF Calibrating, IInv, RecordTypes
<1>3. queue[at].cal_failed \in Nat /\ CAL_CHANCES \in Nat \ {0}
  BY <1>2, CalibrationAssumption DEF EntryRecord
<1>4. cf \in Nat /\ (cf = 0 <=> queue[at].cal_failed = 0)
  <2>1. queue[at].cal_failed = 0 => cal.fault \in {crash_mode, "nobits"}
    BY <1>1 DEF TotalsInv, Unmeasured
  <2>2. passed => cal.fault \notin {crash_mode, "nobits"}
    BY <1>2
  <2> HIDE DEF passed
  <2> QED
    BY <1>3, <2>1, <2>2
<1>5. Marks(changed)
  BY <1>2 DEF DryVerdict, EntryRecord
<1> HIDE DEF cf
<1>6. /\ changed \in EntryRecord /\ changed.has_new_cov = queue[at].has_new_cov
      /\ changed.var_behavior = queue[at].var_behavior
      /\ changed.bitmap_size = queue[at].bitmap_size
      /\ changed.cal_failed = cf /\ changed.exec_cksum = queue[at].exec_cksum
  BY <1>2, <1>4 DEF EntryRecord
<1> HIDE DEF changed
<1>7. Done(changed) <=> Done(queue[at])
  BY <1>4, <1>6 DEF Done
<1>8. /\ counters' \in CounterRecord /\ Agree(queue', counters')
      /\ counters'.unique_crashes = counters.unique_crashes
      /\ counters'.unique_hangs = counters.unique_hangs
      /\ DOMAIN queue' = DOMAIN queue /\ Len(queue') = Len(queue)
      /\ \A k \in DOMAIN queue : queue'[k].bitmap_size = queue[k].bitmap_size
  BY <1>1, <1>5, <1>6, <1>7, MarksTotals
<1>9. Filed'
  BY <1>1, <1>8 DEF TotalsInv, Filed
<1>10. Ranges'
  BY <1>1, <1>2, <1>8 DEF TotalsInv, Ranges
<1>11. Unmeasured'
  <2>1. \A k \in DOMAIN queue : k > at => queue[k].bitmap_size = 0
    BY <1>1 DEF TotalsInv, Unmeasured, Calibrating
  <2>2. pc' = "dry_run" => \A k \in DOMAIN queue' : k >= at' => queue'[k].bitmap_size = 0
    BY <1>1, <1>2, <1>8, <2>1
  <2> QED
    BY <1>1, <2>2 DEF Unmeasured, Calibrating
<1> QED
  BY <1>8, <1>9, <1>10, <1>11 DEF TotalsInv

LEMMA DiscoveryCalibratedTotals ==
  ASSUME IInv, TotalsInv, DiscoveryCalibrated
  PROVE  TotalsInv'
<1>1. /\ pc = "calibrated" /\ Marks(queue[at]) /\ pc' \in {"ended", "file"}
      /\ UNCHANGED <<crash_mode, cal, crashes, hangs, at>>
  BY DEF DiscoveryCalibrated, options, files
<1>2. at \in DOMAIN queue /\ queue[at] \in EntryRecord
  BY <1>1, Parts DEF Calibrating
<1>3. /\ counters' \in CounterRecord /\ Agree(queue', counters')
      /\ counters'.unique_crashes = counters.unique_crashes
      /\ counters'.unique_hangs = counters.unique_hangs
      /\ DOMAIN queue' = DOMAIN queue /\ Len(queue') = Len(queue)
  BY <1>1, <1>2, MarksTotals
<1>4. Filed' /\ Ranges' /\ Unmeasured'
  BY <1>1, <1>3 DEF TotalsInv, Filed, Ranges, Unmeasured, Calibrating
<1> QED
  BY <1>3, <1>4 DEF TotalsInv

LEMMA DiscoveredTotals ==
  ASSUME IInv, TotalsInv, NEW o \in Outcomes, Discovered(o), UNCHANGED <<crash_mode, crashes, hangs>>
  PROVE  TotalsInv'
<1> DEFINE trace == classify_counts(o.hits)
           hnb == has_new_bits(trace, virgin_bits)
           first == [Entry(o.sent, trace) EXCEPT !.has_new_cov = hnb = 2]
           n == Len(queue) + 1
           e == [first EXCEPT !.cal_failed = @ + 1]
           c == IF hnb = 2 THEN 1 ELSE 0
<1>1. /\ Len(queue) < MaxEntries /\ at' = n /\ pc' = "calibrate"
      /\ queue' = [Append(queue, first) EXCEPT ![n].cal_failed = @ + 1]
      /\ counters' = [counters EXCEPT !.queued_with_cov = @ + c]
      /\ cal'.stage_cur = 0 /\ cal'.stage_max = CAL_CYCLES /\ cal'.caller = "save_if_interesting"
  BY DEF Discovered, Begin
<1>2. /\ queue \in Seq(EntryRecord) /\ DOMAIN queue = 1 .. Len(queue) /\ Len(queue) \in Nat
  BY Parts
<1>3. trace \in BitMap /\ o.sent \in Nat /\ (hnb = 2) \in BOOLEAN /\ c = One(hnb = 2) /\ c \in Int
  BY ClassifyTyped DEF One
<1> HIDE DEF trace, hnb, c
<1>4. /\ first \in EntryRecord /\ (first.has_new_cov <=> hnb = 2) /\ first.var_behavior = FALSE
      /\ first.cal_failed = 0 /\ first.bitmap_size = 0
  BY <1>3 DEF Entry, EntryRecord
<1> HIDE DEF first
<1>5. /\ e \in EntryRecord /\ (e.has_new_cov <=> hnb = 2) /\ e.var_behavior = FALSE
      /\ e.cal_failed = 1 /\ e.bitmap_size = 0
  BY <1>4 DEF EntryRecord
<1>6. queue' = Append(queue, e)
  <2> DEFINE a == Append(queue, first)
  <2>1. /\ a \in Seq(EntryRecord) /\ DOMAIN a = 1 .. n /\ a[n] = first /\ Len(a) = n
        /\ \A k \in DOMAIN queue : a[k] = queue[k]
    BY <1>2, <1>4, Appended
  <2>2. queue' = [a EXCEPT ![n] = e]
    BY <1>1, <2>1
  <2> HIDE DEF a, e, n
  <2>3. n \in DOMAIN a
    BY <1>2, <2>1 DEF n
  <2>4. /\ queue' \in Seq(EntryRecord) /\ DOMAIN queue' = 1 .. n /\ queue'[n] = e /\ Len(queue') = n
        /\ \A k \in DOMAIN a : k # n => queue'[k] = a[k]
    BY <1>5, <2>1, <2>2, <2>3, Replaced
  <2>5. /\ Append(queue, e) \in Seq(EntryRecord) /\ DOMAIN Append(queue, e) = 1 .. n
        /\ Append(queue, e)[n] = e /\ Len(Append(queue, e)) = n
        /\ \A k \in DOMAIN queue : Append(queue, e)[k] = queue[k]
    BY <1>2, <1>5, Appended DEF n
  <2>6. \A k \in 1 .. n : queue'[k] = Append(queue, e)[k]
    <3> TAKE k \in 1 .. n
    <3>1. CASE k = n
      BY <2>4, <2>5, <3>1
    <3>2. CASE k # n
      <4>1. k \in DOMAIN queue /\ k \in DOMAIN a
        BY <1>2, <2>1, <3>2 DEF n
      <4> QED
        BY <2>1, <2>4, <2>5, <3>2, <4>1
    <3> QED
      BY <3>1, <3>2
  <2> QED
    BY <2>4, <2>5, <2>6, SeqEqual
<1> HIDE DEF e
<1>7. Ranges /\ Filed /\ counters \in CounterRecord /\ Agree(queue, counters)
  BY DEF TotalsInv
<1>8. counters.queued_with_cov + c \in Int
  BY <1>3, <1>7 DEF CounterRecord
<1>9. /\ counters' \in CounterRecord
      /\ counters'.queued_with_cov = counters.queued_with_cov + c
      /\ counters'.queued_variable = counters.queued_variable
      /\ counters'.total_bitmap_size = counters.total_bitmap_size
      /\ counters'.total_bitmap_entries = counters.total_bitmap_entries
      /\ counters'.unique_crashes = counters.unique_crashes
      /\ counters'.unique_hangs = counters.unique_hangs
  BY <1>1, <1>7, <1>8 DEF CounterRecord
<1>10. c = One(e.has_new_cov) /\ ~ Done(e) /\ ~ e.var_behavior
  BY <1>3, <1>5 DEF One, Done
<1>11. Agree(queue', counters')
  BY <1>2, <1>5, <1>6, <1>7, <1>9, <1>10, AgreeAppended
<1>12. queue'[n] = e /\ Len(queue') = n
  BY <1>2, <1>5, <1>6, Appended
<1>13. Ranges'
  BY <1>1, <1>2, <1>7, <1>12, CalibrationAssumption DEF Ranges
<1>14. Unmeasured'
  <2>1. /\ pc' = "calibrate" /\ cal'.caller = "save_if_interesting" /\ at' = n
        /\ cal'.stage_cur = 0 /\ cal'.stage_max # 0
    BY <1>1, CalibrationAssumption
  <2>2. queue'[at'].bitmap_size = 0 /\ queue'[at'].cal_failed = 1
    BY <1>5, <1>12, <2>1
  <2> HIDE DEF n
  <2> QED
    BY <2>1, <2>2 DEF Unmeasured
<1>15. Filed'
  BY <1>7, <1>9 DEF Filed
<1> QED
  BY <1>9, <1>11, <1>13, <1>14, <1>15 DEF TotalsInv

LEMMA ExecuteTotals ==
  ASSUME IInv, TotalsInv, NEW o \in Outcomes, Execute(o)
  PROVE  TotalsInv'
<1>1. UNCHANGED <<crash_mode, crashes, hangs>> /\ (NotLooked \/ NothingNew(o) \/ Discovered(o) \/ Unexpected(o))
  BY DEF Execute, options, files
<1>2. CASE Discovered(o)
  BY <1>1, <1>2, DiscoveredTotals
<1>3. CASE NotLooked \/ NothingNew(o) \/ Unexpected(o)
  <2>1. UNCHANGED <<queue, cal, at, counters>> /\ pc' \in {"ended", "fuzz", "file"}
    BY <1>3 DEF NotLooked, NothingNew, Unexpected
  <2> QED
    BY <1>1, <2>1, SameTotals
<1> QED
  BY <1>1, <1>2, <1>3

\* A crash or a hang is kept.
LEMMA FiledTotals ==
  ASSUME IInv, TotalsInv, UNCHANGED <<queue, cal, at, crash_mode>>,
         pc' \notin {"dry_run", "calibrate", "calibrated"},
         \/ /\ \E r \in CrashRecord : crashes' = Append(crashes, r)
            /\ hangs' = hangs
            /\ counters' = [counters EXCEPT !.unique_crashes = @ + 1]
         \/ /\ \E r \in HangRecord : hangs' = Append(hangs, r)
            /\ crashes' = crashes
            /\ counters' = [counters EXCEPT !.unique_hangs = @ + 1]
  PROVE  TotalsInv'
<1>1. /\ counters \in CounterRecord /\ Filed /\ crashes \in Seq(CrashRecord) /\ hangs \in Seq(HangRecord)
  BY DEF TotalsInv, IInv, RecordTypes
<1>2. Len(crashes) \in Nat /\ Len(hangs) \in Nat
  BY <1>1, LenProperties
<1>3. counters.unique_crashes + 1 \in Int /\ counters.unique_hangs + 1 \in Int
  BY <1>1 DEF CounterRecord
<1>4. /\ counters' \in CounterRecord
      /\ counters'.queued_with_cov = counters.queued_with_cov
      /\ counters'.queued_variable = counters.queued_variable
      /\ counters'.total_bitmap_size = counters.total_bitmap_size
      /\ counters'.total_bitmap_entries = counters.total_bitmap_entries
  BY <1>1, <1>3 DEF CounterRecord
<1>5. Filed'
  <2>1. \A r \in CrashRecord : Len(Append(crashes, r)) = Len(crashes) + 1
    BY <1>1, AppendProperties
  <2>2. \A r \in HangRecord : Len(Append(hangs, r)) = Len(hangs) + 1
    BY <1>1, AppendProperties
  <2> QED
    BY <1>1, <2>1, <2>2 DEF Filed, CounterRecord
<1> QED
  BY <1>4, <1>5, QuietTotals

LEMMA HangTotals ==
  ASSUME IInv, TotalsInv, Hang
  PROVE  TotalsInv'
<1> DEFINE trace == simplify_trace(trace_bits)
           r == [sent |-> messages_sent, of |-> last, trace |-> trace]
<1>1. /\ UNCHANGED <<crash_mode, queue, cal, at, crashes>> /\ pc' \in {"fuzz", "verify"}
      /\ \/ counters' = counters /\ hangs' = hangs
         \/ /\ counters' = [counters EXCEPT !.unique_hangs = @ + 1]
            /\ hangs' = Append(hangs, r)
  BY DEF Hang, NotKept, KeepHang, options
<1>2. trace_bits \in BitMap /\ messages_sent \in Nat /\ last \in Faults
  BY DEF IInv, MapTypes, RecordTypes
<1>3. r \in HangRecord
  BY <1>2, SimplifyTyped DEF HangRecord
<1> HIDE DEF r
<1>4. CASE counters' = counters /\ hangs' = hangs
  BY <1>1, <1>4, SameTotals
<1>5. CASE counters' = [counters EXCEPT !.unique_hangs = @ + 1] /\ hangs' = Append(hangs, r)
  BY <1>1, <1>3, <1>5, FiledTotals
<1> QED
  BY <1>1, <1>4, <1>5

LEMMA VerifyTotals ==
  ASSUME IInv, TotalsInv, NEW o \in Outcomes, Verify(o)
  PROVE  TotalsInv'
<1> DEFINE r == [sent |-> o.sent, of |-> o.fault, trace |-> trace_bits]
<1>1. /\ UNCHANGED <<crash_mode, queue, cal, at, crashes>> /\ pc' \in {"fuzz", "file"}
      /\ \/ counters' = counters /\ hangs' = hangs
         \/ /\ counters' = [counters EXCEPT !.unique_hangs = @ + 1]
            /\ hangs' = Append(hangs, r)
  BY DEF Verify, KeepHang, options
<1>2. trace_bits \in BitMap /\ o.sent \in Nat /\ o.fault \in Faults
  BY ClassifyTyped DEF IInv, MapTypes
<1>3. r \in HangRecord
  BY <1>2 DEF HangRecord
<1> HIDE DEF r
<1>4. CASE counters' = counters /\ hangs' = hangs
  BY <1>1, <1>4, SameTotals
<1>5. CASE counters' = [counters EXCEPT !.unique_hangs = @ + 1] /\ hangs' = Append(hangs, r)
  BY <1>1, <1>3, <1>5, FiledTotals
<1> QED
  BY <1>1, <1>4, <1>5

LEMMA CrashTotals ==
  ASSUME IInv, TotalsInv, Crash
  PROVE  TotalsInv'
<1> DEFINE trace == simplify_trace(trace_bits)
           r == [sent |-> messages_sent, sig |-> kill_signal, of |-> last, trace |-> trace]
<1>1. /\ UNCHANGED <<crash_mode, queue, cal, at, hangs>> /\ pc' = "fuzz"
      /\ \/ counters' = counters /\ crashes' = crashes
         \/ /\ counters' = [counters EXCEPT !.unique_crashes = @ + 1]
            /\ crashes' = Append(crashes, r)
  BY DEF Crash, NotKept, options
<1>2. trace_bits \in BitMap /\ messages_sent \in Nat /\ kill_signal \in Nat /\ last \in Faults
  BY DEF IInv, MapTypes, RecordTypes
<1>3. r \in CrashRecord
  BY <1>2, SimplifyTyped DEF CrashRecord
<1> HIDE DEF r
<1>4. CASE counters' = counters /\ crashes' = crashes
  BY <1>1, <1>4, SameTotals
<1>5. CASE counters' = [counters EXCEPT !.unique_crashes = @ + 1] /\ crashes' = Append(crashes, r)
  BY <1>1, <1>3, <1>5, FiledTotals
<1> QED
  BY <1>1, <1>4, <1>5

LEMMA NextKeepsTotals ==
  ASSUME IInv, TotalsInv, [Next]_calibration
  PROVE  TotalsInv'
<1>1. CASE UNCHANGED calibration
  BY <1>1, SameTotals DEF calibration, options, files
<1>2. CASE Stop \/ OtherFault
  <2>1. UNCHANGED <<queue, cal, at, crash_mode, counters, crashes, hangs>>
        /\ (pc' = pc \/ pc' \notin {"dry_run", "calibrate", "calibrated"})
    BY <1>2 DEF Stop, OtherFault, options, files
  <2> QED
    BY <2>1, SameTotals
<1>3. CASE Calibrate
  BY <1>3, CycleTotals, MeasuredTotals DEF Calibrate
<1>4. CASE DryRun \/ DryVerdict
  BY <1>4, DryRunTotals, DryVerdictTotals
<1>5. CASE DiscoveryCalibrated \/ Hang \/ Crash
  BY <1>5, DiscoveryCalibratedTotals, HangTotals, CrashTotals
<1>6. CASE \E o \in Outcomes : Execute(o) \/ Verify(o)
  BY <1>6, ExecuteTotals, VerifyTotals
<1> QED
  BY <1>1, <1>2, <1>3, <1>4, <1>5, <1>6 DEF Next

LEMMA IInvGivesTotalsAgree ==
  ASSUME IInv, TotalsInv
  PROVE  TotalsAgree
<1>1. MapTypes /\ RecordTypes /\ Ranges /\ Filed /\ Agree(queue, counters)
  BY DEF IInv, TotalsInv
<1>2. cal.stage_cur \in Nat
  BY <1>1 DEF RecordTypes, CalRecord
<1>3. cal.stage_cur \in 0 .. CAL_CYCLES_LONG
  BY <1>1, <1>2, CalibrationAssumption DEF Ranges
<1>4. TypeOK
  BY <1>1, <1>3 DEF TypeOK, MapTypes, RecordTypes, Ranges, Places
<1> QED
  BY <1>1, <1>4 DEF TotalsAgree, Agree, Filed, CovOf, VarOf, DoneOf, SizeOf

\* The totals of calculate_score and of the status are those of the queue and of
\* the files, though entries are marked from three places and one is measured
\* once at most; and a byte or an entry is called variable only when two runs of
\* one entry differ (afl-fuzz.c:3537-3543, 3593-3640).
THEOREM CalibrationMarks == Spec => []MarksAreTrue
<1>1. Init => IInv /\ TotalsInv
  BY InitGivesIInv, InitTotals
<1>2. IInv /\ TotalsInv /\ [Next]_calibration => (IInv /\ TotalsInv)'
  BY NextKeepsIInv, NextKeepsTotals
<1>3. IInv /\ TotalsInv => MarksAreTrue
  BY IInvGivesTotalsAgree, IInvGivesVariableBytesVary DEF MarksAreTrue
<1> QED
  BY <1>1, <1>2, <1>3, PTL DEF Spec
=============================================================================
