------------------------------- MODULE Havoc --------------------------------
(***************************************************************************)
(* The random stages of fuzz_one: havoc with its stacked tweaks, and       *)
(* splicing, which replaces the input and runs havoc again.  Bytes do not  *)
(* matter here, sizes do: how much is allocated for out_buf, how much of   *)
(* it is used, and how long the loops go on.  inBounds stays TRUE as long  *)
(* as every access is inside the buffer it is made to and UR, which        *)
(* divides by its argument, is never called with zero.                     *)
(***************************************************************************)
EXTENDS Words

CONSTANTS
  ExtraLens,        \* lengths of the tokens in the dictionaries
  SourceLens,       \* lengths of the regions of the queue's entries
  TargetLens,       \* lengths of the entries to splice with
  SpeedFactors, SizeFactors, Depths, MaxHandicap,   \* what calculate_score reads
  HAVOC_BLK_SMALL, HAVOC_BLK_MEDIUM, HAVOC_BLK_LARGE, HAVOC_BLK_XL,
  HAVOC_CYCLES, HAVOC_CYCLES_INIT, HAVOC_MAX_MULT, HAVOC_MIN, SPLICE_HAVOC,
  SPLICE_CYCLES, HAVOC_DIVS,
  MaxStacking       \* bound: tweaks stacked in one execution

(* The regions of entries are not empty (extract_requests cuts no empty one *)
(* off).  Entries may be longer than MAX_FILE: they hold whole sessions.    *)
ASSUME HavocAssumption ==
  /\ ExtraLens \subseteq Nat /\ SourceLens \subseteq Nat \ {0} /\ TargetLens \subseteq Nat
  /\ SpeedFactors \subseteq Nat /\ SizeFactors \subseteq Nat /\ Depths \subseteq Nat
  /\ MaxHandicap \in Nat /\ HAVOC_DIVS \subseteq Nat \ {0}
  /\ \A c \in {HAVOC_BLK_SMALL, HAVOC_BLK_MEDIUM, HAVOC_BLK_LARGE, HAVOC_BLK_XL, HAVOC_CYCLES,
               HAVOC_CYCLES_INIT, HAVOC_MAX_MULT, HAVOC_MIN, SPLICE_HAVOC, SPLICE_CYCLES} : c \in Nat
  /\ 1 <= HAVOC_BLK_SMALL /\ HAVOC_BLK_SMALL <= HAVOC_BLK_MEDIUM
  /\ HAVOC_BLK_MEDIUM <= HAVOC_BLK_LARGE /\ HAVOC_BLK_LARGE <= HAVOC_BLK_XL

VARIABLES
  hpc,              \* "idle", "stage", "tweak", "splice" or "done"
  alloc, temp_len,  \* size of out_buf, and what of it is used
  hlen, in_alloc,   \* len, and the size of in_buf
  M2_len, spliced,  \* length of the seed's own buffer; in_buf # orig_in
  doing_det,
  splice_cycle, use_splicing,
  perf_score, orig_perf, handicap,
  stage_cur, stage_max, stacked,
  pending,          \* what was_fuzzed and pending_not_fuzzed say of the entry
  inBounds

hvars == <<hpc, alloc, temp_len, hlen, in_alloc, M2_len, spliced, doing_det, splice_cycle, use_splicing,
           perf_score, orig_perf, handicap, stage_cur, stage_max, stacked, pending, inBounds>>

Least(a, b) == IF a < b THEN a ELSE b
UR(limit) == 0 .. limit - 1

(* choose_block_len: the three choices of a size class.  run_over10m and   *)
(* the queue cycle only take the larger classes away.                      *)
BlockLens(limit) ==
  LET Class(lo, hi) == LET min_value == IF lo >= limit THEN 1 ELSE lo
                     IN {min_value + r : r \in UR(Least(hi, limit) - min_value + 1)}
  IN Class(1, HAVOC_BLK_SMALL) \cup Class(HAVOC_BLK_SMALL, HAVOC_BLK_MEDIUM)
     \cup Class(HAVOC_BLK_MEDIUM, HAVOC_BLK_LARGE) \cup Class(HAVOC_BLK_LARGE, HAVOC_BLK_XL)

(* calculate_score: percent for the speed and the size of the entry, twice *)
(* to four times for latecomers, one to five times for its depth.          *)
DepthFactor(depth) == CASE depth \in 0..3 -> 1 [] depth \in 4..7 -> 2 [] depth \in 8..13 -> 3
                        [] depth \in 14..25 -> 4 [] OTHER -> 5

calculate_score(speed, size, depth) ==
  Least(((speed * size) \div 100) * (CASE handicap >= 4 -> 4 [] handicap \in 1..3 -> 2 [] OTHER -> 1)
          * DepthFactor(depth),
        HAVOC_MAX_MULT * 100)

NextHandicap == CASE handicap >= 4 -> handicap - 4 [] handicap \in 1..3 -> handicap - 1 [] OTHER -> 0

HavocInit ==
  /\ hpc = "idle"
  /\ alloc = 0 /\ temp_len = 0 /\ hlen = 0 /\ in_alloc = 0 /\ M2_len = 0 /\ spliced = FALSE
  /\ doing_det = FALSE /\ splice_cycle = 0 /\ use_splicing \in BOOLEAN
  /\ perf_score = 100 /\ orig_perf = 100 /\ handicap \in 0 .. MaxHandicap
  /\ stage_cur = 0 /\ stage_max = 0 /\ stacked = 0
  /\ pending = TRUE /\ inBounds = TRUE

(* fuzz_one with a buffer of n bytes that the deterministic stages leave   *)
(* for havoc; det says whether they ran.                                   *)
HavocStart(n, det) ==
  /\ hpc = "idle"
  /\ hpc' = "stage"
  /\ alloc' = n /\ temp_len' = n /\ hlen' = n /\ in_alloc' = n /\ M2_len' = n
  /\ doing_det' = det
  /\ \E speed \in SpeedFactors, size \in SizeFactors, depth \in Depths :
       perf_score' = calculate_score(speed, size, depth)
  /\ orig_perf' = perf_score' /\ handicap' = NextHandicap
  /\ splice_cycle' = 0
  /\ UNCHANGED <<spliced, use_splicing, stage_cur, stage_max, stacked, pending, inBounds>>

\* havoc_stage: how many executions the stage makes
EnterStage ==
  /\ hpc = "stage"
  /\ perf_score' = IF splice_cycle = 0 THEN perf_score ELSE orig_perf
  /\ \E havoc_div \in HAVOC_DIVS :
       LET cycles == IF splice_cycle # 0 THEN SPLICE_HAVOC
                     ELSE IF doing_det THEN HAVOC_CYCLES_INIT ELSE HAVOC_CYCLES
           max == ((cycles * perf_score') \div havoc_div) \div 100
       IN stage_max' = IF max < HAVOC_MIN THEN HAVOC_MIN ELSE max
  /\ stage_cur' = 0 /\ stacked' = 0
  /\ temp_len' = hlen
  /\ hpc' = "tweak"
  /\ UNCHANGED <<alloc, hlen, in_alloc, M2_len, spliced, doing_det, splice_cycle, use_splicing,
                 orig_perf, handicap, pending, inBounds>>

Tweaking == hpc = "tweak" /\ stacked < MaxStacking

\* one tweak: the accesses it makes are fine, out_buf has size a, n bytes are used
Tweak(fine, a, n) ==
  /\ inBounds' = (inBounds /\ fine)
  /\ alloc' = a /\ temp_len' = n
  /\ stacked' = stacked + 1
  /\ UNCHANGED <<hpc, hlen, in_alloc, M2_len, spliced, doing_det, splice_cycle, use_splicing, perf_score,
                 orig_perf, handicap, stage_cur, stage_max, pending>>

\* cases 0 to 10: a bit, or a word of n bytes, anywhere in the buffer
TweakWord ==
  /\ Tweaking
  /\ \E n \in {1, 2, 4} :
       \/ n > 1 /\ temp_len < n /\ Tweak(TRUE, alloc, temp_len)
       \/ /\ n = 1 \/ temp_len >= n
          /\ Tweak(temp_len - n + 1 > 0 /\ temp_len <= alloc, alloc, temp_len)

\* cases 11 and 12
DeleteBytes ==
  /\ Tweaking /\ temp_len >= 2
  /\ \E del_len \in BlockLens(temp_len - 1) :
       \E del_from \in UR(temp_len - del_len + 1) :
         Tweak(/\ del_len >= 1
               /\ temp_len - del_from - del_len >= 0 /\ temp_len <= alloc,
               alloc, temp_len - del_len)

\* case 13: a clone of a block, or a block of one byte, into a new buffer
CloneBytes ==
  /\ Tweaking /\ temp_len + HAVOC_BLK_XL < MAX_FILE
  /\ \E clone \in BOOLEAN :
       \E clone_len \in BlockLens(IF clone THEN temp_len ELSE HAVOC_BLK_XL) :
         Tweak(/\ clone => clone_len <= temp_len
               /\ temp_len > 0 /\ temp_len <= alloc,
               temp_len + clone_len, temp_len + clone_len)

\* case 14
OverwriteBytes ==
  /\ Tweaking /\ temp_len >= 2
  /\ \E copy_len \in BlockLens(temp_len - 1) :
       Tweak(temp_len - copy_len + 1 > 0 /\ temp_len <= alloc, alloc, temp_len)

\* case 15
OverwriteExtra ==
  /\ Tweaking
  /\ \E extra_len \in ExtraLens :
       /\ extra_len <= temp_len
       /\ Tweak(temp_len <= alloc, alloc, temp_len)

Insert(n) ==
  /\ temp_len + n < MAX_FILE
  /\ Tweak(temp_len <= alloc, temp_len + n, temp_len + n)

\* case 16: a token anywhere, in a new buffer
InsertExtra == Tweaking /\ \E n \in ExtraLens : Insert(n)

\* choose_source_region gives no region longer than MAX_FILE
SourceRegions == {n \in SourceLens : n <= MAX_FILE}

\* case 17: the buffer of the region becomes out_buf
ReplaceRegion == Tweaking /\ \E n \in SourceRegions : Tweak(n > 0, n, n)

\* cases 18 and 19: a region at the head or at the end, in a new buffer
InsertRegion == Tweaking /\ \E n \in SourceRegions : Insert(n)

\* case 20
DuplicateRegion ==
  /\ Tweaking /\ temp_len * 2 < MAX_FILE
  /\ Tweak(temp_len <= alloc, temp_len * 2, temp_len * 2)

\* out_buf grows back when it was shrunk, and gets the bytes of in_buf again
RestoreSize == IF temp_len < hlen THEN hlen ELSE alloc

\* common_fuzz_stuff, the restore, and more cycles when something was found
Execute ==
  /\ hpc = "tweak" /\ stacked >= 1
  /\ alloc' = RestoreSize
  /\ temp_len' = hlen
  /\ inBounds' = (inBounds /\ temp_len <= alloc /\ hlen <= alloc' /\ hlen <= in_alloc)
  /\ \E new \in BOOLEAN :
       IF new /\ perf_score <= HAVOC_MAX_MULT * 100
       THEN stage_max' = 2 * stage_max /\ perf_score' = 2 * perf_score
       ELSE UNCHANGED <<stage_max, perf_score>>
  /\ stage_cur' = stage_cur + 1
  /\ stacked' = 0
  /\ hpc' = IF stage_cur' < stage_max' THEN "tweak" ELSE "splice"
  /\ UNCHANGED <<hlen, in_alloc, M2_len, spliced, doing_det, splice_cycle, use_splicing, orig_perf,
                 handicap, pending>>

\* abandon_entry, reached from every execution and at the end
Finish ==
  /\ hpc' = "done"
  /\ \E counted \in BOOLEAN : pending' = (pending /\ ~counted)   \* unless stop_soon or cal_failed
  /\ UNCHANGED <<alloc, temp_len, hlen, in_alloc, M2_len, spliced, doing_det, use_splicing, perf_score,
                 orig_perf, handicap, stage_cur, stage_max, stacked, inBounds>>

AbandonHavoc == hpc = "tweak" /\ stacked >= 1 /\ Finish /\ UNCHANGED splice_cycle

SlipCountCycle == UNCHANGED splice_cycle

\* the loop condition of retry_splicing counts a cycle even when it fails
CountCycle == splice_cycle' = IF use_splicing THEN splice_cycle + 1 ELSE splice_cycle

NoSplicing ==
  /\ hpc = "splice"
  /\ \/ ~use_splicing \/ splice_cycle >= SPLICE_CYCLES \/ M2_len <= 1
     \/ splice_cycle = 0   \* queued_paths = 1
  /\ CountCycle /\ Finish

CanSplice == hpc = "splice" /\ use_splicing /\ splice_cycle < SPLICE_CYCLES /\ M2_len > 1

\* the seed's own buffer again, and an entry after the chosen one that does not do
RetrySplicing ==
  /\ CanSplice /\ CountCycle
  /\ spliced' = FALSE /\ in_alloc' = M2_len /\ hlen' = M2_len
  /\ UNCHANGED <<hpc, alloc, temp_len, M2_len, doing_det, use_splicing, perf_score, orig_perf, handicap,
                 stage_cur, stage_max, stacked, pending, inBounds>>

\* locate_diffs: the first and the last differing byte, when they will do
Differences(n) ==
  {d \in [first : 0 .. n - 1, last : 0 .. n - 1] : d.first < d.last /\ d.last >= 2}

\* the head of the seed up to split_at, between the first and the last
\* difference, and the tail of another entry
Splice ==
  /\ CanSplice /\ CountCycle
  /\ \E n \in TargetLens :
       \E d \in Differences(Least(M2_len, n)) :
         /\ n >= 2
         /\ \E split_at \in {d.first + r : r \in UR(d.last - d.first)} :
              inBounds' = (inBounds /\ split_at <= n /\ split_at <= M2_len)
         /\ hlen' = n /\ in_alloc' = n /\ alloc' = n
  /\ spliced' = TRUE
  /\ hpc' = "stage"
  /\ UNCHANGED <<temp_len, M2_len, doing_det, use_splicing, perf_score, orig_perf, handicap, stage_cur,
                 stage_max, stacked, pending>>

HavocStep ==
  \/ EnterStage \/ TweakWord \/ DeleteBytes \/ CloneBytes \/ OverwriteBytes \/ OverwriteExtra
  \/ InsertExtra \/ InsertRegion \/ ReplaceRegion \/ DuplicateRegion \/ Execute \/ NoSplicing \/ RetrySplicing \/ Splice

HavocNext == HavocStep \/ AbandonHavoc

-----------------------------------------------------------------------------
HavocTypeOK ==
  /\ hpc \in {"idle", "stage", "tweak", "splice", "done"}
  /\ {alloc, temp_len, hlen, in_alloc, M2_len, splice_cycle, perf_score, orig_perf, handicap,
      stage_cur, stage_max, stacked} \subseteq Nat
  /\ {spliced, doing_det, use_splicing, pending, inBounds} \subseteq BOOLEAN

(* Whatever tweaks are stacked, whichever buffers splicing puts in place    *)
(* and however the restores interleave with them, every access stays in     *)
(* the buffer as it is allocated then, a random number is never drawn from  *)
(* nothing, the buffer holds at least one byte, no tweak lets it grow       *)
(* beyond MAX_FILE, and in_buf and len belong together.                     *)
MemoryFits ==
  /\ inBounds
  /\ hpc \in {"tweak", "splice"} => temp_len \in 1 .. alloc
  /\ hpc = "tweak" => temp_len <= MAX_FILE \/ temp_len <= hlen
  /\ hpc \in {"stage", "tweak", "splice"} => hlen = in_alloc
  /\ hpc = "tweak" /\ stacked = 0 => temp_len = hlen
  /\ ~spliced => hlen = M2_len
=============================================================================
