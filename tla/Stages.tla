------------------------------- MODULE Stages -------------------------------
(***************************************************************************)
(* The deterministic stages of fuzz_one: walking bit flips with the        *)
(* collection of tokens, walking byte flips with the effector map,         *)
(* arithmetics, interesting values and dictionary tokens, over a buffer of *)
(* real bytes.  One step is one turn of the outer loop of a stage with all *)
(* executions of its inner loop; any turn may give up instead.  What the   *)
(* target does with a buffer is a free choice of the checksums that the    *)
(* code reads.  The history variable tried holds the buffers executed.     *)
(***************************************************************************)
EXTENDS Dictionary

CONSTANTS
  Inputs,           \* the buffers to mutate
  Cksums,           \* checksums of a trace other than the seed's own
  ARITH_MAX, EFF_MAP_SCALE2, EFF_MIN_LEN, EFF_MAX_PERC,
  MIN_AUTO_EXTRA, MAX_AUTO_EXTRA, MAX_DET_EXTRAS

ASSUME StagesAssumption ==
  /\ \A b \in Inputs : b \in Seq(Byte) /\ b # <<>>
  /\ \A c \in {ARITH_MAX, EFF_MAP_SCALE2, EFF_MIN_LEN, EFF_MAX_PERC,
               MAX_AUTO_EXTRA, MAX_DET_EXTRAS} : c \in Nat
  /\ MIN_AUTO_EXTRA \in 2 .. MAX_AUTO_EXTRA

VARIABLES
  stage,        \* the stage that runs, "havoc", "abandoned" or "over" after the last
  turn,         \* turns of its outer loop that are done
  in_buf, out_buf,
  ex_tmp,       \* head of the buffer for insertions
  eff_map,      \* blocks flagged as having an effect; eff_cnt is their number
  a_collect,    \* the a_len bytes of a token; more than MAX_AUTO_EXTRA are only counted
  prev_cksum,
  a_extras,
  no_arith, dumb_mode,
  passed_det,   \* mark_as_det_done was reached
  tried,        \* history: buffers handed to common_fuzz_stuff
  lsb           \* history: checksums of the flips of the lowest bits, one per byte

svars == <<stage, turn, in_buf, out_buf, ex_tmp, eff_map, a_collect,
           prev_cksum, a_extras, no_arith, dumb_mode, passed_det, tried, lsb>>

OwnCksum == 0   \* queue_cur->exec_cksum
len == Len(in_buf)

Deltas == (-ARITH_MAX .. ARITH_MAX) \ {0}

(* What earlier stages are taken to have tried.                            *)

could_be_bitflip(old, new) ==
  LET d == Differing(old, new)
      n == Cardinality(d)
  IN \/ d = {}
     \/ /\ d = Min(d) .. Min(d) + n - 1
        /\ n \in {1, 2, 4} \/ (n \in {8, 16, 32} /\ Min(d) % 8 = 0)

Near(old, new) == \E d \in -ARITH_MAX .. ARITH_MAX : Plus(old, d) = new

\* exactly one of the aligned parts of n bytes differs: the pairs of these parts
OnlyDifference(old, new, n) ==
  LET parts == {i \in {n * j : j \in 0 .. (Len(old) \div n) - 1} : At(old, i, n) # At(new, i, n)}
  IN IF Cardinality(parts) = 1
     THEN {<<At(old, i, n), At(new, i, n)>> : i \in parts} ELSE {}

could_be_arith(old, new) ==
  \/ old = new
  \/ \E p \in OnlyDifference(old, new, 1) : Near(p[1], p[2])
  \/ \E n \in {2, 4} :
       /\ Len(old) >= n
       /\ \E p \in OnlyDifference(old, new, n) :
            Near(p[1], p[2]) \/ Near(Reverse(p[1]), Reverse(p[2]))

SlipCouldBeInterest(old, new, check_le) ==
  LET Inserted(n, ws) == \E i \in 0 .. Len(old) - n, w \in ws : new = Put(old, i, w)
  IN old = new \/ Inserted(1, interesting_8) \/ (Len(old) >= 2 /\ Inserted(2, interesting_16))

could_be_interest(old, new, check_le) ==
  LET blen == Len(old)
      Inserted(n, ws) == \E i \in 0 .. blen - n, w \in ws : new = Put(old, i, w)
  IN \/ old = new
     \/ Inserted(1, interesting_8)
     \/ (blen = 4 \/ check_le) /\ blen >= 2 /\ Inserted(2, interesting_16)
     \/ blen = 4 /\ Inserted(2, {Reverse(w) : w \in interesting_16})
     \/ blen = 4 /\ check_le /\ new \in interesting_32

(* The order of the stages and their loops.                                *)

AllStages == <<"flip1", "flip2", "flip4", "flip8", "flip16", "flip32", "arith8", "arith16", "arith32",
               "int8", "int16", "int32", "ext_UO", "ext_UI", "ext_AO", "havoc">>

Width(s) == CASE s \in {"flip1", "flip8", "arith8", "int8"} -> 1
              [] s \in {"flip2", "flip16", "arith16", "int16"} -> 2
              [] s \in {"flip4", "flip32", "arith32", "int32"} -> 4
              [] OTHER -> 1

BitFlips == {"flip1", "flip2", "flip4"}
ByteFlips == {"flip8", "flip16", "flip32"}
Arith == {"arith8", "arith16", "arith32"}
Interest == {"int8", "int16", "int32"}

Skipped(s) ==
  \/ s \in ByteFlips \cup Arith \cup Interest /\ len < Width(s)
  \/ s \in Arith \cup {"int16", "int32"} /\ no_arith
  \/ s \in {"ext_UO", "ext_UI"} /\ extras = <<>>
  \/ s = "ext_AO" /\ a_extras' = <<>>

Turns(s) == CASE s \in BitFlips -> 8 * len - Width(s) + 1
              [] s = "ext_UI" -> len + 1
              [] OTHER -> len - Width(s) + 1

EFF_APOS(p) == p \div 2^EFF_MAP_SCALE2
EFF_ALEN(l) == EFF_APOS(l + 2^EFF_MAP_SCALE2 - 1)
Effective(i, n) == \E k \in 0 .. n - 1 : EFF_APOS(i + k) \in eff_map

FirstAndLast == {0, EFF_APOS(len - 1)}

\* the map after the walking byte: dense maps are flagged completely
Densified(eff) ==
  LET n == EFF_ALEN(len) IN
  IF Cardinality(eff) # n /\ (Cardinality(eff) * 100) \div n > EFF_MAX_PERC THEN 0 .. n - 1 ELSE eff

Init ==
  /\ in_buf \in Inputs /\ out_buf = in_buf
  /\ no_arith \in BOOLEAN /\ dumb_mode \in BOOLEAN
  /\ stage = "flip1" /\ turn = 0
  /\ a_collect = <<>> /\ prev_cksum = OwnCksum
  /\ a_extras = <<>> /\ ex_tmp = <<>> /\ eff_map = {}
  /\ passed_det = FALSE /\ tried = {} /\ lsb = <<>>

LastTurn == turn + 1 = Turns(stage)

NextStage ==
  LET here == CHOOSE k \in DOMAIN AllStages : AllStages[k] = stage
  IN AllStages[Min({k \in DOMAIN AllStages : k > here /\ ~Skipped(AllStages[k])})]

\* one turn: the buffers it executes and the out_buf it leaves
Turn(runs, buf) ==
  /\ tried' = tried \cup runs
  /\ out_buf' = buf
  /\ IF LastTurn THEN stage' = NextStage /\ turn' = 0 ELSE stage' = stage /\ turn' = turn + 1
  /\ passed_det' = (stage' = "havoc")
  /\ UNCHANGED <<in_buf, no_arith, dumb_mode>>

FlipBits(buf, b, n) ==
  LET f[k \in 0..n] == IF k = 0 THEN buf ELSE FLIP_BIT(f[k - 1], b + k - 1) IN f[n]

Offered(a, token) ==
  IF Len(token) \in MIN_AUTO_EXTRA .. MAX_AUTO_EXTRA THEN maybe_add_auto(a, token) ELSE {a}

SlipCollectToken(byte, cksum) ==
  /\ IF cksum # prev_cksum THEN a_extras' \in Offered(a_extras, a_collect) ELSE a_extras' = a_extras
  /\ prev_cksum' = cksum
  /\ a_collect' = IF cksum = OwnCksum THEN <<>> ELSE Append(IF cksum # prev_cksum THEN <<>> ELSE a_collect, byte)
  /\ lsb' = Append(lsb, cksum)

\* after the lowest bit of a byte was flipped with checksum cksum
CollectToken(byte, cksum) ==
  LET atEnd == LastTurn /\ cksum = prev_cksum
      token == IF atEnd THEN Append(a_collect, byte) ELSE a_collect
      begun == IF cksum # prev_cksum THEN <<>> ELSE token
  IN /\ IF atEnd \/ cksum # prev_cksum THEN a_extras' \in Offered(a_extras, token)
        ELSE a_extras' = a_extras
     /\ prev_cksum' = cksum
     /\ a_collect' = IF cksum # OwnCksum THEN Append(begun, byte) ELSE begun
     /\ lsb' = Append(lsb, cksum)

\* bitflip 1/1, 2/1 and 4/1
WalkingBits ==
  LET flipped == FlipBits(out_buf, turn, Width(stage))
      restored == FlipBits(flipped, turn, Width(stage))
  IN /\ stage \in BitFlips
     /\ IF stage = "flip1" /\ ~dumb_mode /\ turn % 8 = 7
        THEN \E cksum \in Cksums \cup {OwnCksum} : CollectToken(restored[(turn \div 8) + 1], cksum)
        ELSE /\ UNCHANGED a_extras
             /\ IF stage = "flip1" THEN UNCHANGED <<a_collect, prev_cksum, lsb>>
                ELSE a_collect' = <<>> /\ prev_cksum' = OwnCksum /\ lsb' = <<>>   \* not read again
     /\ eff_map' = IF stage = "flip4" /\ LastTurn THEN FirstAndLast ELSE eff_map
     /\ Turn({flipped}, restored)
     /\ UNCHANGED ex_tmp

\* bitflip 8/8, 16/8 and 32/8
WalkingBytes ==
  LET n == Width(stage)
      flipped == Put(out_buf, turn, Inverted(At(out_buf, turn, n)))
      runs == IF stage = "flip8" \/ Effective(turn, n) THEN {flipped} ELSE {}
      buf == IF runs = {} THEN out_buf ELSE flipped
      checked == ~dumb_mode /\ len >= EFF_MIN_LEN
  IN /\ stage \in ByteFlips
     /\ IF stage = "flip8"
        THEN \E changed \in (IF checked THEN BOOLEAN ELSE {TRUE}) :
               LET eff == IF changed THEN eff_map \cup {EFF_APOS(turn)} ELSE eff_map
               IN eff_map' = IF LastTurn THEN Densified(eff) ELSE eff
        ELSE UNCHANGED eff_map
     /\ UNCHANGED <<ex_tmp, a_collect, prev_cksum, a_extras, lsb>>
     /\ Turn(runs, IF runs = {} THEN buf ELSE Put(buf, turn, Inverted(At(buf, turn, n))))

\* sums and differences that change more than the lower half of the word
ArithWords(orig) ==
  LET n == Len(orig)
      Sums(w) == {Plus(w, d) : d \in {d \in Deltas : n > 1 => Carry(w, d)[n \div 2] # 0}}
  IN {w \in Sums(orig) \cup {Reverse(v) : v \in Sums(Reverse(orig))} : ~could_be_bitflip(orig, w)}

InterestWords(orig) ==
  LET n == Len(orig)
      New(w) == ~could_be_bitflip(orig, w) /\ ~could_be_arith(orig, w)
  IN {w \in interesting(n) : New(w) /\ (n > 1 => ~could_be_interest(orig, w, FALSE))}
     \cup {Reverse(v) : v \in {v \in interesting(n) :
             /\ n > 1 /\ Reverse(v) # v
             /\ New(Reverse(v)) /\ ~could_be_interest(orig, Reverse(v), TRUE)}}

\* every new word is written over the one before, then the old one is put back
WalkingWords(words) ==
  LET n == Width(stage)
      orig == At(out_buf, turn, n)
      runs == IF Effective(turn, n) THEN {Put(out_buf, turn, w) : w \in words} ELSE {}
      buf == IF runs = {} THEN out_buf ELSE CHOOSE b \in runs : TRUE
  IN /\ UNCHANGED <<ex_tmp, eff_map, a_collect, prev_cksum, a_extras, lsb>>
     /\ Turn(runs, Put(buf, turn, orig))

Arithmetics == stage \in Arith /\ WalkingWords(ArithWords(At(out_buf, turn, Width(stage))))
InterestingValues == stage \in Interest /\ WalkingWords(InterestWords(At(out_buf, turn, Width(stage))))

\* a token over the bytes at one offset, unless it is left out
Write(acc, token) ==
  IF \/ Len(token) > len - turn
     \/ At(acc.buf, turn, Len(token)) = token
     \/ ~Effective(turn, Len(token))
  THEN acc
  ELSE LET buf == Put(acc.buf, turn, token)
       IN [buf |-> buf, last_len |-> Len(token), runs |-> acc.runs \cup {buf}]

\* the tokens that are used, shortest first, without a restore between them
Overwritten(tokens, used) ==
  LET after[k \in 0 .. Len(tokens)] ==
        IF k = 0 THEN [buf |-> out_buf, last_len |-> 0, runs |-> {}]
        ELSE IF k \in used THEN Write(after[k - 1], tokens[k]) ELSE after[k - 1]
  IN after[Len(tokens)]

SlipOverwriteTokens(tokens, used) ==
  LET o == Overwritten(tokens, used)
  IN /\ UNCHANGED <<ex_tmp, eff_map, a_collect, prev_cksum, a_extras, lsb>>
     /\ Turn(o.runs, Put(o.buf, turn, At(in_buf, turn, IF o.last_len > 0 THEN 1 ELSE 0)))

OverwriteTokens(tokens, used) ==
  LET o == Overwritten(tokens, used)
  IN /\ UNCHANGED <<ex_tmp, eff_map, a_collect, prev_cksum, a_extras, lsb>>
     /\ Turn(o.runs, Put(o.buf, turn, At(in_buf, turn, o.last_len)))

\* user extras (over): large dictionaries are used probabilistically
UserExtrasOver ==
  /\ stage = "ext_UO"
  /\ \E used \in (IF Len(extras) > MAX_DET_EXTRAS THEN SUBSET DOMAIN extras ELSE {DOMAIN extras}) :
       OverwriteTokens(extras, used)

\* auto extras (over)
AutoExtrasOver ==
  /\ stage = "ext_AO"
  /\ OverwriteTokens([k \in DOMAIN a_extras |-> a_extras[k].data],
                     1 .. Smaller(Len(a_extras), USE_AUTO_EXTRAS))

\* user extras (insert): ex_tmp gets the head of the buffer byte by byte
UserExtrasInsert ==
  LET fitting == {k \in DOMAIN extras : len + Len(extras[k]) <= MAX_FILE}
  IN /\ stage = "ext_UI"
     /\ ex_tmp' = IF turn < len THEN Append(ex_tmp, out_buf[turn + 1]) ELSE ex_tmp
     /\ UNCHANGED <<eff_map, a_collect, prev_cksum, a_extras, lsb>>
     /\ Turn({ex_tmp \o extras[k] \o SubSeq(out_buf, turn + 1, len) : k \in fitting}, out_buf)

\* common_fuzz_stuff returns 1 in the middle of any turn
Abandon ==
  /\ stage \notin {"havoc", "abandoned", "over"}
  /\ stage' = "abandoned"
  /\ UNCHANGED <<turn, in_buf, out_buf, ex_tmp, eff_map, a_collect, prev_cksum, a_extras,
                 no_arith, dumb_mode, passed_det, tried, lsb>>

Next == WalkingBits \/ WalkingBytes \/ Arithmetics \/ InterestingValues
        \/ UserExtrasOver \/ UserExtrasInsert \/ AutoExtrasOver \/ Abandon

Spec == Init /\ [][Next]_svars

-----------------------------------------------------------------------------
(* Whatever a turn wrote, the next turn and the next stage start from the  *)
(* seed: out_buf is in_buf again, and ex_tmp is a head of it.  Every stage  *)
(* restores in its own way, and the ones for tokens only once per offset.   *)
BufferRestored ==
  stage \notin {"abandoned", "over"} => out_buf = in_buf /\ ex_tmp = SubSeq(in_buf, 1, Len(ex_tmp))

\* maximal runs of bytes whose lowest bit leads to one and the same other trace
Runs == {SubSeq(in_buf, r[1], r[2]) : r \in
           {p \in (DOMAIN lsb) \X (DOMAIN lsb) :
              /\ p[1] <= p[2] /\ lsb[p[1]] # OwnCksum
              /\ \A k \in p[1] .. p[2] : lsb[k] = lsb[p[1]]
              /\ p[1] > 1 => lsb[p[1] - 1] # lsb[p[1]]
              /\ p[2] < Len(lsb) => lsb[p[2] + 1] # lsb[p[2]]}}

Tokens == {t \in Runs : Len(t) \in MIN_AUTO_EXTRA .. MAX_AUTO_EXTRA /\ ~Rejected(t)}

(* The tokens that flip1 collects while it walks are exactly the runs of    *)
(* bytes that its comment describes, the one at the end of the file         *)
(* included, each stored once whatever its case.                            *)
TokensAreRuns ==
  stage = "flip2" /\ turn = 0 /\ ~dumb_mode =>
    /\ \A e \in DOMAIN a_extras : a_extras[e].data \in Tokens /\ Known(a_extras, a_extras[e].data) = {e}
    /\ \A t \in Tokens : Known(a_extras, t) # {} \/ Len(a_extras) = MAX_AUTO_EXTRAS

(* What the stages promise to try, without any of their shortcuts.          *)
WordsAt(n, New(_)) ==
  UNION {{Put(in_buf, i, w) : w \in New(At(in_buf, i, n))} : i \in 0 .. len - n}

BothEndians(orig, New(_)) == New(orig) \cup {Reverse(w) : w \in New(Reverse(orig))}

Flips == UNION {{FlipBits(in_buf, b, n) : b \in 0 .. 8 * len - n} : n \in {1, 2, 4}}

Promised ==
  Flips \cup UNION {WordsAt(n, LAMBDA w : {Inverted(w)}
                                     \cup BothEndians(w, LAMBDA v : {Plus(v, d) : d \in Deltas})
                                     \cup BothEndians(w, LAMBDA v : interesting(n))) : n \in {1, 2, 4}}

\* the change is confined to bytes that are not in the effector map
NoEffect(buf) == \A i \in 0 .. len - 1 : buf[i + 1] # in_buf[i + 1] => ~Effective(i, 1)

\* the change is two or four neighbouring bits of a little-endian word across
\* a byte boundary, which could_be_bitflip takes for a walking flip
AcrossBytes(buf) ==
  LET d == Differing(in_buf, buf)
  IN /\ Cardinality(d) \in {2, 4} /\ d = Min(d) .. Max(d)
     /\ Min(d) \div 8 # Max(d) \div 8

(* An entry is marked as done in the deterministic stages only when every   *)
(* buffer they promise has been executed, in whichever stage: a stage may   *)
(* leave out a buffer because an earlier one, at another width, offset or   *)
(* byte order, really produced it or because only bytes without effect      *)
(* differ.  The exception is AcrossBytes; with AFL_NO_ARITH int8 still      *)
(* leaves out what only arithmetics produce, so the statement is about runs *)
(* without it.                                                              *)
PassedDetMeansTried ==
  stage = "havoc" /\ passed_det /\ ~no_arith =>
    \A buf \in Promised \ {in_buf} : buf \in tried \/ NoEffect(buf) \/ AcrossBytes(buf)
=============================================================================
