------------------------------ MODULE FuzzOne -------------------------------
(***************************************************************************)
(* fuzz_one after the message list is built: the deterministic stages on   *)
(* the bytes of M2, unless they are skipped, then havoc and splicing.      *)
(***************************************************************************)
EXTENDS Stages, Havoc

vars == <<svars, hvars>>

FuzzOneInit == Init /\ HavocInit

\* -d, was_fuzzed, passed_det, or an entry that is another master's
SkipDeterministic ==
  /\ stage = "flip1" /\ turn = 0
  /\ stage' = "havoc"
  /\ UNCHANGED <<turn, in_buf, out_buf, ex_tmp, eff_map, a_collect, prev_cksum, a_extras,
                 no_arith, dumb_mode, passed_det, tried, lsb, hvars>>

Deterministic == Next /\ UNCHANGED hvars

(* calculate_score is called before the deterministic stages, which do not *)
(* use it.  Of their variables havoc reads only the length of the buffer    *)
(* and the lengths of the tokens; the others are forgotten here.            *)
EnterHavoc ==
  /\ stage = "havoc"
  /\ HavocStart(len, passed_det)
  /\ stage' = "over" /\ turn' = 0
  /\ in_buf' = <<>> /\ out_buf' = <<>> /\ ex_tmp' = <<>> /\ eff_map' = {} /\ tried' = {}
  /\ a_extras' = <<>> /\ a_collect' = <<>> /\ lsb' = <<>> /\ prev_cksum' = OwnCksum
  /\ no_arith' = FALSE /\ dumb_mode' = FALSE /\ passed_det' = FALSE

Random == HavocNext /\ UNCHANGED svars

FuzzOneNext == SkipDeterministic \/ Deterministic \/ EnterHavoc \/ Random

\* fuzz_one is sequential code: the random stages go on as long as they can
FuzzOneSpec == FuzzOneInit /\ [][FuzzOneNext]_vars /\ WF_hvars(HavocNext)

-----------------------------------------------------------------------------
FuzzOneTypeOK ==
  /\ HavocTypeOK
  /\ stage \in ToSet(AllStages) \cup {"abandoned", "over"}
  /\ in_buf \in Seq(Byte) /\ out_buf \in Seq(Byte) /\ turn \in Nat
  /\ \A e \in DOMAIN a_extras : a_extras[e] \in AutoExtra

(* Havoc and splicing return, although every execution may find something   *)
(* and double the cycles, and every attempt to splice may be retried.       *)
HavocReturns == hpc = "stage" ~> hpc = "done"

(* Both kinds of stages hand every byte they touch on as the next step      *)
(* expects it: the deterministic ones restore the buffer, havoc and         *)
(* splicing stay inside it (afl-fuzz.c:6209-7478, 7060, 7734).              *)
BuffersInOrder == FuzzOneTypeOK /\ BufferRestored /\ MemoryFits
=============================================================================
