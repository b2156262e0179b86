---------------------------- MODULE Calibration -----------------------------
(***************************************************************************)
(* What afl-fuzz makes of the outcome of a run: calibrate_case, which runs *)
(* an entry several times, perform_dry_run, which does it for the seeds,   *)
(* and save_if_interesting, which files an input as an entry, a crash or a *)
(* hang.  trace_bits, messages_sent and kill_signal belong to the last run *)
(* only, and each of these functions may run the target in the middle of   *)
(* what it does.                                                           *)
(*                                                                         *)
(* An outcome is what a run of the target leaves: the hits in the map,     *)
(* the verdict of run_target, how many messages were sent and the signal.  *)
(* Checksums of traces are taken to be without collisions.                 *)
(***************************************************************************)
EXTENDS Coverage

CONSTANTS
  Outcomes,           \* [hits, fault, sent, sig]
  Seeds,              \* number of seeds
  MaxEntries,         \* bound on the queue
  MaxRuns,            \* bound on the runs of mutated inputs
  CAL_CYCLES, CAL_CYCLES_LONG, CAL_CHANCES,
  KEEP_UNIQUE_HANG, KEEP_UNIQUE_CRASH,
  Modes               \* values of crash_mode: "none", or "crash" for -C

VARIABLES
  crash_mode,
  tolerant,      \* seeds that crash or time out are passed over (AFL_SKIP_CRASHES, -t nn+)
  exec_tmout_low,  \* exec_tmout < hang_tmout
  queue,         \* entries
  runs,          \* runs of mutated inputs
  trace_bits, messages_sent, kill_signal,   \* of the last run
  virgin_bits, virgin_tmout, virgin_crash,
  var_bytes,     \* bytes seen to vary
  first_trace,
  cal,           \* the locals of calibrate_case, and who called it
  at,            \* the entry that is calibrated
  fault,         \* the verdict given to save_if_interesting
  counters,
  crashes, hangs,  \* the files in replayable-crashes and replayable-hangs
  stop_soon,
  pc,
  seen,          \* history: for every entry the traces of its runs
  last           \* history: the verdict of the last run

calibration ==
  <<crash_mode, tolerant, exec_tmout_low, queue, runs, trace_bits, messages_sent, kill_signal,
    virgin_bits, virgin_tmout, virgin_crash, var_bytes, first_trace, cal, at, fault, counters,
    crashes, hangs, stop_soon, pc, seen, last>>

options == <<crash_mode, tolerant, exec_tmout_low>>
files == <<crashes, hangs, virgin_tmout, virgin_crash>>

Faults == {"none", "tmout", "crash", "error"}

ASSUME CalibrationAssumption ==
  /\ \A o \in Outcomes : /\ o.hits \in [MapBytes -> 0 .. 255] /\ o.fault \in Faults
                         /\ o.sent \in Nat /\ o.sig \in Nat
  /\ {Seeds, MaxEntries, CAL_CYCLES, CAL_CYCLES_LONG} \subseteq Nat \ {0}
  /\ {MaxRuns, KEEP_UNIQUE_HANG, KEEP_UNIQUE_CRASH} \subseteq Nat
  \* 3, 8 and 40 (config.h:77-78, 320); the seeds are entries
  /\ CAL_CHANCES \in Nat \ {0} /\ CAL_CYCLES <= CAL_CYCLES_LONG /\ Seeds <= MaxEntries
  /\ Modes \subseteq {"none", "crash"}

NoCksum == <<>>

Entry(sent, cksum) ==
  [exec_cksum |-> cksum, cal_failed |-> 0, has_new_cov |-> FALSE, var_behavior |-> FALSE,
   bitmap_size |-> 0, sent |-> sent]

Init ==
  /\ crash_mode \in Modes /\ tolerant \in BOOLEAN /\ exec_tmout_low \in BOOLEAN
  /\ queue = [q \in 1 .. Seeds |-> Entry(0, NoCksum)]
  /\ runs = 0
  /\ trace_bits = Blank /\ messages_sent = 0 /\ kill_signal = 0
  /\ virgin_bits = Pristine /\ virgin_tmout = Pristine /\ virgin_crash = Pristine
  /\ var_bytes = {} /\ first_trace = Blank
  /\ cal = [stage_cur |-> 0, stage_max |-> 0, first_run |-> FALSE, new_bits |-> 0,
            var_detected |-> FALSE, fault |-> "none", caller |-> "perform_dry_run"]
  /\ at = 1 /\ fault = "none"
  /\ counters = [queued_with_cov |-> 0, queued_variable |-> 0, total_bitmap_size |-> 0,
                 total_bitmap_entries |-> 0, cal_failures |-> 0, useless_at_start |-> 0,
                 unique_crashes |-> 0, unique_hangs |-> 0]
  /\ crashes = <<>> /\ hangs = <<>>
  /\ stop_soon = FALSE
  /\ pc = "dry_run"
  /\ seen = [q \in 1 .. Seeds |-> {}]
  /\ last = "none"

\* a run of the target; what was set before it is gone
run_target(o) ==
  /\ trace_bits' = classify_counts(o.hits)
  /\ messages_sent' = o.sent
  /\ kill_signal' = IF o.fault \in {"crash", "tmout"} THEN o.sig ELSE kill_signal
  /\ last' = o.fault

Stop ==
  /\ ~ stop_soon /\ pc # "ended"
  /\ stop_soon' = TRUE
  /\ UNCHANGED <<options, queue, runs, trace_bits, messages_sent, kill_signal, virgin_bits, files,
                 var_bytes, first_trace, cal, at, fault, counters, pc, seen, last>>

-----------------------------------------------------------------------------
\* calibrate_case of entry q, called from dry_run or from save

\* first_trace is left from the calibration before
Begin(q, entries, trace, caller) ==
  LET fresh == entries[q].exec_cksum = NoCksum
  IN /\ queue' = [entries EXCEPT ![q].cal_failed = @ + 1]
     /\ cal' = [stage_cur |-> 0, stage_max |-> CAL_CYCLES, first_run |-> fresh, new_bits |-> 0,
                var_detected |-> FALSE, fault |-> "none", caller |-> caller]
     /\ first_trace' = IF fresh THEN first_trace ELSE trace
     /\ at' = q
     /\ pc' = "calibrate"

\* one execution of the entry; abort_calibration is where it leads when the run
\* does not end as it should
Cycle(o) ==
  LET q == queue[at]
      trace == classify_counts(o.hits)
      failed == \/ stop_soon \/ o.fault # crash_mode
                \/ cal.stage_cur = 0 /\ count_bytes(trace) = 0
      varying == {i \in MapBytes : i \notin var_bytes /\ first_trace[i] # trace[i]}
  IN /\ pc = "calibrate" /\ cal.stage_cur < cal.stage_max
     /\ run_target(o)
     /\ seen' = IF failed THEN seen ELSE [seen EXCEPT ![at] = @ \cup {trace}]
     /\ \/ /\ failed
           /\ cal' = [cal EXCEPT !.fault = IF stop_soon \/ o.fault # crash_mode THEN o.fault
                                                                              ELSE "noinst"]
           /\ pc' = "calibrated"
           /\ UNCHANGED <<queue, virgin_bits, var_bytes, first_trace>>
        \/ /\ ~ failed /\ q.exec_cksum = trace
           /\ cal' = [cal EXCEPT !.fault = o.fault, !.stage_cur = @ + 1]
           /\ UNCHANGED <<queue, virgin_bits, var_bytes, first_trace, pc>>
        \/ /\ ~ failed /\ q.exec_cksum # trace
           /\ virgin_bits' = Without(virgin_bits, trace)
           /\ IF q.exec_cksum = NoCksum
                THEN /\ queue' = [queue EXCEPT ![at].exec_cksum = trace]
                     /\ first_trace' = trace
                     /\ var_bytes' = var_bytes
                ELSE /\ var_bytes' = var_bytes \cup varying
                     /\ UNCHANGED <<queue, first_trace>>
           /\ cal' = [cal EXCEPT !.fault = o.fault,
                                 !.stage_cur = @ + 1,
                                 !.new_bits = Max({@, has_new_bits(trace, virgin_bits)}),
                                 !.stage_max = IF q.exec_cksum # NoCksum /\ varying # {}
                                                 THEN CAL_CYCLES_LONG ELSE @,
                                 !.var_detected = @ \/ q.exec_cksum # NoCksum]
           /\ pc' = pc
     /\ UNCHANGED <<options, runs, files, at, fault, counters, stop_soon>>

\* one cycle too many is waited for
SlipMeasured ==
  /\ pc = "calibrate" /\ cal.stage_cur > cal.stage_max
  /\ pc' = "calibrated"
  /\ UNCHANGED <<options, queue, runs, trace_bits, messages_sent, kill_signal, virgin_bits, files,
                 var_bytes, first_trace, cal, at, fault, counters, stop_soon, seen, last>>

\* all cycles are done: update_bitmap_score follows, which is in Favourites
Measured ==
  /\ pc = "calibrate" /\ cal.stage_cur >= cal.stage_max
  /\ queue' = [queue EXCEPT ![at].bitmap_size = count_bytes(trace_bits), ![at].cal_failed = 0]
  /\ counters' = [counters EXCEPT !.total_bitmap_size = @ + count_bytes(trace_bits),
                                  !.total_bitmap_entries = @ + 1]
  /\ cal' = IF cal.first_run /\ cal.fault = "none" /\ cal.new_bits = 0
              THEN [cal EXCEPT !.fault = "nobits"] ELSE cal
  /\ pc' = "calibrated"
  /\ UNCHANGED <<options, runs, trace_bits, messages_sent, kill_signal, virgin_bits, files,
                 var_bytes, first_trace, at, fault, stop_soon, seen, last>>

\* an entry that has new coverage already is counted again
SlipMarks(changed) ==
  /\ queue' = [queue EXCEPT ![at] = [changed EXCEPT !.has_new_cov = @ \/ cal.new_bits = 2,
                                                    !.var_behavior = @ \/ cal.var_detected]]
  /\ counters' =
       [counters EXCEPT
          !.queued_with_cov = @ + (IF cal.new_bits = 2 THEN 1 ELSE 0),
          !.queued_variable = @ + (IF cal.var_detected THEN 1 ELSE 0)]

\* abort_calibration, which ends every calibration
Marks(changed) ==
  LET newcov == cal.new_bits = 2 /\ ~ queue[at].has_new_cov
      newvar == cal.var_detected /\ ~ queue[at].var_behavior
  IN /\ queue' = [queue EXCEPT ![at] = [changed EXCEPT !.has_new_cov = @ \/ newcov,
                                                       !.var_behavior = @ \/ newvar]]
     /\ counters' =
          [counters EXCEPT
             !.queued_with_cov = @ + (IF newcov THEN 1 ELSE 0),
             !.queued_variable = @ + (IF newvar THEN 1 ELSE 0),
             !.cal_failures = @ + (IF changed.cal_failed = CAL_CHANCES THEN 1 ELSE 0),
             !.useless_at_start =
               @ + (IF cal.caller = "perform_dry_run" /\ cal.fault = "nobits" THEN 1 ELSE 0)]

-----------------------------------------------------------------------------
\* perform_dry_run

DryRun ==
  /\ pc = "dry_run"
  /\ \/ /\ at <= Seeds
        /\ Begin(at, queue, trace_bits, "perform_dry_run")
     \/ /\ at > Seeds
        /\ pc' = IF counters.cal_failures = Len(queue) THEN "ended" ELSE "fuzz"
        /\ UNCHANGED <<queue, first_trace, cal, at>>
  /\ UNCHANGED <<options, runs, trace_bits, messages_sent, kill_signal, virgin_bits, files,
                 var_bytes, fault, counters, stop_soon, seen, last>>

\* the replayable copy is cut at what the last cycle sent
DryVerdict ==
  LET passed_over == tolerant /\ \/ cal.fault = "tmout"
                                 \/ cal.fault = "crash" /\ crash_mode = "none"
      fatal == \/ cal.fault = "none" /\ crash_mode = "crash"
               \/ cal.fault = "tmout" /\ ~ tolerant
               \/ cal.fault = "crash" /\ crash_mode = "none" /\ ~ tolerant
               \/ cal.fault \in {"error", "noinst"}
  IN /\ pc = "calibrated" /\ cal.caller = "perform_dry_run"
     /\ Marks([queue[at] EXCEPT !.sent = messages_sent,
                                !.cal_failed = IF ~ stop_soon /\ passed_over THEN CAL_CHANCES ELSE @])
     /\ IF stop_soon \/ fatal
          THEN pc' = "ended" /\ UNCHANGED at
          ELSE pc' = "dry_run" /\ at' = at + 1
     /\ UNCHANGED <<options, runs, trace_bits, messages_sent, kill_signal, virgin_bits, files,
                    var_bytes, first_trace, cal, fault, stop_soon, seen, last>>

-----------------------------------------------------------------------------
\* common_fuzz_stuff, as far as it goes after the input is made, and
\* save_if_interesting

\* the outcome is not looked at after Ctrl-C, after too many timeouts in a row
\* (subseq_tmouts), or when the user asked for another entry, which may be any time
NotLooked ==
  /\ pc' = IF stop_soon THEN "ended" ELSE "fuzz"
  /\ UNCHANGED <<queue, virgin_bits, first_trace, cal, at, fault, counters, seen>>

NothingNew(o) ==
  /\ ~ stop_soon /\ o.fault = crash_mode
  /\ has_new_bits(classify_counts(o.hits), virgin_bits) = 0
  /\ pc' = "fuzz"
  /\ UNCHANGED <<queue, virgin_bits, first_trace, cal, at, fault, counters, seen>>

\* a new entry, which is calibrated at once
Discovered(o) ==
  LET trace == classify_counts(o.hits)
      hnb == has_new_bits(trace, virgin_bits)
      entry == [Entry(o.sent, trace) EXCEPT !.has_new_cov = hnb = 2]
  IN /\ ~ stop_soon /\ o.fault = crash_mode /\ hnb > 0
     /\ Len(queue) < MaxEntries
     /\ virgin_bits' = Without(virgin_bits, trace)
     /\ Begin(Len(queue) + 1, Append(queue, entry), trace, "save_if_interesting")
     /\ counters' = [counters EXCEPT !.queued_with_cov = @ + (IF hnb = 2 THEN 1 ELSE 0)]
     /\ fault' = o.fault
     /\ seen' = Append(seen, {trace})

\* the maps are compared before the verdict is
SlipUnexpected(o) ==
  /\ ~ stop_soon /\ o.fault # crash_mode
  /\ fault' = o.fault
  /\ pc' = "file"
  /\ virgin_bits' = Without(virgin_bits, classify_counts(o.hits))
  /\ UNCHANGED <<queue, first_trace, cal, at, counters, seen>>

Unexpected(o) ==
  /\ ~ stop_soon /\ o.fault # crash_mode
  /\ fault' = o.fault
  /\ pc' = "file"
  /\ UNCHANGED <<queue, virgin_bits, first_trace, cal, at, counters, seen>>

Execute(o) ==
  /\ pc = "fuzz" /\ runs < MaxRuns
  /\ runs' = runs + 1
  /\ run_target(o)
  /\ NotLooked \/ NothingNew(o) \/ Discovered(o) \/ Unexpected(o)
  /\ UNCHANGED <<options, files, var_bytes, stop_soon>>

DiscoveryCalibrated ==
  /\ pc = "calibrated" /\ cal.caller = "save_if_interesting"
  /\ Marks(queue[at])
  /\ pc' = IF cal.fault = "error" THEN "ended" ELSE "file"
  /\ UNCHANGED <<options, runs, trace_bits, messages_sent, kill_signal, virgin_bits, files,
                 var_bytes, first_trace, cal, at, fault, stop_soon, seen, last>>

NotKept ==
  /\ pc' = "fuzz"
  /\ UNCHANGED <<messages_sent, kill_signal, counters, crashes, hangs, last>>

KeepHang(sent, verdict, trace) ==
  /\ hangs' = Append(hangs, [sent |-> sent, of |-> verdict, trace |-> trace])
  /\ counters' = [counters EXCEPT !.unique_hangs = @ + 1]
  /\ pc' = "fuzz"
  /\ UNCHANGED crashes

\* the hang-specific map is updated before it is known that the hang is genuine
Hang ==
  LET trace == simplify_trace(trace_bits)
  IN /\ pc = "file" /\ fault = "tmout"
     /\ \/ /\ counters.unique_hangs >= KEEP_UNIQUE_HANG
           /\ NotKept /\ UNCHANGED <<trace_bits, virgin_tmout>>
        \/ /\ counters.unique_hangs < KEEP_UNIQUE_HANG
           /\ trace_bits' = trace
           /\ virgin_tmout' = Without(virgin_tmout, trace)
           /\ IF has_new_bits(trace, virgin_tmout) = 0
                THEN NotKept
                ELSE IF exec_tmout_low
                  THEN pc' = "verify" /\ UNCHANGED <<counters, crashes, hangs>>
                  ELSE KeepHang(messages_sent, last, trace)
           /\ UNCHANGED <<messages_sent, kill_signal, last>>
     /\ UNCHANGED <<options, queue, runs, virgin_bits, virgin_crash, var_bytes, first_trace, cal, at,
                    fault, stop_soon, seen>>

\* a hang that does not show again is kept
\* the run with hang_tmout; what it finds may be a crash
Verify(o) ==
  /\ pc = "verify"
  /\ run_target(o)
  /\ IF ~ stop_soon /\ o.fault = "crash"
       THEN /\ pc' = "file" /\ fault' = "crash" /\ UNCHANGED <<counters, crashes, hangs>>
       ELSE /\ UNCHANGED fault
            /\ IF stop_soon \/ o.fault # "tmout"
                 THEN pc' = "fuzz" /\ UNCHANGED <<counters, crashes, hangs>>
                 ELSE KeepHang(o.sent, o.fault, trace_bits)
  /\ UNCHANGED <<options, queue, runs, virgin_bits, virgin_tmout, virgin_crash, var_bytes,
                 first_trace, cal, at, stop_soon, seen>>

Crash ==
  LET trace == simplify_trace(trace_bits)
  IN /\ pc = "file" /\ fault = "crash"
     /\ \/ /\ counters.unique_crashes >= KEEP_UNIQUE_CRASH
           /\ NotKept /\ UNCHANGED <<trace_bits, virgin_crash>>
        \/ /\ counters.unique_crashes < KEEP_UNIQUE_CRASH
           /\ trace_bits' = trace
           /\ virgin_crash' = Without(virgin_crash, trace)
           /\ IF has_new_bits(trace, virgin_crash) = 0
                THEN NotKept
                ELSE /\ crashes' = Append(crashes, [sent |-> messages_sent, sig |-> kill_signal,
                                                    of |-> last, trace |-> trace])
                     /\ counters' = [counters EXCEPT !.unique_crashes = @ + 1]
                     /\ pc' = "fuzz"
                     /\ UNCHANGED <<messages_sent, kill_signal, hangs, last>>
     /\ UNCHANGED <<options, queue, runs, virgin_bits, virgin_tmout, var_bytes, first_trace, cal, at,
                    fault, stop_soon, seen>>

OtherFault ==
  /\ pc = "file" /\ fault \in {"none", "error"}
  /\ pc' = IF fault = "error" THEN "ended" ELSE "fuzz"
  /\ UNCHANGED <<options, queue, runs, trace_bits, messages_sent, kill_signal, virgin_bits, files,
                 var_bytes, first_trace, cal, at, fault, counters, stop_soon, seen, last>>

Calibrate == (\E o \in Outcomes : Cycle(o)) \/ Measured

Next ==
  \/ Calibrate
  \/ DryRun \/ DryVerdict
  \/ DiscoveryCalibrated \/ Hang \/ Crash \/ OtherFault
  \/ \E o \in Outcomes : Execute(o) \/ Verify(o)
  \/ Stop

\* every run ends (see Execution), so a calibration goes on
Spec == Init /\ [][Next]_calibration /\ WF_calibration(Calibrate)

-----------------------------------------------------------------------------
TypeOK ==
  /\ {trace_bits, virgin_bits, virgin_tmout, virgin_crash, first_trace} \subseteq BitMap
  /\ var_bytes \subseteq MapBytes
  /\ at \in 1 .. Len(queue) + 1 /\ Len(queue) <= MaxEntries
  /\ cal.stage_max \in {0, CAL_CYCLES, CAL_CYCLES_LONG} /\ cal.stage_cur \in 0 .. CAL_CYCLES_LONG
  /\ pc \in {"dry_run", "calibrate", "calibrated", "fuzz", "file", "verify", "ended"}

Cleared(virgin) == [i \in MapBytes |-> Bits \ virgin[i]]
Joined(traces) == [i \in MapBytes |-> UNION {t[i] : t \in traces}]

\* Coverage is never lost: what the virgin map has no longer is what the kept
\* entries showed, no more and no less, and likewise for crashes; a hang that
\* is kept is never taken for a new one.
NothingIsForgotten ==
  /\ Cleared(virgin_bits) = Joined(UNION {seen[q] : q \in DOMAIN queue})
  /\ Cleared(virgin_crash) = Joined({c.trace : c \in {crashes[k] : k \in DOMAIN crashes}})
  /\ \A k \in DOMAIN hangs : \A i \in MapBytes : hangs[k].trace[i] \cap virgin_tmout[i] = {}

\* A byte is called variable only when two runs of one entry differ in it, and
\* an entry only when two of its runs differ: first_trace is of that entry.
VariableBytesVary ==
  /\ \A i \in var_bytes :
       \E q \in DOMAIN queue : \E t, u \in seen[q] : t[i] # u[i]
  /\ \A q \in DOMAIN queue : queue[q].var_behavior => Cardinality(seen[q]) > 1

\* The totals on which calculate_score and the status rest agree with the
\* entries, though an entry is marked from three places; and all types hold.
TotalsAgree ==
  /\ TypeOK
  /\ counters.queued_with_cov = Cardinality({q \in DOMAIN queue : queue[q].has_new_cov})
  /\ counters.queued_variable = Cardinality({q \in DOMAIN queue : queue[q].var_behavior})
  /\ counters.total_bitmap_size
       = MapThenSumSet(LAMBDA q : queue[q].bitmap_size, DOMAIN queue)
  /\ counters.total_bitmap_entries
       = Cardinality({q \in DOMAIN queue : queue[q].cal_failed = 0
                                           /\ queue[q].exec_cksum # NoCksum})
  /\ counters.unique_crashes = Len(crashes) /\ counters.unique_hangs = Len(hangs)

\* What is filed as a crash crashed in the run whose messages and signal are
\* filed with it, and likewise a hang.  With -C a crash is calibrated before it
\* is filed, and then this need not be so.
FilesReproduce ==
  crash_mode = "none" =>
    /\ \A k \in DOMAIN crashes : crashes[k].of = "crash"
    /\ \A k \in DOMAIN hangs : hangs[k].of = "tmout"

\* A calibration ends, however often it is made longer.
CalibrationEnds == pc = "calibrate" ~> pc # "calibrate"

\* What was seen stays seen, and what is filed was seen: of all the runs that
\* share one trace, one count of messages and one signal, each record is of the
\* run it says it is of (afl-fuzz.c:1290-1430, 3531-3641, 4048-4266).
RecordsAreTrue == NothingIsForgotten /\ FilesReproduce

\* The marks and totals that calibration keeps up to date, called from the dry
\* run or from save_if_interesting (afl-fuzz.c:3598-3640).
MarksAreTrue == TotalsAgree /\ VariableBytesVary
=============================================================================
