----------------------------- MODULE Execution ------------------------------
(***************************************************************************)
(* One execution of the target after the other: run_target of afl-fuzz     *)
(* with init_forkserver and the end of send_over_network, the alarm that   *)
(* limits a run, the stop signal of the user, and the fork server.         *)
(*                                                                         *)
(* Without a fork server (AFL_NO_FORKSRV, or -n) afl-fuzz forks the target *)
(* itself.  What is sent to a server under test and what it answers is in  *)
(* Session.  Signals act at once on the process they are sent to.          *)
(***************************************************************************)
EXTENDS ForkServer, FiniteSets

CONSTANT MaxRuns    \* bound on the runs

ASSUME MaxRunsAssumption == MaxRuns \in Nat \ {0}

VARIABLES
  pc,
  run,               \* the number of the run
  child_pid,         \* of the process that runs, or NoPid before the first run
  child_timed_out, prev_timed_out, stop_soon,
  timer,             \* ITIMER_REAL is armed
  exec_failed,       \* EXEC_FAIL_SIG stands in the map
  status,
  verdict            \* of the last run

fuzzerVars ==
  <<pc, run, child_pid, child_timed_out, prev_timed_out, stop_soon, timer, exec_failed,
    status, verdict>>
execution == <<serverVars, fuzzerVars>>

NoPid == -1
Faults == {"NONE", "TMOUT", "CRASH", "ERROR"}

UsesServer == options.server # "none"

ExecutionInit ==
  /\ InitServer
  /\ pc = IF UsesServer THEN "start" ELSE "idle"
  /\ run = 0
  /\ child_pid = NoPid
  /\ child_timed_out = FALSE /\ prev_timed_out = FALSE /\ stop_soon = FALSE
  /\ timer = FALSE /\ exec_failed = FALSE
  /\ status = "exit" /\ verdict = "NONE"

Goto(l) == pc' = l

\* if (stop_soon) return 0; otherwise the fuzzer gives up (RPFATAL)
GiveUp == Goto(IF stop_soon THEN "stopped" ELSE "failed")

\* end of file on the status pipe
ServerGone == st = << >> /\ server.at = "dead"

----------------------------------------------------------------------------
(* init_forkserver                                                         *)

InitForkserver ==
  /\ pc = "start"
  /\ server' = [server EXCEPT !.at = "hello"]
  /\ timer' = TRUE
  /\ Goto("hello")
  /\ UNCHANGED <<options, ctl, st, procs, run, child_pid, child_timed_out, prev_timed_out,
                 stop_soon, exec_failed, status, verdict>>

ReadHello ==
  /\ pc = "hello"
  /\ \/ st # << >> /\ st' = Tail(st) /\ Goto("up")
     \/ ServerGone /\ UNCHANGED st /\ Goto("down")
  /\ UNCHANGED <<options, server, ctl, procs, run, child_pid, child_timed_out, prev_timed_out,
                 stop_soon, timer, exec_failed, status, verdict>>

ServerIsUp ==
  /\ pc \in {"up", "down"}
  /\ timer' = FALSE
  /\ Goto(IF pc = "up" THEN "idle" ELSE "failed")
  /\ UNCHANGED <<serverVars, run, child_pid, child_timed_out, prev_timed_out, stop_soon,
                 exec_failed, status, verdict>>

----------------------------------------------------------------------------
(* run_target                                                              *)

BeginRun ==
  /\ pc = "idle" /\ run < MaxRuns
  /\ run' = run + 1
  /\ child_timed_out' = FALSE
  /\ exec_failed' = FALSE
  /\ Goto(IF UsesServer THEN "request" ELSE "fork")
  /\ UNCHANGED <<serverVars, child_pid, prev_timed_out, stop_soon, timer, status, verdict>>

\* the caller of run_target looks at stop_soon; afl-fuzz may also stop of its
\* own (AFL_EXIT_WHEN_DONE and the like) and then ends the target itself
Stop ==
  /\ pc = "idle"
  /\ \/ stop_soon /\ UNCHANGED <<stop_soon, procs, server>>
     \/ /\ ~stop_soon /\ run > 0
        /\ stop_soon' = TRUE
        /\ procs' = IF child_pid > 0 THEN Killed(child_pid, "stop") ELSE procs
        /\ server' = IF UsesServer THEN [server EXCEPT !.at = "dead"] ELSE server
  /\ Goto("stopped")
  /\ UNCHANGED <<options, ctl, st, run, child_pid, child_timed_out, prev_timed_out, timer,
                 exec_failed, status, verdict>>

ForkTarget ==
  /\ pc = "fork"
  /\ procs' = Append(procs, NewProcess)
  /\ Goto("pid")
  /\ UNCHANGED <<options, server, ctl, st, run, child_pid, child_timed_out, prev_timed_out,
                 stop_soon, timer, exec_failed, status, verdict>>

\* execv of the child fails
ExecFails ==
  /\ ~UsesServer /\ procs # << >> /\ Last(procs) = NewProcess
  /\ exec_failed' = TRUE
  /\ procs' = Ended(procs, Len(procs), "exit", "itself")
  /\ UNCHANGED <<options, server, ctl, st, pc, run, child_pid, child_timed_out, prev_timed_out,
                 stop_soon, timer, status, verdict>>

Request ==
  /\ pc = "request"
  /\ IF server.at = "dead" THEN GiveUp /\ UNCHANGED ctl
     ELSE ctl' = Append(ctl, prev_timed_out) /\ Goto("pid")
  /\ UNCHANGED <<options, server, st, procs, run, child_pid, child_timed_out, prev_timed_out,
                 stop_soon, timer, exec_failed, status, verdict>>

ReadPid ==
  /\ pc = "pid"
  /\ \/ ~UsesServer /\ child_pid' = Len(procs) /\ Goto("arm") /\ UNCHANGED st
     \/ UsesServer /\ st # << >> /\ child_pid' = Head(st).val /\ st' = Tail(st) /\ Goto("arm")
     \/ UsesServer /\ ServerGone /\ GiveUp /\ UNCHANGED <<child_pid, st>>
  /\ UNCHANGED <<options, server, ctl, procs, run, child_timed_out, prev_timed_out, stop_soon,
                 timer, exec_failed, status, verdict>>

\* the alarm is set for runs in which the server is told to end only
SlipArm ==
  /\ pc = "arm"
  /\ timer' = options.terminate_child
  /\ Goto("send")
  /\ UNCHANGED <<serverVars, run, child_pid, child_timed_out, prev_timed_out, stop_soon,
                 exec_failed, status, verdict>>


Arm ==
  /\ pc = "arm"
  /\ timer' = TRUE
  /\ Goto("send")
  /\ UNCHANGED <<serverVars, run, child_pid, child_timed_out, prev_timed_out, stop_soon,
                 exec_failed, status, verdict>>

\* a run that could not connect is given up without reading the wait status
SlipSendOverNetwork ==
  /\ pc = "send"
  /\ \E l \in {"clear", "status", "terminate"} : Goto(l)
  /\ UNCHANGED <<serverVars, run, child_pid, child_timed_out, prev_timed_out, stop_soon, timer,
                 exec_failed, status, verdict>>

\* send_over_network: no connection, or the messages are sent and answered;
\* likely_buggy says that the last one got no answer
SendOverNetwork ==
  /\ pc = "send"
  /\ \/ Goto("status")
     \/ \E likely_buggy \in BOOLEAN :
          Goto(IF likely_buggy /\ options.false_negative_reduction THEN "status" ELSE "terminate")
  /\ UNCHANGED <<serverVars, run, child_pid, child_timed_out, prev_timed_out, stop_soon, timer,
                 exec_failed, status, verdict>>

\* SIGTERM: the target dies of it, handles it and exits, or ignores it
TerminateChild ==
  /\ pc = "terminate"
  /\ \/ /\ options.terminate_child /\ child_pid \in DOMAIN procs
        /\ procs[child_pid].state = "running"
        /\ \E how \in {"TERM", "exit"} : procs' = Ended(procs, child_pid, how, "term")
     \/ UNCHANGED procs
  /\ Goto("gone")
  /\ UNCHANGED <<options, server, ctl, st, run, child_pid, child_timed_out, prev_timed_out,
                 stop_soon, timer, exec_failed, status, verdict>>

\* while (kill(child_pid, 0) does not say ESRCH);
WaitUntilGone ==
  /\ pc = "gone" /\ ~Exists(child_pid)
  /\ Goto("status")
  /\ UNCHANGED <<serverVars, run, child_pid, child_timed_out, prev_timed_out, stop_soon, timer,
                 exec_failed, status, verdict>>

ReadStatus ==
  /\ pc = "status"
  /\ \/ /\ UsesServer /\ st # << >>
        /\ status' = Head(st).val /\ st' = Tail(st) /\ Goto("clear")
        /\ UNCHANGED procs
     \/ /\ UsesServer /\ ServerGone /\ GiveUp
        /\ UNCHANGED <<status, st, procs>>
     \/ /\ ~UsesServer /\ procs[child_pid].state = "zombie"     \* waitpid
        /\ status' = procs[child_pid].status /\ procs' = Reaped(child_pid) /\ Goto("clear")
        /\ UNCHANGED st
  /\ UNCHANGED <<options, server, ctl, run, child_pid, child_timed_out, prev_timed_out,
                 stop_soon, timer, exec_failed, verdict>>

ClearPid ==
  /\ pc = "clear"
  /\ child_pid' = IF status = "STOP" THEN child_pid ELSE 0
  /\ Goto("disarm")
  /\ UNCHANGED <<serverVars, run, child_timed_out, prev_timed_out, stop_soon, timer, exec_failed,
                 status, verdict>>

Disarm ==
  /\ pc = "disarm"
  /\ timer' = FALSE
  /\ Goto("verdict")
  /\ UNCHANGED <<serverVars, run, child_pid, child_timed_out, prev_timed_out, stop_soon,
                 exec_failed, status, verdict>>

\* any signal after the alarm is a timeout
SlipFault ==
  CASE status \in {"SEGV", "TERM", "KILL"} /\ ~stop_soon ->
         (CASE child_timed_out -> "TMOUT" [] status = "TERM" -> "NONE" [] OTHER -> "CRASH")
    [] status = "msan" -> "CRASH"
    [] ~UsesServer /\ exec_failed -> "ERROR"
    [] OTHER -> "NONE"


Fault ==
  CASE status \in {"SEGV", "TERM", "KILL"} /\ ~stop_soon ->
         (CASE child_timed_out /\ status = "KILL" -> "TMOUT"
            [] status = "TERM" -> "NONE"
            [] OTHER -> "CRASH")
    [] status = "msan" -> "CRASH"
    [] ~UsesServer /\ exec_failed -> "ERROR"
    [] OTHER -> "NONE"

\* the server is not told of the alarm

GiveVerdict ==
  /\ pc = "verdict"
  /\ prev_timed_out' = child_timed_out
  /\ verdict' = Fault
  /\ Goto("idle")
  /\ UNCHANGED <<serverVars, run, child_pid, child_timed_out, stop_soon, timer, exec_failed,
                 status>>

----------------------------------------------------------------------------
(* The signals                                                             *)

handle_timeout ==
  /\ timer
  /\ timer' = FALSE
  /\ \/ /\ child_pid > 0
        /\ child_timed_out' = TRUE
        /\ procs' = Killed(child_pid, "alarm")
        /\ UNCHANGED server
     \/ /\ child_pid = NoPid /\ server.at # "absent"
        /\ child_timed_out' = TRUE
        /\ server' = [server EXCEPT !.at = "dead"]
        /\ UNCHANGED procs
     \/ child_pid = 0 /\ UNCHANGED <<child_timed_out, procs, server>>
  /\ UNCHANGED <<options, ctl, st, pc, run, child_pid, prev_timed_out, stop_soon, exec_failed,
                 status, verdict>>

handle_stop_sig ==
  /\ ~stop_soon /\ pc \notin {"stopped", "failed"}
  /\ stop_soon' = TRUE
  /\ procs' = IF child_pid > 0 THEN Killed(child_pid, "stop") ELSE procs
  /\ server' = IF server.at = "absent" THEN server ELSE [server EXCEPT !.at = "dead"]
  /\ UNCHANGED <<options, ctl, st, pc, run, child_pid, child_timed_out, prev_timed_out, timer,
                 exec_failed, status, verdict>>

\* the fuzzer is gone: the server reads the end of the control pipe
ServerQuits ==
  /\ pc \in {"stopped", "failed"} /\ server.at = "wait" /\ ctl = << >>
  /\ server' = [server EXCEPT !.at = "dead"]
  /\ UNCHANGED <<options, ctl, st, procs, fuzzerVars>>

----------------------------------------------------------------------------
FuzzerStep ==
  \/ InitForkserver \/ ReadHello \/ ServerIsUp \/ BeginRun \/ Stop \/ ForkTarget \/ Request
  \/ ReadPid \/ Arm \/ SendOverNetwork \/ TerminateChild \/ WaitUntilGone \/ ReadStatus
  \/ ClearPid \/ Disarm \/ GiveVerdict

TargetStep == (ServerStep \/ EndsEarly \/ ChildEnds \/ ChildStops \/ InitReaps) /\ UNCHANGED fuzzerVars

ExecutionNext ==
  FuzzerStep \/ TargetStep \/ ExecFails \/ handle_timeout \/ handle_stop_sig \/ ServerQuits

ExecutionSpec ==
  /\ ExecutionInit /\ [][ExecutionNext]_execution
  /\ WF_execution(FuzzerStep)
  /\ WF_execution(ServerStep /\ UNCHANGED fuzzerVars)
  /\ WF_execution(InitReaps /\ UNCHANGED fuzzerVars)
  /\ WF_execution(handle_timeout)

----------------------------------------------------------------------------
Locations ==
  {"start", "hello", "up", "down", "idle", "fork", "request", "pid", "arm", "send", "terminate",
   "gone", "status", "clear", "disarm", "verdict", "stopped", "failed"}

ExecutionTypeOK ==
  /\ options \in Options
  /\ server \in [at : {"absent", "hello", "wait", "writeoff", "fork", "pid", "waitpid", "status",
                       "dead"},
                 child : Nat, was_killed : BOOLEAN, child_stopped : BOOLEAN, status : Statuses]
  /\ ctl \in Seq(BOOLEAN)
  /\ \A k \in DOMAIN st : st[k].about \in {"hello", "pid", "status"}
  /\ procs \in Seq(ProcessRecord)
  /\ pc \in Locations /\ run \in 0 .. MaxRuns
  /\ child_pid \in Nat \cup {NoPid}
  /\ {child_timed_out, prev_timed_out, stop_soon, timer, exec_failed} \subseteq BOOLEAN
  /\ status \in Statuses /\ verdict \in Faults

\* The two sides never lose step: afl-fuzz reads a number where the server
\* wrote a process number, and a wait status where it wrote one, whatever way
\* send_over_network was left; and a process number is that of the process
\* made or continued for this run (afl-fuzz.c:3349-3362, 3384-3391,
\* afl-llvm-rt.o.c:158-173).
PipesInStep ==
  /\ ExecutionTypeOK
  /\ Len(st) <= 2 /\ Len(ctl) <= 1
  /\ (pc = "hello" /\ st # << >>) => Head(st).about = "hello"
  /\ (pc = "pid" /\ st # << >>) => st[1] = Message("pid", server.child)
  /\ (pc \in {"arm", "send", "terminate", "gone", "status"} /\ st # << >>) =>
       Head(st).about = "status" /\ Len(st) = 1
  /\ (pc \in {"idle", "request", "clear", "disarm", "verdict"}) => st = << >> /\ ctl = << >>

\* The map belongs to one run: two processes of the target are never alive at
\* once, and when afl-fuzz erases or reads the map of a run the user did not
\* stop, none is running (afl-fuzz.c:3252-3258, 3408-3420).  The target is one
\* process: those it may fork of its own are not modelled.
MapHasOneWriter ==
  /\ Cardinality({p \in DOMAIN procs : Living(p)}) <= 1
  /\ pc \in {"idle", "verdict"} /\ ~stop_soon =>
       \A p \in DOMAIN procs : procs[p].state # "running"

\* The verdict is what happened to the process of the run, whatever the alarm
\* and the end of the process overtake: a crash of its own is a crash, a
\* timeout was killed by the alarm of this run, and a process that the alarm
\* killed while it ran is a timeout (afl-fuzz.c:3424-3443, 7930-7943).
VerdictFits ==
  pc = "idle" /\ run > 0 /\ ~stop_soon /\ procs # << >> =>
    LET p == Last(procs) IN
      /\ verdict = "TMOUT" => p.by = "alarm" /\ p.status = "KILL"
      /\ verdict = "CRASH" => p.by = "itself" /\ p.status \in {"SEGV", "msan"}
      /\ p.by = "itself" /\ p.status \in {"SEGV", "msan"} => verdict = "CRASH"
      /\ p.by = "alarm" /\ ~Persistent => verdict = "TMOUT"
      /\ verdict = "ERROR" <=> exec_failed

\* In persistent mode the server continues only a process that is stopped: one
\* that was killed after it stopped is written off first, so that the next run
\* does not wait for a dead process (afl-llvm-rt.o.c:127-133).
ContinuesTheLiving ==
  server.at = "fork" /\ server.child_stopped /\ ~stop_soon =>
    procs[server.child].state = "stopped"

\* send_over_network waits for a process that nobody collects: a child of
\* afl-fuzz itself, whose waitpid comes after the loop, or one in persistent
\* mode, which the server collects only when the next run is asked for.
WaitsInVain ==
  /\ pc = "gone" /\ (~UsesServer \/ Persistent)
  /\ child_pid \in DOMAIN procs /\ procs[child_pid].state \in {"zombie", "stopped"}

\* Every run ends, with a verdict, or with the fuzzer giving up or stopping, but
\* for one that waits in vain.  For a target that ignores SIGTERM and never
\* exits only the alarm sees to it, also when no connection was made or the
\* fork server does not come up (afl-fuzz.c:1233-1237, 3366-3372, 7930-7943).
RunsEnd ==
  pc \notin {"idle", "stopped", "failed"}
    ~> pc \in {"idle", "stopped", "failed"} \/ []WaitsInVain

\* afl-fuzz and the fork server agree where they are and about which process
\* they talk (afl-fuzz.c:3349-3391, afl-llvm-rt.o.c:120-173).
InStep == PipesInStep /\ ContinuesTheLiving

\* The map and the verdict of a run are of the process of this run
\* (afl-fuzz.c:3252-3258, 3408-3443).
ResultsAreOwn == MapHasOneWriter /\ VerdictFits
=============================================================================
