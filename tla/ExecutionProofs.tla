-------------------------- MODULE ExecutionProofs ---------------------------
(***************************************************************************)
(* Proofs about Execution: the inductive invariant that ties the place     *)
(* afl-fuzz has reached to the place of the fork server, to what is in the *)
(* two pipes and to the state of the last process, and what follows of it. *)
(*                                                                         *)
(* The invariant is written in the quantities below, and a step of the     *)
(* proof says first what an action does to them: the prover then needs     *)
(* neither the sequences nor the records they are read from.               *)
(*                                                                         *)
(* The second half is about FuzzOne, which makes the inputs that Execution *)
(* runs: every deterministic stage gives the buffer back as it got it, and *)
(* havoc and splicing stay inside theirs.                                  *)
(***************************************************************************)
EXTENDS Execution, FuzzOne, Sums, FiniteSetTheorems, SequenceTheorems, TLAPS

----------------------------------------------------------------------------
(* What the invariant speaks about *)

ServerAt == server.at
Kid == server.child
Held == server.child_stopped
Told == server.status

Asked == Len(ctl)
Killing == ctl[1]          \* what the request says of the run before

Sent == Len(st)
First == st[1]
Second == st[2]

\* the process that was created last
Made == Len(procs)
Newest == procs[Made]
State == Newest.state
By == Newest.by
How == Newest.status

Starting == {"start", "hello", "up", "down"}
Talking == {"arm", "send", "terminate", "gone", "status"}
Closing == {"clear", "disarm", "verdict"}
Over == {"stopped", "failed"}

----------------------------------------------------------------------------
(* The inductive invariant *)

Messages == [about : {"hello", "pid"}, val : Nat] \cup [about : {"status"}, val : Statuses]

Places ==
  {"absent", "hello", "wait", "writeoff", "fork", "pid", "waitpid", "status", "dead"}

ServerLocals ==
  [at : Places,
   child : Nat, was_killed : BOOLEAN, child_stopped : BOOLEAN, status : Statuses]

ServerTypes ==
  /\ options \in Options /\ server \in ServerLocals
  /\ ctl \in Seq(BOOLEAN) /\ st \in Seq(Messages) /\ procs \in Seq(ProcessRecord)

FuzzerTypes ==
  /\ pc \in Locations /\ run \in 0 .. MaxRuns
  /\ child_pid \in Nat \cup {NoPid}
  /\ child_timed_out \in BOOLEAN /\ prev_timed_out \in BOOLEAN /\ stop_soon \in BOOLEAN
  /\ timer \in BOOLEAN /\ exec_failed \in BOOLEAN
  /\ status \in Statuses /\ verdict \in Faults

Types == ServerTypes /\ FuzzerTypes

\* Without a fork server its part of the state is not touched.
Alone ==
  ~UsesServer =>
    ServerAt = "absent" /\ Asked = 0 /\ Sent = 0 /\ pc \notin Starting \cup {"request"}

\* Where the server is, and what is in the pipes, for each place of afl-fuzz.
Quiet ==
  pc \in {"start", "up", "down", "idle", "request"} \cup Closing \cup Over =>
    /\ Sent = 0
    /\ pc # "start" => ServerAt \in {"wait", "dead"}
    /\ pc = "down" => ServerAt = "dead"
    /\ Asked > 0 => pc \in Over /\ ServerAt = "dead"

GreetingDue ==
  pc = "hello" =>
    /\ ServerAt \in {"hello", "wait", "dead"}
    /\ Asked = 0 /\ Sent <= 1
    /\ ServerAt = "hello" => Sent = 0
    /\ Sent > 0 => First.about = "hello"

PidDue ==
  pc = "pid" =>
    /\ ServerAt \notin {"absent", "hello"}
    /\ Sent <= 2
    /\ ServerAt = "wait" => Asked > 0 \/ Sent = 2
    /\ Asked > 0 => Sent = 0 /\ ServerAt \in {"wait", "dead"}
    /\ ServerAt \in {"writeoff", "fork", "pid"} => Sent = 0
    /\ ServerAt \in {"waitpid", "status"} => Sent = 1
    /\ Sent > 0 => First = Message("pid", Kid) /\ Made > 0
    /\ Sent = 2 => Second = Message("status", Told)

StatusDue ==
  pc \in Talking =>
    /\ ServerAt \in {"waitpid", "status", "wait", "dead"}
    /\ Asked = 0 /\ Sent <= 1
    /\ ServerAt \in {"waitpid", "status"} => Sent = 0
    /\ ServerAt = "wait" => Sent = 1
    /\ Sent > 0 => First = Message("status", Told)

Agreement ==
  UsesServer =>
    /\ pc # "fork" /\ Asked <= 1
    /\ ServerAt = "absent" <=> pc = "start"
    /\ Kid = Made
    /\ Quiet /\ GreetingDue /\ PidDue /\ StatusDue

\* What each side knows of the processes.
Pids ==
  /\ child_pid \in {NoPid} \cup 0 .. Made
  /\ pc \in Talking \cup {"clear"} => Made > 0 /\ child_pid = Made
  /\ pc \in Closing => child_pid # NoPid
  /\ pc \in Starting => Made = 0 /\ run = 0 /\ child_pid = NoPid
  /\ run = 0 => pc \in Starting \cup {"idle"} \cup Over
  /\ pc = "idle" /\ run = 0 => Made = 0
  /\ pc = "idle" /\ run > 0 => Made > 0
  /\ timer =>
       pc \in {"hello", "up", "down"} \cup (Talking \ {"arm"}) \cup {"clear", "disarm"} \cup Over

\* A wait status says what became of the newest process.
Fits(s) ==
  /\ Made > 0 /\ State # "running"
  /\ s = "STOP" => Persistent /\ By # "itself"
  /\ s # "STOP" => State = "gone" /\ How = s

Statements ==
  /\ pc \in Closing \/ (pc = "idle" /\ run > 0) => Fits(status)
  /\ UsesServer /\ (ServerAt = "status" \/ (pc = "pid" /\ Sent = 2) \/ (pc \in Talking /\ Sent > 0)) =>
       Fits(Told)

ServerSees ==
  UsesServer =>
    /\ ServerAt \in {"pid", "waitpid", "status"} => Made > 0
    /\ ServerAt \in {"wait", "writeoff", "status"} /\ Made > 0 => State # "running"
    /\ ServerAt \in {"wait", "fork", "status"} /\ ~Held /\ Made > 0 => State = "gone"
    /\ ServerAt = "writeoff" => Held
    /\ Held /\ ServerAt # "dead" =>
         /\ Persistent /\ Made > 0
         /\ State \in {"stopped", "zombie"}
         /\ By \in {"nobody", "alarm", "stop"}
    /\ ServerAt \in {"pid", "waitpid"} => ~Held

FuzzerSees ==
  ~UsesServer =>
    /\ pc = "pid" => Made > 0
    /\ pc = "fork" /\ Made > 0 => State = "gone"

\* Who ended a process, and how; only the newest one is there.
Causes ==
  Made > 0 =>
    /\ By = "nobody" <=> State \in {"running", "stopped"}
    /\ By = "nobody" => How = "exit"
    /\ By = "itself" => How \in {"exit", "SEGV", "msan"}
    /\ By = "term" => How \in {"TERM", "exit"}
    /\ By \in {"alarm", "stop"} => How = "KILL"
    /\ By = "stop" => stop_soon

OnlyNewestLives == \A p \in 1 .. Made - 1 : procs[p].state = "gone"

\* The alarm is known to the fuzzer, and by the next request to the server.
AlarmKnown ==
  ~stop_soon =>
    /\ (pc \in Talking \cup Closing \/ (pc = "idle" /\ run > 0)) /\ By = "alarm" =>
         child_timed_out
    /\ pc = "pid" /\ ~UsesServer => By # "alarm"
    /\ UsesServer /\ pc = "pid" /\ (ServerAt \in {"pid", "waitpid", "status"} \/ Sent > 0) =>
         By # "alarm"
    /\ pc = "idle" /\ run > 0 => prev_timed_out = child_timed_out
    /\ UsesServer /\ Held /\ ServerAt # "dead" /\ By = "alarm" =>
         /\ pc = "request" => prev_timed_out
         /\ pc = "pid" /\ Asked > 0 => Killing
         /\ ServerAt # "fork"

ExecFailure ==
  exec_failed => ~UsesServer /\ pc # "fork" /\ Made > 0 /\ By = "itself" /\ How = "exit"

Judged == pc = "idle" /\ run > 0 /\ ~stop_soon => verdict = Fault

Control ==
  /\ Alone /\ Agreement /\ Pids /\ Statements /\ ServerSees /\ FuzzerSees /\ Causes
  /\ AlarmKnown /\ ExecFailure

IInv == Types /\ Control /\ OnlyNewestLives /\ Judged

----------------------------------------------------------------------------
(* What a step does to these quantities *)

SameTarget == UsesServer' = UsesServer /\ Persistent' = Persistent
SameFuzzer ==
  /\ pc' = pc /\ run' = run /\ child_pid' = child_pid /\ child_timed_out' = child_timed_out
  /\ prev_timed_out' = prev_timed_out /\ stop_soon' = stop_soon /\ timer' = timer
  /\ exec_failed' = exec_failed /\ status' = status /\ verdict' = verdict
SameServer == ServerAt' = ServerAt /\ Kid' = Kid /\ Held' = Held /\ Told' = Told
SameControl == Asked' = Asked /\ Killing' = Killing
SameStatus == Sent' = Sent /\ First' = First /\ Second' = Second
SameNewest == Made' = Made /\ State' = State /\ By' = By /\ How' = How

\* the newest process goes into a state, and what is known of its end
NewestIs(state, by, how) == Made' = Made /\ State' = state /\ By' = by /\ How' = how

\* what is known without looking at the places
Basics ==
  /\ Made \in Nat /\ Sent \in Nat /\ Asked \in Nat /\ Kid \in Nat /\ run \in Nat
  /\ ServerAt \in Places /\ pc \in Locations /\ stop_soon \in BOOLEAN
  /\ Persistent => UsesServer

LEMMA BasicsKnown ==
  ASSUME IInv
  PROVE  Types /\ Control /\ OnlyNewestLives /\ Judged /\ Basics
<1>1. Types /\ Control /\ OnlyNewestLives /\ Judged
  BY DEF IInv
<1>2. Made \in Nat /\ Sent \in Nat /\ Asked \in Nat
  BY <1>1 DEF Types, ServerTypes, Made, Sent, Asked
<1>3. Kid \in Nat /\ ServerAt \in Places
  BY <1>1 DEF Types, ServerTypes, ServerLocals, Kid, ServerAt
<1>4. run \in Nat /\ pc \in Locations /\ stop_soon \in BOOLEAN
  BY <1>1, MaxRunsAssumption DEF Types, FuzzerTypes
<1>5. Persistent => UsesServer
  BY DEF Persistent, UsesServer
<1> QED
  BY <1>1, <1>2, <1>3, <1>4, <1>5 DEF Basics

LEMMA Kept ==
  /\ options' = options => SameTarget
  /\ (UNCHANGED fuzzerVars) => SameFuzzer
  /\ server' = server => SameServer
  /\ ctl' = ctl => SameControl
  /\ st' = st => SameStatus
  /\ procs' = procs => SameNewest
<1>1. options' = options => SameTarget
  BY DEF SameTarget, UsesServer, Persistent
<1>2. (UNCHANGED fuzzerVars) => SameFuzzer
  BY DEF fuzzerVars, SameFuzzer
<1>3. server' = server => SameServer
  BY DEF SameServer, ServerAt, Kid, Held, Told
<1>4. ctl' = ctl => SameControl
  BY DEF SameControl, Asked, Killing
<1>5. st' = st => SameStatus
  BY DEF SameStatus, Sent, First, Second
<1>6. procs' = procs => SameNewest
  BY DEF SameNewest, Made, State, By, How, Newest
<1> QED
  BY <1>1, <1>2, <1>3, <1>4, <1>5, <1>6

LEMMA JudgedKept ==
  ASSUME Judged, SameTarget, SameFuzzer
  PROVE  Judged'
  BY DEF Judged, SameTarget, SameFuzzer, Fault

LEMMA OthersKept ==
  ASSUME OnlyNewestLives, procs' = procs
  PROVE  OnlyNewestLives'
  BY DEF OnlyNewestLives, Made

LEMMA Sizes ==
  ASSUME Types
  PROVE  /\ st = << >> <=> Sent = 0
         /\ ctl = << >> <=> Asked = 0
         /\ procs = << >> <=> Made = 0
         /\ Made \in Nat /\ DOMAIN procs = 1 .. Made
         /\ Sent \in Nat /\ Asked \in Nat
  BY DEF Types, ServerTypes, Sent, Asked, Made

\* a message is put into the status pipe
LEMMA PutIs ==
  ASSUME Types, NEW m \in Messages, st' = Append(st, m)
  PROVE  /\ st' \in Seq(Messages) /\ Sent' = Sent + 1
         /\ Sent = 0 => First' = m
         /\ Sent > 0 => First' = First
         /\ Sent = 1 => Second' = m
<1>1. st \in Seq(Messages)
  BY DEF Types, ServerTypes
<1>2. /\ st' \in Seq(Messages) /\ Len(st') = Len(st) + 1 /\ st'[Len(st) + 1] = m
      /\ \A i \in 1 .. Len(st) : st'[i] = st[i]
  BY <1>1, AppendProperties
<1>3. Len(st) \in Nat
  BY <1>1
<1> QED
  BY <1>2, <1>3 DEF Sent, First, Second

\* a message is taken out of it
LEMMA Taken ==
  ASSUME Types, st # << >>, st' = Tail(st)
  PROVE  /\ st' \in Seq(Messages) /\ Sent > 0 /\ Sent' = Sent - 1
         /\ Sent > 1 => First' = Second
         /\ Head(st) = First /\ First \in Messages
<1>1. st \in Seq(Messages)
  BY DEF Types, ServerTypes
<1>2. /\ st' \in Seq(Messages) /\ Len(st') = Len(st) - 1
      /\ \A i \in 1 .. Len(st') : st'[i] = st[i + 1]
  BY <1>1, HeadTailProperties
<1>3. Len(st) \in Nat /\ Len(st) > 0
  BY <1>1, EmptySeq
<1>4. Head(st) = st[1] /\ st[1] \in Messages
  BY <1>1, <1>3
<1> QED
  BY <1>2, <1>3, <1>4 DEF Sent, First, Second

LEMMA MessageTypes ==
  /\ Message("hello", 0) \in Messages
  /\ \A p \in Nat : Message("pid", p) \in Messages
  /\ \A s \in Statuses : Message("status", s) \in Messages
  BY DEF Message, Messages

\* a process that is not gone is the newest one
LEMMA TheLivingIsNewest ==
  ASSUME Types, OnlyNewestLives, NEW p \in DOMAIN procs, procs[p].state # "gone"
  PROVE  p = Made /\ Made > 0 /\ State = procs[p].state /\ How = procs[p].status
<1>1. p \in 1 .. Made /\ Made \in Nat
  BY Sizes
<1>2. p = Made
  BY <1>1 DEF OnlyNewestLives
<1> QED
  BY <1>1, <1>2 DEF State, How, Newest

LEMMA NewestTyped ==
  ASSUME Types, Made > 0
  PROVE  /\ Newest \in ProcessRecord /\ How \in Statuses
         /\ State \in {"running", "stopped", "zombie", "gone"}
         /\ By \in {"nobody", "itself", "alarm", "stop", "term"}
<1>1. procs \in Seq(ProcessRecord) /\ Made \in 1 .. Len(procs)
  BY Sizes DEF Types, ServerTypes, Made
<1>2. Newest \in ProcessRecord
  BY <1>1 DEF Newest
<1> QED
  BY <1>2 DEF How, State, By, ProcessRecord

LEMMA NewestChanges ==
  ASSUME Types, Made > 0, OnlyNewestLives, NEW r \in ProcessRecord,
         procs' = [procs EXCEPT ![Made] = r]
  PROVE  /\ procs' \in Seq(ProcessRecord) /\ OnlyNewestLives'
         /\ NewestIs(r.state, r.by, r.status)
<1>1. procs \in Seq(ProcessRecord)
  BY DEF Types, ServerTypes
<1>2. Made \in Nat /\ Made \in 1 .. Made
  BY Sizes
<1>3. Made \in 1 .. Len(procs)
  BY <1>2 DEF Made
<1>4. /\ procs' \in Seq(ProcessRecord) /\ Len(procs') = Len(procs)
      /\ \A i \in 1 .. Len(procs) : procs'[i] = IF i = Made THEN r ELSE procs[i]
  BY <1>1, <1>3, ExceptSeq
<1>5. Made' = Made /\ procs'[Made] = r
  BY <1>3, <1>4 DEF Made
<1>6. NewestIs(r.state, r.by, r.status)
  BY <1>5 DEF NewestIs, State, By, How, Newest
<1>7. ASSUME NEW p \in 1 .. Made' - 1
      PROVE  procs'[p].state = "gone"
  <2>1. p \in 1 .. Made - 1 /\ p \in 1 .. Len(procs) /\ p # Made
    BY <1>2, <1>3, <1>5
  <2> QED
    BY <1>4, <2>1 DEF OnlyNewestLives
<1> QED
  BY <1>4, <1>6, <1>7 DEF OnlyNewestLives

LEMMA NewestEnds ==
  ASSUME Types, Made > 0, OnlyNewestLives, NEW how \in Statuses,
         NEW who \in {"nobody", "itself", "alarm", "stop", "term"},
         procs' = Ended(procs, Made, how, who)
  PROVE  procs' \in Seq(ProcessRecord) /\ OnlyNewestLives' /\ NewestIs("zombie", who, how)
<1> DEFINE r == [state |-> "zombie", status |-> how, by |-> who]
<1>1. r \in ProcessRecord
  BY DEF ProcessRecord
<1>2. procs' = [procs EXCEPT ![Made] = r]
  BY DEF Ended
<1>3. r.state = "zombie" /\ r.by = who /\ r.status = how
  OBVIOUS
<1> HIDE DEF r
<1> QED
  BY <1>1, <1>2, <1>3, NewestChanges

LEMMA NewestGoes ==
  ASSUME Types, Made > 0, OnlyNewestLives, NEW s \in {"gone", "stopped"},
         procs' = [procs EXCEPT ![Made].state = s]
  PROVE  procs' \in Seq(ProcessRecord) /\ OnlyNewestLives' /\ NewestIs(s, By, How)
<1> DEFINE r == [Newest EXCEPT !.state = s]
<1>1. procs \in Seq(ProcessRecord) /\ Made \in 1 .. Len(procs)
  BY Sizes DEF Types, ServerTypes, Made
<1>2. Newest \in ProcessRecord
  BY <1>1 DEF Newest
<1>3. r \in ProcessRecord /\ r.state = s /\ r.by = By /\ r.status = How
  BY <1>2 DEF ProcessRecord, By, How
<1>4. procs' = [procs EXCEPT ![Made] = r]
  BY DEF Newest
<1> HIDE DEF r
<1> QED
  BY <1>3, <1>4, NewestChanges

\* there is a new process
LEMMA Created ==
  ASSUME Types, OnlyNewestLives, Made > 0 => State = "gone", procs' = Append(procs, NewProcess)
  PROVE  /\ procs' \in Seq(ProcessRecord) /\ OnlyNewestLives' /\ Made' = Made + 1
         /\ State' = "running" /\ By' = "nobody" /\ How' = "exit"
<1>1. procs \in Seq(ProcessRecord)
  BY DEF Types, ServerTypes
<1>2. NewProcess \in ProcessRecord
  BY DEF NewProcess, ProcessRecord, Statuses
<1>3. /\ procs' \in Seq(ProcessRecord) /\ Len(procs') = Len(procs) + 1
      /\ procs'[Len(procs) + 1] = NewProcess
      /\ \A i \in 1 .. Len(procs) : procs'[i] = procs[i]
  BY <1>1, <1>2, AppendProperties
<1>4. Made' = Made + 1 /\ Made \in Nat
  BY <1>3, Sizes DEF Made
<1>5. Newest' = NewProcess
  BY <1>3 DEF Made, Newest
<1>6. State' = "running" /\ By' = "nobody" /\ How' = "exit"
  BY <1>5 DEF State, By, How, NewProcess
<1>7. ASSUME NEW p \in 1 .. Made' - 1
      PROVE  procs'[p].state = "gone"
  <2>1. p \in 1 .. Made /\ procs'[p] = procs[p]
    BY <1>3, <1>4 DEF Made
  <2>2. p \in 1 .. Made - 1 \/ (p = Made /\ Made > 0)
    BY <1>4, <2>1
  <2> QED
    BY <2>1, <2>2 DEF OnlyNewestLives, State, Newest
<1> QED
  BY <1>3, <1>4, <1>6, <1>7 DEF OnlyNewestLives

\* SIGKILL reaches the newest process only
LEMMA KilledNewest ==
  ASSUME Types, OnlyNewestLives, NEW who \in {"alarm", "stop"}, child_pid \in 1 .. Made,
         procs' = Killed(child_pid, who)
  PROVE  /\ procs' \in Seq(ProcessRecord) /\ OnlyNewestLives'
         /\ IF child_pid = Made /\ State \in {"running", "stopped"}
              THEN NewestIs("zombie", who, "KILL") ELSE SameNewest
<1>0. DOMAIN procs = 1 .. Made
  BY Sizes
<1>1. CASE Living(child_pid)
  <2>1. child_pid = Made /\ Made > 0 /\ State \in {"running", "stopped"}
    BY <1>0, <1>1, TheLivingIsNewest DEF Living
  <2>2. procs' = Ended(procs, Made, "KILL", who)
    BY <1>1, <2>1 DEF Killed
  <2>3. "KILL" \in Statuses
    BY DEF Statuses
  <2> QED
    BY <2>1, <2>2, <2>3, NewestEnds
<1>2. CASE ~Living(child_pid)
  <2>1. procs' = procs
    BY <1>2 DEF Killed
  <2>2. ~(child_pid = Made /\ State \in {"running", "stopped"})
    BY <1>0, <1>2 DEF Living, State, Newest
  <2> QED
    BY <2>1, <2>2, Kept, OthersKept DEF Types, ServerTypes
<1> QED
  BY <1>1, <1>2

LEMMA FaultTyped == Fault \in Faults
  BY DEF Fault, Faults

----------------------------------------------------------------------------
(* Every step keeps the invariant *)

USE DEF Places, Starting, Talking, Closing, Over, NoPid

(* The fork server *)

LEMMA HelloKeeps ==
  ASSUME IInv, Hello, UNCHANGED fuzzerVars
  PROVE  IInv'
<1>1. Types /\ Control /\ OnlyNewestLives /\ Judged /\ Basics
  BY BasicsKnown
<1>2. /\ SameTarget /\ SameFuzzer /\ SameControl /\ SameNewest
  BY Kept DEF Hello, serverVars
<1>3. ServerAt = "hello"
  BY DEF Hello, ServerAt
<1>4. server' \in ServerLocals
  BY <1>1 DEF Hello, Types, ServerTypes, ServerLocals
<1>5. /\ ServerAt' = "wait" /\ Kid' = Kid /\ Held' = Held /\ Told' = Told
  BY <1>1 DEF Hello, Types, ServerTypes, ServerLocals, ServerAt, Kid, Held, Told
<1>6. /\ st' \in Seq(Messages)
  BY <1>1, PutIs, MessageTypes DEF Hello
<1>7. /\ Sent' = Sent + 1 /\ (Sent = 0 => First' = Message("hello", 0))
  BY <1>1, PutIs, MessageTypes DEF Hello
<1>8. Control'
  BY <1>1, <1>2, <1>3, <1>5, <1>7
  DEF Control, Alone, Agreement, Quiet, GreetingDue,
     PidDue, StatusDue, Pids, Statements, Fits, ServerSees, FuzzerSees, Causes, AlarmKnown,
     ExecFailure, SameTarget, SameFuzzer, SameControl, SameNewest, NewestIs, Message,
     Locations, Basics
<1>9. options' = options /\ ctl' = ctl /\ procs' = procs
  BY DEF Hello, serverVars
<1>10. ServerTypes'
  BY <1>1, <1>4, <1>6, <1>9 DEF Types, ServerTypes
<1>11. FuzzerTypes'
  BY <1>1, <1>2 DEF Types, FuzzerTypes, SameFuzzer
<1>12. OnlyNewestLives'
  BY <1>1, OthersKept DEF Hello, serverVars
<1>13. Judged'
  BY <1>1, <1>2, JudgedKept
<1> QED
  BY <1>8, <1>10, <1>11, <1>12, <1>13 DEF IInv, Types

LEMMA EndsEarlyKeeps ==
  ASSUME IInv, EndsEarly, UNCHANGED fuzzerVars
  PROVE  IInv'
<1>1. Types /\ Control /\ OnlyNewestLives /\ Judged /\ Basics
  BY BasicsKnown
<1>2. /\ SameTarget /\ SameFuzzer /\ SameControl /\ SameStatus /\ SameNewest
  BY Kept DEF EndsEarly, serverVars
<1>3. ServerAt = "hello"
  BY DEF EndsEarly, ServerAt
<1>4. server' \in ServerLocals
  BY <1>1 DEF EndsEarly, Types, ServerTypes, ServerLocals
<1>5. /\ ServerAt' = "dead" /\ Kid' = Kid /\ Held' = Held /\ Told' = Told
  BY <1>1 DEF EndsEarly, Types, ServerTypes, ServerLocals, ServerAt, Kid, Held, Told
<1>6. Control'
  BY <1>1, <1>2, <1>3, <1>5
  DEF Control, Alone, Agreement, Quiet, GreetingDue, PidDue,
     StatusDue, Pids, Statements, Fits, ServerSees, FuzzerSees, Causes, AlarmKnown,
     ExecFailure, SameTarget, SameFuzzer, SameControl, SameStatus, SameNewest, NewestIs,
     Message, Locations, Basics
<1>7. options' = options /\ ctl' = ctl /\ st' = st /\ procs' = procs
  BY DEF EndsEarly, serverVars
<1>8. ServerTypes'
  BY <1>1, <1>4, <1>7 DEF Types, ServerTypes
<1>9. FuzzerTypes'
  BY <1>1, <1>2 DEF Types, FuzzerTypes, SameFuzzer
<1>10. OnlyNewestLives'
  BY <1>1, OthersKept DEF EndsEarly, serverVars
<1>11. Judged'
  BY <1>1, <1>2, JudgedKept
<1> QED
  BY <1>6, <1>8, <1>9, <1>10, <1>11 DEF IInv, Types

LEMMA ReadRequestKeeps ==
  ASSUME IInv, ReadRequest, UNCHANGED fuzzerVars
  PROVE  IInv'
<1>1. Types /\ Control /\ OnlyNewestLives /\ Judged /\ Basics
  BY BasicsKnown
<1>2. /\ SameTarget /\ SameFuzzer /\ SameStatus /\ SameNewest
  BY Kept DEF ReadRequest, serverVars
<1>3. ctl # << >>
  BY DEF ReadRequest
<1>4. ServerAt = "wait"
  BY DEF ReadRequest, ServerAt
<1>5. Asked > 0
  BY <1>1, <1>3, Sizes
<1>6. UsesServer /\ Asked = 1
  BY <1>1, <1>4, <1>5 DEF Control, Alone, Agreement, Basics
<1>7. pc = "pid" /\ Sent = 0 /\ Kid = Made
  BY <1>1, <1>4, <1>6 DEF Control, Agreement, Quiet, GreetingDue, PidDue, StatusDue,
     Locations, Basics
<1>8. Killing \in BOOLEAN
  BY <1>1, <1>5 DEF Types, ServerTypes, Asked, Killing
<1>9. Head(ctl) = Killing
  BY <1>1, <1>3, HeadTailProperties DEF Types, ServerTypes, Killing
<1>10. Tail(ctl) \in Seq(BOOLEAN) /\ Len(Tail(ctl)) = 0
  BY <1>1, <1>3, <1>6, HeadTailProperties DEF Types, ServerTypes, Asked
<1>11. server' \in ServerLocals
  BY <1>1, <1>2, <1>3, <1>4, <1>5, <1>6, <1>7, <1>8, <1>9, <1>10 DEF ReadRequest, Types,
     ServerTypes, ServerLocals, Statuses
<1>12. /\ ServerAt' = (IF Held /\ Killing THEN "writeoff" ELSE "fork") /\ Kid' = Kid
      /\ Held' = Held /\ Told' = Told
  BY <1>1, <1>2, <1>3, <1>4, <1>5, <1>6, <1>7, <1>8, <1>9, <1>10 DEF ReadRequest, Types,
     ServerTypes, ServerLocals, ServerAt, Kid, Held, Told
<1>13. /\ ctl' \in Seq(BOOLEAN)
  BY <1>10 DEF ReadRequest, Asked
<1>14. /\ Asked' = 0
  BY <1>10 DEF ReadRequest, Asked
<1>15. Control'
  BY <1>1, <1>2, <1>4, <1>5, <1>6, <1>7, <1>8, <1>12, <1>14
  DEF Control, Alone,
     Agreement, Quiet, GreetingDue, PidDue, StatusDue, Pids, Statements, Fits, ServerSees,
     FuzzerSees, Causes, AlarmKnown, ExecFailure, SameTarget, SameFuzzer, SameStatus,
     SameNewest, NewestIs, Message, Locations, Basics
<1>16. options' = options /\ st' = st /\ procs' = procs
  BY DEF ReadRequest, serverVars
<1>17. ServerTypes'
  BY <1>1, <1>11, <1>13, <1>16 DEF Types, ServerTypes
<1>18. FuzzerTypes'
  BY <1>1, <1>2 DEF Types, FuzzerTypes, SameFuzzer
<1>19. OnlyNewestLives'
  BY <1>1, OthersKept DEF ReadRequest, serverVars
<1>20. Judged'
  BY <1>1, <1>2, JudgedKept
<1> QED
  BY <1>15, <1>17, <1>18, <1>19, <1>20 DEF IInv, Types

LEMMA WriteOffKeeps ==
  ASSUME IInv, WriteOff, UNCHANGED fuzzerVars
  PROVE  IInv'
<1>1. Types /\ Control /\ OnlyNewestLives /\ Judged /\ Basics
  BY BasicsKnown
<1>2. /\ SameTarget /\ SameFuzzer /\ SameControl /\ SameStatus
  BY Kept DEF WriteOff, serverVars
<1>3. ServerAt = "writeoff"
  BY DEF WriteOff, ServerAt
<1>4. Kid = Made /\ Made > 0 /\ State = "zombie"
  BY <1>1, <1>2, <1>3 DEF WriteOff, Kid, State, Newest, Control, Alone, Agreement,
     ServerSees
<1>5. server' \in ServerLocals
  BY <1>1 DEF WriteOff, Types, ServerTypes, ServerLocals
<1>6. /\ ServerAt' = "fork" /\ Kid' = Kid /\ Held' = FALSE /\ Told' = Told
  BY <1>1 DEF WriteOff, Types, ServerTypes, ServerLocals, ServerAt, Kid, Held, Told
<1>7. /\ procs' \in Seq(ProcessRecord) /\ OnlyNewestLives'
  BY <1>1, <1>4, NewestGoes DEF WriteOff, Reaped, Kid
<1>8. /\ NewestIs("gone", By, How)
  BY <1>1, <1>4, NewestGoes DEF WriteOff, Reaped, Kid
<1>9. Control'
  BY <1>1, <1>2, <1>3, <1>4, <1>6, <1>8
  DEF Control, Alone, Agreement, Quiet,
     GreetingDue, PidDue, StatusDue, Pids, Statements, Fits, ServerSees, FuzzerSees, Causes,
     AlarmKnown, ExecFailure, SameTarget, SameFuzzer, SameControl, SameStatus, SameNewest,
     NewestIs, Message, Locations, Basics
<1>10. options' = options /\ ctl' = ctl /\ st' = st
  BY DEF WriteOff, serverVars
<1>11. ServerTypes'
  BY <1>1, <1>5, <1>7, <1>10 DEF Types, ServerTypes
<1>12. FuzzerTypes'
  BY <1>1, <1>2 DEF Types, FuzzerTypes, SameFuzzer
<1>13. Judged'
  BY <1>1, <1>2, JudgedKept
<1> QED
  BY <1>9, <1>11, <1>12, <1>7, <1>13 DEF IInv, Types

LEMMA ForkKeeps ==
  ASSUME IInv, server.at = "fork", ~server.child_stopped, procs' = Append(procs, NewProcess),
         server' = [server EXCEPT !.child = Len(procs'), !.at = "pid"],
         UNCHANGED <<options, ctl, st>>, UNCHANGED fuzzerVars
  PROVE  IInv'
<1>1. Types /\ Control /\ OnlyNewestLives /\ Judged /\ Basics
  BY BasicsKnown
<1>2. /\ SameTarget /\ SameFuzzer /\ SameControl /\ SameStatus
  BY Kept DEF serverVars
<1>3. ServerAt = "fork" /\ ~Held
  BY DEF ServerAt, Held
<1>4. UsesServer /\ Kid = Made /\ (Made > 0 => State = "gone")
  BY <1>1, <1>2, <1>3 DEF Control, Alone, Agreement, ServerSees, Basics
<1>5. /\ Made' = Made + 1 /\ Made' = Len(procs') /\ Made' \in Nat
      /\ State' = "running" /\ By' = "nobody" /\ How' = "exit"
  BY <1>1, <1>4, Created DEF Made, Basics
<1>6. server' \in ServerLocals
  BY <1>1, <1>2, <1>3, <1>4, <1>5 DEF Types, ServerTypes, ServerLocals, Statuses
<1>7. /\ ServerAt' = "pid" /\ Kid' = Made' /\ Held' = Held /\ Told' = Told
  BY <1>1, <1>2, <1>3, <1>4, <1>5 DEF Types, ServerTypes, ServerLocals, ServerAt, Kid, Held,
     Told
<1>8. /\ procs' \in Seq(ProcessRecord) /\ OnlyNewestLives'
  BY <1>1, <1>4, Created
<1>9. Control'
  BY <1>1, <1>2, <1>3, <1>4, <1>5, <1>7
  DEF Control, Alone, Agreement, Quiet,
     GreetingDue, PidDue, StatusDue, Pids, Statements, Fits, ServerSees, FuzzerSees, Causes,
     AlarmKnown, ExecFailure, SameTarget, SameFuzzer, SameControl, SameStatus, SameNewest,
     NewestIs, Message, Locations, Basics
<1>10. options' = options /\ ctl' = ctl /\ st' = st
  OBVIOUS
<1>11. ServerTypes'
  BY <1>1, <1>6, <1>8, <1>10 DEF Types, ServerTypes
<1>12. FuzzerTypes'
  BY <1>1, <1>2 DEF Types, FuzzerTypes, SameFuzzer
<1>13. Judged'
  BY <1>1, <1>2, JudgedKept
<1> QED
  BY <1>9, <1>11, <1>12, <1>8, <1>13 DEF IInv, Types

LEMMA ForkFailsKeeps ==
  ASSUME IInv, server.at = "fork", ~server.child_stopped, server' = [server EXCEPT !.at = "dead"],
         UNCHANGED <<options, ctl, st, procs>>, UNCHANGED fuzzerVars
  PROVE  IInv'
<1>1. Types /\ Control /\ OnlyNewestLives /\ Judged /\ Basics
  BY BasicsKnown
<1>2. /\ SameTarget /\ SameFuzzer /\ SameControl /\ SameStatus /\ SameNewest
  BY Kept DEF serverVars
<1>3. ServerAt = "fork" /\ ~Held
  BY DEF ServerAt, Held
<1>4. server' \in ServerLocals
  BY <1>1 DEF Types, ServerTypes, ServerLocals
<1>5. /\ ServerAt' = "dead" /\ Kid' = Kid /\ Held' = Held /\ Told' = Told
  BY <1>1 DEF Types, ServerTypes, ServerLocals, ServerAt, Kid, Held, Told
<1>6. Control'
  BY <1>1, <1>2, <1>3, <1>5
  DEF Control, Alone, Agreement, Quiet, GreetingDue, PidDue,
     StatusDue, Pids, Statements, Fits, ServerSees, FuzzerSees, Causes, AlarmKnown,
     ExecFailure, SameTarget, SameFuzzer, SameControl, SameStatus, SameNewest, NewestIs,
     Message, Locations, Basics
<1>7. options' = options /\ ctl' = ctl /\ st' = st /\ procs' = procs
  OBVIOUS
<1>8. ServerTypes'
  BY <1>1, <1>4, <1>7 DEF Types, ServerTypes
<1>9. FuzzerTypes'
  BY <1>1, <1>2 DEF Types, FuzzerTypes, SameFuzzer
<1>10. OnlyNewestLives'
  BY <1>1, OthersKept DEF serverVars
<1>11. Judged'
  BY <1>1, <1>2, JudgedKept
<1> QED
  BY <1>6, <1>8, <1>9, <1>10, <1>11 DEF IInv, Types

LEMMA WritePidKeeps ==
  ASSUME IInv, WritePid, UNCHANGED fuzzerVars
  PROVE  IInv'
<1>1. Types /\ Control /\ OnlyNewestLives /\ Judged /\ Basics
  BY BasicsKnown
<1>2. /\ SameTarget /\ SameFuzzer /\ SameControl /\ SameNewest
  BY Kept DEF WritePid, serverVars
<1>3. ServerAt = "pid"
  BY DEF WritePid, ServerAt
<1>4. server' \in ServerLocals
  BY <1>1 DEF WritePid, Types, ServerTypes, ServerLocals
<1>5. /\ ServerAt' = "waitpid" /\ Kid' = Kid /\ Held' = Held /\ Told' = Told
  BY <1>1 DEF WritePid, Types, ServerTypes, ServerLocals, ServerAt, Kid, Held, Told
<1>6. /\ st' \in Seq(Messages)
  BY <1>1, PutIs, MessageTypes DEF WritePid, Kid, Basics
<1>7. /\ Sent' = Sent + 1 /\ (Sent = 0 => First' = Message("pid", Kid))
  BY <1>1, PutIs, MessageTypes DEF WritePid, Kid, Basics
<1>8. Control'
  BY <1>1, <1>2, <1>3, <1>5, <1>7
  DEF Control, Alone, Agreement, Quiet, GreetingDue,
     PidDue, StatusDue, Pids, Statements, Fits, ServerSees, FuzzerSees, Causes, AlarmKnown,
     ExecFailure, SameTarget, SameFuzzer, SameControl, SameNewest, NewestIs, Message,
     Locations, Basics
<1>9. options' = options /\ ctl' = ctl /\ procs' = procs
  BY DEF WritePid, serverVars
<1>10. ServerTypes'
  BY <1>1, <1>4, <1>6, <1>9 DEF Types, ServerTypes
<1>11. FuzzerTypes'
  BY <1>1, <1>2 DEF Types, FuzzerTypes, SameFuzzer
<1>12. OnlyNewestLives'
  BY <1>1, OthersKept DEF WritePid, serverVars
<1>13. Judged'
  BY <1>1, <1>2, JudgedKept
<1> QED
  BY <1>8, <1>10, <1>11, <1>12, <1>13 DEF IInv, Types

LEMMA WriteStatusKeeps ==
  ASSUME IInv, WriteStatus, UNCHANGED fuzzerVars
  PROVE  IInv'
<1>1. Types /\ Control /\ OnlyNewestLives /\ Judged /\ Basics
  BY BasicsKnown
<1>2. /\ SameTarget /\ SameFuzzer /\ SameControl /\ SameNewest
  BY Kept DEF WriteStatus, serverVars
<1>3. ServerAt = "status"
  BY DEF WriteStatus, ServerAt
<1>4. Told \in Statuses
  BY <1>1 DEF Types, ServerTypes, ServerLocals, Told
<1>5. server' \in ServerLocals
  BY <1>1 DEF WriteStatus, Types, ServerTypes, ServerLocals
<1>6. /\ ServerAt' = "wait" /\ Kid' = Kid /\ Held' = Held /\ Told' = Told
  BY <1>1 DEF WriteStatus, Types, ServerTypes, ServerLocals, ServerAt, Kid, Held, Told
<1>7. /\ st' \in Seq(Messages)
  BY <1>1, <1>4, PutIs, MessageTypes DEF WriteStatus, Told
<1>8. /\ Sent' = Sent + 1 /\ (Sent = 0 => First' = Message("status", Told))
      /\ (Sent > 0 => First' = First) /\ (Sent = 1 => Second' = Message("status", Told))
  BY <1>1, <1>4, PutIs, MessageTypes DEF WriteStatus, Told
<1>9. Control'
  BY <1>1, <1>2, <1>3, <1>4, <1>6, <1>8
  DEF Control, Alone, Agreement, Quiet,
     GreetingDue, PidDue, StatusDue, Pids, Statements, Fits, ServerSees, FuzzerSees, Causes,
     AlarmKnown, ExecFailure, SameTarget, SameFuzzer, SameControl, SameNewest, NewestIs,
     Message, Locations, Basics
<1>10. options' = options /\ ctl' = ctl /\ procs' = procs
  BY DEF WriteStatus, serverVars
<1>11. ServerTypes'
  BY <1>1, <1>5, <1>7, <1>10 DEF Types, ServerTypes
<1>12. FuzzerTypes'
  BY <1>1, <1>2 DEF Types, FuzzerTypes, SameFuzzer
<1>13. OnlyNewestLives'
  BY <1>1, OthersKept DEF WriteStatus, serverVars
<1>14. Judged'
  BY <1>1, <1>2, JudgedKept
<1> QED
  BY <1>9, <1>11, <1>12, <1>13, <1>14 DEF IInv, Types

LEMMA ContinueKeeps ==
  ASSUME IInv, Continue, UNCHANGED fuzzerVars
  PROVE  IInv'
<1>1. Types /\ Control /\ OnlyNewestLives /\ Judged /\ Basics
  BY BasicsKnown
<1>2. /\ SameTarget /\ SameFuzzer /\ SameControl /\ SameStatus
  BY Kept DEF Continue, serverVars
<1>3. ServerAt = "fork" /\ Held
  BY DEF Continue, ServerAt, Held
<1>4. UsesServer /\ Kid = Made /\ Made > 0 /\ State \in {"stopped", "zombie"}
  BY <1>1, <1>3 DEF Control, Alone, Agreement, ServerSees
<1>5. procs[server.child].state = State
  BY <1>4 DEF Kid, State, Newest
<1>6. NewProcess \in ProcessRecord
  BY DEF NewProcess, ProcessRecord, Statuses
<1>7. pc = "pid" /\ Sent = 0
  BY <1>1, <1>3, <1>4 DEF Control, Agreement, Quiet, GreetingDue, PidDue, StatusDue,
     Locations, Basics
<1>8. server' \in ServerLocals
  BY <1>1 DEF Continue, Types, ServerTypes, ServerLocals
<1>9. /\ ServerAt' = "pid" /\ Kid' = Kid /\ Held' = FALSE /\ Told' = Told
  BY <1>1 DEF Continue, Types, ServerTypes, ServerLocals, ServerAt, Kid, Held, Told
<1>10. /\ procs' \in Seq(ProcessRecord) /\ OnlyNewestLives'
  BY <1>1, <1>4, <1>5, <1>6, NewestChanges, Kept, OthersKept DEF Continue, Kid,
     NewProcess, Types, ServerTypes
<1>11. /\ (IF State = "stopped" THEN NewestIs("running", "nobody", "exit") ELSE SameNewest)
  BY <1>1, <1>4, <1>5, <1>6, NewestChanges, Kept, OthersKept DEF Continue, Kid,
     NewProcess, Types, ServerTypes
<1>12. Control'
  <2>1. Alone'
    BY <1>1, <1>2, <1>3, <1>4, <1>7, <1>9, <1>11 DEF Control, Alone, SameTarget,
       SameFuzzer, SameControl, SameStatus, SameNewest, NewestIs, Message, Locations, Basics
  <2>2. Agreement'
    BY <1>1, <1>2, <1>3, <1>4, <1>7, <1>9, <1>11 DEF Control, Agreement, Quiet,
       GreetingDue, PidDue, StatusDue, SameTarget, SameFuzzer, SameControl, SameStatus,
       SameNewest, NewestIs, Message, Locations, Basics
  <2>3. Pids'
    BY <1>1, <1>2, <1>3, <1>4, <1>7, <1>9, <1>11 DEF Control, Pids, Statements, Fits,
       SameTarget, SameFuzzer, SameControl, SameStatus, SameNewest, NewestIs, Message,
       Locations, Basics
  <2>4. Statements'
    BY <1>1, <1>2, <1>3, <1>4, <1>7, <1>9, <1>11 DEF Control, Statements, Fits,
       SameTarget, SameFuzzer, SameControl, SameStatus, SameNewest, NewestIs, Message,
       Locations, Basics
  <2>5. ServerSees'
    BY <1>1, <1>2, <1>3, <1>4, <1>7, <1>9, <1>11 DEF Control, ServerSees, Agreement,
       PidDue, Statements, Fits, SameTarget, SameFuzzer, SameControl, SameStatus,
       SameNewest, NewestIs, Message, Locations, Basics
  <2>6. FuzzerSees'
    BY <1>1, <1>2, <1>3, <1>4, <1>7, <1>9, <1>11 DEF Control, FuzzerSees, SameTarget,
       SameFuzzer, SameControl, SameStatus, SameNewest, NewestIs, Message, Locations, Basics
  <2>7. Causes'
    BY <1>1, <1>2, <1>3, <1>4, <1>7, <1>9, <1>11 DEF Control, Causes, ServerSees,
       FuzzerSees, Statements, Fits, SameTarget, SameFuzzer, SameControl, SameStatus,
       SameNewest, NewestIs, Message, Locations, Basics
  <2>8. AlarmKnown'
    BY <1>1, <1>2, <1>3, <1>4, <1>7, <1>9, <1>11 DEF Control, AlarmKnown, Causes,
       ServerSees, Agreement, PidDue, SameTarget, SameFuzzer, SameControl, SameStatus,
       SameNewest, NewestIs, Message, Locations, Basics
  <2>9. ExecFailure'
    BY <1>1, <1>2, <1>3, <1>4, <1>7, <1>9, <1>11 DEF Control, ExecFailure, FuzzerSees,
       SameTarget, SameFuzzer, SameControl, SameStatus, SameNewest, NewestIs, Message,
       Locations, Basics
  <2> QED
    BY <2>1, <2>2, <2>3, <2>4, <2>5, <2>6, <2>7, <2>8, <2>9 DEF Control
<1>13. options' = options /\ ctl' = ctl /\ st' = st
  BY DEF Continue, serverVars
<1>14. ServerTypes'
  BY <1>1, <1>8, <1>10, <1>13 DEF Types, ServerTypes
<1>15. FuzzerTypes'
  BY <1>1, <1>2 DEF Types, FuzzerTypes, SameFuzzer
<1>16. Judged'
  BY <1>1, <1>2, JudgedKept
<1> QED
  BY <1>12, <1>14, <1>15, <1>10, <1>16 DEF IInv, Types

LEMMA CollectKeeps ==
  ASSUME IInv, server.at = "waitpid", procs[server.child].state = "zombie",
         procs' = Reaped(server.child),
         server' = [server EXCEPT !.at = "status", !.status = procs[server.child].status],
         UNCHANGED <<options, ctl, st>>, UNCHANGED fuzzerVars
  PROVE  IInv'
<1>1. Types /\ Control /\ OnlyNewestLives /\ Judged /\ Basics
  BY BasicsKnown
<1>2. /\ SameTarget /\ SameFuzzer /\ SameControl /\ SameStatus
  BY Kept DEF serverVars
<1>3. ServerAt = "waitpid"
  BY DEF ServerAt
<1>4. UsesServer /\ Kid = Made /\ Made > 0
  BY <1>1, <1>3 DEF Control, Alone, Agreement, ServerSees
<1>5. State = "zombie" /\ procs[server.child].status = How
  BY <1>4 DEF Kid, State, How, Newest
<1>6. How \in Statuses
  BY <1>1, <1>4, NewestTyped
<1>7. How # "STOP"
  BY <1>1, <1>4, <1>5, NewestTyped DEF Control, Causes
<1>8. server' \in ServerLocals
  BY <1>1, <1>2, <1>3, <1>4, <1>5, <1>6, <1>7 DEF Types, ServerTypes, ServerLocals,
     Statuses
<1>9. /\ ServerAt' = "status" /\ Kid' = Kid /\ Held' = Held /\ Told' = How
  BY <1>1, <1>2, <1>3, <1>4, <1>5, <1>6, <1>7 DEF Types, ServerTypes, ServerLocals, ServerAt,
     Kid, Held, Told
<1>10. /\ procs' \in Seq(ProcessRecord) /\ OnlyNewestLives'
  BY <1>1, <1>4, NewestGoes DEF Reaped, Kid
<1>11. /\ NewestIs("gone", By, How)
  BY <1>1, <1>4, NewestGoes DEF Reaped, Kid
<1>12. Control'
  <2>1. Alone'
    BY <1>1, <1>2, <1>3, <1>4, <1>5, <1>6, <1>7, <1>9, <1>11 DEF Control, Alone,
       SameTarget, SameFuzzer, SameControl, SameStatus, SameNewest, NewestIs, Message,
       Locations, Basics
  <2>2. Agreement'
    BY <1>1, <1>2, <1>3, <1>4, <1>5, <1>6, <1>7, <1>9, <1>11 DEF Control, Agreement,
       Quiet, GreetingDue, PidDue, StatusDue, SameTarget, SameFuzzer, SameControl,
       SameStatus, SameNewest, NewestIs, Message, Locations, Basics
  <2>3. Pids'
    BY <1>1, <1>2, <1>3, <1>4, <1>5, <1>6, <1>7, <1>9, <1>11 DEF Control, Pids,
       Statements, Fits, SameTarget, SameFuzzer, SameControl, SameStatus, SameNewest,
       NewestIs, Message, Locations, Basics
  <2>4. Statements'
    BY <1>1, <1>2, <1>3, <1>4, <1>5, <1>6, <1>7, <1>9, <1>11 DEF Control, Statements,
       Fits, SameTarget, SameFuzzer, SameControl, SameStatus, SameNewest, NewestIs, Message,
       Locations, Basics
  <2>5. ServerSees'
    BY <1>1, <1>2, <1>3, <1>4, <1>5, <1>6, <1>7, <1>9, <1>11 DEF Control, ServerSees,
       Agreement, PidDue, Statements, Fits, SameTarget, SameFuzzer, SameControl, SameStatus,
       SameNewest, NewestIs, Message, Locations, Basics
  <2>6. FuzzerSees'
    BY <1>1, <1>2, <1>3, <1>4, <1>5, <1>6, <1>7, <1>9, <1>11 DEF Control, FuzzerSees,
       SameTarget, SameFuzzer, SameControl, SameStatus, SameNewest, NewestIs, Message,
       Locations, Basics
  <2>7. Causes'
    BY <1>1, <1>2, <1>3, <1>4, <1>5, <1>6, <1>7, <1>9, <1>11 DEF Control, Causes,
       ServerSees, FuzzerSees, Statements, Fits, SameTarget, SameFuzzer, SameControl,
       SameStatus, SameNewest, NewestIs, Message, Locations, Basics
  <2>8. AlarmKnown'
    BY <1>1, <1>2, <1>3, <1>4, <1>5, <1>6, <1>7, <1>9, <1>11 DEF Control, AlarmKnown,
       Causes, ServerSees, Agreement, PidDue, SameTarget, SameFuzzer, SameControl,
       SameStatus, SameNewest, NewestIs, Message, Locations, Basics
  <2>9. ExecFailure'
    BY <1>1, <1>2, <1>3, <1>4, <1>5, <1>6, <1>7, <1>9, <1>11 DEF Control, ExecFailure,
       FuzzerSees, SameTarget, SameFuzzer, SameControl, SameStatus, SameNewest, NewestIs,
       Message, Locations, Basics
  <2> QED
    BY <2>1, <2>2, <2>3, <2>4, <2>5, <2>6, <2>7, <2>8, <2>9 DEF Control
<1>13. options' = options /\ ctl' = ctl /\ st' = st
  OBVIOUS
<1>14. ServerTypes'
  BY <1>1, <1>8, <1>10, <1>13 DEF Types, ServerTypes
<1>15. FuzzerTypes'
  BY <1>1, <1>2 DEF Types, FuzzerTypes, SameFuzzer
<1>16. Judged'
  BY <1>1, <1>2, JudgedKept
<1> QED
  BY <1>12, <1>14, <1>15, <1>10, <1>16 DEF IInv, Types

LEMMA SeesStopKeeps ==
  ASSUME IInv, server.at = "waitpid", Persistent, procs[server.child].state = "stopped",
         server' = [server EXCEPT !.at = "status", !.status = "STOP", !.child_stopped = TRUE],
         UNCHANGED <<options, ctl, st, procs>>, UNCHANGED fuzzerVars
  PROVE  IInv'
<1>1. Types /\ Control /\ OnlyNewestLives /\ Judged /\ Basics
  BY BasicsKnown
<1>2. /\ SameTarget /\ SameFuzzer /\ SameControl /\ SameStatus /\ SameNewest
  BY Kept DEF serverVars
<1>3. ServerAt = "waitpid"
  BY DEF ServerAt
<1>4. UsesServer /\ Kid = Made /\ Made > 0
  BY <1>1, <1>3 DEF Control, Alone, Agreement, ServerSees
<1>5. State = "stopped"
  BY <1>4 DEF Kid, State, Newest
<1>6. server' \in ServerLocals
  BY <1>1, <1>2, <1>3, <1>4, <1>5 DEF Types, ServerTypes, ServerLocals, Statuses
<1>7. /\ ServerAt' = "status" /\ Kid' = Kid /\ Held' = TRUE /\ Told' = "STOP"
  BY <1>1 DEF Types, ServerTypes, ServerLocals, ServerAt, Kid, Held, Told
<1>8. Control'
  BY <1>1, <1>2, <1>3, <1>4, <1>5, <1>7
  DEF Control, Alone, Agreement, Quiet,
     GreetingDue, PidDue, StatusDue, Pids, Statements, Fits, ServerSees, FuzzerSees, Causes,
     AlarmKnown, ExecFailure, SameTarget, SameFuzzer, SameControl, SameStatus, SameNewest,
     NewestIs, Message, Locations, Basics
<1>9. options' = options /\ ctl' = ctl /\ st' = st /\ procs' = procs
  OBVIOUS
<1>10. ServerTypes'
  BY <1>1, <1>6, <1>9 DEF Types, ServerTypes
<1>11. FuzzerTypes'
  BY <1>1, <1>2 DEF Types, FuzzerTypes, SameFuzzer
<1>12. OnlyNewestLives'
  BY <1>1, OthersKept DEF serverVars
<1>13. Judged'
  BY <1>1, <1>2, JudgedKept
<1> QED
  BY <1>8, <1>10, <1>11, <1>12, <1>13 DEF IInv, Types

(* The children *)

LEMMA ChildEndsKeeps ==
  ASSUME IInv, NEW p \in DOMAIN procs, procs[p].state = "running",
         NEW how \in {"exit", "SEGV", "msan"},
         procs' = Ended(procs, p, how, "itself"),
         UNCHANGED <<options, server, ctl, st>>, UNCHANGED fuzzerVars
  PROVE  IInv'
<1>1. Types /\ Control /\ OnlyNewestLives /\ Judged /\ Basics
  BY BasicsKnown
<1>2. /\ SameTarget /\ SameFuzzer /\ SameServer /\ SameControl /\ SameStatus
  BY Kept DEF serverVars
<1>3. p = Made /\ Made > 0 /\ State = "running"
  BY <1>1, TheLivingIsNewest
<1>4. /\ procs' \in Seq(ProcessRecord) /\ OnlyNewestLives'
  BY <1>1, <1>3, NewestEnds DEF Statuses
<1>5. /\ NewestIs("zombie", "itself", how)
  BY <1>1, <1>3, NewestEnds DEF Statuses
<1>6. Control'
  BY <1>1, <1>2, <1>3, <1>5
  DEF Control, Alone, Agreement, Quiet, GreetingDue, PidDue,
     StatusDue, Pids, Statements, Fits, ServerSees, FuzzerSees, Causes, AlarmKnown,
     ExecFailure, SameTarget, SameFuzzer, SameServer, SameControl, SameStatus, SameNewest,
     NewestIs, Message, Locations, Basics
<1>7. options' = options /\ server' = server /\ ctl' = ctl /\ st' = st
  OBVIOUS
<1>8. ServerTypes'
  BY <1>1, <1>4, <1>7 DEF Types, ServerTypes
<1>9. FuzzerTypes'
  BY <1>1, <1>2 DEF Types, FuzzerTypes, SameFuzzer
<1>10. Judged'
  BY <1>1, <1>2, JudgedKept
<1> QED
  BY <1>6, <1>8, <1>9, <1>4, <1>10 DEF IInv, Types

LEMMA ChildStopsKeeps ==
  ASSUME IInv, NEW p \in DOMAIN procs, Persistent, procs[p].state = "running",
         procs' = [procs EXCEPT ![p].state = "stopped"],
         UNCHANGED <<options, server, ctl, st>>, UNCHANGED fuzzerVars
  PROVE  IInv'
<1>1. Types /\ Control /\ OnlyNewestLives /\ Judged /\ Basics
  BY BasicsKnown
<1>2. /\ SameTarget /\ SameFuzzer /\ SameServer /\ SameControl /\ SameStatus
  BY Kept DEF serverVars
<1>3. p = Made /\ Made > 0 /\ State = "running"
  BY <1>1, TheLivingIsNewest
<1>4. /\ procs' \in Seq(ProcessRecord) /\ OnlyNewestLives'
  BY <1>1, <1>3, NewestGoes
<1>5. /\ NewestIs("stopped", By, How)
  BY <1>1, <1>3, NewestGoes
<1>6. Control'
  BY <1>1, <1>2, <1>3, <1>5
  DEF Control, Alone, Agreement, Quiet, GreetingDue, PidDue,
     StatusDue, Pids, Statements, Fits, ServerSees, FuzzerSees, Causes, AlarmKnown,
     ExecFailure, SameTarget, SameFuzzer, SameServer, SameControl, SameStatus, SameNewest,
     NewestIs, Message, Locations, Basics
<1>7. options' = options /\ server' = server /\ ctl' = ctl /\ st' = st
  OBVIOUS
<1>8. ServerTypes'
  BY <1>1, <1>4, <1>7 DEF Types, ServerTypes
<1>9. FuzzerTypes'
  BY <1>1, <1>2 DEF Types, FuzzerTypes, SameFuzzer
<1>10. Judged'
  BY <1>1, <1>2, JudgedKept
<1> QED
  BY <1>6, <1>8, <1>9, <1>4, <1>10 DEF IInv, Types

LEMMA InitReapsKeeps ==
  ASSUME IInv, NEW p \in DOMAIN procs, server.at = "dead", procs[p].state = "zombie",
         procs' = Reaped(p), UNCHANGED <<options, server, ctl, st>>, UNCHANGED fuzzerVars
  PROVE  IInv'
<1>1. Types /\ Control /\ OnlyNewestLives /\ Judged /\ Basics
  BY BasicsKnown
<1>2. /\ SameTarget /\ SameFuzzer /\ SameServer /\ SameControl /\ SameStatus
  BY Kept DEF serverVars
<1>3. ServerAt = "dead"
  BY DEF ServerAt
<1>4. p = Made /\ Made > 0 /\ State = "zombie"
  BY <1>1, TheLivingIsNewest
<1>5. /\ procs' \in Seq(ProcessRecord) /\ OnlyNewestLives'
  BY <1>1, <1>4, NewestGoes DEF Reaped
<1>6. /\ NewestIs("gone", By, How)
  BY <1>1, <1>4, NewestGoes DEF Reaped
<1>7. Control'
  BY <1>1, <1>2, <1>3, <1>4, <1>6
  DEF Control, Alone, Agreement, Quiet, GreetingDue,
     PidDue, StatusDue, Pids, Statements, Fits, ServerSees, FuzzerSees, Causes, AlarmKnown,
     ExecFailure, SameTarget, SameFuzzer, SameServer, SameControl, SameStatus, SameNewest,
     NewestIs, Message, Locations, Basics
<1>8. options' = options /\ server' = server /\ ctl' = ctl /\ st' = st
  OBVIOUS
<1>9. ServerTypes'
  BY <1>1, <1>5, <1>8 DEF Types, ServerTypes
<1>10. FuzzerTypes'
  BY <1>1, <1>2 DEF Types, FuzzerTypes, SameFuzzer
<1>11. Judged'
  BY <1>1, <1>2, JudgedKept
<1> QED
  BY <1>7, <1>9, <1>10, <1>5, <1>11 DEF IInv, Types

(* afl-fuzz *)

LEMMA InitForkserverKeeps ==
  ASSUME IInv, InitForkserver
  PROVE  IInv'
<1>1. Types /\ Control /\ OnlyNewestLives /\ Judged /\ Basics
  BY BasicsKnown
<1>2. /\ SameTarget /\ SameControl /\ SameStatus /\ SameNewest
  BY Kept DEF InitForkserver, serverVars
<1>3. pc = "start"
  BY DEF InitForkserver
<1>4. server' \in ServerLocals
  BY <1>1 DEF InitForkserver, Types, ServerTypes, ServerLocals
<1>5. /\ ServerAt' = "hello" /\ Kid' = Kid /\ Held' = Held /\ Told' = Told
  BY <1>1 DEF InitForkserver, Types, ServerTypes, ServerLocals, ServerAt, Kid, Held, Told
<1>6. /\ pc' = "hello" /\ run' = run /\ child_pid' = child_pid
      /\ child_timed_out' = child_timed_out /\ prev_timed_out' = prev_timed_out
      /\ stop_soon' = stop_soon /\ timer' = TRUE /\ exec_failed' = exec_failed
      /\ status' = status /\ verdict' = verdict
  BY DEF InitForkserver, fuzzerVars, Goto
<1>7. Control'
  BY <1>1, <1>2, <1>3, <1>5, <1>6
  DEF Control, Alone, Agreement, Quiet, GreetingDue,
     PidDue, StatusDue, Pids, Statements, Fits, ServerSees, FuzzerSees, Causes, AlarmKnown,
     ExecFailure, SameTarget, SameControl, SameStatus, SameNewest, NewestIs, Message,
     Locations, Basics
<1>8. options' = options /\ ctl' = ctl /\ st' = st /\ procs' = procs
  BY DEF InitForkserver, serverVars
<1>9. ServerTypes'
  BY <1>1, <1>4, <1>8 DEF Types, ServerTypes
<1>10. FuzzerTypes'
  BY <1>1, <1>3, <1>6 DEF Types, FuzzerTypes, Locations, Statuses, Faults, Basics
<1>11. OnlyNewestLives'
  BY <1>1, OthersKept DEF InitForkserver, serverVars
<1>12. Judged'
  BY <1>1, <1>2, <1>3, <1>5, <1>6 DEF Judged
<1> QED
  BY <1>7, <1>9, <1>10, <1>11, <1>12 DEF IInv, Types

LEMMA ServerIsUpKeeps ==
  ASSUME IInv, ServerIsUp
  PROVE  IInv'
<1>1. Types /\ Control /\ OnlyNewestLives /\ Judged /\ Basics
  BY BasicsKnown
<1>2. /\ SameTarget /\ SameServer /\ SameControl /\ SameStatus /\ SameNewest
  BY Kept DEF ServerIsUp, serverVars
<1>3. pc \in {"up", "down"}
  BY DEF ServerIsUp
<1>4. /\ pc' = (IF pc = "up" THEN "idle" ELSE "failed") /\ run' = run
      /\ child_pid' = child_pid /\ child_timed_out' = child_timed_out
      /\ prev_timed_out' = prev_timed_out /\ stop_soon' = stop_soon /\ timer' = FALSE
      /\ exec_failed' = exec_failed /\ status' = status /\ verdict' = verdict
  BY DEF ServerIsUp, fuzzerVars, Goto
<1>5. Control'
  BY <1>1, <1>2, <1>3, <1>4
  DEF Control, Alone, Agreement, Quiet, GreetingDue, PidDue,
     StatusDue, Pids, Statements, Fits, ServerSees, FuzzerSees, Causes, AlarmKnown,
     ExecFailure, SameTarget, SameServer, SameControl, SameStatus, SameNewest, NewestIs,
     Message, Locations, Basics
<1>6. options' = options /\ server' = server /\ ctl' = ctl /\ st' = st /\ procs' = procs
  BY DEF ServerIsUp, serverVars
<1>7. ServerTypes'
  BY <1>1, <1>6 DEF Types, ServerTypes
<1>8. FuzzerTypes'
  BY <1>1, <1>3, <1>4 DEF Types, FuzzerTypes, Locations, Statuses, Faults, Basics
<1>9. OnlyNewestLives'
  BY <1>1, OthersKept DEF ServerIsUp, serverVars
<1>10. Judged'
  BY <1>1, <1>2, <1>3, <1>4 DEF Judged, Control, Pids
<1> QED
  BY <1>5, <1>7, <1>8, <1>9, <1>10 DEF IInv, Types

LEMMA BeginRunKeeps ==
  ASSUME IInv, BeginRun
  PROVE  IInv'
<1>1. Types /\ Control /\ OnlyNewestLives /\ Judged /\ Basics
  BY BasicsKnown
<1>2. /\ SameTarget /\ SameServer /\ SameControl /\ SameStatus /\ SameNewest
  BY Kept DEF BeginRun, serverVars
<1>3. pc = "idle"
  BY DEF BeginRun
<1>4. run + 1 \in 0 .. MaxRuns
  BY <1>1, MaxRunsAssumption DEF BeginRun, Types, FuzzerTypes
<1>5. /\ pc' = (IF UsesServer THEN "request" ELSE "fork") /\ run' = run + 1
      /\ child_pid' = child_pid /\ child_timed_out' = FALSE
      /\ prev_timed_out' = prev_timed_out /\ stop_soon' = stop_soon /\ timer' = timer
      /\ exec_failed' = FALSE /\ status' = status /\ verdict' = verdict
  BY DEF BeginRun, fuzzerVars, Goto
<1>6. Control'
  BY <1>1, <1>2, <1>3, <1>4, <1>5
  DEF Control, Alone, Agreement, Quiet, GreetingDue,
     PidDue, StatusDue, Pids, Statements, Fits, ServerSees, FuzzerSees, Causes, AlarmKnown,
     ExecFailure, SameTarget, SameServer, SameControl, SameStatus, SameNewest, NewestIs,
     Message, Locations, Basics
<1>7. options' = options /\ server' = server /\ ctl' = ctl /\ st' = st /\ procs' = procs
  BY DEF BeginRun, serverVars
<1>8. ServerTypes'
  BY <1>1, <1>7 DEF Types, ServerTypes
<1>9. FuzzerTypes'
  BY <1>1, <1>3, <1>4, <1>5, <1>4 DEF Types, FuzzerTypes, Locations, Statuses, Faults,
     Basics
<1>10. OnlyNewestLives'
  BY <1>1, OthersKept DEF BeginRun, serverVars
<1>11. Judged'
  BY <1>1, <1>2, <1>3, <1>4, <1>5 DEF Judged
<1> QED
  BY <1>6, <1>8, <1>9, <1>10, <1>11 DEF IInv, Types

LEMMA ForkTargetKeeps ==
  ASSUME IInv, ForkTarget
  PROVE  IInv'
<1>1. Types /\ Control /\ OnlyNewestLives /\ Judged /\ Basics
  BY BasicsKnown
<1>2. /\ SameTarget /\ SameServer /\ SameControl /\ SameStatus
  BY Kept DEF ForkTarget, serverVars
<1>3. pc = "fork"
  BY DEF ForkTarget
<1>4. ~UsesServer /\ (Made > 0 => State = "gone")
  BY <1>1, <1>3 DEF Control, Agreement, FuzzerSees
<1>5. /\ procs' \in Seq(ProcessRecord) /\ OnlyNewestLives'
  BY <1>1, <1>4, Created DEF ForkTarget
<1>6. /\ Made' = Made + 1 /\ State' = "running" /\ By' = "nobody" /\ How' = "exit"
  BY <1>1, <1>4, Created DEF ForkTarget
<1>7. /\ pc' = "pid" /\ run' = run /\ child_pid' = child_pid
      /\ child_timed_out' = child_timed_out /\ prev_timed_out' = prev_timed_out
      /\ stop_soon' = stop_soon /\ timer' = timer /\ exec_failed' = exec_failed
      /\ status' = status /\ verdict' = verdict
  BY DEF ForkTarget, fuzzerVars, Goto
<1>8. Control'
  <2>1. Alone'
    BY <1>1, <1>2, <1>3, <1>4, <1>6, <1>7 DEF Control, Alone, SameTarget, SameServer,
       SameControl, SameStatus, SameNewest, NewestIs, Message, Locations, Basics
  <2>2. Agreement'
    BY <1>1, <1>2, <1>3, <1>4, <1>6, <1>7 DEF Control, Agreement, Quiet, GreetingDue,
       PidDue, StatusDue, SameTarget, SameServer, SameControl, SameStatus, SameNewest,
       NewestIs, Message, Locations, Basics
  <2>3. Pids'
    BY <1>1, <1>2, <1>3, <1>4, <1>6, <1>7 DEF Control, Pids, Statements, Fits,
       SameTarget, SameServer, SameControl, SameStatus, SameNewest, NewestIs, Message,
       Locations, Basics
  <2>4. Statements'
    BY <1>1, <1>2, <1>3, <1>4, <1>6, <1>7 DEF Control, Statements, Fits, SameTarget,
       SameServer, SameControl, SameStatus, SameNewest, NewestIs, Message, Locations, Basics
  <2>5. ServerSees'
    BY <1>1, <1>2, <1>3, <1>4, <1>6, <1>7 DEF Control, ServerSees, Agreement, PidDue,
       Statements, Fits, SameTarget, SameServer, SameControl, SameStatus, SameNewest,
       NewestIs, Message, Locations, Basics
  <2>6. FuzzerSees'
    BY <1>1, <1>2, <1>3, <1>4, <1>6, <1>7 DEF Control, FuzzerSees, SameTarget,
       SameServer, SameControl, SameStatus, SameNewest, NewestIs, Message, Locations, Basics
  <2>7. Causes'
    BY <1>1, <1>2, <1>3, <1>4, <1>6, <1>7 DEF Control, Causes, ServerSees, FuzzerSees,
       Statements, Fits, SameTarget, SameServer, SameControl, SameStatus, SameNewest,
       NewestIs, Message, Locations, Basics
  <2>8. AlarmKnown'
    BY <1>1, <1>2, <1>3, <1>4, <1>6, <1>7 DEF Control, AlarmKnown, Causes, ServerSees,
       Agreement, PidDue, SameTarget, SameServer, SameControl, SameStatus, SameNewest,
       NewestIs, Message, Locations, Basics
  <2>9. ExecFailure'
    BY <1>1, <1>2, <1>3, <1>4, <1>6, <1>7 DEF Control, ExecFailure, FuzzerSees,
       SameTarget, SameServer, SameControl, SameStatus, SameNewest, NewestIs, Message,
       Locations, Basics
  <2> QED
    BY <2>1, <2>2, <2>3, <2>4, <2>5, <2>6, <2>7, <2>8, <2>9 DEF Control
<1>9. options' = options /\ server' = server /\ ctl' = ctl /\ st' = st
  BY DEF ForkTarget, serverVars
<1>10. ServerTypes'
  BY <1>1, <1>5, <1>9 DEF Types, ServerTypes
<1>11. FuzzerTypes'
  BY <1>1, <1>3, <1>4, <1>7 DEF Types, FuzzerTypes, Locations, Statuses, Faults, Basics
<1>12. Judged'
  BY <1>1, <1>2, <1>3, <1>4, <1>6, <1>7 DEF Judged
<1> QED
  BY <1>8, <1>10, <1>11, <1>5, <1>12 DEF IInv, Types

LEMMA ArmKeeps ==
  ASSUME IInv, Arm
  PROVE  IInv'
<1>1. Types /\ Control /\ OnlyNewestLives /\ Judged /\ Basics
  BY BasicsKnown
<1>2. /\ SameTarget /\ SameServer /\ SameControl /\ SameStatus /\ SameNewest
  BY Kept DEF Arm, serverVars
<1>3. pc = "arm"
  BY DEF Arm
<1>4. /\ pc' = "send" /\ run' = run /\ child_pid' = child_pid
      /\ child_timed_out' = child_timed_out /\ prev_timed_out' = prev_timed_out
      /\ stop_soon' = stop_soon /\ timer' = TRUE /\ exec_failed' = exec_failed
      /\ status' = status /\ verdict' = verdict
  BY DEF Arm, fuzzerVars, Goto
<1>5. Control'
  BY <1>1, <1>2, <1>3, <1>4
  DEF Control, Alone, Agreement, Quiet, GreetingDue, PidDue,
     StatusDue, Pids, Statements, Fits, ServerSees, FuzzerSees, Causes, AlarmKnown,
     ExecFailure, SameTarget, SameServer, SameControl, SameStatus, SameNewest, NewestIs,
     Message, Locations, Basics
<1>6. options' = options /\ server' = server /\ ctl' = ctl /\ st' = st /\ procs' = procs
  BY DEF Arm, serverVars
<1>7. ServerTypes'
  BY <1>1, <1>6 DEF Types, ServerTypes
<1>8. FuzzerTypes'
  BY <1>1, <1>3, <1>4 DEF Types, FuzzerTypes, Locations, Statuses, Faults, Basics
<1>9. OnlyNewestLives'
  BY <1>1, OthersKept DEF Arm, serverVars
<1>10. Judged'
  BY <1>1, <1>2, <1>3, <1>4 DEF Judged
<1> QED
  BY <1>5, <1>7, <1>8, <1>9, <1>10 DEF IInv, Types

LEMMA SendOverNetworkKeeps ==
  ASSUME IInv, SendOverNetwork
  PROVE  IInv'
<1>1. Types /\ Control /\ OnlyNewestLives /\ Judged /\ Basics
  BY BasicsKnown
<1>2. /\ SameTarget /\ SameServer /\ SameControl /\ SameStatus /\ SameNewest
  BY Kept DEF SendOverNetwork, serverVars
<1>3. pc = "send"
  BY DEF SendOverNetwork
<1>4. /\ run' = run /\ child_pid' = child_pid /\ child_timed_out' = child_timed_out
      /\ prev_timed_out' = prev_timed_out /\ stop_soon' = stop_soon /\ timer' = timer
      /\ exec_failed' = exec_failed /\ status' = status /\ verdict' = verdict
      /\ pc' \in {"status", "terminate"}
  BY DEF SendOverNetwork, fuzzerVars, Goto
<1>5. Control'
  BY <1>1, <1>2, <1>3, <1>4
  DEF Control, Alone, Agreement, Quiet, GreetingDue, PidDue,
     StatusDue, Pids, Statements, Fits, ServerSees, FuzzerSees, Causes, AlarmKnown,
     ExecFailure, SameTarget, SameServer, SameControl, SameStatus, SameNewest, NewestIs,
     Message, Locations, Basics
<1>6. options' = options /\ server' = server /\ ctl' = ctl /\ st' = st /\ procs' = procs
  BY DEF SendOverNetwork, serverVars
<1>7. ServerTypes'
  BY <1>1, <1>6 DEF Types, ServerTypes
<1>8. FuzzerTypes'
  BY <1>1, <1>3, <1>4 DEF Types, FuzzerTypes, Locations, Statuses, Faults, Basics
<1>9. OnlyNewestLives'
  BY <1>1, OthersKept DEF SendOverNetwork, serverVars
<1>10. Judged'
  BY <1>1, <1>2, <1>3, <1>4 DEF Judged
<1> QED
  BY <1>5, <1>7, <1>8, <1>9, <1>10 DEF IInv, Types

LEMMA WaitUntilGoneKeeps ==
  ASSUME IInv, WaitUntilGone
  PROVE  IInv'
<1>1. Types /\ Control /\ OnlyNewestLives /\ Judged /\ Basics
  BY BasicsKnown
<1>2. /\ SameTarget /\ SameServer /\ SameControl /\ SameStatus /\ SameNewest
  BY Kept DEF WaitUntilGone, serverVars
<1>3. pc = "gone"
  BY DEF WaitUntilGone
<1>4. /\ pc' = "status" /\ run' = run /\ child_pid' = child_pid
      /\ child_timed_out' = child_timed_out /\ prev_timed_out' = prev_timed_out
      /\ stop_soon' = stop_soon /\ timer' = timer /\ exec_failed' = exec_failed
      /\ status' = status /\ verdict' = verdict
  BY DEF WaitUntilGone, fuzzerVars, Goto
<1>5. Control'
  BY <1>1, <1>2, <1>3, <1>4
  DEF Control, Alone, Agreement, Quiet, GreetingDue, PidDue,
     StatusDue, Pids, Statements, Fits, ServerSees, FuzzerSees, Causes, AlarmKnown,
     ExecFailure, SameTarget, SameServer, SameControl, SameStatus, SameNewest, NewestIs,
     Message, Locations, Basics
<1>6. options' = options /\ server' = server /\ ctl' = ctl /\ st' = st /\ procs' = procs
  BY DEF WaitUntilGone, serverVars
<1>7. ServerTypes'
  BY <1>1, <1>6 DEF Types, ServerTypes
<1>8. FuzzerTypes'
  BY <1>1, <1>3, <1>4 DEF Types, FuzzerTypes, Locations, Statuses, Faults, Basics
<1>9. OnlyNewestLives'
  BY <1>1, OthersKept DEF WaitUntilGone, serverVars
<1>10. Judged'
  BY <1>1, <1>2, <1>3, <1>4 DEF Judged
<1> QED
  BY <1>5, <1>7, <1>8, <1>9, <1>10 DEF IInv, Types

LEMMA ClearPidKeeps ==
  ASSUME IInv, ClearPid
  PROVE  IInv'
<1>1. Types /\ Control /\ OnlyNewestLives /\ Judged /\ Basics
  BY BasicsKnown
<1>2. /\ SameTarget /\ SameServer /\ SameControl /\ SameStatus /\ SameNewest
  BY Kept DEF ClearPid, serverVars
<1>3. pc = "clear"
  BY DEF ClearPid
<1>4. /\ pc' = "disarm" /\ run' = run
      /\ child_pid' = (IF status = "STOP" THEN child_pid ELSE 0)
      /\ child_timed_out' = child_timed_out /\ prev_timed_out' = prev_timed_out
      /\ stop_soon' = stop_soon /\ timer' = timer /\ exec_failed' = exec_failed
      /\ status' = status /\ verdict' = verdict
  BY DEF ClearPid, fuzzerVars, Goto
<1>5. Control'
  BY <1>1, <1>2, <1>3, <1>4
  DEF Control, Alone, Agreement, Quiet, GreetingDue, PidDue,
     StatusDue, Pids, Statements, Fits, ServerSees, FuzzerSees, Causes, AlarmKnown,
     ExecFailure, SameTarget, SameServer, SameControl, SameStatus, SameNewest, NewestIs,
     Message, Locations, Basics
<1>6. options' = options /\ server' = server /\ ctl' = ctl /\ st' = st /\ procs' = procs
  BY DEF ClearPid, serverVars
<1>7. ServerTypes'
  BY <1>1, <1>6 DEF Types, ServerTypes
<1>8. FuzzerTypes'
  BY <1>1, <1>3, <1>4 DEF Types, FuzzerTypes, Locations, Statuses, Faults, Basics
<1>9. OnlyNewestLives'
  BY <1>1, OthersKept DEF ClearPid, serverVars
<1>10. Judged'
  BY <1>1, <1>2, <1>3, <1>4 DEF Judged
<1> QED
  BY <1>5, <1>7, <1>8, <1>9, <1>10 DEF IInv, Types

LEMMA DisarmKeeps ==
  ASSUME IInv, Disarm
  PROVE  IInv'
<1>1. Types /\ Control /\ OnlyNewestLives /\ Judged /\ Basics
  BY BasicsKnown
<1>2. /\ SameTarget /\ SameServer /\ SameControl /\ SameStatus /\ SameNewest
  BY Kept DEF Disarm, serverVars
<1>3. pc = "disarm"
  BY DEF Disarm
<1>4. /\ pc' = "verdict" /\ run' = run /\ child_pid' = child_pid
      /\ child_timed_out' = child_timed_out /\ prev_timed_out' = prev_timed_out
      /\ stop_soon' = stop_soon /\ timer' = FALSE /\ exec_failed' = exec_failed
      /\ status' = status /\ verdict' = verdict
  BY DEF Disarm, fuzzerVars, Goto
<1>5. Control'
  BY <1>1, <1>2, <1>3, <1>4
  DEF Control, Alone, Agreement, Quiet, GreetingDue, PidDue,
     StatusDue, Pids, Statements, Fits, ServerSees, FuzzerSees, Causes, AlarmKnown,
     ExecFailure, SameTarget, SameServer, SameControl, SameStatus, SameNewest, NewestIs,
     Message, Locations, Basics
<1>6. options' = options /\ server' = server /\ ctl' = ctl /\ st' = st /\ procs' = procs
  BY DEF Disarm, serverVars
<1>7. ServerTypes'
  BY <1>1, <1>6 DEF Types, ServerTypes
<1>8. FuzzerTypes'
  BY <1>1, <1>3, <1>4 DEF Types, FuzzerTypes, Locations, Statuses, Faults, Basics
<1>9. OnlyNewestLives'
  BY <1>1, OthersKept DEF Disarm, serverVars
<1>10. Judged'
  BY <1>1, <1>2, <1>3, <1>4 DEF Judged
<1> QED
  BY <1>5, <1>7, <1>8, <1>9, <1>10 DEF IInv, Types

LEMMA GiveVerdictKeeps ==
  ASSUME IInv, GiveVerdict
  PROVE  IInv'
<1>1. Types /\ Control /\ OnlyNewestLives /\ Judged /\ Basics
  BY BasicsKnown
<1>2. /\ SameTarget /\ SameServer /\ SameControl /\ SameStatus /\ SameNewest
  BY Kept DEF GiveVerdict, serverVars
<1>3. pc = "verdict"
  BY DEF GiveVerdict
<1>4. /\ pc' = "idle" /\ run' = run /\ child_pid' = child_pid
      /\ child_timed_out' = child_timed_out /\ prev_timed_out' = child_timed_out
      /\ stop_soon' = stop_soon /\ timer' = timer /\ exec_failed' = exec_failed
      /\ status' = status /\ verdict' = Fault
  BY DEF GiveVerdict, fuzzerVars, Goto
<1>5. Control'
  <2>1. Alone'
    BY <1>1, <1>2, <1>3, <1>4 DEF Control, Alone, SameTarget, SameServer, SameControl,
       SameStatus, SameNewest, NewestIs, Message, Locations, Basics
  <2>2. Agreement'
    BY <1>1, <1>2, <1>3, <1>4 DEF Control, Agreement, Quiet, GreetingDue, PidDue,
       StatusDue, SameTarget, SameServer, SameControl, SameStatus, SameNewest, NewestIs,
       Message, Locations, Basics
  <2>3. Pids'
    BY <1>1, <1>2, <1>3, <1>4 DEF Control, Pids, Statements, Fits, SameTarget,
       SameServer, SameControl, SameStatus, SameNewest, NewestIs, Message, Locations, Basics
  <2>4. Statements'
    BY <1>1, <1>2, <1>3, <1>4 DEF Control, Statements, Fits, SameTarget, SameServer,
       SameControl, SameStatus, SameNewest, NewestIs, Message, Locations, Basics
  <2>5. ServerSees'
    BY <1>1, <1>2, <1>3, <1>4 DEF Control, ServerSees, Agreement, PidDue, Statements,
       Fits, SameTarget, SameServer, SameControl, SameStatus, SameNewest, NewestIs, Message,
       Locations, Basics
  <2>6. FuzzerSees'
    BY <1>1, <1>2, <1>3, <1>4 DEF Control, FuzzerSees, SameTarget, SameServer,
       SameControl, SameStatus, SameNewest, NewestIs, Message, Locations, Basics
  <2>7. Causes'
    BY <1>1, <1>2, <1>3, <1>4 DEF Control, Causes, ServerSees, FuzzerSees, Statements,
       Fits, SameTarget, SameServer, SameControl, SameStatus, SameNewest, NewestIs, Message,
       Locations, Basics
  <2>8. AlarmKnown'
    BY <1>1, <1>2, <1>3, <1>4 DEF Control, AlarmKnown, Causes, ServerSees, Agreement,
       PidDue, SameTarget, SameServer, SameControl, SameStatus, SameNewest, NewestIs,
       Message, Locations, Basics
  <2>9. ExecFailure'
    BY <1>1, <1>2, <1>3, <1>4 DEF Control, ExecFailure, FuzzerSees, SameTarget,
       SameServer, SameControl, SameStatus, SameNewest, NewestIs, Message, Locations, Basics
  <2> QED
    BY <2>1, <2>2, <2>3, <2>4, <2>5, <2>6, <2>7, <2>8, <2>9 DEF Control
<1>6. options' = options /\ server' = server /\ ctl' = ctl /\ st' = st /\ procs' = procs
  BY DEF GiveVerdict, serverVars
<1>7. ServerTypes'
  BY <1>1, <1>6 DEF Types, ServerTypes
<1>8. FuzzerTypes'
  BY <1>1, <1>3, <1>4, FaultTyped DEF Types, FuzzerTypes, Locations, Statuses, Faults,
     Basics
<1>9. OnlyNewestLives'
  BY <1>1, OthersKept DEF GiveVerdict, serverVars
<1>10. Judged'
  BY <1>1, <1>2, <1>3, <1>4 DEF Judged, Fault, SameTarget
<1> QED
  BY <1>5, <1>7, <1>8, <1>9, <1>10 DEF IInv, Types

LEMMA HelloReadKeeps ==
  ASSUME IInv, pc = "hello", st # << >>, st' = Tail(st), pc' = "up",
         UNCHANGED <<options, server, ctl, procs, run, child_pid, child_timed_out, prev_timed_out,
                     stop_soon, timer, exec_failed, status, verdict>>
  PROVE  IInv'
<1>1. Types /\ Control /\ OnlyNewestLives /\ Judged /\ Basics
  BY BasicsKnown
<1>2. /\ SameTarget /\ SameServer /\ SameControl /\ SameNewest
  BY Kept DEF serverVars
<1>3. /\ st' \in Seq(Messages)
  BY <1>1, Taken
<1>4. /\ Sent > 0 /\ Sent' = Sent - 1
  BY <1>1, Taken
<1>5. /\ pc' = "up" /\ run' = run /\ child_pid' = child_pid
      /\ child_timed_out' = child_timed_out /\ prev_timed_out' = prev_timed_out
      /\ stop_soon' = stop_soon /\ timer' = timer /\ exec_failed' = exec_failed
      /\ status' = status /\ verdict' = verdict
  OBVIOUS
<1>6. Control'
  BY <1>1, <1>2, <1>4, <1>5
  DEF Control, Alone, Agreement, Quiet, GreetingDue, PidDue,
     StatusDue, Pids, Statements, Fits, ServerSees, FuzzerSees, Causes, AlarmKnown,
     ExecFailure, SameTarget, SameServer, SameControl, SameNewest, NewestIs, Message,
     Locations, Basics
<1>7. options' = options /\ server' = server /\ ctl' = ctl /\ procs' = procs
  OBVIOUS
<1>8. ServerTypes'
  BY <1>1, <1>3, <1>7 DEF Types, ServerTypes
<1>9. FuzzerTypes'
  BY <1>1, <1>5 DEF Types, FuzzerTypes, Locations, Statuses, Faults, Basics
<1>10. OnlyNewestLives'
  BY <1>1, OthersKept DEF serverVars
<1>11. Judged'
  BY <1>1, <1>2, <1>4, <1>5 DEF Judged
<1> QED
  BY <1>6, <1>8, <1>9, <1>10, <1>11 DEF IInv, Types

LEMMA HelloFailsKeeps ==
  ASSUME IInv, pc = "hello", ServerGone, st' = st, pc' = "down",
         UNCHANGED <<options, server, ctl, procs, run, child_pid, child_timed_out, prev_timed_out,
                     stop_soon, timer, exec_failed, status, verdict>>
  PROVE  IInv'
<1>1. Types /\ Control /\ OnlyNewestLives /\ Judged /\ Basics
  BY BasicsKnown
<1>2. /\ SameTarget /\ SameServer /\ SameControl /\ SameStatus /\ SameNewest
  BY Kept DEF serverVars
<1>3. ServerAt = "dead" /\ Sent = 0
  BY <1>1, Sizes DEF ServerGone, ServerAt
<1>4. /\ pc' = "down" /\ run' = run /\ child_pid' = child_pid
      /\ child_timed_out' = child_timed_out /\ prev_timed_out' = prev_timed_out
      /\ stop_soon' = stop_soon /\ timer' = timer /\ exec_failed' = exec_failed
      /\ status' = status /\ verdict' = verdict
  OBVIOUS
<1>5. Control'
  BY <1>1, <1>2, <1>3, <1>4
  DEF Control, Alone, Agreement, Quiet, GreetingDue, PidDue,
     StatusDue, Pids, Statements, Fits, ServerSees, FuzzerSees, Causes, AlarmKnown,
     ExecFailure, SameTarget, SameServer, SameControl, SameStatus, SameNewest, NewestIs,
     Message, Locations, Basics
<1>6. options' = options /\ server' = server /\ ctl' = ctl /\ st' = st /\ procs' = procs
  OBVIOUS
<1>7. ServerTypes'
  BY <1>1, <1>6 DEF Types, ServerTypes
<1>8. FuzzerTypes'
  BY <1>1, <1>3, <1>4 DEF Types, FuzzerTypes, Locations, Statuses, Faults, Basics
<1>9. OnlyNewestLives'
  BY <1>1, OthersKept DEF serverVars
<1>10. Judged'
  BY <1>1, <1>2, <1>3, <1>4 DEF Judged
<1> QED
  BY <1>5, <1>7, <1>8, <1>9, <1>10 DEF IInv, Types

LEMMA StopKeeps ==
  ASSUME IInv, pc = "idle", stop_soon, pc' = "stopped", UNCHANGED <<stop_soon, procs, server>>,
         UNCHANGED <<options, ctl, st, run, child_pid, child_timed_out, prev_timed_out, timer,
                     exec_failed, status, verdict>>
  PROVE  IInv'
<1>1. Types /\ Control /\ OnlyNewestLives /\ Judged /\ Basics
  BY BasicsKnown
<1>2. /\ SameTarget /\ SameServer /\ SameControl /\ SameStatus /\ SameNewest
  BY Kept DEF serverVars
<1>3. /\ pc' = "stopped" /\ run' = run /\ child_pid' = child_pid
      /\ child_timed_out' = child_timed_out /\ prev_timed_out' = prev_timed_out
      /\ stop_soon' = stop_soon /\ timer' = timer /\ exec_failed' = exec_failed
      /\ status' = status /\ verdict' = verdict
  OBVIOUS
<1>4. Control'
  BY <1>1, <1>2, <1>3
  DEF Control, Alone, Agreement, Quiet, GreetingDue, PidDue,
     StatusDue, Pids, Statements, Fits, ServerSees, FuzzerSees, Causes, AlarmKnown,
     ExecFailure, SameTarget, SameServer, SameControl, SameStatus, SameNewest, NewestIs,
     Message, Locations, Basics
<1>5. options' = options /\ server' = server /\ ctl' = ctl /\ st' = st /\ procs' = procs
  OBVIOUS
<1>6. ServerTypes'
  BY <1>1, <1>5 DEF Types, ServerTypes
<1>7. FuzzerTypes'
  BY <1>1, <1>3 DEF Types, FuzzerTypes, Locations, Statuses, Faults, Basics
<1>8. OnlyNewestLives'
  BY <1>1, OthersKept DEF serverVars
<1>9. Judged'
  BY <1>1, <1>2, <1>3 DEF Judged
<1> QED
  BY <1>4, <1>6, <1>7, <1>8, <1>9 DEF IInv, Types

LEMMA StopsItselfKeeps ==
  ASSUME IInv, pc = "idle", ~stop_soon, run > 0, stop_soon' = TRUE, pc' = "stopped",
         procs' = IF child_pid > 0 THEN Killed(child_pid, "stop") ELSE procs,
         server' = IF UsesServer THEN [server EXCEPT !.at = "dead"] ELSE server,
         UNCHANGED <<options, ctl, st, run, child_pid, child_timed_out, prev_timed_out, timer,
                     exec_failed, status, verdict>>
  PROVE  IInv'
<1>1. Types /\ Control /\ OnlyNewestLives /\ Judged /\ Basics
  BY BasicsKnown
<1>2. /\ SameTarget /\ SameControl /\ SameStatus
  BY Kept DEF serverVars
<1>3. child_pid \in {NoPid} \cup 0 .. Made
  BY <1>1 DEF Control, Pids
<1>4. server' \in ServerLocals
  BY <1>1 DEF Types, ServerTypes, ServerLocals
<1>5. /\ ServerAt' = (IF UsesServer THEN "dead" ELSE ServerAt) /\ Kid' = Kid /\ Held' = Held
      /\ Told' = Told
  BY <1>1 DEF Types, ServerTypes, ServerLocals, ServerAt, Kid, Held, Told
<1>6. /\ procs' \in Seq(ProcessRecord) /\ OnlyNewestLives'
  BY <1>1, <1>3, KilledNewest, Kept, OthersKept DEF Basics, Types, ServerTypes
<1>7. /\ (IF child_pid > 0 /\ child_pid = Made /\ State \in {"running", "stopped"} 
          THEN NewestIs("zombie", "stop", "KILL")
          ELSE SameNewest)
  BY <1>1, <1>3, KilledNewest, Kept, OthersKept DEF Basics, Types, ServerTypes
<1>8. /\ pc' = "stopped" /\ run' = run /\ child_pid' = child_pid
      /\ child_timed_out' = child_timed_out /\ prev_timed_out' = prev_timed_out
      /\ stop_soon' = TRUE /\ timer' = timer /\ exec_failed' = exec_failed
      /\ status' = status /\ verdict' = verdict
  OBVIOUS
<1>9. Control'
  BY <1>1, <1>2, <1>3, <1>5, <1>7, <1>8
  DEF Control, Alone, Agreement, Quiet,
     GreetingDue, PidDue, StatusDue, Pids, Statements, Fits, ServerSees, FuzzerSees, Causes,
     AlarmKnown, ExecFailure, SameTarget, SameControl, SameStatus, SameNewest, NewestIs,
     Message, Locations, Basics
<1>10. options' = options /\ ctl' = ctl /\ st' = st
  OBVIOUS
<1>11. ServerTypes'
  BY <1>1, <1>4, <1>6, <1>10 DEF Types, ServerTypes
<1>12. FuzzerTypes'
  BY <1>1, <1>3, <1>8 DEF Types, FuzzerTypes, Locations, Statuses, Faults, Basics
<1>13. Judged'
  BY <1>1, <1>2, <1>3, <1>5, <1>7, <1>8 DEF Judged
<1> QED
  BY <1>9, <1>11, <1>12, <1>6, <1>13 DEF IInv, Types

LEMMA RequestKeeps ==
  ASSUME IInv, pc = "request", server.at # "dead", ctl' = Append(ctl, prev_timed_out), pc' = "pid",
         UNCHANGED <<options, server, st, procs, run, child_pid, child_timed_out, prev_timed_out,
                     stop_soon, timer, exec_failed, status, verdict>>
  PROVE  IInv'
<1>1. Types /\ Control /\ OnlyNewestLives /\ Judged /\ Basics
  BY BasicsKnown
<1>2. /\ SameTarget /\ SameServer /\ SameStatus /\ SameNewest
  BY Kept DEF serverVars
<1>3. UsesServer /\ ServerAt = "wait" /\ Asked = 0 /\ Sent = 0
  BY <1>1 DEF Control, Alone, Agreement, Quiet, ServerAt, Basics
<1>4. /\ ctl' \in Seq(BOOLEAN)
  BY <1>1, <1>3, AppendProperties DEF Types, ServerTypes, FuzzerTypes, Asked, Killing
<1>5. /\ Asked' = 1 /\ Killing' = prev_timed_out
  BY <1>1, <1>3, AppendProperties DEF Types, ServerTypes, FuzzerTypes, Asked, Killing
<1>6. /\ pc' = "pid" /\ run' = run /\ child_pid' = child_pid
      /\ child_timed_out' = child_timed_out /\ prev_timed_out' = prev_timed_out
      /\ stop_soon' = stop_soon /\ timer' = timer /\ exec_failed' = exec_failed
      /\ status' = status /\ verdict' = verdict
  OBVIOUS
<1>7. Control'
  BY <1>1, <1>2, <1>3, <1>5, <1>6
  DEF Control, Alone, Agreement, Quiet, GreetingDue,
     PidDue, StatusDue, Pids, Statements, Fits, ServerSees, FuzzerSees, Causes, AlarmKnown,
     ExecFailure, SameTarget, SameServer, SameStatus, SameNewest, NewestIs, Message,
     Locations, Basics
<1>8. options' = options /\ server' = server /\ st' = st /\ procs' = procs
  OBVIOUS
<1>9. ServerTypes'
  BY <1>1, <1>4, <1>8 DEF Types, ServerTypes
<1>10. FuzzerTypes'
  BY <1>1, <1>3, <1>6 DEF Types, FuzzerTypes, Locations, Statuses, Faults, Basics
<1>11. OnlyNewestLives'
  BY <1>1, OthersKept DEF serverVars
<1>12. Judged'
  BY <1>1, <1>2, <1>3, <1>5, <1>6 DEF Judged
<1> QED
  BY <1>7, <1>9, <1>10, <1>11, <1>12 DEF IInv, Types

LEMMA RequestFailsKeeps ==
  ASSUME IInv, pc = "request", server.at = "dead", GiveUp, ctl' = ctl,
         UNCHANGED <<options, server, st, procs, run, child_pid, child_timed_out, prev_timed_out,
                     stop_soon, timer, exec_failed, status, verdict>>
  PROVE  IInv'
<1>1. Types /\ Control /\ OnlyNewestLives /\ Judged /\ Basics
  BY BasicsKnown
<1>2. /\ SameTarget /\ SameServer /\ SameControl /\ SameStatus /\ SameNewest
  BY Kept DEF serverVars
<1>3. ServerAt = "dead"
  BY DEF ServerAt
<1>4. /\ run' = run /\ child_pid' = child_pid /\ child_timed_out' = child_timed_out
      /\ prev_timed_out' = prev_timed_out /\ stop_soon' = stop_soon /\ timer' = timer
      /\ exec_failed' = exec_failed /\ status' = status /\ verdict' = verdict
      /\ pc' \in {"stopped", "failed"}
  BY DEF GiveUp, Goto
<1>5. Control'
  BY <1>1, <1>2, <1>3, <1>4
  DEF Control, Alone, Agreement, Quiet, GreetingDue, PidDue,
     StatusDue, Pids, Statements, Fits, ServerSees, FuzzerSees, Causes, AlarmKnown,
     ExecFailure, SameTarget, SameServer, SameControl, SameStatus, SameNewest, NewestIs,
     Message, Locations, Basics
<1>6. options' = options /\ server' = server /\ ctl' = ctl /\ st' = st /\ procs' = procs
  OBVIOUS
<1>7. ServerTypes'
  BY <1>1, <1>6 DEF Types, ServerTypes
<1>8. FuzzerTypes'
  BY <1>1, <1>3, <1>4 DEF Types, FuzzerTypes, Locations, Statuses, Faults, Basics
<1>9. OnlyNewestLives'
  BY <1>1, OthersKept DEF serverVars
<1>10. Judged'
  BY <1>1, <1>2, <1>3, <1>4 DEF Judged
<1> QED
  BY <1>5, <1>7, <1>8, <1>9, <1>10 DEF IInv, Types

LEMMA PidReturnedKeeps ==
  ASSUME IInv, pc = "pid", ~UsesServer, child_pid' = Len(procs), pc' = "arm", st' = st,
         UNCHANGED <<options, server, ctl, procs, run, child_timed_out, prev_timed_out, stop_soon,
                     timer, exec_failed, status, verdict>>
  PROVE  IInv'
<1>1. Types /\ Control /\ OnlyNewestLives /\ Judged /\ Basics
  BY BasicsKnown
<1>2. /\ SameTarget /\ SameServer /\ SameControl /\ SameStatus /\ SameNewest
  BY Kept DEF serverVars
<1>3. Made > 0 /\ Len(procs) = Made
  BY <1>1 DEF Control, FuzzerSees, Made
<1>4. /\ pc' = "arm" /\ run' = run /\ child_pid' = Made
      /\ child_timed_out' = child_timed_out /\ prev_timed_out' = prev_timed_out
      /\ stop_soon' = stop_soon /\ timer' = timer /\ exec_failed' = exec_failed
      /\ status' = status /\ verdict' = verdict
  BY <1>3 DEF fuzzerVars, Goto, GiveUp
<1>5. Control'
  BY <1>1, <1>2, <1>3, <1>4
  DEF Control, Alone, Agreement, Quiet, GreetingDue, PidDue,
     StatusDue, Pids, Statements, Fits, ServerSees, FuzzerSees, Causes, AlarmKnown,
     ExecFailure, SameTarget, SameServer, SameControl, SameStatus, SameNewest, NewestIs,
     Message, Locations, Basics
<1>6. options' = options /\ server' = server /\ ctl' = ctl /\ st' = st /\ procs' = procs
  OBVIOUS
<1>7. ServerTypes'
  BY <1>1, <1>6 DEF Types, ServerTypes
<1>8. FuzzerTypes'
  BY <1>1, <1>3, <1>4 DEF Types, FuzzerTypes, Locations, Statuses, Faults, Basics
<1>9. OnlyNewestLives'
  BY <1>1, OthersKept DEF serverVars
<1>10. Judged'
  BY <1>1, <1>2, <1>3, <1>4 DEF Judged
<1> QED
  BY <1>5, <1>7, <1>8, <1>9, <1>10 DEF IInv, Types

LEMMA PidReadKeeps ==
  ASSUME IInv, pc = "pid", UsesServer, st # << >>, child_pid' = Head(st).val, st' = Tail(st),
         pc' = "arm",
         UNCHANGED <<options, server, ctl, procs, run, child_timed_out, prev_timed_out, stop_soon,
                     timer, exec_failed, status, verdict>>
  PROVE  IInv'
<1>1. Types /\ Control /\ OnlyNewestLives /\ Judged /\ Basics
  BY BasicsKnown
<1>2. /\ SameTarget /\ SameServer /\ SameControl /\ SameNewest
  BY Kept DEF serverVars
<1>3. Sent > 0 /\ Head(st) = First
  BY <1>1, Taken
<1>4. Sent > 0
  BY <1>3
<1>5. First.val = Made /\ Made > 0
  BY <1>1, <1>4 DEF Control, Agreement, PidDue, Message
<1>6. /\ st' \in Seq(Messages)
  BY <1>1, Taken
<1>7. /\ Sent' = Sent - 1 /\ (Sent > 1 => First' = Second)
  BY <1>1, Taken
<1>8. /\ pc' = "arm" /\ run' = run /\ child_pid' = Made
      /\ child_timed_out' = child_timed_out /\ prev_timed_out' = prev_timed_out
      /\ stop_soon' = stop_soon /\ timer' = timer /\ exec_failed' = exec_failed
      /\ status' = status /\ verdict' = verdict
  BY <1>3, <1>4, <1>5 DEF fuzzerVars, Goto, GiveUp
<1>9. /\ Asked = 0 /\ Sent \in {1, 2} /\ Kid = Made /\ ServerAt \in {"waitpid", "status", "wait", "dead"}
      /\ ServerAt = "wait" => Sent = 2
      /\ ServerAt \in {"waitpid", "status"} => Sent = 1
      /\ Sent = 2 => Second = Message("status", Told)
  BY <1>1, <1>4 DEF Control, Agreement, PidDue, Basics
<1>10. Control'
  <2>1. Alone'
    BY <1>1, <1>2, <1>4, <1>5, <1>7, <1>8, <1>9 DEF Control, Alone, SameTarget,
       SameServer, SameControl, SameNewest, NewestIs, Message, Locations, Basics
  <2>2. Agreement'
    BY <1>2, <1>5, <1>7, <1>8, <1>9, <1>1 DEF Agreement, Quiet, GreetingDue, PidDue,
       StatusDue, SameServer, SameControl, SameNewest, SameTarget, Control
  <2>3. Pids'
    BY <1>1, <1>2, <1>4, <1>5, <1>7, <1>8, <1>9 DEF Control, Pids, Statements, Fits,
       SameTarget, SameServer, SameControl, SameNewest, NewestIs, Message, Locations, Basics
  <2>4. Statements'
    BY <1>1, <1>2, <1>4, <1>5, <1>7, <1>8, <1>9 DEF Control, Statements, Fits,
       SameTarget, SameServer, SameControl, SameNewest, NewestIs, Message, Locations, Basics
  <2>5. ServerSees'
    BY <1>1, <1>2, <1>4, <1>5, <1>7, <1>8, <1>9 DEF Control, ServerSees, Agreement,
       PidDue, Statements, Fits, SameTarget, SameServer, SameControl, SameNewest, NewestIs,
       Message, Locations, Basics
  <2>6. FuzzerSees'
    BY <1>1, <1>2, <1>4, <1>5, <1>7, <1>8, <1>9 DEF Control, FuzzerSees, SameTarget,
       SameServer, SameControl, SameNewest, NewestIs, Message, Locations, Basics
  <2>7. Causes'
    BY <1>1, <1>2, <1>4, <1>5, <1>7, <1>8, <1>9 DEF Control, Causes, ServerSees,
       FuzzerSees, Statements, Fits, SameTarget, SameServer, SameControl, SameNewest,
       NewestIs, Message, Locations, Basics
  <2>8. AlarmKnown'
    BY <1>1, <1>2, <1>4, <1>5, <1>7, <1>8, <1>9 DEF Control, AlarmKnown, Causes,
       ServerSees, Agreement, PidDue, SameTarget, SameServer, SameControl, SameNewest,
       NewestIs, Message, Locations, Basics
  <2>9. ExecFailure'
    BY <1>1, <1>2, <1>4, <1>5, <1>7, <1>8, <1>9 DEF Control, ExecFailure, FuzzerSees,
       SameTarget, SameServer, SameControl, SameNewest, NewestIs, Message, Locations, Basics
  <2> QED
    BY <2>1, <2>2, <2>3, <2>4, <2>5, <2>6, <2>7, <2>8, <2>9 DEF Control
<1>11. options' = options /\ server' = server /\ ctl' = ctl /\ procs' = procs
  OBVIOUS
<1>12. ServerTypes'
  BY <1>1, <1>6, <1>11 DEF Types, ServerTypes
<1>13. FuzzerTypes'
  BY <1>1, <1>4, <1>5, <1>8 DEF Types, FuzzerTypes, Locations, Statuses, Faults, Basics
<1>14. OnlyNewestLives'
  BY <1>1, OthersKept DEF serverVars
<1>15. Judged'
  BY <1>1, <1>2, <1>3, <1>4, <1>5, <1>7, <1>8, <1>9 DEF Judged
<1> QED
  BY <1>10, <1>12, <1>13, <1>14, <1>15 DEF IInv, Types

LEMMA PidFailsKeeps ==
  ASSUME IInv, pc = "pid", UsesServer, ServerGone, GiveUp, UNCHANGED <<child_pid, st>>,
         UNCHANGED <<options, server, ctl, procs, run, child_timed_out, prev_timed_out, stop_soon,
                     timer, exec_failed, status, verdict>>
  PROVE  IInv'
<1>1. Types /\ Control /\ OnlyNewestLives /\ Judged /\ Basics
  BY BasicsKnown
<1>2. /\ SameTarget /\ SameServer /\ SameControl /\ SameStatus /\ SameNewest
  BY Kept DEF serverVars
<1>3. ServerAt = "dead" /\ Sent = 0
  BY <1>1, Sizes DEF ServerGone, ServerAt
<1>4. /\ run' = run /\ child_pid' = child_pid /\ child_timed_out' = child_timed_out
      /\ prev_timed_out' = prev_timed_out /\ stop_soon' = stop_soon /\ timer' = timer
      /\ exec_failed' = exec_failed /\ status' = status /\ verdict' = verdict
      /\ pc' \in {"stopped", "failed"}
  BY DEF GiveUp, Goto
<1>5. Control'
  BY <1>1, <1>2, <1>3, <1>4
  DEF Control, Alone, Agreement, Quiet, GreetingDue, PidDue,
     StatusDue, Pids, Statements, Fits, ServerSees, FuzzerSees, Causes, AlarmKnown,
     ExecFailure, SameTarget, SameServer, SameControl, SameStatus, SameNewest, NewestIs,
     Message, Locations, Basics
<1>6. options' = options /\ server' = server /\ ctl' = ctl /\ st' = st /\ procs' = procs
  OBVIOUS
<1>7. ServerTypes'
  BY <1>1, <1>6 DEF Types, ServerTypes
<1>8. FuzzerTypes'
  BY <1>1, <1>3, <1>4 DEF Types, FuzzerTypes, Locations, Statuses, Faults, Basics
<1>9. OnlyNewestLives'
  BY <1>1, OthersKept DEF serverVars
<1>10. Judged'
  BY <1>1, <1>2, <1>3, <1>4 DEF Judged
<1> QED
  BY <1>5, <1>7, <1>8, <1>9, <1>10 DEF IInv, Types

LEMMA TermSentKeeps ==
  ASSUME IInv, pc = "terminate", child_pid \in DOMAIN procs, procs[child_pid].state = "running",
         NEW how \in {"TERM", "exit"}, procs' = Ended(procs, child_pid, how, "term"), pc' = "gone",
         UNCHANGED <<options, server, ctl, st, run, child_pid, child_timed_out, prev_timed_out,
                     stop_soon, timer, exec_failed, status, verdict>>
  PROVE  IInv'
<1>1. Types /\ Control /\ OnlyNewestLives /\ Judged /\ Basics
  BY BasicsKnown
<1>2. /\ SameTarget /\ SameServer /\ SameControl /\ SameStatus
  BY Kept DEF serverVars
<1>3. child_pid = Made /\ Made > 0 /\ State = "running"
  BY <1>1, TheLivingIsNewest
<1>4. /\ procs' \in Seq(ProcessRecord) /\ OnlyNewestLives'
  BY <1>1, <1>3, NewestEnds DEF Statuses
<1>5. /\ NewestIs("zombie", "term", how)
  BY <1>1, <1>3, NewestEnds DEF Statuses
<1>6. /\ pc' = "gone" /\ run' = run /\ child_pid' = child_pid
      /\ child_timed_out' = child_timed_out /\ prev_timed_out' = prev_timed_out
      /\ stop_soon' = stop_soon /\ timer' = timer /\ exec_failed' = exec_failed
      /\ status' = status /\ verdict' = verdict
  OBVIOUS
<1>7. Control'
  BY <1>1, <1>2, <1>3, <1>5, <1>6
  DEF Control, Alone, Agreement, Quiet, GreetingDue,
     PidDue, StatusDue, Pids, Statements, Fits, ServerSees, FuzzerSees, Causes, AlarmKnown,
     ExecFailure, SameTarget, SameServer, SameControl, SameStatus, SameNewest, NewestIs,
     Message, Locations, Basics
<1>8. options' = options /\ server' = server /\ ctl' = ctl /\ st' = st
  OBVIOUS
<1>9. ServerTypes'
  BY <1>1, <1>4, <1>8 DEF Types, ServerTypes
<1>10. FuzzerTypes'
  BY <1>1, <1>3, <1>6 DEF Types, FuzzerTypes, Locations, Statuses, Faults, Basics
<1>11. Judged'
  BY <1>1, <1>2, <1>3, <1>5, <1>6 DEF Judged
<1> QED
  BY <1>7, <1>9, <1>10, <1>4, <1>11 DEF IInv, Types

LEMMA TermIgnoredKeeps ==
  ASSUME IInv, pc = "terminate", procs' = procs, pc' = "gone",
         UNCHANGED <<options, server, ctl, st, run, child_pid, child_timed_out, prev_timed_out,
                     stop_soon, timer, exec_failed, status, verdict>>
  PROVE  IInv'
<1>1. Types /\ Control /\ OnlyNewestLives /\ Judged /\ Basics
  BY BasicsKnown
<1>2. /\ SameTarget /\ SameServer /\ SameControl /\ SameStatus /\ SameNewest
  BY Kept DEF serverVars
<1>3. /\ pc' = "gone" /\ run' = run /\ child_pid' = child_pid
      /\ child_timed_out' = child_timed_out /\ prev_timed_out' = prev_timed_out
      /\ stop_soon' = stop_soon /\ timer' = timer /\ exec_failed' = exec_failed
      /\ status' = status /\ verdict' = verdict
  OBVIOUS
<1>4. Control'
  BY <1>1, <1>2, <1>3
  DEF Control, Alone, Agreement, Quiet, GreetingDue, PidDue,
     StatusDue, Pids, Statements, Fits, ServerSees, FuzzerSees, Causes, AlarmKnown,
     ExecFailure, SameTarget, SameServer, SameControl, SameStatus, SameNewest, NewestIs,
     Message, Locations, Basics
<1>5. options' = options /\ server' = server /\ ctl' = ctl /\ st' = st /\ procs' = procs
  OBVIOUS
<1>6. ServerTypes'
  BY <1>1, <1>5 DEF Types, ServerTypes
<1>7. FuzzerTypes'
  BY <1>1, <1>3 DEF Types, FuzzerTypes, Locations, Statuses, Faults, Basics
<1>8. OnlyNewestLives'
  BY <1>1, OthersKept DEF serverVars
<1>9. Judged'
  BY <1>1, <1>2, <1>3 DEF Judged
<1> QED
  BY <1>4, <1>6, <1>7, <1>8, <1>9 DEF IInv, Types

LEMMA StatusReadKeeps ==
  ASSUME IInv, pc = "status", UsesServer, st # << >>, status' = Head(st).val, st' = Tail(st),
         pc' = "clear", procs' = procs,
         UNCHANGED <<options, server, ctl, run, child_pid, child_timed_out, prev_timed_out,
                     stop_soon, timer, exec_failed, verdict>>
  PROVE  IInv'
<1>1. Types /\ Control /\ OnlyNewestLives /\ Judged /\ Basics
  BY BasicsKnown
<1>2. /\ SameTarget /\ SameServer /\ SameControl /\ SameNewest
  BY Kept DEF serverVars
<1>3. Sent > 0 /\ Head(st) = First
  BY <1>1, Taken
<1>4. Sent > 0
  BY <1>3
<1>5. Sent = 1 /\ First.val = Told
  BY <1>1, <1>4 DEF Control, Agreement, StatusDue, Message, Basics
<1>6. Told \in Statuses
  BY <1>1 DEF Types, ServerTypes, ServerLocals, Told
<1>7. /\ st' \in Seq(Messages)
  BY <1>1, <1>5, Taken
<1>8. /\ Sent' = 0
  BY <1>1, <1>5, Taken
<1>9. /\ pc' = "clear" /\ run' = run /\ child_pid' = child_pid
      /\ child_timed_out' = child_timed_out /\ prev_timed_out' = prev_timed_out
      /\ stop_soon' = stop_soon /\ timer' = timer /\ exec_failed' = exec_failed
      /\ status' = Told /\ verdict' = verdict
  BY <1>3, <1>4, <1>5, <1>6 DEF fuzzerVars, Goto, GiveUp
<1>10. Control'
  BY <1>1, <1>2, <1>4, <1>5, <1>6, <1>8, <1>9
  DEF Control, Alone, Agreement, Quiet,
     GreetingDue, PidDue, StatusDue, Pids, Statements, Fits, ServerSees, FuzzerSees, Causes,
     AlarmKnown, ExecFailure, SameTarget, SameServer, SameControl, SameNewest, NewestIs,
     Message, Locations, Basics
<1>11. options' = options /\ server' = server /\ ctl' = ctl /\ procs' = procs
  OBVIOUS
<1>12. ServerTypes'
  BY <1>1, <1>7, <1>11 DEF Types, ServerTypes
<1>13. FuzzerTypes'
  BY <1>1, <1>4, <1>5, <1>6, <1>9, <1>6 DEF Types, FuzzerTypes, Locations, Statuses,
     Faults, Basics
<1>14. OnlyNewestLives'
  BY <1>1, OthersKept DEF serverVars
<1>15. Judged'
  BY <1>1, <1>2, <1>3, <1>4, <1>5, <1>6, <1>8, <1>9 DEF Judged
<1> QED
  BY <1>10, <1>12, <1>13, <1>14, <1>15 DEF IInv, Types

LEMMA StatusFailsKeeps ==
  ASSUME IInv, pc = "status", UsesServer, ServerGone, GiveUp, UNCHANGED <<status, st, procs>>,
         UNCHANGED <<options, server, ctl, run, child_pid, child_timed_out, prev_timed_out,
                     stop_soon, timer, exec_failed, verdict>>
  PROVE  IInv'
<1>1. Types /\ Control /\ OnlyNewestLives /\ Judged /\ Basics
  BY BasicsKnown
<1>2. /\ SameTarget /\ SameServer /\ SameControl /\ SameStatus /\ SameNewest
  BY Kept DEF serverVars
<1>3. ServerAt = "dead" /\ Sent = 0
  BY <1>1, Sizes DEF ServerGone, ServerAt
<1>4. /\ run' = run /\ child_pid' = child_pid /\ child_timed_out' = child_timed_out
      /\ prev_timed_out' = prev_timed_out /\ stop_soon' = stop_soon /\ timer' = timer
      /\ exec_failed' = exec_failed /\ status' = status /\ verdict' = verdict
      /\ pc' \in {"stopped", "failed"}
  BY DEF GiveUp, Goto
<1>5. Control'
  BY <1>1, <1>2, <1>3, <1>4
  DEF Control, Alone, Agreement, Quiet, GreetingDue, PidDue,
     StatusDue, Pids, Statements, Fits, ServerSees, FuzzerSees, Causes, AlarmKnown,
     ExecFailure, SameTarget, SameServer, SameControl, SameStatus, SameNewest, NewestIs,
     Message, Locations, Basics
<1>6. options' = options /\ server' = server /\ ctl' = ctl /\ st' = st /\ procs' = procs
  OBVIOUS
<1>7. ServerTypes'
  BY <1>1, <1>6 DEF Types, ServerTypes
<1>8. FuzzerTypes'
  BY <1>1, <1>3, <1>4 DEF Types, FuzzerTypes, Locations, Statuses, Faults, Basics
<1>9. OnlyNewestLives'
  BY <1>1, OthersKept DEF serverVars
<1>10. Judged'
  BY <1>1, <1>2, <1>3, <1>4 DEF Judged
<1> QED
  BY <1>5, <1>7, <1>8, <1>9, <1>10 DEF IInv, Types

LEMMA StatusWaitedForKeeps ==
  ASSUME IInv, pc = "status", ~UsesServer, procs[child_pid].state = "zombie",
         status' = procs[child_pid].status, procs' = Reaped(child_pid), pc' = "clear", st' = st,
         UNCHANGED <<options, server, ctl, run, child_pid, child_timed_out, prev_timed_out,
                     stop_soon, timer, exec_failed, verdict>>
  PROVE  IInv'
<1>1. Types /\ Control /\ OnlyNewestLives /\ Judged /\ Basics
  BY BasicsKnown
<1>2. /\ SameTarget /\ SameServer /\ SameControl /\ SameStatus
  BY Kept DEF serverVars
<1>3. child_pid = Made /\ Made > 0
  BY <1>1 DEF Control, Pids
<1>4. State = "zombie" /\ procs[child_pid].status = How
  BY <1>3 DEF State, How, Newest
<1>5. How \in Statuses /\ How # "STOP"
  BY <1>1, <1>3, <1>4, NewestTyped DEF Control, Causes
<1>6. /\ procs' \in Seq(ProcessRecord) /\ OnlyNewestLives'
  BY <1>1, <1>3, NewestGoes DEF Reaped
<1>7. /\ NewestIs("gone", By, How)
  BY <1>1, <1>3, NewestGoes DEF Reaped
<1>8. /\ pc' = "clear" /\ run' = run /\ child_pid' = child_pid
      /\ child_timed_out' = child_timed_out /\ prev_timed_out' = prev_timed_out
      /\ stop_soon' = stop_soon /\ timer' = timer /\ exec_failed' = exec_failed
      /\ status' = How /\ verdict' = verdict
  BY <1>3, <1>4, <1>5 DEF fuzzerVars, Goto, GiveUp
<1>9. Control'
  BY <1>1, <1>2, <1>3, <1>4, <1>5, <1>7, <1>8
  DEF Control, Alone, Agreement, Quiet,
     GreetingDue, PidDue, StatusDue, Pids, Statements, Fits, ServerSees, FuzzerSees, Causes,
     AlarmKnown, ExecFailure, SameTarget, SameServer, SameControl, SameStatus, SameNewest,
     NewestIs, Message, Locations, Basics
<1>10. options' = options /\ server' = server /\ ctl' = ctl /\ st' = st
  OBVIOUS
<1>11. ServerTypes'
  BY <1>1, <1>6, <1>10 DEF Types, ServerTypes
<1>12. FuzzerTypes'
  BY <1>1, <1>3, <1>4, <1>5, <1>8, <1>5 DEF Types, FuzzerTypes, Locations, Statuses,
     Faults, Basics
<1>13. Judged'
  BY <1>1, <1>2, <1>3, <1>4, <1>5, <1>7, <1>8 DEF Judged
<1> QED
  BY <1>9, <1>11, <1>12, <1>6, <1>13 DEF IInv, Types

(* The child before it executes the target, and the signals *)

LEMMA ExecFailsKeeps ==
  ASSUME IInv, ExecFails
  PROVE  IInv'
<1>1. Types /\ Control /\ OnlyNewestLives /\ Judged /\ Basics
  BY BasicsKnown
<1>2. /\ SameTarget /\ SameServer /\ SameControl /\ SameStatus
  BY Kept DEF ExecFails, serverVars
<1>3. ~UsesServer /\ procs # << >> /\ procs[Len(procs)] = NewProcess
  BY DEF ExecFails, Last
<1>4. ~UsesServer
  BY <1>3
<1>5. Made > 0 /\ State = "running"
  BY <1>1, <1>3, Sizes DEF State, Newest, Made, NewProcess, Basics
<1>6. /\ procs' \in Seq(ProcessRecord) /\ OnlyNewestLives'
  BY <1>1, <1>5, NewestEnds DEF ExecFails, Made, Statuses
<1>7. /\ NewestIs("zombie", "itself", "exit")
  BY <1>1, <1>5, NewestEnds DEF ExecFails, Made, Statuses
<1>8. /\ pc' = pc /\ run' = run /\ child_pid' = child_pid
      /\ child_timed_out' = child_timed_out /\ prev_timed_out' = prev_timed_out
      /\ stop_soon' = stop_soon /\ timer' = timer /\ exec_failed' = TRUE /\ status' = status
      /\ verdict' = verdict
  BY DEF ExecFails, fuzzerVars, Goto
<1>9. Control'
  BY <1>1, <1>2, <1>4, <1>5, <1>7, <1>8
  DEF Control, Alone, Agreement, Quiet,
     GreetingDue, PidDue, StatusDue, Pids, Statements, Fits, ServerSees, FuzzerSees, Causes,
     AlarmKnown, ExecFailure, SameTarget, SameServer, SameControl, SameStatus, SameNewest,
     NewestIs, Message, Locations, Basics
<1>10. options' = options /\ server' = server /\ ctl' = ctl /\ st' = st
  BY DEF ExecFails, serverVars
<1>11. ServerTypes'
  BY <1>1, <1>6, <1>10 DEF Types, ServerTypes
<1>12. FuzzerTypes'
  BY <1>1, <1>4, <1>5, <1>8 DEF Types, FuzzerTypes, Locations, Statuses, Faults, Basics
<1>13. Judged'
  BY <1>1, <1>2, <1>3, <1>4, <1>5, <1>7, <1>8 DEF Judged, Control, Statements, Fits, Pids
<1> QED
  BY <1>9, <1>11, <1>12, <1>6, <1>13 DEF IInv, Types

LEMMA AlarmKillsKeeps ==
  ASSUME IInv, timer, timer' = FALSE, child_pid > 0, child_timed_out' = TRUE,
         procs' = Killed(child_pid, "alarm"), server' = server,
         UNCHANGED <<options, ctl, st, pc, run, child_pid, prev_timed_out, stop_soon, exec_failed,
                     status, verdict>>
  PROVE  IInv'
<1>1. Types /\ Control /\ OnlyNewestLives /\ Judged /\ Basics
  BY BasicsKnown
<1>2. /\ SameTarget /\ SameServer /\ SameControl /\ SameStatus
  BY Kept DEF serverVars
<1>3. child_pid \in 1 .. Made
  BY <1>1 DEF Control, Pids, Basics
<1>4. pc \in {"hello", "up", "down", "send", "terminate", "gone", "status", "clear", "disarm"}
            \cup Over
  BY <1>1 DEF Control, Pids
<1>5. UsesServer => ServerAt # "fork"
  BY <1>1, <1>4 DEF Control, Agreement, Quiet, GreetingDue, StatusDue
<1>6. Made > 0 /\ By = "itself" => State \notin {"running", "stopped"}
  BY <1>1 DEF Control, Causes
<1>7. /\ procs' \in Seq(ProcessRecord) /\ OnlyNewestLives'
  BY <1>1, <1>3, KilledNewest
<1>8. /\ (IF child_pid = Made /\ State \in {"running", "stopped"} 
          THEN NewestIs("zombie", "alarm", "KILL")
          ELSE SameNewest)
  BY <1>1, <1>3, KilledNewest
<1>9. /\ pc' = pc /\ run' = run /\ child_pid' = child_pid /\ child_timed_out' = TRUE
      /\ prev_timed_out' = prev_timed_out /\ stop_soon' = stop_soon /\ timer' = FALSE
      /\ exec_failed' = exec_failed /\ status' = status /\ verdict' = verdict
  OBVIOUS
<1>10. Control'
  <2>1. Alone'
    BY <1>1, <1>2, <1>3, <1>4, <1>5, <1>6, <1>8, <1>9 DEF Control, Alone, SameTarget,
       SameServer, SameControl, SameStatus, SameNewest, NewestIs, Message, Locations, Basics
  <2>2. Agreement'
    BY <1>1, <1>2, <1>3, <1>4, <1>5, <1>6, <1>8, <1>9 DEF Control, Agreement, Quiet,
       GreetingDue, PidDue, StatusDue, SameTarget, SameServer, SameControl, SameStatus,
       SameNewest, NewestIs, Message, Locations, Basics
  <2>3. Pids'
    BY <1>1, <1>2, <1>3, <1>4, <1>5, <1>6, <1>8, <1>9 DEF Control, Pids, Statements,
       Fits, SameTarget, SameServer, SameControl, SameStatus, SameNewest, NewestIs, Message,
       Locations, Basics
  <2>4. Statements'
    BY <1>1, <1>2, <1>3, <1>4, <1>5, <1>6, <1>8, <1>9 DEF Control, Statements, Fits,
       SameTarget, SameServer, SameControl, SameStatus, SameNewest, NewestIs, Message,
       Locations, Basics
  <2>5. ServerSees'
    BY <1>1, <1>2, <1>3, <1>4, <1>5, <1>6, <1>8, <1>9 DEF Control, ServerSees, Agreement,
       PidDue, Statements, Fits, SameTarget, SameServer, SameControl, SameStatus,
       SameNewest, NewestIs, Message, Locations, Basics
  <2>6. FuzzerSees'
    BY <1>1, <1>2, <1>3, <1>4, <1>5, <1>6, <1>8, <1>9 DEF Control, FuzzerSees,
       SameTarget, SameServer, SameControl, SameStatus, SameNewest, NewestIs, Message,
       Locations, Basics
  <2>7. Causes'
    BY <1>1, <1>2, <1>3, <1>4, <1>5, <1>6, <1>8, <1>9 DEF Control, Causes, ServerSees,
       FuzzerSees, Statements, Fits, SameTarget, SameServer, SameControl, SameStatus,
       SameNewest, NewestIs, Message, Locations, Basics
  <2>8. AlarmKnown'
    BY <1>1, <1>2, <1>3, <1>4, <1>5, <1>6, <1>8, <1>9 DEF Control, AlarmKnown, Causes,
       ServerSees, Agreement, PidDue, SameTarget, SameServer, SameControl, SameStatus,
       SameNewest, NewestIs, Message, Locations, Basics
  <2>9. ExecFailure'
    BY <1>1, <1>2, <1>3, <1>4, <1>5, <1>6, <1>8, <1>9 DEF Control, ExecFailure,
       FuzzerSees, SameTarget, SameServer, SameControl, SameStatus, SameNewest, NewestIs,
       Message, Locations, Basics
  <2> QED
    BY <2>1, <2>2, <2>3, <2>4, <2>5, <2>6, <2>7, <2>8, <2>9 DEF Control
<1>11. options' = options /\ server' = server /\ ctl' = ctl /\ st' = st
  OBVIOUS
<1>12. ServerTypes'
  BY <1>1, <1>7, <1>11 DEF Types, ServerTypes
<1>13. FuzzerTypes'
  BY <1>1, <1>9 DEF Types, FuzzerTypes, Locations, Statuses, Faults, Basics
<1>14. Judged'
  BY <1>1, <1>2, <1>3, <1>4, <1>5, <1>6, <1>8, <1>9 DEF Judged
<1> QED
  BY <1>10, <1>12, <1>13, <1>7, <1>14 DEF IInv, Types

LEMMA AlarmEndsServerKeeps ==
  ASSUME IInv, timer, timer' = FALSE, child_pid = NoPid, server.at # "absent",
         child_timed_out' = TRUE,
         server' = [server EXCEPT !.at = "dead"], procs' = procs,
         UNCHANGED <<options, ctl, st, pc, run, child_pid, prev_timed_out, stop_soon, exec_failed,
                     status, verdict>>
  PROVE  IInv'
<1>1. Types /\ Control /\ OnlyNewestLives /\ Judged /\ Basics
  BY BasicsKnown
<1>2. /\ SameTarget /\ SameControl /\ SameStatus /\ SameNewest
  BY Kept DEF serverVars
<1>3. ServerAt # "absent"
  BY DEF ServerAt
<1>4. pc \in {"hello", "up", "down"} \cup Over
  BY <1>1 DEF Control, Pids, Basics
<1>5. server' \in ServerLocals
  BY <1>1 DEF Types, ServerTypes, ServerLocals
<1>6. /\ ServerAt' = "dead" /\ Kid' = Kid /\ Held' = Held /\ Told' = Told
  BY <1>1 DEF Types, ServerTypes, ServerLocals, ServerAt, Kid, Held, Told
<1>7. /\ pc' = pc /\ run' = run /\ child_pid' = child_pid /\ child_timed_out' = TRUE
      /\ prev_timed_out' = prev_timed_out /\ stop_soon' = stop_soon /\ timer' = FALSE
      /\ exec_failed' = exec_failed /\ status' = status /\ verdict' = verdict
  OBVIOUS
<1>8. Control'
  <2>1. Alone'
    BY <1>1, <1>2, <1>3, <1>4, <1>6, <1>7 DEF Control, Alone, SameTarget, SameControl,
       SameStatus, SameNewest, NewestIs, Message, Locations, Basics
  <2>2. Agreement'
    BY <1>1, <1>2, <1>3, <1>4, <1>6, <1>7 DEF Control, Agreement, Quiet, GreetingDue,
       PidDue, StatusDue, SameTarget, SameControl, SameStatus, SameNewest, NewestIs,
       Message, Locations, Basics
  <2>3. Pids'
    BY <1>1, <1>2, <1>3, <1>4, <1>6, <1>7 DEF Control, Pids, Statements, Fits,
       SameTarget, SameControl, SameStatus, SameNewest, NewestIs, Message, Locations, Basics
  <2>4. Statements'
    BY <1>1, <1>2, <1>3, <1>4, <1>6, <1>7 DEF Control, Statements, Fits, SameTarget,
       SameControl, SameStatus, SameNewest, NewestIs, Message, Locations, Basics
  <2>5. ServerSees'
    BY <1>1, <1>2, <1>3, <1>4, <1>6, <1>7 DEF Control, ServerSees, Agreement, PidDue,
       Statements, Fits, SameTarget, SameControl, SameStatus, SameNewest, NewestIs, Message,
       Locations, Basics
  <2>6. FuzzerSees'
    BY <1>1, <1>2, <1>3, <1>4, <1>6, <1>7 DEF Control, FuzzerSees, SameTarget,
       SameControl, SameStatus, SameNewest, NewestIs, Message, Locations, Basics
  <2>7. Causes'
    BY <1>1, <1>2, <1>3, <1>4, <1>6, <1>7 DEF Control, Causes, ServerSees, FuzzerSees,
       Statements, Fits, SameTarget, SameControl, SameStatus, SameNewest, NewestIs, Message,
       Locations, Basics
  <2>8. AlarmKnown'
    BY <1>1, <1>2, <1>3, <1>4, <1>6, <1>7 DEF Control, AlarmKnown, Causes, ServerSees,
       Agreement, PidDue, SameTarget, SameControl, SameStatus, SameNewest, NewestIs,
       Message, Locations, Basics
  <2>9. ExecFailure'
    BY <1>1, <1>2, <1>3, <1>4, <1>6, <1>7 DEF Control, ExecFailure, FuzzerSees,
       SameTarget, SameControl, SameStatus, SameNewest, NewestIs, Message, Locations, Basics
  <2> QED
    BY <2>1, <2>2, <2>3, <2>4, <2>5, <2>6, <2>7, <2>8, <2>9 DEF Control
<1>9. options' = options /\ ctl' = ctl /\ st' = st /\ procs' = procs
  OBVIOUS
<1>10. ServerTypes'
  BY <1>1, <1>5, <1>9 DEF Types, ServerTypes
<1>11. FuzzerTypes'
  BY <1>1, <1>3, <1>4, <1>7 DEF Types, FuzzerTypes, Locations, Statuses, Faults, Basics
<1>12. OnlyNewestLives'
  BY <1>1, OthersKept DEF serverVars
<1>13. Judged'
  BY <1>1, <1>2, <1>3, <1>4, <1>6, <1>7 DEF Judged
<1> QED
  BY <1>8, <1>10, <1>11, <1>12, <1>13 DEF IInv, Types

LEMMA AlarmLateKeeps ==
  ASSUME IInv, timer, timer' = FALSE, child_pid = 0, UNCHANGED <<child_timed_out, procs, server>>,
         UNCHANGED <<options, ctl, st, pc, run, child_pid, prev_timed_out, stop_soon, exec_failed,
                     status, verdict>>
  PROVE  IInv'
<1>1. Types /\ Control /\ OnlyNewestLives /\ Judged /\ Basics
  BY BasicsKnown
<1>2. /\ SameTarget /\ SameServer /\ SameControl /\ SameStatus /\ SameNewest
  BY Kept DEF serverVars
<1>3. /\ pc' = pc /\ run' = run /\ child_pid' = child_pid
      /\ child_timed_out' = child_timed_out /\ prev_timed_out' = prev_timed_out
      /\ stop_soon' = stop_soon /\ timer' = FALSE /\ exec_failed' = exec_failed
      /\ status' = status /\ verdict' = verdict
  OBVIOUS
<1>4. Control'
  BY <1>1, <1>2, <1>3
  DEF Control, Alone, Agreement, Quiet, GreetingDue, PidDue,
     StatusDue, Pids, Statements, Fits, ServerSees, FuzzerSees, Causes, AlarmKnown,
     ExecFailure, SameTarget, SameServer, SameControl, SameStatus, SameNewest, NewestIs,
     Message, Locations, Basics
<1>5. options' = options /\ server' = server /\ ctl' = ctl /\ st' = st /\ procs' = procs
  OBVIOUS
<1>6. ServerTypes'
  BY <1>1, <1>5 DEF Types, ServerTypes
<1>7. FuzzerTypes'
  BY <1>1, <1>3 DEF Types, FuzzerTypes, Locations, Statuses, Faults, Basics
<1>8. OnlyNewestLives'
  BY <1>1, OthersKept DEF serverVars
<1>9. Judged'
  BY <1>1, <1>2, <1>3 DEF Judged, Control, Pids
<1> QED
  BY <1>4, <1>6, <1>7, <1>8, <1>9 DEF IInv, Types

LEMMA StopSignalKeeps ==
  ASSUME IInv, handle_stop_sig
  PROVE  IInv'
<1>1. Types /\ Control /\ OnlyNewestLives /\ Judged /\ Basics
  BY BasicsKnown
<1>2. /\ SameTarget /\ SameControl /\ SameStatus
  BY Kept DEF handle_stop_sig, serverVars
<1>3. ~stop_soon
  BY DEF handle_stop_sig
<1>4. child_pid \in {NoPid} \cup 0 .. Made
  BY <1>1 DEF Control, Pids
<1>5. server' \in ServerLocals
  BY <1>1 DEF handle_stop_sig, Types, ServerTypes, ServerLocals
<1>6. /\ ServerAt' = (IF ServerAt = "absent" THEN ServerAt ELSE "dead") /\ Kid' = Kid /\ Held' = Held
      /\ Told' = Told
  BY <1>1 DEF handle_stop_sig, Types, ServerTypes, ServerLocals, ServerAt, Kid, Held, Told
<1>7. /\ procs' \in Seq(ProcessRecord) /\ OnlyNewestLives'
  BY <1>1, <1>4, KilledNewest, Kept, OthersKept DEF handle_stop_sig, Basics, Types,
     ServerTypes
<1>8. /\ (IF child_pid > 0 /\ child_pid = Made /\ State \in {"running", "stopped"} 
          THEN NewestIs("zombie", "stop", "KILL")
          ELSE SameNewest)
  BY <1>1, <1>4, KilledNewest, Kept, OthersKept DEF handle_stop_sig, Basics, Types,
     ServerTypes
<1>9. /\ pc' = pc /\ run' = run /\ child_pid' = child_pid
      /\ child_timed_out' = child_timed_out /\ prev_timed_out' = prev_timed_out
      /\ stop_soon' = TRUE /\ timer' = timer /\ exec_failed' = exec_failed
      /\ status' = status /\ verdict' = verdict
  BY DEF handle_stop_sig, fuzzerVars, Goto
<1>10. Control'
  BY <1>1, <1>2, <1>3, <1>4, <1>6, <1>8, <1>9
  DEF Control, Alone, Agreement, Quiet,
     GreetingDue, PidDue, StatusDue, Pids, Statements, Fits, ServerSees, FuzzerSees, Causes,
     AlarmKnown, ExecFailure, SameTarget, SameControl, SameStatus, SameNewest, NewestIs,
     Message, Locations, Basics
<1>11. options' = options /\ ctl' = ctl /\ st' = st
  BY DEF handle_stop_sig, serverVars
<1>12. ServerTypes'
  BY <1>1, <1>5, <1>7, <1>11 DEF Types, ServerTypes
<1>13. FuzzerTypes'
  BY <1>1, <1>3, <1>4, <1>9 DEF Types, FuzzerTypes, Locations, Statuses, Faults, Basics
<1>14. Judged'
  BY <1>1, <1>2, <1>3, <1>4, <1>6, <1>8, <1>9 DEF Judged
<1> QED
  BY <1>10, <1>12, <1>13, <1>7, <1>14 DEF IInv, Types

LEMMA ServerQuitsKeeps ==
  ASSUME IInv, ServerQuits
  PROVE  IInv'
<1>1. Types /\ Control /\ OnlyNewestLives /\ Judged /\ Basics
  BY BasicsKnown
<1>2. /\ SameTarget /\ SameFuzzer /\ SameControl /\ SameStatus /\ SameNewest
  BY Kept DEF ServerQuits, serverVars
<1>3. pc \in Over /\ ServerAt = "wait"
  BY DEF ServerQuits, ServerAt
<1>4. server' \in ServerLocals
  BY <1>1 DEF ServerQuits, Types, ServerTypes, ServerLocals
<1>5. /\ ServerAt' = "dead" /\ Kid' = Kid /\ Held' = Held /\ Told' = Told
  BY <1>1 DEF ServerQuits, Types, ServerTypes, ServerLocals, ServerAt, Kid, Held, Told
<1>6. Control'
  BY <1>1, <1>2, <1>3, <1>5
  DEF Control, Alone, Agreement, Quiet, GreetingDue, PidDue,
     StatusDue, Pids, Statements, Fits, ServerSees, FuzzerSees, Causes, AlarmKnown,
     ExecFailure, SameTarget, SameFuzzer, SameControl, SameStatus, SameNewest, NewestIs,
     Message, Locations, Basics
<1>7. options' = options /\ ctl' = ctl /\ st' = st /\ procs' = procs
  BY DEF ServerQuits, serverVars
<1>8. ServerTypes'
  BY <1>1, <1>4, <1>7 DEF Types, ServerTypes
<1>9. FuzzerTypes'
  BY <1>1, <1>2 DEF Types, FuzzerTypes, SameFuzzer
<1>10. OnlyNewestLives'
  BY <1>1, OthersKept DEF ServerQuits, serverVars
<1>11. Judged'
  BY <1>1, <1>2, JudgedKept
<1> QED
  BY <1>6, <1>8, <1>9, <1>10, <1>11 DEF IInv, Types

----------------------------------------------------------------------------
(* The invariant holds *)

LEMMA InitGivesIInv ==
  ASSUME ExecutionInit
  PROVE  IInv
<1>1. /\ Made = 0 /\ Sent = 0 /\ Asked = 0 /\ ServerAt = "absent" /\ Kid = 0 /\ ~Held /\ Told = "exit"
      /\ pc = (IF UsesServer THEN "start" ELSE "idle")
      /\ run = 0 /\ child_pid = NoPid /\ ~timer /\ ~exec_failed
  BY DEF ExecutionInit, InitServer, Made, Sent, Asked, ServerAt, Kid, Held, Told
<1>2. Control
  BY <1>1 DEF Control, Alone, Agreement, Quiet, GreetingDue, PidDue, StatusDue, Pids, Statements,
     ServerSees, FuzzerSees, Causes, AlarmKnown, ExecFailure
<1>3. /\ server \in ServerLocals /\ ctl \in Seq(BOOLEAN) /\ st \in Seq(Messages)
      /\ procs \in Seq(ProcessRecord) /\ options \in Options
  BY DEF ExecutionInit, InitServer, ServerLocals, Statuses
<1>4. FuzzerTypes
  <2>1. pc \in Locations
    BY <1>1 DEF Locations
  <2>2. run \in 0 .. MaxRuns /\ child_pid \in Nat \cup {NoPid}
    BY <1>1, MaxRunsAssumption
  <2>3. /\ child_timed_out \in BOOLEAN /\ prev_timed_out \in BOOLEAN /\ stop_soon \in BOOLEAN
        /\ timer \in BOOLEAN /\ exec_failed \in BOOLEAN
        /\ status \in Statuses /\ verdict \in Faults
    BY DEF ExecutionInit, Statuses, Faults
  <2> QED
    BY <2>1, <2>2, <2>3 DEF FuzzerTypes
<1>5. OnlyNewestLives /\ Judged
  BY <1>1 DEF OnlyNewestLives, Judged
<1> QED
  BY <1>2, <1>3, <1>4, <1>5 DEF IInv, Types, ServerTypes

LEMMA ServerKeeps ==
  ASSUME IInv, ServerStep, UNCHANGED fuzzerVars
  PROVE  IInv'
<1>1. CASE Fork
  <2>1. CASE procs' = Append(procs, NewProcess)
             /\ server' = [server EXCEPT !.child = Len(procs'), !.at = "pid"]
    BY <1>1, <2>1, ForkKeeps DEF Fork
  <2>2. CASE server' = [server EXCEPT !.at = "dead"] /\ UNCHANGED procs
    BY <1>1, <2>2, ForkFailsKeeps DEF Fork
  <2> QED
    BY <1>1, <2>1, <2>2 DEF Fork
<1>2. CASE WaitForChild
  BY <1>2, CollectKeeps, SeesStopKeeps DEF WaitForChild
<1> QED
  BY <1>1, <1>2, HelloKeeps, ReadRequestKeeps, WriteOffKeeps, ContinueKeeps, WritePidKeeps,
     WriteStatusKeeps DEF ServerStep

LEMMA ChildrenKeep ==
  ASSUME IInv, ChildEnds \/ ChildStops \/ InitReaps, UNCHANGED fuzzerVars
  PROVE  IInv'
<1>1. CASE ChildEnds
  BY <1>1, ChildEndsKeeps DEF ChildEnds
<1>2. CASE ChildStops
  BY <1>2, ChildStopsKeeps DEF ChildStops
<1>3. CASE InitReaps
  BY <1>3, InitReapsKeeps DEF InitReaps
<1> QED
  BY <1>1, <1>2, <1>3

LEMMA FuzzerKeeps ==
  ASSUME IInv, FuzzerStep
  PROVE  IInv'
<1>1. CASE ReadHello
  <2>1. CASE st # << >> /\ st' = Tail(st) /\ Goto("up")
    BY <1>1, <2>1, HelloReadKeeps DEF ReadHello, Goto
  <2>2. CASE ServerGone /\ UNCHANGED st /\ Goto("down")
    BY <1>1, <2>2, HelloFailsKeeps DEF ReadHello, Goto
  <2> QED
    BY <1>1, <2>1, <2>2 DEF ReadHello
<1>2. CASE Stop
  <2>1. CASE stop_soon /\ UNCHANGED <<stop_soon, procs, server>>
    BY <1>2, <2>1, StopKeeps DEF Stop, Goto
  <2>2. CASE ~stop_soon
    BY <1>2, <2>2, StopsItselfKeeps DEF Stop, Goto
  <2> QED
    BY <1>2, <2>1, <2>2 DEF Stop
<1>3. CASE Request
  <2>1. CASE server.at = "dead"
    BY <1>3, <2>1, RequestFailsKeeps DEF Request
  <2>2. CASE server.at # "dead"
    BY <1>3, <2>2, RequestKeeps DEF Request, Goto
  <2> QED
    BY <2>1, <2>2
<1>4. CASE ReadPid
  <2>1. CASE ~UsesServer /\ child_pid' = Len(procs) /\ Goto("arm") /\ UNCHANGED st
    BY <1>4, <2>1, PidReturnedKeeps DEF ReadPid, Goto
  <2>2. CASE /\ UsesServer /\ st # << >> /\ child_pid' = Head(st).val /\ st' = Tail(st)
             /\ Goto("arm")
    BY <1>4, <2>2, PidReadKeeps DEF ReadPid, Goto
  <2>3. CASE UsesServer /\ ServerGone /\ GiveUp /\ UNCHANGED <<child_pid, st>>
    BY <1>4, <2>3, PidFailsKeeps DEF ReadPid
  <2> QED
    BY <1>4, <2>1, <2>2, <2>3 DEF ReadPid
<1>5. CASE TerminateChild
  <2>1. CASE UNCHANGED procs
    BY <1>5, <2>1, TermIgnoredKeeps DEF TerminateChild, Goto
  <2>2. CASE /\ child_pid \in DOMAIN procs /\ procs[child_pid].state = "running"
             /\ \E how \in {"TERM", "exit"} : procs' = Ended(procs, child_pid, how, "term")
    BY <1>5, <2>2, TermSentKeeps DEF TerminateChild, Goto
  <2> QED
    BY <1>5, <2>1, <2>2 DEF TerminateChild
<1>6. CASE ReadStatus
  <2>1. CASE /\ UsesServer /\ st # << >> /\ status' = Head(st).val /\ st' = Tail(st)
             /\ Goto("clear") /\ UNCHANGED procs
    BY <1>6, <2>1, StatusReadKeeps DEF ReadStatus, Goto
  <2>2. CASE UsesServer /\ ServerGone /\ GiveUp /\ UNCHANGED <<status, st, procs>>
    BY <1>6, <2>2, StatusFailsKeeps DEF ReadStatus
  <2>3. CASE /\ ~UsesServer /\ procs[child_pid].state = "zombie"
             /\ status' = procs[child_pid].status /\ procs' = Reaped(child_pid)
             /\ Goto("clear") /\ UNCHANGED st
    BY <1>6, <2>3, StatusWaitedForKeeps DEF ReadStatus, Goto
  <2> QED
    BY <1>6, <2>1, <2>2, <2>3 DEF ReadStatus
<1> QED
  BY <1>1, <1>2, <1>3, <1>4, <1>5, <1>6, InitForkserverKeeps, ServerIsUpKeeps, BeginRunKeeps,
     ForkTargetKeeps, ArmKeeps, SendOverNetworkKeeps, WaitUntilGoneKeeps, ClearPidKeeps,
     DisarmKeeps, GiveVerdictKeeps DEF FuzzerStep

LEMMA AlarmKeeps ==
  ASSUME IInv, handle_timeout
  PROVE  IInv'
<1>1. CASE child_pid > 0 /\ child_timed_out' = TRUE /\ procs' = Killed(child_pid, "alarm")
           /\ UNCHANGED server
  BY <1>1, AlarmKillsKeeps DEF handle_timeout
<1>2. CASE child_pid = NoPid /\ server.at # "absent" /\ child_timed_out' = TRUE
           /\ server' = [server EXCEPT !.at = "dead"] /\ UNCHANGED procs
  BY <1>2, AlarmEndsServerKeeps DEF handle_timeout
<1>3. CASE child_pid = 0 /\ UNCHANGED <<child_timed_out, procs, server>>
  BY <1>3, AlarmLateKeeps DEF handle_timeout
<1> QED
  BY <1>1, <1>2, <1>3 DEF handle_timeout

LEMMA StutterKeeps ==
  ASSUME IInv, UNCHANGED execution
  PROVE  IInv'
<1>1. Types /\ Control /\ OnlyNewestLives /\ Judged /\ Basics
  BY BasicsKnown
<1>2. /\ options' = options /\ server' = server /\ ctl' = ctl /\ st' = st /\ procs' = procs
      /\ UNCHANGED fuzzerVars
  BY DEF execution, serverVars
<1>3. SameTarget /\ SameFuzzer /\ SameServer /\ SameControl /\ SameStatus /\ SameNewest
  BY <1>2, Kept
<1>4. Control'
  BY <1>1, <1>3 DEF Control, Alone, Agreement, Quiet, GreetingDue, PidDue, StatusDue, Pids,
     Statements, Fits, ServerSees, FuzzerSees, Causes, AlarmKnown, ExecFailure, SameTarget,
     SameFuzzer, SameServer, SameControl, SameStatus, SameNewest
<1>5. ServerTypes'
  BY <1>1, <1>2 DEF Types, ServerTypes
<1>6. FuzzerTypes'
  BY <1>1, <1>3 DEF Types, FuzzerTypes, SameFuzzer
<1>7. OnlyNewestLives' /\ Judged'
  BY <1>1, <1>2, <1>3, OthersKept, JudgedKept
<1> QED
  BY <1>4, <1>5, <1>6, <1>7 DEF IInv, Types

LEMMA NextKeepsIInv ==
  ASSUME IInv, [ExecutionNext]_execution
  PROVE  IInv'
<1>1. CASE TargetStep
  <2>1. UNCHANGED fuzzerVars
    BY <1>1 DEF TargetStep
  <2>2. ServerStep \/ (EndsEarly \/ ChildEnds \/ ChildStops \/ InitReaps)
    BY <1>1 DEF TargetStep
  <2> QED
    BY <2>1, <2>2, ServerKeeps, EndsEarlyKeeps, ChildrenKeep
<1> QED
  BY <1>1, FuzzerKeeps, ExecFailsKeeps, AlarmKeeps, StopSignalKeeps, ServerQuitsKeeps, StutterKeeps
  DEF ExecutionNext

----------------------------------------------------------------------------
(* What follows of it *)

LEMMA TypesGiveTypeOK ==
  ASSUME Types
  PROVE  ExecutionTypeOK
<1>1. \A k \in DOMAIN st : st[k].about \in {"hello", "pid", "status"}
  BY DEF Types, ServerTypes, Messages
<1>2. /\ server \in [at : Places, child : Nat, was_killed : BOOLEAN, child_stopped : BOOLEAN,
                     status : Statuses]
      /\ options \in Options /\ ctl \in Seq(BOOLEAN) /\ procs \in Seq(ProcessRecord)
  BY DEF Types, ServerTypes, ServerLocals
<1>3. /\ pc \in Locations /\ run \in 0 .. MaxRuns /\ child_pid \in Nat \cup {NoPid}
      /\ {child_timed_out, prev_timed_out, stop_soon, timer, exec_failed} \subseteq BOOLEAN
      /\ status \in Statuses /\ verdict \in Faults
  BY DEF Types, FuzzerTypes
<1> QED
  BY <1>1, <1>2, <1>3 DEF ExecutionTypeOK

LEMMA IInvGivesInStep ==
  ASSUME IInv
  PROVE  InStep
<1>1. Types /\ Control /\ OnlyNewestLives /\ Judged /\ Basics
  BY BasicsKnown
<1>2. /\ st = << >> <=> Sent = 0
      /\ ctl = << >> <=> Asked = 0
  BY <1>1, Sizes
<1>3. st # << >> => Head(st) = First
  BY <1>1, HeadTailProperties DEF Types, ServerTypes, First
<1>4. /\ Sent <= 2 /\ Asked <= 1
      /\ pc = "hello" /\ Sent > 0 => First.about = "hello"
      /\ pc = "pid" /\ Sent > 0 => First = Message("pid", Kid)
      /\ pc \in Talking /\ Sent > 0 => First.about = "status" /\ Sent = 1
      /\ pc \in {"idle", "request"} \cup Closing => Sent = 0 /\ Asked = 0
  BY <1>1 DEF Control, Alone, Agreement, Quiet, GreetingDue, PidDue, StatusDue, Locations, Basics,
     Message
<1>5. PipesInStep
  BY <1>1, <1>2, <1>3, <1>4, TypesGiveTypeOK DEF PipesInStep, Sent, Asked, First, Kid, Basics
<1>6. ServerAt = "fork" /\ Held /\ ~stop_soon => Kid = Made /\ Made > 0 /\ State = "stopped"
  BY <1>1 DEF Control, Alone, Agreement, ServerSees, Causes, AlarmKnown
<1>7. ContinuesTheLiving
  BY <1>6 DEF ContinuesTheLiving, ServerAt, Held, Kid, State, Newest
<1> QED
  BY <1>5, <1>7 DEF InStep

LEMMA IInvGivesResultsAreOwn ==
  ASSUME IInv
  PROVE  ResultsAreOwn
<1>1. Types /\ Control /\ OnlyNewestLives /\ Judged /\ Basics
  BY BasicsKnown
<1>2. DOMAIN procs = 1 .. Made /\ Made \in Nat /\ (procs = << >> <=> Made = 0)
  BY <1>1, Sizes
<1>3. Cardinality({p \in DOMAIN procs : Living(p)}) <= 1
  <2>1. {p \in DOMAIN procs : Living(p)} \subseteq {Made}
    BY <1>1, TheLivingIsNewest DEF Living
  <2>2. IsFiniteSet({Made}) /\ Cardinality({Made}) = 1
    BY FS_Singleton
  <2>3. /\ Cardinality({p \in DOMAIN procs : Living(p)}) <= Cardinality({Made})
    BY <2>1, <2>2, FS_Subset
  <2> QED
    BY <2>2, <2>3
<1>4. ASSUME pc \in {"idle", "verdict"}, ~stop_soon, NEW p \in DOMAIN procs,
             procs[p].state = "running"
      PROVE  FALSE
  <2>1. Made > 0 /\ State = "running"
    BY <1>1, <1>4, TheLivingIsNewest
  <2> QED
    BY <1>1, <1>4, <2>1 DEF Control, Statements, Fits, Pids, Basics
<1>5. MapHasOneWriter
  BY <1>3, <1>4 DEF MapHasOneWriter
<1>6. ASSUME pc = "idle", run > 0, ~stop_soon, procs # << >>
      PROVE  /\ verdict = "TMOUT" => By = "alarm" /\ How = "KILL"
             /\ verdict = "CRASH" => By = "itself" /\ How \in {"SEGV", "msan"}
             /\ By = "itself" /\ How \in {"SEGV", "msan"} => verdict = "CRASH"
             /\ By = "alarm" /\ ~Persistent => verdict = "TMOUT"
             /\ verdict = "ERROR" <=> exec_failed
  <2>1. verdict = Fault /\ Fits(status) /\ Made > 0
    BY <1>1, <1>6 DEF Judged, Control, Statements, Pids
  <2>2. status \in Statuses /\ exec_failed \in BOOLEAN
    BY <1>1 DEF Types, FuzzerTypes
  <2>3. /\ State \in {"running", "stopped", "zombie", "gone"}
        /\ By \in {"nobody", "itself", "alarm", "stop", "term"}
    BY <1>1, <2>1, NewestTyped
  <2> QED
    BY <1>1, <1>6, <2>1, <2>2, <2>3 DEF Control, Fits, Causes, AlarmKnown, ExecFailure, Fault,
       Statuses
<1>7. VerdictFits
  <2>1. Last(procs) = Newest
    BY DEF Last, Newest, Made
  <2> QED
    BY <1>6, <2>1 DEF VerdictFits, By, How
<1> QED
  BY <1>5, <1>7 DEF ResultsAreOwn

\* The inductive invariant holds in every state of every execution.
THEOREM ExecutionInvariant == ExecutionSpec => []IInv
<1>1. ExecutionInit => IInv
  BY InitGivesIInv
<1>2. IInv /\ [ExecutionNext]_execution => IInv'
  BY NextKeepsIInv
<1> QED
  BY <1>1, <1>2, PTL DEF ExecutionSpec

\* afl-fuzz and the fork server never lose step: whoever is overtaken by an
\* alarm, a stop signal or the end of a process, each side reads from its pipe
\* what the other one wrote for it, and no process is continued that is dead
\* (run_target, afl-fuzz.c:3349-3391, and afl-llvm-rt.o.c:120-173).
THEOREM ExecutionInStep == ExecutionSpec => []InStep
<1>1. IInv => InStep
  BY IInvGivesInStep
<1> QED
  BY <1>1, ExecutionInvariant, PTL

\* The map and the verdict of a run belong to the process of this run
\* (run_target, afl-fuzz.c:3252-3258, 3408-3443, and handle_timeout, 7930-7943).
THEOREM ExecutionResults == ExecutionSpec => []ResultsAreOwn
<1>1. IInv => ResultsAreOwn
  BY IInvGivesResultsAreOwn
<1> QED
  BY <1>1, ExecutionInvariant, PTL

-----------------------------------------------------------------------------
(* FuzzOne, the random stages: what havoc and splicing keep.               *)

\* What the random stages keep: MemoryFits, and why the next step finds it so.
HInv ==
  /\ HavocTypeOK /\ inBounds
  /\ hpc # "idle" => M2_len >= 1
  /\ hpc \in {"stage", "tweak", "splice"} => hlen = in_alloc /\ hlen >= 1
  /\ hpc = "stage" => alloc = hlen
  /\ hpc \in {"tweak", "splice"} => temp_len \in 1 .. alloc
  /\ hpc = "tweak" => temp_len <= MAX_FILE \/ temp_len <= hlen
  /\ hpc = "tweak" /\ stacked = 0 => temp_len = hlen
  /\ ~spliced => hlen = M2_len

LEMMA HavocNats ==
  ASSUME HavocTypeOK
  PROVE  /\ alloc \in Nat /\ temp_len \in Nat /\ hlen \in Nat /\ in_alloc \in Nat /\ M2_len \in Nat
         /\ splice_cycle \in Nat /\ perf_score \in Nat /\ orig_perf \in Nat /\ handicap \in Nat
         /\ stage_cur \in Nat /\ stage_max \in Nat /\ stacked \in Nat
         /\ hpc \in {"idle", "stage", "tweak", "splice", "done"}
BY DEF HavocTypeOK

LEMMA HavocBooleans ==
  ASSUME HavocTypeOK
  PROVE  /\ spliced \in BOOLEAN /\ doing_det \in BOOLEAN /\ use_splicing \in BOOLEAN
         /\ pending \in BOOLEAN /\ inBounds \in BOOLEAN
BY DEF HavocTypeOK

\* The type is that of the numbers and of the flags.
LEMMA HavocTypes ==
  ASSUME hpc' \in {"idle", "stage", "tweak", "splice", "done"},
         alloc' \in Nat, temp_len' \in Nat, hlen' \in Nat, in_alloc' \in Nat, M2_len' \in Nat,
         splice_cycle' \in Nat, perf_score' \in Nat, orig_perf' \in Nat, handicap' \in Nat,
         stage_cur' \in Nat, stage_max' \in Nat, stacked' \in Nat,
         spliced' \in BOOLEAN, doing_det' \in BOOLEAN, use_splicing' \in BOOLEAN,
         pending' \in BOOLEAN, inBounds' \in BOOLEAN
  PROVE  HavocTypeOK'
BY DEF HavocTypeOK

\* choose_block_len gives a length of at least 1, and none above its limit or
\* above the largest class.
LEMMA BlocksFit ==
  ASSUME NEW limit \in Nat, limit >= 1, NEW n \in BlockLens(limit)
  PROVE  n \in 1..limit /\ n <= HAVOC_BLK_XL
<1>1. /\ HAVOC_BLK_SMALL \in Nat /\ HAVOC_BLK_MEDIUM \in Nat /\ HAVOC_BLK_LARGE \in Nat
      /\ HAVOC_BLK_XL \in Nat /\ 1 <= HAVOC_BLK_SMALL /\ HAVOC_BLK_SMALL <= HAVOC_BLK_MEDIUM
      /\ HAVOC_BLK_MEDIUM <= HAVOC_BLK_LARGE /\ HAVOC_BLK_LARGE <= HAVOC_BLK_XL
  BY HavocAssumption
<1> DEFINE Class(lo, hi) == LET min_value == IF lo >= limit THEN 1 ELSE lo
                            IN {min_value + r : r \in UR(Least(hi, limit) - min_value + 1)}
<1>2. ASSUME NEW lo \in Nat, NEW hi \in Nat, 1 <= lo, lo <= hi, hi <= HAVOC_BLK_XL, n \in Class(lo, hi)
      PROVE  n \in 1..limit /\ n <= HAVOC_BLK_XL
  <2>1. CASE lo >= limit
    <3>1. PICK r \in 0..(Least(hi, limit) - 1 + 1) - 1 : n = 1 + r
      BY <1>2, <2>1 DEF UR
    <3> QED
      BY <1>1, <1>2, <2>1, <3>1 DEF Least
  <2>2. CASE ~(lo >= limit)
    <3>1. PICK r \in 0..(Least(hi, limit) - lo + 1) - 1 : n = lo + r
      BY <1>2, <2>2 DEF UR
    <3> QED
      BY <1>1, <1>2, <2>2, <3>1 DEF Least
  <2> QED
    BY ONLY <2>1, <2>2
<1>3. n \in Class(1, HAVOC_BLK_SMALL) \cup Class(HAVOC_BLK_SMALL, HAVOC_BLK_MEDIUM)
            \cup Class(HAVOC_BLK_MEDIUM, HAVOC_BLK_LARGE) \cup Class(HAVOC_BLK_LARGE, HAVOC_BLK_XL)
  BY DEF BlockLens
<1> HIDE DEF Class
<1> QED
  BY <1>1, <1>2, <1>3

LEMMA ScoreIsNat ==
  ASSUME HavocTypeOK, NEW speed \in SpeedFactors, NEW size \in SizeFactors, NEW depth \in Depths
  PROVE  calculate_score(speed, size, depth) \in Nat /\ NextHandicap \in Nat
<1>1. speed \in Nat /\ size \in Nat /\ depth \in Nat /\ HAVOC_MAX_MULT \in Nat
  BY HavocAssumption
<1>2. handicap \in Nat
  BY HavocNats
<1>3. PICK h \in Nat : h = CASE handicap >= 4 -> 4 [] handicap \in 1..3 -> 2 [] OTHER -> 1
  BY <1>2
<1>4. DepthFactor(depth) \in Nat
  BY <1>1 DEF DepthFactor
<1>5. PICK d : d = DepthFactor(depth)
  OBVIOUS
<1>6. speed * size \in Nat
  BY ONLY <1>1
<1>7. (speed * size) \div 100 \in Nat
  BY ONLY <1>6
<1>8. ((speed * size) \div 100) * h \in Nat
  BY ONLY <1>3, <1>7
<1>9. ((speed * size) \div 100) * h * d \in Nat
  BY ONLY <1>4, <1>5, <1>8
<1>10. PICK p \in Nat : p = ((speed * size) \div 100) * h * d
  BY ONLY <1>9
<1>11. calculate_score(speed, size, depth) = Least(p, HAVOC_MAX_MULT * 100)
  BY ONLY <1>3, <1>5, <1>10 DEF calculate_score
<1>12. HAVOC_MAX_MULT * 100 \in Nat
  BY ONLY <1>1
<1>13. Least(p, HAVOC_MAX_MULT * 100) \in Nat
  BY ONLY <1>10, <1>12 DEF Least
<1>14. NextHandicap \in Nat
  BY ONLY <1>2 DEF NextHandicap
<1> QED
  BY ONLY <1>11, <1>13, <1>14

LEMMA HavocInitHolds ==
  ASSUME HavocInit PROVE HInv
<1>1. HavocTypeOK
  <2>1. handicap \in Nat
    BY HavocAssumption DEF HavocInit
  <2>2. use_splicing \in BOOLEAN /\ spliced = FALSE /\ doing_det = FALSE /\ pending = TRUE /\ inBounds = TRUE
    BY DEF HavocInit
  <2>3. {spliced, doing_det, use_splicing, pending, inBounds} \subseteq BOOLEAN
    BY ONLY <2>2
  <2>4. /\ hpc = "idle" /\ alloc = 0 /\ temp_len = 0 /\ hlen = 0 /\ in_alloc = 0 /\ M2_len = 0
        /\ splice_cycle = 0 /\ perf_score = 100 /\ orig_perf = 100 /\ stage_cur = 0
        /\ stage_max = 0 /\ stacked = 0
    BY DEF HavocInit
  <2> QED
    BY ONLY <2>1, <2>3, <2>4 DEF HavocTypeOK
<1> QED
  BY <1>1 DEF HavocInit, HInv

LEMMA StartKeeps ==
  ASSUME HInv, NEW n \in Nat, n >= 1, NEW det \in BOOLEAN, HavocStart(n, det)
  PROVE  HInv'
<1>1. HavocTypeOK /\ inBounds /\ hpc = "idle" /\ (~spliced => hlen = M2_len)
  BY DEF HInv, HavocStart
<1>2. /\ hpc' = "stage" /\ alloc' = n /\ temp_len' = n /\ hlen' = n /\ in_alloc' = n /\ M2_len' = n
      /\ doing_det' = det /\ orig_perf' = perf_score' /\ handicap' = NextHandicap /\ splice_cycle' = 0
      /\ UNCHANGED <<spliced, use_splicing, stage_cur, stage_max, stacked, pending, inBounds>>
  BY DEF HavocStart
<1>3. perf_score' \in Nat /\ NextHandicap \in Nat
  <2>1. PICK speed \in SpeedFactors, size \in SizeFactors, depth \in Depths :
          perf_score' = calculate_score(speed, size, depth)
    BY DEF HavocStart
  <2> QED
    BY <1>1, <2>1, ScoreIsNat
<1>4. HavocTypeOK'
  BY <1>1, <1>2, <1>3, HavocNats, HavocBooleans, HavocTypes
<1> QED
  BY <1>1, <1>2, <1>4 DEF HInv

LEMMA EnterKeeps ==
  ASSUME HInv, EnterStage PROVE HInv'
<1>1. /\ HavocTypeOK /\ inBounds /\ hpc = "stage" /\ (~spliced => hlen = M2_len)
      /\ M2_len >= 1 /\ hlen = in_alloc /\ hlen >= 1 /\ alloc = hlen
  BY DEF HInv, EnterStage
<1>2. /\ hpc' = "tweak" /\ stage_cur' = 0 /\ stacked' = 0 /\ temp_len' = hlen
      /\ UNCHANGED <<alloc, hlen, in_alloc, M2_len, spliced, doing_det, splice_cycle, use_splicing,
                     orig_perf, handicap, pending, inBounds>>
      /\ perf_score' = IF splice_cycle = 0 THEN perf_score ELSE orig_perf
  BY DEF EnterStage
<1>3. perf_score' \in Nat
  BY <1>1, <1>2, HavocNats
<1>4. stage_max' \in Nat
  <2>1. PICK havoc_div \in HAVOC_DIVS :
          LET cycles == IF splice_cycle # 0 THEN SPLICE_HAVOC
                        ELSE IF doing_det THEN HAVOC_CYCLES_INIT ELSE HAVOC_CYCLES
              max == ((cycles * perf_score') \div havoc_div) \div 100
          IN stage_max' = IF max < HAVOC_MIN THEN HAVOC_MIN ELSE max
    BY DEF EnterStage
  <2>2. /\ SPLICE_HAVOC \in Nat /\ HAVOC_CYCLES_INIT \in Nat /\ HAVOC_CYCLES \in Nat /\ HAVOC_MIN \in Nat
        /\ havoc_div \in Nat /\ havoc_div > 0
    BY HavocAssumption
  <2>3. PICK cycles : cycles = IF splice_cycle # 0 THEN SPLICE_HAVOC
                               ELSE IF doing_det THEN HAVOC_CYCLES_INIT ELSE HAVOC_CYCLES
    OBVIOUS
  <2>4. cycles \in Nat
    BY ONLY <2>2, <2>3
  <2>5. PICK p, s : p = cycles * s /\ s = perf_score'
    OBVIOUS
  <2>6. p \in Nat
    <3>1. s \in Nat
      BY ONLY <1>3, <2>5
    <3>2. cycles * s \in Nat
      BY ONLY <2>4, <3>1
    <3> QED
      BY ONLY <2>5, <3>2
  <2>7. PICK q : q = p \div havoc_div
    OBVIOUS
  <2>8. q \in Nat
    BY ONLY <2>2, <2>6, <2>7
  <2>9. q \div 100 \in Nat
    BY ONLY <2>8
  <2>10. stage_max' = IF q \div 100 < HAVOC_MIN THEN HAVOC_MIN ELSE q \div 100
    BY ONLY <2>1, <2>3, <2>5, <2>7
  <2> QED
    BY ONLY <2>2, <2>9, <2>10
<1>5. HavocTypeOK'
  BY <1>1, <1>2, <1>3, <1>4, HavocNats, HavocBooleans, HavocTypes
<1>6. hlen \in Nat /\ hlen \in 1..alloc
  BY <1>1, HavocNats
<1> QED
  BY <1>1, <1>2, <1>5, <1>6 DEF HInv

\* A tweak that only makes fine accesses leaves a buffer that is not empty, and
\* not larger than MAX_FILE when it grew.
LEMMA TweakKeeps ==
  ASSUME HInv, Tweaking, NEW fine, fine, NEW a \in Nat, NEW n \in Nat, Tweak(fine, a, n),
         n \in 1..a, n <= MAX_FILE \/ n <= temp_len
  PROVE  HInv'
<1>1. /\ HavocTypeOK /\ inBounds /\ hpc = "tweak" /\ (~spliced => hlen = M2_len)
      /\ M2_len >= 1 /\ hlen = in_alloc /\ hlen >= 1 /\ (temp_len <= MAX_FILE \/ temp_len <= hlen)
  BY DEF HInv, Tweaking
<1>2. /\ inBounds' = (inBounds /\ fine) /\ alloc' = a /\ temp_len' = n /\ stacked' = stacked + 1
      /\ UNCHANGED <<hpc, hlen, in_alloc, M2_len, spliced, doing_det, splice_cycle, use_splicing, perf_score,
                     orig_perf, handicap, stage_cur, stage_max, pending>>
  BY DEF Tweak
<1>3. inBounds'
  BY <1>1, <1>2
<1>4. inBounds' \in BOOLEAN
  BY <1>1, <1>2, fine
<1>5. stacked' \in Nat /\ stacked' # 0
  BY <1>1, <1>2, HavocNats
<1>6. HavocTypeOK'
  BY <1>1, <1>2, <1>4, <1>5, HavocNats, HavocBooleans, HavocTypes
<1>7. n <= MAX_FILE \/ n <= hlen
  BY <1>1, HavocNats, WordsAssumption
<1> QED
  BY <1>1, <1>2, <1>3, <1>5, <1>6, <1>7 DEF HInv

LEMMA TweakFacts ==
  ASSUME HInv, Tweaking
  PROVE  alloc \in Nat /\ temp_len \in Nat /\ temp_len >= 1 /\ temp_len <= alloc /\ temp_len \in 1..alloc
BY HavocNats DEF HInv, Tweaking

LEMMA WordKeeps ==
  ASSUME HInv, TweakWord PROVE HInv'
<1>1. Tweaking /\ alloc \in Nat /\ temp_len \in Nat /\ temp_len \in 1..alloc /\ temp_len <= temp_len
  BY TweakFacts DEF TweakWord
<1>2. PICK n \in {1, 2, 4} :
        \/ n > 1 /\ temp_len < n /\ Tweak(TRUE, alloc, temp_len)
        \/ /\ n = 1 \/ temp_len >= n
           /\ Tweak(temp_len - n + 1 > 0 /\ temp_len <= alloc, alloc, temp_len)
  BY DEF TweakWord
<1>3. CASE Tweak(TRUE, alloc, temp_len)
  BY <1>1, <1>3, TweakKeeps
<1>4. CASE (n = 1 \/ temp_len >= n) /\ Tweak(temp_len - n + 1 > 0 /\ temp_len <= alloc, alloc, temp_len)
  <2>1. temp_len - n + 1 > 0 /\ temp_len <= alloc
    BY <1>1, <1>4
  <2> QED
    BY <1>1, <1>4, <2>1, TweakKeeps
<1> QED
  BY <1>2, <1>3, <1>4

LEMMA DeleteKeeps ==
  ASSUME HInv, DeleteBytes PROVE HInv'
<1>1. Tweaking /\ alloc \in Nat /\ temp_len \in Nat /\ temp_len \in 1..alloc /\ temp_len >= 2
  BY TweakFacts DEF DeleteBytes
<1>2. PICK del_len \in BlockLens(temp_len - 1) : \E del_from \in UR(temp_len - del_len + 1) :
        Tweak(/\ del_len >= 1
              /\ temp_len - del_from - del_len >= 0 /\ temp_len <= alloc, alloc, temp_len - del_len)
  BY DEF DeleteBytes
<1>3. PICK del_from \in UR(temp_len - del_len + 1) :
        Tweak(/\ del_len >= 1
              /\ temp_len - del_from - del_len >= 0 /\ temp_len <= alloc, alloc, temp_len - del_len)
  BY <1>2
<1>4. del_len \in 1..temp_len - 1
  <2>1. temp_len - 1 \in Nat /\ temp_len - 1 >= 1
    BY <1>1
  <2> QED
    BY <2>1, BlocksFit
<1>5. del_len >= 1 /\ temp_len - del_from - del_len >= 0 /\ temp_len <= alloc
  BY <1>1, <1>4 DEF UR
<1>6. temp_len - del_len \in Nat /\ temp_len - del_len \in 1..alloc /\ temp_len - del_len <= temp_len
  BY <1>1, <1>4
<1> QED
  BY <1>1, <1>3, <1>5, <1>6, TweakKeeps

LEMMA CloneKeeps ==
  ASSUME HInv, CloneBytes PROVE HInv'
<1>1. /\ Tweaking /\ alloc \in Nat /\ temp_len \in Nat /\ temp_len \in 1..alloc
      /\ temp_len + HAVOC_BLK_XL < MAX_FILE
  BY TweakFacts DEF CloneBytes
<1>2. PICK clone \in BOOLEAN : \E clone_len \in BlockLens(IF clone THEN temp_len ELSE HAVOC_BLK_XL) :
        Tweak(/\ clone => clone_len <= temp_len
              /\ temp_len > 0 /\ temp_len <= alloc, temp_len + clone_len, temp_len + clone_len)
  BY DEF CloneBytes
<1>3. PICK clone_len \in BlockLens(IF clone THEN temp_len ELSE HAVOC_BLK_XL) :
        Tweak(/\ clone => clone_len <= temp_len
              /\ temp_len > 0 /\ temp_len <= alloc, temp_len + clone_len, temp_len + clone_len)
  BY <1>2
<1>4. HAVOC_BLK_XL \in Nat /\ HAVOC_BLK_XL >= 1 /\ MAX_FILE \in Nat
  BY HavocAssumption, WordsAssumption
<1>5. clone_len \in Nat /\ clone_len <= HAVOC_BLK_XL /\ (clone => clone_len <= temp_len)
  <2>1. CASE clone
    <3>1. clone_len \in BlockLens(temp_len) /\ temp_len >= 1
      BY <1>1, <2>1
    <3>2. clone_len \in 1..temp_len /\ clone_len <= HAVOC_BLK_XL
      BY <1>1, <3>1, BlocksFit
    <3> QED
      BY <1>1, <3>2
  <2>2. CASE ~clone
    <3>1. clone_len \in BlockLens(HAVOC_BLK_XL)
      BY <2>2
    <3>2. clone_len \in 1..HAVOC_BLK_XL
      BY <1>4, <3>1, BlocksFit
    <3> QED
      BY <1>4, <2>2, <3>2
  <2> QED
    BY <2>1, <2>2
<1>6. (clone => clone_len <= temp_len) /\ temp_len > 0 /\ temp_len <= alloc
  BY <1>1, <1>5
<1>7. /\ temp_len + clone_len \in Nat /\ temp_len + clone_len \in 1..temp_len + clone_len
      /\ temp_len + clone_len <= MAX_FILE
  BY <1>1, <1>4, <1>5
<1> QED
  BY <1>1, <1>3, <1>6, <1>7, TweakKeeps

LEMMA OverwriteKeeps ==
  ASSUME HInv, OverwriteBytes \/ OverwriteExtra PROVE HInv'
<1>1. Tweaking /\ alloc \in Nat /\ temp_len \in Nat /\ temp_len \in 1..alloc /\ temp_len <= temp_len
  BY TweakFacts DEF OverwriteBytes, OverwriteExtra
<1>2. CASE OverwriteBytes
  <2>1. PICK copy_len \in BlockLens(temp_len - 1) :
          Tweak(temp_len - copy_len + 1 > 0 /\ temp_len <= alloc, alloc, temp_len)
    BY <1>2 DEF OverwriteBytes
  <2>2. temp_len - 1 \in Nat /\ temp_len - 1 >= 1
    BY <1>1, <1>2 DEF OverwriteBytes
  <2>3. copy_len \in 1..temp_len - 1
    BY <2>1, <2>2, BlocksFit
  <2>4. temp_len - copy_len + 1 > 0 /\ temp_len <= alloc
    BY <1>1, <2>3
  <2> QED
    BY <1>1, <2>1, <2>4, TweakKeeps
<1>3. CASE OverwriteExtra
  <2>1. Tweak(temp_len <= alloc, alloc, temp_len)
    BY <1>3 DEF OverwriteExtra
  <2>2. temp_len <= alloc
    BY <1>1
  <2> QED
    BY <1>1, <2>1, <2>2, TweakKeeps
<1> QED
  BY <1>2, <1>3

LEMMA InsertKeeps ==
  ASSUME HInv, InsertExtra \/ InsertRegion PROVE HInv'
<1>1. Tweaking /\ alloc \in Nat /\ temp_len \in Nat /\ temp_len \in 1..alloc
  BY TweakFacts DEF InsertExtra, InsertRegion
<1>2. PICK n \in Nat : Insert(n)
  BY HavocAssumption DEF InsertExtra, InsertRegion, SourceRegions
<1>3. temp_len + n < MAX_FILE /\ Tweak(temp_len <= alloc, temp_len + n, temp_len + n)
  BY <1>2 DEF Insert
<1>4. /\ temp_len <= alloc /\ temp_len + n \in Nat /\ temp_len + n \in 1..temp_len + n
      /\ temp_len + n <= MAX_FILE
  BY <1>1, <1>3, WordsAssumption
<1> QED
  BY <1>1, <1>3, <1>4, TweakKeeps

LEMMA ReplaceKeeps ==
  ASSUME HInv, ReplaceRegion PROVE HInv'
<1>1. Tweaking
  BY DEF ReplaceRegion
<1>2. PICK n \in SourceRegions : Tweak(n > 0, n, n)
  BY DEF ReplaceRegion
<1>3. n \in Nat /\ n > 0 /\ n <= MAX_FILE /\ n \in 1..n
  BY HavocAssumption DEF SourceRegions
<1> QED
  BY <1>1, <1>2, <1>3, TweakKeeps

LEMMA DuplicateKeeps ==
  ASSUME HInv, DuplicateRegion PROVE HInv'
<1>1. Tweaking /\ alloc \in Nat /\ temp_len \in Nat /\ temp_len \in 1..alloc
  BY TweakFacts DEF DuplicateRegion
<1>2. temp_len * 2 < MAX_FILE /\ Tweak(temp_len <= alloc, temp_len * 2, temp_len * 2)
  BY DEF DuplicateRegion
<1>3. /\ temp_len <= alloc /\ temp_len * 2 \in Nat /\ temp_len * 2 \in 1..temp_len * 2
      /\ temp_len * 2 <= MAX_FILE
  BY <1>1, <1>2, WordsAssumption
<1> QED
  BY <1>1, <1>2, <1>3, TweakKeeps

LEMMA ExecuteKeeps ==
  ASSUME HInv, Execute PROVE HInv'
<1>1. /\ HavocTypeOK /\ inBounds /\ hpc = "tweak" /\ (~spliced => hlen = M2_len)
      /\ M2_len >= 1 /\ hlen = in_alloc /\ hlen >= 1 /\ temp_len \in 1..alloc
  BY DEF HInv, Execute
<1>2. /\ alloc' = (IF temp_len < hlen THEN hlen ELSE alloc) /\ temp_len' = hlen
      /\ inBounds' = (inBounds /\ temp_len <= alloc /\ hlen <= alloc' /\ hlen <= in_alloc)
      /\ stage_cur' = stage_cur + 1 /\ stacked' = 0 /\ hpc' \in {"tweak", "splice"}
      /\ UNCHANGED <<hlen, in_alloc, M2_len, spliced, doing_det, splice_cycle, use_splicing, orig_perf,
                     handicap, pending>>
  BY DEF Execute, RestoreSize
<1>3. stage_max' \in Nat /\ perf_score' \in Nat
  <2>1. \/ stage_max' = 2 * stage_max /\ perf_score' = 2 * perf_score
        \/ stage_max' = stage_max /\ perf_score' = perf_score
    BY DEF Execute
  <2>2. stage_max \in Nat /\ perf_score \in Nat
    BY <1>1, HavocNats
  <2> QED
    BY ONLY <2>1, <2>2
<1>4. alloc' \in Nat /\ hlen \in Nat /\ hlen \in 1..alloc' /\ temp_len <= alloc /\ hlen <= alloc' /\ hlen <= in_alloc
      /\ hlen <= hlen
  BY <1>1, <1>2, HavocNats
<1>5. inBounds' /\ inBounds' \in BOOLEAN
  BY <1>1, <1>2, <1>4
<1>6. stage_cur' \in Nat
  BY <1>1, <1>2, HavocNats
<1>7. hpc' \in {"idle", "stage", "tweak", "splice", "done"} /\ stacked' \in Nat /\ temp_len' \in Nat
  BY <1>2, <1>4
<1>8. HavocTypeOK'
  BY <1>1, <1>2, <1>3, <1>4, <1>5, <1>6, <1>7, HavocNats, HavocBooleans, HavocTypes
<1> QED
  BY <1>1, <1>2, <1>4, <1>5, <1>8 DEF HInv

LEMMA FinishKeeps ==
  ASSUME HInv, hpc # "idle", Finish, splice_cycle' \in Nat PROVE HInv'
<1>1. HavocTypeOK /\ inBounds /\ (~spliced => hlen = M2_len) /\ M2_len >= 1
  BY DEF HInv
<1>2. /\ hpc' = "done"
      /\ UNCHANGED <<alloc, temp_len, hlen, in_alloc, M2_len, spliced, doing_det, use_splicing, perf_score,
                     orig_perf, handicap, stage_cur, stage_max, stacked, inBounds>>
  BY DEF Finish
<1>3. pending' \in BOOLEAN
  <2>1. PICK counted \in BOOLEAN : pending' = (pending /\ ~counted)
    BY DEF Finish
  <2> QED
    BY ONLY <2>1
<1>4. HavocTypeOK'
  BY <1>1, <1>2, <1>3, HavocNats, HavocBooleans, HavocTypes
<1> QED
  BY <1>1, <1>2, <1>4 DEF HInv

LEMMA CycleIsNat ==
  ASSUME HavocTypeOK, CountCycle PROVE splice_cycle' \in Nat
BY HavocNats DEF CountCycle

LEMMA StopKeepsHavoc ==
  ASSUME HInv, AbandonHavoc \/ NoSplicing PROVE HInv'
<1>1. HavocTypeOK /\ hpc # "idle" /\ Finish
  BY DEF HInv, AbandonHavoc, NoSplicing
<1>2. splice_cycle' \in Nat
  <2>1. CASE AbandonHavoc
    BY <1>1, <2>1, HavocNats DEF AbandonHavoc
  <2>2. CASE NoSplicing
    BY <1>1, <2>2, CycleIsNat DEF NoSplicing
  <2> QED
    BY <2>1, <2>2
<1> QED
  BY <1>1, <1>2, FinishKeeps

LEMMA RetryKeeps ==
  ASSUME HInv, RetrySplicing PROVE HInv'
<1>1. /\ HavocTypeOK /\ inBounds /\ hpc = "splice" /\ M2_len >= 1 /\ temp_len \in 1..alloc
  BY DEF HInv, RetrySplicing, CanSplice
<1>2. /\ spliced' = FALSE /\ in_alloc' = M2_len /\ hlen' = M2_len /\ CountCycle
      /\ UNCHANGED <<hpc, alloc, temp_len, M2_len, doing_det, use_splicing, perf_score, orig_perf, handicap,
                     stage_cur, stage_max, stacked, pending, inBounds>>
  BY DEF RetrySplicing
<1>3. splice_cycle' \in Nat
  BY <1>1, <1>2, CycleIsNat
<1>4. HavocTypeOK'
  BY <1>1, <1>2, <1>3, HavocNats, HavocBooleans, HavocTypes
<1> QED
  BY <1>1, <1>2, <1>4 DEF HInv

LEMMA SpliceKeeps ==
  ASSUME HInv, Splice PROVE HInv'
<1>1. /\ HavocTypeOK /\ inBounds /\ hpc = "splice" /\ M2_len >= 1 /\ M2_len \in Nat
  BY HavocNats DEF HInv, Splice, CanSplice
<1>2. /\ spliced' = TRUE /\ hpc' = "stage" /\ CountCycle
      /\ UNCHANGED <<temp_len, M2_len, doing_det, use_splicing, perf_score, orig_perf, handicap, stage_cur,
                     stage_max, stacked, pending>>
  BY DEF Splice
<1>3. PICK n \in TargetLens :
        /\ \E d \in Differences(Least(M2_len, n)) :
             /\ n >= 2
             /\ \E split_at \in {d.first + r : r \in UR(d.last - d.first)} :
                  inBounds' = (inBounds /\ split_at <= n /\ split_at <= M2_len)
        /\ hlen' = n /\ in_alloc' = n /\ alloc' = n
  BY DEF Splice
<1>8. PICK d \in Differences(Least(M2_len, n)) :
        /\ n >= 2
        /\ \E split_at \in {d.first + r : r \in UR(d.last - d.first)} :
             inBounds' = (inBounds /\ split_at <= n /\ split_at <= M2_len)
  BY <1>3
<1>4. n \in Nat /\ n >= 2
  BY <1>3, <1>8, HavocAssumption
<1>5. inBounds' /\ inBounds' \in BOOLEAN
  <2>1. PICK split_at \in {d.first + r : r \in UR(d.last - d.first)} :
          inBounds' = (inBounds /\ split_at <= n /\ split_at <= M2_len)
    BY <1>8
  <2>2. PICK r \in UR(d.last - d.first) : split_at = d.first + r
    OBVIOUS
  <2>3. /\ d.first \in 0..Least(M2_len, n) - 1 /\ d.last \in 0..Least(M2_len, n) - 1 /\ d.first < d.last
    BY DEF Differences
  <2>4. split_at <= n /\ split_at <= M2_len
    BY ONLY <1>1, <1>4, <2>2, <2>3, r \in UR(d.last - d.first) DEF UR, Least
  <2> QED
    BY <1>1, <2>1, <2>4
<1>6. splice_cycle' \in Nat
  BY <1>1, <1>2, CycleIsNat
<1>7. HavocTypeOK'
  BY <1>1, <1>2, <1>3, <1>4, <1>5, <1>6, HavocNats, HavocBooleans, HavocTypes
<1> QED
  BY <1>1, <1>2, <1>3, <1>4, <1>5, <1>7 DEF HInv

LEMMA HavocKeeps ==
  ASSUME HInv, HavocNext PROVE HInv'
BY EnterKeeps, WordKeeps, DeleteKeeps, CloneKeeps, OverwriteKeeps, InsertKeeps, ReplaceKeeps,
   DuplicateKeeps, ExecuteKeeps, StopKeepsHavoc, RetryKeeps, SpliceKeeps DEF HavocNext, HavocStep

LEMMA HavocStutters ==
  ASSUME HInv, UNCHANGED hvars PROVE HInv'
BY DEF HInv, HavocTypeOK, hvars

LEMMA HavocFits ==
  ASSUME HInv PROVE MemoryFits
BY DEF HInv, MemoryFits

-----------------------------------------------------------------------------
(* FuzzOne: a bit flipped twice is the bit, whatever is flipped in between.*)

-----------------------------------------------------------------------------
(* FLIP_BIT undoes itself *)

Toggle(byte, m) == IF (byte \div m) % 2 = 1 THEN byte - m ELSE byte + m

\* The byte with the bits a, and the bits of a byte.
Value(a) == a[0] + 2 * a[1] + 4 * a[2] + 8 * a[3] + 16 * a[4] + 32 * a[5] + 64 * a[6] + 128 * a[7]
Bits == [0..7 -> {0, 1}]
Other(a, j) == [a EXCEPT ![j] = 1 - a[j]]

LEMMA PowersOfTwo ==
  /\ 2^0 = 1 /\ 2^1 = 2 /\ 2^2 = 4 /\ 2^3 = 8 /\ 2^4 = 16 /\ 2^5 = 32 /\ 2^6 = 64 /\ 2^7 = 128
OBVIOUS

LEMMA BitRange ==
  ASSUME NEW a \in Bits
  PROVE  /\ a[0] \in {0, 1} /\ a[1] \in {0, 1} /\ a[2] \in {0, 1} /\ a[3] \in {0, 1}
         /\ a[4] \in {0, 1} /\ a[5] \in {0, 1} /\ a[6] \in {0, 1} /\ a[7] \in {0, 1}
BY DEF Bits

LEMMA ByteHasBits ==
  ASSUME NEW x \in Byte
  PROVE  \E a \in Bits : Value(a) = x
<1> DEFINE a == [j \in 0..7 |-> IF j = 0 THEN x % 2 ELSE IF j = 1 THEN (x \div 2) % 2
                               ELSE IF j = 2 THEN (x \div 4) % 2 ELSE IF j = 3 THEN (x \div 8) % 2
                               ELSE IF j = 4 THEN (x \div 16) % 2 ELSE IF j = 5 THEN (x \div 32) % 2
                               ELSE IF j = 6 THEN (x \div 64) % 2 ELSE (x \div 128) % 2]
<1>1. x \in 0..255
  BY DEF Byte
<1>2. /\ x % 2 \in {0, 1} /\ (x \div 2) % 2 \in {0, 1} /\ (x \div 4) % 2 \in {0, 1} /\ (x \div 8) % 2 \in {0, 1}
      /\ (x \div 16) % 2 \in {0, 1} /\ (x \div 32) % 2 \in {0, 1} /\ (x \div 64) % 2 \in {0, 1}
      /\ (x \div 128) % 2 \in {0, 1}
  BY ONLY <1>1
<1>3. a \in Bits
  BY ONLY <1>2 DEF Bits
<1>4. x = (x % 2) + 2 * ((x \div 2) % 2) + 4 * ((x \div 4) % 2) + 8 * ((x \div 8) % 2) + 16 * ((x \div 16) % 2)
          + 32 * ((x \div 32) % 2) + 64 * ((x \div 64) % 2) + 128 * ((x \div 128) % 2)
  BY ONLY <1>1
<1>5. /\ a[0] = x % 2 /\ a[1] = (x \div 2) % 2 /\ a[2] = (x \div 4) % 2 /\ a[3] = (x \div 8) % 2
      /\ a[4] = (x \div 16) % 2 /\ a[5] = (x \div 32) % 2 /\ a[6] = (x \div 64) % 2 /\ a[7] = (x \div 128) % 2
  OBVIOUS
<1> HIDE DEF a
<1>6. Value(a) = x
  BY ONLY <1>4, <1>5 DEF Value
<1> QED
  BY ONLY <1>3, <1>6

LEMMA ValueIsByte ==
  ASSUME NEW a \in Bits
  PROVE  Value(a) \in Byte
BY ONLY BitRange, a \in Bits DEF Value, Byte


LEMMA BitOfValue ==
  ASSUME NEW a \in Bits, NEW j \in 0..7
  PROVE  (Value(a) \div 2^j) % 2 = a[j]
<1>1. PICK a0, a1, a2, a3, a4, a5, a6, a7 :
        /\ a0 = a[0] /\ a1 = a[1] /\ a2 = a[2] /\ a3 = a[3] /\ a4 = a[4] /\ a5 = a[5] /\ a6 = a[6] /\ a7 = a[7]
  OBVIOUS
<1>2. /\ a0 \in {0, 1} /\ a1 \in {0, 1} /\ a2 \in {0, 1} /\ a3 \in {0, 1}
      /\ a4 \in {0, 1} /\ a5 \in {0, 1} /\ a6 \in {0, 1} /\ a7 \in {0, 1}
  BY ONLY <1>1, BitRange, a \in Bits
<1>3. Value(a) = a0 + 2 * a1 + 4 * a2 + 8 * a3 + 16 * a4 + 32 * a5 + 64 * a6 + 128 * a7
  BY ONLY <1>1 DEF Value
<1>4. CASE j = 0
  <2>2. Value(a) % 2 = a0
    BY ONLY <1>2, <1>3
  <2>3. Value(a) \div 1 = Value(a)
    BY ONLY <1>2, <1>3
  <2> QED
    BY ONLY <1>1, <1>4, <2>2, <2>3, PowersOfTwo
<1>5. CASE j = 1
  <2>1. PICK h, l : h = a1 + 2 * a2 + 4 * a3 + 8 * a4 + 16 * a5 + 32 * a6 + 64 * a7 /\ l = a0
    OBVIOUS
  <2>2. h \in Int /\ l \in 0..1 /\ Value(a) = 2 * h + l /\ h % 2 = a1
    BY ONLY <1>2, <1>3, <2>1
  <2>3. Value(a) \div 2 = h
    BY ONLY <2>2
  <2> QED
    BY ONLY <1>1, <1>5, <2>2, <2>3, PowersOfTwo
<1>6. CASE j = 2
  <2>1. PICK h, l : h = a2 + 2 * a3 + 4 * a4 + 8 * a5 + 16 * a6 + 32 * a7 /\ l = a0 + 2 * a1
    OBVIOUS
  <2>2. h \in Int /\ l \in 0..3 /\ Value(a) = 4 * h + l /\ h % 2 = a2
    BY ONLY <1>2, <1>3, <2>1
  <2>3. Value(a) \div 4 = h
    BY ONLY <2>2
  <2> QED
    BY ONLY <1>1, <1>6, <2>2, <2>3, PowersOfTwo
<1>7. CASE j = 3
  <2>1. PICK h, l : h = a3 + 2 * a4 + 4 * a5 + 8 * a6 + 16 * a7 /\ l = a0 + 2 * a1 + 4 * a2
    OBVIOUS
  <2>2. h \in Int /\ l \in 0..7 /\ Value(a) = 8 * h + l /\ h % 2 = a3
    BY ONLY <1>2, <1>3, <2>1
  <2>3. Value(a) \div 8 = h
    BY ONLY <2>2
  <2> QED
    BY ONLY <1>1, <1>7, <2>2, <2>3, PowersOfTwo
<1>8. CASE j = 4
  <2>1. PICK h, l : h = a4 + 2 * a5 + 4 * a6 + 8 * a7 /\ l = a0 + 2 * a1 + 4 * a2 + 8 * a3
    OBVIOUS
  <2>2. h \in Int /\ l \in 0..15 /\ Value(a) = 16 * h + l /\ h % 2 = a4
    BY ONLY <1>2, <1>3, <2>1
  <2>3. Value(a) \div 16 = h
    BY ONLY <2>2
  <2> QED
    BY ONLY <1>1, <1>8, <2>2, <2>3, PowersOfTwo
<1>9. CASE j = 5
  <2>1. PICK h, l : h = a5 + 2 * a6 + 4 * a7 /\ l = a0 + 2 * a1 + 4 * a2 + 8 * a3 + 16 * a4
    OBVIOUS
  <2>2. h \in Int /\ l \in 0..31 /\ Value(a) = 32 * h + l /\ h % 2 = a5
    BY ONLY <1>2, <1>3, <2>1
  <2>3. Value(a) \div 32 = h
    BY ONLY <2>2
  <2> QED
    BY ONLY <1>1, <1>9, <2>2, <2>3, PowersOfTwo
<1>10. CASE j = 6
  <2>1. PICK h, l : h = a6 + 2 * a7 /\ l = a0 + 2 * a1 + 4 * a2 + 8 * a3 + 16 * a4 + 32 * a5
    OBVIOUS
  <2>2. h \in Int /\ l \in 0..63 /\ Value(a) = 64 * h + l /\ h % 2 = a6
    BY ONLY <1>2, <1>3, <2>1
  <2>3. Value(a) \div 64 = h
    BY ONLY <2>2
  <2> QED
    BY ONLY <1>1, <1>10, <2>2, <2>3, PowersOfTwo
<1>11. CASE j = 7
  <2>1. PICK h, l : h = a7 /\ l = a0 + 2 * a1 + 4 * a2 + 8 * a3 + 16 * a4 + 32 * a5 + 64 * a6
    OBVIOUS
  <2>2. h \in Int /\ l \in 0..127 /\ Value(a) = 128 * h + l /\ h % 2 = a7
    BY ONLY <1>2, <1>3, <2>1
  <2>3. Value(a) \div 128 = h
    BY ONLY <2>2
  <2> QED
    BY ONLY <1>1, <1>11, <2>2, <2>3, PowersOfTwo
<1> QED
  BY ONLY <1>4, <1>5, <1>6, <1>7, <1>8, <1>9, <1>10, <1>11, j \in 0..7

LEMMA OtherIs ==
  ASSUME NEW a \in Bits, NEW j \in 0..7
  PROVE  Other(a, j) \in Bits /\ \A i \in 0..7 : Other(a, j)[i] = IF i = j THEN 1 - a[i] ELSE a[i]
<1>1. a[j] \in {0, 1} /\ 1 - a[j] \in {0, 1}
  BY DEF Bits
<1> QED
  BY <1>1 DEF Other, Bits

LEMMA ToggleIs ==
  ASSUME NEW a \in Bits, NEW j \in 0..7
  PROVE  Toggle(Value(a), 2^j) = Value(Other(a, j))
<1>1. PICK b : b = Other(a, j)
  OBVIOUS
<1>2. \A i \in 0..7 : b[i] = IF i = j THEN 1 - a[i] ELSE a[i]
  BY ONLY <1>1, OtherIs, a \in Bits, j \in 0..7
<1>3. PICK v, p : v = Value(a) /\ p = 2^j
  OBVIOUS
<1>4. (v \div p) % 2 = a[j]
  BY ONLY <1>3, BitOfValue, a \in Bits, j \in 0..7
<1>5. Toggle(v, p) = IF a[j] = 1 THEN v - p ELSE v + p
  BY ONLY <1>4 DEF Toggle
<1>6. CASE j = 0
  <2>1. p = 1
    BY ONLY <1>3, <1>6, PowersOfTwo
  <2>2. /\ b[0] = 1 - a[0]
        /\ b[1] = a[1] /\ b[2] = a[2] /\ b[3] = a[3] /\ b[4] = a[4] /\ b[5] = a[5] /\ b[6] = a[6] /\ b[7] = a[7]
    BY ONLY <1>2, <1>6
  <2>3. Toggle(v, p) = IF a[0] = 1 THEN v - 1 ELSE v + 1
    BY ONLY <1>5, <1>6, <2>1
  <2>4. Value(b) = IF a[0] = 1 THEN v - 1 ELSE v + 1
    BY ONLY <1>3, <2>2, BitRange, a \in Bits DEF Value
  <2> QED
    BY ONLY <1>1, <1>3, <2>3, <2>4
<1>7. CASE j = 1
  <2>1. p = 2
    BY ONLY <1>3, <1>7, PowersOfTwo
  <2>2. /\ b[1] = 1 - a[1]
        /\ b[0] = a[0] /\ b[2] = a[2] /\ b[3] = a[3] /\ b[4] = a[4] /\ b[5] = a[5] /\ b[6] = a[6] /\ b[7] = a[7]
    BY ONLY <1>2, <1>7
  <2>3. Toggle(v, p) = IF a[1] = 1 THEN v - 2 ELSE v + 2
    BY ONLY <1>5, <1>7, <2>1
  <2>4. Value(b) = IF a[1] = 1 THEN v - 2 ELSE v + 2
    BY ONLY <1>3, <2>2, BitRange, a \in Bits DEF Value
  <2> QED
    BY ONLY <1>1, <1>3, <2>3, <2>4
<1>8. CASE j = 2
  <2>1. p = 4
    BY ONLY <1>3, <1>8, PowersOfTwo
  <2>2. /\ b[2] = 1 - a[2]
        /\ b[0] = a[0] /\ b[1] = a[1] /\ b[3] = a[3] /\ b[4] = a[4] /\ b[5] = a[5] /\ b[6] = a[6] /\ b[7] = a[7]
    BY ONLY <1>2, <1>8
  <2>3. Toggle(v, p) = IF a[2] = 1 THEN v - 4 ELSE v + 4
    BY ONLY <1>5, <1>8, <2>1
  <2>4. Value(b) = IF a[2] = 1 THEN v - 4 ELSE v + 4
    BY ONLY <1>3, <2>2, BitRange, a \in Bits DEF Value
  <2> QED
    BY ONLY <1>1, <1>3, <2>3, <2>4
<1>9. CASE j = 3
  <2>1. p = 8
    BY ONLY <1>3, <1>9, PowersOfTwo
  <2>2. /\ b[3] = 1 - a[3]
        /\ b[0] = a[0] /\ b[1] = a[1] /\ b[2] = a[2] /\ b[4] = a[4] /\ b[5] = a[5] /\ b[6] = a[6] /\ b[7] = a[7]
    BY ONLY <1>2, <1>9
  <2>3. Toggle(v, p) = IF a[3] = 1 THEN v - 8 ELSE v + 8
    BY ONLY <1>5, <1>9, <2>1
  <2>4. Value(b) = IF a[3] = 1 THEN v - 8 ELSE v + 8
    BY ONLY <1>3, <2>2, BitRange, a \in Bits DEF Value
  <2> QED
    BY ONLY <1>1, <1>3, <2>3, <2>4
<1>10. CASE j = 4
  <2>1. p = 16
    BY ONLY <1>3, <1>10, PowersOfTwo
  <2>2. /\ b[4] = 1 - a[4]
        /\ b[0] = a[0] /\ b[1] = a[1] /\ b[2] = a[2] /\ b[3] = a[3] /\ b[5] = a[5] /\ b[6] = a[6] /\ b[7] = a[7]
    BY ONLY <1>2, <1>10
  <2>3. Toggle(v, p) = IF a[4] = 1 THEN v - 16 ELSE v + 16
    BY ONLY <1>5, <1>10, <2>1
  <2>4. Value(b) = IF a[4] = 1 THEN v - 16 ELSE v + 16
    BY ONLY <1>3, <2>2, BitRange, a \in Bits DEF Value
  <2> QED
    BY ONLY <1>1, <1>3, <2>3, <2>4
<1>11. CASE j = 5
  <2>1. p = 32
    BY ONLY <1>3, <1>11, PowersOfTwo
  <2>2. /\ b[5] = 1 - a[5]
        /\ b[0] = a[0] /\ b[1] = a[1] /\ b[2] = a[2] /\ b[3] = a[3] /\ b[4] = a[4] /\ b[6] = a[6] /\ b[7] = a[7]
    BY ONLY <1>2, <1>11
  <2>3. Toggle(v, p) = IF a[5] = 1 THEN v - 32 ELSE v + 32
    BY ONLY <1>5, <1>11, <2>1
  <2>4. Value(b) = IF a[5] = 1 THEN v - 32 ELSE v + 32
    BY ONLY <1>3, <2>2, BitRange, a \in Bits DEF Value
  <2> QED
    BY ONLY <1>1, <1>3, <2>3, <2>4
<1>12. CASE j = 6
  <2>1. p = 64
    BY ONLY <1>3, <1>12, PowersOfTwo
  <2>2. /\ b[6] = 1 - a[6]
        /\ b[0] = a[0] /\ b[1] = a[1] /\ b[2] = a[2] /\ b[3] = a[3] /\ b[4] = a[4] /\ b[5] = a[5] /\ b[7] = a[7]
    BY ONLY <1>2, <1>12
  <2>3. Toggle(v, p) = IF a[6] = 1 THEN v - 64 ELSE v + 64
    BY ONLY <1>5, <1>12, <2>1
  <2>4. Value(b) = IF a[6] = 1 THEN v - 64 ELSE v + 64
    BY ONLY <1>3, <2>2, BitRange, a \in Bits DEF Value
  <2> QED
    BY ONLY <1>1, <1>3, <2>3, <2>4
<1>13. CASE j = 7
  <2>1. p = 128
    BY ONLY <1>3, <1>13, PowersOfTwo
  <2>2. /\ b[7] = 1 - a[7]
        /\ b[0] = a[0] /\ b[1] = a[1] /\ b[2] = a[2] /\ b[3] = a[3] /\ b[4] = a[4] /\ b[5] = a[5] /\ b[6] = a[6]
    BY ONLY <1>2, <1>13
  <2>3. Toggle(v, p) = IF a[7] = 1 THEN v - 128 ELSE v + 128
    BY ONLY <1>5, <1>13, <2>1
  <2>4. Value(b) = IF a[7] = 1 THEN v - 128 ELSE v + 128
    BY ONLY <1>3, <2>2, BitRange, a \in Bits DEF Value
  <2> QED
    BY ONLY <1>1, <1>3, <2>3, <2>4
<1> QED
  BY ONLY <1>6, <1>7, <1>8, <1>9, <1>10, <1>11, <1>12, <1>13, j \in 0..7

LEMMA ToggleTwice ==
  ASSUME NEW x \in Byte, NEW j \in 0..7
  PROVE  Toggle(x, 2^j) \in Byte /\ Toggle(Toggle(x, 2^j), 2^j) = x
<1>1. PICK a \in Bits : Value(a) = x
  BY ONLY ByteHasBits, x \in Byte
<1>2. PICK b : b = Other(a, j)
  OBVIOUS
<1>3. b \in Bits /\ \A i \in 0..7 : b[i] = IF i = j THEN 1 - a[i] ELSE a[i]
  BY ONLY <1>2, OtherIs, a \in Bits, j \in 0..7
<1>4. PICK c : c = Other(b, j)
  OBVIOUS
<1>5. c \in Bits /\ \A i \in 0..7 : c[i] = IF i = j THEN 1 - b[i] ELSE b[i]
  BY ONLY <1>3, <1>4, OtherIs, j \in 0..7
<1>6. Value(c) = Value(a)
  <2>1. \A i \in 0..7 : c[i] = a[i]
    <3> TAKE i \in 0..7
    <3>1. a[i] \in {0, 1}
      BY ONLY a \in Bits, i \in 0..7 DEF Bits
    <3> QED
      BY ONLY <1>3, <1>5, <3>1, i \in 0..7
  <2> QED
    BY ONLY <2>1 DEF Value
<1>7. Toggle(x, 2^j) = Value(b)
  BY ONLY <1>1, <1>2, ToggleIs, a \in Bits, j \in 0..7
<1>8. Toggle(Value(b), 2^j) = Value(c)
  BY ONLY <1>3, <1>4, ToggleIs, j \in 0..7
<1> QED
  BY ONLY <1>1, <1>3, <1>6, <1>7, <1>8, ValueIsByte

\* Toggling one bit does not touch another.
LEMMA ToggleSwaps ==
  ASSUME NEW x \in Byte, NEW j \in 0..7, NEW k \in 0..7
  PROVE  Toggle(Toggle(x, 2^j), 2^k) = Toggle(Toggle(x, 2^k), 2^j)
<1>1. PICK a \in Bits : Value(a) = x
  BY ONLY ByteHasBits, x \in Byte
<1>2. PICK b, c, d, e : b = Other(a, j) /\ c = Other(b, k) /\ d = Other(a, k) /\ e = Other(d, j)
  OBVIOUS
<1>3. /\ b \in Bits /\ \A i \in 0..7 : b[i] = IF i = j THEN 1 - a[i] ELSE a[i]
      /\ d \in Bits /\ \A i \in 0..7 : d[i] = IF i = k THEN 1 - a[i] ELSE a[i]
  BY ONLY <1>2, OtherIs, a \in Bits, j \in 0..7, k \in 0..7
<1>4. /\ \A i \in 0..7 : c[i] = IF i = k THEN 1 - b[i] ELSE b[i]
      /\ \A i \in 0..7 : e[i] = IF i = j THEN 1 - d[i] ELSE d[i]
  BY ONLY <1>2, <1>3, OtherIs, j \in 0..7, k \in 0..7
<1>5. Value(c) = Value(e)
  <2>1. \A i \in 0..7 : c[i] = e[i]
    BY ONLY <1>3, <1>4
  <2> QED
    BY ONLY <2>1 DEF Value
<1>6. Toggle(x, 2^j) = Value(b) /\ Toggle(x, 2^k) = Value(d)
  BY ONLY <1>1, <1>2, ToggleIs, a \in Bits, j \in 0..7, k \in 0..7
<1>7. Toggle(Value(b), 2^k) = Value(c) /\ Toggle(Value(d), 2^j) = Value(e)
  BY ONLY <1>2, <1>3, ToggleIs, j \in 0..7, k \in 0..7
<1> QED
  BY ONLY <1>5, <1>6, <1>7

\* Buffers of n bytes.
Buffers(n) == {s \in Seq(Byte) : Len(s) = n}

LEMMA BuffersAre ==
  ASSUME NEW n \in Nat
  PROVE  Buffers(n) = [1..n -> Byte]
<1>1. ASSUME NEW s \in Buffers(n) PROVE s \in [1..n -> Byte]
  BY <1>1 DEF Buffers
<1>2. ASSUME NEW s \in [1..n -> Byte] PROVE s \in Buffers(n)
  BY <1>2 DEF Buffers
<1> QED
  BY <1>1, <1>2

ByteOf(b) == (b \div 8) + 1
BitOf(b) == 7 - (b % 8)

LEMMA FlipIs ==
  ASSUME NEW n \in Nat, NEW buf \in Buffers(n), NEW b \in Nat, b < 8 * n
  PROVE  /\ BitOf(b) \in 0..7 /\ FLIP_BIT(buf, b) \in Buffers(n)
         /\ \A k \in 1..n :
              FLIP_BIT(buf, b)[k] = IF k = ByteOf(b) THEN Toggle(buf[k], 2^BitOf(b)) ELSE buf[k]
<1>1. PICK i, j : i = (b \div 8) + 1 /\ j = 7 - (b % 8)
  OBVIOUS
<1>12. i = ByteOf(b) /\ j = BitOf(b)
  BY ONLY <1>1 DEF ByteOf, BitOf
<1>2. i \in 1..n /\ j \in 0..7
  BY ONLY <1>1, n \in Nat, b \in Nat, b < 8 * n
<1>3. FLIP_BIT(buf, b) = [buf EXCEPT ![i] = Toggle(buf[i], 2^j)]
  BY ONLY <1>1 DEF FLIP_BIT, Toggle
<1>4. buf \in [1..n -> Byte]
  BY ONLY BuffersAre, n \in Nat, buf \in Buffers(n)
<1>5. Toggle(buf[i], 2^j) \in Byte
  <2>1. buf[i] \in Byte
    BY ONLY <1>2, <1>4
  <2> QED
    BY ONLY <1>2, <2>1, ToggleTwice
<1>6. PICK t : t = Toggle(buf[i], 2^j)
  OBVIOUS
<1>7. /\ [buf EXCEPT ![i] = t] \in [1..n -> Byte]
      /\ \A k \in 1..n : [buf EXCEPT ![i] = t][k] = IF k = i THEN t ELSE buf[k]
  BY ONLY <1>2, <1>4, <1>5, <1>6
<1>8. PICK f : f = FLIP_BIT(buf, b)
  OBVIOUS
<1>9. f = [buf EXCEPT ![i] = t]
  BY ONLY <1>3, <1>6, <1>8
<1>10. f \in Buffers(n)
  BY ONLY <1>7, <1>9, BuffersAre, n \in Nat
<1>11. \A k \in 1..n : f[k] = IF k = i THEN Toggle(buf[k], 2^j) ELSE buf[k]
  BY ONLY <1>6, <1>7, <1>9
<1> QED
  BY ONLY <1>2, <1>8, <1>10, <1>11, <1>12

LEMMA FlipStays ==
  ASSUME NEW n \in Nat, NEW buf \in Buffers(n), NEW b \in Nat, b < 8 * n
  PROVE  FLIP_BIT(buf, b) \in Buffers(n)
BY ONLY FlipIs, n \in Nat, buf \in Buffers(n), b \in Nat, b < 8 * n

LEMMA SameBuffer ==
  ASSUME NEW n \in Nat, NEW s \in Buffers(n), NEW t \in Buffers(n), \A k \in 1..n : s[k] = t[k]
  PROVE  s = t
<1>1. s \in [1..n -> Byte] /\ t \in [1..n -> Byte]
  BY ONLY BuffersAre, n \in Nat, s \in Buffers(n), t \in Buffers(n)
<1> QED
  BY ONLY <1>1, \A k \in 1..n : s[k] = t[k]

LEMMA FlipTwice ==
  ASSUME NEW n \in Nat, NEW buf \in Buffers(n), NEW b \in Nat, b < 8 * n
  PROVE  FLIP_BIT(FLIP_BIT(buf, b), b) = buf
<1>1. PICK f, g : f = FLIP_BIT(buf, b) /\ g = FLIP_BIT(f, b)
  OBVIOUS
<1>2. PICK i, j : i = ByteOf(b) /\ j = BitOf(b)
  OBVIOUS
<1>3. /\ j \in 0..7 /\ f \in Buffers(n) /\ \A k \in 1..n : f[k] = IF k = i THEN Toggle(buf[k], 2^j) ELSE buf[k]
  BY ONLY <1>1, <1>2, FlipIs, n \in Nat, buf \in Buffers(n), b \in Nat, b < 8 * n
<1>4. g \in Buffers(n) /\ \A k \in 1..n : g[k] = IF k = i THEN Toggle(f[k], 2^j) ELSE f[k]
  BY ONLY <1>1, <1>2, <1>3, FlipIs, n \in Nat, b \in Nat, b < 8 * n
<1>5. \A k \in 1..n : g[k] = buf[k]
  <2> TAKE k \in 1..n
  <2>1. buf[k] \in Byte
    BY ONLY BuffersAre, n \in Nat, buf \in Buffers(n), k \in 1..n
  <2>2. Toggle(Toggle(buf[k], 2^j), 2^j) = buf[k]
    BY ONLY <1>3, <2>1, ToggleTwice
  <2> QED
    BY ONLY <1>3, <1>4, <2>2, k \in 1..n
<1>6. g = buf
  BY ONLY <1>4, <1>5, SameBuffer, n \in Nat, buf \in Buffers(n)
<1> QED
  BY ONLY <1>1, <1>6

LEMMA FlipSwaps ==
  ASSUME NEW n \in Nat, NEW buf \in Buffers(n), NEW b \in Nat, b < 8 * n, NEW c \in Nat, c < 8 * n
  PROVE  FLIP_BIT(FLIP_BIT(buf, b), c) = FLIP_BIT(FLIP_BIT(buf, c), b)
<1>1. PICK f, g, u, v : /\ f = FLIP_BIT(buf, b) /\ g = FLIP_BIT(f, c)
                        /\ u = FLIP_BIT(buf, c) /\ v = FLIP_BIT(u, b)
  OBVIOUS
<1>2. PICK i, j, p, q : i = ByteOf(b) /\ j = BitOf(b) /\ p = ByteOf(c) /\ q = BitOf(c)
  OBVIOUS
<1>3. /\ j \in 0..7 /\ f \in Buffers(n) /\ \A k \in 1..n : f[k] = IF k = i THEN Toggle(buf[k], 2^j) ELSE buf[k]
  BY ONLY <1>1, <1>2, FlipIs, n \in Nat, buf \in Buffers(n), b \in Nat, b < 8 * n
<1>4. /\ q \in 0..7 /\ u \in Buffers(n) /\ \A k \in 1..n : u[k] = IF k = p THEN Toggle(buf[k], 2^q) ELSE buf[k]
  BY ONLY <1>1, <1>2, FlipIs, n \in Nat, buf \in Buffers(n), c \in Nat, c < 8 * n
<1>5. g \in Buffers(n) /\ \A k \in 1..n : g[k] = IF k = p THEN Toggle(f[k], 2^q) ELSE f[k]
  BY ONLY <1>1, <1>2, <1>3, FlipIs, n \in Nat, c \in Nat, c < 8 * n
<1>6. v \in Buffers(n) /\ \A k \in 1..n : v[k] = IF k = i THEN Toggle(u[k], 2^j) ELSE u[k]
  BY ONLY <1>1, <1>2, <1>4, FlipIs, n \in Nat, b \in Nat, b < 8 * n
<1>7. \A k \in 1..n : g[k] = v[k]
  <2> TAKE k \in 1..n
  <2>1. buf[k] \in Byte
    BY ONLY BuffersAre, n \in Nat, buf \in Buffers(n), k \in 1..n
  <2>2. Toggle(Toggle(buf[k], 2^j), 2^q) = Toggle(Toggle(buf[k], 2^q), 2^j)
    BY ONLY <1>3, <1>4, <2>1, ToggleSwaps
  <2> QED
    BY ONLY <1>3, <1>4, <1>5, <1>6, <2>2, k \in 1..n
<1>8. g = v
  BY ONLY <1>5, <1>6, <1>7, SameBuffer, n \in Nat
<1> QED
  BY ONLY <1>1, <1>8

\* Four steps, each undone by itself and indifferent to the order, are undone
\* by the same four.
Undoing(S, f0, f1, f2, f3) ==
  /\ f0 \in [S -> S] /\ f1 \in [S -> S] /\ f2 \in [S -> S] /\ f3 \in [S -> S]
  /\ \A x \in S : f0[f0[x]] = x /\ f1[f1[x]] = x /\ f2[f2[x]] = x /\ f3[f3[x]] = x
  /\ \A x \in S : /\ f0[f1[x]] = f1[f0[x]] /\ f0[f2[x]] = f2[f0[x]] /\ f0[f3[x]] = f3[f0[x]]
                  /\ f1[f2[x]] = f2[f1[x]] /\ f1[f3[x]] = f3[f1[x]] /\ f2[f3[x]] = f3[f2[x]]

EightSteps(f0, f1, f2, f3, x) == f3[f2[f1[f0[f3[f2[f1[f0[x]]]]]]]]

LEMMA FourUndone ==
  ASSUME NEW S, NEW f0, NEW f1, NEW f2, NEW f3, Undoing(S, f0, f1, f2, f3), NEW x \in S
  PROVE  EightSteps(f0, f1, f2, f3, x) = x
<1> USE DEF Undoing, EightSteps
<1>1. PICK a, b, c : a = f0[x] /\ b = f1[a] /\ c = f2[b]
  OBVIOUS
<1>2. a \in S /\ b \in S /\ c \in S
  BY <1>1
<1>3. PICK y, z : y = f1[x] /\ z = f2[y]
  OBVIOUS
<1>4. y \in S /\ z \in S
  BY <1>3
<1>5. f0[a] = x /\ f0[b] = y /\ f0[c] = z
  BY <1>1, <1>2, <1>3
<1>6. f0[f3[c]] = f3[z]
  BY <1>2, <1>5
<1>7. f1[y] = x /\ f1[z] = f2[x]
  BY <1>3, <1>4
<1>8. f1[f3[z]] = f3[f2[x]]
  BY <1>4, <1>7
<1>9. f2[x] \in S /\ f2[f3[f2[x]]] = f3[x]
  BY DEF Undoing
<1> QED
  BY <1>1, <1>6, <1>8, <1>9

\* The turns of the loop over the bits of one flip.
LEMMA FlipBitsIs ==
  ASSUME NEW buf, NEW b \in Nat, NEW w \in {1, 2, 4}, NEW f,
         f = [k \in 0..w |-> IF k = 0 THEN buf
                             ELSE IF k = 1 THEN FLIP_BIT(buf, b)
                             ELSE IF k = 2 THEN FLIP_BIT(FLIP_BIT(buf, b), b + 1)
                             ELSE IF k = 3 THEN FLIP_BIT(FLIP_BIT(FLIP_BIT(buf, b), b + 1), b + 2)
                             ELSE FLIP_BIT(FLIP_BIT(FLIP_BIT(FLIP_BIT(buf, b), b + 1), b + 2), b + 3)]
  PROVE  FlipBits(buf, b, w) = f[w]
<1> DEFINE h == CHOOSE h : h = [k \in 0..w |-> IF k = 0 THEN buf ELSE FLIP_BIT(h[k - 1], b + k - 1)]
<1>1. \A k \in 0..w : k = 0 \/ k = 1 \/ k = 2 \/ k = 3 \/ k = 4
  BY ONLY w \in {1, 2, 4}
<1>2. w \in 0..w /\ \A k \in 0..w : k # 0 => k - 1 \in 0..w
  BY ONLY w \in {1, 2, 4}
<1>3. b + 1 - 1 = b /\ b + 2 - 1 = b + 1 /\ b + 3 - 1 = b + 2 /\ b + 4 - 1 = b + 3
  BY ONLY b \in Nat
<1>4. /\ f[0] = buf
      /\ 1 \in 0..w => f[1] = FLIP_BIT(buf, b)
      /\ 2 \in 0..w => f[2] = FLIP_BIT(FLIP_BIT(buf, b), b + 1)
      /\ 3 \in 0..w => f[3] = FLIP_BIT(FLIP_BIT(FLIP_BIT(buf, b), b + 1), b + 2)
      /\ 4 \in 0..w => f[4] = FLIP_BIT(FLIP_BIT(FLIP_BIT(FLIP_BIT(buf, b), b + 1), b + 2), b + 3)
  <2>1. 0 \in 0..w
    BY ONLY w \in {1, 2, 4}
  <2> QED
    BY <2>1
<1>5. \A k \in 0..w : f[k] = IF k = 0 THEN buf ELSE FLIP_BIT(f[k - 1], b + k - 1)
  <2> TAKE k \in 0..w
  <2>1. CASE k = 0
    BY ONLY <1>4, <2>1
  <2>2. CASE k = 1
    <3>1. 1 - 1 = 0 /\ 1 \in 0..w
      BY ONLY <2>2, k \in 0..w
    <3> QED
      BY ONLY <1>3, <1>4, <2>2, <3>1
  <2>3. CASE k = 2
    <3>1. 2 - 1 = 1 /\ 1 \in 0..w /\ 2 \in 0..w
      BY ONLY <2>3, k \in 0..w, w \in {1, 2, 4}
    <3> QED
      BY ONLY <1>3, <1>4, <2>3, <3>1
  <2>4. CASE k = 3
    <3>1. 3 - 1 = 2 /\ 2 \in 0..w /\ 3 \in 0..w
      BY ONLY <2>4, k \in 0..w, w \in {1, 2, 4}
    <3> QED
      BY ONLY <1>3, <1>4, <2>4, <3>1
  <2>5. CASE k = 4
    <3>1. 4 - 1 = 3 /\ 3 \in 0..w /\ 4 \in 0..w
      BY ONLY <2>5, k \in 0..w, w \in {1, 2, 4}
    <3> QED
      BY ONLY <1>3, <1>4, <2>5, <3>1
  <2> QED
    BY ONLY <1>1, <2>1, <2>2, <2>3, <2>4, <2>5
<1>6. f = [k \in 0..w |-> IF k = 0 THEN buf ELSE FLIP_BIT(f[k - 1], b + k - 1)]
  <2>1. f = [k \in 0..w |-> f[k]]
    OBVIOUS
  <2> QED
    BY ONLY <1>5, <2>1
<1>7. h = [k \in 0..w |-> IF k = 0 THEN buf ELSE FLIP_BIT(h[k - 1], b + k - 1)]
  BY ONLY <1>6
<1>8. FlipBits(buf, b, w) = h[w]
  BY DEF FlipBits
<1> HIDE DEF h
<1>9. \A k \in 0..w : h[k] = IF k = 0 THEN buf ELSE FLIP_BIT(h[k - 1], b + k - 1)
  BY ONLY <1>7
<1>10. h[0] = f[0]
  BY ONLY <1>5, <1>9, w \in {1, 2, 4}
<1>11. 1 \in 0..w => h[1] = f[1]
  BY ONLY <1>5, <1>9, <1>10, w \in {1, 2, 4}
<1>12. 2 \in 0..w => h[2] = f[2]
  BY ONLY <1>5, <1>9, <1>11, w \in {1, 2, 4}
<1>13. 3 \in 0..w => h[3] = f[3]
  BY ONLY <1>5, <1>9, <1>12, w \in {1, 2, 4}
<1>14. 4 \in 0..w => h[4] = f[4]
  BY ONLY <1>5, <1>9, <1>13, w \in {1, 2, 4}
<1>15. h[w] = f[w]
  BY ONLY <1>11, <1>12, <1>14, w \in {1, 2, 4}
<1> QED
  BY ONLY <1>8, <1>15

LEMMA OneFlip ==
  ASSUME NEW buf, NEW b \in Nat PROVE FlipBits(buf, b, 1) = FLIP_BIT(buf, b)
<1>1. 1 \in {1, 2, 4} /\ 1 \in 0..1
  OBVIOUS
<1>2. PICK f :
        f = [k \in 0..1 |-> IF k = 0 THEN buf
                    ELSE IF k = 1 THEN FLIP_BIT(buf, b)
                    ELSE IF k = 2 THEN FLIP_BIT(FLIP_BIT(buf, b), b + 1)
                    ELSE IF k = 3 THEN FLIP_BIT(FLIP_BIT(FLIP_BIT(buf, b), b + 1), b + 2)
                    ELSE FLIP_BIT(FLIP_BIT(FLIP_BIT(FLIP_BIT(buf, b), b + 1), b + 2), b + 3)]
  OBVIOUS
<1>3. f[1] = FLIP_BIT(buf, b)
  BY ONLY <1>1, <1>2
<1>4. FlipBits(buf, b, 1) = f[1]
  BY ONLY <1>1, <1>2, FlipBitsIs, b \in Nat
<1> QED
  BY ONLY <1>3, <1>4

LEMMA TwoFlips ==
  ASSUME NEW buf, NEW b \in Nat PROVE FlipBits(buf, b, 2) = FLIP_BIT(FLIP_BIT(buf, b), b + 1)
<1>1. 2 \in {1, 2, 4} /\ 2 \in 0..2
  OBVIOUS
<1>2. PICK f :
        f = [k \in 0..2 |-> IF k = 0 THEN buf
                    ELSE IF k = 1 THEN FLIP_BIT(buf, b)
                    ELSE IF k = 2 THEN FLIP_BIT(FLIP_BIT(buf, b), b + 1)
                    ELSE IF k = 3 THEN FLIP_BIT(FLIP_BIT(FLIP_BIT(buf, b), b + 1), b + 2)
                    ELSE FLIP_BIT(FLIP_BIT(FLIP_BIT(FLIP_BIT(buf, b), b + 1), b + 2), b + 3)]
  OBVIOUS
<1>3. f[2] = FLIP_BIT(FLIP_BIT(buf, b), b + 1)
  BY ONLY <1>1, <1>2
<1>4. FlipBits(buf, b, 2) = f[2]
  BY ONLY <1>1, <1>2, FlipBitsIs, b \in Nat
<1> QED
  BY ONLY <1>3, <1>4

LEMMA FourFlips ==
  ASSUME NEW buf, NEW b \in Nat
  PROVE  FlipBits(buf, b, 4) = FLIP_BIT(FLIP_BIT(FLIP_BIT(FLIP_BIT(buf, b), b + 1), b + 2), b + 3)
<1>1. 4 \in {1, 2, 4} /\ 4 \in 0..4
  OBVIOUS
<1>2. PICK f :
        f = [k \in 0..4 |-> IF k = 0 THEN buf
                    ELSE IF k = 1 THEN FLIP_BIT(buf, b)
                    ELSE IF k = 2 THEN FLIP_BIT(FLIP_BIT(buf, b), b + 1)
                    ELSE IF k = 3 THEN FLIP_BIT(FLIP_BIT(FLIP_BIT(buf, b), b + 1), b + 2)
                    ELSE FLIP_BIT(FLIP_BIT(FLIP_BIT(FLIP_BIT(buf, b), b + 1), b + 2), b + 3)]
  OBVIOUS
<1>3. f[4] = FLIP_BIT(FLIP_BIT(FLIP_BIT(FLIP_BIT(buf, b), b + 1), b + 2), b + 3)
  BY ONLY <1>1, <1>2
<1>4. FlipBits(buf, b, 4) = f[4]
  BY ONLY <1>1, <1>2, FlipBitsIs, b \in Nat
<1> QED
  BY ONLY <1>3, <1>4

\* The walking bit flips restore the buffer by flipping the same bits again, in
\* the same order.
LEMMA FlipBitsUndone ==
  ASSUME NEW n \in Nat, NEW buf \in Buffers(n), NEW b \in Nat, NEW w \in {1, 2, 4}, b + w <= 8 * n
  PROVE  FlipBits(FlipBits(buf, b, w), b, w) = buf
<1>1. CASE w = 1
  <2>1. b < 8 * n
    BY ONLY <1>1, b + w <= 8 * n, n \in Nat, b \in Nat
  <2>2. FLIP_BIT(FLIP_BIT(buf, b), b) = buf
    BY ONLY <2>1, FlipTwice, n \in Nat, buf \in Buffers(n), b \in Nat
  <2> QED
    BY ONLY <1>1, <2>2, OneFlip, b \in Nat
<1>2. CASE w = 2
  <2>1. b < 8 * n /\ b + 1 \in Nat /\ b + 1 < 8 * n
    BY ONLY <1>2, b + w <= 8 * n, n \in Nat, b \in Nat
  <2>2. PICK x, y : x = FLIP_BIT(buf, b) /\ y = FLIP_BIT(x, b + 1)
    OBVIOUS
  <2>3. PICK u : u = FLIP_BIT(buf, b + 1)
    OBVIOUS
  <2>4. x \in Buffers(n) /\ u \in Buffers(n)
    BY ONLY <2>1, <2>2, <2>3, FlipStays, n \in Nat, buf \in Buffers(n), b \in Nat
  <2>5. y = FLIP_BIT(u, b)
    BY ONLY <2>1, <2>2, <2>3, FlipSwaps, n \in Nat, buf \in Buffers(n), b \in Nat
  <2>6. FLIP_BIT(y, b) = u
    BY ONLY <2>1, <2>4, <2>5, FlipTwice, n \in Nat, b \in Nat
  <2>7. FLIP_BIT(u, b + 1) = buf
    BY ONLY <2>1, <2>3, FlipTwice, n \in Nat, buf \in Buffers(n)
  <2>8. FlipBits(buf, b, 2) = y /\ FlipBits(y, b, 2) = buf
    BY ONLY <2>2, <2>6, <2>7, TwoFlips, b \in Nat
  <2> QED
    BY ONLY <1>2, <2>8
<1>3. CASE w = 4
  <2>1. /\ b < 8 * n /\ b + 1 \in Nat /\ b + 1 < 8 * n /\ b + 2 \in Nat /\ b + 2 < 8 * n
        /\ b + 3 \in Nat /\ b + 3 < 8 * n
    BY ONLY <1>3, b + w <= 8 * n, n \in Nat, b \in Nat
  <2>2. PICK S : S = Buffers(n)
    OBVIOUS
  <2>3. PICK f0, f1, f2, f3 : /\ f0 = [x \in S |-> FLIP_BIT(x, b)] /\ f1 = [x \in S |-> FLIP_BIT(x, b + 1)]
                              /\ f2 = [x \in S |-> FLIP_BIT(x, b + 2)] /\ f3 = [x \in S |-> FLIP_BIT(x, b + 3)]
    OBVIOUS
  <2>4. /\ \A x \in S : FLIP_BIT(x, b) \in S
        /\ \A x \in S : FLIP_BIT(x, b + 1) \in S
        /\ \A x \in S : FLIP_BIT(x, b + 2) \in S
        /\ \A x \in S : FLIP_BIT(x, b + 3) \in S
    BY ONLY <2>1, <2>2, FlipStays, n \in Nat, b \in Nat
  <2>5. f0 \in [S -> S] /\ f1 \in [S -> S] /\ f2 \in [S -> S] /\ f3 \in [S -> S]
    BY ONLY <2>3, <2>4
  <2>6. \A x \in S : /\ f0[x] = FLIP_BIT(x, b) /\ f1[x] = FLIP_BIT(x, b + 1)
                     /\ f2[x] = FLIP_BIT(x, b + 2) /\ f3[x] = FLIP_BIT(x, b + 3)
    BY ONLY <2>3
  <2>7. \A x \in S : f0[f0[x]] = x /\ f1[f1[x]] = x /\ f2[f2[x]] = x /\ f3[f3[x]] = x
    <3> TAKE x \in S
    <3>1. /\ FLIP_BIT(FLIP_BIT(x, b), b) = x /\ FLIP_BIT(FLIP_BIT(x, b + 1), b + 1) = x
          /\ FLIP_BIT(FLIP_BIT(x, b + 2), b + 2) = x /\ FLIP_BIT(FLIP_BIT(x, b + 3), b + 3) = x
      BY ONLY <2>1, <2>2, FlipTwice, n \in Nat, b \in Nat, x \in S
    <3> QED
      BY ONLY <2>4, <2>6, <3>1, x \in S
  <2>8. \A x \in S : /\ f0[f1[x]] = f1[f0[x]] /\ f0[f2[x]] = f2[f0[x]] /\ f0[f3[x]] = f3[f0[x]]
                     /\ f1[f2[x]] = f2[f1[x]] /\ f1[f3[x]] = f3[f1[x]] /\ f2[f3[x]] = f3[f2[x]]
    <3> TAKE x \in S
    <3>1. /\ FLIP_BIT(FLIP_BIT(x, b + 1), b) = FLIP_BIT(FLIP_BIT(x, b), b + 1)
          /\ FLIP_BIT(FLIP_BIT(x, b + 2), b) = FLIP_BIT(FLIP_BIT(x, b), b + 2)
          /\ FLIP_BIT(FLIP_BIT(x, b + 3), b) = FLIP_BIT(FLIP_BIT(x, b), b + 3)
      BY ONLY <2>1, <2>2, FlipSwaps, n \in Nat, b \in Nat, x \in S
    <3>2. /\ FLIP_BIT(FLIP_BIT(x, b + 2), b + 1) = FLIP_BIT(FLIP_BIT(x, b + 1), b + 2)
          /\ FLIP_BIT(FLIP_BIT(x, b + 3), b + 1) = FLIP_BIT(FLIP_BIT(x, b + 1), b + 3)
          /\ FLIP_BIT(FLIP_BIT(x, b + 3), b + 2) = FLIP_BIT(FLIP_BIT(x, b + 2), b + 3)
      BY ONLY <2>1, <2>2, FlipSwaps, n \in Nat, x \in S
    <3> QED
      BY ONLY <2>4, <2>6, <3>1, <3>2, x \in S
  <2>9. f3[f2[f1[f0[f3[f2[f1[f0[buf]]]]]]]] = buf
    <3>1. buf \in S
      BY ONLY <2>2, buf \in Buffers(n)
    <3>2. Undoing(S, f0, f1, f2, f3)
      BY ONLY <2>5, <2>7, <2>8 DEF Undoing
    <3> QED
      <4>1. EightSteps(f0, f1, f2, f3, buf) = buf
        BY ONLY <3>1, <3>2, FourUndone
      <4> QED
        BY ONLY <4>1 DEF EightSteps
  <2>10. PICK y : y = f3[f2[f1[f0[buf]]]]
    OBVIOUS
  <2>11. y \in S
    BY ONLY <2>2, <2>5, <2>10, buf \in Buffers(n)
  <2>12. FlipBits(buf, b, 4) = y
    <3>1. f0[buf] \in S /\ f1[f0[buf]] \in S /\ f2[f1[f0[buf]]] \in S
      BY ONLY <2>2, <2>5, buf \in Buffers(n)
    <3> QED
      BY ONLY <2>2, <2>6, <2>10, <3>1, FourFlips, b \in Nat, buf \in Buffers(n)
  <2>13. FlipBits(y, b, 4) = f3[f2[f1[f0[y]]]]
    <3>1. f0[y] \in S /\ f1[f0[y]] \in S /\ f2[f1[f0[y]]] \in S
      BY ONLY <2>5, <2>11
    <3> QED
      BY ONLY <2>6, <2>11, <3>1, FourFlips, b \in Nat
  <2> QED
    BY ONLY <1>3, <2>9, <2>10, <2>12, <2>13
<1> QED
  BY ONLY <1>1, <1>2, <1>3, w \in {1, 2, 4}

LEMMA FlipBitsStay ==
  ASSUME NEW n \in Nat, NEW buf \in Buffers(n), NEW b \in Nat, NEW w \in {1, 2, 4}, b + w <= 8 * n
  PROVE  FlipBits(buf, b, w) \in Buffers(n)
<1>1. CASE w = 1
  <2>1. b < 8 * n
    BY ONLY <1>1, b + w <= 8 * n, n \in Nat, b \in Nat
  <2> QED
    BY ONLY <1>1, <2>1, OneFlip, FlipStays, n \in Nat, buf \in Buffers(n), b \in Nat
<1>2. CASE w = 2
  <2>1. b < 8 * n /\ b + 1 \in Nat /\ b + 1 < 8 * n
    BY ONLY <1>2, b + w <= 8 * n, n \in Nat, b \in Nat
  <2> QED
    BY ONLY <1>2, <2>1, TwoFlips, FlipStays, n \in Nat, buf \in Buffers(n), b \in Nat
<1>3. CASE w = 4
  <2>1. /\ b < 8 * n /\ b + 1 \in Nat /\ b + 1 < 8 * n /\ b + 2 \in Nat /\ b + 2 < 8 * n
        /\ b + 3 \in Nat /\ b + 3 < 8 * n
    BY ONLY <1>3, b + w <= 8 * n, n \in Nat, b \in Nat
  <2> QED
    BY ONLY <1>3, <2>1, FourFlips, FlipStays, n \in Nat, buf \in Buffers(n), b \in Nat
<1> QED
  BY ONLY <1>1, <1>2, <1>3, w \in {1, 2, 4}

-----------------------------------------------------------------------------
(* FuzzOne: what is written over a part of the buffer is undone by the part.*)

\* x is buf but for the n bytes at offset i.
Within(x, buf, m, i, n) ==
  /\ DOMAIN x = 1..m
  /\ \A k \in 1..m : k \notin (i + 1)..(i + n) => x[k] = buf[k]

LEMMA AtIs ==
  ASSUME NEW m \in Nat, NEW buf \in Buffers(m), NEW i \in Nat, NEW n \in Nat, i + n <= m
  PROVE  /\ At(buf, i, n) \in Seq(Byte) /\ Len(At(buf, i, n)) = n /\ DOMAIN At(buf, i, n) = 1..n
         /\ \A j \in 1..n : At(buf, i, n)[j] = buf[i + j]
<1>1. buf \in Seq(Byte) /\ Len(buf) = m
  BY DEF Buffers
<1>2. PICK p, q : p = i + 1 /\ q = i + n
  OBVIOUS
<1>3. At(buf, i, n) = SubSeq(buf, p, q)
  BY ONLY <1>2 DEF At
<1>4. \A j \in p..q : j \in 1..Len(buf)
  BY ONLY <1>1, <1>2, m \in Nat, i \in Nat, n \in Nat, i + n <= m
<1>41. \A j \in 1..n : j \in 1..q - p + 1 /\ p + j - 1 = i + j /\ i + j \in 1..m
  BY ONLY <1>2, m \in Nat, i \in Nat, n \in Nat, i + n <= m
<1>42. q - p + 1 = n /\ p \in 1..m + 1 /\ q \in 0..m
  BY ONLY <1>2, m \in Nat, i \in Nat, n \in Nat, i + n <= m
<1>5. SubSeq(buf, p, q) = [j \in 1..n |-> buf[p + j - 1]]
  BY ONLY <1>1, <1>2, <1>42, n \in Nat, m \in Nat
<1>6. \A j \in 1..n : buf[p + j - 1] = buf[i + j] /\ buf[p + j - 1] \in Byte
  <2> TAKE j \in 1..n
  <2>1. p + j - 1 = i + j /\ i + j \in 1..m
    BY ONLY <1>41, j \in 1..n
  <2>2. \A k \in 1..m : buf[k] \in Byte
    BY ONLY BuffersAre, m \in Nat, buf \in Buffers(m)
  <2> QED
    BY ONLY <2>1, <2>2
<1>7. PICK a : a = [j \in 1..n |-> buf[p + j - 1]]
  OBVIOUS
<1>8. a \in [1..n -> Byte] /\ \A j \in 1..n : a[j] = buf[i + j]
  BY ONLY <1>6, <1>7
<1>9. a \in Seq(Byte) /\ Len(a) = n /\ DOMAIN a = 1..n
  BY ONLY <1>8, n \in Nat
<1> QED
  BY ONLY <1>3, <1>5, <1>7, <1>8, <1>9

LEMMA PutBytes ==
  ASSUME NEW m \in Nat, NEW buf, DOMAIN buf = 1..m, NEW i \in Nat, NEW n \in Nat, NEW w, DOMAIN w = 1..n
  PROVE  /\ DOMAIN Put(buf, i, w) = 1..m
         /\ \A k \in 1..m : Put(buf, i, w)[k] = IF k \in (i + 1)..(i + n) THEN w[k - i] ELSE buf[k]
<1>1. PICK p : p = Put(buf, i, w)
  OBVIOUS
<1>2. p = [k \in 1..m |-> IF k - i \in 1..n THEN w[k - i] ELSE buf[k]]
  BY ONLY <1>1, DOMAIN buf = 1..m, DOMAIN w = 1..n DEF Put
<1>3. \A k \in 1..m : k - i \in 1..n <=> k \in (i + 1)..(i + n)
  BY ONLY m \in Nat, i \in Nat, n \in Nat
<1>4. DOMAIN p = 1..m /\ \A k \in 1..m : p[k] = IF k - i \in 1..n THEN w[k - i] ELSE buf[k]
  BY ONLY <1>2
<1>5. \A k \in 1..m : p[k] = IF k \in (i + 1)..(i + n) THEN w[k - i] ELSE buf[k]
  BY ONLY <1>3, <1>4
<1> QED
  BY ONLY <1>1, <1>4, <1>5

\* What was written over a part of the buffer is undone by the part itself.
LEMMA PutBack ==
  ASSUME NEW m \in Nat, NEW buf \in Buffers(m), NEW i \in Nat, NEW n \in Nat, i + n <= m,
         NEW x, Within(x, buf, m, i, n)
  PROVE  Put(x, i, At(buf, i, n)) = buf
<1>1. PICK a : a = At(buf, i, n)
  OBVIOUS
<1>2. DOMAIN a = 1..n /\ \A j \in 1..n : a[j] = buf[i + j]
  BY ONLY <1>1, AtIs, m \in Nat, buf \in Buffers(m), i \in Nat, n \in Nat, i + n <= m
<1>3. DOMAIN x = 1..m /\ \A k \in 1..m : k \notin (i + 1)..(i + n) => x[k] = buf[k]
  BY ONLY Within(x, buf, m, i, n) DEF Within
<1>4. PICK p : p = Put(x, i, a)
  OBVIOUS
<1>5. DOMAIN p = 1..m /\ \A k \in 1..m : p[k] = IF k \in (i + 1)..(i + n) THEN a[k - i] ELSE x[k]
  BY ONLY <1>2, <1>3, <1>4, PutBytes, m \in Nat, i \in Nat, n \in Nat
<1>6. \A k \in 1..m : p[k] = buf[k]
  <2> TAKE k \in 1..m
  <2>1. CASE k \in (i + 1)..(i + n)
    <3>1. k - i \in 1..n /\ i + (k - i) = k
      BY ONLY <2>1, k \in 1..m, m \in Nat, i \in Nat, n \in Nat
    <3> QED
      BY ONLY <1>2, <1>5, <2>1, <3>1, k \in 1..m
  <2>2. CASE k \notin (i + 1)..(i + n)
    BY ONLY <1>3, <1>5, <2>2, k \in 1..m
  <2> QED
    BY ONLY <2>1, <2>2
<1>7. p = [k \in 1..m |-> p[k]]
  <2>1. Put(x, i, a) = [k \in DOMAIN x |-> IF k - i \in DOMAIN a THEN a[k - i] ELSE x[k]]
    BY ONLY DEF Put
  <2>2. PICK f : f = [k \in DOMAIN x |-> IF k - i \in DOMAIN a THEN a[k - i] ELSE x[k]]
    OBVIOUS
  <2>3. f = [k \in DOMAIN x |-> f[k]]
    BY ONLY <2>2
  <2> QED
    BY ONLY <1>3, <1>4, <2>1, <2>2, <2>3
<1>8. buf = [k \in 1..m |-> buf[k]]
  BY ONLY BuffersAre, m \in Nat, buf \in Buffers(m)
<1>9. p = buf
  BY ONLY <1>6, <1>7, <1>8
<1> QED
  BY ONLY <1>1, <1>4, <1>9

LEMMA WithinPut ==
  ASSUME NEW m \in Nat, NEW buf, NEW i \in Nat, NEW n \in Nat, NEW l \in Nat, l <= n,
         NEW x, Within(x, buf, m, i, l), NEW w, DOMAIN w = 1..n
  PROVE  Within(Put(x, i, w), buf, m, i, n)
<1>1. DOMAIN x = 1..m /\ \A k \in 1..m : k \notin (i + 1)..(i + l) => x[k] = buf[k]
  BY ONLY Within(x, buf, m, i, l) DEF Within
<1>2. PICK p : p = Put(x, i, w)
  OBVIOUS
<1>3. DOMAIN p = 1..m /\ \A k \in 1..m : p[k] = IF k \in (i + 1)..(i + n) THEN w[k - i] ELSE x[k]
  BY ONLY <1>1, <1>2, PutBytes, m \in Nat, i \in Nat, n \in Nat, DOMAIN w = 1..n
<1>4. \A k \in 1..m : k \notin (i + 1)..(i + n) => k \notin (i + 1)..(i + l)
  BY ONLY m \in Nat, i \in Nat, n \in Nat, l \in Nat, l <= n
<1>5. \A k \in 1..m : k \notin (i + 1)..(i + n) => p[k] = buf[k]
  BY ONLY <1>1, <1>3, <1>4
<1>6. Within(p, buf, m, i, n)
  BY ONLY <1>3, <1>5 DEF Within
<1> QED
  BY ONLY <1>2, <1>6

LEMMA WithinSelf ==
  ASSUME NEW m \in Nat, NEW buf \in Buffers(m), NEW i, NEW n
  PROVE  Within(buf, buf, m, i, n)
<1>1. DOMAIN buf = 1..m
  BY ONLY BuffersAre, m \in Nat, buf \in Buffers(m)
<1> QED
  BY ONLY <1>1 DEF Within

\* A walking byte, word or double word inverted twice.
LEMMA InvertedTwice ==
  ASSUME NEW m \in Nat, NEW buf \in Buffers(m), NEW i \in Nat, NEW n \in Nat, i + n <= m,
         NEW x, x = Put(buf, i, Inverted(At(buf, i, n)))
  PROVE  x \in Buffers(m) /\ Put(x, i, Inverted(At(x, i, n))) = buf
<1>1. PICK a, v : a = At(buf, i, n) /\ v = Inverted(a)
  OBVIOUS
<1>2. DOMAIN a = 1..n /\ \A j \in 1..n : a[j] = buf[i + j]
  BY ONLY <1>1, AtIs, m \in Nat, buf \in Buffers(m), i \in Nat, n \in Nat, i + n <= m
<1>3. buf \in [1..m -> Byte]
  BY ONLY BuffersAre, m \in Nat, buf \in Buffers(m)
<1>4. \A j \in 1..n : i + j \in 1..m
  BY ONLY m \in Nat, i \in Nat, n \in Nat, i + n <= m
<1>5. \A j \in 1..n : a[j] \in Byte
  BY ONLY <1>2, <1>3, <1>4
<1>6. DOMAIN v = 1..n /\ \A j \in 1..n : v[j] = 255 - a[j]
  BY ONLY <1>1, <1>2 DEF Inverted
<1>7. \A j \in 1..n : v[j] \in Byte /\ 255 - v[j] = a[j]
  <2> TAKE j \in 1..n
  <2>1. a[j] \in Byte /\ v[j] = 255 - a[j]
    BY ONLY <1>5, <1>6, j \in 1..n
  <2> QED
    BY ONLY <2>1 DEF Byte
<1>8. x = Put(buf, i, v)
  BY ONLY <1>1, x = Put(buf, i, Inverted(At(buf, i, n)))
<1>9. DOMAIN x = 1..m /\ \A k \in 1..m : x[k] = IF k \in (i + 1)..(i + n) THEN v[k - i] ELSE buf[k]
  BY ONLY <1>3, <1>6, <1>8, PutBytes, m \in Nat, i \in Nat, n \in Nat
<1>10. \A k \in 1..m : k \in (i + 1)..(i + n) => k - i \in 1..n
  BY ONLY m \in Nat, i \in Nat, n \in Nat
<1>11. \A k \in 1..m : x[k] \in Byte
  BY ONLY <1>3, <1>7, <1>9, <1>10
<1>12. x = [k \in 1..m |-> x[k]]
  <2>1. Put(buf, i, v) = [k \in DOMAIN buf |-> IF k - i \in DOMAIN v THEN v[k - i] ELSE buf[k]]
    BY ONLY DEF Put
  <2>2. PICK f : f = [k \in DOMAIN buf |-> IF k - i \in DOMAIN v THEN v[k - i] ELSE buf[k]]
    OBVIOUS
  <2>3. f = [k \in DOMAIN buf |-> f[k]] /\ DOMAIN buf = 1..m
    BY ONLY <1>3, <2>2
  <2> QED
    BY ONLY <1>8, <2>1, <2>2, <2>3
<1>13. x \in Buffers(m)
  <2>1. x \in [1..m -> Byte]
    BY ONLY <1>11, <1>12
  <2> QED
    BY ONLY <2>1, BuffersAre, m \in Nat
<1>14. Within(x, buf, m, i, n)
  BY ONLY <1>9 DEF Within
<1>15. PICK b : b = At(x, i, n)
  OBVIOUS
<1>16. DOMAIN b = 1..n /\ \A j \in 1..n : b[j] = x[i + j]
  <2>1. DOMAIN At(x, i, n) = 1..n /\ \A j \in 1..n : At(x, i, n)[j] = x[i + j]
    BY ONLY <1>13, AtIs, m \in Nat, i \in Nat, n \in Nat, i + n <= m
  <2> QED
    BY ONLY <1>15, <2>1
<1>17. \A j \in 1..n : b[j] = v[j]
  <2> TAKE j \in 1..n
  <2>1. i + j \in 1..m /\ i + j \in (i + 1)..(i + n) /\ i + j - i = j
    BY ONLY <1>4, j \in 1..n, i \in Nat, n \in Nat
  <2> QED
    BY ONLY <1>9, <1>16, <2>1, j \in 1..n
<1>18. Inverted(b) = a
  <2>1. Inverted(b) = [j \in 1..n |-> 255 - b[j]]
    BY ONLY <1>16 DEF Inverted
  <2>2. \A j \in 1..n : 255 - b[j] = a[j]
    BY ONLY <1>7, <1>17
  <2>3. a = [j \in 1..n |-> a[j]]
    <3>1. a \in Seq(Byte)
      BY ONLY <1>1, AtIs, m \in Nat, buf \in Buffers(m), i \in Nat, n \in Nat, i + n <= m
    <3> QED
      BY ONLY <1>2, <3>1
  <2> QED
    BY ONLY <2>1, <2>2, <2>3
<1>19. Put(x, i, At(buf, i, n)) = buf
  BY ONLY <1>14, PutBack, m \in Nat, buf \in Buffers(m), i \in Nat, n \in Nat, i + n <= m
<1>20. Put(x, i, Inverted(At(x, i, n))) = buf
  BY ONLY <1>1, <1>15, <1>18, <1>19
<1> QED
  BY ONLY <1>13, <1>20

-----------------------------------------------------------------------------
(* FuzzOne: the dictionary stays sorted as far as the stages use it.       *)

\* A sequence of length n sorted by p: its elements at other places.
LEMMA SortedIs ==
  ASSUME NEW T, NEW n \in Nat, NEW s \in [1..n -> T], NEW key, NEW t \in Sorted(s, key)
  PROVE  /\ t \in [1..n -> T] /\ \A i \in 1..n : \E j \in 1..n : t[i] = s[j]
         /\ \A i, j \in 1..n : i < j => key[t[i]] <= key[t[j]]
<1>1. DOMAIN s = 1..n
  BY ONLY s \in [1..n -> T]
<1>2. PICK p \in Bijection(1..n, 1..n) :
        /\ t = [i \in 1..n |-> s[p[i]]]
        /\ \A i, j \in 1..n : i < j => key[t[i]] <= key[t[j]]
  BY ONLY <1>1, t \in Sorted(s, key) DEF Sorted
<1>3. p \in [1..n -> 1..n]
  BY ONLY <1>2 DEF Bijection, Injection, Surjection
<1>4. \A i \in 1..n : p[i] \in 1..n /\ t[i] = s[p[i]] /\ s[p[i]] \in T
  BY ONLY <1>2, <1>3, s \in [1..n -> T]
<1>5. t \in [1..n -> T]
  BY ONLY <1>2, <1>4
<1> QED
  BY ONLY <1>2, <1>4, <1>5

\* The first USE_AUTO_EXTRAS entries of the table are sorted by length.
UsedNumber(n) == Smaller(USE_AUTO_EXTRAS, n)
ShortestFirst(a) ==
  \A i, j \in 1..UsedNumber(Len(a)) : i < j => Len(a[i].data) <= Len(a[j].data)

LEMMA UsedNumberIs ==
  ASSUME NEW n \in Nat PROVE UsedNumber(n) \in 0..n
BY DictionaryAssumption DEF UsedNumber, Smaller

LEMMA SeqIsFunction ==
  ASSUME NEW T, NEW s \in Seq(T), NEW n, n = Len(s)
  PROVE  n \in Nat /\ s \in [1..n -> T] /\ DOMAIN s = 1..n
OBVIOUS

LEMMA FunctionIsSeq ==
  ASSUME NEW T, NEW n \in Nat, NEW s \in [1..n -> T]
  PROVE  s \in Seq(T) /\ Len(s) = n /\ DOMAIN s = 1..n
OBVIOUS

LEMMA SortedExtras ==
  ASSUME NEW a \in Seq(AutoExtra), NEW t \in sort_a_extras(a)
  PROVE  t \in Seq(AutoExtra) /\ Len(t) = Len(a) /\ ShortestFirst(t)
<1> DEFINE T == AutoExtra
<1> HIDE DEF T
<1>1. PICK m : m = Len(a)
  OBVIOUS
<1>2. m \in Nat /\ a \in [1..m -> T] /\ DOMAIN a = 1..m
  <2>1. a \in Seq(T)
    BY ONLY a \in Seq(AutoExtra) DEF T
  <2> QED
    BY ONLY <1>1, <2>1, SeqIsFunction
<1>3. PICK n : n = UsedNumber(m)
  OBVIOUS
<1>4. n \in 0..m /\ n \in Nat
  BY ONLY <1>2, <1>3, UsedNumberIs
<1>5. PICK kh, kl : kh = [e \in ToSet(a) |-> -e.hit_cnt] /\ kl = [e \in ToSet(a) |-> Len(e.data)]
  OBVIOUS
<1>6. PICK byUse \in Sorted(a, kh) :
        t \in {top \o SubSeq(byUse, n + 1, m) : top \in Sorted(SubSeq(byUse, 1, n), kl)}
  <2>1. PICK byUse \in Sorted(a, [e \in ToSet(a) |-> -e.hit_cnt]) :
          t \in {top \o SubSeq(byUse, Smaller(USE_AUTO_EXTRAS, Len(a)) + 1, Len(a)) :
                 top \in Sorted(SubSeq(byUse, 1, Smaller(USE_AUTO_EXTRAS, Len(a))), [e \in ToSet(a) |-> Len(e.data)])}
    BY ONLY t \in sort_a_extras(a), ZenonT(30) DEF sort_a_extras
  <2>2. Smaller(USE_AUTO_EXTRAS, Len(a)) = n
    BY ONLY <1>1, <1>3 DEF UsedNumber
  <2> QED
    BY ONLY <1>1, <1>5, <2>1, <2>2, byUse \in Sorted(a, [e \in ToSet(a) |-> -e.hit_cnt]), Zenon
<1>7. byUse \in [1..m -> T] /\ \A i \in 1..m : \E j \in 1..m : byUse[i] = a[j]
  <2>1. m \in Nat /\ a \in [1..m -> T]
    BY ONLY <1>2
  <2>2. /\ byUse \in [1..m -> T] /\ \A i \in 1..m : \E j \in 1..m : byUse[i] = a[j]
        /\ \A i, j \in 1..m : i < j => kh[byUse[i]] <= kh[byUse[j]]
    BY ONLY <2>1, byUse \in Sorted(a, kh), SortedIs
  <2> QED
    BY ONLY <2>2
<1>8. byUse \in Seq(T) /\ Len(byUse) = m
  BY ONLY <1>2, <1>7, FunctionIsSeq
<1>9. PICK u, r : u = SubSeq(byUse, 1, n) /\ r = SubSeq(byUse, n + 1, m)
  OBVIOUS
<1>10. /\ u \in [1..n -> T] /\ \A i \in 1..n : u[i] = byUse[i]
  <2>1. 1..n \subseteq 1..m
    BY ONLY <1>2, <1>4
  <2>2. SubSeq(byUse, 1, n) = [i \in 1..n |-> byUse[i]]
    BY ONLY <1>2, <1>4, <1>8, <2>1
  <2>3. \A i \in 1..n : byUse[i] \in T
    BY ONLY <1>7, <2>1
  <2> QED
    BY ONLY <1>9, <2>2, <2>3
<1>11. r \in Seq(T) /\ Len(r) = m - n
  BY ONLY <1>2, <1>4, <1>8, <1>9
<1>12. PICK top \in Sorted(u, kl) : t = top \o r
  BY ONLY <1>6, <1>9
<1>13. /\ top \in [1..n -> T] /\ \A i \in 1..n : \E j \in 1..n : top[i] = u[j]
       /\ \A i, j \in 1..n : i < j => kl[top[i]] <= kl[top[j]]
  BY ONLY <1>4, <1>10, top \in Sorted(u, kl), SortedIs
<1>14. top \in Seq(T) /\ Len(top) = n
  BY ONLY <1>4, <1>13, FunctionIsSeq
<1>15. t \in Seq(T) /\ Len(t) = m /\ \A i \in 1..n : t[i] = top[i]
  <2>1. \A x, y \in Seq(T) : x \o y \in Seq(T) /\ Len(x \o y) = Len(x) + Len(y)
    OBVIOUS
  <2>2. \A x, y \in Seq(T) : \A i \in 1..Len(x) : (x \o y)[i] = x[i]
    OBVIOUS
  <2>3. n + (m - n) = m
    BY ONLY <1>2, <1>4
  <2> QED
    BY ONLY <1>11, <1>12, <1>14, <2>1, <2>2, <2>3
<1>16. \A i \in 1..n : top[i] \in ToSet(a)
  <2> TAKE i \in 1..n
  <2>1. PICK j \in 1..n : top[i] = u[j]
    BY ONLY <1>13, i \in 1..n
  <2>2. j \in 1..m /\ u[j] = byUse[j]
    BY ONLY <1>2, <1>4, <1>10, <2>1
  <2>3. PICK k \in 1..m : byUse[j] = a[k]
    BY ONLY <1>7, <2>2
  <2> QED
    BY ONLY <1>2, <2>1, <2>2, <2>3 DEF ToSet
<1>17. \A i \in 1..n : kl[top[i]] = Len(t[i].data)
  <2> TAKE i \in 1..n
  <2>1. kl[top[i]] = Len(top[i].data)
    BY ONLY <1>5, <1>16, i \in 1..n
  <2>2. t[i] = top[i]
    BY ONLY <1>15, i \in 1..n
  <2> QED
    BY ONLY <2>1, <2>2
<1>18. \A i, j \in 1..n : i < j => Len(t[i].data) <= Len(t[j].data)
  BY ONLY <1>13, <1>17
<1> QED
  BY ONLY <1>1, <1>3, <1>15, <1>18 DEF T, ShortestFirst

LEMMA ReplacedStays ==
  ASSUME NEW T, NEW s \in Seq(T), NEW i, NEW v, i \in DOMAIN s => v \in T
  PROVE  [s EXCEPT ![i] = v] \in Seq(T)
<1>1. PICK n : n = Len(s)
  OBVIOUS
<1>2. n \in Nat /\ s \in [1..n -> T] /\ DOMAIN s = 1..n
  BY ONLY <1>1, SeqIsFunction, s \in Seq(T)
<1>3. [s EXCEPT ![i] = v] \in [1..n -> T]
  BY ONLY <1>2, i \in DOMAIN s => v \in T
<1> QED
  BY ONLY <1>2, <1>3, FunctionIsSeq

LEMMA AddedExtras ==
  ASSUME NEW a \in Seq(AutoExtra), ShortestFirst(a), NEW mem \in Seq(Byte), NEW t \in maybe_add_auto(a, mem)
  PROVE  t \in Seq(AutoExtra) /\ ShortestFirst(t)
<1>1. PICK new : new = [data |-> mem, hit_cnt |-> 0]
  OBVIOUS
<1>2. new \in AutoExtra
  BY ONLY <1>1, mem \in Seq(Byte) DEF AutoExtra
<1>3. CASE Rejected(mem)
  BY ONLY <1>3, a \in Seq(AutoExtra), ShortestFirst(a), t \in maybe_add_auto(a, mem) DEF maybe_add_auto
<1>4. CASE ~Rejected(mem) /\ Known(a, mem) # {}
  <2>1. PICK i : i = Min(Known(a, mem))
    OBVIOUS
  <2>2. PICK b : b = [a EXCEPT ![i].hit_cnt = @ + 1]
    OBVIOUS
  <2>3. t \in sort_a_extras(b)
    BY ONLY <1>4, <2>1, <2>2, t \in maybe_add_auto(a, mem) DEF maybe_add_auto
  <2>4. b \in Seq(AutoExtra)
    <3>1. PICK c : c = [a[i] EXCEPT !.hit_cnt = @ + 1]
      OBVIOUS
    <3>2. b = [a EXCEPT ![i] = c]
      BY ONLY <2>2, <3>1
    <3>3. \A e \in AutoExtra : [e EXCEPT !.hit_cnt = @ + 1] \in AutoExtra
      BY ONLY DEF AutoExtra
    <3>4. i \in DOMAIN a => c \in AutoExtra
      BY ONLY <3>1, <3>3, a \in Seq(AutoExtra)
    <3> QED
      BY ONLY <3>2, <3>4, ReplacedStays, a \in Seq(AutoExtra)
  <2> QED
    BY ONLY <2>3, <2>4, SortedExtras
<1>5. CASE ~Rejected(mem) /\ Known(a, mem) = {} /\ Len(a) < MAX_AUTO_EXTRAS
  <2>1. t \in sort_a_extras(Append(a, new))
    BY ONLY <1>1, <1>5, t \in maybe_add_auto(a, mem) DEF maybe_add_auto
  <2>2. Append(a, new) \in Seq(AutoExtra)
    BY ONLY <1>2, a \in Seq(AutoExtra)
  <2> QED
    BY ONLY <2>1, <2>2, SortedExtras
<1>6. CASE ~Rejected(mem) /\ Known(a, mem) = {} /\ ~(Len(a) < MAX_AUTO_EXTRAS)
  <2>1. PICK i \in Evictable : t \in sort_a_extras([a EXCEPT ![i + 1] = new])
    BY ONLY <1>1, <1>6, t \in maybe_add_auto(a, mem) DEF maybe_add_auto
  <2>2. [a EXCEPT ![i + 1] = new] \in Seq(AutoExtra)
    BY ONLY <1>2, ReplacedStays, a \in Seq(AutoExtra)
  <2> QED
    BY ONLY <2>1, <2>2, SortedExtras
<1> QED
  BY ONLY <1>3, <1>4, <1>5, <1>6

-----------------------------------------------------------------------------
(* FuzzOne: tokens written over one another, shortest first.               *)

\* Tokens of which the used ones are written shortest first.
TokensSorted(tokens, used, n) ==
  /\ n \in Nat /\ Len(tokens) = n
  /\ \A k \in 1..n : Len(tokens[k]) \in Nat /\ DOMAIN tokens[k] = 1..Len(tokens[k])
  /\ \A i, j \in 1..n : i \in used /\ j \in used /\ i < j => Len(tokens[i]) <= Len(tokens[j])

\* After the first k tokens the buffer differs within the last one written,
\* and that is no longer than those to come.
WrittenTo(acc, k, tokens, used, n, m) ==
  /\ acc.last_len \in Nat /\ turn + acc.last_len <= m
  /\ Within(acc.buf, out_buf, m, turn, acc.last_len)
  /\ \A j \in 1..n : j > k /\ j \in used => acc.last_len <= Len(tokens[j])

LEMMA WriteKeeps ==
  ASSUME NEW m \in Nat, len = m, turn \in Nat, NEW n, NEW tokens, NEW used, TokensSorted(tokens, used, n),
         NEW k \in 0..n, k < n, NEW acc, WrittenTo(acc, k, tokens, used, n, m), k + 1 \in used
  PROVE  WrittenTo(Write(acc, tokens[k + 1]), k + 1, tokens, used, n, m)
<1>1. PICK t, i : t = tokens[k + 1] /\ i = turn
  OBVIOUS
<1>2. n \in Nat /\ k + 1 \in 1..n
  BY ONLY TokensSorted(tokens, used, n), k \in 0..n, k < n DEF TokensSorted
<1>3. /\ acc.last_len \in Nat /\ i + acc.last_len <= m
      /\ Within(acc.buf, out_buf, m, i, acc.last_len)
      /\ \A j \in 1..n : j > k /\ j \in used => acc.last_len <= Len(tokens[j])
  BY ONLY <1>1, WrittenTo(acc, k, tokens, used, n, m) DEF WrittenTo
<1>4. Len(t) \in Nat /\ DOMAIN t = 1..Len(t)
  BY ONLY <1>1, <1>2, TokensSorted(tokens, used, n) DEF TokensSorted
<1>5. acc.last_len <= Len(t)
  <2>1. k + 1 > k
    BY ONLY k \in 0..n
  <2> QED
    BY ONLY <1>1, <1>2, <1>3, <2>1, k + 1 \in used
<1>6. \A j \in 1..n : j > k + 1 => j > k
  BY ONLY <1>2, k \in 0..n
<1>7. \A j \in 1..n : j > k + 1 /\ j \in used => Len(t) <= Len(tokens[j])
  <2> TAKE j \in 1..n
  <2>1. j > k + 1 => k + 1 < j
    BY ONLY <1>2, j \in 1..n, k \in 0..n
  <2>2. \A a, b \in 1..n : a \in used /\ b \in used /\ a < b => Len(tokens[a]) <= Len(tokens[b])
    BY ONLY TokensSorted(tokens, used, n) DEF TokensSorted
  <2> QED
    BY ONLY <1>1, <1>2, <2>1, <2>2, j \in 1..n, k + 1 \in used
<1>8. PICK w : w = Write(acc, t)
  OBVIOUS
<1>9. \/ w = acc
      \/ /\ ~(Len(t) > m - i)
         /\ w = [buf |-> Put(acc.buf, i, t), last_len |-> Len(t), runs |-> acc.runs \cup {Put(acc.buf, i, t)}]
  BY ONLY <1>1, <1>8, len = m DEF Write
<1>10. CASE w = acc
  <2>1. \A j \in 1..n : j > k + 1 /\ j \in used => acc.last_len <= Len(tokens[j])
    BY ONLY <1>3, <1>6
  <2> QED
    BY ONLY <1>1, <1>3, <1>8, <1>10, <2>1 DEF WrittenTo
<1>11. CASE /\ ~(Len(t) > m - i)
            /\ w = [buf |-> Put(acc.buf, i, t), last_len |-> Len(t), runs |-> acc.runs \cup {Put(acc.buf, i, t)}]
  <2>1. w.buf = Put(acc.buf, i, t) /\ w.last_len = Len(t)
    BY ONLY <1>11
  <2>2. i + Len(t) <= m
    BY ONLY <1>1, <1>4, <1>11, m \in Nat, turn \in Nat
  <2>3. Within(Put(acc.buf, i, t), out_buf, m, i, Len(t))
    <3>1. i \in Nat
      BY ONLY <1>1, turn \in Nat
    <3> QED
      BY ONLY <1>3, <1>4, <1>5, <3>1, WithinPut, m \in Nat
  <2>4. WrittenTo(w, k + 1, tokens, used, n, m)
    BY ONLY <1>1, <1>4, <1>7, <2>1, <2>2, <2>3 DEF WrittenTo
  <2> QED
    BY ONLY <1>1, <1>8, <2>4
<1> QED
  BY ONLY <1>9, <1>10, <1>11

\* The recursive function of Overwritten, after n tokens.
Afters(f, n, tokens, used, z) ==
  f = [k \in 0..n |-> IF k = 0 THEN z
                      ELSE IF k \in used THEN Write(f[k - 1], tokens[k]) ELSE f[k - 1]]

LEMMA AftersIs ==
  ASSUME NEW n \in Nat, NEW tokens, NEW used, NEW z, NEW f, Afters(f, n, tokens, used, z)
  PROVE  /\ f[0] = z
         /\ \A k \in 1..n : f[k] = IF k \in used THEN Write(f[k - 1], tokens[k]) ELSE f[k - 1]
<1>1. \A k \in 0..n : f[k] = IF k = 0 THEN z
                             ELSE IF k \in used THEN Write(f[k - 1], tokens[k]) ELSE f[k - 1]
  BY ONLY Afters(f, n, tokens, used, z) DEF Afters
<1>2. 0 \in 0..n /\ \A k \in 1..n : k \in 0..n /\ k # 0
  BY ONLY n \in Nat
<1> QED
  BY ONLY <1>1, <1>2

LEMMA AftersExist ==
  ASSUME NEW n \in Nat, NEW tokens, NEW used, NEW z
  PROVE  \E f : Afters(f, n, tokens, used, z)
<1> DEFINE Good(m) == \E f : Afters(f, m, tokens, used, z)
           Lacking == {m \in Nat : ~Good(m)}
<1>1. Good(0)
  <2> DEFINE f == [k \in 0..0 |-> z]
  <2>1. f = [k \in 0..0 |-> IF k = 0 THEN z
                            ELSE IF k \in used THEN Write(f[k - 1], tokens[k]) ELSE f[k - 1]]
    <3>1. \A k \in 0..0 : k = 0
      OBVIOUS
    <3> QED
      BY <3>1
  <2> HIDE DEF f
  <2>2. Afters(f, 0, tokens, used, z)
    BY ONLY <2>1 DEF Afters
  <2> QED
    BY ONLY <2>2
<1>2. ASSUME NEW m \in Nat, Good(m) PROVE Good(m + 1)
  <2>1. PICK f : Afters(f, m, tokens, used, z)
    BY <1>2
  <2>2. /\ f[0] = z
        /\ \A k \in 1..m : f[k] = IF k \in used THEN Write(f[k - 1], tokens[k]) ELSE f[k - 1]
    BY ONLY <2>1, AftersIs, m \in Nat
  <2>3. PICK top : top = IF m + 1 \in used THEN Write(f[m], tokens[m + 1]) ELSE f[m]
    OBVIOUS
  <2>4. PICK h : h = [k \in 0..m + 1 |-> IF k = m + 1 THEN top ELSE f[k]]
    OBVIOUS
  <2>5. \A k \in 0..m + 1 : h[k] = IF k = m + 1 THEN top ELSE f[k]
    BY ONLY <2>4
  <2>6. \A k \in 0..m + 1 : h[k] = IF k = 0 THEN z
                                   ELSE IF k \in used THEN Write(h[k - 1], tokens[k]) ELSE h[k - 1]
    <3> TAKE k \in 0..m + 1
    <3>1. CASE k = m + 1
      <4>1. h[k] = top /\ k # 0
        BY ONLY <2>5, <3>1, k \in 0..m + 1, m \in Nat
      <4>2. k - 1 = m /\ m \in 0..m + 1 /\ m # m + 1
        BY ONLY <3>1, m \in Nat
      <4>3. h[k - 1] = f[m]
        BY ONLY <2>5, <4>2
      <4> QED
        BY ONLY <2>3, <3>1, <4>1, <4>3
    <3>2. CASE k = 0
      <4>1. k # m + 1
        BY ONLY <3>2, m \in Nat
      <4> QED
        BY ONLY <2>2, <2>5, <3>2, <4>1, k \in 0..m + 1
    <3>3. CASE k # m + 1 /\ k # 0
      <4>1. k \in 1..m /\ k - 1 \in 0..m + 1 /\ k - 1 # m + 1
        BY ONLY <3>3, k \in 0..m + 1, m \in Nat
      <4>2. h[k] = f[k] /\ h[k - 1] = f[k - 1]
        BY ONLY <2>5, <3>3, <4>1, k \in 0..m + 1
      <4> QED
        BY ONLY <2>2, <3>3, <4>1, <4>2
    <3> QED
      BY ONLY <3>1, <3>2, <3>3
  <2>7. h = [k \in 0..m + 1 |-> h[k]]
    BY ONLY <2>4
  <2>8. Afters(h, m + 1, tokens, used, z)
    BY ONLY <2>6, <2>7 DEF Afters
  <2> QED
    BY ONLY <2>8
<1> HIDE DEF Good
<1>3. CASE Lacking = {}
  <2>1. Good(n)
    BY <1>3
  <2> QED
    BY ONLY <2>1 DEF Good
<1>4. CASE Lacking # {}
  <2>1. PICK m \in Lacking : \A k \in Lacking : m <= k
    BY <1>4, SmallestOf, Lacking \in SUBSET Nat
  <2>2. m # 0 /\ m \in Nat /\ ~Good(m)
    BY <1>1
  <2>3. m - 1 \in Nat /\ m - 1 \notin Lacking /\ m - 1 + 1 = m
    BY <2>1, <2>2
  <2> QED
    BY <1>2, <2>2, <2>3
<1> QED
  BY ONLY <1>3, <1>4

LEMMA OverwrittenIs ==
  ASSUME NEW m \in Nat, len = m, turn \in Nat, turn <= m, out_buf \in Buffers(m),
         NEW tokens, NEW used, TokensSorted(tokens, used, Len(tokens))
  PROVE  /\ Overwritten(tokens, used).last_len \in Nat
         /\ turn + Overwritten(tokens, used).last_len <= m
         /\ Within(Overwritten(tokens, used).buf, out_buf, m, turn, Overwritten(tokens, used).last_len)
<1>1. PICK n : n = Len(tokens)
  OBVIOUS
<1>2. TokensSorted(tokens, used, n) /\ n \in Nat
  BY ONLY <1>1, TokensSorted(tokens, used, Len(tokens)) DEF TokensSorted
<1>3. PICK z : z = [buf |-> out_buf, last_len |-> 0, runs |-> {}]
  OBVIOUS
<1> DEFINE f == CHOOSE f : f = [k \in 0..n |-> IF k = 0 THEN z
                      ELSE IF k \in used THEN Write(f[k - 1], tokens[k]) ELSE f[k - 1]]
<1>4. Overwritten(tokens, used) = f[n]
  BY ONLY <1>1, <1>3 DEF Overwritten
<1>5. f = [k \in 0..n |-> IF k = 0 THEN z
                      ELSE IF k \in used THEN Write(f[k - 1], tokens[k]) ELSE f[k - 1]]
  <2>1. \E g : g = [k \in 0..n |-> IF k = 0 THEN z
                      ELSE IF k \in used THEN Write(g[k - 1], tokens[k]) ELSE g[k - 1]]
    <3>1. PICK g : Afters(g, n, tokens, used, z)
      BY ONLY <1>2, AftersExist
    <3> QED
      BY ONLY <3>1, Zenon DEF Afters
  <2> QED
    BY ONLY <2>1
<1> HIDE DEF f
<1>6. Afters(f, n, tokens, used, z)
  BY ONLY <1>5 DEF Afters
<1>7. /\ f[0] = z
      /\ \A k \in 1..n : f[k] = IF k \in used THEN Write(f[k - 1], tokens[k]) ELSE f[k - 1]
  BY ONLY <1>2, <1>6, AftersIs
<1> DEFINE Good(k) == k <= n => WrittenTo(f[k], k, tokens, used, n, m)
           Lacking == {k \in Nat : ~Good(k)}
<1>8. Good(0)
  <2>1. z.last_len = 0 /\ z.buf = out_buf
    BY ONLY <1>3
  <2>2. Within(out_buf, out_buf, m, turn, 0)
    BY ONLY WithinSelf, m \in Nat, out_buf \in Buffers(m)
  <2>3. turn + 0 <= m
    BY ONLY turn \in Nat, turn <= m, m \in Nat
  <2>4. \A j \in 1..n : 0 <= Len(tokens[j])
    BY ONLY <1>2 DEF TokensSorted
  <2>5. 0 \in Nat
    OBVIOUS
  <2>6. WrittenTo(z, 0, tokens, used, n, m)
    BY ONLY <2>1, <2>2, <2>3, <2>4, <2>5 DEF WrittenTo
  <2> QED
    BY ONLY <1>7, <2>6
<1>9. ASSUME NEW k \in Nat, Good(k) PROVE Good(k + 1)
  <2> SUFFICES ASSUME k + 1 <= n PROVE WrittenTo(f[k + 1], k + 1, tokens, used, n, m)
    OBVIOUS
  <2>1. k \in 0..n /\ k < n /\ k <= n /\ k + 1 \in 1..n /\ k + 1 - 1 = k
    BY ONLY <1>2, k \in Nat, k + 1 <= n
  <2>2. PICK acc : acc = f[k]
    OBVIOUS
  <2>3. WrittenTo(acc, k, tokens, used, n, m)
    BY <1>9, <2>1, <2>2
  <2>4. f[k + 1] = IF k + 1 \in used THEN Write(acc, tokens[k + 1]) ELSE acc
    BY ONLY <1>7, <2>1, <2>2
  <2>5. CASE k + 1 \in used
    <3>1. WrittenTo(Write(acc, tokens[k + 1]), k + 1, tokens, used, n, m)
      BY ONLY <1>2, <2>1, <2>3, <2>5, WriteKeeps, m \in Nat, len = m, turn \in Nat
    <3> QED
      BY ONLY <2>4, <2>5, <3>1
  <2>6. CASE k + 1 \notin used
    <3>1. \A j \in 1..n : j > k + 1 => j > k
      BY ONLY <1>2, k \in Nat
    <3>2. WrittenTo(acc, k + 1, tokens, used, n, m)
      BY ONLY <2>3, <3>1 DEF WrittenTo
    <3> QED
      BY ONLY <2>4, <2>6, <3>2
  <2> QED
    BY ONLY <2>5, <2>6
<1> HIDE DEF Good
<1>10. Good(n)
  <2>1. CASE Lacking = {}
    BY <1>2, <2>1
  <2>2. CASE Lacking # {}
    <3>1. PICK k \in Lacking : \A j \in Lacking : k <= j
      BY <2>2, SmallestOf, Lacking \in SUBSET Nat
    <3>2. k # 0 /\ k \in Nat /\ ~Good(k)
      BY <1>8
    <3>3. k - 1 \in Nat /\ k - 1 \notin Lacking /\ k - 1 + 1 = k
      BY <3>1, <3>2
    <3> QED
      BY <1>9, <3>2, <3>3
  <2> QED
    BY ONLY <2>1, <2>2
<1>11. WrittenTo(f[n], n, tokens, used, n, m)
  <2>1. n <= n
    BY ONLY <1>2
  <2> QED
    BY ONLY <1>10, <2>1 DEF Good
<1>12. PICK o : o = f[n]
  OBVIOUS
<1>13. o.last_len \in Nat /\ turn + o.last_len <= m /\ Within(o.buf, out_buf, m, turn, o.last_len)
  BY ONLY <1>11, <1>12 DEF WrittenTo
<1> QED
  BY ONLY <1>4, <1>12, <1>13

-----------------------------------------------------------------------------
(* FuzzOne: the order of the stages.                                       *)

\* The stages in their order, those before the insertions first.
BeforeInsert == BitFlips \cup ByteFlips \cup Arith \cup Interest \cup {"ext_UO"}
DetStages == BeforeInsert \cup {"ext_UI", "ext_AO"}

TurnsOf(s, l) == CASE s \in BitFlips -> 8 * l - Width(s) + 1
                   [] s = "ext_UI" -> l + 1
                   [] OTHER -> l - Width(s) + 1

\* What every turn of a stage finds: the seed in the buffer, a turn that fits
\* in it, and as much of the seed in ex_tmp as the stage has walked over.
StagesInv ==
  /\ stage \in DetStages \cup {"havoc", "abandoned", "over"}
  /\ in_buf \in Seq(Byte) /\ out_buf \in Seq(Byte) /\ ex_tmp \in Seq(Byte) /\ a_collect \in Seq(Byte)
  /\ turn \in Nat /\ passed_det \in BOOLEAN
  /\ a_extras \in Seq(AutoExtra) /\ ShortestFirst(a_extras)
  /\ stage # "over" => in_buf # <<>>
  /\ stage \notin {"abandoned", "over"} => out_buf = in_buf /\ ex_tmp = SubSeq(in_buf, 1, Len(ex_tmp))
  /\ stage \in DetStages => turn < TurnsOf(stage, Len(in_buf))
  /\ stage \in BeforeInsert => ex_tmp = <<>>
  /\ stage = "ext_UI" => Len(ex_tmp) = turn

LEMMA StageTable ==
  /\ DOMAIN AllStages = 1..16
  /\ AllStages[1] = "flip1" /\ AllStages[2] = "flip2" /\ AllStages[3] = "flip4"
  /\ AllStages[4] = "flip8" /\ AllStages[5] = "flip16" /\ AllStages[6] = "flip32"
  /\ AllStages[7] = "arith8" /\ AllStages[8] = "arith16" /\ AllStages[9] = "arith32"
  /\ AllStages[10] = "int8" /\ AllStages[11] = "int16" /\ AllStages[12] = "int32"
  /\ AllStages[13] = "ext_UO" /\ AllStages[14] = "ext_UI" /\ AllStages[15] = "ext_AO" /\ AllStages[16] = "havoc"
BY DEF AllStages

LEMMA StagePlaces ==
  ASSUME NEW k \in 1..16
  PROVE  /\ AllStages[k] \in BeforeInsert <=> k <= 13
         /\ AllStages[k] = "ext_UI" <=> k = 14
         /\ AllStages[k] = "havoc" <=> k = 16
         /\ AllStages[k] \in DetStages \cup {"havoc"}
<1>1. \/ k = 1 \/ k = 2 \/ k = 3 \/ k = 4 \/ k = 5 \/ k = 6 \/ k = 7 \/ k = 8
      \/ k = 9 \/ k = 10 \/ k = 11 \/ k = 12 \/ k = 13 \/ k = 14 \/ k = 15 \/ k = 16
  BY ONLY k \in 1..16
<1>2. CASE k <= 13
  <2>1. AllStages[k] \in BeforeInsert
    BY ONLY <1>1, <1>2, StageTable DEF BeforeInsert, BitFlips, ByteFlips, Arith, Interest
  <2>2. \A s \in BeforeInsert : s # "ext_UI" /\ s # "havoc"
    BY ONLY DEF BeforeInsert, BitFlips, ByteFlips, Arith, Interest
  <2>3. k # 14 /\ k # 16
    BY ONLY <1>2, k \in 1..16
  <2> QED
    BY ONLY <1>2, <2>1, <2>2, <2>3 DEF DetStages
<1>3. CASE ~(k <= 13)
  <2>1. k = 14 \/ k = 15 \/ k = 16
    BY ONLY <1>3, k \in 1..16
  <2>2. "ext_UI" \notin BeforeInsert /\ "ext_AO" \notin BeforeInsert /\ "havoc" \notin BeforeInsert
    BY ONLY DEF BeforeInsert, BitFlips, ByteFlips, Arith, Interest
  <2>3. AllStages[14] = "ext_UI" /\ AllStages[15] = "ext_AO" /\ AllStages[16] = "havoc"
    BY ONLY StageTable
  <2> QED
    BY ONLY <1>3, <2>1, <2>2, <2>3 DEF DetStages
<1> QED
  BY ONLY <1>2, <1>3

LEMMA StageHasPlace ==
  ASSUME NEW s \in DetStages PROVE \E k \in 1..15 : AllStages[k] = s
<1>1. \/ s = "flip1" \/ s = "flip2" \/ s = "flip4" \/ s = "flip8" \/ s = "flip16" \/ s = "flip32"
      \/ s = "arith8" \/ s = "arith16" \/ s = "arith32" \/ s = "int8" \/ s = "int16" \/ s = "int32"
      \/ s = "ext_UO" \/ s = "ext_UI" \/ s = "ext_AO"
  BY ONLY s \in DetStages DEF DetStages, BeforeInsert, BitFlips, ByteFlips, Arith, Interest
<1>2. /\ 1 \in 1..15 /\ 2 \in 1..15 /\ 3 \in 1..15 /\ 4 \in 1..15 /\ 5 \in 1..15
      /\ 6 \in 1..15 /\ 7 \in 1..15 /\ 8 \in 1..15 /\ 9 \in 1..15 /\ 10 \in 1..15
      /\ 11 \in 1..15 /\ 12 \in 1..15 /\ 13 \in 1..15 /\ 14 \in 1..15 /\ 15 \in 1..15
  OBVIOUS
<1> QED
  BY ONLY <1>1, <1>2, StageTable

LEMMA WidthIs ==
  ASSUME NEW s
  PROVE  /\ Width(s) \in {1, 2, 4}
         /\ s \in {"ext_UO", "ext_UI", "ext_AO"} => Width(s) = 1
BY ONLY DEF Width

LEMMA TurnsOfIs ==
  ASSUME NEW s \in DetStages, NEW l \in Nat
  PROVE  /\ TurnsOf(s, l) \in Int
         /\ s \in BitFlips => TurnsOf(s, l) = 8 * l - Width(s) + 1
         /\ s \notin BitFlips /\ s # "ext_UI" => TurnsOf(s, l) = l - Width(s) + 1
         /\ s = "ext_UI" => TurnsOf(s, l) = l + 1
<1>1. Width(s) \in Nat /\ "ext_UI" \notin BitFlips
  BY ONLY WidthIs DEF BitFlips
<1>2. PICK w : w = Width(s)
  OBVIOUS
<1>3. CASE s \in BitFlips
  <2>1. s # "ext_UI"
    BY ONLY <1>1, <1>3
  <2>2. TurnsOf(s, l) = 8 * l - w + 1
    BY ONLY <1>2, <1>3, <2>1 DEF TurnsOf
  <2> QED
    BY ONLY <1>1, <1>2, <1>3, <2>1, <2>2, l \in Nat
<1>4. CASE s = "ext_UI"
  <2>1. TurnsOf(s, l) = l + 1
    BY ONLY <1>1, <1>4 DEF TurnsOf
  <2> QED
    BY ONLY <1>1, <1>4, <2>1, l \in Nat
<1>5. CASE s \notin BitFlips /\ s # "ext_UI"
  <2>1. TurnsOf(s, l) = l - w + 1
    BY ONLY <1>2, <1>5 DEF TurnsOf
  <2> QED
    BY ONLY <1>1, <1>2, <1>5, <2>1, l \in Nat
<1> QED
  BY ONLY <1>3, <1>4, <1>5

LEMMA TurnsAre ==
  ASSUME NEW s PROVE Turns(s) = TurnsOf(s, len)
BY ONLY DEF Turns, TurnsOf, len

\* A stage that is not left out has a first turn.
LEMMA NotSkipped ==
  ASSUME NEW s \in DetStages, NEW l \in Nat, l >= 1, len = l, ~Skipped(s)
  PROVE  0 < TurnsOf(s, l)
<1>1. Width(s) \in {1, 2, 4} /\ (s \in {"ext_UO", "ext_UI", "ext_AO"} => Width(s) = 1)
  BY ONLY WidthIs
<1>2. s \in ByteFlips \cup Arith \cup Interest => ~(l < Width(s))
  BY ONLY len = l, ~Skipped(s) DEF Skipped
<1>3. PICK w : w = Width(s)
  OBVIOUS
<1>4. CASE s \in BitFlips
  BY ONLY <1>1, <1>3, <1>4, TurnsOfIs, s \in DetStages, l \in Nat, l >= 1
<1>5. CASE s = "ext_UI"
  BY ONLY <1>5, TurnsOfIs, s \in DetStages, l \in Nat
<1>6. CASE s \notin BitFlips /\ s # "ext_UI"
  <2>1. w \in {1, 2, 4} /\ w <= l
    <3>1. CASE s \in ByteFlips \cup Arith \cup Interest
      BY ONLY <1>1, <1>2, <1>3, <3>1, l \in Nat
    <3>2. CASE s \notin ByteFlips \cup Arith \cup Interest
      <4>1. s \in {"ext_UO", "ext_UI", "ext_AO"}
        BY ONLY <1>6, <3>2, s \in DetStages DEF DetStages, BeforeInsert
      <4> QED
        BY ONLY <1>1, <1>3, <4>1, l >= 1
    <3> QED
      BY ONLY <3>1, <3>2
  <2>2. TurnsOf(s, l) = l - w + 1
    BY ONLY <1>3, <1>6, TurnsOfIs, s \in DetStages, l \in Nat
  <2> QED
    BY ONLY <2>1, <2>2, l \in Nat
<1> QED
  BY ONLY <1>4, <1>5, <1>6

LEMMA LeastIs ==
  ASSUME NEW S \in SUBSET Nat, S # {}
  PROVE  Min(S) \in S
<1>1. \E m \in S : \A k \in S : m <= k
  BY ONLY SmallestOf, S \in SUBSET Nat, S # {}
<1> QED
  BY ONLY <1>1 DEF Min

\* The next stage comes later in the order and is not left out.
LEMMA NextStageIs ==
  ASSUME stage \in DetStages, len \in Nat, len >= 1
  PROVE  /\ NextStage \in DetStages \cup {"havoc"}
         /\ NextStage \in BeforeInsert \cup {"ext_UI"} => stage \in BeforeInsert
         /\ NextStage \in DetStages => 0 < TurnsOf(NextStage, len)
<1> DEFINE here == CHOOSE k \in DOMAIN AllStages : AllStages[k] = stage
           later == {k \in DOMAIN AllStages : k > here /\ ~Skipped(AllStages[k])}
<1>1. NextStage = AllStages[Min(later)]
  BY DEF NextStage
<1>2. here \in 1..16 /\ AllStages[here] = stage
  <2>1. \E k \in 1..16 : AllStages[k] = stage
    <3>1. PICK k \in 1..15 : AllStages[k] = stage
      BY ONLY StageHasPlace, stage \in DetStages
    <3> QED
      BY <3>1
  <2> QED
    BY ONLY <2>1, StageTable
<1> HIDE DEF here
<1>3. here # 16
  <2>1. "havoc" \notin DetStages
    BY ONLY DEF DetStages, BeforeInsert, BitFlips, ByteFlips, Arith, Interest
  <2> QED
    BY ONLY <1>2, <2>1, StagePlaces, stage \in DetStages
<1>4. ~Skipped("havoc")
  BY ONLY DEF Skipped, ByteFlips, Arith, Interest
<1>5. 16 \in later
  <2>1. 16 \in 1..16 /\ 16 > here
    BY ONLY <1>2, <1>3
  <2> QED
    BY <1>4, <2>1, StageTable
<1>6. later \in SUBSET Nat
  BY StageTable
<1>7. PICK k : k = Min(later)
  OBVIOUS
<1>8. k \in later
  <2> HIDE DEF later
  <2>1. later # {}
    BY ONLY <1>5
  <2> QED
    BY ONLY <1>6, <1>7, <2>1, LeastIs
<1>9. k \in 1..16 /\ k > here /\ ~Skipped(AllStages[k])
  BY <1>8, StageTable
<1>10. PICK s : s = AllStages[k]
  OBVIOUS
<1>11. s = NextStage
  BY ONLY <1>1, <1>7, <1>10
<1>12. s \in DetStages \cup {"havoc"}
  BY ONLY <1>9, <1>10, StagePlaces
<1>13. s \in BeforeInsert \cup {"ext_UI"} => stage \in BeforeInsert
  <2>1. (s \in BeforeInsert <=> k <= 13) /\ (s = "ext_UI" <=> k = 14)
    BY ONLY <1>9, <1>10, StagePlaces
  <2>2. stage \in BeforeInsert <=> here <= 13
    BY ONLY <1>2, StagePlaces
  <2>3. k <= 14 => here <= 13
    BY ONLY <1>2, <1>9
  <2>4. k <= 13 => k <= 14
    BY ONLY <1>9
  <2>5. k = 14 => k <= 14
    OBVIOUS
  <2> QED
    BY ONLY <2>1, <2>2, <2>3, <2>4, <2>5
<1>14. s \in DetStages => 0 < TurnsOf(s, len)
  <2>1. ~Skipped(s)
    BY ONLY <1>9, <1>10
  <2>2. PICK l : l = len
    OBVIOUS
  <2>3. s \in DetStages => 0 < TurnsOf(s, l)
    BY ONLY <2>1, <2>2, NotSkipped, len \in Nat, len >= 1
  <2> QED
    BY ONLY <2>2, <2>3
<1> QED
  BY ONLY <1>11, <1>12, <1>13, <1>14

-----------------------------------------------------------------------------
(* FuzzOne: every turn of a stage restores the buffer.                     *)

LEMMA StageNames ==
  /\ "havoc" \notin DetStages /\ "abandoned" \notin DetStages /\ "over" \notin DetStages
  /\ "ext_UI" \in DetStages /\ "ext_AO" \in DetStages /\ "ext_UI" \notin BeforeInsert /\ "ext_AO" \notin BeforeInsert
  /\ BeforeInsert \subseteq DetStages /\ "flip1" \in BeforeInsert
  /\ BitFlips \subseteq BeforeInsert /\ ByteFlips \subseteq BeforeInsert
  /\ Arith \subseteq BeforeInsert /\ Interest \subseteq BeforeInsert /\ "ext_UO" \in BeforeInsert
BY ONLY DEF DetStages, BeforeInsert, BitFlips, ByteFlips, Arith, Interest

\* What StagesInv says of a stage that runs.
LEMMA Running ==
  ASSUME StagesInv, stage \in DetStages
  PROVE  /\ len \in Nat /\ len >= 1 /\ in_buf \in Buffers(len) /\ out_buf = in_buf /\ in_buf # <<>>
         /\ turn \in Nat /\ turn < TurnsOf(stage, len)
         /\ ex_tmp \in Seq(Byte) /\ ex_tmp = SubSeq(in_buf, 1, Len(ex_tmp))
         /\ (stage \in BeforeInsert => ex_tmp = <<>>) /\ (stage = "ext_UI" => Len(ex_tmp) = turn)
         /\ a_collect \in Seq(Byte) /\ a_extras \in Seq(AutoExtra) /\ ShortestFirst(a_extras)
<1>1. stage # "over" /\ stage # "abandoned"
  BY ONLY StageNames, stage \in DetStages
<1>2. in_buf \in Seq(Byte) /\ in_buf # <<>> /\ out_buf = in_buf
  BY ONLY <1>1, StagesInv DEF StagesInv
<1>3. len \in Nat /\ len >= 1
  BY ONLY <1>2 DEF len
<1>4. in_buf \in Buffers(len)
  BY ONLY <1>2 DEF Buffers, len
<1>5. turn \in Nat /\ turn < TurnsOf(stage, len)
  BY ONLY StagesInv, stage \in DetStages DEF StagesInv, len
<1>6. /\ ex_tmp \in Seq(Byte) /\ ex_tmp = SubSeq(in_buf, 1, Len(ex_tmp))
      /\ (stage \in BeforeInsert => ex_tmp = <<>>) /\ (stage = "ext_UI" => Len(ex_tmp) = turn)
      /\ a_collect \in Seq(Byte) /\ a_extras \in Seq(AutoExtra) /\ ShortestFirst(a_extras)
  BY ONLY <1>1, StagesInv DEF StagesInv
<1> QED
  BY ONLY <1>2, <1>3, <1>4, <1>5, <1>6

\* What the turn of a stage leaves of the variables Turn does not set.
LeavesRest ==
  /\ a_extras' \in Seq(AutoExtra) /\ ShortestFirst(a_extras') /\ a_collect' \in Seq(Byte)
  /\ ex_tmp' \in Seq(Byte) /\ ex_tmp' = SubSeq(in_buf, 1, Len(ex_tmp'))
  /\ stage \in BeforeInsert => ex_tmp' = <<>>
  /\ stage = "ext_UI" /\ ~LastTurn => Len(ex_tmp') = turn + 1

LEMMA TurnKeeps ==
  ASSUME StagesInv, stage \in DetStages, NEW runs, Turn(runs, in_buf), LeavesRest
  PROVE  StagesInv'
<1>1. /\ len \in Nat /\ len >= 1 /\ in_buf \in Buffers(len) /\ in_buf # <<>>
      /\ turn \in Nat /\ turn < TurnsOf(stage, len)
  BY ONLY Running, StagesInv, stage \in DetStages
<1>2. /\ out_buf' = in_buf /\ in_buf' = in_buf /\ passed_det' = (stage' = "havoc")
      /\ LastTurn => stage' = NextStage /\ turn' = 0
      /\ ~LastTurn => stage' = stage /\ turn' = turn + 1
  BY ONLY Turn(runs, in_buf) DEF Turn
<1>3. PICK l : l = len
  OBVIOUS
<1>4. l \in Nat /\ Len(in_buf') = l /\ TurnsOf(stage, l) \in Int
  BY ONLY <1>1, <1>2, <1>3, TurnsOfIs, stage \in DetStages DEF len
<1>5. /\ stage' \in DetStages \cup {"havoc"} /\ turn' \in Nat
      /\ stage' \in DetStages => turn' < TurnsOf(stage', l)
      /\ stage' \in BeforeInsert => stage \in BeforeInsert
      /\ stage' = "ext_UI" => \/ stage \in BeforeInsert /\ turn' = 0
                              \/ stage = "ext_UI" /\ ~LastTurn /\ turn' = turn + 1
  <2>1. CASE LastTurn
    <3>1. /\ NextStage \in DetStages \cup {"havoc"}
          /\ NextStage \in BeforeInsert \cup {"ext_UI"} => stage \in BeforeInsert
          /\ NextStage \in DetStages => 0 < TurnsOf(NextStage, len)
      BY ONLY <1>1, NextStageIs, stage \in DetStages
    <3>2. PICK s : s = NextStage
      OBVIOUS
    <3>3. stage' = s /\ turn' = 0
      BY ONLY <1>2, <2>1, <3>2
    <3> QED
      BY ONLY <1>3, <3>1, <3>2, <3>3
  <2>2. CASE ~LastTurn
    <3>1. turn + 1 # TurnsOf(stage, l)
      BY ONLY <1>3, <2>2, TurnsAre DEF LastTurn
    <3>2. turn + 1 < TurnsOf(stage, l) /\ turn + 1 \in Nat
      BY ONLY <1>1, <1>3, <1>4, <3>1
    <3> QED
      BY ONLY <1>2, <2>2, <3>2, stage \in DetStages
  <2> QED
    BY ONLY <2>1, <2>2
<1>6. stage' # "over" /\ stage' # "abandoned" /\ in_buf \in Seq(Byte) /\ (stage' = "havoc") \in BOOLEAN
  <2>1. in_buf \in Seq(Byte)
    BY ONLY <1>1 DEF Buffers
  <2> QED
    BY ONLY <1>5, <2>1, StageNames
<1>7. stage' = "ext_UI" => Len(ex_tmp') = turn'
  <2>1. CASE stage \in BeforeInsert /\ turn' = 0
    <3>1. ex_tmp' = <<>>
      BY ONLY <2>1, LeavesRest DEF LeavesRest
    <3> QED
      BY ONLY <2>1, <3>1
  <2>2. CASE stage = "ext_UI" /\ ~LastTurn /\ turn' = turn + 1
    BY ONLY <2>2, LeavesRest DEF LeavesRest
  <2> QED
    BY ONLY <1>5, <2>1, <2>2
<1>8. /\ in_buf' \in Seq(Byte) /\ out_buf' \in Seq(Byte) /\ in_buf' # <<>> /\ out_buf' = in_buf'
      /\ passed_det' \in BOOLEAN
  BY ONLY <1>1, <1>2, <1>6
<1>9. /\ ex_tmp' \in Seq(Byte) /\ ex_tmp' = SubSeq(in_buf', 1, Len(ex_tmp'))
      /\ a_extras' \in Seq(AutoExtra) /\ ShortestFirst(a_extras') /\ a_collect' \in Seq(Byte)
  BY ONLY <1>2, LeavesRest DEF LeavesRest
<1>10. stage' \in BeforeInsert => ex_tmp' = <<>>
  BY ONLY <1>5, LeavesRest DEF LeavesRest
<1>11. stage' \in DetStages => turn' < TurnsOf(stage', Len(in_buf'))
  BY ONLY <1>4, <1>5
<1> QED
  BY ONLY <1>5, <1>6, <1>7, <1>8, <1>9, <1>10, <1>11 DEF StagesInv

LEMMA ShortestFirstPrimed ==
  ASSUME a_extras' = a_extras, ShortestFirst(a_extras) PROVE ShortestFirst(a_extras')
BY ONLY a_extras' = a_extras, ShortestFirst(a_extras)

\* A stage before the insertions or ext_AO that leaves the dictionary and ex_tmp alone.
LEMMA RestLeft ==
  ASSUME StagesInv, stage \in DetStages, stage # "ext_UI", UNCHANGED <<ex_tmp, a_collect, a_extras>>
  PROVE  LeavesRest
<1>1. /\ ex_tmp \in Seq(Byte) /\ ex_tmp = SubSeq(in_buf, 1, Len(ex_tmp))
      /\ (stage \in BeforeInsert => ex_tmp = <<>>)
      /\ a_collect \in Seq(Byte) /\ a_extras \in Seq(AutoExtra) /\ ShortestFirst(a_extras)
  BY ONLY Running, StagesInv, stage \in DetStages
<1>2. ex_tmp' = ex_tmp /\ a_collect' = a_collect /\ a_extras' = a_extras
  BY ONLY UNCHANGED <<ex_tmp, a_collect, a_extras>>
<1> QED
  BY ONLY <1>1, <1>2, stage # "ext_UI" DEF LeavesRest

LEMMA WidthFits ==
  ASSUME StagesInv, stage \in DetStages
  PROVE  /\ Width(stage) \in {1, 2, 4}
         /\ stage \in BitFlips => turn + Width(stage) <= 8 * len
         /\ stage \notin BitFlips /\ stage # "ext_UI" => turn + Width(stage) <= len
         /\ stage = "ext_UI" => turn <= len
<1>1. PICK w, l, t : w = Width(stage) /\ l = len /\ t = turn
  OBVIOUS
<1>2. w \in {1, 2, 4} /\ l \in Nat /\ t \in Nat /\ t < TurnsOf(stage, l)
  BY ONLY <1>1, WidthIs, Running, StagesInv, stage \in DetStages
<1>3. /\ stage \in BitFlips => TurnsOf(stage, l) = 8 * l - w + 1
      /\ stage \notin BitFlips /\ stage # "ext_UI" => TurnsOf(stage, l) = l - w + 1
      /\ stage = "ext_UI" => TurnsOf(stage, l) = l + 1
  BY ONLY <1>1, <1>2, TurnsOfIs, stage \in DetStages
<1>4. stage \in BitFlips => t + w <= 8 * l
  BY ONLY <1>2, <1>3
<1>5. stage \notin BitFlips /\ stage # "ext_UI" => t + w <= l
  BY ONLY <1>2, <1>3
<1>6. stage = "ext_UI" => t <= l
  BY ONLY <1>2, <1>3
<1> QED
  BY ONLY <1>1, <1>2, <1>4, <1>5, <1>6

LEMMA TokenCollected ==
  ASSUME a_extras \in Seq(AutoExtra), ShortestFirst(a_extras), a_collect \in Seq(Byte),
         NEW byte \in Byte, NEW cksum, CollectToken(byte, cksum)
  PROVE  a_extras' \in Seq(AutoExtra) /\ ShortestFirst(a_extras') /\ a_collect' \in Seq(Byte)
<1>1. PICK token : token = IF LastTurn /\ cksum = prev_cksum THEN Append(a_collect, byte) ELSE a_collect
  OBVIOUS
<1>2. token \in Seq(Byte)
  BY ONLY <1>1, a_collect \in Seq(Byte), byte \in Byte
<1>3. PICK begun : begun = IF cksum # prev_cksum THEN <<>> ELSE token
  OBVIOUS
<1>4. begun \in Seq(Byte)
  BY ONLY <1>2, <1>3
<1>5. a_extras' \in Offered(a_extras, token) \/ a_extras' = a_extras
  BY ONLY <1>1, CollectToken(byte, cksum) DEF CollectToken
<1>6. a_collect' = IF cksum # OwnCksum THEN Append(begun, byte) ELSE begun
  BY ONLY <1>1, <1>3, CollectToken(byte, cksum) DEF CollectToken
<1>7. a_collect' \in Seq(Byte)
  BY ONLY <1>4, <1>6, byte \in Byte
<1>8. PICK t : t = a_extras'
  OBVIOUS
<1>9. t = a_extras \/ t \in maybe_add_auto(a_extras, token)
  BY ONLY <1>5, <1>8 DEF Offered
<1>10. t \in Seq(AutoExtra) /\ ShortestFirst(t)
  BY ONLY <1>2, <1>9, AddedExtras, a_extras \in Seq(AutoExtra), ShortestFirst(a_extras)
<1> QED
  BY ONLY <1>7, <1>8, <1>10

LEMMA WalkingBitsKeeps ==
  ASSUME StagesInv, WalkingBits PROVE StagesInv'
<1>1. stage \in BitFlips
  BY ONLY WalkingBits DEF WalkingBits
<1>2. stage \in DetStages /\ stage \in BeforeInsert /\ stage # "ext_UI"
  BY ONLY <1>1, StageNames
<1>3. /\ len \in Nat /\ in_buf \in Buffers(len) /\ out_buf = in_buf /\ turn \in Nat
      /\ ex_tmp \in Seq(Byte) /\ ex_tmp = SubSeq(in_buf, 1, Len(ex_tmp)) /\ ex_tmp = <<>>
      /\ a_collect \in Seq(Byte) /\ a_extras \in Seq(AutoExtra) /\ ShortestFirst(a_extras)
  BY ONLY <1>2, Running, StagesInv
<1>4. Width(stage) \in {1, 2, 4} /\ turn + Width(stage) <= 8 * len
  BY ONLY <1>1, <1>2, WidthFits, StagesInv
<1>5. PICK w, n, i : w = Width(stage) /\ n = len /\ i = turn
  OBVIOUS
<1>6. PICK flipped, restored : flipped = FlipBits(out_buf, i, w) /\ restored = FlipBits(flipped, i, w)
  OBVIOUS
<1>7. restored = in_buf
  <2>1. w \in {1, 2, 4} /\ n \in Nat /\ i \in Nat /\ i + w <= 8 * n /\ in_buf \in Buffers(n)
    BY ONLY <1>3, <1>4, <1>5
  <2>2. FlipBits(FlipBits(in_buf, i, w), i, w) = in_buf
    BY ONLY <2>1, FlipBitsUndone
  <2> QED
    BY ONLY <1>3, <1>6, <2>2
<1>8. Turn({flipped}, in_buf) /\ ex_tmp' = ex_tmp
  BY ONLY <1>5, <1>6, <1>7, WalkingBits DEF WalkingBits
<1>9. a_extras' \in Seq(AutoExtra) /\ ShortestFirst(a_extras') /\ a_collect' \in Seq(Byte)
  <2>1. \/ \E cksum \in Cksums \cup {OwnCksum} : CollectToken(restored[(turn \div 8) + 1], cksum)
        \/ a_extras' = a_extras /\ (a_collect' = a_collect \/ a_collect' = <<>>)
    BY ONLY <1>5, <1>6, WalkingBits DEF WalkingBits
  <2>2. CASE \E cksum \in Cksums \cup {OwnCksum} : CollectToken(restored[(turn \div 8) + 1], cksum)
    <3>1. PICK cksum : CollectToken(restored[(turn \div 8) + 1], cksum)
      BY ONLY <2>2
    <3>2. PICK byte : byte = restored[(turn \div 8) + 1]
      OBVIOUS
    <3>3. byte \in Byte
      <4>1. i < 8 * n /\ i \in Nat /\ n \in Nat
        BY ONLY <1>3, <1>4, <1>5
      <4>2. (i \div 8) + 1 \in 1..n
        BY ONLY <4>1
      <4>3. \A k \in 1..n : in_buf[k] \in Byte
        BY ONLY <1>3, <1>5, BuffersAre
      <4>4. byte = in_buf[(i \div 8) + 1]
        BY ONLY <1>5, <1>7, <3>2
      <4> QED
        BY ONLY <4>2, <4>3, <4>4
    <3>4. CollectToken(byte, cksum)
      BY ONLY <3>1, <3>2
    <3> QED
      BY ONLY <1>3, <3>3, <3>4, TokenCollected
  <2>3. CASE a_extras' = a_extras /\ (a_collect' = a_collect \/ a_collect' = <<>>)
    <3>1. a_collect' \in Seq(Byte)
      BY ONLY <1>3, <2>3
    <3> QED
      BY ONLY <1>3, <2>3, <3>1
  <2> QED
    BY ONLY <2>1, <2>2, <2>3
<1>10. LeavesRest
  BY ONLY <1>2, <1>3, <1>8, <1>9 DEF LeavesRest
<1> QED
  BY ONLY <1>2, <1>8, <1>10, TurnKeeps, StagesInv

LEMMA WalkingBytesKeeps ==
  ASSUME StagesInv, WalkingBytes PROVE StagesInv'
<1>1. stage \in ByteFlips
  BY ONLY WalkingBytes DEF WalkingBytes
<1>2. stage \in DetStages /\ stage \notin BitFlips /\ stage # "ext_UI"
  BY ONLY <1>1, StageNames DEF ByteFlips, BitFlips
<1>3. len \in Nat /\ in_buf \in Buffers(len) /\ out_buf = in_buf /\ turn \in Nat
  BY ONLY <1>2, Running, StagesInv
<1>4. Width(stage) \in {1, 2, 4} /\ turn + Width(stage) <= len
  BY ONLY <1>2, WidthFits, StagesInv
<1>5. PICK n, m, i : n = Width(stage) /\ m = len /\ i = turn
  OBVIOUS
<1>6. m \in Nat /\ n \in Nat /\ i \in Nat /\ i + n <= m /\ in_buf \in Buffers(m)
  BY ONLY <1>3, <1>4, <1>5
<1>7. PICK flipped : flipped = Put(in_buf, i, Inverted(At(in_buf, i, n)))
  OBVIOUS
<1>8. Put(flipped, i, Inverted(At(flipped, i, n))) = in_buf
  BY ONLY <1>6, <1>7, InvertedTwice
<1>9. PICK runs : runs = IF stage = "flip8" \/ Effective(i, n) THEN {flipped} ELSE {}
  OBVIOUS
<1>10. PICK buf : buf = IF runs = {} THEN in_buf ELSE flipped
  OBVIOUS
<1>11. /\ Turn(runs, IF runs = {} THEN buf ELSE Put(buf, i, Inverted(At(buf, i, n))))
       /\ UNCHANGED <<ex_tmp, a_collect, a_extras>>
  BY ONLY <1>3, <1>5, <1>7, <1>9, <1>10, WalkingBytes DEF WalkingBytes
<1>12. (IF runs = {} THEN buf ELSE Put(buf, i, Inverted(At(buf, i, n)))) = in_buf
  BY ONLY <1>8, <1>10
<1>13. Turn(runs, in_buf)
  BY ONLY <1>11, <1>12
<1>14. LeavesRest
  BY ONLY <1>2, <1>11, RestLeft, StagesInv
<1> QED
  BY ONLY <1>2, <1>13, <1>14, TurnKeeps, StagesInv

LEMMA WalkingWordsKeeps ==
  ASSUME StagesInv, stage \in Arith \cup Interest, NEW words,
         \A w \in words : DOMAIN w = 1..Width(stage), WalkingWords(words)
  PROVE  StagesInv'
<1>2. stage \in DetStages /\ stage \notin BitFlips /\ stage # "ext_UI"
  BY ONLY StageNames, stage \in Arith \cup Interest DEF Arith, Interest, BitFlips
<1>3. len \in Nat /\ in_buf \in Buffers(len) /\ out_buf = in_buf /\ turn \in Nat
  BY ONLY <1>2, Running, StagesInv
<1>4. Width(stage) \in {1, 2, 4} /\ turn + Width(stage) <= len
  BY ONLY <1>2, WidthFits, StagesInv
<1>5. PICK n, m, i : n = Width(stage) /\ m = len /\ i = turn
  OBVIOUS
<1>6. m \in Nat /\ n \in Nat /\ i \in Nat /\ i + n <= m /\ in_buf \in Buffers(m)
  BY ONLY <1>3, <1>4, <1>5
<1>7. PICK runs : runs = IF Effective(i, n) THEN {Put(in_buf, i, w) : w \in words} ELSE {}
  OBVIOUS
<1>8. PICK buf : buf = IF runs = {} THEN in_buf ELSE CHOOSE b \in runs : TRUE
  OBVIOUS
<1>9. Turn(runs, Put(buf, i, At(in_buf, i, n))) /\ UNCHANGED <<ex_tmp, a_collect, a_extras>>
  BY ONLY <1>3, <1>5, <1>7, <1>8, WalkingWords(words) DEF WalkingWords
<1>10. Within(buf, in_buf, m, i, n)
  <2>1. CASE runs = {}
    <3>1. Within(in_buf, in_buf, m, i, n)
      BY ONLY <1>6, WithinSelf
    <3> QED
      BY ONLY <1>8, <2>1, <3>1
  <2>2. CASE runs # {}
    <3>1. buf \in runs
      BY ONLY <1>8, <2>2
    <3>2. PICK w \in words : buf = Put(in_buf, i, w)
      BY ONLY <1>7, <3>1
    <3>3. DOMAIN w = 1..n
      BY ONLY <1>5, w \in words, \A v \in words : DOMAIN v = 1..Width(stage)
    <3>4. Within(in_buf, in_buf, m, i, 0) /\ 0 \in Nat /\ 0 <= n
      BY ONLY <1>6, WithinSelf
    <3>5. Within(Put(in_buf, i, w), in_buf, m, i, n)
      BY ONLY <1>6, <3>3, <3>4, WithinPut
    <3> QED
      BY ONLY <3>2, <3>5
  <2> QED
    BY ONLY <2>1, <2>2
<1>11. Put(buf, i, At(in_buf, i, n)) = in_buf
  BY ONLY <1>6, <1>10, PutBack
<1>12. Turn(runs, in_buf)
  BY ONLY <1>9, <1>11
<1>13. LeavesRest
  BY ONLY <1>2, <1>9, RestLeft, StagesInv
<1> QED
  BY ONLY <1>2, <1>12, <1>13, TurnKeeps, StagesInv

\* The words an arithmetic or interesting-value stage writes have its width.
LEMMA ReverseWidth ==
  ASSUME NEW n, NEW w, Len(w) = n PROVE DOMAIN Reverse(w) = 1..n
BY ONLY Len(w) = n DEF Reverse

LEMMA PlusWidth ==
  ASSUME NEW w, NEW d PROVE DOMAIN Plus(w, d) = DOMAIN w
BY ONLY DEF Plus

LEMMA PlusLen ==
  ASSUME NEW n \in Nat, NEW w, DOMAIN w = 1..n, NEW d PROVE Len(Plus(w, d)) = n
<1>1. PICK p : p = Plus(w, d)
  OBVIOUS
<1>2. PICK f : f = [k \in DOMAIN w |-> (w[k] + Carry(w, d)[k - 1]) % 256]
  OBVIOUS
<1>3. f = p
  BY ONLY <1>1, <1>2 DEF Plus
<1>4. f = [k \in 1..n |-> f[k]]
  BY ONLY <1>2, DOMAIN w = 1..n
<1>5. PICK T : \A k \in 1..n : f[k] \in T
  <2> WITNESS {f[k] : k \in 1..n}
  <2> QED
    OBVIOUS
<1>6. f \in [1..n -> T]
  BY ONLY <1>4, <1>5
<1>7. Len(f) = n
  BY ONLY <1>6, FunctionIsSeq, n \in Nat
<1> QED
  BY ONLY <1>1, <1>3, <1>7

LEMMA ArithWidth ==
  ASSUME NEW n \in Nat, NEW orig \in Seq(Byte), Len(orig) = n, NEW w \in ArithWords(orig)
  PROVE  DOMAIN w = 1..n
<1>1. DOMAIN orig = 1..n
  BY ONLY orig \in Seq(Byte), Len(orig) = n
<1>2. \/ \E d : w = Plus(orig, d)
      \/ \E d : w = Reverse(Plus(Reverse(orig), d))
  <2> DEFINE ds(x) == {d \in Deltas : Len(orig) > 1 => Carry(x, d)[Len(orig) \div 2] # 0}
  <2>1. w \in {Plus(orig, d) : d \in ds(orig)}
             \cup {Reverse(v) : v \in {Plus(Reverse(orig), d) : d \in ds(Reverse(orig))}}
    BY ONLY w \in ArithWords(orig) DEF ArithWords
  <2> HIDE DEF ds
  <2> QED
    BY ONLY <2>1
<1>3. CASE \E d : w = Plus(orig, d)
  BY ONLY <1>1, <1>3, PlusWidth
<1>4. CASE \E d : w = Reverse(Plus(Reverse(orig), d))
  <2>1. PICK d : w = Reverse(Plus(Reverse(orig), d))
    BY ONLY <1>4
  <2>2. DOMAIN Reverse(orig) = 1..n
    BY ONLY ReverseWidth, Len(orig) = n
  <2>3. Len(Plus(Reverse(orig), d)) = n
    BY ONLY <2>2, PlusLen, n \in Nat
  <2> QED
    BY ONLY <2>1, <2>3, ReverseWidth
<1> QED
  BY ONLY <1>2, <1>3, <1>4

LEMMA WidenedWidth ==
  ASSUME NEW w, NEW n \in Nat
  PROVE  DOMAIN Widened(w, n) = 1..n /\ Len(Widened(w, n)) = n
<1>1. PICK f : f = [k \in 1..n |-> IF k <= Len(w) THEN w[k] ELSE IF w[Len(w)] >= 128 THEN 255 ELSE 0]
  OBVIOUS
<1>2. f = Widened(w, n)
  BY ONLY <1>1 DEF Widened
<1>3. f = [k \in 1..n |-> f[k]]
  BY ONLY <1>1
<1>4. PICK T : \A k \in 1..n : f[k] \in T
  <2> WITNESS {f[k] : k \in 1..n}
  <2> QED
    OBVIOUS
<1>5. f \in [1..n -> T]
  BY ONLY <1>3, <1>4
<1>6. Len(f) = n
  BY ONLY <1>5, FunctionIsSeq, n \in Nat
<1> QED
  BY ONLY <1>2, <1>3, <1>6

LEMMA InterestingWidth ==
  ASSUME NEW n \in {1, 2, 4}, NEW v \in interesting(n)
  PROVE  DOMAIN v = 1..n /\ Len(v) = n
<1>1. CASE n = 1
  <2>1. v \in interesting_8
    BY ONLY <1>1, v \in interesting(n) DEF interesting
  <2> QED
    BY ONLY <1>1, <2>1 DEF interesting_8
<1>2. CASE n = 2
  <2>1. v \in interesting_16
    BY ONLY <1>2, v \in interesting(n) DEF interesting
  <2>2. CASE \E w \in interesting_8 : v = Widened(w, 2)
    BY ONLY <1>2, <2>2, WidenedWidth
  <2>3. CASE ~ \E w \in interesting_8 : v = Widened(w, 2)
    BY ONLY <1>2, <2>1, <2>3 DEF interesting_16
  <2> QED
    BY ONLY <2>2, <2>3
<1>3. CASE n = 4
  <2>1. v \in interesting_32
    BY ONLY <1>3, v \in interesting(n) DEF interesting
  <2>2. CASE \E w \in interesting_16 : v = Widened(w, 4)
    BY ONLY <1>3, <2>2, WidenedWidth
  <2>3. CASE ~ \E w \in interesting_16 : v = Widened(w, 4)
    BY ONLY <1>3, <2>1, <2>3 DEF interesting_32
  <2> QED
    BY ONLY <2>2, <2>3
<1> QED
  BY ONLY <1>1, <1>2, <1>3, n \in {1, 2, 4}

LEMMA InterestWidth ==
  ASSUME NEW n \in {1, 2, 4}, NEW orig, Len(orig) = n, NEW w \in InterestWords(orig)
  PROVE  DOMAIN w = 1..n
<1>1. \/ w \in interesting(n)
      \/ \E v \in interesting(n) : w = Reverse(v)
  BY ONLY Len(orig) = n, w \in InterestWords(orig) DEF InterestWords
<1>2. CASE w \in interesting(n)
  BY ONLY <1>2, InterestingWidth, n \in {1, 2, 4}
<1>3. CASE \E v \in interesting(n) : w = Reverse(v)
  <2>1. PICK v \in interesting(n) : w = Reverse(v)
    BY ONLY <1>3
  <2>2. Len(v) = n
    BY ONLY InterestingWidth, n \in {1, 2, 4}, v \in interesting(n)
  <2> QED
    BY ONLY <2>1, <2>2, ReverseWidth
<1> QED
  BY ONLY <1>1, <1>2, <1>3

LEMMA OriginalWord ==
  ASSUME StagesInv, stage \in Arith \cup Interest
  PROVE  /\ Width(stage) \in {1, 2, 4} /\ At(out_buf, turn, Width(stage)) \in Seq(Byte)
         /\ Len(At(out_buf, turn, Width(stage))) = Width(stage)
<1>2. stage \in DetStages /\ stage \notin BitFlips /\ stage # "ext_UI"
  BY ONLY StageNames, stage \in Arith \cup Interest DEF Arith, Interest, BitFlips
<1>3. len \in Nat /\ in_buf \in Buffers(len) /\ out_buf = in_buf /\ turn \in Nat
  BY ONLY <1>2, Running, StagesInv
<1>4. Width(stage) \in {1, 2, 4} /\ turn + Width(stage) <= len
  BY ONLY <1>2, WidthFits, StagesInv
<1>5. PICK n, m, i : n = Width(stage) /\ m = len /\ i = turn
  OBVIOUS
<1>6. m \in Nat /\ n \in Nat /\ i \in Nat /\ i + n <= m /\ in_buf \in Buffers(m)
  BY ONLY <1>3, <1>4, <1>5
<1>7. At(in_buf, i, n) \in Seq(Byte) /\ Len(At(in_buf, i, n)) = n
  BY ONLY <1>6, AtIs
<1> QED
  BY ONLY <1>3, <1>4, <1>5, <1>7

LEMMA ArithmeticsKeeps ==
  ASSUME StagesInv, Arithmetics PROVE StagesInv'
<1>1. PICK n, orig : n = Width(stage) /\ orig = At(out_buf, turn, Width(stage))
  OBVIOUS
<1>2. stage \in Arith \cup Interest /\ WalkingWords(ArithWords(orig))
  BY ONLY <1>1, Arithmetics DEF Arithmetics
<1>3. n \in Nat /\ orig \in Seq(Byte) /\ Len(orig) = n
  BY ONLY <1>1, <1>2, OriginalWord, StagesInv
<1>4. \A w \in ArithWords(orig) : DOMAIN w = 1..Width(stage)
  BY ONLY <1>1, <1>3, ArithWidth
<1> QED
  BY ONLY <1>2, <1>4, WalkingWordsKeeps, StagesInv

LEMMA InterestingValuesKeeps ==
  ASSUME StagesInv, InterestingValues PROVE StagesInv'
<1>1. PICK n, orig : n = Width(stage) /\ orig = At(out_buf, turn, Width(stage))
  OBVIOUS
<1>2. stage \in Arith \cup Interest /\ WalkingWords(InterestWords(orig))
  BY ONLY <1>1, InterestingValues DEF InterestingValues
<1>3. n \in {1, 2, 4} /\ Len(orig) = n
  BY ONLY <1>1, <1>2, OriginalWord, StagesInv
<1>4. \A w \in InterestWords(orig) : DOMAIN w = 1..Width(stage)
  BY ONLY <1>1, <1>3, InterestWidth
<1> QED
  BY ONLY <1>2, <1>4, WalkingWordsKeeps, StagesInv

LEMMA OverwriteTokensKeeps ==
  ASSUME StagesInv, stage \in {"ext_UO", "ext_AO"}, NEW tokens, NEW used, NEW n,
         TokensSorted(tokens, used, n), OverwriteTokens(tokens, used)
  PROVE  StagesInv'
<1>2. stage \in DetStages /\ stage \notin BitFlips /\ stage # "ext_UI"
  BY ONLY StageNames, stage \in {"ext_UO", "ext_AO"} DEF BitFlips
<1>3. len \in Nat /\ in_buf \in Buffers(len) /\ out_buf = in_buf /\ turn \in Nat
  BY ONLY <1>2, Running, StagesInv
<1>4. turn + Width(stage) <= len /\ Width(stage) \in {1, 2, 4}
  BY ONLY <1>2, WidthFits, StagesInv
<1>5. PICK m, i, o : m = len /\ i = turn /\ o = Overwritten(tokens, used)
  OBVIOUS
<1>6. m \in Nat /\ i \in Nat /\ turn <= m /\ in_buf \in Buffers(m) /\ out_buf \in Buffers(m)
  <2>1. turn <= len
    BY ONLY <1>3, <1>4
  <2> QED
    BY ONLY <1>3, <1>5, <2>1
<1>7. o.last_len \in Nat /\ i + o.last_len <= m /\ Within(o.buf, in_buf, m, i, o.last_len)
  <2>1. /\ Overwritten(tokens, used).last_len \in Nat
        /\ turn + Overwritten(tokens, used).last_len <= m
        /\ Within(Overwritten(tokens, used).buf, out_buf, m, turn, Overwritten(tokens, used).last_len)
    <3>1. TokensSorted(tokens, used, Len(tokens))
      BY ONLY TokensSorted(tokens, used, n) DEF TokensSorted
    <3> QED
      BY ONLY <1>3, <1>5, <1>6, <3>1, OverwrittenIs
  <2> QED
    BY ONLY <1>3, <1>5, <2>1
<1>8. PICK b, l : b = o.buf /\ l = o.last_len
  OBVIOUS
<1>9. Put(b, i, At(in_buf, i, l)) = in_buf
  <2>1. l \in Nat /\ i + l <= m /\ Within(b, in_buf, m, i, l)
    BY ONLY <1>7, <1>8
  <2> QED
    BY ONLY <1>6, <2>1, PutBack
<1>10. Turn(o.runs, Put(b, i, At(in_buf, i, l))) /\ UNCHANGED <<ex_tmp, a_collect, a_extras>>
  BY ONLY <1>5, <1>8, OverwriteTokens(tokens, used) DEF OverwriteTokens
<1>11. Turn(o.runs, in_buf)
  BY ONLY <1>9, <1>10
<1>12. LeavesRest
  BY ONLY <1>2, <1>10, RestLeft, StagesInv
<1> QED
  BY ONLY <1>2, <1>11, <1>12, TurnKeeps, StagesInv

LEMMA UserExtrasOverKeeps ==
  ASSUME StagesInv, UserExtrasOver PROVE StagesInv'
<1>1. PICK ks : stage = "ext_UO" /\ OverwriteTokens(extras, ks)
  BY ONLY UserExtrasOver DEF UserExtrasOver
<1>2. PICK m : m = Len(extras)
  OBVIOUS
<1>3. /\ extras \in Seq(Seq(Byte))
      /\ \A i, j \in DOMAIN extras : i < j => Len(extras[i]) <= Len(extras[j])
  BY DictionaryAssumption
<1>4. m \in Nat /\ DOMAIN extras = 1..m /\ \A k \in 1..m : extras[k] \in Seq(Byte)
  BY ONLY <1>2, <1>3
<1>5. \A k \in 1..m : Len(extras[k]) \in Nat /\ DOMAIN extras[k] = 1..Len(extras[k])
  BY ONLY <1>4
<1>6. TokensSorted(extras, ks, m)
  BY ONLY <1>2, <1>3, <1>4, <1>5 DEF TokensSorted
<1>7. stage \in {"ext_UO", "ext_AO"} /\ OverwriteTokens(extras, ks)
  BY ONLY <1>1
<1> QED
  BY ONLY <1>6, <1>7, OverwriteTokensKeeps, StagesInv

LEMMA AutoExtrasOverKeeps ==
  ASSUME StagesInv, AutoExtrasOver PROVE StagesInv'
<1>1. PICK ts, ks : /\ ts = [k \in DOMAIN a_extras |-> a_extras[k].data]
                          /\ ks = 1..Smaller(Len(a_extras), USE_AUTO_EXTRAS)
  OBVIOUS
<1>2. stage = "ext_AO" /\ OverwriteTokens(ts, ks)
  BY ONLY <1>1, AutoExtrasOver DEF AutoExtrasOver
<1>3. a_extras \in Seq(AutoExtra) /\ ShortestFirst(a_extras)
  BY ONLY StagesInv DEF StagesInv
<1>4. PICK m : m = Len(a_extras)
  OBVIOUS
<1>5. m \in Nat /\ DOMAIN a_extras = 1..m /\ \A k \in 1..m : a_extras[k] \in AutoExtra
  BY ONLY <1>3, <1>4
<1>6. \A k \in 1..m : ts[k] = a_extras[k].data /\ ts[k] \in Seq(Byte)
  BY ONLY <1>1, <1>5 DEF AutoExtra
<1>7. Len(ts) = m
  <2>1. ts \in [1..m -> Seq(Byte)]
    BY ONLY <1>1, <1>5, <1>6
  <2> QED
    BY ONLY <1>5, <2>1, FunctionIsSeq
<1>8. \A k \in 1..m : Len(ts[k]) \in Nat /\ DOMAIN ts[k] = 1..Len(ts[k])
  BY ONLY <1>6
<1>9. ks = 1..UsedNumber(m)
  <2>1. Smaller(m, USE_AUTO_EXTRAS) = UsedNumber(m)
    BY <1>5, DictionaryAssumption DEF Smaller, UsedNumber
  <2> QED
    BY ONLY <1>1, <1>4, <2>1
<1>10. \A i, j \in 1..m : i \in ks /\ j \in ks /\ i < j => Len(ts[i]) <= Len(ts[j])
  BY ONLY <1>3, <1>4, <1>6, <1>9 DEF ShortestFirst
<1>11. TokensSorted(ts, ks, m)
  BY ONLY <1>5, <1>7, <1>8, <1>10 DEF TokensSorted
<1>12. stage \in {"ext_UO", "ext_AO"} /\ OverwriteTokens(ts, ks)
  BY ONLY <1>2
<1> QED
  BY ONLY <1>11, <1>12, OverwriteTokensKeeps, StagesInv

LEMMA HeadGrows ==
  ASSUME NEW T, NEW b \in Seq(T), NEW t \in Nat, t < Len(b)
  PROVE  Append(SubSeq(b, 1, t), b[t + 1]) = SubSeq(b, 1, t + 1)
<1>1. PICK l : l = Len(b)
  OBVIOUS
<1>2. l \in Nat /\ b \in [1..l -> T] /\ t + 1 \in 1..l
  BY ONLY <1>1, b \in Seq(T), t \in Nat, t < Len(b)
<1>3. PICK u, v : u = SubSeq(b, 1, t) /\ v = SubSeq(b, 1, t + 1)
  OBVIOUS
<1>4. \A k \in 1..t + 1 : k \in 1..l
  BY ONLY <1>2, t \in Nat
<1>5. u = [k \in 1..t |-> b[k]] /\ v = [k \in 1..t + 1 |-> b[k]]
  BY ONLY <1>1, <1>2, <1>3, b \in Seq(T), t \in Nat
<1>6. \A k \in 1..t : k \in 1..t + 1
  BY ONLY t \in Nat
<1>7. u \in [1..t -> T]
  BY ONLY <1>2, <1>4, <1>5, <1>6
<1>8. u \in Seq(T) /\ Len(u) = t
  BY ONLY <1>7, FunctionIsSeq, t \in Nat
<1>9. b[t + 1] \in T
  BY ONLY <1>2
<1>10. PICK a : a = Append(u, b[t + 1])
  OBVIOUS
<1>11. a = [k \in 1..t + 1 |-> IF k = t + 1 THEN b[t + 1] ELSE u[k]]
  BY ONLY <1>8, <1>9, <1>10, t \in Nat
<1>12. \A k \in 1..t + 1 : (IF k = t + 1 THEN b[t + 1] ELSE u[k]) = b[k]
  <2> TAKE k \in 1..t + 1
  <2>1. k # t + 1 => k \in 1..t
    BY ONLY k \in 1..t + 1, t \in Nat
  <2> QED
    BY ONLY <1>5, <2>1
<1>13. a = v
  BY ONLY <1>5, <1>11, <1>12
<1> QED
  BY ONLY <1>3, <1>10, <1>13

LEMMA UserExtrasInsertKeeps ==
  ASSUME StagesInv, UserExtrasInsert PROVE StagesInv'
<1>1. stage = "ext_UI"
  BY ONLY UserExtrasInsert DEF UserExtrasInsert
<1>2. stage \in DetStages /\ stage \notin BeforeInsert
  BY ONLY <1>1, StageNames
<1>3. /\ len \in Nat /\ in_buf \in Buffers(len) /\ out_buf = in_buf /\ turn \in Nat
      /\ ex_tmp \in Seq(Byte) /\ ex_tmp = SubSeq(in_buf, 1, Len(ex_tmp)) /\ Len(ex_tmp) = turn
      /\ a_collect \in Seq(Byte) /\ a_extras \in Seq(AutoExtra) /\ ShortestFirst(a_extras)
  BY ONLY <1>1, <1>2, Running, StagesInv
<1>4. turn <= len
  BY ONLY <1>1, <1>2, WidthFits, StagesInv
<1>5. PICK runs : /\ Turn(runs, out_buf) /\ ex_tmp' = (IF turn < len THEN Append(ex_tmp, out_buf[turn + 1]) ELSE ex_tmp)
                  /\ a_collect' = a_collect /\ a_extras' = a_extras
  BY ONLY UserExtrasInsert DEF UserExtrasInsert
<1>6. Turn(runs, in_buf)
  BY ONLY <1>3, <1>5
<1>7. PICK b, l, t : b = in_buf /\ l = len /\ t = turn
  OBVIOUS
<1>8. b \in Seq(Byte) /\ Len(b) = l /\ t \in Nat /\ t <= l /\ l \in Nat
  BY ONLY <1>3, <1>4, <1>7 DEF Buffers
<1>9. PICK x : x = ex_tmp'
  OBVIOUS
<1>10. /\ t < l => x = SubSeq(b, 1, t + 1) /\ t + 1 <= l
       /\ ~(t < l) => x = SubSeq(b, 1, t)
  <2>1. CASE t < l
    <3>1. x = Append(SubSeq(b, 1, t), b[t + 1])
      BY ONLY <1>3, <1>5, <1>7, <1>9, <2>1
    <3>2. Append(SubSeq(b, 1, t), b[t + 1]) = SubSeq(b, 1, t + 1)
      BY ONLY <1>8, <2>1, HeadGrows
    <3> QED
      BY ONLY <1>8, <2>1, <3>1, <3>2
  <2>2. CASE ~(t < l)
    BY ONLY <1>3, <1>5, <1>7, <1>9, <2>2
  <2> QED
    BY ONLY <2>1, <2>2
<1>11. \A k \in Nat : k <= l => SubSeq(b, 1, k) \in Seq(Byte) /\ Len(SubSeq(b, 1, k)) = k
  BY ONLY <1>8
<1>12. x \in Seq(Byte) /\ x = SubSeq(b, 1, Len(x))
  <2>1. CASE t < l
    <3>1. t + 1 \in Nat
      BY ONLY <1>8
    <3> QED
      BY ONLY <1>10, <1>11, <2>1, <3>1
  <2>2. CASE ~(t < l)
    BY ONLY <1>8, <1>10, <1>11, <2>2
  <2> QED
    BY ONLY <2>1, <2>2
<1>13. ~LastTurn => Len(x) = t + 1
  <2>1. TurnsOf(stage, l) = l + 1
    BY ONLY <1>1, <1>2, <1>8, TurnsOfIs
  <2>2. LastTurn <=> t + 1 = l + 1
    BY ONLY <1>7, <2>1, TurnsAre DEF LastTurn
  <2>3. ~LastTurn => t < l
    BY ONLY <1>8, <2>2
  <2>4. t + 1 \in Nat
    BY ONLY <1>8
  <2> QED
    BY ONLY <1>10, <1>11, <2>3, <2>4
<1>14. LeavesRest
  BY ONLY <1>2, <1>3, <1>5, <1>7, <1>9, <1>12, <1>13 DEF LeavesRest
<1> QED
  BY ONLY <1>2, <1>6, <1>14, TurnKeeps, StagesInv

-----------------------------------------------------------------------------
(* FuzzOne: the buffers are in order.                                      *)

LEMMA StagesInitHolds ==
  ASSUME Init PROVE StagesInv
<1>1. /\ in_buf \in Inputs /\ out_buf = in_buf /\ stage = "flip1" /\ turn = 0
      /\ a_collect = <<>> /\ a_extras = <<>> /\ ex_tmp = <<>> /\ passed_det = FALSE
  BY ONLY Init DEF Init
<1>2. in_buf \in Seq(Byte) /\ in_buf # <<>>
  BY <1>1, StagesAssumption
<1>3. PICK l : l = Len(in_buf)
  OBVIOUS
<1>4. l \in Nat /\ l >= 1
  BY ONLY <1>2, <1>3
<1>5. "flip1" \in DetStages /\ "flip1" \in BitFlips
  BY ONLY StageNames DEF BitFlips
<1>6. turn < TurnsOf(stage, l)
  <2>1. Width("flip1") \in {1, 2, 4}
    BY ONLY WidthIs
  <2>2. TurnsOf("flip1", l) = 8 * l - Width("flip1") + 1
    BY ONLY <1>4, <1>5, TurnsOfIs
  <2> QED
    BY ONLY <1>1, <1>4, <2>1, <2>2
<1>7. <<>> \in Seq(Byte) /\ <<>> \in Seq(AutoExtra) /\ Len(<<>>) = 0
  OBVIOUS
<1>8. ShortestFirst(<<>>)
  <2>1. UsedNumber(0) = 0
    BY UsedNumberIs
  <2>2. 1..0 = {}
    OBVIOUS
  <2> QED
    BY ONLY <1>7, <2>1, <2>2 DEF ShortestFirst
<1>9. ShortestFirst(a_extras)
  BY ONLY <1>1, <1>8
<1>10. ex_tmp = SubSeq(in_buf, 1, Len(ex_tmp))
  BY ONLY <1>1, <1>2
<1>11. stage # "ext_UI" /\ stage \in DetStages
  BY ONLY <1>1, <1>5
<1> QED
  BY ONLY <1>1, <1>2, <1>3, <1>6, <1>7, <1>9, <1>10, <1>11 DEF StagesInv

LEMMA StagesStutter ==
  ASSUME StagesInv, UNCHANGED svars PROVE StagesInv'
<1>1. /\ stage' = stage /\ turn' = turn /\ in_buf' = in_buf /\ out_buf' = out_buf /\ ex_tmp' = ex_tmp
      /\ a_collect' = a_collect /\ a_extras' = a_extras /\ passed_det' = passed_det
  BY ONLY UNCHANGED svars DEF svars
<1> QED
  BY ONLY <1>1, StagesInv DEF StagesInv

\* Leaving the stages, at their end or in the middle, leaves the buffers.
LEMMA AbandonKeeps ==
  ASSUME StagesInv, Abandon PROVE StagesInv'
<1>1. /\ stage \notin {"havoc", "abandoned", "over"}
      /\ stage' = "abandoned" /\ turn' = turn /\ in_buf' = in_buf /\ out_buf' = out_buf /\ ex_tmp' = ex_tmp
      /\ a_collect' = a_collect /\ a_extras' = a_extras /\ passed_det' = passed_det
  BY ONLY Abandon DEF Abandon
<1>2. /\ in_buf \in Seq(Byte) /\ out_buf \in Seq(Byte) /\ ex_tmp \in Seq(Byte) /\ a_collect \in Seq(Byte)
      /\ turn \in Nat /\ passed_det \in BOOLEAN
      /\ a_extras \in Seq(AutoExtra) /\ ShortestFirst(a_extras) /\ in_buf # <<>>
  BY ONLY <1>1, StagesInv DEF StagesInv
<1>3. stage' \notin DetStages /\ stage' \notin BeforeInsert /\ stage' # "ext_UI" /\ stage' # "over"
  BY ONLY <1>1, StageNames
<1> QED
  BY ONLY <1>1, <1>2, <1>3 DEF StagesInv

LEMMA SkipKeeps ==
  ASSUME StagesInv, SkipDeterministic PROVE StagesInv'
<1>1. /\ stage = "flip1" /\ stage' = "havoc" /\ turn' = turn
      /\ in_buf' = in_buf /\ out_buf' = out_buf /\ ex_tmp' = ex_tmp
      /\ a_collect' = a_collect /\ a_extras' = a_extras /\ passed_det' = passed_det
  BY ONLY SkipDeterministic DEF SkipDeterministic
<1>2. /\ in_buf \in Seq(Byte) /\ out_buf \in Seq(Byte) /\ ex_tmp \in Seq(Byte) /\ a_collect \in Seq(Byte)
      /\ turn \in Nat /\ passed_det \in BOOLEAN
      /\ a_extras \in Seq(AutoExtra) /\ ShortestFirst(a_extras) /\ in_buf # <<>>
      /\ out_buf = in_buf /\ ex_tmp = SubSeq(in_buf, 1, Len(ex_tmp))
  BY ONLY <1>1, StagesInv DEF StagesInv
<1>3. stage' \notin DetStages /\ stage' \notin BeforeInsert /\ stage' # "ext_UI" /\ stage' # "over"
  BY ONLY <1>1, StageNames
<1> QED
  BY ONLY <1>1, <1>2, <1>3 DEF StagesInv

LEMMA EnterHavocKeeps ==
  ASSUME StagesInv, EnterHavoc PROVE StagesInv'
<1>1. /\ stage' = "over" /\ turn' = 0 /\ in_buf' = <<>> /\ out_buf' = <<>> /\ ex_tmp' = <<>>
      /\ a_extras' = <<>> /\ a_collect' = <<>> /\ passed_det' = FALSE
  BY ONLY EnterHavoc DEF EnterHavoc
<1>2. <<>> \in Seq(Byte) /\ <<>> \in Seq(AutoExtra) /\ Len(<<>>) = 0
  OBVIOUS
<1>3. ShortestFirst(<<>>)
  <2>1. UsedNumber(0) = 0
    BY UsedNumberIs
  <2>2. 1..0 = {}
    OBVIOUS
  <2> QED
    BY ONLY <1>2, <2>1, <2>2 DEF ShortestFirst
<1>4. ShortestFirst(a_extras')
  BY ONLY <1>1, <1>3
<1>5. stage' \notin DetStages /\ stage' \notin BeforeInsert /\ stage' # "ext_UI"
  BY ONLY <1>1, StageNames
<1> QED
  BY ONLY <1>1, <1>2, <1>4, <1>5 DEF StagesInv

\* The stages that walk and the random ones have variables of their own: their
\* invariants meet where EnterHavoc hands the length of the buffer over.
FuzzOneInv == StagesInv /\ HInv

LEMMA FuzzOneInitHolds ==
  ASSUME FuzzOneInit PROVE FuzzOneInv
BY ONLY FuzzOneInit, StagesInitHolds, HavocInitHolds DEF FuzzOneInit, FuzzOneInv

LEMMA FuzzOneKeeps ==
  ASSUME FuzzOneInv, [FuzzOneNext]_vars PROVE FuzzOneInv'
<1>1. StagesInv /\ HInv
  BY ONLY FuzzOneInv DEF FuzzOneInv
<1>2. CASE SkipDeterministic
  <2>1. UNCHANGED hvars
    BY ONLY <1>2 DEF SkipDeterministic, hvars
  <2>2. HInv'
    BY ONLY <1>1, <2>1, HavocStutters
  <2>3. StagesInv'
    BY ONLY <1>1, <1>2, SkipKeeps
  <2> QED
    BY ONLY <2>2, <2>3 DEF FuzzOneInv
<1>3. CASE Deterministic
  <2>1. UNCHANGED hvars /\ Next
    BY ONLY <1>3 DEF Deterministic
  <2>2. HInv'
    BY ONLY <1>1, <2>1, HavocStutters
  <2>3. \/ WalkingBits \/ WalkingBytes \/ Arithmetics \/ InterestingValues
        \/ UserExtrasOver \/ UserExtrasInsert \/ AutoExtrasOver \/ Abandon
    BY ONLY <2>1 DEF Next
  <2>4. StagesInv'
    BY ONLY <1>1, <2>3, WalkingBitsKeeps, WalkingBytesKeeps, ArithmeticsKeeps, InterestingValuesKeeps,
            UserExtrasOverKeeps, UserExtrasInsertKeeps, AutoExtrasOverKeeps, AbandonKeeps
  <2> QED
    BY ONLY <2>2, <2>4 DEF FuzzOneInv
<1>4. CASE EnterHavoc
  <2>1. stage = "havoc" /\ HavocStart(len, passed_det)
    BY ONLY <1>4 DEF EnterHavoc
  <2>2. in_buf \in Seq(Byte) /\ in_buf # <<>> /\ passed_det \in BOOLEAN
    BY ONLY <1>1, <2>1 DEF StagesInv
  <2>3. PICK n, det : n = len /\ det = passed_det
    OBVIOUS
  <2>4. n \in Nat /\ n >= 1 /\ det \in BOOLEAN /\ HavocStart(n, det)
    BY ONLY <2>1, <2>2, <2>3 DEF len
  <2>5. HInv'
    BY ONLY <1>1, <2>4, StartKeeps
  <2>6. StagesInv'
    BY ONLY <1>1, <1>4, EnterHavocKeeps
  <2> QED
    BY ONLY <2>5, <2>6 DEF FuzzOneInv
<1>5. CASE Random
  <2>1. HavocNext /\ UNCHANGED svars
    BY ONLY <1>5 DEF Random
  <2>2. HInv'
    BY ONLY <1>1, <2>1, HavocKeeps
  <2>3. StagesInv'
    BY ONLY <1>1, <2>1, StagesStutter
  <2> QED
    BY ONLY <2>2, <2>3 DEF FuzzOneInv
<1>6. CASE UNCHANGED vars
  <2>1. UNCHANGED svars /\ UNCHANGED hvars
    BY ONLY <1>6 DEF vars
  <2>2. HInv'
    BY ONLY <1>1, <2>1, HavocStutters
  <2>3. StagesInv'
    BY ONLY <1>1, <2>1, StagesStutter
  <2> QED
    BY ONLY <2>2, <2>3 DEF FuzzOneInv
<1> QED
  BY ONLY <1>2, <1>3, <1>4, <1>5, <1>6, [FuzzOneNext]_vars DEF FuzzOneNext

LEMMA FuzzOneInvSays ==
  ASSUME FuzzOneInv PROVE BuffersInOrder
<1>1. StagesInv /\ HInv
  BY ONLY FuzzOneInv DEF FuzzOneInv
<1>2. MemoryFits
  BY ONLY <1>1, HavocFits
<1>3. BufferRestored
  BY ONLY <1>1 DEF StagesInv, BufferRestored
<1>4. HavocTypeOK
  BY ONLY <1>1 DEF HInv
<1>5. stage \in ToSet(AllStages) \cup {"abandoned", "over"}
  <2>1. stage \in DetStages \cup {"havoc", "abandoned", "over"}
    BY ONLY <1>1 DEF StagesInv
  <2>2. ToSet(AllStages) = {AllStages[k] : k \in 1..16}
    BY ONLY StageTable DEF ToSet
  <2>3. stage \in DetStages \cup {"havoc"} => \E k \in 1..16 : AllStages[k] = stage
    <3>1. CASE stage \in DetStages
      <4>1. PICK k \in 1..15 : AllStages[k] = stage
        BY ONLY <3>1, StageHasPlace
      <4>2. k \in 1..16
        OBVIOUS
      <4> QED
        BY ONLY <4>1, <4>2
    <3>2. CASE stage = "havoc"
      <4>1. 16 \in 1..16 /\ AllStages[16] = "havoc"
        BY ONLY StageTable
      <4> QED
        BY ONLY <3>2, <4>1
    <3> QED
      BY ONLY <3>1, <3>2
  <2> QED
    BY ONLY <2>1, <2>2, <2>3
<1>6. /\ in_buf \in Seq(Byte) /\ out_buf \in Seq(Byte) /\ turn \in Nat
      /\ a_extras \in Seq(AutoExtra)
  BY ONLY <1>1 DEF StagesInv
<1>7. \A e \in DOMAIN a_extras : a_extras[e] \in AutoExtra
  BY ONLY <1>6
<1> QED
  BY ONLY <1>2, <1>3, <1>4, <1>5, <1>6, <1>7 DEF BuffersInOrder, FuzzOneTypeOK

\* The inductive invariant of fuzz_one holds in every state of every execution.
THEOREM FuzzOneInvariant == FuzzOneSpec => []FuzzOneInv
<1>1. FuzzOneInit => FuzzOneInv
  BY ONLY FuzzOneInitHolds
<1>2. FuzzOneInv /\ [FuzzOneNext]_vars => FuzzOneInv'
  BY ONLY FuzzOneKeeps
<1> QED
  BY ONLY <1>1, <1>2, PTL DEF FuzzOneSpec

\* Whatever a stage wrote, over whatever buffer, dictionary and tables, the next
\* turn and the next stage start from the seed: the bits are flipped back, the
\* words put back, and the tokens, shortest first and only once per offset, too
\* (afl-fuzz.c:6157-7092).  Havoc and splicing write within what they allocated
\* (7102-7728).
THEOREM BuffersStayInOrder == FuzzOneSpec => []BuffersInOrder
<1>1. FuzzOneInv => BuffersInOrder
  BY ONLY FuzzOneInvSays
<1> QED
  BY ONLY <1>1, FuzzOneInvariant, PTL
=============================================================================
