----------------------------- MODULE ForkServer -----------------------------
(***************************************************************************)
(* The side of the target in an execution: the fork server that the        *)
(* instrumentation puts into it (afl-as.h in assembly, afl-llvm-rt.o.c for *)
(* the LLVM passes), its children, and the two pipes that lead to          *)
(* afl-fuzz.  Four bytes go through a pipe in one piece.                   *)
(*                                                                         *)
(* Processes are numbered as they are created.  A process that ended is a  *)
(* zombie until its parent waits for it; when the parent is dead, init     *)
(* does.  by is a history: who made the process end.                       *)
(***************************************************************************)
EXTENDS Integers, Sequences, SequencesExt

CONSTANT Options   \* the ways a target is built and afl-fuzz is called

ASSUME OptionsAssumption ==
  Options \subseteq [server : {"none", "asm", "llvm"}, persistent : BOOLEAN,
                     terminate_child : BOOLEAN, false_negative_reduction : BOOLEAN]

VARIABLES
  options,  \* chosen once
  server,   \* where the fork server is, and its locals
  ctl, st,  \* the control and the status pipe
  procs     \* the processes of the target

serverVars == <<options, server, ctl, st, procs>>

Statuses == {"exit", "msan", "SEGV", "TERM", "KILL", "STOP"}

Persistent == options.server = "llvm" /\ options.persistent

NewProcess == [state |-> "running", status |-> "exit", by |-> "nobody"]
ProcessRecord == [state : {"running", "stopped", "zombie", "gone"}, status : Statuses,
                  by : {"nobody", "itself", "alarm", "stop", "term"}]

\* kill(p, 0) succeeds for a zombie
Exists(p) == p \in DOMAIN procs /\ procs[p].state # "gone"
Living(p) == p \in DOMAIN procs /\ procs[p].state \in {"running", "stopped"}

Ended(ps, p, how, who) ==
  [ps EXCEPT ![p] = [state |-> "zombie", status |-> how, by |-> who]]

\* kill(p, SIGKILL): a process that ended already is not changed
Killed(p, who) == IF Living(p) THEN Ended(procs, p, "KILL", who) ELSE procs

Reaped(p) == [procs EXCEPT ![p].state = "gone"]

Message(about, val) == [about |-> about, val |-> val]

----------------------------------------------------------------------------
(* The server: one loop, the waits between two system calls are steps.     *)

InitServer ==
  /\ options \in Options
  /\ server = [at |-> "absent", child |-> 0, was_killed |-> FALSE, child_stopped |-> FALSE,
               status |-> "exit"]
  /\ ctl = << >> /\ st = << >>
  /\ procs = << >>

\* phone home
Hello ==
  /\ server.at = "hello"
  /\ st' = Append(st, Message("hello", 0))
  /\ server' = [server EXCEPT !.at = "wait"]
  /\ UNCHANGED <<options, ctl, procs>>

\* the target ends before it gets to the instrumentation, or has none
EndsEarly ==
  /\ server.at = "hello"
  /\ server' = [server EXCEPT !.at = "dead"]
  /\ UNCHANGED <<options, ctl, st, procs>>

ReadRequest ==
  /\ server.at = "wait" /\ ctl # << >>
  /\ ctl' = Tail(ctl)
  /\ server' = [server EXCEPT !.was_killed = Head(ctl),
                              !.at = IF server.child_stopped /\ Head(ctl) THEN "writeoff" ELSE "fork"]
  /\ UNCHANGED <<options, st, procs>>

\* the child was stopped, and afl-fuzz killed it before it knew
WriteOff ==
  /\ server.at = "writeoff" /\ procs[server.child].state = "zombie"
  /\ procs' = Reaped(server.child)
  /\ server' = [server EXCEPT !.child_stopped = FALSE, !.at = "fork"]
  /\ UNCHANGED <<options, ctl, st>>

Fork ==
  /\ server.at = "fork" /\ ~server.child_stopped
  /\ \/ /\ procs' = Append(procs, NewProcess)
        /\ server' = [server EXCEPT !.child = Len(procs'), !.at = "pid"]
     \/ server' = [server EXCEPT !.at = "dead"] /\ UNCHANGED procs   \* fork failed
  /\ UNCHANGED <<options, ctl, st>>

\* SIGCONT to the child that stopped itself
Continue ==
  /\ server.at = "fork" /\ server.child_stopped
  /\ procs' = IF procs[server.child].state = "stopped"
                THEN [procs EXCEPT ![server.child] = NewProcess] ELSE procs
  /\ server' = [server EXCEPT !.child_stopped = FALSE, !.at = "pid"]
  /\ UNCHANGED <<options, ctl, st>>

WritePid ==
  /\ server.at = "pid"
  /\ st' = Append(st, Message("pid", server.child))
  /\ server' = [server EXCEPT !.at = "waitpid"]
  /\ UNCHANGED <<options, ctl, procs>>

\* waitpid with WNOHANG
\* waitpid with WUNTRACED in persistent mode
WaitForChild ==
  /\ server.at = "waitpid"
  /\ \/ /\ procs[server.child].state = "zombie"
        /\ procs' = Reaped(server.child)
        /\ server' = [server EXCEPT !.at = "status", !.status = procs[server.child].status]
     \/ /\ Persistent /\ procs[server.child].state = "stopped"
        /\ server' = [server EXCEPT !.at = "status", !.status = "STOP", !.child_stopped = TRUE]
        /\ UNCHANGED procs
  /\ UNCHANGED <<options, ctl, st>>

WriteStatus ==
  /\ server.at = "status"
  /\ st' = Append(st, Message("status", server.status))
  /\ server' = [server EXCEPT !.at = "wait"]
  /\ UNCHANGED <<options, ctl, procs>>

ServerStep ==
  \/ Hello \/ ReadRequest \/ WriteOff \/ Fork \/ Continue \/ WritePid \/ WaitForChild
  \/ WriteStatus

----------------------------------------------------------------------------
(* The children.  Nothing obliges a server under test to end.              *)

ChildEnds ==
  \E p \in DOMAIN procs :
    /\ procs[p].state = "running"
    /\ \E how \in {"exit", "SEGV", "msan"} : procs' = Ended(procs, p, how, "itself")
    /\ UNCHANGED <<options, server, ctl, st>>

\* __AFL_LOOP: the end of one iteration
ChildStops ==
  \E p \in DOMAIN procs :
    /\ Persistent /\ procs[p].state = "running"
    /\ procs' = [procs EXCEPT ![p].state = "stopped"]
    /\ UNCHANGED <<options, server, ctl, st>>

\* init waits for the children of a dead server
InitReaps ==
  \E p \in DOMAIN procs :
    /\ server.at = "dead" /\ procs[p].state = "zombie"
    /\ procs' = Reaped(p)
    /\ UNCHANGED <<options, server, ctl, st>>
=============================================================================
