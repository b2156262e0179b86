---------------------------- MODULE MCExecution -----------------------------
EXTENDS Execution

opt(s, p, t, f) ==
  [server |-> s, persistent |-> p, terminate_child |-> t, false_negative_reduction |-> f]

\* the fork server of either kind, with and without -K and -F
Forking == {opt("asm", FALSE, t, f) : t \in BOOLEAN, f \in BOOLEAN}
Looping == {opt("llvm", TRUE, t, TRUE) : t \in BOOLEAN}

\* AFL_NO_FORKSRV
NoForkserver == {opt("none", FALSE, TRUE, FALSE)}

MCOptions == Forking \cup Looping \cup NoForkserver
=============================================================================
