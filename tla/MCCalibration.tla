---------------------------- MODULE MCCalibration ---------------------------
EXTENDS Calibration

o(h, f, s, k) == [hits |-> h, fault |-> f, sent |-> s, sig |-> k]

\* two paths, one of them with a number of hits that varies; a run without any
\* instrumentation; crashes on two paths, a timeout, and a target that cannot
\* be started
MCOutcomes ==
  {o(<<1, 0>>, "none", 1, 0), o(<<2, 0>>, "none", 2, 0), o(<<1, 3>>, "none", 2, 0),
   o(<<0, 0>>, "none", 1, 0), o(<<1, 0>>, "crash", 1, 11), o(<<1, 3>>, "crash", 2, 6),
   o(<<2, 0>>, "tmout", 1, 9), o(<<0, 0>>, "error", 0, 0)}
=============================================================================
