----------------------------- MODULE MCFuzzOne ------------------------------
EXTENDS FuzzOne

\* a value that flips bits across bytes when 32 is added, a single byte, runs
\* of letters, words next to interesting ones, and enough bytes for four blocks
\* of the effector map
MCInputs == {<<224, 0>>, <<7>>, <<120, 250, 3>>, <<65, 66, 0, 255>>, <<66, 97, 66, 65>>, <<65, 66, 66, 0, 0, 0, 128>>}
MCExtras == <<<<66>>, <<65, 66>>>>
=============================================================================
