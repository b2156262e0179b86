------------------------------- MODULE MCMCTS -------------------------------
(* Small sets of queue entries for TLC; e(codes, counts) is one entry.      *)
EXTENDS MCTS

e(codes, counts) == [codes |-> codes, counts |-> counts]

(* Bursts: a region may complete several codes, so black nodes, flips and   *)
(* dead ends happen; no region is without a code of its own.  Three entries *)
(* are in lockstep.                                                         *)
BurstEntries ==
  { e(<<0, 1>>, <<2>>), e(<<0, 1, 2>>, <<3>>), e(<<0, 1, 2>>, <<2, 3>>),
    e(<<0, 1, 2, 3>>, <<4>>), e(<<0, 1, 2, 4>>, <<3, 4>>),
    e(<<0, 1, 4>>, <<3>>), e(<<0, 2>>, <<2>>) }

(* Regions whose bytes complete no code, the code of the simulation nodes,  *)
(* and a response without any code.                                         *)
ChattyEntries ==
  { e(<<0, 1>>, <<2>>), e(<<0, 1, 2>>, <<3>>), e(<<0, 1, 2>>, <<2, 2, 2, 3>>),
    e(<<0, 1, 2, 3>>, <<2, 4>>) }

WildEntries == ChattyEntries \cup
  { e(<<0>>, <<1>>), e(<<0, 999, 1>>, <<2, 3>>), e(<<0, 1, 3>>, <<3>>) }
=============================================================================
