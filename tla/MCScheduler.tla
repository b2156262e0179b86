---------------------------- MODULE MCScheduler ----------------------------
(* Small sets of responses for Scheduler; r(codes, counts) is one response. *)
EXTENDS Scheduler

r(codes, counts) == [codes |-> codes, counts |-> counts]

ThreeStates == {0, 1, 2}
MCAlgos == {<<RoundRobin, RoundRobin>>, <<Favor, Favor>>}

(* A loop of three visits, which is shortened, in a state that only the     *)
(* last region reaches; a silent region last; a silent region first and a   *)
(* state that no region ends in; a response without a code; none at all.    *)
MCResponses ==
  { r(<<0, 1, 1, 1>>, <<1, 4>>), r(<<0, 1>>, <<2, 0>>), r(<<0, 2, 1>>, <<0, 3>>),
    r(<<0>>, <<1>>), r(<<>>, <<0>>) }
=============================================================================
