------------------------------ MODULE PathTrie ------------------------------
(***************************************************************************)
(* What the search tree promises its users: it is the set of response      *)
(* sequences seen so far, closed under prefixes, and the root counts how   *)
(* many test cases brought a sequence that was not in it.                  *)
(***************************************************************************)
EXTENDS Naturals, Sequences

CONSTANT Observable   \* the response sequences executions may produce

VARIABLES known, found

PrefixesOf(s) == {SubSeq(s, 1, k) : k \in 1..Len(s)}

Init == known = {<<0>>} /\ found = 0

Observe(s) ==
  /\ known' = known \cup PrefixesOf(s)
  /\ found' = IF s \in known THEN found ELSE found + 1

Next == \E s \in Observable : Observe(s)

Spec == Init /\ [][Next]_<<known, found>>
=============================================================================
