----------------------------- MODULE MessageSeq -----------------------------
(***************************************************************************)
(* What fuzz_one needs from kl_messages and from the queue: the corpus is  *)
(* a list of message sequences; the sequence that is loaded has three      *)
(* parts.  The prefix M1 and the suffix M3 stay what they are while the    *)
(* seed is fuzzed; only the middle part M2 is replaced, by at most MaxM2   *)
(* messages.  What is saved begins with the bytes that were sent first.    *)
(***************************************************************************)
EXTENDS Naturals, Sequences, SequencesExt

CONSTANT MaxM2

VARIABLES
  corpus,  \* the message sequences of the queue
  parts    \* <<M1, M2, M3>> of the seed that is loaded, or <<>>
vars == <<corpus, parts>>

Whole(p) == p[1] \o p[2] \o p[3]

Init == parts = <<>>

Load ==
  /\ parts = <<>>
  /\ LET p == parts' IN p # <<>> /\ p[2] # <<>> /\ Whole(p) \in ToSet(corpus)
  /\ UNCHANGED corpus

Mutate ==
  /\ parts # <<>>
  /\ LET p == parts
         q == parts'
     IN  q # <<>> /\ q[1] = p[1] /\ q[3] = p[3] /\ Len(q[2]) \in 1..MaxM2
  /\ UNCHANGED corpus

Save ==
  /\ parts # <<>> /\ UNCHANGED parts
  /\ LET c == corpus'
     IN  /\ c # <<>> /\ Front(c) = corpus
         /\ Last(c) # <<>>
         /\ IsPrefix(FlattenSeq(Last(c)), FlattenSeq(Whole(parts)))

Unload == parts # <<>> /\ parts' = <<>> /\ UNCHANGED corpus

Spec == Init /\ [][Load \/ Mutate \/ Save \/ Unload]_vars
=============================================================================
