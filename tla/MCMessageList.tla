--------------------------- MODULE MCMessageList ---------------------------
(* Input directories of two entries for TLC; entry(sizes) is a file whose   *)
(* regions have these sizes.                                                *)
EXTENDS MessageList

entry(sizes) ==
  LET end[k \in 0..Len(sizes)] == IF k = 0 THEN 0 ELSE end[k - 1] + sizes[k]
  IN  [file |-> [b \in 1..end[Len(sizes)] |-> b],
       regions |-> [k \in DOMAIN sizes |->
                      [start |-> end[k - 1] + 1, end |-> end[k]]]]

TwoSeeds == << entry(<<1, 1>>), entry(<<2>>) >>
=============================================================================
