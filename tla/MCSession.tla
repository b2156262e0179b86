----------------------------- MODULE MCSession -----------------------------
(* The small instance of Session. *)
EXTENDS Session

OneCode == {1}
=============================================================================
