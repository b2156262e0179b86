---------------------------- MODULE MCFavourites ----------------------------
(* Small instances of Favourites. *)
EXTENDS Favourites

TwoStates == {0, 1}
TwoFactors == {1, 2}
=============================================================================
