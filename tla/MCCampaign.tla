----------------------------- MODULE MCCampaign -----------------------------
(* Sessions of one campaign next to another instance, for TLC.              *)
EXTENDS Campaign
=============================================================================
