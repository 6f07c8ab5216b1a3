---------------------------- MODULE MCLiveAccess ----------------------------
(* The instances of LiveAccess: one member and one terminal, whose          *)
(* interleavings with edits, requests and minutes the cfg files bound.     *)
EXTENDS LiveAccess
=============================================================================
