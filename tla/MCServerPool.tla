---------------------------- MODULE MCServerPool ----------------------------
(* ServerPool on small sets for TLC. *)
EXTENDS ServerPool

CONSTANTS r1, r2, h1, h2, k1, k2

MCRequests == {r1, r2}
MCHosts == {h1, h2}
MCKeys == {k1, k2}
=============================================================================
