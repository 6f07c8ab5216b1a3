--------------------------- MODULE MCKeyRotation ---------------------------
(* The instances of KeyRotation: two servers on hosts of their own or on   *)
(* one account, and up to three rotations.                                 *)
EXTENDS KeyRotation

CONSTANTS s1, s2, a1, a2

MCServers == {s1, s2}
MCAccounts == {a1, a2}

Own == [s \in MCServers |-> IF s = s1 THEN a1 ELSE a2]
Same == [s \in MCServers |-> a1]

Case(account, together, requests, held, admin, faults) ==
  [account |-> account, together |-> together, requests |-> requests, held |-> held,
   admin |-> admin, faults |-> faults]

\* Hosts of their own and a shared account; separate and bulk requests; with
\* each kind of fault and of request in between.
AllSettings ==
  { Case(Own, TRUE, 3, FALSE, {"delete"}, {"network", "crash"}),
    Case(Same, FALSE, 3, FALSE, {"demote"}, {"network", "crash"}),
    Case(Same, FALSE, 3, TRUE, {}, {"network", "vault"}),
    Case(Own, TRUE, 3, FALSE, {"demote"}, {"vault"}),
    Case(Same, TRUE, 3, FALSE, {}, {"network"}),
    Case(Same, FALSE, 3, FALSE, {"delete"}, {"vault"}),
    Case(Own, FALSE, 2, FALSE, {"reassign", "delete"}, {"network", "crash"}),
    Case(Own, TRUE, 2, FALSE, {}, {"network", "late"}) }
=============================================================================
