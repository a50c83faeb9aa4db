--------------------------- MODULE MCNodeInstall ---------------------------
(* Small instances of NodeInstall for TLC.                                 *)
EXTENDS NodeInstall, TLC

CONSTANTS r1, r2, e1

OneRequest  == {r1}
TwoRequests == {r1, r2}
OneEndpoint == {e1}

Symmetry == Permutations(Request)
=============================================================================
