---------------------------- MODULE MCSogaStore ----------------------------
(* Small instances of SogaStore for TLC.                                   *)
EXTENDS SogaStore, TLC

CONSTANTS r1, r2, entry, l1, l2, f1, f2

OneRequest  == {r1}
TwoRequests == {r1, r2}
OneFolder   == {f1}
TwoFolders  == {f1, f2}
TwoLandings == {l1, l2}
Payloads    == {<<{l2}>>, <<{l1}, {l1, l2}>>}

Symmetry == Permutations(Request) \cup Permutations(Folder)
=============================================================================
