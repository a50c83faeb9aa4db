--------------------------- MODULE MCPanelProcess ---------------------------
(* Small instances of PanelProcess for TLC.                                *)
EXTENDS PanelProcess, TLC

CONSTANTS t1, t2, n1, p1, p2, s1, s2, s3, k1, k2

TwoThreads   == {t1, t2}
OneNode      == {n1}
TwoPasswords == {p1, p2}
ThreeSecrets == {s1, s2, s3}
TwoKeys      == {k1, k2}

\* Runs in which two kinds of things have gone amiss are not followed.
OneThingAmiss == Cardinality(amiss) <= 1

Symmetry == Permutations(Thread) \cup Permutations(Password)
              \cup Permutations(Secret) \cup Permutations(Key)
=============================================================================
