----------------------------- MODULE MCSSApply -----------------------------
(* Small instances of SSApply for TLC.                                     *)
EXTENDS SSApply, TLC

CONSTANTS a1, a2, g1, bad

OneApply  == {a1}
TwoApplies == {a1, a2}
TwoConfigs == {g1, bad}
GoodOnes   == {g1}

Symmetry == Permutations(Apply)

\* Two states are one when they differ only in what nothing reads any more: the
\* stored configuration once every apply has begun, and what a session had
\* loaded once its request has ended.
View ==
  <<IF \E a \in Apply : at[a] = "idle" THEN stored ELSE First,
    [a \in Apply |-> IF at[a] = "done" THEN "never" ELSE loaded[a]],
    status, at, config, said, nodeVars, rpcVars>>
=============================================================================
