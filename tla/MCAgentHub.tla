----------------------------- MODULE MCAgentHub -----------------------------
(* Small instances of AgentHub for TLC.                                    *)
EXTENDS AgentHub, TLC

CONSTANTS n1, n2, c1, c2, k1, k2

OneNode  == {n1}
TwoNodes == {n1, n2}
TwoConns == {c1, c2}
NoCall   == {}
OneCall  == {k1}
TwoCalls == {k1, k2}

Symmetry == Permutations(Conn) \cup Permutations(Call) \cup Permutations(Node)
=============================================================================
