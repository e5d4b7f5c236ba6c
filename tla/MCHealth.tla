------------------------------ MODULE MCHealth ------------------------------
(* Instances of Health for TLC: attempts over one endpoint, and over a chain.  *)
EXTENDS Health, TLC

CONSTANTS e1, e2, a1, a2, a3

SingleHop == {<<e1>>}
Mixed     == {<<e1>>, <<e2, e1>>}

Symmetric == Permutations(Attempts)
=============================================================================
