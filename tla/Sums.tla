-------------------------------- MODULE Sums --------------------------------
(* The sum of a function to Nat over a finite set, as the number of its units: *)
(* DataTheorems derives what the proofs need from the theorems on cardinality. *)
EXTENDS Naturals, FiniteSets

Units(f, S) == UNION {{x} \X (1 .. f[x]) : x \in S}

Total(f, S) == Cardinality(Units(f, S))
=============================================================================
