---------------------------- MODULE MCApiProcess ----------------------------
(* An instance of ApiProcess for TLC: two processes, on a host each or on   *)
(* one, with the same dev key or with different ones.                       *)
EXTENDS ApiProcess, TLC

CONSTANTS p1, p2, h1, h2, r1, r2, r3, o1, o2

Configured(a, b) == [p \in Procs |-> IF p = p1 THEN a ELSE b]
MCSettings == {Configured("d1", "d1"), Configured("d1", "d2")}
Symmetry == Permutations(Calls) \cup Permutations(Hosts) \cup Permutations(Orgs)
=============================================================================
