----------------------------- MODULE MCScanService -----------------------------
(* Instances of ScanService for TLC.                                        *)
EXTENDS ScanService, TLC

CONSTANTS s1, s2, s3, acme

OneOrg == [s \in Scans |-> acme]
Symmetry == Permutations(Scans)

(* Three requests as long as nothing fails, two where something does: what  *)
(* lies behind a state beyond this is not explored.                         *)
FailuresAmongTwo ==
    faults = 0 \/ Cardinality({s \in Scans : pc[s] # "idle"}) <= 2
=============================================================================
