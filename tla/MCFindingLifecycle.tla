-------------------------- MODULE MCFindingLifecycle --------------------------
(* Small instances of FindingLifecycle for TLC. *)
EXTENDS FindingLifecycle, TLC

CONSTANTS f1, f2, t1, t2

\* Both collectors see the first finding, the second is seen by one of them.
Overlap == [t \in Tools |-> IF t = t1 THEN Fps ELSE {f1}]

\* Every request configures all collectors.
AllTools == {Tools}

Symmetry == Permutations(Jobs)

NoVex == {{}}
SecondIsSuppressed == {{f2}}
=============================================================================
