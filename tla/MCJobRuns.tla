----------------------------- MODULE MCJobRuns -----------------------------
(* Two jobs of one project over a few minutes. *)
EXTENDS JobRuns, TLC

\* One fires twice, so that its first slot can outlive the retention; the
\* other once.
TwoJobs == [p \in Process |-> IF p = "nightly" THEN {0, 3} ELSE {1}]

Symmetric == Permutations(Worker)
=============================================================================
