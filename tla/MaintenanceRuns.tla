--------------------------- MODULE MaintenanceRuns ---------------------------
(***************************************************************************)
(* The table maintenance_runs: one row per clean-up or backup, whoever     *)
(* asked for it.  The statements of repositories/maintenance.py, each one  *)
(* a transaction: the value the table has after it.                        *)
(*                                                                         *)
(* A row's id is its place in the sequence.  No statement that ends a run  *)
(* compares it with a worker: a row is ended by id.                        *)
(***************************************************************************)
EXTENDS Integers, FiniteSets, Sequences

CONSTANT MaxRuns  \* bound: rows ever inserted

ASSUME MaxRunsAssumption == MaxRuns \in Nat

VARIABLE runs

Kind == {"cleanup", "backup"}

Status == {"requested", "running", "succeeded", "failed"}

\* stale: started longer than STALE_AFTER ago.
Run == [kind : Kind, status : Status, stale : BOOLEAN]

RunId == DOMAIN runs

IsOpen(r) == runs[r].status \in {"requested", "running"}

\* What maintenance_runs_one_open lets at most one of.
OpenOf(kind) == {r \in RunId : runs[r].kind = kind /\ IsOpen(r)}

Inserted(kind, status) ==
    Append(runs, [kind |-> kind, status |-> status, stale |-> FALSE])

\* request and begin: refused, or None, while one of the kind is open.
CanInsert(kind) == OpenOf(kind) = {} /\ Len(runs) < MaxRuns

\* claim: the requested run of the kind.
Claimable(r, kind) == runs[r].kind = kind /\ runs[r].status = "requested"

WithStatus(r, status) ==
    [runs EXCEPT ![r].status = status, ![r].stale = FALSE]

\* Variant: a verdict the CHECK of the column refuses.
ClosedAsAborted(r, status) == WithStatus(r, "aborted")

\* finish and fail.
Closed(r, status) == WithStatus(r, status)

\* Variant: only rows nobody has claimed.
StaleRequest(r) == runs[r].status = "requested" /\ runs[r].stale

\* abandon_stale: running, and started before the limit of its kind.
Stale(r) == runs[r].status = "running" /\ runs[r].stale

AllAbandoned ==
    [r \in RunId |-> IF Stale(r) THEN [runs[r] EXCEPT !.status = "failed", !.stale = FALSE]
                     ELSE runs[r]]

RunsTypeOK ==
    /\ runs \in Seq(Run)
    /\ Len(runs) <= MaxRuns
=============================================================================
