------------------------------- MODULE Leases -------------------------------
(***************************************************************************)
(* The row of the files table and the five lease statements of the worker  *)
(* (packages/worker/src/leases.py).  A lease is one conditional UPDATE: it *)
(* names the instance that holds the file and the time until which it      *)
(* holds it.  Each operator below maps a row to the row the statement      *)
(* leaves, so the composed model (Pipeline) uses exactly one definition of *)
(* what claiming, renewing, completing, failing and releasing do.          *)
(*                                                                         *)
(* Time is abstracted: claimed_until is "none" (NULL), "live" (in the      *)
(* future) or "expired" (in the past).                                     *)
(***************************************************************************)
EXTENDS Naturals

CONSTANTS Instances,     \* values of Config.instance_id
          NoOne,         \* claimed_by IS NULL
          MaxAttempts    \* files.max_attempts

ASSUME LeaseAssumption ==
  /\ NoOne \notin Instances
  /\ MaxAttempts \in Nat \ {0}

Stages == { "UPLOADING", "UPLOADED", "INSPECTING", "SCHEMA_READY",
            "CONVERTING", "COMPLETED", "FAILED" }

Roles == { "inspect", "convert" }

\* The per-table result rows of one file, which every statement of the worker
\* moves together: absent before the first inspection, then QUEUED, then
\* settled.  EXTRACTING is written and overwritten inside one transaction.
TableStages == { "none", "QUEUED", "DONE", "FAILED" }

FileRow == [ stage     : Stages,
             claimedBy : Instances \cup {NoOne},
             lease     : { "none", "live", "expired" },
             attempts  : 0..MaxAttempts,
             tables    : TableStages ]

\* A row as insertFile leaves it.
NewFileRow == [ stage |-> "UPLOADING", claimedBy |-> NoOne, lease |-> "none",
                attempts |-> 0, tables |-> "none" ]

-----------------------------------------------------------------------------
\* Which stages a role may claim from, what it moves the file to, and where a
\* file goes when its attempt is given back.
Claimable(role) == IF role = "inspect" THEN { "UPLOADED", "INSPECTING" }
                                       ELSE { "CONVERTING" }

ClaimTarget(role) == IF role = "inspect" THEN "INSPECTING" ELSE "CONVERTING"

BackTo(role) == IF role = "inspect" THEN "UPLOADED" ELSE "CONVERTING"

\* Mutation: the claim forgets the attempts.
CanClaimForever(row, role) ==
  row.stage \in Claimable(role) /\ row.lease # "live"

\* The WHERE clause of the claim.
CanClaim(row, role) ==
  /\ row.stage \in Claimable(role)
  /\ row.lease # "live"
  /\ row.attempts < MaxAttempts

\* Which of the outcomes a delivery gets.  The order is the order of the code's
\* early returns: an exhausted row is reported before a finished one and before
\* one that somebody is still working on.
ClaimOutcome(row, role) ==
  IF CanClaim(row, role)                  THEN "CLAIMED"
  ELSE IF row.stage = "FAILED"            THEN "TERMINAL"
  ELSE IF row.attempts >= MaxAttempts     THEN "EXHAUSTED"
  ELSE IF row.stage \notin Claimable(role) THEN "ALREADY_DONE"
  ELSE "LEASE_HELD"

Claim(row, role, inst) ==
  [row EXCEPT !.stage = ClaimTarget(role), !.claimedBy = inst,
              !.lease = "live", !.attempts = @ + 1]

\* renew: WHERE claimed_by = me, whatever the deadline says.
Renew(row, inst) ==
  IF row.claimedBy = inst THEN [row EXCEPT !.lease = "live"] ELSE row

\* Mutation: complete without the claimed_by predicate.
CompleteUnfenced(row, inst, next) ==
  [row EXCEPT !.stage = next, !.claimedBy = NoOne, !.lease = "none"]

\* complete: WHERE claimed_by = me; a worker that lost the lease changes nothing.
Complete(row, inst, next) ==
  IF row.claimedBy = inst
    THEN [row EXCEPT !.stage = next, !.claimedBy = NoOne, !.lease = "none"]
    ELSE row

\* Mutation: failing a file leaves its lease behind.
FailKeepsLease(row) == [row EXCEPT !.stage = "FAILED"]

\* fail: WHERE id = ... and nothing else.
Fail(row) ==
  [row EXCEPT !.stage = "FAILED", !.claimedBy = NoOne, !.lease = "none"]

\* files_failure_matches_stage_chk: a row leaves FAILED only with its
\* failure_class cleared.  complete clears it, release does not, so releasing a
\* failed row raises and the transaction rolls back.
MayRelease(row, inst) == row.claimedBy = inst => row.stage # "FAILED"

\* release: back to the queue, WHERE claimed_by = me.
Release(row, inst, back) ==
  IF row.claimedBy = inst
    THEN [row EXCEPT !.stage = back, !.claimedBy = NoOne, !.lease = "none"]
    ELSE row

\* mark_tables_failed: a table that is DONE stays DONE.
FailTables(row) ==
  IF row.tables \in { "none", "DONE" } THEN row
                                       ELSE [row EXCEPT !.tables = "FAILED"]

\* Mutation: the insert of the table rows overwrites what is there.
SeedTablesAgain(row) == [row EXCEPT !.tables = "QUEUED"]

\* _write_schemas: both inserts are ON CONFLICT DO NOTHING.
SeedTables(row) ==
  IF row.tables = "none" THEN [row EXCEPT !.tables = "QUEUED"] ELSE row

\* Mutation: the tables are not finished with the file.
FinishNoTables(row) == row

\* _set_table_stage(..., "DONE"): no guard on the stage the tables are in.
FinishTables(row) ==
  IF row.tables = "none" THEN row ELSE [row EXCEPT !.tables = "DONE"]

=============================================================================
