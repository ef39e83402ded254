------------------------------ MODULE JobStore ------------------------------
(***************************************************************************)
(* The jobs table and the SQL statements that read and write it            *)
(* (internal/database/migrations/001_init.up.sql, queries/jobs.sql).       *)
(*                                                                         *)
(* The table is a function from the ids of the rows that exist to rows.    *)
(* Each statement is an operator from a table to the table it leaves;      *)
(* PostgreSQL runs a statement atomically, so an action of the modules     *)
(* that extend this one applies exactly one of them.  A row keeps what the *)
(* program's control depends on: the name, size, progress, error text and  *)
(* metadata columns are left out.                                          *)
(***************************************************************************)
EXTENDS Integers

CONSTANTS Keys,    \* storage keys (one per distinct content)
          Nodes,   \* nodes a job can be placed on
          JobIds,  \* ids the jobs table may hand out
          NoNode   \* node_id IS NULL

ASSUME NoNodeAssumption == NoNode \notin Nodes

Statuses == {"queued", "active", "completed", "failed", "inactive"}

\* engineJob: engine_job_id is not NULL.   loc: what file_location holds.
\* fresh: updated_at is younger than the reader's threshold, five minutes for
\* the reconciler and two for the reaper's safety net (the trigger on UPDATE
\* renews it; only the passage of time makes it FALSE).
Row == [key: Keys, node: Nodes \cup {NoNode}, status: Statuses,
        engineJob: BOOLEAN, loc: {"null", "file", "remote"},
        upload: {"none", "pending", "uploading", "uploaded", "failed"},
        fresh: BOOLEAN]

\* The statuses Add attaches to instead of dispatching again, those the
\* reconciler and the offline sweep fail, and those ResetJob takes over.
Attachable == {"queued", "active", "completed"}
Unfinished == {"queued", "active"}
Resettable == {"failed", "inactive"}

-----------------------------------------------------------------------------
\* Reading.

RowsWithKey(jobs, k) == {j \in DOMAIN jobs : jobs[j].key = k}
\* Bug: the reconciler looks at one of the two unfinished statuses only.
StaleActiveRows(jobs) ==
    {j \in DOMAIN jobs : jobs[j].status = "active" /\ ~jobs[j].fresh}
StaleQueuedRows(jobs) ==
    {j \in DOMAIN jobs : jobs[j].status = "queued" /\ ~jobs[j].fresh}
StaleRows(jobs) ==
    {j \in DOMAIN jobs : jobs[j].status \in Unfinished /\ ~jobs[j].fresh}

-----------------------------------------------------------------------------
\* Writing.

\* UPDATE jobs SET ... WHERE id IN ids: the rows of ids that exist.
UpdateRows(jobs, ids, Set(_)) ==
    [j \in DOMAIN jobs |->
        IF j \in ids THEN [Set(jobs[j]) EXCEPT !.fresh = TRUE] ELSE jobs[j]]

CreateJob(jobs, j, k, n) ==
    [i \in DOMAIN jobs \cup {j} |->
        IF i = j
        THEN [key |-> k, node |-> n, status |-> "queued", engineJob |-> FALSE,
              loc |-> "null", upload |-> "none", fresh |-> TRUE]
        ELSE jobs[i]]

DeleteJob(jobs, j) == [i \in DOMAIN jobs \ {j} |-> jobs[i]]

\* An empty engine id or location leaves the column as it is.
UpdateJobStatus(jobs, j, status, engineJob, loc) ==
    LET Set(r) == [r EXCEPT !.status = status,
                            !.engineJob = r.engineJob \/ engineJob,
                            !.loc = IF loc = "null" THEN r.loc ELSE loc]
    IN UpdateRows(jobs, {j}, Set)

\* Bug: a status the table's CHECK does not know.
FailJobAsStale(jobs, j) ==
    LET Set(r) == [r EXCEPT !.status = "stale", !.loc = "null"]
    IN UpdateRows(jobs, {j}, Set)
FailJob(jobs, j) ==
    LET Set(r) == [r EXCEPT !.status = "failed", !.loc = "null"]
    IN UpdateRows(jobs, {j}, Set)

\* Bug: ResetJob trusts the status its caller has read.
CanResetAny(jobs, j) == j \in DOMAIN jobs
CanReset(jobs, j) == j \in DOMAIN jobs /\ jobs[j].status \in Resettable

\* upload_status is not among the columns that are reset.
ResetJob(jobs, j, n) ==
    LET Set(r) == [r EXCEPT !.status = "queued", !.node = n,
                            !.engineJob = FALSE, !.loc = "null"]
    IN UpdateRows(jobs, {j}, Set)

BatchUpdateJobProgress(jobs, ids) ==
    LET Set(r) == [r EXCEPT !.status = "active", !.engineJob = TRUE]
    IN UpdateRows(jobs, ids, Set)

BatchCompleteJobs(jobs, ids, uploadPending) ==
    LET Set(r) == [r EXCEPT !.status = "completed", !.engineJob = TRUE,
                            !.upload = IF uploadPending THEN "pending"
                                                        ELSE r.upload]
    IN UpdateRows(jobs, ids, Set)

BatchFailJobs(jobs, ids) ==
    LET Set(r) == [r EXCEPT !.status = "failed", !.loc = "null"]
    IN UpdateRows(jobs, ids, Set)

MarkNodeActiveJobsFailed(jobs, n) ==
    LET Set(r) == [r EXCEPT !.status = "failed"]
        ids == {j \in DOMAIN jobs :
                  jobs[j].node = n /\ jobs[j].status \in Unfinished}
    IN UpdateRows(jobs, ids, Set)

MarkNodeCompletedJobsInactive(jobs, n) ==
    LET Set(r) == [r EXCEPT !.status = "inactive"]
        ids == {j \in DOMAIN jobs : /\ jobs[j].node = n
                                    /\ jobs[j].status = "completed"
                                    /\ jobs[j].loc = "file"}
    IN UpdateRows(jobs, ids, Set)

RestoreNodeInactiveJobs(jobs, n) ==
    LET Set(r) == [r EXCEPT !.status = "completed"]
        ids == {j \in DOMAIN jobs :
                  jobs[j].node = n /\ jobs[j].status = "inactive"}
    IN UpdateRows(jobs, ids, Set)

\* The diskKeys of a node's reconciliation are those of the directories found.
RestoreNodeInactiveJobsWithKeys(jobs, n, diskKeys) ==
    LET Set(r) == [r EXCEPT !.status = "completed"]
        ids == {j \in DOMAIN jobs : /\ jobs[j].node = n
                                    /\ jobs[j].status = "inactive"
                                    /\ jobs[j].key \in diskKeys}
    IN UpdateRows(jobs, ids, Set)

FailNodeInactiveJobsMissingKeys(jobs, n) ==
    LET Set(r) == [r EXCEPT !.status = "failed", !.loc = "null"]
        ids == {j \in DOMAIN jobs :
                  jobs[j].node = n /\ jobs[j].status = "inactive"}
    IN UpdateRows(jobs, ids, Set)

\* Bug: the safety net is left out.
RestoreNothing(jobs, online) == jobs

RestoreStaleInactiveJobs(jobs, online) ==
    LET Set(r) == [r EXCEPT !.status = "completed"]
        ids == {j \in DOMAIN jobs : /\ jobs[j].node \in online
                                    /\ jobs[j].status = "inactive"
                                    /\ ~jobs[j].fresh}
    IN UpdateRows(jobs, ids, Set)

\* Bug: uploads under way are claimed again.
ClaimableAgain(jobs, n) ==
    {j \in DOMAIN jobs : /\ jobs[j].node = n /\ jobs[j].status = "completed"
                         /\ jobs[j].upload \in {"pending", "uploading", "failed"}}
Claimable(jobs, n) ==
    {j \in DOMAIN jobs : /\ jobs[j].node = n /\ jobs[j].status = "completed"
                         /\ jobs[j].upload \in {"pending", "failed"}}
ClaimPendingUploads(jobs, n) ==
    LET Set(r) == [r EXCEPT !.upload = "uploading"]
    IN UpdateRows(jobs, Claimable(jobs, n), Set)

\* Neither asks what has become of the job meanwhile.
CompleteUpload(jobs, j) ==
    LET Set(r) == [r EXCEPT !.loc = "remote", !.upload = "uploaded", !.node = NoNode]
    IN UpdateRows(jobs, {j}, Set)
SetUploadStatus(jobs, j, status) ==
    LET Set(r) == [r EXCEPT !.upload = status]
    IN UpdateRows(jobs, {j}, Set)

\* Bug: uploads that a crash has cut short keep their status.
ResetNoUploads(jobs, n) == jobs
ResetStuckUploads(jobs, n) ==
    LET Set(r) == [r EXCEPT !.upload = "pending"]
        ids == {j \in DOMAIN jobs : jobs[j].node = n /\ jobs[j].upload = "uploading"}
    IN UpdateRows(jobs, ids, Set)

ListStorageKeysByNode(jobs, n) ==
    {jobs[j].key : j \in {i \in DOMAIN jobs : jobs[i].node = n
                                              /\ jobs[i].status # "failed"}}

FailNodeJobsForDeletion(jobs, n) ==
    LET Set(r) == [r EXCEPT !.status = "failed", !.node = NoNode]
    IN UpdateRows(jobs, {j \in DOMAIN jobs : jobs[j].node = n}, Set)

\* node_id REFERENCES nodes ON DELETE SET NULL.
UnlinkNode(jobs, n) ==
    LET Set(r) == [r EXCEPT !.node = NoNode]
    IN UpdateRows(jobs, {j \in DOMAIN jobs : jobs[j].node = n}, Set)

\* No UPDATE has touched row j for the time its reader asks for.
Elapse(jobs, j) ==
    [i \in DOMAIN jobs |->
        IF i = j THEN [jobs[i] EXCEPT !.fresh = FALSE] ELSE jobs[i]]
=============================================================================
