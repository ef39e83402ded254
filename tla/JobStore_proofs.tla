--------------------------- MODULE JobStore_proofs ---------------------------
(***************************************************************************)
(* What the statements on the jobs table keep, for any table.              *)
(***************************************************************************)
EXTENDS JobStore, TLAPS

IsTable(t) == DOMAIN t \subseteq JobIds /\ t \in [DOMAIN t -> Row]

\* The row q is what a statement that queues no job makes of row r.
KeepsRow(r, q) ==
    q \in Row /\ q.key = r.key /\ (q.status = "queued" => r.status = "queued")

\* The table u is what such a statement makes of t.
Tamed(t, u) ==
    /\ IsTable(u)
    /\ DOMAIN u \subseteq DOMAIN t
    /\ \A j \in DOMAIN u : KeepsRow(t[j], u[j])

\* The table u is what an UPDATE that queues no job makes of t.
Updated(t, u) == Tamed(t, u) /\ DOMAIN u = DOMAIN t

\* An UPDATE may be looked at one row at a time.
LEMMA RowwiseUpdate ==
    ASSUME NEW t, IsTable(t), NEW u, u = [i \in DOMAIN t |-> u[i]],
           \A i \in DOMAIN t : KeepsRow(t[i], u[i])
    PROVE  Updated(t, u)
BY DEF Updated, Tamed, IsTable, KeepsRow

\* The DELETE removes a row and leaves the others alone.
LEMMA DeleteJobIsTame ==
    ASSUME NEW t, IsTable(t), NEW j
    PROVE  Tamed(t, DeleteJob(t, j))
BY DEF Tamed, IsTable, DeleteJob, KeepsRow

\* UpdateJobStatus, as Add uses it to settle a dispatch.
LEMMA UpdateJobStatusUpdates ==
    ASSUME NEW t, IsTable(t), NEW j, NEW st \in Statuses, st # "queued",
           NEW e \in BOOLEAN, NEW loc \in {"null", "file", "remote"}
    PROVE  /\ Updated(t, UpdateJobStatus(t, j, st, e, loc))
           /\ j \in DOMAIN t => UpdateJobStatus(t, j, st, e, loc)[j].status = st
<1> DEFINE u == UpdateJobStatus(t, j, st, e, loc)
<1>1. \A i \in DOMAIN t : t[i] \in Row
  BY DEF IsTable
<1>2. ASSUME NEW i \in DOMAIN t
      PROVE  KeepsRow(t[i], u[i])
  BY <1>1, st # "queued" DEF KeepsRow, Row, Statuses, UpdateJobStatus, UpdateRows
<1>3. j \in DOMAIN t => u[j].status = st
  BY <1>1 DEF Row, UpdateJobStatus, UpdateRows
<1>4. QED
  BY <1>2, <1>3, RowwiseUpdate DEF UpdateJobStatus, UpdateRows

\* The other UPDATEs that queue no job, and the passing of time.
LEMMA StatementsUpdate ==
    ASSUME NEW t, IsTable(t)
    PROVE  /\ Updated(t, t)
           /\ \A j : Updated(t, FailJob(t, j))
           /\ \A j : Updated(t, Elapse(t, j))
           /\ \A ids : Updated(t, BatchUpdateJobProgress(t, ids))
           /\ \A ids : \A up \in BOOLEAN : Updated(t, BatchCompleteJobs(t, ids, up))
           /\ \A ids : Updated(t, BatchFailJobs(t, ids))
           /\ \A n : Updated(t, MarkNodeActiveJobsFailed(t, n))
           /\ \A n : Updated(t, MarkNodeCompletedJobsInactive(t, n))
           /\ \A n : Updated(t, RestoreNodeInactiveJobs(t, n))
<1>1. \A i \in DOMAIN t : t[i] \in Row
  BY DEF IsTable
<1>2. Updated(t, t)
  BY <1>1 DEF Updated, Tamed, IsTable, KeepsRow
<1>3. ASSUME NEW j
      PROVE  Updated(t, FailJob(t, j))
  <2>1. ASSUME NEW i \in DOMAIN t
        PROVE  KeepsRow(t[i], FailJob(t, j)[i])
    BY <1>1 DEF KeepsRow, Row, Statuses, FailJob, UpdateRows
  <2>2. QED
    BY <2>1, RowwiseUpdate DEF FailJob, UpdateRows
<1>4. ASSUME NEW j
      PROVE  Updated(t, Elapse(t, j))
  <2>1. ASSUME NEW i \in DOMAIN t
        PROVE  KeepsRow(t[i], Elapse(t, j)[i])
    BY <1>1 DEF KeepsRow, Row, Statuses, Elapse
  <2>2. QED
    BY <2>1, RowwiseUpdate DEF Elapse
<1>5. ASSUME NEW ids
      PROVE  Updated(t, BatchUpdateJobProgress(t, ids))
  <2>1. ASSUME NEW i \in DOMAIN t
        PROVE  KeepsRow(t[i], BatchUpdateJobProgress(t, ids)[i])
    BY <1>1 DEF KeepsRow, Row, Statuses, BatchUpdateJobProgress, UpdateRows
  <2>2. QED
    BY <2>1, RowwiseUpdate DEF BatchUpdateJobProgress, UpdateRows
<1>6. ASSUME NEW ids, NEW up \in BOOLEAN
      PROVE  Updated(t, BatchCompleteJobs(t, ids, up))
  <2>1. ASSUME NEW i \in DOMAIN t
        PROVE  KeepsRow(t[i], BatchCompleteJobs(t, ids, up)[i])
    BY <1>1 DEF KeepsRow, Row, Statuses, BatchCompleteJobs, UpdateRows
  <2>2. QED
    BY <2>1, RowwiseUpdate DEF BatchCompleteJobs, UpdateRows
<1>7. ASSUME NEW ids
      PROVE  Updated(t, BatchFailJobs(t, ids))
  <2>1. ASSUME NEW i \in DOMAIN t
        PROVE  KeepsRow(t[i], BatchFailJobs(t, ids)[i])
    BY <1>1 DEF KeepsRow, Row, Statuses, BatchFailJobs, UpdateRows
  <2>2. QED
    BY <2>1, RowwiseUpdate DEF BatchFailJobs, UpdateRows
<1>8. ASSUME NEW n
      PROVE  Updated(t, MarkNodeActiveJobsFailed(t, n))
  <2>1. ASSUME NEW i \in DOMAIN t
        PROVE  KeepsRow(t[i], MarkNodeActiveJobsFailed(t, n)[i])
    BY <1>1 DEF KeepsRow, Row, Statuses, MarkNodeActiveJobsFailed, UpdateRows
  <2>2. QED
    BY <2>1, RowwiseUpdate DEF MarkNodeActiveJobsFailed, UpdateRows
<1>9. ASSUME NEW n
      PROVE  Updated(t, MarkNodeCompletedJobsInactive(t, n))
  <2>1. ASSUME NEW i \in DOMAIN t
        PROVE  KeepsRow(t[i], MarkNodeCompletedJobsInactive(t, n)[i])
    BY <1>1 DEF KeepsRow, Row, Statuses, MarkNodeCompletedJobsInactive, UpdateRows
  <2>2. QED
    BY <2>1, RowwiseUpdate DEF MarkNodeCompletedJobsInactive, UpdateRows
<1>10. ASSUME NEW n
      PROVE  Updated(t, RestoreNodeInactiveJobs(t, n))
  <2>1. ASSUME NEW i \in DOMAIN t
        PROVE  KeepsRow(t[i], RestoreNodeInactiveJobs(t, n)[i])
    BY <1>1 DEF KeepsRow, Row, Statuses, RestoreNodeInactiveJobs, UpdateRows
  <2>2. QED
    BY <2>1, RowwiseUpdate DEF RestoreNodeInactiveJobs, UpdateRows
<1>11. QED
  BY <1>2, <1>3, <1>4, <1>5, <1>6, <1>7, <1>8, <1>9, <1>10

\* The UPDATEs of a node's reconciliation, of the reaper's safety net and of the
\* deletion of a node.
LEMMA NodeStatementsUpdate ==
    ASSUME NEW t, IsTable(t)
    PROVE  /\ \A n : \A keys : Updated(t, RestoreNodeInactiveJobsWithKeys(t, n, keys))
           /\ \A n : Updated(t, FailNodeInactiveJobsMissingKeys(t, n))
           /\ \A online : Updated(t, RestoreStaleInactiveJobs(t, online))
           /\ \A n : Updated(t, FailNodeJobsForDeletion(t, n))
           /\ \A n : Updated(t, UnlinkNode(t, n))
<1>1. \A i \in DOMAIN t : t[i] \in Row
  BY DEF IsTable
<1>2. ASSUME NEW n, NEW keys
      PROVE  Updated(t, RestoreNodeInactiveJobsWithKeys(t, n, keys))
  <2>1. ASSUME NEW i \in DOMAIN t
        PROVE  KeepsRow(t[i], RestoreNodeInactiveJobsWithKeys(t, n, keys)[i])
    BY <1>1 DEF KeepsRow, Row, Statuses, RestoreNodeInactiveJobsWithKeys, UpdateRows
  <2>2. QED
    BY <2>1, RowwiseUpdate DEF RestoreNodeInactiveJobsWithKeys, UpdateRows
<1>3. ASSUME NEW n
      PROVE  Updated(t, FailNodeInactiveJobsMissingKeys(t, n))
  <2>1. ASSUME NEW i \in DOMAIN t
        PROVE  KeepsRow(t[i], FailNodeInactiveJobsMissingKeys(t, n)[i])
    BY <1>1 DEF KeepsRow, Row, Statuses, FailNodeInactiveJobsMissingKeys, UpdateRows
  <2>2. QED
    BY <2>1, RowwiseUpdate DEF FailNodeInactiveJobsMissingKeys, UpdateRows
<1>4. ASSUME NEW online
      PROVE  Updated(t, RestoreStaleInactiveJobs(t, online))
  <2>1. ASSUME NEW i \in DOMAIN t
        PROVE  KeepsRow(t[i], RestoreStaleInactiveJobs(t, online)[i])
    BY <1>1 DEF KeepsRow, Row, Statuses, RestoreStaleInactiveJobs, UpdateRows
  <2>2. QED
    BY <2>1, RowwiseUpdate DEF RestoreStaleInactiveJobs, UpdateRows
<1>5. ASSUME NEW n
      PROVE  Updated(t, FailNodeJobsForDeletion(t, n))
  <2>1. ASSUME NEW i \in DOMAIN t
        PROVE  KeepsRow(t[i], FailNodeJobsForDeletion(t, n)[i])
    BY <1>1 DEF KeepsRow, Row, Statuses, FailNodeJobsForDeletion, UpdateRows
  <2>2. QED
    BY <2>1, RowwiseUpdate DEF FailNodeJobsForDeletion, UpdateRows
<1>6. ASSUME NEW n
      PROVE  Updated(t, UnlinkNode(t, n))
  <2>1. ASSUME NEW i \in DOMAIN t
        PROVE  KeepsRow(t[i], UnlinkNode(t, n)[i])
    BY <1>1 DEF KeepsRow, Row, Statuses, UnlinkNode, UpdateRows
  <2>2. QED
    BY <2>1, RowwiseUpdate DEF UnlinkNode, UpdateRows
<1>7. QED
  BY <1>2, <1>3, <1>4, <1>5, <1>6

\* CreateJob queues the new row and leaves the others alone.
LEMMA CreateJobRows ==
    ASSUME NEW t, IsTable(t), NEW j \in JobIds \ DOMAIN t, NEW k \in Keys, NEW n \in Nodes
    PROVE  /\ IsTable(CreateJob(t, j, k, n))
           /\ DOMAIN CreateJob(t, j, k, n) = DOMAIN t \cup {j}
           /\ CreateJob(t, j, k, n)[j].key = k
           /\ CreateJob(t, j, k, n)[j].status = "queued"
           /\ \A i \in DOMAIN t : CreateJob(t, j, k, n)[i] = t[i]
BY DEF IsTable, CreateJob, Row, Statuses

\* The same of ResetJob, for a row that exists.
LEMMA ResetJobRows ==
    ASSUME NEW t, IsTable(t), NEW j \in DOMAIN t, NEW n \in Nodes
    PROVE  /\ IsTable(ResetJob(t, j, n))
           /\ DOMAIN ResetJob(t, j, n) = DOMAIN t
           /\ ResetJob(t, j, n)[j].key = t[j].key
           /\ ResetJob(t, j, n)[j].status = "queued"
           /\ \A i \in DOMAIN t \ {j} : ResetJob(t, j, n)[i] = t[i]
<1>1. \A i \in DOMAIN t : t[i] \in Row
  BY DEF IsTable
<1>2. \A i \in DOMAIN t \ {j} : ResetJob(t, j, n)[i] = t[i]
  BY DEF ResetJob, UpdateRows
<1>3. /\ ResetJob(t, j, n)[j] \in Row
      /\ ResetJob(t, j, n)[j].key = t[j].key
      /\ ResetJob(t, j, n)[j].status = "queued"
  BY <1>1 DEF ResetJob, UpdateRows, Row, Statuses
<1>4. QED
  BY <1>1, <1>2, <1>3 DEF IsTable, ResetJob, UpdateRows
=============================================================================
