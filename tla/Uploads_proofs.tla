---------------------------- MODULE Uploads_proofs ----------------------------
(***************************************************************************)
(* Proofs about Uploads, for any sets of jobs, keys, nodes and slots: its  *)
(* type invariant under every fault, and each of its safety invariants     *)
(* under the faults it survives.  Three inductive invariants carry them:   *)
(* Working (who has which job in hand), Leading (whose files are in remote *)
(* storage) and Located (where the files of each row are), the last one on *)
(* top of the other two.  Each section has first the formulas that say     *)
(* what most steps do, a lemma that such a step keeps the invariant, and   *)
(* then the actions.                                                       *)
(***************************************************************************)
EXTENDS Uploads, JobStore_proofs

-----------------------------------------------------------------------------
(***************************************************************************)
(* The statements, one row at a time.                                      *)
(***************************************************************************)
\* The statements on uploads and on hidden jobs queue no job either.
LEMMA MoreStatementsUpdate ==
    ASSUME NEW t, IsTable(t)
    PROVE  /\ \A n, keys : Updated(t, RestoreNodeInactiveJobsWithKeys(t, n, keys))
           /\ \A n : Updated(t, FailNodeInactiveJobsMissingKeys(t, n))
           /\ \A n : Updated(t, ClaimPendingUploads(t, n))
           /\ \A j : Updated(t, CompleteUpload(t, j))
           /\ \A j : Updated(t, SetUploadStatus(t, j, "failed"))
           /\ \A n : Updated(t, ResetStuckUploads(t, n))
<1>1. \A i \in DOMAIN t : t[i] \in Row
  BY DEF IsTable
<1>2. ASSUME NEW n, NEW keys
      PROVE  Updated(t, RestoreNodeInactiveJobsWithKeys(t, n, keys))
  <2>1. ASSUME NEW i \in DOMAIN t
        PROVE  KeepsRow(t[i], RestoreNodeInactiveJobsWithKeys(t, n, keys)[i])
    BY <1>1 DEF KeepsRow, Row, Statuses, RestoreNodeInactiveJobsWithKeys, UpdateRows
  <2>2. QED
    BY <2>1, RowwiseUpdate DEF RestoreNodeInactiveJobsWithKeys, UpdateRows
<1>3. ASSUME NEW n
      PROVE  Updated(t, FailNodeInactiveJobsMissingKeys(t, n))
  <2>1. ASSUME NEW i \in DOMAIN t
        PROVE  KeepsRow(t[i], FailNodeInactiveJobsMissingKeys(t, n)[i])
    BY <1>1 DEF KeepsRow, Row, Statuses, FailNodeInactiveJobsMissingKeys, UpdateRows
  <2>2. QED
    BY <2>1, RowwiseUpdate DEF FailNodeInactiveJobsMissingKeys, UpdateRows
<1>4. ASSUME NEW n
      PROVE  Updated(t, ClaimPendingUploads(t, n))
  <2>1. ASSUME NEW i \in DOMAIN t
        PROVE  KeepsRow(t[i], ClaimPendingUploads(t, n)[i])
    BY <1>1 DEF KeepsRow, Row, Statuses, ClaimPendingUploads, UpdateRows
  <2>2. QED
    BY <2>1, RowwiseUpdate DEF ClaimPendingUploads, UpdateRows
<1>5. ASSUME NEW j
      PROVE  Updated(t, CompleteUpload(t, j))
  <2>1. ASSUME NEW i \in DOMAIN t
        PROVE  KeepsRow(t[i], CompleteUpload(t, j)[i])
    BY <1>1 DEF KeepsRow, Row, Statuses, CompleteUpload, UpdateRows
  <2>2. QED
    BY <2>1, RowwiseUpdate DEF CompleteUpload, UpdateRows
<1>6. ASSUME NEW j
      PROVE  Updated(t, SetUploadStatus(t, j, "failed"))
  <2>1. ASSUME NEW i \in DOMAIN t
        PROVE  KeepsRow(t[i], SetUploadStatus(t, j, "failed")[i])
    BY <1>1 DEF KeepsRow, Row, Statuses, SetUploadStatus, UpdateRows
  <2>2. QED
    BY <2>1, RowwiseUpdate DEF SetUploadStatus, UpdateRows
<1>7. ASSUME NEW n
      PROVE  Updated(t, ResetStuckUploads(t, n))
  <2>1. ASSUME NEW i \in DOMAIN t
        PROVE  KeepsRow(t[i], ResetStuckUploads(t, n)[i])
    BY <1>1 DEF KeepsRow, Row, Statuses, ResetStuckUploads, UpdateRows
  <2>2. QED
    BY <2>1, RowwiseUpdate DEF ResetStuckUploads, UpdateRows
<1>8. QED
  BY <1>2, <1>3, <1>4, <1>5, <1>6, <1>7

\* What a statement makes of the table: the same rows under the same keys.
Rewritten(t, u) ==
    IsTable(u) /\ DOMAIN u = DOMAIN t /\ \A j \in DOMAIN u : u[j].key = t[j].key

\* The updates of JobStore_proofs are of that kind.
LEMMA UpdatedIsRewritten ==
    ASSUME NEW t, NEW u, Updated(t, u)
    PROVE  Rewritten(t, u)
BY DEF Updated, Tamed, Rewritten, KeepsRow

\* One update after the other.
LEMMA RewrittenTwice ==
    ASSUME NEW t, NEW u, NEW v, Rewritten(t, u), Rewritten(u, v)
    PROVE  Rewritten(t, v)
BY DEF Rewritten

\* The goroutines of a job, as a function from numbers.
Goroutines(f) == DOMAIN f \subseteq Numbers /\ f \in [DOMAIN f -> Goroutine]

\* The type of up, one job at a time.
LEMMA GoroutinesType ==
    ASSUME NEW f
    PROVE  f \in UNION {[I -> Goroutine] : I \in SUBSET Numbers} <=> Goroutines(f)
BY DEF Goroutines

UpTyped == up = [j \in JobIds |-> up[j]] /\ \A j \in JobIds : Goroutines(up[j])
TableTyped == IsTable(jobs) /\ links \subseteq Link
ProcessTyped ==
    /\ proc \in [Nodes -> {"down", "fail", "uploads", "up"}]
    /\ recon \subseteq Nodes /\ wake \subseteq Nodes
    /\ running \in [Nodes -> SUBSET JobIds] /\ held \in [Nodes -> SUBSET JobIds]
FilesTyped == disk \in [Nodes -> SUBSET Keys] /\ remote \subseteq Keys
RequestTyped == request \in Link \cup {NoRequest}
CleaningTyped == cleaning \subseteq [job: JobIds, key: Keys, at: Nodes \cup {"remote"}]

\* The type invariant in the parts the lemmas below establish.
LEMMA TypeParts ==
    TypeOK <=> TableTyped /\ ProcessTyped /\ UpTyped /\ FilesTyped /\ RequestTyped /\ CleaningTyped
<1>1. up \in [JobIds -> UNION {[I -> Goroutine] : I \in SUBSET Numbers}] <=> UpTyped
  BY GoroutinesType DEF UpTyped
<1>2. QED
  BY <1>1 DEF TypeOK, TableTyped, ProcessTyped, FilesTyped, RequestTyped, CleaningTyped, IsTable

\* The same after a step.
LEMMA Assemble ==
    ASSUME TableTyped', ProcessTyped', UpTyped', FilesTyped', RequestTyped', CleaningTyped'
    PROVE  TypeOK'
<1>1. up' \in [JobIds -> UNION {[I -> Goroutine] : I \in SUBSET Numbers}]
  BY GoroutinesType DEF UpTyped
<1>2. QED
  BY <1>1 DEF TypeOK, TableTyped, ProcessTyped, FilesTyped, RequestTyped, CleaningTyped, IsTable

\* A goroutine goes on or ends.
LEMMA GotoGoroutine ==
    ASSUME UpTyped, NEW j \in JobIds, NEW i \in DOMAIN up[j], NEW stage \in Stages, Goto(j, i, stage)
    PROVE  /\ up' = [k \in JobIds |-> up'[k]]
           /\ \A k \in JobIds : DOMAIN up'[k] = DOMAIN up[k]
           /\ \A k \in JobIds : \A m \in DOMAIN up[k] :
                 /\ up'[k][m].node = up[k][m].node /\ up'[k][m].key = up[k][m].key
                 /\ up'[k][m].at = IF k = j /\ m = i THEN stage ELSE up[k][m].at
           /\ UpTyped'
<1>1. up[j] \in [DOMAIN up[j] -> Goroutine] /\ up[j][i] \in Goroutine
  BY DEF UpTyped, Goroutines
<1>2. up' = [k \in JobIds |-> IF k = j THEN [up[j] EXCEPT ![i] = [up[j][i] EXCEPT !.at = stage]] ELSE up[k]]
  BY DEF UpTyped, Goto
<1>3. [up[j][i] EXCEPT !.at = stage] = [node |-> up[j][i].node, key |-> up[j][i].key, at |-> stage]
  BY <1>1 DEF Goroutine
<1> DEFINE v == [node |-> up[j][i].node, key |-> up[j][i].key, at |-> stage]
<1>4. v \in Goroutine
  BY <1>1 DEF Goroutine
<1> HIDE DEF v
<1>5. up' = [k \in JobIds |-> IF k = j THEN [up[j] EXCEPT ![i] = v] ELSE up[k]]
  BY <1>2, <1>3 DEF v
<1>6. DOMAIN up'[j] = DOMAIN up[j] /\ \A m \in DOMAIN up[j] : up'[j][m] = IF m = i THEN v ELSE up[j][m]
  BY <1>1, <1>5
<1>7. \A k \in JobIds \ {j} : up'[k] = up[k]
  BY <1>5
<1>8. Goroutines(up'[j])
  <2>1. [up[j] EXCEPT ![i] = v] \in [DOMAIN up[j] -> Goroutine]
    BY <1>1, <1>4
  <2>2. QED
    BY <2>1, <1>5, <1>6 DEF UpTyped, Goroutines
<1>9. UpTyped'
  BY <1>5, <1>7, <1>8 DEF UpTyped
<1>10. v.node = up[j][i].node /\ v.key = up[j][i].key /\ v.at = stage
  BY DEF v
<1>11. \A m \in DOMAIN up[j] :
          /\ up'[j][m].node = up[j][m].node /\ up'[j][m].key = up[j][m].key
          /\ up'[j][m].at = IF m = i THEN stage ELSE up[j][m].at
  BY <1>6, <1>10
<1>12. QED
  BY <1>5, <1>6, <1>7, <1>9, <1>11

\* The goroutine ends, the others stay as they are.
LEMMA EndGoroutine ==
    ASSUME UpTyped, NEW j \in JobIds, NEW i \in DOMAIN up[j], End(j, i)
    PROVE  /\ up' = [k \in JobIds |-> up'[k]]
           /\ DOMAIN up'[j] = DOMAIN up[j] \ {i}
           /\ \A k \in JobIds \ {j} : DOMAIN up'[k] = DOMAIN up[k]
           /\ \A k \in JobIds : \A m \in DOMAIN up'[k] : up'[k][m] = up[k][m]
           /\ UpTyped'
<1>1. up[j] \in [DOMAIN up[j] -> Goroutine]
  BY DEF UpTyped, Goroutines
<1>2. up' = [k \in JobIds |-> IF k = j THEN [m \in DOMAIN up[j] \ {i} |-> up[j][m]] ELSE up[k]]
  BY DEF UpTyped, End, Restrict
<1>3. Goroutines(up'[j])
  BY <1>1, <1>2 DEF UpTyped, Goroutines
<1>4. UpTyped'
  BY <1>2, <1>3 DEF UpTyped
<1>5. QED
  BY <1>2, <1>4

-----------------------------------------------------------------------------
(***************************************************************************)
(* Type correctness.                                                       *)
(***************************************************************************)
\* What a step leaves alone keeps its type.
LEMMA TypesKept ==
    ASSUME TypeOK
    PROVE  /\ TableTyped /\ ProcessTyped /\ UpTyped /\ FilesTyped /\ RequestTyped /\ CleaningTyped
           /\ Rewritten(jobs, jobs)
           /\ UNCHANGED <<jobs, links>> => TableTyped'
           /\ UNCHANGED process => ProcessTyped'
           /\ UNCHANGED up => UpTyped'
           /\ UNCHANGED files => FilesTyped'
           /\ UNCHANGED request => RequestTyped'
           /\ UNCHANGED cleaning => CleaningTyped'
<1>1. TableTyped /\ ProcessTyped /\ UpTyped /\ FilesTyped /\ RequestTyped /\ CleaningTyped
  BY TypeParts
<1>2. Rewritten(jobs, jobs)
  BY <1>1 DEF TableTyped, Rewritten
<1>3. UNCHANGED <<jobs, links>> => TableTyped'
  BY <1>1 DEF TableTyped, IsTable
<1>4. UNCHANGED process => ProcessTyped'
  BY <1>1 DEF ProcessTyped, process
<1>5. UNCHANGED up => UpTyped'
  BY <1>1 DEF UpTyped, Goroutines
<1>6. UNCHANGED files => FilesTyped'
  BY <1>1 DEF FilesTyped, files
<1>7. UNCHANGED request => RequestTyped'
  BY <1>1 DEF RequestTyped
<1>8. UNCHANGED cleaning => CleaningTyped'
  BY <1>1 DEF CleaningTyped
<1>9. QED
  BY <1>1, <1>2, <1>3, <1>4, <1>5, <1>6, <1>7, <1>8

\* A step that rewrites the table and takes no link from elsewhere.
LEMMA TableKept ==
    ASSUME TypeOK, IsTable(jobs') \/ Rewritten(jobs, jobs'), links' \subseteq Link
    PROVE  TableTyped'
BY DEF TableTyped, Rewritten

\* A new row has the type of rows.
LEMMA CreateTypes ==
    ASSUME TypeOK, NEW j \in JobIds, NEW k \in Keys, NEW n \in Nodes, Create(j, k, n)
    PROVE  TypeOK'
<1>1. TableTyped
  BY TypesKept
<1>2. IsTable(CreateJob(jobs, j, k, n))
  BY <1>1, CreateJobRows DEF Create, TableTyped
<1>3. TableTyped'
  BY <1>1, <1>2 DEF TableTyped, Create
<1>4. QED
  BY <1>3, TypesKept, Assemble DEF Create

\* The table after the actions that write it.
LEMMA ResetRewrites ==
    ASSUME TypeOK, NEW j \in JobIds, NEW n \in Nodes, Reset(j, n)
    PROVE  Rewritten(jobs, jobs')
<1>1. IsTable(jobs) /\ j \in DOMAIN jobs
  BY TypesKept DEF TableTyped, Reset, CanReset
<1>2. Rewritten(jobs, ResetJob(jobs, j, n))
  BY <1>1, ResetJobRows DEF Rewritten
<1>3. QED
  BY <1>2 DEF Reset

\* Dispatch writes the status of one row.
LEMMA DispatchRewrites ==
    ASSUME TypeOK, NEW j \in JobIds, Dispatch(j)
    PROVE  Rewritten(jobs, jobs')
<1>1. IsTable(jobs)
  BY TypesKept DEF TableTyped
<1>2. /\ Updated(jobs, UpdateJobStatus(jobs, j, "active", TRUE, "file"))
      /\ Updated(jobs, UpdateJobStatus(jobs, j, "failed", FALSE, "null"))
  BY <1>1, UpdateJobStatusUpdates DEF Statuses
<1>3. QED
  BY <1>2, UpdatedIsRewritten DEF Dispatch

\* The actions that run one of the other statements.
LEMMA StatementsRewrite ==
    ASSUME TypeOK
    PROVE  /\ \A n : Push(n) => Rewritten(jobs, jobs')
           /\ \A n : Claim(n) => Rewritten(jobs, jobs')
           /\ \A j, i : ReportFailure(j, i) => Rewritten(jobs, jobs')
           /\ \A j, i : Record(j, i) => Rewritten(jobs, jobs')
           /\ \A n : SweepUnfinished(n) => Rewritten(jobs, jobs')
           /\ \A n : SweepCompleted(n) => Rewritten(jobs, jobs')
           /\ \A n : StartFail(n) => Rewritten(jobs, jobs')
           /\ \A n : StartUploads(n) => Rewritten(jobs, jobs')
           /\ \A n : Reconcile(n) => Rewritten(jobs, jobs')
<1>1. IsTable(jobs) /\ Rewritten(jobs, jobs)
  BY TypesKept DEF TableTyped
<1>2. \A u : JobsAfter(u) => jobs' = u \/ jobs' = jobs
  BY DEF JobsAfter
<1>3. /\ \A ids : Rewritten(jobs, BatchCompleteJobs(jobs, ids, TRUE))
      /\ \A n : Rewritten(jobs, MarkNodeActiveJobsFailed(jobs, n))
      /\ \A n : Rewritten(jobs, MarkNodeCompletedJobsInactive(jobs, n))
  BY <1>1, StatementsUpdate, UpdatedIsRewritten
<1>4. /\ \A n : Rewritten(jobs, ClaimPendingUploads(jobs, n))
      /\ \A j : Rewritten(jobs, CompleteUpload(jobs, j))
      /\ \A j : Rewritten(jobs, SetUploadStatus(jobs, j, "failed"))
      /\ \A n : Rewritten(jobs, ResetStuckUploads(jobs, n))
  BY <1>1, MoreStatementsUpdate, UpdatedIsRewritten
<1>5. ASSUME NEW n, Push(n) PROVE Rewritten(jobs, jobs')
  BY <1>1, <1>2, <1>3, <1>5 DEF Push
<1>6. ASSUME NEW n, Claim(n) PROVE Rewritten(jobs, jobs')
  BY <1>1, <1>4, <1>6 DEF Claim
<1>7. ASSUME NEW j, NEW i, ReportFailure(j, i) PROVE Rewritten(jobs, jobs')
  BY <1>1, <1>2, <1>4, <1>7 DEF ReportFailure
<1>8. ASSUME NEW j, NEW i, Record(j, i) PROVE Rewritten(jobs, jobs')
  BY <1>1, <1>4, <1>8 DEF Record
<1>9. ASSUME NEW n, SweepUnfinished(n) PROVE Rewritten(jobs, jobs')
  BY <1>1, <1>2, <1>3, <1>9 DEF SweepUnfinished
<1>10. ASSUME NEW n, SweepCompleted(n) PROVE Rewritten(jobs, jobs')
  BY <1>1, <1>2, <1>3, <1>10 DEF SweepCompleted
<1>11. ASSUME NEW n, StartFail(n) PROVE Rewritten(jobs, jobs')
  BY <1>1, <1>2, <1>3, <1>11 DEF StartFail
<1>12. ASSUME NEW n, StartUploads(n) PROVE Rewritten(jobs, jobs')
  BY <1>1, <1>2, <1>3, <1>4, <1>12 DEF StartUploads
<1>13. ASSUME NEW n, Reconcile(n) PROVE Rewritten(jobs, jobs')
  <2> DEFINE mid == RestoreNodeInactiveJobsWithKeys(jobs, n, disk[n])
  <2>1. Rewritten(jobs, mid)
    BY <1>1, MoreStatementsUpdate, UpdatedIsRewritten
  <2> HIDE DEF mid
  <2>2. Rewritten(mid, FailNodeInactiveJobsMissingKeys(mid, n))
    BY <2>1, MoreStatementsUpdate, UpdatedIsRewritten DEF Rewritten
  <2>3. jobs' = FailNodeInactiveJobsMissingKeys(mid, n)
    BY <1>13 DEF Reconcile, mid
  <2>4. QED
    BY <2>1, <2>2, <2>3, RewrittenTwice
<1>14. QED
  BY <1>5, <1>6, <1>7, <1>8, <1>9, <1>10, <1>11, <1>12, <1>13
\* A job gets one goroutine more.
LEMMA SpawnedGoroutine ==
    ASSUME NEW j \in JobIds, Goroutines(up[j]), Unused(j) # {}, NEW u \in Goroutine
    PROVE  /\ Goroutines(Spawned(j, u))
           /\ \E i \in Unused(j) : /\ DOMAIN Spawned(j, u) = DOMAIN up[j] \cup {i}
                                   /\ Spawned(j, u)[i] = u
                                   /\ \A m \in DOMAIN up[j] : Spawned(j, u)[m] = up[j][m]
<1> DEFINE i == CHOOSE k \in Unused(j) : TRUE
<1>1. i \in Unused(j) /\ i \in Numbers /\ i \notin DOMAIN up[j]
  BY DEF Unused
<1>2. Spawned(j, u) = [k \in DOMAIN up[j] \cup {i} |-> IF k = i THEN u ELSE up[j][k]]
  BY DEF Spawned
<1> HIDE DEF i
<1>3. QED
  BY <1>1, <1>2 DEF Goroutines

\* A claim that is answered: every claimed row gets a goroutine, of the node.
LEMMA ClaimSpawns ==
    ASSUME TypeOK, NEW n \in Nodes, \A j \in Claimable(jobs, n) : Unused(j) # {},
           up' = [j \in JobIds |-> IF j \in Claimable(jobs, n)
                                   THEN Spawned(j, NewGoroutine(n, j)) ELSE up[j]]
    PROVE  /\ UpTyped'
           /\ \A j \in JobIds \ Claimable(jobs, n) : up'[j] = up[j]
           /\ \A j \in Claimable(jobs, n) :
                 \E i \in Unused(j) :
                    /\ DOMAIN up'[j] = DOMAIN up[j] \cup {i}
                    /\ up'[j][i] = [node |-> n, key |-> jobs[j].key, at |-> "wait"]
                    /\ \A m \in DOMAIN up[j] : up'[j][m] = up[j][m]
<1>1. TableTyped /\ UpTyped
  BY TypesKept
<1>2. \A j \in JobIds : Goroutines(up[j])
  BY <1>1 DEF UpTyped
<1>3. ASSUME NEW j \in Claimable(jobs, n)
      PROVE  j \in JobIds /\ NewGoroutine(n, j) \in Goroutine
  BY <1>1 DEF TableTyped, IsTable, Claimable, NewGoroutine, Goroutine, Stages, Row
<1>4. ASSUME NEW j \in Claimable(jobs, n)
      PROVE  /\ Goroutines(up'[j])
             /\ \E i \in Unused(j) :
                    /\ DOMAIN up'[j] = DOMAIN up[j] \cup {i}
                    /\ up'[j][i] = [node |-> n, key |-> jobs[j].key, at |-> "wait"]
                    /\ \A m \in DOMAIN up[j] : up'[j][m] = up[j][m]
  <2>1. up'[j] = Spawned(j, NewGoroutine(n, j)) /\ Unused(j) # {}
    BY <1>3
  <2>2. QED
    BY <1>2, <1>3, <2>1, SpawnedGoroutine DEF NewGoroutine
<1>5. \A j \in JobIds \ Claimable(jobs, n) : up'[j] = up[j]
  OBVIOUS
<1>6. \A j \in JobIds : Goroutines(up'[j])
  BY <1>2, <1>4, <1>5
<1>7. UpTyped'
  BY <1>6 DEF UpTyped
<1>8. QED
  BY <1>4, <1>5, <1>7

\* The steps of a goroutine keep the types.
LEMMA UploadTypes ==
    ASSUME TypeOK, NEW j \in JobIds, NEW i \in Numbers, UploadStep(j, i)
    PROVE  TypeOK'
<1>1. i \in DOMAIN up[j]
  BY DEF UploadStep, UploadStart, UploadCopy, ReportFailure, Record, RewriteLinks, UploadClean, At
<1>2. up[j][i] \in Goroutine /\ up[j][i].node \in Nodes /\ up[j][i].key \in Keys
  BY <1>1, TypesKept DEF UpTyped, Goroutines, Goroutine
<1>3. \A stage \in Stages : Goto(j, i, stage) => UpTyped'
  BY <1>1, GotoGoroutine, TypesKept
<1>4. End(j, i) => UpTyped'
  BY <1>1, EndGoroutine, TypesKept
<1>5. FilesTyped /\ TableTyped
  BY TypesKept
<1>6. CASE UploadStart(j, i)
  <2>1. UpTyped'
    BY <1>3, <1>6 DEF UploadStart, Stages
  <2>2. QED
    BY <1>6, <2>1, TypesKept, Assemble DEF UploadStart
<1>7. CASE UploadCopy(j, i)
  <2>1. UpTyped'
    BY <1>3, <1>7 DEF UploadCopy, Stages
  <2>2. FilesTyped'
    BY <1>2, <1>5, <1>7 DEF UploadCopy, FilesTyped
  <2>3. QED
    BY <1>7, <2>1, <2>2, TypesKept, Assemble DEF UploadCopy
<1>8. CASE ReportFailure(j, i)
  <2>1. UpTyped'
    BY <1>4, <1>8 DEF ReportFailure
  <2>2. TableTyped'
    BY <1>5, <1>8, StatementsRewrite, TableKept DEF ReportFailure, TableTyped
  <2>3. QED
    BY <1>8, <2>1, <2>2, TypesKept, Assemble DEF ReportFailure
<1>9. CASE Record(j, i)
  <2>1. UpTyped'
    BY <1>3, <1>4, <1>9 DEF Record, Stages
  <2>2. TableTyped'
    BY <1>5, <1>9, StatementsRewrite, TableKept DEF Record, TableTyped
  <2>3. QED
    BY <1>9, <2>1, <2>2, TypesKept, Assemble DEF Record
<1>10. CASE RewriteLinks(j, i)
  <2>1. UpTyped'
    BY <1>3, <1>10 DEF RewriteLinks, Stages
  <2>2. \A l \in Link : [l EXCEPT !.uri = "remote"] \in Link
    BY DEF Link
  <2>3. links' \subseteq Link
    BY <1>5, <1>10, <2>2 DEF RewriteLinks, TableTyped
  <2>4. TableTyped'
    BY <1>10, <2>3, TypesKept, TableKept DEF RewriteLinks
  <2>5. QED
    BY <1>10, <2>1, <2>4, TypesKept, Assemble DEF RewriteLinks
<1>11. CASE UploadClean(j, i)
  <2>1. UpTyped'
    BY <1>4, <1>11 DEF UploadClean
  <2>2. FilesTyped'
    BY <1>2, <1>5, <1>11 DEF UploadClean, FilesTyped
  <2>3. QED
    BY <1>11, <2>1, <2>2, TypesKept, Assemble DEF UploadClean
<1>12. QED
  BY <1>6, <1>7, <1>8, <1>9, <1>10, <1>11 DEF UploadStep

\* What happens to a job but its upload keeps the types.
LEMMA JobTypes ==
    ASSUME TypeOK, NEW j \in JobIds
    PROVE  /\ \A n \in Nodes : Reset(j, n) \/ Finish(n, j) => TypeOK'
           /\ Dispatch(j) \/ LinkRead(j) \/ Delete(j) => TypeOK'
<1>1. TableTyped /\ ProcessTyped /\ FilesTyped /\ CleaningTyped
  BY TypesKept
<1>2. \A k \in DOMAIN jobs : /\ k \in JobIds /\ jobs[k].key \in Keys
                             /\ jobs[k].node \in Nodes \cup {NoNode}
  BY <1>1 DEF TableTyped, IsTable, Row
<1>3. ASSUME NEW n \in Nodes, Reset(j, n)
      PROVE  TypeOK'
  <2>1. TableTyped'
    BY <1>1, <1>3, ResetRewrites, TableKept DEF Reset, TableTyped
  <2>2. QED
    BY <1>3, <2>1, TypesKept, Assemble DEF Reset
<1>4. ASSUME NEW n \in Nodes, Finish(n, j)
      PROVE  TypeOK'
  <2>1. ProcessTyped'
    BY <1>1, <1>4 DEF Finish, ProcessTyped
  <2>2. QED
    BY <1>4, <2>1, TypesKept, Assemble DEF Finish
<1>5. ASSUME Dispatch(j)
      PROVE  TypeOK'
  <2>1. jobs[j].node \in Nodes /\ jobs[j].key \in Keys
    BY <1>2, <1>5 DEF Dispatch
  <2>2. TableTyped'
    BY <1>1, <1>5, DispatchRewrites, TableKept DEF Dispatch, TableTyped
  <2>3. ProcessTyped'
    <3>1. running' = [running EXCEPT ![jobs[j].node] = @ \cup {j}] \/ running' = running
      BY <1>5 DEF Dispatch
    <3>2. running' \in [Nodes -> SUBSET JobIds]
      BY <1>1, <2>1, <3>1 DEF ProcessTyped
    <3>3. QED
      BY <1>1, <1>5, <3>2 DEF Dispatch, ProcessTyped
  <2>4. FilesTyped'
    <3>1. disk' = [disk EXCEPT ![jobs[j].node] = @ \cup {jobs[j].key}] \/ disk' = disk
      BY <1>5 DEF Dispatch
    <3>2. disk' \in [Nodes -> SUBSET Keys]
      BY <1>1, <2>1, <3>1 DEF FilesTyped
    <3>3. QED
      BY <1>1, <1>5, <3>2 DEF Dispatch, FilesTyped
  <2>5. QED
    BY <1>5, <2>2, <2>3, <2>4, TypesKept, Assemble DEF Dispatch
<1>6. ASSUME LinkRead(j)
      PROVE  TypeOK'
  <2>1. RequestTyped'
    BY <1>6 DEF LinkRead, RequestTyped, Link
  <2>2. QED
    BY <1>6, <2>1, TypesKept, Assemble DEF LinkRead
<1>7. ASSUME Delete(j)
      PROVE  TypeOK'
  <2>1. TableTyped'
    BY <1>1, <1>7, DeleteJobIsTame, TableKept DEF Delete, TableTyped, Tamed
  <2>2. CleaningTyped'
    BY <1>1, <1>2, <1>7 DEF Delete, CleaningTyped
  <2>3. QED
    BY <1>7, <2>1, <2>2, TypesKept, Assemble DEF Delete
<1>8. QED
  BY <1>3, <1>4, <1>5, <1>6, <1>7

\* What a node does, or what is done about it, keeps the types.
LEMMA NodeTypes ==
    ASSUME TypeOK, NEW n \in Nodes
    PROVE  /\ Push(n) \/ PushOther(n) \/ Claim(n) \/ Crash(n) \/ Start(n) => TypeOK'
           /\ StartStep(n) \/ SweepUnfinished(n) \/ SweepCompleted(n) => TypeOK'
<1>1. TableTyped /\ ProcessTyped /\ FilesTyped /\ CleaningTyped /\ UpTyped
  BY TypesKept
<1>2. UNCHANGED links /\ Rewritten(jobs, jobs') => TableTyped'
  BY <1>1, TableKept DEF TableTyped
<1>3. ASSUME Push(n)
      PROVE  TypeOK'
  <2>1. TableTyped'
    BY <1>2, <1>3, StatementsRewrite DEF Push
  <2>2. ProcessTyped'
    BY <1>1, <1>3 DEF Push, ProcessTyped
  <2>3. QED
    BY <1>3, <2>1, <2>2, TypesKept, Assemble DEF Push
<1>4. ASSUME PushOther(n)
      PROVE  TypeOK'
  <2>1. ProcessTyped'
    BY <1>1, <1>4 DEF PushOther, ProcessTyped
  <2>2. QED
    BY <1>4, <2>1, TypesKept, Assemble DEF PushOther
<1>5. ASSUME Claim(n)
      PROVE  TypeOK'
  <2>1. TableTyped'
    BY <1>2, <1>5, StatementsRewrite DEF Claim
  <2>2. ProcessTyped'
    BY <1>1, <1>5 DEF Claim, ProcessTyped
  <2>3. UpTyped'
    <3>1. CASE UNCHANGED up
      BY <3>1, TypesKept
    <3>2. CASE ~UNCHANGED up
      BY <1>5, <3>2, ClaimSpawns DEF Claim
    <3>3. QED
      BY <3>1, <3>2
  <2>4. QED
    BY <1>5, <2>1, <2>2, <2>3, TypesKept, Assemble DEF Claim
<1>6. ASSUME Crash(n)
      PROVE  TypeOK'
  <2>1. ProcessTyped'
    BY <1>1, <1>6 DEF Crash, ProcessTyped
  <2>2. UpTyped'
    BY <1>1, <1>6 DEF Crash, UpTyped, Goroutines, Restrict
  <2>3. RequestTyped' /\ CleaningTyped'
    BY <1>6, TypesKept DEF Crash, RequestTyped, CleaningTyped
  <2>4. QED
    BY <1>6, <2>1, <2>2, <2>3, TypesKept, Assemble DEF Crash
<1>7. ASSUME Start(n)
      PROVE  TypeOK'
  <2>1. ProcessTyped'
    BY <1>1, <1>7 DEF Start, ProcessTyped
  <2>2. QED
    BY <1>7, <2>1, TypesKept, Assemble DEF Start
<1>8. ASSUME StartFail(n)
      PROVE  TypeOK'
  <2>1. ProcessTyped'
    BY <1>1, <1>8 DEF StartFail, ProcessTyped
  <2>2. TableTyped'
    BY <1>2, <1>8, StatementsRewrite DEF StartFail
  <2>3. QED
    BY <1>8, <2>1, <2>2, TypesKept, Assemble DEF StartFail
<1>9. ASSUME StartUploads(n)
      PROVE  TypeOK'
  <2>1. ProcessTyped'
    BY <1>1, <1>9 DEF StartUploads, ProcessTyped
  <2>2. TableTyped'
    BY <1>2, <1>9, StatementsRewrite DEF StartUploads
  <2>3. QED
    BY <1>9, <2>1, <2>2, TypesKept, Assemble DEF StartUploads
<1>10. ASSUME Reconcile(n)
       PROVE  TypeOK'
  <2>1. ProcessTyped'
    BY <1>1, <1>10 DEF Reconcile, ProcessTyped
  <2>2. TableTyped'
    BY <1>2, <1>10, StatementsRewrite DEF Reconcile
  <2>3. FilesTyped'
    BY <1>1, <1>10 DEF Reconcile, FilesTyped
  <2>4. QED
    BY <1>10, <2>1, <2>2, <2>3, TypesKept, Assemble DEF Reconcile
<1>11. ASSUME SweepUnfinished(n)
       PROVE  TypeOK'
  <2>1. TableTyped'
    BY <1>2, <1>11, StatementsRewrite DEF SweepUnfinished
  <2>2. QED
    BY <1>11, <2>1, TypesKept, Assemble DEF SweepUnfinished
<1>12. ASSUME SweepCompleted(n)
       PROVE  TypeOK'
  <2>1. TableTyped'
    BY <1>2, <1>12, StatementsRewrite DEF SweepCompleted
  <2>2. QED
    BY <1>12, <2>1, TypesKept, Assemble DEF SweepCompleted
<1>13. QED
  BY <1>3, <1>4, <1>5, <1>6, <1>7, <1>8, <1>9, <1>10, <1>11, <1>12 DEF StartStep

\* The insertion and the expiry of a link, and the removal of files.
LEMMA RestTypes ==
    ASSUME TypeOK
    PROVE  /\ LinkCreate => TypeOK'
           /\ \A l \in Link : Expire(l) => TypeOK'
           /\ \A c \in cleaning : Cleanup(c) => TypeOK'
<1>1. TableTyped /\ ProcessTyped /\ FilesTyped /\ CleaningTyped /\ RequestTyped
  BY TypesKept
<1>2. UNCHANGED jobs /\ links' \subseteq Link => TableTyped'
  BY TypesKept, TableKept
<1>3. ASSUME LinkCreate
      PROVE  TypeOK'
  <2>1. links' \subseteq Link
    BY <1>1, <1>3 DEF LinkCreate, TableTyped, RequestTyped
  <2>2. RequestTyped'
    BY <1>3 DEF LinkCreate, RequestTyped
  <2>3. QED
    BY <1>2, <1>3, <2>1, <2>2, TypesKept, Assemble DEF LinkCreate
<1>4. ASSUME NEW l \in Link, Expire(l)
      PROVE  TypeOK'
  <2>1. links' \subseteq Link
    BY <1>1, <1>4 DEF Expire, TableTyped
  <2>2. QED
    BY <1>2, <1>4, <2>1, TypesKept, Assemble DEF Expire
<1>5. ASSUME NEW c \in cleaning, Cleanup(c)
      PROVE  TypeOK'
  <2>1. FilesTyped'
    BY <1>1, <1>5 DEF Cleanup, FilesTyped
  <2>2. ProcessTyped'
    BY <1>1, <1>5 DEF Cleanup, ProcessTyped
  <2>3. CleaningTyped'
    BY <1>1, <1>5 DEF Cleanup, CleaningTyped
  <2>4. QED
    BY <1>5, <2>1, <2>2, <2>3, TypesKept, Assemble DEF Cleanup
<1>6. QED
  BY <1>3, <1>4, <1>5

\* The initial states are typed.
LEMMA InitTyped == Init => TypeOK
BY DEF Init, TypeOK, UploadsAssumption, Row

\* TypeOK is an invariant, whatever goes wrong.
THEOREM TypeCorrect == Spec => []TypeOK
<1>1. Init => TypeOK
  BY InitTyped
<1>2. TypeOK /\ [Next]_vars => TypeOK'
  <2> SUFFICES ASSUME TypeOK, [Next]_vars
               PROVE  TypeOK'
    OBVIOUS
  <2>1. CASE Next
    BY <2>1, CreateTypes, UploadTypes, JobTypes, NodeTypes, RestTypes DEF Next
  <2>2. CASE UNCHANGED vars
    BY <2>2 DEF vars, process, files, TypeOK
  <2>3. QED
    BY <2>1, <2>2
<1>3. QED
  BY <1>1, <1>2, PTL DEF Spec
-----------------------------------------------------------------------------
(***************************************************************************)
(* One goroutine at a time uploads a directory, unless an answer is lost   *)
(* or a live worker is taken for dead.                                     *)
(***************************************************************************)
Undoubted == {"answer", "slow"} \cap Faults = {}

\* A process that is not up has nothing under way.
OnlyTheLivingWork ==
    \A n \in Nodes : proc[n] # "up" =>
        /\ running[n] = {} /\ held[n] = {}
        /\ \A j \in JobIds : \A i \in DOMAIN up[j] : up[j][i].node # n
\* A download runs or has ended; its row is active, and at its node.
FinishedOnce == \A n \in Nodes : running[n] \cap held[n] = {}
DownloadsAreActive ==
    \A n \in Nodes : \A j \in DOMAIN jobs : j \in running[n] \cup held[n] =>
        jobs[j].node = n /\ jobs[j].status = "active"
\* The row of an upload is completed, and claimed for the goroutine's node
\* until the upload is recorded.
UploadsAreClaimed ==
    \A j \in DOMAIN jobs : \A i \in DOMAIN up[j] :
        /\ jobs[j].status = "completed"
        /\ \/ jobs[j].upload = "uploading" /\ jobs[j].node = up[j][i].node
           \/ up[j][i].at \in {"links", "clean"} /\ jobs[j].node = NoNode
Working ==
    /\ OnlyTheLivingWork /\ FinishedOnce /\ DownloadsAreActive /\ UploadsAreClaimed
    /\ OneUploader

\* Nobody has the job in hand.
Idle(j) == (\A n \in Nodes : j \notin running[n] \cup held[n]) /\ DOMAIN up[j] = {}

\* Nobody works on a row that is neither active nor completed.
LEMMA RestingRowsAreIdle ==
    ASSUME Working, NEW j \in DOMAIN jobs, jobs[j].status \notin {"active", "completed"}
    PROVE  Idle(j)
BY DEF Working, DownloadsAreActive, UploadsAreClaimed, Idle

\* Nobody works on a row whose node is not up.
LEMMA RowsOfTheDeadAreIdle ==
    ASSUME TypeOK, Working, NEW n \in Nodes, proc[n] # "up",
           NEW j \in DOMAIN jobs, jobs[j].node = n
    PROVE  Idle(j)
<1>1. j \in JobIds
  BY TypesKept DEF TableTyped, IsTable
<1>2. \A m \in Nodes : j \notin running[m] \cup held[m]
  BY DEF Working, DownloadsAreActive, OnlyTheLivingWork
<1>3. \A i \in DOMAIN up[j] : FALSE
  BY <1>1, NoNodeAssumption DEF Working, UploadsAreClaimed, OnlyTheLivingWork
<1>4. QED
  BY <1>2, <1>3 DEF Idle

\* Most steps start no work, and let it alone or go on or end ...
NoNewWork ==
    \A n \in Nodes :
        /\ running'[n] \subseteq running[n] /\ held'[n] \subseteq held[n]
        /\ proc'[n] # "up" =>
             \/ proc[n] # "up"
             \/ /\ running'[n] = {} /\ held'[n] = {}
                /\ \A j \in JobIds : \A i \in DOMAIN up'[j] : up'[j][i].node # n
UploadsGoOn ==
    \A j \in JobIds : \A i \in DOMAIN up'[j] :
        /\ i \in DOMAIN up[j] /\ up'[j][i].node = up[j][i].node
        /\ up[j][i].at \in {"links", "clean"} => up'[j][i].at \in {"links", "clean"}
\* ... and write or insert the rows of idle jobs only.
OnlyIdleRowsChange ==
    \A j \in DOMAIN jobs' : \/ j \in DOMAIN jobs /\ jobs'[j] = jobs[j]
                            \/ Idle(j)'

\* Such a step keeps the invariant.
LEMMA WorkingKept ==
    ASSUME TypeOK', Working, NoNewWork, UploadsGoOn, OnlyIdleRowsChange
    PROVE  Working'
<1>1. \A j \in DOMAIN jobs' : j \in JobIds
  BY DEF TypeOK
<1>2. OnlyTheLivingWork'
  BY DEF Working, OnlyTheLivingWork, NoNewWork, UploadsGoOn
<1>3. FinishedOnce'
  BY DEF Working, FinishedOnce, NoNewWork
<1>4. DownloadsAreActive'
  BY DEF Working, DownloadsAreActive, NoNewWork, OnlyIdleRowsChange, Idle
<1>5. UploadsAreClaimed'
  <2> SUFFICES ASSUME NEW j \in DOMAIN jobs', NEW i \in DOMAIN up'[j]
               PROVE  /\ jobs'[j].status = "completed"
                      /\ \/ jobs'[j].upload = "uploading" /\ jobs'[j].node = up'[j][i].node
                         \/ up'[j][i].at \in {"links", "clean"} /\ jobs'[j].node = NoNode
    BY DEF UploadsAreClaimed
  <2>1. j \in DOMAIN jobs /\ jobs'[j] = jobs[j]
    BY DEF OnlyIdleRowsChange, Idle
  <2>2. /\ i \in DOMAIN up[j] /\ up'[j][i].node = up[j][i].node
        /\ up[j][i].at \in {"links", "clean"} => up'[j][i].at \in {"links", "clean"}
    BY <1>1 DEF UploadsGoOn
  <2>3. QED
    BY <2>1, <2>2 DEF Working, UploadsAreClaimed
<1>6. OneUploader'
  BY DEF Working, OneUploader, UploadsGoOn
<1>7. QED
  BY <1>2, <1>3, <1>4, <1>5, <1>6 DEF Working

\* What is left alone.
LEMMA WorkUnchanged ==
    /\ UNCHANGED <<proc, running, held, up>> => NoNewWork
    /\ UNCHANGED up => UploadsGoOn
    /\ UNCHANGED jobs => OnlyIdleRowsChange
BY DEF NoNewWork, UploadsGoOn, OnlyIdleRowsChange

\* One goroutine goes on or ends.
LEMMA GoroutineGoesOn ==
    ASSUME TypeOK, NEW j \in JobIds, NEW i \in DOMAIN up[j], UNCHANGED <<proc, running, held>>,
           \/ End(j, i)
           \/ \E stage \in Stages : /\ Goto(j, i, stage)
                                    /\ up[j][i].at \in {"links", "clean"} => stage \in {"links", "clean"}
    PROVE  NoNewWork /\ UploadsGoOn
<1>1. CASE End(j, i)
  <2>1. UploadsGoOn
    BY <1>1, TypesKept, EndGoroutine DEF UploadsGoOn
  <2>2. QED
    BY <2>1 DEF NoNewWork
<1>2. CASE \E stage \in Stages : /\ Goto(j, i, stage)
                                 /\ up[j][i].at \in {"links", "clean"} => stage \in {"links", "clean"}
  <2>1. PICK stage \in Stages : /\ Goto(j, i, stage)
                                /\ up[j][i].at \in {"links", "clean"} => stage \in {"links", "clean"}
    BY <1>2
  <2>2. /\ \A k \in JobIds : DOMAIN up'[k] = DOMAIN up[k]
        /\ \A k \in JobIds : \A m \in DOMAIN up[k] :
              /\ up'[k][m].node = up[k][m].node
              /\ up'[k][m].at = IF k = j /\ m = i THEN stage ELSE up[k][m].at
    <3>1. UpTyped
      BY TypesKept
    <3>2. QED
      BY <2>1, <3>1, GotoGoroutine
  <2>3. UploadsGoOn
    BY <2>1, <2>2 DEF UploadsGoOn
  <2>4. QED
    BY <2>3 DEF NoNewWork
<1>3. QED
  BY <1>1, <1>2

\* Create, Reset: the row is idle, before and after.
LEMMA CreateWorks ==
    ASSUME TypeOK, TypeOK', Working, NEW j \in JobIds, NEW k \in Keys, NEW n \in Nodes, Create(j, k, n)
    PROVE  Working'
<1>1. OnlyIdleRowsChange
  BY DEF Create, CreateJob, OnlyIdleRowsChange, Idle, Forgotten, process
<1>2. QED
  BY <1>1, WorkUnchanged, WorkingKept DEF Create, process

\* A row that can be reset rests.
LEMMA ResetWorks ==
    ASSUME TypeOK, TypeOK', Working, NEW j \in JobIds, NEW n \in Nodes, Reset(j, n)
    PROVE  Working'
<1>1. Idle(j) /\ Idle(j)'
  BY RestingRowsAreIdle DEF Reset, CanReset, Resettable, Idle, process
<1>2. OnlyIdleRowsChange
  BY <1>1 DEF Reset, ResetJob, UpdateRows, OnlyIdleRowsChange
<1>3. QED
  BY <1>2, WorkUnchanged, WorkingKept DEF Reset, process

\* A queued row is idle until its node starts the download.
LEMMA DispatchWorks ==
    ASSUME TypeOK, TypeOK', Working, NEW j \in JobIds, Dispatch(j)
    PROVE  Working'
<1>1. Idle(j) /\ j \in DOMAIN jobs /\ jobs[j].node \in Nodes /\ jobs[j] \in Row
  BY RestingRowsAreIdle, TypesKept DEF Dispatch, TableTyped, IsTable, Row
<1>2. CASE /\ Ready(jobs[j].node)
           /\ jobs' = UpdateJobStatus(jobs, j, "active", TRUE, "file")
           /\ running' = [running EXCEPT ![jobs[j].node] = @ \cup {j}]
  <2> DEFINE n == jobs[j].node
  <2>1. DOMAIN jobs' = DOMAIN jobs /\ \A i \in DOMAIN jobs \ {j} : jobs'[i] = jobs[i]
    BY <1>2 DEF UpdateJobStatus, UpdateRows
  <2>2. jobs'[j].node = n /\ jobs'[j].status = "active"
    BY <1>1, <1>2 DEF UpdateJobStatus, UpdateRows, Row
  <2>3. /\ running'[n] = running[n] \cup {j} /\ proc[n] = "up"
        /\ \A m \in Nodes \ {n} : running'[m] = running[m]
        /\ UNCHANGED <<proc, held, up>>
    BY <1>1, <1>2, TypesKept DEF Dispatch, ProcessTyped, Ready
  <2> HIDE DEF n
  <2>4. OnlyTheLivingWork'
    BY <1>1, <2>3 DEF Working, OnlyTheLivingWork
  <2>5. FinishedOnce'
    BY <1>1, <2>3 DEF Working, FinishedOnce, Idle
  <2>6. DownloadsAreActive'
    BY <1>1, <2>1, <2>2, <2>3 DEF Working, DownloadsAreActive, Idle
  <2>7. UploadsAreClaimed' /\ OneUploader'
    BY <1>1, <2>1, <2>3 DEF Working, UploadsAreClaimed, OneUploader, Idle
  <2>8. QED
    BY <2>4, <2>5, <2>6, <2>7 DEF Working
<1>3. CASE jobs' = UpdateJobStatus(jobs, j, "failed", FALSE, "null") /\ UNCHANGED running
  <2>1. OnlyIdleRowsChange
    BY <1>1, <1>3 DEF Dispatch, UpdateJobStatus, UpdateRows, OnlyIdleRowsChange, Idle
  <2>2. QED
    BY <1>3, <2>1, WorkUnchanged, WorkingKept DEF Dispatch
<1>4. QED
  BY <1>2, <1>3 DEF Dispatch

\* The download changes hands on its node.
LEMMA FinishWorks ==
    ASSUME TypeOK, TypeOK', Working, NEW n \in Nodes, NEW j \in JobIds, Finish(n, j)
    PROVE  Working'
<1>1. /\ running'[n] = running[n] \ {j} /\ held'[n] = held[n] \cup {j} /\ j \in running[n]
      /\ \A m \in Nodes \ {n} : running'[m] = running[m] /\ held'[m] = held[m]
      /\ UNCHANGED <<jobs, proc, up>>
  BY TypesKept DEF Finish, ProcessTyped
<1>2. OnlyTheLivingWork'
  BY <1>1 DEF Working, OnlyTheLivingWork
<1>3. FinishedOnce'
  BY <1>1 DEF Working, FinishedOnce
<1>4. DownloadsAreActive'
  BY <1>1 DEF Working, DownloadsAreActive
<1>5. UploadsAreClaimed' /\ OneUploader'
  BY <1>1 DEF Working, UploadsAreClaimed, OneUploader
<1>6. QED
  BY <1>2, <1>3, <1>4, <1>5 DEF Working

\* The reports are answered for: what is recorded is no longer held.
LEMMA PushWorks ==
    ASSUME TypeOK, TypeOK', Working, Undoubted, NEW n \in Nodes, Push(n)
    PROVE  Working'
<1>1. held' = [held EXCEPT ![n] = {}] /\ UNCHANGED <<proc, running, up>>
  BY DEF Push, Unanswered, Undoubted
<1>2. held'[n] = {} /\ \A m \in Nodes \ {n} : held'[m] = held[m]
  BY <1>1, TypesKept DEF ProcessTyped
<1>3. ASSUME NEW j \in DOMAIN jobs, j \in held[n]
      PROVE  Idle(j)'
  <2>1. jobs[j].node = n /\ jobs[j].status = "active"
    BY <1>3 DEF Working, DownloadsAreActive
  <2>2. \A m \in Nodes : j \notin running[m] /\ (m # n => j \notin held[m])
    BY <1>3, <2>1 DEF Working, DownloadsAreActive, FinishedOnce
  <2>3. DOMAIN up[j] = {}
    BY <2>1 DEF Working, UploadsAreClaimed
  <2>4. QED
    BY <1>1, <1>2, <2>2, <2>3 DEF Idle
<1>4. \/ jobs' = jobs
      \/ jobs' = BatchCompleteJobs(jobs, held[n], TRUE)
  BY DEF Push, JobsAfter
<1>5. OnlyIdleRowsChange
  BY <1>3, <1>4 DEF BatchCompleteJobs, UpdateRows, OnlyIdleRowsChange
<1>6. NoNewWork
  BY <1>1, <1>2 DEF NoNewWork
<1>7. QED
  BY <1>1, <1>5, <1>6, WorkUnchanged, WorkingKept

\* A claim takes rows that no goroutine has.
LEMMA ClaimWorks ==
    ASSUME TypeOK, TypeOK', Working, Undoubted, NEW n \in Nodes, Claim(n)
    PROVE  Working'
<1> DEFINE rows == Claimable(jobs, n)
<1>1. UNCHANGED <<proc, running, held>> /\ proc[n] = "up"
  BY DEF Claim, Ready
<1>2. CASE UNCHANGED <<jobs, up>>
  BY <1>1, <1>2, WorkUnchanged, WorkingKept
<1>3. CASE /\ \A j \in rows : Unused(j) # {}
           /\ jobs' = ClaimPendingUploads(jobs, n)
           /\ up' = [j \in JobIds |->
                       IF j \in rows THEN Spawned(j, NewGoroutine(n, j)) ELSE up[j]]
  <2>1. \A j \in rows : /\ j \in DOMAIN jobs /\ jobs[j].node = n /\ jobs[j].status = "completed"
                        /\ jobs[j].upload # "uploading" /\ jobs[j] \in Row /\ j \in JobIds
    BY TypesKept DEF Claimable, TableTyped, IsTable
  <2>2. \A j \in rows : DOMAIN up[j] = {}
    BY <2>1, NoNodeAssumption DEF Working, UploadsAreClaimed
  <2>3. /\ \A j \in JobIds \ rows : up'[j] = up[j]
        /\ \A j \in rows : \E i : DOMAIN up'[j] = {i} /\ up'[j][i].node = n
    <3>1. \A j \in JobIds \ rows : up'[j] = up[j]
      BY <1>3
    <3>2. ASSUME NEW j \in rows
          PROVE  \E i : DOMAIN up'[j] = {i} /\ up'[j][i].node = n
      <4>1. PICK i \in Unused(j) :
               /\ DOMAIN up'[j] = DOMAIN up[j] \cup {i}
               /\ up'[j][i] = [node |-> n, key |-> jobs[j].key, at |-> "wait"]
        BY <1>3, ClaimSpawns
      <4>2. DOMAIN up'[j] = {i} /\ up'[j][i].node = n
        BY <2>2, <4>1
      <4>3. QED
        BY <4>2
    <3>3. QED
      BY <3>1, <3>2
  <2>4. /\ DOMAIN jobs' = DOMAIN jobs
        /\ \A j \in DOMAIN jobs \ rows : jobs'[j] = jobs[j]
    BY <1>3 DEF ClaimPendingUploads, UpdateRows
  <2>5. \A j \in rows : /\ jobs'[j].node = n /\ jobs'[j].status = "completed"
                        /\ jobs'[j].upload = "uploading"
    BY <1>3, <2>1 DEF ClaimPendingUploads, UpdateRows, Row
  <2> HIDE DEF rows
  <2>6. OnlyTheLivingWork'
    BY <1>1, <2>3 DEF Working, OnlyTheLivingWork
  <2>7. FinishedOnce'
    BY <1>1 DEF Working, FinishedOnce
  <2>8. DownloadsAreActive'
    BY <1>1, <2>1, <2>4 DEF Working, DownloadsAreActive
  <2>9. \A j \in DOMAIN jobs : j \in JobIds
    BY TypesKept DEF TableTyped, IsTable
  <2>10. UploadsAreClaimed'
    BY <2>3, <2>4, <2>5, <2>9 DEF Working, UploadsAreClaimed
  <2>11. OneUploader'
    BY <2>3 DEF Working, OneUploader
  <2>12. QED
    BY <2>6, <2>7, <2>8, <2>10, <2>11 DEF Working
<1>4. QED
  BY <1>2, <1>3 DEF Claim, Unanswered, Undoubted

\* A goroutine is alone with its row, so what it writes disturbs no other.
LEMMA UploadWorks ==
    ASSUME TypeOK, TypeOK', Working, NEW j \in JobIds, NEW i \in Numbers, UploadStep(j, i)
    PROVE  Working'
<1>1. i \in DOMAIN up[j]
  BY DEF UploadStep, UploadStart, UploadCopy, ReportFailure, Record, RewriteLinks, UploadClean, At
<1>2. UNCHANGED <<proc, running, held>>
  BY DEF UploadStep, UploadStart, UploadCopy, ReportFailure, Record, RewriteLinks, UploadClean, process
<1>3. /\ End(j, i) => NoNewWork /\ UploadsGoOn
      /\ \A stage \in Stages :
            /\ Goto(j, i, stage)
            /\ up[j][i].at \in {"links", "clean"} => stage \in {"links", "clean"}
            => NoNewWork /\ UploadsGoOn
  BY <1>1, <1>2, GoroutineGoesOn
<1>4. CASE UploadStart(j, i) \/ UploadCopy(j, i) \/ RewriteLinks(j, i) \/ UploadClean(j, i)
  <2>1. NoNewWork /\ UploadsGoOn
    BY <1>3, <1>4 DEF UploadStart, UploadCopy, RewriteLinks, UploadClean, At, Stages
  <2>2. UNCHANGED jobs
    BY <1>4 DEF UploadStart, UploadCopy, RewriteLinks, UploadClean
  <2>3. QED
    BY <2>1, <2>2, WorkUnchanged, WorkingKept
<1>5. DOMAIN up[j] = {i}
  BY <1>1 DEF Working, OneUploader
<1>6. j \in DOMAIN jobs => \A n \in Nodes : j \notin running[n] \cup held[n]
  BY <1>1 DEF Working, UploadsAreClaimed, DownloadsAreActive
<1>7. CASE ReportFailure(j, i)
  <2>1. NoNewWork /\ UploadsGoOn
    BY <1>3, <1>7 DEF ReportFailure
  <2>2. j \in DOMAIN jobs => Idle(j)'
    BY <1>1, <1>2, <1>5, <1>6, <1>7, TypesKept, EndGoroutine DEF ReportFailure, Idle
  <2>3. jobs' = jobs \/ jobs' = SetUploadStatus(jobs, j, "failed")
    BY <1>7 DEF ReportFailure, JobsAfter
  <2>4. OnlyIdleRowsChange
    BY <2>2, <2>3 DEF SetUploadStatus, UpdateRows, OnlyIdleRowsChange
  <2>5. QED
    BY <2>1, <2>4, WorkingKept
<1>8. CASE Record(j, i)
  <2>1. CASE UNCHANGED jobs
    <3>1. NoNewWork /\ UploadsGoOn
      BY <1>3, <1>8 DEF Record, At, Stages
    <3>2. QED
      BY <2>1, <3>1, WorkUnchanged, WorkingKept
  <2>2. CASE j \in DOMAIN jobs /\ jobs' = CompleteUpload(jobs, j) /\ Goto(j, i, "links")
    <3>1. \A n \in Nodes : running'[n] = running[n] /\ held'[n] = held[n] /\ proc'[n] = proc[n]
      BY <1>2
    <3>2. NoNewWork /\ UploadsGoOn
      BY <1>3, <1>8, <2>2 DEF Record, At, Stages
    <3>3. jobs[j] \in Row
      BY <2>2, TypesKept DEF TableTyped, IsTable
    <3>4. /\ DOMAIN jobs' = DOMAIN jobs
          /\ \A k \in DOMAIN jobs \ {j} : jobs'[k] = jobs[k]
          /\ jobs'[j].status = jobs[j].status /\ jobs'[j].node = NoNode
      BY <2>2, <3>3 DEF CompleteUpload, UpdateRows, Row
    <3>5. DOMAIN up'[j] = {i} /\ up'[j][i].at = "links"
      <4>1. UpTyped /\ "links" \in Stages
        BY TypesKept DEF Stages
      <4>2. DOMAIN up'[j] = DOMAIN up[j] /\ up'[j][i].at = "links"
        BY <1>1, <2>2, <4>1, GotoGoroutine
      <4>3. QED
        BY <1>5, <4>2
    <3>6. OnlyTheLivingWork'
      BY <3>2 DEF Working, OnlyTheLivingWork, NoNewWork, UploadsGoOn
    <3>7. FinishedOnce' /\ OneUploader'
      BY <3>2 DEF Working, FinishedOnce, OneUploader, NoNewWork, UploadsGoOn
    <3>8. DownloadsAreActive'
      BY <1>6, <2>2, <3>1, <3>4 DEF Working, DownloadsAreActive
    <3>9. \A k \in DOMAIN jobs : k \in JobIds
      BY TypesKept DEF TableTyped, IsTable
    <3>10. UploadsAreClaimed'
      BY <1>1, <2>2, <3>2, <3>4, <3>5, <3>9 DEF Working, UploadsAreClaimed, UploadsGoOn
    <3>11. QED
      BY <3>6, <3>7, <3>8, <3>10 DEF Working
  <2>3. QED
    BY <1>8, <2>1, <2>2 DEF Record
<1>9. QED
  BY <1>4, <1>7, <1>8 DEF UploadStep

\* A node dies and starts again, is swept and reconciles.
LEMMA NodeWorks ==
    ASSUME TypeOK, TypeOK', Working, Undoubted, NEW n \in Nodes
    PROVE  /\ PushOther(n) \/ Crash(n) \/ Start(n) \/ StartStep(n) => Working'
           /\ SweepUnfinished(n) \/ SweepCompleted(n) => Working'
<1>1. \A u : JobsAfter(u) => jobs' = u \/ jobs' = jobs
  BY DEF JobsAfter
<1>2. ASSUME PushOther(n)
      PROVE  Working'
  BY <1>2, WorkUnchanged, WorkingKept DEF PushOther
<1>3. ASSUME Crash(n)
      PROVE  Working'
  <2>1. /\ running'[n] = {} /\ held'[n] = {} /\ UNCHANGED jobs
        /\ \A m \in Nodes \ {n} : /\ running'[m] = running[m] /\ held'[m] = held[m]
                                  /\ proc'[m] = proc[m]
    BY <1>3, TypesKept DEF Crash, ProcessTyped
  <2>2. \A j \in JobIds : \A i \in DOMAIN up'[j] : /\ i \in DOMAIN up[j] /\ up'[j][i] = up[j][i]
                                                   /\ up[j][i].node # n
    BY <1>3 DEF Crash, Restrict
  <2>3. NoNewWork
    BY <2>1, <2>2 DEF NoNewWork
  <2>4. UploadsGoOn
    BY <2>2 DEF UploadsGoOn
  <2>5. QED
    BY <2>1, <2>3, <2>4, WorkUnchanged, WorkingKept
<1>4. \A stage : proc' = [proc EXCEPT ![n] = stage] /\ UNCHANGED <<running, held, up>> /\ proc[n] # "up"
         => NoNewWork /\ UploadsGoOn
  BY TypesKept DEF NoNewWork, UploadsGoOn, ProcessTyped
<1>5. ASSUME Start(n)
      PROVE  Working'
  BY <1>4, <1>5, WorkUnchanged, WorkingKept DEF Start
<1>6. \A j \in DOMAIN jobs : proc[n] # "up" /\ jobs[j].node = n => Idle(j)
  BY RowsOfTheDeadAreIdle
<1>7. UNCHANGED <<running, held, up>> => \A j : Idle(j) => Idle(j)'
  BY DEF Idle
<1>8. ASSUME StartFail(n)
      PROVE  Working'
  <2>1. jobs' = jobs \/ jobs' = MarkNodeActiveJobsFailed(jobs, n)
    BY <1>1, <1>8 DEF StartFail
  <2>2. OnlyIdleRowsChange
    BY <1>6, <1>7, <1>8, <2>1 DEF StartFail, MarkNodeActiveJobsFailed, UpdateRows, OnlyIdleRowsChange
  <2>3. QED
    BY <1>4, <1>8, <2>2, WorkingKept DEF StartFail
<1>9. ASSUME StartUploads(n)
      PROVE  Working'
  <2>1. jobs' = jobs \/ jobs' = ResetStuckUploads(jobs, n) \/ jobs' = MarkNodeCompletedJobsInactive(jobs, n)
    BY <1>1, <1>9 DEF StartUploads
  <2>2. OnlyIdleRowsChange
    BY <1>6, <1>7, <1>9, <2>1 DEF StartUploads, MarkNodeCompletedJobsInactive, ResetStuckUploads,
                                  UpdateRows, OnlyIdleRowsChange
  <2>3. QED
    BY <1>4, <1>9, <2>2, WorkingKept DEF StartUploads
<1>10. ASSUME Reconcile(n)
       PROVE  Working'
  <2> DEFINE mid == RestoreNodeInactiveJobsWithKeys(jobs, n, disk[n])
  <2>1. /\ DOMAIN mid = DOMAIN jobs
        /\ \A j \in DOMAIN jobs : mid[j] # jobs[j] => jobs[j].status = "inactive"
    BY DEF RestoreNodeInactiveJobsWithKeys, UpdateRows
  <2>2. jobs' = FailNodeInactiveJobsMissingKeys(mid, n)
    BY <1>10 DEF Reconcile
  <2> HIDE DEF mid
  <2>3. /\ DOMAIN jobs' = DOMAIN mid
        /\ \A j \in DOMAIN mid : jobs'[j] # mid[j] => mid[j].status = "inactive"
    BY <2>2 DEF FailNodeInactiveJobsMissingKeys, UpdateRows
  <2>4. \A j \in DOMAIN jobs : jobs'[j] # jobs[j] => Idle(j)
    BY <2>1, <2>3, RestingRowsAreIdle
  <2>5. OnlyIdleRowsChange
    BY <1>7, <1>10, <2>1, <2>3, <2>4 DEF Reconcile, OnlyIdleRowsChange
  <2>6. QED
    BY <1>10, <2>5, WorkUnchanged, WorkingKept DEF Reconcile
<1>11. ASSUME SweepUnfinished(n) \/ SweepCompleted(n)
       PROVE  Working'
  <2>1. proc[n] # "up" /\ UNCHANGED <<proc, running, held, up>>
    BY <1>11 DEF SweepUnfinished, SweepCompleted, Swept, Undoubted, process
  <2>2. jobs' = jobs \/ jobs' = MarkNodeActiveJobsFailed(jobs, n) \/ jobs' = MarkNodeCompletedJobsInactive(jobs, n)
    BY <1>1, <1>11 DEF SweepUnfinished, SweepCompleted
  <2>3. OnlyIdleRowsChange
    BY <1>6, <1>7, <2>1, <2>2 DEF MarkNodeActiveJobsFailed, MarkNodeCompletedJobsInactive,
                                  UpdateRows, OnlyIdleRowsChange
  <2>4. QED
    BY <2>1, <2>3, WorkUnchanged, WorkingKept
<1>12. QED
  BY <1>2, <1>3, <1>5, <1>8, <1>9, <1>10, <1>11 DEF StartStep

\* Links, deletions and the removal of files start no work.
LEMMA RestWorks ==
    ASSUME TypeOK, TypeOK', Working
    PROVE  /\ \A j \in JobIds : LinkRead(j) \/ Delete(j) => Working'
           /\ LinkCreate \/ (\E l \in Link : Expire(l)) => Working'
           /\ \A c \in cleaning : Cleanup(c) => Working'
<1>1. ASSUME NEW j \in JobIds, LinkRead(j)
      PROVE  Working'
  BY <1>1, WorkUnchanged, WorkingKept DEF LinkRead, process
<1>2. ASSUME NEW j \in JobIds, Delete(j)
      PROVE  Working'
  <2>1. OnlyIdleRowsChange
    BY <1>2 DEF Delete, DeleteJob, OnlyIdleRowsChange
  <2>2. QED
    BY <1>2, <2>1, WorkUnchanged, WorkingKept DEF Delete, process
<1>3. ASSUME LinkCreate \/ (\E l \in Link : Expire(l))
      PROVE  Working'
  BY <1>3, WorkUnchanged, WorkingKept DEF LinkCreate, Expire, process
<1>4. ASSUME NEW c \in cleaning, Cleanup(c)
      PROVE  Working'
  <2>1. /\ \A n \in Nodes : running'[n] \subseteq running[n]
        /\ UNCHANGED <<jobs, proc, held, up>>
    BY <1>4, TypesKept DEF Cleanup, ProcessTyped
  <2>2. NoNewWork
    BY <2>1 DEF NoNewWork
  <2>3. QED
    BY <2>1, <2>2, WorkUnchanged, WorkingKept
<1>5. QED
  BY <1>1, <1>2, <1>3, <1>4

\* Nobody works in the initial states.
LEMMA InitWorks == Init => Working
BY DEF Init, Working, OnlyTheLivingWork, FinishedOnce, DownloadsAreActive, UploadsAreClaimed,
       OneUploader

\* The invariant is inductive.
LEMMA StepWorks ==
    ASSUME Undoubted, TypeOK, TypeOK', Working, [Next]_vars
    PROVE  Working'
<1>1. CASE Next
  BY <1>1, CreateWorks, ResetWorks, DispatchWorks, FinishWorks, PushWorks, ClaimWorks, UploadWorks,
     NodeWorks, RestWorks DEF Next
<1>2. CASE UNCHANGED vars
  BY <1>2, WorkUnchanged, WorkingKept DEF vars, process
<1>3. QED
  BY <1>1, <1>2

\* OneUploader is an invariant as long as answers arrive and no live worker is
\* swept.  Without the first, a completion is reported again, and its upload is
\* pending again, while a goroutine is at work; without the second, so is the
\* new download of a job that was hidden with its upload under way.
THEOREM UploadedOnce ==
    ASSUME Undoubted
    PROVE  Spec => []OneUploader
<1>1. TypeOK /\ TypeOK' /\ Working /\ [Next]_vars => Working'
  BY StepWorks
<1>2. Working => OneUploader
  BY DEF Working
<1>3. QED
  BY <1>1, <1>2, InitWorks, TypeCorrect, PTL DEF Spec

-----------------------------------------------------------------------------
(***************************************************************************)
(* Links to remote storage lead to files, unless content is added again    *)
(* before the files of its last job are gone.                              *)
(***************************************************************************)
NotReadded == "readd" \notin Faults

\* The unique index on storage_key.
KeysUnique == \A i, j \in DOMAIN jobs : jobs[i].key = jobs[j].key => i = j
\* A row goes before its files, and nothing has taken its key since.
RowsGoFirst == \A c \in cleaning : \A j \in DOMAIN jobs : jobs[j].key # c.key
\* The row with the key of an upload is the row of its job.
UploadsKnowTheirKey ==
    \A j \in JobIds : \A i \in DOMAIN up[j] : \A k \in DOMAIN jobs :
        jobs[k].key = up[j][i].key <=> k = j
\* What is recorded, or about to be, has been copied.
CopiedFirst ==
    \A j \in DOMAIN jobs : \A i \in DOMAIN up[j] :
        up[j][i].at \in {"record", "links"} => jobs[j].key \in remote
RequestLeads ==
    request.uri = "remote" /\ request.job \in DOMAIN jobs => jobs[request.job].key \in remote
\* Links go with their jobs.
LinksHaveJobs == \A l \in links : l.job \in DOMAIN jobs
Leading ==
    /\ KeysUnique /\ RowsGoFirst /\ UploadsKnowTheirKey /\ CopiedFirst /\ RequestLeads
    /\ LinksHaveJobs /\ RemoteLinksLead

\* What most steps do: rows keep their keys, ...
RowsKeepKeys ==
    DOMAIN jobs' \subseteq DOMAIN jobs /\ \A j \in DOMAIN jobs' : jobs'[j].key = jobs[j].key
\* ... the files of rows stay in remote storage, and others are to be removed, ...
CopiesStay == \A j \in DOMAIN jobs' : jobs'[j].key \in remote => jobs'[j].key \in remote'
OthersGo == \A c \in cleaning' : c \in cleaning \/ \A j \in DOMAIN jobs' : jobs'[j].key # c.key
\* ... goroutines go on, after the copy only when it is made, or start from a
\* row, ...
UploadsOfRows ==
    \A j \in JobIds : \A i \in DOMAIN up'[j] :
        \/ /\ i \in DOMAIN up[j] /\ up'[j][i].key = up[j][i].key
           /\ up'[j][i].at \in {"record", "links"} =>
                up[j][i].at \in {"record", "links"} \/ up[j][i].key \in remote'
        \/ /\ j \in DOMAIN jobs /\ up'[j][i].key = jobs[j].key
           /\ up'[j][i].at \notin {"record", "links"}
\* ... and links are made of what has been read.
RequestOfRow ==
    \/ request' = request
    \/ request'.uri = "remote" /\ request'.job \in DOMAIN jobs => jobs[request'.job].key \in remote
LinksOfRows ==
    \A l \in links' :
        /\ l.job \in DOMAIN jobs'
        /\ l \in links \/ (l.uri = "remote" => jobs[l.job].key \in remote)

\* Such a step keeps the invariant.
LEMMA LeadingKept ==
    ASSUME TypeOK', Leading, RowsKeepKeys, CopiesStay, OthersGo, UploadsOfRows, RequestOfRow,
           LinksOfRows
    PROVE  Leading'
<1>1. KeysUnique'
  BY DEF Leading, KeysUnique, RowsKeepKeys
<1>2. RowsGoFirst'
  BY DEF Leading, RowsGoFirst, RowsKeepKeys, OthersGo
<1>3. UploadsKnowTheirKey'
  <2> SUFFICES ASSUME NEW j \in JobIds, NEW i \in DOMAIN up'[j], NEW k \in DOMAIN jobs'
               PROVE  jobs'[k].key = up'[j][i].key <=> k = j
    BY DEF UploadsKnowTheirKey
  <2>1. k \in DOMAIN jobs /\ jobs'[k].key = jobs[k].key
    BY DEF RowsKeepKeys
  <2>2. CASE i \in DOMAIN up[j] /\ up'[j][i].key = up[j][i].key
    BY <2>1, <2>2 DEF Leading, UploadsKnowTheirKey
  <2>3. CASE j \in DOMAIN jobs /\ up'[j][i].key = jobs[j].key
    BY <2>1, <2>3 DEF Leading, KeysUnique
  <2>4. QED
    BY <2>2, <2>3 DEF UploadsOfRows
<1>4. CopiedFirst'
  <2> SUFFICES ASSUME NEW j \in DOMAIN jobs', NEW i \in DOMAIN up'[j],
                      up'[j][i].at \in {"record", "links"}
               PROVE  jobs'[j].key \in remote'
    BY DEF CopiedFirst
  <2>1. j \in JobIds /\ j \in DOMAIN jobs /\ jobs'[j].key = jobs[j].key
    BY DEF RowsKeepKeys, TypeOK
  <2>2. /\ i \in DOMAIN up[j]
        /\ up[j][i].at \in {"record", "links"} \/ up[j][i].key \in remote'
    BY <2>1 DEF UploadsOfRows
  <2>3. jobs[j].key = up[j][i].key
    BY <2>1, <2>2 DEF Leading, UploadsKnowTheirKey
  <2>4. QED
    BY <2>1, <2>2, <2>3 DEF Leading, CopiedFirst, CopiesStay
<1>5. RequestLeads'
  BY DEF Leading, RequestLeads, RequestOfRow, RowsKeepKeys, CopiesStay
<1>6. LinksHaveJobs'
  BY DEF LinksHaveJobs, LinksOfRows
<1>7. RemoteLinksLead'
  BY DEF Leading, RemoteLinksLead, LinksOfRows, RowsKeepKeys, CopiesStay
<1>8. QED
  BY <1>1, <1>2, <1>3, <1>4, <1>5, <1>6, <1>7 DEF Leading

\* What is left alone.
LEMMA LeadsUnchanged ==
    ASSUME TypeOK, Leading
    PROVE  /\ UNCHANGED jobs \/ Rewritten(jobs, jobs') => RowsKeepKeys
           /\ UNCHANGED remote => CopiesStay
           /\ UNCHANGED cleaning => OthersGo
           /\ UNCHANGED up => UploadsOfRows
           /\ UNCHANGED request => RequestOfRow
           /\ UNCHANGED links /\ (UNCHANGED jobs \/ Rewritten(jobs, jobs')) => LinksOfRows
BY DEF Rewritten, RowsKeepKeys, CopiesStay, OthersGo, UploadsOfRows, RequestOfRow, LinksOfRows,
       Leading, LinksHaveJobs

\* A new row has a key that nothing under way has.
LEMMA CreateLeads ==
    ASSUME TypeOK, TypeOK', NotReadded, Leading,
           NEW j \in JobIds, NEW k \in Keys, NEW n \in Nodes, Create(j, k, n)
    PROVE  Leading'
<1>1. /\ DOMAIN jobs' = DOMAIN jobs \cup {j} /\ jobs'[j].key = k
      /\ \A i \in DOMAIN jobs : jobs'[i] = jobs[i]
      /\ j \notin DOMAIN jobs /\ \A i \in DOMAIN jobs : jobs[i].key # k
  BY DEF Create, CreateJob, RowsWithKey
<1>2. /\ \A c \in cleaning : c.key # k
      /\ \A i \in JobIds : \A m \in DOMAIN up[i] : up[i][m].key # k
      /\ DOMAIN up[j] = {} /\ request.job # j
  BY DEF Create, Underway, NotReadded, Forgotten
<1>3. UNCHANGED <<links, up, remote, request, cleaning>>
  BY DEF Create, files
<1>4. KeysUnique'
  BY <1>1 DEF Leading, KeysUnique
<1>5. RowsGoFirst'
  BY <1>1, <1>2, <1>3 DEF Leading, RowsGoFirst
<1>6. UploadsKnowTheirKey'
  BY <1>1, <1>2, <1>3 DEF Leading, UploadsKnowTheirKey
<1>7. CopiedFirst'
  BY <1>1, <1>2, <1>3 DEF Leading, CopiedFirst
<1>8. RequestLeads'
  BY <1>1, <1>2, <1>3 DEF Leading, RequestLeads
<1>9. LinksHaveJobs' /\ RemoteLinksLead'
  BY <1>1, <1>3 DEF Leading, LinksHaveJobs, RemoteLinksLead
<1>10. QED
  BY <1>4, <1>5, <1>6, <1>7, <1>8, <1>9 DEF Leading

\* A goroutine copies before it records, and records before it writes the links.
LEMMA UploadLeads ==
    ASSUME TypeOK, TypeOK', Leading, NEW j \in JobIds, NEW i \in Numbers, UploadStep(j, i)
    PROVE  Leading'
<1>1. i \in DOMAIN up[j] /\ UpTyped
  BY TypesKept DEF UploadStep, UploadStart, UploadCopy, ReportFailure, Record, RewriteLinks,
                   UploadClean, At
<1>2. End(j, i) => UploadsOfRows
  BY <1>1, EndGoroutine DEF UploadsOfRows
<1>3. ASSUME NEW stage \in Stages, Goto(j, i, stage),
             stage \in {"record", "links"} =>
               up[j][i].at \in {"record", "links"} \/ up[j][i].key \in remote'
      PROVE  UploadsOfRows
  <2>1. \A k \in JobIds : /\ DOMAIN up'[k] = DOMAIN up[k]
                          /\ \A m \in DOMAIN up[k] :
                               /\ up'[k][m].key = up[k][m].key
                               /\ up'[k][m].at = IF k = j /\ m = i THEN stage ELSE up[k][m].at
    BY <1>1, <1>3, GotoGoroutine
  <2>2. QED
    BY <1>3, <2>1 DEF UploadsOfRows
<1>4. UNCHANGED request /\ UNCHANGED cleaning
  BY DEF UploadStep, UploadStart, UploadCopy, ReportFailure, Record, RewriteLinks, UploadClean
<1>5. CASE UploadStart(j, i)
  <2>1. UploadsOfRows
    BY <1>3, <1>5 DEF UploadStart, Stages
  <2>2. QED
    BY <1>4, <1>5, <2>1, LeadsUnchanged, LeadingKept DEF UploadStart, files
<1>6. CASE UploadCopy(j, i)
  <2>1. UploadsOfRows
    BY <1>3, <1>6 DEF UploadCopy, Stages
  <2>2. CopiesStay
    BY <1>6 DEF UploadCopy, CopiesStay
  <2>3. QED
    BY <1>4, <1>6, <2>1, <2>2, LeadsUnchanged, LeadingKept DEF UploadCopy
<1>7. CASE ReportFailure(j, i)
  BY <1>2, <1>4, <1>7, StatementsRewrite, LeadsUnchanged, LeadingKept DEF ReportFailure, files
<1>8. CASE Record(j, i)
  <2>1. UploadsOfRows
    BY <1>2, <1>3, <1>8 DEF Record, Stages, At
  <2>2. QED
    BY <1>4, <1>8, <2>1, StatementsRewrite, LeadsUnchanged, LeadingKept DEF Record, files
<1>9. CASE RewriteLinks(j, i)
  <2>1. UploadsOfRows
    BY <1>3, <1>9 DEF RewriteLinks, Stages
  <2>2. UNCHANGED <<jobs, remote>> /\ up[j][i].at = "links"
    BY <1>9 DEF RewriteLinks, files, At
  <2>3. LinksOfRows
    <3>1. \A l \in links : l.job \in DOMAIN jobs /\ l \in Link
      BY TypesKept DEF TableTyped, Leading, LinksHaveJobs
    <3>2. j \in DOMAIN jobs => jobs[j].key \in remote
      BY <1>1, <2>2 DEF Leading, CopiedFirst
    <3>3. \A l \in Link : [l EXCEPT !.uri = "remote"].job = l.job
      BY DEF Link
    <3>4. ASSUME NEW l \in links'
          PROVE  l \in links \/ (l.job = j /\ j \in DOMAIN jobs)
      <4>1. links' \in {links, {IF m.job = j THEN [m EXCEPT !.uri = "remote"] ELSE m : m \in links}}
        BY <1>9 DEF RewriteLinks
      <4>2. CASE l \notin links
        <5>1. PICK m \in links : l = IF m.job = j THEN [m EXCEPT !.uri = "remote"] ELSE m
          BY <4>1, <4>2
        <5>2. QED
          BY <3>1, <3>3, <4>2, <5>1
      <4>3. QED
        BY <4>2
    <3>5. QED
      BY <2>2, <3>1, <3>2, <3>4 DEF LinksOfRows
  <2>4. QED
    BY <1>4, <2>1, <2>2, <2>3, LeadsUnchanged, LeadingKept
<1>10. CASE UploadClean(j, i)
  BY <1>2, <1>4, <1>10, LeadsUnchanged, LeadingKept DEF UploadClean
<1>11. QED
  BY <1>5, <1>6, <1>7, <1>8, <1>9, <1>10 DEF UploadStep

\* Nodes write statements and drop goroutines; a claim starts some.
LEMMA NodeLeads ==
    ASSUME TypeOK, TypeOK', Leading, NEW n \in Nodes
    PROVE  /\ Push(n) \/ PushOther(n) \/ Claim(n) \/ Crash(n) \/ Start(n) => Leading'
           /\ StartStep(n) \/ SweepUnfinished(n) \/ SweepCompleted(n) => Leading'
<1>1. ASSUME PushOther(n) \/ Start(n)
      PROVE  Leading'
  BY <1>1, LeadsUnchanged, LeadingKept DEF PushOther, Start, files
<1>2. ASSUME \/ Push(n) \/ StartFail(n) \/ StartUploads(n) \/ Reconcile(n)
             \/ SweepUnfinished(n) \/ SweepCompleted(n)
      PROVE  Leading'
  <2>1. Rewritten(jobs, jobs')
    BY <1>2, StatementsRewrite
  <2>2. UNCHANGED <<links, up, remote, request, cleaning>>
    BY <1>2 DEF Push, StartFail, StartUploads, Reconcile, SweepUnfinished, SweepCompleted, files
  <2>3. QED
    BY <2>1, <2>2, LeadsUnchanged, LeadingKept
<1>3. ASSUME Claim(n)
      PROVE  Leading'
  <2>1. Rewritten(jobs, jobs')
    BY <1>3, StatementsRewrite
  <2>2. UNCHANGED <<links, remote, request, cleaning>>
    BY <1>3 DEF Claim, files
  <2>3. UploadsOfRows
    <3>1. CASE UNCHANGED up
      BY <3>1, LeadsUnchanged
    <3>2. CASE ~UNCHANGED up
      <4> SUFFICES ASSUME NEW j \in Claimable(jobs, n), NEW i \in DOMAIN up'[j]
                   PROVE  \/ i \in DOMAIN up[j] /\ up'[j][i] = up[j][i]
                          \/ /\ j \in DOMAIN jobs /\ up'[j][i].key = jobs[j].key
                             /\ up'[j][i].at \notin {"record", "links"}
        BY <1>3, <3>2, ClaimSpawns DEF Claim, UploadsOfRows
      <4>1. j \in DOMAIN jobs
        BY DEF Claimable
      <4>2. PICK k \in Unused(j) :
               /\ DOMAIN up'[j] = DOMAIN up[j] \cup {k}
               /\ up'[j][k] = [node |-> n, key |-> jobs[j].key, at |-> "wait"]
               /\ \A m \in DOMAIN up[j] : up'[j][m] = up[j][m]
        BY <1>3, <3>2, ClaimSpawns DEF Claim
      <4>3. QED
        BY <4>1, <4>2
    <3>3. QED
      BY <3>1, <3>2
  <2>4. QED
    BY <2>1, <2>2, <2>3, LeadsUnchanged, LeadingKept
<1>4. ASSUME Crash(n)
      PROVE  Leading'
  <2>1. UploadsOfRows
    BY <1>4 DEF Crash, Restrict, UploadsOfRows
  <2>2. RequestOfRow /\ OthersGo
    BY <1>4 DEF Crash, RequestOfRow, OthersGo, NoRequest
  <2>3. QED
    BY <1>4, <2>1, <2>2, LeadsUnchanged, LeadingKept DEF Crash, files
<1>5. QED
  BY <1>1, <1>2, <1>3, <1>4 DEF StartStep

\* A deletion takes the row and its links first, and leaves the files to remove.
LEMMA JobLeads ==
    ASSUME TypeOK, TypeOK', Leading, NEW j \in JobIds
    PROVE  /\ \A n \in Nodes : Reset(j, n) \/ Finish(n, j) => Leading'
           /\ Dispatch(j) \/ LinkRead(j) \/ Delete(j) => Leading'
<1>1. ASSUME NEW n \in Nodes, Reset(j, n)
      PROVE  Leading'
  BY <1>1, ResetRewrites, LeadsUnchanged, LeadingKept DEF Reset, files
<1>2. ASSUME NEW n \in Nodes, Finish(n, j)
      PROVE  Leading'
  BY <1>2, LeadsUnchanged, LeadingKept DEF Finish, files
<1>3. ASSUME Dispatch(j)
      PROVE  Leading'
  BY <1>3, DispatchRewrites, LeadsUnchanged, LeadingKept DEF Dispatch
<1>4. ASSUME LinkRead(j)
      PROVE  Leading'
  <2>1. jobs[j] \in Row
    BY <1>4, TypesKept DEF LinkRead, TableTyped, IsTable
  <2>2. RequestOfRow
    BY <1>4, <2>1 DEF LinkRead, RequestOfRow
  <2>3. QED
    BY <1>4, <2>2, LeadsUnchanged, LeadingKept DEF LinkRead, files
<1>5. ASSUME Delete(j)
      PROVE  Leading'
  <2>1. /\ DOMAIN jobs' = DOMAIN jobs \ {j} /\ \A i \in DOMAIN jobs' : jobs'[i] = jobs[i]
        /\ j \in DOMAIN jobs
    BY <1>5 DEF Delete, DeleteJob
  <2>2. RowsKeepKeys
    BY <2>1 DEF RowsKeepKeys
  <2>3. OthersGo
    <3>1. \A c \in cleaning' \ cleaning : c.key = jobs[j].key
      BY <1>5 DEF Delete
    <3>2. QED
      BY <2>1, <3>1 DEF OthersGo, Leading, KeysUnique
  <2>4. LinksOfRows
    BY <1>5, <2>1 DEF Delete, LinksOfRows, Leading, LinksHaveJobs
  <2>5. QED
    BY <1>5, <2>2, <2>3, <2>4, LeadsUnchanged, LeadingKept DEF Delete, files
<1>6. QED
  BY <1>1, <1>2, <1>3, <1>4, <1>5

\* What is inserted has been read, what is removed has no row.
LEMMA RestLeads ==
    ASSUME TypeOK, TypeOK', Leading
    PROVE  /\ LinkCreate \/ (\E l \in Link : Expire(l)) => Leading'
           /\ \A c \in cleaning : Cleanup(c) => Leading'
<1>1. ASSUME LinkCreate
      PROVE  Leading'
  <2>1. RequestOfRow
    BY <1>1 DEF LinkCreate, RequestOfRow, NoRequest
  <2>2. LinksOfRows
    BY <1>1 DEF LinkCreate, LinksOfRows, Leading, LinksHaveJobs, RequestLeads
  <2>3. QED
    BY <1>1, <2>1, <2>2, LeadsUnchanged, LeadingKept DEF LinkCreate, files
<1>2. ASSUME NEW l \in Link, Expire(l)
      PROVE  Leading'
  <2>1. LinksOfRows
    BY <1>2 DEF Expire, LinksOfRows, Leading, LinksHaveJobs
  <2>2. QED
    BY <1>2, <2>1, LeadsUnchanged, LeadingKept DEF Expire, files
<1>3. ASSUME NEW c \in cleaning, Cleanup(c)
      PROVE  Leading'
  <2>1. UNCHANGED <<jobs, links, up, request>> /\ cleaning' \subseteq cleaning
    BY <1>3 DEF Cleanup
  <2>2. CopiesStay /\ OthersGo
    BY <1>3, <2>1 DEF Cleanup, CopiesStay, OthersGo, Leading, RowsGoFirst
  <2>3. QED
    BY <2>1, <2>2, LeadsUnchanged, LeadingKept
<1>4. QED
  BY <1>1, <1>2, <1>3

\* There are no rows in the initial states.
LEMMA InitLeads == Init => Leading
BY DEF Init, Leading, KeysUnique, RowsGoFirst, UploadsKnowTheirKey, CopiedFirst, RequestLeads,
       LinksHaveJobs, RemoteLinksLead, NoRequest

\* The invariant is inductive.
LEMMA StepLeads ==
    ASSUME NotReadded, TypeOK, TypeOK', Leading, [Next]_vars
    PROVE  Leading'
<1>1. CASE Next
  BY <1>1, CreateLeads, UploadLeads, NodeLeads, JobLeads, RestLeads DEF Next
<1>2. CASE UNCHANGED vars
  BY <1>2, LeadsUnchanged, LeadingKept DEF vars, files
<1>3. QED
  BY <1>1, <1>2

\* RemoteLinksLead is an invariant as long as content is not added again before
\* the files of its last job are gone (those files are the new job's too).
THEOREM RemoteLinksWork ==
    ASSUME NotReadded
    PROVE  Spec => []RemoteLinksLead
<1>1. TypeOK /\ TypeOK' /\ Leading /\ [Next]_vars => Leading'
  BY StepLeads
<1>2. Leading => RemoteLinksLead
  BY DEF Leading
<1>3. QED
  BY <1>1, <1>2, InitLeads, TypeCorrect, PTL DEF Spec

-----------------------------------------------------------------------------
(***************************************************************************)
(* The files of completed jobs are where their rows say, when nothing but  *)
(* the death of workers and the failure of copies goes wrong.              *)
(***************************************************************************)
OnlyWorkersFail == Faults \subseteq {"crash", "copy"}

\* The files of a download are at its node, and its row knows.
DownloadsHaveFiles ==
    \A n \in Nodes : \A j \in DOMAIN jobs : j \in running[n] \cup held[n] =>
        jobs[j].loc = "file" /\ jobs[j].key \in disk[n]
\* Jobs are hidden with the files of their node only.
HiddenAreLocal == \A j \in DOMAIN jobs : jobs[j].status = "inactive" => jobs[j].loc = "file"
\* A directory is removed once its row points elsewhere.
RecordedFirst ==
    \A j \in DOMAIN jobs : \A i \in DOMAIN up[j] :
        up[j][i].at \in {"links", "clean"} => jobs[j].loc = "remote"
Located == Served /\ DownloadsHaveFiles /\ HiddenAreLocal /\ RecordedFirst /\ FilesSomewhere

Placed(j) ==
    /\ jobs[j].status = "inactive" => jobs[j].loc = "file"
    /\ jobs[j].status = "completed" =>
         IF jobs[j].loc = "remote" THEN jobs[j].key \in remote
         ELSE jobs[j].node # NoNode /\ jobs[j].key \in disk[jobs[j].node]

\* What most steps do: no work starts, the files that a row counts on stay, ...
NoNewDownloads == \A n \in Nodes : running'[n] \cup held'[n] \subseteq running[n] \cup held[n]
FilesStay ==
    \A j \in DOMAIN jobs' : \A n \in Nodes :
        /\ jobs'[j].node = n /\ jobs'[j].status \in {"active", "completed"}
        /\ jobs'[j].loc # "remote" /\ jobs'[j].key \in disk[n]
        => jobs'[j].key \in disk'[n]
\* ... the rows that change are of no download, and right about their files, ...
RowsStayPlaced ==
    \A j \in DOMAIN jobs' :
        \/ j \in DOMAIN jobs /\ jobs'[j] = jobs[j]
        \/ /\ Placed(j)' /\ \A n \in Nodes : j \notin running'[n] \cup held'[n]
           /\ \/ DOMAIN up'[j] = {} \/ jobs'[j].loc = "remote"
              \/ j \in DOMAIN jobs /\ jobs'[j].loc = jobs[j].loc
\* ... and goroutines clean up once the row points elsewhere.
RecordsGoFirst ==
    \A j \in JobIds : \A i \in DOMAIN up'[j] :
        up'[j][i].at \in {"links", "clean"} =>
            \/ i \in DOMAIN up[j] /\ up[j][i].at \in {"links", "clean"}
            \/ j \in DOMAIN jobs' => jobs'[j].loc = "remote"

\* Such a step keeps the invariant.
LEMMA LocatedKept ==
    ASSUME TypeOK, TypeOK', Working', Located, Served', NoNewDownloads, FilesStay, CopiesStay,
           RowsStayPlaced, RecordsGoFirst
    PROVE  Located'
<1>1. \A j \in DOMAIN jobs' : j \in JobIds /\ jobs'[j].node \in Nodes \cup {NoNode}
  BY DEF TypeOK, Row
<1>2. DownloadsHaveFiles'
  <2> SUFFICES ASSUME NEW n \in Nodes, NEW j \in DOMAIN jobs', j \in running'[n] \cup held'[n]
               PROVE  jobs'[j].loc = "file" /\ jobs'[j].key \in disk'[n]
    BY DEF DownloadsHaveFiles
  <2>1. j \in DOMAIN jobs /\ jobs'[j] = jobs[j] /\ j \in running[n] \cup held[n]
    BY DEF RowsStayPlaced, NoNewDownloads
  <2>2. jobs[j].loc = "file" /\ jobs[j].key \in disk[n]
    BY <2>1 DEF Located, DownloadsHaveFiles
  <2>3. jobs'[j].node = n /\ jobs'[j].status = "active"
    BY DEF Working, DownloadsAreActive
  <2>4. QED
    BY <2>1, <2>2, <2>3 DEF FilesStay
<1>3. HiddenAreLocal'
  BY DEF Located, HiddenAreLocal, RowsStayPlaced, Placed
<1>4. RecordedFirst'
  <2> SUFFICES ASSUME NEW j \in DOMAIN jobs', NEW i \in DOMAIN up'[j],
                      up'[j][i].at \in {"links", "clean"}, jobs'[j].loc # "remote"
               PROVE  FALSE
    BY DEF RecordedFirst
  <2>1. i \in DOMAIN up[j] /\ up[j][i].at \in {"links", "clean"}
    BY <1>1 DEF RecordsGoFirst
  <2>2. j \in DOMAIN jobs /\ jobs'[j].loc = jobs[j].loc
    BY DEF RowsStayPlaced
  <2>3. QED
    BY <2>1, <2>2 DEF Located, RecordedFirst
<1>5. FilesSomewhere'
  <2> SUFFICES ASSUME NEW j \in DOMAIN jobs', jobs'[j].status = "completed"
               PROVE  IF jobs'[j].loc = "remote" THEN jobs'[j].key \in remote'
                      ELSE jobs'[j].node # NoNode /\ jobs'[j].key \in disk'[jobs'[j].node]
    BY DEF FilesSomewhere
  <2>1. CASE j \in DOMAIN jobs /\ jobs'[j] = jobs[j]
    <3>1. IF jobs[j].loc = "remote" THEN jobs[j].key \in remote
          ELSE jobs[j].node # NoNode /\ jobs[j].key \in disk[jobs[j].node]
      BY <2>1 DEF Located, FilesSomewhere
    <3>2. QED
      BY <1>1, <2>1, <3>1 DEF FilesStay, CopiesStay
  <2>2. CASE Placed(j)'
    BY <2>2 DEF Placed
  <2>3. QED
    BY <2>1, <2>2 DEF RowsStayPlaced
<1>6. QED
  BY <1>2, <1>3, <1>4, <1>5 DEF Located

\* What is left alone.
LEMMA PlacesUnchanged ==
    /\ UNCHANGED <<running, held>> => NoNewDownloads
    /\ UNCHANGED disk => FilesStay
    /\ UNCHANGED remote => CopiesStay
    /\ UNCHANGED jobs => RowsStayPlaced
    /\ UNCHANGED up => RecordsGoFirst
BY DEF NoNewDownloads, FilesStay, CopiesStay, RowsStayPlaced, RecordsGoFirst

\* Every row is right about its files.
LEMMA RowsArePlaced ==
    ASSUME Located, NEW j \in DOMAIN jobs
    PROVE  Placed(j)
BY DEF Located, HiddenAreLocal, FilesSomewhere, Placed

\* The controller serves all the time.
LEMMA ServedKept ==
    ASSUME TypeOK, OnlyWorkersFail, Served, Next
    PROVE  Served'
<1>1. \A n \in Controllers : n \in Nodes /\ proc[n] = "up" /\ n \notin recon
  BY UploadsAssumption DEF Served, Ready
<1>2. SUFFICES \A n \in Controllers : proc'[n] = proc[n] /\ n \notin recon'
  BY <1>1 DEF Served, Ready
<1>3. CASE UNCHANGED <<proc, recon>>
  BY <1>1, <1>3
<1>4. ASSUME NEW m \in Nodes, Crash(m) \/ Start(m) \/ StartStep(m)
      PROVE  \A n \in Controllers : proc'[n] = proc[n] /\ n \notin recon'
  <2>1. CASE Reconcile(m)
    BY <1>1, <2>1 DEF Reconcile
  <2>2. CASE Crash(m) \/ Start(m) \/ StartFail(m) \/ StartUploads(m)
    <3>1. m \notin Controllers
      BY <1>1, <2>2 DEF Crash, Start, StartFail, StartUploads, OnlyWorkersFail
    <3>2. recon' \subseteq recon \cup {m} /\ \A n \in Nodes \ {m} : proc'[n] = proc[n]
      BY <2>2, TypesKept DEF Crash, Start, StartFail, StartUploads, ProcessTyped
    <3>3. QED
      BY <1>1, <3>1, <3>2
  <2>3. QED
    BY <1>4, <2>1, <2>2 DEF StartStep
<1>5. \A n \in Nodes : Push(n) \/ PushOther(n) \/ Claim(n) \/ SweepUnfinished(n) \/ SweepCompleted(n)
        => UNCHANGED <<proc, recon>>
  BY DEF Push, PushOther, Claim, SweepUnfinished, SweepCompleted, process
<1>6. \A j \in JobIds : \A i \in Numbers : UploadStep(j, i) => UNCHANGED <<proc, recon>>
  BY DEF UploadStep, UploadStart, UploadCopy, ReportFailure, Record, RewriteLinks, UploadClean, process
<1>7. \A j \in JobIds :
        /\ \A n \in Nodes : /\ Reset(j, n) \/ Finish(n, j) => UNCHANGED <<proc, recon>>
                            /\ \A k \in Keys : Create(j, k, n) => UNCHANGED <<proc, recon>>
        /\ Dispatch(j) \/ LinkRead(j) \/ Delete(j) => UNCHANGED <<proc, recon>>
  BY DEF Reset, Finish, Create, Dispatch, LinkRead, Delete, process
<1>8. /\ LinkCreate \/ (\E l \in Link : Expire(l)) => UNCHANGED <<proc, recon>>
      /\ \A c \in cleaning : Cleanup(c) => UNCHANGED <<proc, recon>>
  BY DEF LinkCreate, Expire, Cleanup, process
<1>9. QED
  BY <1>3, <1>4, <1>5, <1>6, <1>7, <1>8 DEF Next

\* The inductive invariant; and what is known of a step of it that is to be
\* shown to leave the files where they are.
Sound == TypeOK /\ Working /\ Leading /\ Located
Stepping ==
    /\ Sound /\ OnlyWorkersFail
    /\ TypeOK' /\ Working' /\ Leading' /\ Served'

\* With those faults only, statements do not fail, answers arrive, only the dead are
\* swept.
LEMMA SteppingFacts ==
    ASSUME Stepping
    PROVE  /\ \A u : JobsAfter(u) => jobs' = u
           /\ \A n : ~Unanswered(n)
           /\ \A n \in Workers : Swept(n) => proc[n] # "up"
           /\ \A j \in DOMAIN jobs : jobs[j] \in Row /\ j \in JobIds /\ Placed(j)
           /\ NoNewDownloads /\ FilesStay /\ CopiesStay /\ RowsStayPlaced /\ RecordsGoFirst
                => Located'
<1>1. /\ Served /\ "statement" \notin Faults /\ "answer" \notin Faults /\ "slow" \notin Faults
  BY DEF Stepping, Sound, Located, OnlyWorkersFail
<1>2. \A j \in DOMAIN jobs : jobs[j] \in Row /\ j \in JobIds /\ Placed(j)
  BY RowsArePlaced DEF Stepping, Sound, TypeOK
<1>3. NoNewDownloads /\ FilesStay /\ CopiesStay /\ RowsStayPlaced /\ RecordsGoFirst => Located'
  BY LocatedKept DEF Stepping, Sound
<1>4. QED
  BY <1>1, <1>2, <1>3 DEF JobsAfter, Failing, Unanswered, Swept

\* A new row is queued, and so is one that is reset: it counts on no files.
LEMMA CreateLocates ==
    ASSUME Stepping, NEW j \in JobIds, NEW k \in Keys, NEW n \in Nodes, Create(j, k, n)
    PROVE  Located'
<1>1. RowsStayPlaced
  BY DEF Create, CreateJob, RowsStayPlaced, Placed, Forgotten, process
<1>2. QED
  BY <1>1, SteppingFacts, PlacesUnchanged DEF Create, process, files

\* The same of a reset.
LEMMA ResetLocates ==
    ASSUME Stepping, NEW j \in JobIds, NEW n \in Nodes, Reset(j, n)
    PROVE  Located'
<1>1. Idle(j) /\ j \in DOMAIN jobs /\ jobs[j] \in Row
  BY RestingRowsAreIdle, SteppingFacts DEF Reset, CanReset, Resettable, Stepping, Sound
<1>2. jobs'[j].status = "queued"
  BY <1>1 DEF Reset, ResetJob, UpdateRows, Row
<1>3. RowsStayPlaced
  BY <1>1, <1>2 DEF Reset, ResetJob, UpdateRows, RowsStayPlaced, Placed, Idle, process
<1>4. QED
  BY <1>3, SteppingFacts, PlacesUnchanged DEF Reset, process, files

\* The dispatch makes the directory and writes where it is.
LEMMA DispatchLocates ==
    ASSUME Stepping, NEW j \in JobIds, Dispatch(j)
    PROVE  Located'
<1>1. Idle(j) /\ j \in DOMAIN jobs /\ jobs[j] \in Row /\ jobs[j].node \in Nodes /\ jobs[j].key \in Keys
  BY RestingRowsAreIdle, SteppingFacts DEF Dispatch, Stepping, Sound, Row
<1>2. CASE /\ jobs' = UpdateJobStatus(jobs, j, "active", TRUE, "file")
           /\ running' = [running EXCEPT ![jobs[j].node] = @ \cup {j}]
           /\ disk' = [disk EXCEPT ![jobs[j].node] = @ \cup {jobs[j].key}]
  <2> DEFINE n == jobs[j].node
  <2>1. DOMAIN jobs' = DOMAIN jobs /\ \A i \in DOMAIN jobs \ {j} : jobs'[i] = jobs[i]
    BY <1>2 DEF UpdateJobStatus, UpdateRows
  <2>2. /\ jobs'[j].node = n /\ jobs'[j].status = "active" /\ jobs'[j].loc = "file"
        /\ jobs'[j].key = jobs[j].key
    BY <1>1, <1>2 DEF UpdateJobStatus, UpdateRows, Row
  <2>3. /\ running'[n] = running[n] \cup {j} /\ disk'[n] = disk[n] \cup {jobs[j].key}
        /\ \A m \in Nodes \ {n} : running'[m] = running[m] /\ disk'[m] = disk[m]
    BY <1>1, <1>2, TypesKept DEF Stepping, Sound, ProcessTyped, FilesTyped
  <2>4. UNCHANGED <<held, up, remote>>
    BY DEF Dispatch
  <2> HIDE DEF n
  <2>5. DownloadsHaveFiles'
    BY <1>1, <2>1, <2>2, <2>3, <2>4 DEF Stepping, Sound, Located, DownloadsHaveFiles, Idle
  <2>6. HiddenAreLocal'
    BY <2>1, <2>2 DEF Stepping, Sound, Located, HiddenAreLocal
  <2>7. RecordedFirst'
    BY <1>1, <2>1, <2>4 DEF Stepping, Sound, Located, RecordedFirst, Idle
  <2>8. \A i \in DOMAIN jobs : jobs[i].node \in Nodes \cup {NoNode}
    BY SteppingFacts DEF Row
  <2>9. FilesSomewhere'
    BY <2>1, <2>2, <2>3, <2>4, <2>8 DEF Stepping, Sound, Located, FilesSomewhere
  <2>10. QED
    BY <2>5, <2>6, <2>7, <2>9 DEF Stepping, Located
<1>3. CASE jobs' = UpdateJobStatus(jobs, j, "failed", FALSE, "null") /\ UNCHANGED <<running, disk>>
  <2>1. jobs'[j].status = "failed"
    BY <1>1, <1>3 DEF UpdateJobStatus, UpdateRows, Row
  <2>2. RowsStayPlaced
    BY <1>1, <1>3, <2>1 DEF Dispatch, UpdateJobStatus, UpdateRows, RowsStayPlaced, Placed, Idle
  <2>3. QED
    BY <1>3, <2>2, SteppingFacts, PlacesUnchanged DEF Dispatch
<1>4. QED
  BY <1>2, <1>3 DEF Dispatch

\* The download changes hands on its node.
LEMMA FinishLocates ==
    ASSUME Stepping, NEW n \in Nodes, NEW j \in JobIds, Finish(n, j)
    PROVE  Located'
<1>1. NoNewDownloads
  BY TypesKept DEF Finish, NoNewDownloads, Stepping, Sound, ProcessTyped
<1>2. QED
  BY <1>1, SteppingFacts, PlacesUnchanged DEF Finish, files

\* What is recorded as completed has been downloaded to its node.
LEMMA PushLocates ==
    ASSUME Stepping, NEW n \in Nodes, Push(n)
    PROVE  Located'
<1>1. /\ jobs' = BatchCompleteJobs(jobs, held[n], TRUE) /\ held' = [held EXCEPT ![n] = {}]
      /\ UNCHANGED <<running, up, disk, remote>>
  BY SteppingFacts DEF Push, files
<1>2. held'[n] = {} /\ \A m \in Nodes \ {n} : held'[m] = held[m]
  BY <1>1, TypesKept DEF ProcessTyped, Stepping, Sound
<1>3. NoNewDownloads
  BY <1>1, <1>2 DEF NoNewDownloads
<1>4. RowsStayPlaced
  <2> SUFFICES ASSUME NEW j \in DOMAIN jobs, j \in held[n]
               PROVE  /\ Placed(j)' /\ \A m \in Nodes : j \notin running'[m] \cup held'[m]
                      /\ DOMAIN up'[j] = {}
    BY <1>1 DEF BatchCompleteJobs, UpdateRows, RowsStayPlaced
  <2>1. /\ jobs[j].node = n /\ jobs[j].status = "active"
        /\ jobs[j].loc = "file" /\ jobs[j].key \in disk[n] /\ jobs[j] \in Row
    BY SteppingFacts DEF Stepping, Sound, Working, DownloadsAreActive, Located, DownloadsHaveFiles
  <2>2. /\ jobs'[j].status = "completed" /\ jobs'[j].node = n /\ jobs'[j].loc = "file"
        /\ jobs'[j].key = jobs[j].key
    BY <1>1, <2>1 DEF BatchCompleteJobs, UpdateRows, Row
  <2>3. Placed(j)'
    BY <1>1, <2>1, <2>2, NoNodeAssumption DEF Placed
  <2>4. \A m \in Nodes : j \notin running'[m] \cup held'[m]
    BY <1>1, <1>2, <2>1 DEF Stepping, Sound, Working, DownloadsAreActive, FinishedOnce
  <2>5. DOMAIN up'[j] = {}
    BY <1>1, <2>1 DEF Stepping, Sound, Working, UploadsAreClaimed
  <2>6. QED
    BY <2>3, <2>4, <2>5
<1>5. QED
  BY <1>1, <1>3, <1>4, SteppingFacts, PlacesUnchanged

\* A claim changes the upload column only.
LEMMA ClaimLocates ==
    ASSUME Stepping, NEW n \in Nodes, Claim(n)
    PROVE  Located'
<1>1. UNCHANGED <<running, held, disk, remote>>
  BY DEF Claim, files
<1>2. jobs' = jobs \/ jobs' = ClaimPendingUploads(jobs, n)
  BY DEF Claim
<1>3. RowsStayPlaced
  <2> SUFFICES ASSUME NEW j \in Claimable(jobs, n), jobs' = ClaimPendingUploads(jobs, n)
               PROVE  /\ Placed(j)' /\ \A m \in Nodes : j \notin running'[m] \cup held'[m]
                      /\ j \in DOMAIN jobs /\ jobs'[j].loc = jobs[j].loc
    BY <1>2 DEF ClaimPendingUploads, UpdateRows, RowsStayPlaced
  <2>1. j \in DOMAIN jobs /\ jobs[j].status = "completed" /\ jobs[j] \in Row /\ Placed(j)
    BY SteppingFacts DEF Claimable
  <2>2. /\ jobs'[j].status = jobs[j].status /\ jobs'[j].node = jobs[j].node
        /\ jobs'[j].loc = jobs[j].loc /\ jobs'[j].key = jobs[j].key
    BY <2>1 DEF ClaimPendingUploads, UpdateRows, Row
  <2>3. Placed(j)'
    BY <1>1, <2>1, <2>2 DEF Placed
  <2>4. \A m \in Nodes : j \notin running'[m] \cup held'[m]
    BY <1>1, <2>1 DEF Stepping, Sound, Working, DownloadsAreActive
  <2>5. QED
    BY <2>1, <2>2, <2>3, <2>4
<1>4. RecordsGoFirst
  <2>1. CASE UNCHANGED up
    BY <2>1, PlacesUnchanged
  <2>2. CASE ~UNCHANGED up
    <3>1. \A j \in JobIds \ Claimable(jobs, n) : up'[j] = up[j]
      BY <2>2 DEF Claim
    <3>2. ASSUME NEW j \in Claimable(jobs, n), NEW i \in DOMAIN up'[j]
          PROVE  (i \in DOMAIN up[j] /\ up'[j][i] = up[j][i]) \/ up'[j][i].at = "wait"
      <4>1. PICK k \in Unused(j) :
               /\ DOMAIN up'[j] = DOMAIN up[j] \cup {k}
               /\ up'[j][k] = [node |-> n, key |-> jobs[j].key, at |-> "wait"]
               /\ \A m \in DOMAIN up[j] : up'[j][m] = up[j][m]
        BY <2>2, ClaimSpawns DEF Claim, Stepping, Sound
      <4>2. QED
        BY <4>1
    <3>3. QED
      BY <3>1, <3>2 DEF RecordsGoFirst
  <2>3. QED
    BY <2>1, <2>2
<1>5. QED
  BY <1>1, <1>3, <1>4, SteppingFacts, PlacesUnchanged

\* The directory goes after the row points at the copy.
LEMMA UploadLocates ==
    ASSUME Stepping, NEW j \in JobIds, NEW i \in Numbers, UploadStep(j, i)
    PROVE  Located'
<1>1. i \in DOMAIN up[j] /\ UpTyped
  BY TypesKept DEF UploadStep, UploadStart, UploadCopy, ReportFailure, Record, RewriteLinks,
                   UploadClean, At, Stepping, Sound
<1>2. UNCHANGED <<running, held>>
  BY DEF UploadStep, UploadStart, UploadCopy, ReportFailure, Record, RewriteLinks, UploadClean, process
<1>3. End(j, i) => RecordsGoFirst
  BY <1>1, EndGoroutine DEF RecordsGoFirst
<1>4. ASSUME NEW stage \in Stages, Goto(j, i, stage),
             stage \in {"links", "clean"} => \/ up[j][i].at \in {"links", "clean"}
                                             \/ j \in DOMAIN jobs' => jobs'[j].loc = "remote"
      PROVE  RecordsGoFirst
  <2>1. \A k \in JobIds : /\ DOMAIN up'[k] = DOMAIN up[k]
                          /\ \A m \in DOMAIN up[k] :
                               up'[k][m].at = IF k = j /\ m = i THEN stage ELSE up[k][m].at
    BY <1>1, <1>4, GotoGoroutine
  <2>2. QED
    BY <1>4, <2>1 DEF RecordsGoFirst
<1>5. j \in DOMAIN jobs =>
        /\ jobs[j].status = "completed" /\ jobs[j] \in Row /\ Placed(j)
        /\ \A n \in Nodes : j \notin running[n] \cup held[n]
  BY <1>1, SteppingFacts DEF Stepping, Sound, Working, UploadsAreClaimed, DownloadsAreActive
<1>6. CASE UploadStart(j, i)
  <2>1. RecordsGoFirst
    BY <1>4, <1>6 DEF UploadStart, Stages
  <2>2. QED
    BY <1>2, <1>6, <2>1, SteppingFacts, PlacesUnchanged DEF UploadStart, files
<1>7. CASE UploadCopy(j, i)
  <2>1. RecordsGoFirst
    BY <1>4, <1>7 DEF UploadCopy, Stages
  <2>2. CopiesStay
    BY <1>7 DEF UploadCopy, CopiesStay
  <2>3. QED
    BY <1>2, <1>7, <2>1, <2>2, SteppingFacts, PlacesUnchanged DEF UploadCopy
<1>8. CASE ReportFailure(j, i)
  <2>1. RecordsGoFirst
    BY <1>3, <1>8 DEF ReportFailure
  <2>2. UNCHANGED <<disk, remote>>
    BY <1>8 DEF ReportFailure, files
  <2>3. jobs' = SetUploadStatus(jobs, j, "failed")
    BY <1>8, SteppingFacts DEF ReportFailure
  <2>4. j \in DOMAIN jobs =>
          /\ jobs'[j].status = jobs[j].status /\ jobs'[j].node = jobs[j].node
          /\ jobs'[j].loc = jobs[j].loc /\ jobs'[j].key = jobs[j].key
    BY <1>5, <2>3 DEF SetUploadStatus, UpdateRows, Row
  <2>5. j \in DOMAIN jobs => Placed(j)'
    BY <1>5, <2>2, <2>4 DEF Placed
  <2>6. RowsStayPlaced
    BY <1>2, <1>5, <2>3, <2>4, <2>5 DEF SetUploadStatus, UpdateRows, RowsStayPlaced
  <2>7. QED
    BY <1>2, <2>1, <2>2, <2>6, SteppingFacts, PlacesUnchanged
<1>9. CASE Record(j, i)
  <2>1. UNCHANGED <<disk, remote>>
    BY <1>9 DEF Record, files
  <2>2. CASE j \in DOMAIN jobs /\ jobs' = CompleteUpload(jobs, j) /\ Goto(j, i, "links")
    <3>1. jobs[j].key \in remote
      BY <1>1, <1>9, <2>2 DEF Record, At, Stepping, Sound, Leading, CopiedFirst
    <3>2. /\ jobs'[j].status = "completed" /\ jobs'[j].loc = "remote"
          /\ jobs'[j].key = jobs[j].key
      BY <1>5, <2>2 DEF CompleteUpload, UpdateRows, Row
    <3>3. Placed(j)'
      BY <2>1, <3>1, <3>2 DEF Placed
    <3>4. RowsStayPlaced
      BY <1>2, <1>5, <2>2, <3>2, <3>3 DEF CompleteUpload, UpdateRows, RowsStayPlaced
    <3>5. RecordsGoFirst
      BY <1>4, <2>2, <3>2 DEF Stages
    <3>6. QED
      BY <1>2, <2>1, <3>4, <3>5, SteppingFacts, PlacesUnchanged
  <2>3. CASE UNCHANGED jobs /\ j \notin DOMAIN jobs /\ (End(j, i) \/ Goto(j, i, "clean"))
    <3>1. RecordsGoFirst
      BY <1>3, <1>4, <2>3 DEF Stages
    <3>2. QED
      BY <1>2, <2>1, <2>3, <3>1, SteppingFacts, PlacesUnchanged
  <2>4. ~Failing
    BY DEF Failing, Stepping, OnlyWorkersFail
  <2>5. QED
    BY <1>9, <2>2, <2>3, <2>4, SteppingFacts DEF Record
<1>10. CASE RewriteLinks(j, i)
  <2>1. RecordsGoFirst
    BY <1>4, <1>10 DEF RewriteLinks, Stages, At
  <2>2. QED
    BY <1>2, <1>10, <2>1, SteppingFacts, PlacesUnchanged DEF RewriteLinks, files
<1>11. CASE UploadClean(j, i)
  <2> DEFINE u == up[j][i]
  <2>1. UNCHANGED <<jobs, remote>> /\ u.at = "clean"
    BY <1>11 DEF UploadClean, At
  <2>2. \A n \in Nodes : \A k \in disk[n] : k \in disk'[n] \/ k = u.key
    BY <1>11, TypesKept DEF UploadClean, FilesTyped, Stepping, Sound
  <2>3. \A k \in DOMAIN jobs : jobs[k].key = u.key => jobs[k].loc = "remote"
    BY <1>1, <2>1 DEF Stepping, Sound, Leading, UploadsKnowTheirKey, Located, RecordedFirst
  <2> HIDE DEF u
  <2>4. FilesStay
    BY <2>1, <2>2, <2>3 DEF FilesStay
  <2>5. RecordsGoFirst
    BY <1>3, <1>11 DEF UploadClean
  <2>6. QED
    BY <1>2, <2>1, <2>4, <2>5, SteppingFacts, PlacesUnchanged
<1>12. QED
  BY <1>6, <1>7, <1>8, <1>9, <1>10, <1>11 DEF UploadStep

\* Sweeps and starts hide local files only; a reconciliation shows those it has
\* found, and removes those that no row counts on.
LEMMA NodeLocates ==
    ASSUME Stepping, NEW n \in Nodes
    PROVE  /\ PushOther(n) \/ Crash(n) \/ Start(n) \/ StartStep(n) => Located'
           /\ SweepUnfinished(n) \/ SweepCompleted(n) => Located'
<1>1. \A j \in DOMAIN jobs : /\ jobs[j] \in Row /\ Placed(j)
                             /\ proc[n] # "up" /\ jobs[j].node = n => Idle(j)
  BY SteppingFacts, RowsOfTheDeadAreIdle DEF Stepping, Sound
<1>2. ASSUME PushOther(n) \/ Start(n)
      PROVE  Located'
  BY <1>2, SteppingFacts, PlacesUnchanged DEF PushOther, Start, files
<1>3. ASSUME Crash(n)
      PROVE  Located'
  <2>1. NoNewDownloads
    BY <1>3, TypesKept DEF Crash, NoNewDownloads, Stepping, Sound, ProcessTyped
  <2>2. RecordsGoFirst
    BY <1>3 DEF Crash, Restrict, RecordsGoFirst
  <2>3. QED
    BY <1>3, <2>1, <2>2, SteppingFacts, PlacesUnchanged DEF Crash, files
\* Unfinished jobs fail, uploads are reset.
<1>4. ASSUME StartFail(n) \/ SweepUnfinished(n) \/ SweepCompleted(n) \/ StartUploads(n)
      PROVE  Located'
  <2>1. UNCHANGED <<running, held, up, disk, remote>>
    BY <1>4 DEF StartFail, SweepUnfinished, SweepCompleted, StartUploads, process, files
  <2>2. proc[n] # "up"
    BY <1>4, SteppingFacts DEF StartFail, SweepUnfinished, SweepCompleted, StartUploads, Swept
  <2>3. \/ jobs' = MarkNodeActiveJobsFailed(jobs, n)
        \/ jobs' = MarkNodeCompletedJobsInactive(jobs, n)
        \/ jobs' = ResetStuckUploads(jobs, n)
    BY <1>4, SteppingFacts DEF StartFail, SweepUnfinished, SweepCompleted, StartUploads
  <2>4. ASSUME NEW j \in DOMAIN jobs, jobs[j].node = n
        PROVE  jobs'[j] = jobs[j] \/ Placed(j)'
    <3>1. CASE jobs' = MarkNodeActiveJobsFailed(jobs, n) /\ jobs'[j] # jobs[j]
      <4>1. jobs'[j].status = "failed"
        BY <1>1, <3>1 DEF MarkNodeActiveJobsFailed, UpdateRows, Row
      <4>2. QED
        BY <4>1 DEF Placed
    <3>2. CASE jobs' = MarkNodeCompletedJobsInactive(jobs, n) /\ jobs'[j] # jobs[j]
      <4>1. jobs'[j].status = "inactive" /\ jobs'[j].loc = "file"
        BY <1>1, <3>2 DEF MarkNodeCompletedJobsInactive, UpdateRows, Row
      <4>2. QED
        BY <4>1 DEF Placed
    <3>3. CASE jobs' = ResetStuckUploads(jobs, n) /\ jobs'[j] # jobs[j]
      <4>1. /\ jobs'[j].status = jobs[j].status /\ jobs'[j].node = jobs[j].node
            /\ jobs'[j].loc = jobs[j].loc /\ jobs'[j].key = jobs[j].key
        BY <1>1, <3>3 DEF ResetStuckUploads, UpdateRows, Row
      <4>2. QED
        BY <1>1, <2>1, <4>1 DEF Placed
    <3>4. QED
      BY <2>3, <3>1, <3>2, <3>3
  <2>5. /\ DOMAIN jobs' = DOMAIN jobs
        /\ \A j \in DOMAIN jobs : jobs[j].node # n => jobs'[j] = jobs[j]
    BY <2>3 DEF MarkNodeActiveJobsFailed, MarkNodeCompletedJobsInactive, ResetStuckUploads, UpdateRows
  <2>6. RowsStayPlaced
    BY <1>1, <2>1, <2>2, <2>4, <2>5 DEF RowsStayPlaced, Idle
  <2>7. QED
    BY <2>1, <2>6, SteppingFacts, PlacesUnchanged
<1>5. ASSUME Reconcile(n)
      PROVE  Located'
  <2> DEFINE mid == RestoreNodeInactiveJobsWithKeys(jobs, n, disk[n])
  <2>1. UNCHANGED <<running, held, up, remote>>
    BY <1>5 DEF Reconcile
  <2>2. DOMAIN mid = DOMAIN jobs
    BY DEF RestoreNodeInactiveJobsWithKeys, UpdateRows
  <2>3. \A j \in DOMAIN jobs :
          \/ mid[j] = jobs[j]
          \/ /\ jobs[j].status = "inactive" /\ jobs[j].key \in disk[n] /\ jobs[j].node = n
             /\ mid[j].status = "completed" /\ mid[j].node = n
             /\ mid[j].loc = jobs[j].loc /\ mid[j].key = jobs[j].key
    BY <1>1 DEF RestoreNodeInactiveJobsWithKeys, UpdateRows, Row
  <2>4. jobs' = FailNodeInactiveJobsMissingKeys(mid, n)
    BY <1>5 DEF Reconcile
  <2>5. \A j \in DOMAIN jobs : mid[j] \in Row
    BY SteppingFacts, MoreStatementsUpdate, TypesKept DEF Updated, Tamed, IsTable, TableTyped, Stepping, Sound
  <2> HIDE DEF mid
  <2>6. DOMAIN jobs' = DOMAIN jobs
    BY <2>2, <2>4 DEF FailNodeInactiveJobsMissingKeys, UpdateRows
  <2>7. \A j \in DOMAIN jobs :
          \/ jobs'[j] = mid[j]
          \/ mid[j].status = "inactive" /\ jobs'[j].status = "failed"
    BY <2>2, <2>4, <2>5 DEF FailNodeInactiveJobsMissingKeys, UpdateRows, Row
  <2>8. /\ disk'[n] = disk[n] \cap ListStorageKeysByNode(jobs', n)
        /\ \A m \in Nodes \ {n} : disk'[m] = disk[m]
    BY <1>5, TypesKept DEF Reconcile, FilesTyped, Stepping, Sound
  <2>9. \A j \in DOMAIN jobs' : jobs'[j].node = n /\ jobs'[j].status # "failed"
           => jobs'[j].key \in ListStorageKeysByNode(jobs', n)
    BY DEF ListStorageKeysByNode
  <2>10. FilesStay
    BY <2>8, <2>9 DEF FilesStay
  <2>11. ASSUME NEW j \in DOMAIN jobs, jobs'[j] # jobs[j]
         PROVE  Placed(j)' /\ Idle(j)
    <3>1. jobs[j].status = "inactive"
      BY <2>3, <2>7, <2>11
    <3>2. jobs[j].loc = "file"
      BY <3>1 DEF Stepping, Sound, Located, HiddenAreLocal
    <3>3. \/ jobs'[j].status = "failed"
          \/ /\ jobs'[j].status = "completed" /\ jobs'[j].node = n /\ jobs'[j].loc = "file"
             /\ jobs'[j].key \in disk[n]
      BY <2>3, <2>7, <2>11, <3>2
    <3>4. Placed(j)'
      BY <2>6, <2>8, <2>9, <3>3, NoNodeAssumption DEF Placed
    <3>5. QED
      BY <3>1, <3>4, RestingRowsAreIdle DEF Stepping, Sound
  <2>12. RowsStayPlaced
    BY <2>1, <2>6, <2>11 DEF RowsStayPlaced, Idle
  <2>13. QED
    BY <2>1, <2>10, <2>12, SteppingFacts, PlacesUnchanged
<1>6. QED
  BY <1>2, <1>3, <1>4, <1>5 DEF StartStep

\* What a deletion leaves to remove, no row counts on.
LEMMA RestLocates ==
    ASSUME Stepping
    PROVE  /\ \A j \in JobIds : LinkRead(j) \/ Delete(j) => Located'
           /\ LinkCreate \/ (\E l \in Link : Expire(l)) => Located'
           /\ \A c \in cleaning : Cleanup(c) => Located'
<1>1. ASSUME NEW j \in JobIds, LinkRead(j)
      PROVE  Located'
  BY <1>1, SteppingFacts, PlacesUnchanged DEF LinkRead, process, files
<1>2. ASSUME NEW j \in JobIds, Delete(j)
      PROVE  Located'
  <2>1. RowsStayPlaced
    BY <1>2 DEF Delete, DeleteJob, RowsStayPlaced
  <2>2. QED
    BY <1>2, <2>1, SteppingFacts, PlacesUnchanged DEF Delete, process, files
<1>3. ASSUME LinkCreate \/ (\E l \in Link : Expire(l))
      PROVE  Located'
  BY <1>3, SteppingFacts, PlacesUnchanged DEF LinkCreate, Expire, process, files
<1>4. ASSUME NEW c \in cleaning, Cleanup(c)
      PROVE  Located'
  <2>1. UNCHANGED <<jobs, up>>
    BY <1>4 DEF Cleanup
  <2>2. NoNewDownloads
    BY <1>4, TypesKept DEF Cleanup, NoNewDownloads, Stepping, Sound, ProcessTyped
  <2>3. \A j \in DOMAIN jobs : jobs[j].key # c.key
    BY DEF Stepping, Sound, Leading, RowsGoFirst
  <2>4. FilesStay
    BY <1>4, <2>1, <2>3, TypesKept DEF Cleanup, FilesStay, Stepping, Sound, FilesTyped
  <2>5. CopiesStay
    BY <1>4, <2>1, <2>3 DEF Cleanup, CopiesStay
  <2>6. QED
    BY <2>1, <2>2, <2>4, <2>5, SteppingFacts, PlacesUnchanged
<1>5. QED
  BY <1>1, <1>2, <1>3, <1>4

\* FilesSomewhere is an invariant while workers die and copies fail, but statements,
\* calls and the controller do not.
THEOREM FilesAreSomewhere ==
    ASSUME OnlyWorkersFail
    PROVE  Spec => []FilesSomewhere
<1>1. Undoubted /\ NotReadded
  BY DEF OnlyWorkersFail, Undoubted, NotReadded
<1>2. Init => Located
  BY UploadsAssumption DEF Init, Located, Served, Ready, DownloadsHaveFiles, HiddenAreLocal,
     RecordedFirst, FilesSomewhere
<1>3. TypeOK /\ TypeOK' /\ Working /\ Leading /\ Located /\ [Next]_vars => Working' /\ Leading' /\ Located'
  <2> SUFFICES ASSUME TypeOK, TypeOK', Working, Leading, Located, [Next]_vars
               PROVE  Working' /\ Leading' /\ Located'
    OBVIOUS
  <2>1. Working' /\ Leading'
    BY <1>1, StepWorks, StepLeads
  <2>2. CASE Next
    <3>1. Served'
      BY <2>2, ServedKept DEF Located
    <3>2. Stepping
      BY <2>1, <3>1 DEF Stepping, Sound
    <3>3. QED
      BY <2>1, <2>2, <3>2, CreateLocates, ResetLocates, DispatchLocates, FinishLocates, PushLocates,
         ClaimLocates, UploadLocates, NodeLocates, RestLocates DEF Next
  <2>3. CASE UNCHANGED vars
    <3>1. Served'
      BY <2>3 DEF vars, process, Located, Served, Ready
    <3>2. QED
      BY <2>1, <2>3, <3>1, PlacesUnchanged, LocatedKept DEF vars, process, files
  <2>4. QED
    BY <2>2, <2>3
<1>4. Located => FilesSomewhere
  BY DEF Located
<1>5. QED
  BY <1>2, <1>3, <1>4, InitWorks, InitLeads, TypeCorrect, PTL DEF Spec
=============================================================================
