------------------------------ MODULE Uploads ------------------------------
(***************************************************************************)
(* Completed downloads on their way to remote storage: the uploaders of    *)
(* the workers (worker/uploader.go) and of the controller's own node       *)
(* (controller/uploader.go), the handlers that claim and record uploads    *)
(* (controller/grpc/handlers.go), what a restart of a node does to them    *)
(* (Register, controller/server.go), and the links users are given to the  *)
(* files (service/download.go, fileserver/server.go).                      *)
(*                                                                         *)
(* Every statement and every change of a disk is a step.  The steps inside *)
(* Add, Delete and ReconcileNode are in DownloadService and in             *)
(* NodeMembership; here each takes one step, or two with the call between. *)
(***************************************************************************)
EXTENDS JobStore, FiniteSets, Functions

CONSTANTS Controllers,   \* the nodes that are the controller itself
          Slots,         \* uploads a node makes at a time
          MaxUploaders,  \* bound: upload goroutines of a job
          Faults         \* what may go wrong, out of AllFaults

\* A worker dies, the controller dies, a copy fails, a statement fails, an
\* answer is lost, a live worker is taken for dead, content is added again while
\* the deletion or the upload of its last job is under way.
AllFaults == {"crash", "controller", "copy", "statement", "answer", "slow", "readd"}
ASSUME UploadsAssumption ==
    /\ Controllers \subseteq Nodes /\ Faults \subseteq AllFaults
    /\ Slots \in Nat \ {0} /\ MaxUploaders \in Nat \ {0}

VARIABLES
    jobs,      \* the jobs table
    links,     \* the download_links table
    proc,      \* node -> stage of its process
    recon,     \* nodes that still have to reconcile
    running,   \* node -> jobs its engines are downloading
    held,      \* node -> jobs whose completion is to be pushed
    wake,      \* nodes with an UploadPending on its way
    up,        \* job -> its upload goroutines, each under a number
    disk,      \* node -> keys with a directory
    remote,    \* keys in remote storage
    request,   \* the GenerateLink in progress
    cleaning   \* files that a deletion still has to remove

process == <<proc, recon, running, held, wake>>
files == <<disk, remote>>
vars == <<jobs, links, process, up, files, request, cleaning>>

Workers == Nodes \ Controllers
Stages == {"wait", "copy", "failed", "record", "links", "clean"}
Goroutine == [node: Nodes, key: Keys, at: Stages]
Numbers == 1..MaxUploaders
Link == [job: JobIds, uri: {"file", "remote"}]
NoRequest == [job |-> "none", uri |-> "none"]

TypeOK ==
    /\ DOMAIN jobs \subseteq JobIds /\ jobs \in [DOMAIN jobs -> Row]
    /\ links \subseteq Link
    /\ proc \in [Nodes -> {"down", "fail", "uploads", "up"}]
    /\ recon \subseteq Nodes /\ wake \subseteq Nodes
    /\ running \in [Nodes -> SUBSET JobIds] /\ held \in [Nodes -> SUBSET JobIds]
    /\ up \in [JobIds -> UNION {[I -> Goroutine] : I \in SUBSET Numbers}]
    /\ disk \in [Nodes -> SUBSET Keys] /\ remote \subseteq Keys
    /\ request \in Link \cup {NoRequest}
    /\ cleaning \subseteq [job: JobIds, key: Keys, at: Nodes \cup {"remote"}]

Init ==
    /\ jobs = <<>> /\ links = {}
    /\ proc = [n \in Nodes |-> "up"] /\ recon = {} /\ wake = {}
    /\ running = [n \in Nodes |-> {}] /\ held = [n \in Nodes |-> {}]
    /\ up = [j \in JobIds |-> <<>>]
    /\ disk = [n \in Nodes |-> {}] /\ remote = {}
    /\ request = NoRequest /\ cleaning = {}

Failing == "statement" \in Faults
JobsAfter(result) == jobs' \in {result} \cup IF Failing THEN {jobs} ELSE {}

\* A controller reconciles before it serves; a worker while it does.  Calls
\* are answered while the controller serves.
Ready(n) == proc[n] = "up" /\ (n \in Controllers => n \notin recon)
Served == \A n \in Controllers : Ready(n)
Called(n) == n \in Controllers \/ Served
Unanswered(n) == n \in Workers /\ (~Served \/ "answer" \in Faults)

-----------------------------------------------------------------------------
\* Jobs start, run and end.

\* Ids are not used twice: nothing remembers the id of a new job.
Forgotten(j) ==
    /\ DOMAIN up[j] = {} /\ request.job # j /\ \A c \in cleaning : c.job # j
    /\ \A n \in Nodes : j \notin running[n] \cup held[n]

\* An earlier job's files are still being removed or uploaded.
Underway(k) == \/ \E c \in cleaning : c.key = k
               \/ \E j \in JobIds : \E i \in DOMAIN up[j] : up[j][i].key = k

\* Add: the row first ...
Create(j, k, n) ==
    /\ Served /\ j \notin DOMAIN jobs /\ RowsWithKey(jobs, k) = {} /\ Ready(n)
    /\ Underway(k) => "readd" \in Faults
    /\ Forgotten(j)
    /\ jobs' = CreateJob(jobs, j, k, n)
    /\ UNCHANGED <<links, process, up, files, request, cleaning>>

Reset(j, n) ==
    /\ Served /\ CanReset(jobs, j) /\ Ready(n)
    /\ jobs' = ResetJob(jobs, j, n)
    /\ UNCHANGED <<links, process, up, files, request, cleaning>>

\* ... then the call of the node, and the write of its answer.
Dispatch(j) ==
    /\ Served /\ j \in DOMAIN jobs /\ jobs[j].status = "queued" /\ jobs[j].node # NoNode
    /\ LET n == jobs[j].node
       IN \/ /\ Ready(n)
             /\ jobs' = UpdateJobStatus(jobs, j, "active", TRUE, "file")
             /\ running' = [running EXCEPT ![n] = @ \cup {j}]
             /\ disk' = [disk EXCEPT ![n] = @ \cup {jobs[j].key}]
          \/ /\ ~Ready(n)
             /\ jobs' = UpdateJobStatus(jobs, j, "failed", FALSE, "null")
             /\ UNCHANGED <<running, disk>>
    /\ UNCHANGED <<links, proc, recon, held, wake, up, remote, request, cleaning>>

Finish(n, j) ==
    /\ j \in running[n]
    /\ running' = [running EXCEPT ![n] = @ \ {j}]
    /\ held' = [held EXCEPT ![n] = @ \cup {j}]
    /\ UNCHANGED <<jobs, links, proc, recon, wake, up, files, request, cleaning>>

\* PushStatuses; a push with completions wakes the uploader.  Without an
\* answer the reports are kept, whatever the controller did with them.
Push(n) ==
    /\ Ready(n) /\ Served /\ held[n] # {}
    /\ JobsAfter(BatchCompleteJobs(jobs, held[n], TRUE))
    /\ \/ held' = [held EXCEPT ![n] = {}] /\ wake' = wake \cup {n}
       \/ Unanswered(n) /\ UNCHANGED <<held, wake>>
    /\ UNCHANGED <<links, proc, recon, running, up, files, request, cleaning>>

\* The completion of a job that is not among JobIds wakes the uploader too.
PushOther(n) ==
    /\ Ready(n) /\ Served
    /\ wake' = wake \cup {n}
    /\ UNCHANGED <<jobs, links, proc, recon, running, held, up, files, request, cleaning>>

-----------------------------------------------------------------------------
\* UploadPending: the claim, and a goroutine for each row.  A worker's claim
\* whose answer is lost has been made all the same.
NewGoroutine(n, j) == [node |-> n, key |-> jobs[j].key, at |-> "wait"]
Unused(j) == Numbers \ DOMAIN up[j]
Spawned(j, u) ==
    LET i == CHOOSE k \in Unused(j) : TRUE
    IN [k \in DOMAIN up[j] \cup {i} |-> IF k = i THEN u ELSE up[j][k]]
Claim(n) ==
    LET rows == Claimable(jobs, n)
    IN /\ n \in wake /\ Ready(n)
       /\ wake' = wake \ {n}
       /\ \/ /\ Served /\ \A j \in rows : Unused(j) # {}
             /\ jobs' = ClaimPendingUploads(jobs, n)
             /\ up' = [j \in JobIds |->
                         IF j \in rows THEN Spawned(j, NewGoroutine(n, j)) ELSE up[j]]
          \/ /\ Failing \/ Unanswered(n)
             /\ jobs' \in {jobs} \cup IF Served /\ Unanswered(n)
                                     THEN {ClaimPendingUploads(jobs, n)} ELSE {}
             /\ UNCHANGED up
       /\ UNCHANGED <<links, proc, recon, running, held, files, request, cleaning>>

\* Goroutine i of job j, at one stage, goes on to another or ends.
At(j, i, stage) == i \in DOMAIN up[j] /\ up[j][i].at = stage
Goto(j, i, stage) == up' = [up EXCEPT ![j][i].at = stage]
End(j, i) == up' = [up EXCEPT ![j] = Restrict(@, DOMAIN @ \ {i})]

Busy(n) == {g \in JobIds \X Numbers :
              /\ g[2] \in DOMAIN up[g[1]] /\ up[g[1]][g[2]].node = n
              /\ up[g[1]][g[2]].at # "wait"}

\* The semaphore; then the directory has to be there.
UploadStart(j, i) ==
    LET u == up[j][i]
    IN /\ At(j, i, "wait") /\ Cardinality(Busy(u.node)) < Slots
       /\ Goto(j, i, IF u.key \in disk[u.node] THEN "copy" ELSE "failed")
       /\ UNCHANGED <<jobs, links, process, files, request, cleaning>>

\* Bug: the files are moved, not copied.
UploadMove(j, i) ==
    /\ At(j, i, "copy")
    /\ remote' = remote \cup {up[j][i].key}
    /\ disk' = [disk EXCEPT ![up[j][i].node] = @ \ {up[j][i].key}]
    /\ Goto(j, i, "record")
    /\ UNCHANGED <<jobs, links, process, request, cleaning>>

\* provider.Upload, with its attempts.
UploadCopy(j, i) ==
    LET u == up[j][i]
    IN /\ At(j, i, "copy")
       /\ \/ /\ u.key \in disk[u.node]
             /\ remote' = remote \cup {u.key}
             /\ Goto(j, i, "record")
          \/ /\ u.key \notin disk[u.node] \/ "copy" \in Faults
             /\ Goto(j, i, "failed")
             /\ UNCHANGED remote
       /\ UNCHANGED <<jobs, links, process, disk, request, cleaning>>

\* Bug: a status that nothing looks for.
ReportError(j, i) ==
    /\ At(j, i, "failed")
    /\ jobs' = SetUploadStatus(jobs, j, "error")
    /\ End(j, i)
    /\ UNCHANGED <<links, process, files, request, cleaning>>

\* SetUploadStatus, at the controller's own node or by ReportUpload.
ReportFailure(j, i) ==
    /\ At(j, i, "failed")
    /\ \/ Called(up[j][i].node) /\ JobsAfter(SetUploadStatus(jobs, j, "failed"))
       \/ Unanswered(up[j][i].node) /\ UNCHANGED jobs
    /\ End(j, i)
    /\ UNCHANGED <<links, process, files, request, cleaning>>

\* CompleteUpload.  When it fails, or finds no row, the controller's uploader
\* gives up; a worker, which takes no notice of the answer, goes on to clean up.
Record(j, i) ==
    /\ At(j, i, "record")
    /\ \/ /\ Called(up[j][i].node) /\ j \in DOMAIN jobs
          /\ jobs' = CompleteUpload(jobs, j)
          /\ Goto(j, i, "links")
       \/ /\ j \notin DOMAIN jobs \/ Failing \/ Unanswered(up[j][i].node)
          /\ IF up[j][i].node \in Controllers THEN End(j, i) ELSE Goto(j, i, "clean")
          /\ UNCHANGED jobs
    /\ UNCHANGED <<links, process, files, request, cleaning>>

\* UpdateDownloadLinksStorageURI, for the links there are.
RewriteLinks(j, i) ==
    /\ At(j, i, "links")
    /\ \/ /\ Called(up[j][i].node)
          /\ links' = {IF l.job = j THEN [l EXCEPT !.uri = "remote"] ELSE l : l \in links}
       \/ (Failing \/ Unanswered(up[j][i].node)) /\ UNCHANGED links
    /\ Goto(j, i, "clean")
    /\ UNCHANGED <<jobs, process, files, request, cleaning>>

UploadClean(j, i) ==
    /\ At(j, i, "clean")
    /\ disk' = [disk EXCEPT ![up[j][i].node] = @ \ {up[j][i].key}]
    /\ End(j, i)
    /\ UNCHANGED <<jobs, links, process, remote, request, cleaning>>

-----------------------------------------------------------------------------
\* Nodes die, are swept, and start again.

Crash(n) ==
    /\ (IF n \in Controllers THEN "controller" ELSE "crash") \in Faults
    /\ proc[n] # "down"
    /\ proc' = [proc EXCEPT ![n] = "down"]
    /\ recon' = recon \ {n} /\ wake' = wake \ {n}
    /\ running' = [running EXCEPT ![n] = {}] /\ held' = [held EXCEPT ![n] = {}]
    /\ up' = [j \in JobIds |-> Restrict(up[j], {i \in DOMAIN up[j] : up[j][i].node # n})]
    /\ IF n \in Controllers THEN request' = NoRequest /\ cleaning' = {}
                            ELSE UNCHANGED <<request, cleaning>>
    /\ UNCHANGED <<jobs, links, files>>

\* MarkNodeJobsForOffline, for a worker that is dead or taken for dead.
Swept(n) == Served /\ n \in Workers /\ (proc[n] = "down" \/ "slow" \in Faults)
SweepUnfinished(n) ==
    /\ Swept(n)
    /\ JobsAfter(MarkNodeActiveJobsFailed(jobs, n))
    /\ UNCHANGED <<links, process, up, files, request, cleaning>>
SweepCompleted(n) ==
    /\ Swept(n)
    /\ JobsAfter(MarkNodeCompletedJobsInactive(jobs, n))
    /\ UNCHANGED <<links, process, up, files, request, cleaning>>

Start(n) ==
    /\ proc[n] = "down"
    /\ proc' = [proc EXCEPT ![n] = "fail"]
    /\ UNCHANGED <<jobs, links, recon, running, held, wake, up, files, request, cleaning>>

StartFail(n) ==
    /\ proc[n] = "fail" /\ Called(n)
    /\ proc' = [proc EXCEPT ![n] = "uploads"]
    /\ JobsAfter(MarkNodeActiveJobsFailed(jobs, n))
    /\ UNCHANGED <<links, recon, running, held, wake, up, files, request, cleaning>>

\* Register resets a worker's uploads.  The controller hides its completed
\* jobs instead, to restore them after a look at its disk, and resets nothing.
StartUploads(n) ==
    /\ proc[n] = "uploads" /\ Called(n)
    /\ proc' = [proc EXCEPT ![n] = "up"]
    /\ JobsAfter(IF n \in Workers THEN ResetStuckUploads(jobs, n)
                                  ELSE MarkNodeCompletedJobsInactive(jobs, n))
    /\ recon' = recon \cup {n} /\ wake' = wake \cup {n}
    /\ UNCHANGED <<links, running, held, up, files, request, cleaning>>

\* ReconcileNode and the removal of directories that no job claims.
Reconcile(n) ==
    /\ n \in recon /\ proc[n] = "up" /\ Called(n)
    /\ recon' = recon \ {n}
    /\ jobs' = FailNodeInactiveJobsMissingKeys(
                 RestoreNodeInactiveJobsWithKeys(jobs, n, disk[n]), n)
    /\ disk' = [disk EXCEPT ![n] = @ \cap ListStorageKeysByNode(jobs', n)]
    /\ UNCHANGED <<links, proc, running, held, wake, up, remote, request, cleaning>>

-----------------------------------------------------------------------------
\* GenerateLink: the row and the list of its files are read, then the link is
\* inserted, if its download is still there.  Deletions.

LinkRead(j) ==
    /\ Served /\ request = NoRequest
    /\ j \in DOMAIN jobs /\ jobs[j].status = "completed"
    /\ LET r == jobs[j]
       IN /\ IF r.node = NoNode THEN r.loc = "remote" /\ r.key \in remote
                                ELSE Ready(r.node) /\ r.key \in disk[r.node]
          /\ request' = [job |-> j, uri |-> IF r.node = NoNode THEN "remote" ELSE "file"]
    /\ UNCHANGED <<jobs, links, process, up, files, cleaning>>

\* Bug: the insert does not look for the download.
LinkCreateAnyway ==
    /\ request # NoRequest
    /\ links' = links \cup {request}
    /\ request' = NoRequest
    /\ UNCHANGED <<jobs, process, up, files, cleaning>>

LinkCreate ==
    /\ request # NoRequest
    /\ links' = IF request.job \in DOMAIN jobs THEN links \cup {request} ELSE links
    /\ request' = NoRequest
    /\ UNCHANGED <<jobs, process, up, files, cleaning>>

Expire(l) ==
    /\ Served /\ l \in links
    /\ links' = links \ {l}
    /\ UNCHANGED <<jobs, process, up, files, request, cleaning>>

\* The last Delete: the row goes with its links (the foreign keys cascade), and
\* its files after it.
Delete(j) ==
    /\ Served /\ j \in DOMAIN jobs
    /\ jobs' = DeleteJob(jobs, j)
    /\ links' = {l \in links : l.job # j}
    /\ cleaning' = cleaning \cup
         {[job |-> j, key |-> jobs[j].key, at |-> at] :
            at \in IF jobs[j].loc = "remote" THEN {"remote"} ELSE {jobs[j].node} \ {NoNode}}
    /\ UNCHANGED <<process, up, files, request>>

\* RemoveJob (after CancelJob) if the node can be reached, or provider.Delete.
Cleanup(c) ==
    /\ c \in cleaning
    /\ cleaning' = cleaning \ {c}
    /\ remote' = IF c.at = "remote" THEN remote \ {c.key} ELSE remote
    /\ IF c.at \in Nodes /\ Ready(c.at)
       THEN /\ disk' = [disk EXCEPT ![c.at] = @ \ {c.key}]
            /\ running' = [running EXCEPT ![c.at] = @ \ {c.job}]
       ELSE UNCHANGED <<disk, running>>
    /\ UNCHANGED <<jobs, links, proc, recon, held, wake, up, request>>

-----------------------------------------------------------------------------
UploadStep(j, i) ==
    \/ UploadStart(j, i) \/ UploadCopy(j, i) \/ ReportFailure(j, i)
    \/ Record(j, i) \/ RewriteLinks(j, i) \/ UploadClean(j, i)
StartStep(n) == StartFail(n) \/ StartUploads(n) \/ Reconcile(n)

Next ==
    \/ \E j \in JobIds :
         \/ \E n \in Nodes : Reset(j, n) \/ Finish(n, j) \/ \E k \in Keys : Create(j, k, n)
         \/ Dispatch(j) \/ LinkRead(j) \/ Delete(j)
         \/ \E i \in Numbers : UploadStep(j, i)
    \/ \E n \in Nodes :
         \/ Push(n) \/ PushOther(n) \/ Claim(n) \/ Crash(n) \/ Start(n) \/ StartStep(n)
         \/ SweepUnfinished(n) \/ SweepCompleted(n)
    \/ LinkCreate \/ (\E l \in Link : Expire(l)) \/ (\E c \in cleaning : Cleanup(c))

Spec == Init /\ [][Next]_vars

\* Goroutines run, dead workers are swept, and what is started comes up.
Fairness ==
    /\ \A j \in JobIds : \A i \in Numbers : WF_vars(UploadStep(j, i))
    /\ \A n \in Nodes : /\ WF_vars(StartStep(n))
                        /\ WF_vars(proc[n] = "down" /\ SweepCompleted(n))
FairSpec == Spec /\ Fairness

-----------------------------------------------------------------------------
(***************************************************************************)
(* Properties.                                                             *)
(***************************************************************************)
\* The files of a completed job are where its row says: the local copy goes
\* only after the row points at the remote one, whoever restarts, sweeps,
\* reconciles, deletes or starts the job anew meanwhile.
FilesSomewhere ==
    \A j \in DOMAIN jobs : jobs[j].status = "completed" =>
      LET r == jobs[j]
      IN IF r.loc = "remote" THEN r.key \in remote ELSE r.node # NoNode /\ r.key \in disk[r.node]

\* A directory is uploaded (and then removed) by one goroutine at a time: the
\* claim is exclusive, and survives restarts.
OneUploader == \A j \in JobIds : \A i, k \in DOMAIN up[j] : i = k

\* A link to remote storage leads to files there, until it is deleted with its
\* job: rows go before files.
RemoteLinksLead ==
    \A l \in links : l.uri = "remote" => l.job \in DOMAIN jobs /\ jobs[l.job].key \in remote

\* handlers.go:58: uploads "that were in-progress when the node crashed" do not
\* stay "uploading" for ever with nobody at work on them.
Stuck(j, N) == /\ j \in DOMAIN jobs /\ jobs[j].node \in N /\ jobs[j].status = "completed"
               /\ jobs[j].upload = "uploading" /\ DOMAIN up[j] = {}
CrashesEnd == <>[][\A n \in Nodes : ~Crash(n)]_vars
StuckUploadsEnd == CrashesEnd => \A j \in JobIds : []<>~Stuck(j, Workers)
=============================================================================
