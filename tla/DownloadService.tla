--------------------------- MODULE DownloadService ---------------------------
(***************************************************************************)
(* The download service of the controller                                  *)
(* (internal/core/service/download.go) on top of the jobs and downloads    *)
(* tables: concurrent Add and Retry requests, Delete and user-deletion     *)
(* requests, the stale-job reconciler, the sweep of an offline node's      *)
(* jobs, and the status reports nodes push.                                *)
(*                                                                         *)
(* A request is a session with a program counter; each SQL statement and   *)
(* each call of a node is one step, because nothing but the statement      *)
(* itself is atomic.  With Faults = TRUE a statement or a call may fail    *)
(* (a database error, or a request context cancelled because the client    *)
(* disconnected), an answer may be lost after the call took effect, and    *)
(* the controller may crash.                                               *)
(***************************************************************************)
EXTENDS JobStore, FiniteSets

CONSTANTS Users,
          DlIds,      \* ids the downloads table may hand out
          Adders,     \* concurrent Add or Retry requests
          Deleters,   \* concurrent Delete or DeleteUser requests
          NoJob, NoUser, NoKey, NoDl,   \* "not set" in a session
          UploadPending,  \* a remote storage provider is configured
          Faults

ASSUME DownloadServiceAssumption ==
    /\ NoJob \notin JobIds /\ NoUser \notin Users
    /\ NoKey \notin Keys /\ NoDl \notin DlIds
    /\ UploadPending \in BOOLEAN /\ Faults \in BOOLEAN

VARIABLES
    users,       \* rows of the users table
    jobs,        \* rows of the jobs table, by id
    downloads,   \* rows of the downloads table: id -> [user, job]
    add,         \* the Add sessions
    del,         \* the Delete sessions
    stale,       \* job ids the reconciler has listed and not yet failed
    swept,       \* nodes whose unfinished jobs were failed, completed ones not yet
    tracker,     \* node -> job ids its status loop polls
    push,        \* node -> the reports its status loop has in hand
    files,       \* <<node, key>> whose directory exists on disk
    claims,      \* history: Add sessions holding an unrevoked claim
    abandoned    \* history: queued jobs an Add gave up on without saying so

vars == <<users, jobs, downloads, add, del, stale, swept, tracker, push, files,
          claims, abandoned>>

AddPCs == {"idle", "lookup", "dedup", "attach", "select", "claim", "create",
           "relink", "relinkFind", "dispatch", "activate", "markFailed"}
AddSession == [pc: AddPCs, user: Users \cup {NoUser}, key: Keys \cup {NoKey},
               job: JobIds \cup {NoJob}, seen: Statuses \cup {"none"},
               node: Nodes \cup {NoNode}]
IdleAdd == [pc |-> "idle", user |-> NoUser, key |-> NoKey, job |-> NoJob,
            seen |-> "none", node |-> NoNode]

DelPCs == {"idle", "next", "getJob", "deleteJob", "cancel", "remove", "unlink"}
DelSession == [pc: DelPCs, user: Users \cup {NoUser}, dl: DlIds \cup {NoDl},
               job: JobIds \cup {NoJob}, key: Keys \cup {NoKey},
               node: Nodes \cup {NoNode}, cancel: BOOLEAN, purge: BOOLEAN,
               todo: SUBSET [dl: DlIds, job: JobIds, last: BOOLEAN]]
IdleDel == [pc |-> "idle", user |-> NoUser, dl |-> NoDl, job |-> NoJob,
            key |-> NoKey, node |-> NoNode, cancel |-> FALSE, purge |-> FALSE,
            todo |-> {}]

\* The reports of one status loop: "poll" between two pushes, then the steps
\* PushJobStatuses takes with the batch.  doomed: files still to be removed.
PushStages == {"poll", "progress", "complete", "fail", "remove"}
Push == [at: PushStages, prog: SUBSET JobIds, done: SUBSET JobIds,
         bad: SUBSET JobIds, doomed: SUBSET Keys]
IdlePush == [at |-> "poll", prog |-> {}, done |-> {}, bad |-> {}, doomed |-> {}]

TablesTyped ==
    /\ users \subseteq Users
    /\ DOMAIN jobs \subseteq JobIds
    /\ jobs \in [DOMAIN jobs -> Row]
    /\ DOMAIN downloads \subseteq DlIds
    /\ downloads \in [DOMAIN downloads -> [user: Users, job: JobIds]]
SessionsTyped ==
    /\ add \in [Adders -> AddSession]
    /\ del \in [Deleters -> DelSession]
NodesTyped ==
    /\ stale \subseteq JobIds
    /\ swept \subseteq Nodes
    /\ tracker \in [Nodes -> SUBSET JobIds]
    /\ push \in [Nodes -> Push]
    /\ files \subseteq Nodes \X Keys
HistoryTyped == claims \subseteq Adders /\ abandoned \subseteq JobIds
TypeOK == TablesTyped /\ SessionsTyped /\ NodesTyped /\ HistoryTyped

Init ==
    /\ users = Users
    /\ jobs = [j \in {} |-> j]
    /\ downloads = [d \in {} |-> d]
    /\ add = [s \in Adders |-> IdleAdd]
    /\ del = [d \in Deleters |-> IdleDel]
    /\ stale = {} /\ swept = {}
    /\ tracker = [n \in Nodes |-> {}]
    /\ push = [n \in Nodes |-> IdlePush]
    /\ files = {}
    /\ claims = {} /\ abandoned = {}

-----------------------------------------------------------------------------
(***************************************************************************)
(* The downloads table, ids, and the two history variables.                *)
(***************************************************************************)
DownloadsOf(j) == {d \in DOMAIN downloads : downloads[d].job = j}
DownloadOf(u, j) == {d \in DownloadsOf(j) : downloads[d].user = u}

\* Bug: a schema without the foreign key of downloads on jobs.
CanLinkAnyJob(u, j) == u \in users /\ DownloadOf(u, j) = {}
\* INSERT INTO downloads succeeds: both foreign keys resolve, the pair is new.
CanLink(u, j) == u \in users /\ j \in DOMAIN jobs /\ DownloadOf(u, j) = {}
Link(d, u, j) == [e \in DOMAIN downloads \cup {d} |->
                    IF e = d THEN [user |-> u, job |-> j] ELSE downloads[e]]
Unlink(gone) == [d \in DOMAIN downloads \ gone |-> downloads[d]]

\* Ids are never reused; an id nothing refers to any more is as good as new,
\* which keeps the id sets finite without bounding the number of requests.
FreshJobs ==
    {j \in JobIds : /\ j \notin DOMAIN jobs
                    /\ j \notin stale
                    /\ \A s \in Adders : add[s].job # j
                    /\ \A d \in Deleters :
                         del[d].job # j /\ \A t \in del[d].todo : t.job # j
                    /\ \A n \in Nodes :
                         j \notin tracker[n] \cup push[n].prog
                                   \cup push[n].done \cup push[n].bad}
FreshDls ==
    {e \in DlIds : /\ e \notin DOMAIN downloads
                   /\ \A d \in Deleters :
                        del[d].dl # e /\ \A t \in del[d].todo : t.dl # e}

\* A session claims a job when it creates or resets the row and keeps the
\* claim until it settles the dispatch, or until somebody else takes the job
\* out of circulation (failed, inactive or deleted) and so revokes the claim.
Unrevoked(C, table) ==
    {s \in C : /\ add[s].job \in DOMAIN table
               /\ table[add[s].job].status \in Attachable}
StillQueued(A, table) ==
    {j \in A : j \in DOMAIN table /\ table[j].status = "queued"}

\* The jobs table becomes `table`; sessions in `ended` give their claims up
\* and the jobs in `dropped` are left to the reconciler.
WriteJobs(table, ended, dropped) ==
    /\ jobs' = table
    /\ claims' = Unrevoked(claims \ ended, table)
    /\ abandoned' = StillQueued(abandoned \cup dropped, table)

\* A statement in the background: when it fails the error is logged, and what
\* follows it runs all the same.
TryWriteJobs(table) == WriteJobs(table, {}, {}) \/ (Faults /\ WriteJobs(jobs, {}, {}))

-----------------------------------------------------------------------------
(***************************************************************************)
(* Add.                                                                    *)
(***************************************************************************)
nodeVars == <<swept, tracker, push, files>>

GotoAdd(s, pc) == add' = [add EXCEPT ![s].pc = pc]
EndAdd(s) == add' = [add EXCEPT ![s] = IdleAdd]

\* A request of a signed-in user; the engine maps its URL to a storage key.
AddBegin(s) ==
    /\ add[s].pc = "idle"
    /\ \E u \in users, k \in Keys :
         add' = [add EXCEPT ![s] = [IdleAdd EXCEPT !.pc = "lookup",
                                                   !.user = u, !.key = k]]
    /\ UNCHANGED <<users, jobs, downloads, del, stale, nodeVars, claims, abandoned>>

\* Retry: the handler has seen that the user's download failed, then calls Add.
Retry(s) ==
    /\ add[s].pc = "idle"
    /\ \E d \in DOMAIN downloads :
         LET row == jobs[downloads[d].job]
         IN /\ row.status \in Resettable
            /\ add' = [add EXCEPT ![s] =
                         [IdleAdd EXCEPT !.pc = "lookup", !.key = row.key,
                                         !.user = downloads[d].user]]
    /\ UNCHANGED <<users, jobs, downloads, del, stale, nodeVars, claims, abandoned>>

\* GetJobByStorageKey; an error is taken to mean that there is no job.
AddLookup(s) ==
    /\ add[s].pc = "lookup"
    /\ \/ \E j \in RowsWithKey(jobs, add[s].key) :
            add' = [add EXCEPT ![s].job = j, ![s].seen = jobs[j].status,
                       ![s].pc = IF jobs[j].status \in Attachable
                                 THEN "dedup" ELSE "select"]
       \/ /\ RowsWithKey(jobs, add[s].key) = {} \/ Faults
          /\ GotoAdd(s, "select")
    /\ UNCHANGED <<users, jobs, downloads, del, stale, nodeVars, claims, abandoned>>

\* FindDownloadByUserAndJobID: the user already has this job, and is answered
\* with it, or goes on to attach.
AddDedup(s) ==
    /\ add[s].pc = "dedup"
    /\ IF DownloadOf(add[s].user, add[s].job) # {}
       THEN EndAdd(s) \/ (Faults /\ GotoAdd(s, "attach"))
       ELSE GotoAdd(s, "attach")
    /\ UNCHANGED <<users, jobs, downloads, del, stale, nodeVars, claims, abandoned>>

\* CreateDownload on the job found earlier; it may be gone by now.
AddAttach(s) ==
    /\ add[s].pc = "attach"
    /\ EndAdd(s)
    /\ \/ /\ CanLink(add[s].user, add[s].job)
          /\ \E d \in FreshDls : downloads' = Link(d, add[s].user, add[s].job)
       \/ /\ ~CanLink(add[s].user, add[s].job) \/ Faults
          /\ UNCHANGED downloads
    /\ UNCHANGED <<users, jobs, del, stale, nodeVars, claims, abandoned>>

\* The scheduler picks a connected node, or there is none and Add fails.
AddSelect(s) ==
    /\ add[s].pc = "select"
    /\ \/ \E n \in Nodes :
            add' = [add EXCEPT ![s].node = n,
                       ![s].pc = IF add[s].seen \in Resettable
                                 THEN "claim" ELSE "create"]
       \/ EndAdd(s)
    /\ UNCHANGED <<users, jobs, downloads, del, stale, nodeVars, claims, abandoned>>

\* ResetJob takes a failed or inactive job over.  When another request was
\* faster no row matches, and Add goes on to create a job.
AddReset(s) ==
    /\ add[s].pc = "claim"
    /\ IF CanReset(jobs, add[s].job)
       THEN \/ /\ jobs' = ResetJob(jobs, add[s].job, add[s].node)
               /\ claims' = claims \cup {s}
               /\ UNCHANGED abandoned
               /\ GotoAdd(s, "relink")
            \/ /\ Faults
               /\ GotoAdd(s, "create")
               /\ UNCHANGED <<jobs, claims, abandoned>>
       ELSE /\ GotoAdd(s, "create")
            /\ UNCHANGED <<jobs, claims, abandoned>>
    /\ UNCHANGED <<users, downloads, del, stale, nodeVars>>

\* CreateDownload for the job just reset; a duplicate is looked up next.
AddRelink(s) ==
    /\ add[s].pc = "relink"
    /\ \/ /\ CanLink(add[s].user, add[s].job)
          /\ \E d \in FreshDls : downloads' = Link(d, add[s].user, add[s].job)
          /\ GotoAdd(s, "dispatch")
       \/ /\ ~CanLink(add[s].user, add[s].job) \/ Faults
          /\ GotoAdd(s, "relinkFind")
          /\ UNCHANGED downloads
    /\ UNCHANGED <<users, jobs, del, stale, nodeVars, claims, abandoned>>

\* The user's own download of the reset job; Add gives up when it is not there.
AddRelinkFind(s) ==
    /\ add[s].pc = "relinkFind"
    /\ \/ /\ DownloadOf(add[s].user, add[s].job) # {}
          /\ GotoAdd(s, "dispatch")
          /\ UNCHANGED <<jobs, claims, abandoned>>
       \/ /\ DownloadOf(add[s].user, add[s].job) = {} \/ Faults
          /\ EndAdd(s)
          /\ WriteJobs(jobs, {s}, {add[s].job})
    /\ UNCHANGED <<users, downloads, del, stale, nodeVars>>

\* One transaction inserts the job and the download.  A commit whose answer
\* is lost leaves both rows behind a request that has failed.
AddCreate(s) ==
    /\ add[s].pc = "create"
    /\ \/ /\ RowsWithKey(jobs, add[s].key) = {}
          /\ add[s].user \in users
          /\ \E j \in FreshJobs, d \in FreshDls :
               /\ jobs' = CreateJob(jobs, j, add[s].key, add[s].node)
               /\ downloads' = Link(d, add[s].user, j)
               /\ \/ /\ add' = [add EXCEPT ![s].job = j, ![s].pc = "dispatch"]
                     /\ claims' = claims \cup {s}
                     /\ UNCHANGED abandoned
                  \/ /\ Faults
                     /\ EndAdd(s)
                     /\ abandoned' = abandoned \cup {j}
                     /\ UNCHANGED claims
       \/ /\ \/ RowsWithKey(jobs, add[s].key) # {}
             \/ add[s].user \notin users
             \/ Faults
          /\ EndAdd(s)
          /\ UNCHANGED <<jobs, downloads, claims, abandoned>>
    /\ UNCHANGED <<users, del, stale, nodeVars>>

\* DispatchJob: the node starts the engine and tracks the job, or rejects it,
\* perhaps after the engine has made the directory.  An answer that is lost
\* looks like a rejection.
AddDispatch(s) ==
    LET n == add[s].node
    IN /\ add[s].pc = "dispatch"
       /\ \/ /\ tracker' = [tracker EXCEPT ![n] = @ \cup {add[s].job}]
             /\ files' = files \cup {<<n, add[s].key>>}
             /\ GotoAdd(s, "activate") \/ (Faults /\ GotoAdd(s, "markFailed"))
          \/ /\ GotoAdd(s, "markFailed")
             /\ files' \in {files, files \cup {<<n, add[s].key>>}}
             /\ UNCHANGED tracker
       /\ UNCHANGED <<users, jobs, downloads, del, stale, swept, push, claims,
                      abandoned>>

\* The write that settles a dispatch; its error is only logged.
Settle(s, table) ==
    /\ EndAdd(s)
    /\ \/ WriteJobs(table, {s}, {})
       \/ Faults /\ WriteJobs(jobs, {s}, {add[s].job})
    /\ UNCHANGED <<users, downloads, del, stale, nodeVars>>

AddActivate(s) ==
    /\ add[s].pc = "activate"
    /\ Settle(s, UpdateJobStatus(jobs, add[s].job, "active", TRUE, "file"))

\* Bug: the rejection is returned to the user but not written to the job.
AddForgetsFailure(s) ==
    /\ add[s].pc = "markFailed"
    /\ Settle(s, jobs)

AddMarkFailed(s) ==
    /\ add[s].pc = "markFailed"
    /\ Settle(s, UpdateJobStatus(jobs, add[s].job, "failed", FALSE, "null"))

-----------------------------------------------------------------------------
(***************************************************************************)
(* Delete and DeleteUser.                                                  *)
(***************************************************************************)
IsLast(d) == Cardinality(DownloadsOf(downloads[d].job)) <= 1

\* What the cleanup after DeleteJob needs of the row read before it.
Target(session, j) ==
    [session EXCEPT !.job = j, !.key = jobs[j].key, !.node = jobs[j].node,
       !.cancel = jobs[j].engineJob /\ jobs[j].status \in Unfinished]

\* A download is dealt with: back to the list of DeleteUser, or done.
Dealt(d) == del' = [del EXCEPT ![d] =
              IF del[d].purge
              THEN [IdleDel EXCEPT !.pc = "next", !.user = del[d].user,
                                   !.purge = TRUE, !.todo = del[d].todo]
              ELSE IdleDel]

\* GetDownloadWithJobAndCount: the count decides what will be deleted.
DelBegin(d) ==
    /\ del[d].pc = "idle"
    /\ \E e \in DOMAIN downloads :
         LET session == [IdleDel EXCEPT !.user = downloads[e].user, !.dl = e]
         IN del' = [del EXCEPT ![d] =
                      IF IsLast(e)
                      THEN [Target(session, downloads[e].job)
                              EXCEPT !.pc = "deleteJob"]
                      ELSE [session EXCEPT !.pc = "unlink"]]
    /\ UNCHANGED <<users, jobs, downloads, add, stale, nodeVars, claims, abandoned>>

\* DeleteJob; the foreign keys cascade to every download of the job.
DelJob(d) ==
    /\ del[d].pc = "deleteJob"
    /\ \/ /\ WriteJobs(DeleteJob(jobs, del[d].job), {}, {})
          /\ downloads' = Unlink(DownloadsOf(del[d].job))
          /\ IF del[d].node = NoNode
             THEN Dealt(d)
             ELSE \/ del' = [del EXCEPT ![d].pc =
                               IF del[d].cancel THEN "cancel" ELSE "remove"]
                  \/ Dealt(d)                 \* the node is not connected
       \/ /\ Faults
          /\ Dealt(d)
          /\ UNCHANGED <<jobs, downloads, claims, abandoned>>
    /\ UNCHANGED <<users, add, stale, nodeVars>>

\* CancelJob: the tracker forgets the job only when the engine knew it.
DelCancel(d) ==
    /\ del[d].pc = "cancel"
    /\ del' = [del EXCEPT ![d].pc = "remove"]
    /\ \/ tracker' = [tracker EXCEPT ![del[d].node] = @ \ {del[d].job}]
       \/ UNCHANGED tracker
    /\ UNCHANGED <<users, jobs, downloads, add, stale, swept, push, files, claims,
                   abandoned>>

\* RemoveJob: the directory of the storage key goes.
DelRemove(d) ==
    /\ del[d].pc = "remove"
    /\ Dealt(d)
    /\ \/ files' = files \ {<<del[d].node, del[d].key>>}
       \/ Faults /\ UNCHANGED files
    /\ UNCHANGED <<users, jobs, downloads, add, stale, swept, tracker, push, claims,
                   abandoned>>

\* DeleteDownload: other users still need the job.
DelUnlink(d) ==
    /\ del[d].pc = "unlink"
    /\ Dealt(d)
    /\ \/ downloads' = Unlink({del[d].dl})
       \/ Faults /\ UNCHANGED downloads
    /\ UNCHANGED <<users, jobs, add, stale, nodeVars, claims, abandoned>>

\* DeleteUser lists the user's downloads with their counts, once.
PurgeBegin(d) ==
    /\ del[d].pc = "idle"
    /\ \E u \in users :
         LET mine == {e \in DOMAIN downloads : downloads[e].user = u}
         IN del' = [del EXCEPT ![d] =
                      [IdleDel EXCEPT !.pc = "next", !.user = u, !.purge = TRUE,
                         !.todo = {[dl |-> e, job |-> downloads[e].job,
                                    last |-> IsLast(e)] : e \in mine}]]
    /\ UNCHANGED <<users, jobs, downloads, add, stale, nodeVars, claims, abandoned>>

PurgeNext(d) ==
    /\ del[d].pc = "next"
    /\ \E t \in del[d].todo :
         del' = [del EXCEPT ![d].dl = t.dl, ![d].job = t.job,
                            ![d].todo = @ \ {t},
                            ![d].pc = IF t.last THEN "getJob" ELSE "unlink"]
    /\ UNCHANGED <<users, jobs, downloads, add, stale, nodeVars, claims, abandoned>>

\* DeleteJobByID reads the job before it deletes it.
PurgeGetJob(d) ==
    /\ del[d].pc = "getJob"
    /\ \/ /\ del[d].job \in DOMAIN jobs
          /\ del' = [del EXCEPT ![d] = [Target(del[d], del[d].job) EXCEPT
                                          !.pc = "deleteJob"]]
       \/ /\ del[d].job \notin DOMAIN jobs \/ Faults
          /\ Dealt(d)
    /\ UNCHANGED <<users, jobs, downloads, add, stale, nodeVars, claims, abandoned>>

\* The user's row goes, and whatever downloads it has by now.
PurgeUser(d) ==
    /\ del[d].pc = "next" /\ del[d].todo = {}
    /\ del' = [del EXCEPT ![d] = IdleDel]
    /\ \/ /\ users' = users \ {del[d].user}
          /\ downloads' = Unlink({e \in DOMAIN downloads :
                                    downloads[e].user = del[d].user})
       \/ Faults /\ UNCHANGED <<users, downloads>>
    /\ UNCHANGED <<jobs, add, stale, nodeVars, claims, abandoned>>

-----------------------------------------------------------------------------
(***************************************************************************)
(* Background work on the jobs table.                                      *)
(***************************************************************************)
\* Five minutes pass without an UPDATE of the row.
Silence(j) ==
    /\ j \in DOMAIN jobs
    /\ jobs[j].fresh /\ jobs[j].status \in Unfinished
    /\ WriteJobs(Elapse(jobs, j), {}, {})
    /\ UNCHANGED <<users, downloads, add, del, stale, nodeVars>>

\* reconcileStaleJobs lists first ...
ReconcileList ==
    /\ stale = {}
    /\ StaleRows(jobs) # {}
    /\ stale' = StaleRows(jobs)
    /\ UNCHANGED <<users, jobs, downloads, add, del, nodeVars, claims, abandoned>>

\* ... and fails what it listed, one job after the other.
ReconcileFail(j) ==
    /\ j \in stale
    /\ stale' = stale \ {j}
    /\ WriteJobs(FailJob(jobs, j), {}, {})
    /\ UNCHANGED <<users, downloads, add, del, nodeVars>>

ReconcileFailLost(j) ==
    /\ Faults
    /\ j \in stale
    /\ stale' = stale \ {j}
    /\ UNCHANGED <<users, jobs, downloads, add, del, nodeVars, claims, abandoned>>

\* MarkNodeJobsForOffline, run when a node is found offline.
SweepUnfinished(n) ==
    /\ n \notin swept
    /\ swept' = swept \cup {n}
    /\ TryWriteJobs(MarkNodeActiveJobsFailed(jobs, n))
    /\ UNCHANGED <<users, downloads, add, del, stale, tracker, push, files>>

SweepCompleted(n) ==
    /\ n \in swept
    /\ swept' = swept \ {n}
    /\ TryWriteJobs(MarkNodeCompletedJobsInactive(jobs, n))
    /\ UNCHANGED <<users, downloads, add, del, stale, tracker, push, files>>

\* A heartbeat of a node that was thought to be gone.
RestoreNode(n) ==
    /\ RestoreNodeInactiveJobs(jobs, n) # jobs
    /\ WriteJobs(RestoreNodeInactiveJobs(jobs, n), {}, {})
    /\ UNCHANGED <<users, downloads, add, del, stale, nodeVars>>

-----------------------------------------------------------------------------
(***************************************************************************)
(* Status reports.                                                         *)
(***************************************************************************)
\* The status loop polls its engines: each tracked job is reported as running,
\* completed or failed, or the engine does not know it.  The tracker drops
\* the jobs that ended; reports a failed push left over go along.
NodePoll(n) ==
    /\ push[n].at = "poll"
    /\ \E run, done, bad \in SUBSET tracker[n] :
         /\ run \cap done = {} /\ run \cap bad = {} /\ done \cap bad = {}
         /\ run \cup done \cup bad # {}
         /\ tracker' = [tracker EXCEPT ![n] = @ \ (done \cup bad)]
         /\ push' = [push EXCEPT ![n].at = "progress", ![n].prog = run,
                                 ![n].done = @ \cup done, ![n].bad = @ \cup bad]
    /\ UNCHANGED <<users, jobs, downloads, add, del, stale, swept, files, claims,
                   abandoned>>

\* The push does not arrive: progress is dropped, the rest is kept.
PushLost(n) ==
    /\ Faults
    /\ push[n].at = "progress"
    /\ push' = [push EXCEPT ![n].at = "poll", ![n].prog = {}]
    /\ UNCHANGED <<users, jobs, downloads, add, del, stale, swept, tracker, files,
                   claims, abandoned>>

PushStep(n, from, to) ==
    /\ push[n].at = from
    /\ push' = [push EXCEPT ![n].at = to, ![n].prog = {}]
    /\ UNCHANGED <<users, downloads, add, del, stale, swept, tracker, files>>

PushProgress(n) ==
    /\ PushStep(n, "progress", "complete")
    /\ TryWriteJobs(BatchUpdateJobProgress(jobs, push[n].prog))

PushComplete(n) ==
    /\ PushStep(n, "complete", "fail")
    /\ TryWriteJobs(BatchCompleteJobs(jobs, push[n].done, UploadPending))

\* BatchFailJobs returns the rows it failed; their files are removed next,
\* unless the node is not connected.
PushFail(n) ==
    /\ push[n].at = "fail"
    /\ \/ /\ \E keys \in {{jobs[j].key : j \in push[n].bad \cap DOMAIN jobs}, {}} :
               push' = [push EXCEPT ![n].at = "remove", ![n].doomed = keys]
          /\ WriteJobs(BatchFailJobs(jobs, push[n].bad), {}, {})
       \/ /\ Faults
          /\ push' = [push EXCEPT ![n].at = "remove"]
          /\ WriteJobs(jobs, {}, {})
    /\ UNCHANGED <<users, downloads, add, del, stale, swept, tracker, files>>

PushRemove(n) ==
    /\ push[n].at = "remove"
    /\ \E k \in push[n].doomed :
         /\ push' = [push EXCEPT ![n].doomed = @ \ {k}]
         /\ files' = files \ {<<n, k>>}
    /\ UNCHANGED <<users, jobs, downloads, add, del, stale, swept, tracker, claims,
                   abandoned>>

\* The answer reaches the node, or is lost and the terminal reports stay.
PushEnd(n) ==
    /\ push[n].at = "remove" /\ push[n].doomed = {}
    /\ \/ push' = [push EXCEPT ![n] = IdlePush]
       \/ Faults /\ push' = [push EXCEPT ![n].at = "poll"]
    /\ UNCHANGED <<users, jobs, downloads, add, del, stale, swept, tracker, files,
                   claims, abandoned>>

-----------------------------------------------------------------------------
\* The controller dies and every request with it.
ControllerCrash ==
    /\ Faults
    /\ add' = [s \in Adders |-> IdleAdd]
    /\ del' = [d \in Deleters |-> IdleDel]
    /\ stale' = {} /\ swept' = {}
    /\ claims' = {}
    /\ abandoned' = {j \in DOMAIN jobs : jobs[j].status = "queued"}
    /\ UNCHANGED <<users, jobs, downloads, tracker, push, files>>

AddStep(s) ==
    \/ AddBegin(s) \/ Retry(s) \/ AddLookup(s) \/ AddDedup(s) \/ AddAttach(s)
    \/ AddSelect(s) \/ AddReset(s) \/ AddRelink(s) \/ AddRelinkFind(s)
    \/ AddCreate(s) \/ AddDispatch(s) \/ AddActivate(s) \/ AddMarkFailed(s)

DelStep(d) ==
    \/ DelBegin(d) \/ DelJob(d) \/ DelCancel(d) \/ DelRemove(d) \/ DelUnlink(d)
    \/ PurgeBegin(d) \/ PurgeNext(d) \/ PurgeGetJob(d) \/ PurgeUser(d)

NodeStep(n) ==
    \/ SweepUnfinished(n) \/ SweepCompleted(n) \/ RestoreNode(n)
    \/ NodePoll(n) \/ PushLost(n) \/ PushProgress(n) \/ PushComplete(n)
    \/ PushFail(n) \/ PushRemove(n) \/ PushEnd(n)

ReconcileStep(j) == Silence(j) \/ ReconcileFail(j) \/ ReconcileFailLost(j)

Next ==
    \/ \E s \in Adders : AddStep(s)
    \/ \E d \in Deleters : DelStep(d)
    \/ \E n \in Nodes : NodeStep(n)
    \/ ReconcileList
    \/ \E j \in JobIds : ReconcileStep(j)
    \/ ControllerCrash

Spec == Init /\ [][Next]_vars

\* Timers fire, so silence is noticed and the reconciler keeps running; a
\* database outage ends, so of its attempts on one job some attempt succeeds.
ReconcilerFairness ==
    /\ WF_vars(ReconcileList)
    /\ \A j \in JobIds : WF_vars(Silence(j)) /\ SF_vars(ReconcileFail(j))

FairSpec == Spec /\ ReconcilerFairness

-----------------------------------------------------------------------------
(***************************************************************************)
(* Properties.                                                             *)
(***************************************************************************)
\* Concurrent requests for the same content start it once: at most one Add
\* is entitled to dispatch a storage key at any time, whatever stale status
\* the others have read (the UNIQUE storage key of the insert, the WHERE of
\* ResetJob, and Add falling through when either refuses).
OneClaimPerKey ==
    \A s, t \in claims : add[s].key = add[t].key => s = t

\* A queued job is never forgotten silently: some Add still holds the claim
\* on it and will settle it, unless that Add gave up after a fault (a lost
\* write, a crash) or after the user's download was deleted under it.
QueuedHasDispatcher ==
    \A j \in DOMAIN jobs :
        jobs[j].status = "queued" =>
            j \in abandoned \/ \E s \in claims : add[s].job = j

\* The inductive invariant behind the two: what a session holds is what its
\* program counter promises, the tables keep their constraints, and a claim is
\* held on a row that exists and nobody may reset.
ClaimPCs == {"relink", "relinkFind", "dispatch", "activate", "markFailed"}
Shaped(session) ==
    /\ session.pc # "idle" => session.user \in Users /\ session.key \in Keys
    /\ session.pc \in {"claim", "create"} \cup ClaimPCs => session.node \in Nodes
    /\ session.pc \in ClaimPCs => session.job \in JobIds
SessionsShaped == \A s \in Adders : Shaped(add[s])
ForeignKeys == \A d \in DOMAIN downloads : downloads[d].job \in DOMAIN jobs
StorageKeysUnique ==
    \A i, j \in DOMAIN jobs : jobs[i].key = jobs[j].key => i = j
SessionsKnowTheirKey ==
    \A s \in Adders :
        add[s].job \in DOMAIN jobs => jobs[add[s].job].key = add[s].key
ClaimsAreLive ==
    \A s \in claims : /\ add[s].pc \in ClaimPCs
                      /\ add[s].job \in DOMAIN jobs
                      /\ jobs[add[s].job].status \in Attachable
OneClaimPerJob == \A s, t \in claims : add[s].job = add[t].job => s = t

Typing == TypeOK /\ SessionsShaped /\ ForeignKeys
Claiming == /\ StorageKeysUnique /\ SessionsKnowTheirKey
            /\ ClaimsAreLive /\ OneClaimPerJob /\ QueuedHasDispatcher
IInv == Typing /\ Claiming

\* The claims seen as leases.
Lease == INSTANCE DispatchLease
           WITH lease <- [k \in Keys |-> {s \in claims : add[s].key = k}]
ClaimsAreLeases == Lease!Spec

\* No job stays queued for ever, whatever became of the request that queued
\* it: the reconciler is the fallback for every fault and every race in Add.
QueuedEnds ==
    \A j \in JobIds :
        (j \in DOMAIN jobs /\ jobs[j].status = "queued")
            ~> ~(j \in DOMAIN jobs /\ jobs[j].status = "queued")

\* A job whose reports have stopped does not stay unfinished for ever.
Silent(j) ==
    j \in DOMAIN jobs /\ jobs[j].status \in Unfinished /\ ~jobs[j].fresh
SilentJobsEnd == \A j \in JobIds : Silent(j) ~> ~Silent(j)

\* "Last download - delete from DB first": the row Delete removes with all
\* its downloads is one nobody else has a download of.
DeletesOnlyOwnDownloads ==
    [][\A d \in Deleters :
          (del[d].pc = "deleteJob" /\ del'[d].pc # "deleteJob"
             /\ del[d].job \in DOMAIN jobs \ DOMAIN jobs')
            => DownloadsOf(del[d].job) \subseteq {del[d].dl}]_vars
=============================================================================
