--------------------------- MODULE NodeMembership ---------------------------
(***************************************************************************)
(* How worker nodes join, stay in, leave and are thrown out, and what that *)
(* does to their jobs: Register, Heartbeat, Deregister and ReconcileNode   *)
(* at the controller (controller/grpc/handlers.go), the reaper             *)
(* (controller/server.go), the worker's start, heartbeat and clean-up of   *)
(* directories (worker/server.go), the admin's deletion of a node, and the *)
(* scheduler that places new jobs by a cached list of online nodes.        *)
(*                                                                         *)
(* One Add at a time stands for the download service (DownloadService has  *)
(* the rest); downloads run until their node reports an end.  Every        *)
(* handler is cut at each statement and at each change of memory.          *)
(***************************************************************************)
EXTENDS JobStore, FiniteSets

CONSTANTS Faults,      \* what may go wrong, out of AllFaults
          MaxInFlight  \* bound: handlers and goroutines under way at a time

\* A statement that fails, an answer that is lost, a connection that breaks so
\* that a heartbeat comes too late, a controller that dies, a worker that comes
\* back without all its files.
AllFaults == {"statement", "answer", "slow", "controller", "disk"}
ASSUME MembershipAssumption ==
    Faults \subseteq AllFaults /\ MaxInFlight \in Nat \ {0}

VARIABLES
    jobs,      \* the jobs table
    nodes,     \* the nodes table: node -> [online, beat]
    clients,   \* nodes with a client in the controller's memory
    cache,     \* the scheduler's list of online nodes
    add,       \* the Add in progress
    reaper,    \* where the reaper is
    reg, beating, dereg, deletion,  \* node -> where the handlers for it are
    worker,    \* node -> state of its process
    recon,     \* node -> its reconcileNode goroutine
    running,   \* node -> keys its engines are downloading
    disk       \* node -> keys with a directory on its disk

handlers == <<reg, beating, dereg, deletion>>
service == <<cache, add>>
node == <<worker, recon, running, disk>>
vars == <<jobs, nodes, clients, service, reaper, handlers, node>>

\* beat: how old last_heartbeat is; "never" is NULL.
NodeRow == [online: BOOLEAN, beat: {"never", "recent", "old"}]
NoAdd == [pc |-> "no", job |-> "none", node |-> NoNode]
IdleReaper == [pc |-> "wait", todo |-> {}, at |-> NoNode]
NoRecon == [pc |-> "no", disk |-> {}, valid |-> {}]

TypeOK ==
    /\ DOMAIN jobs \subseteq JobIds /\ jobs \in [DOMAIN jobs -> Row]
    /\ DOMAIN nodes \subseteq Nodes /\ nodes \in [DOMAIN nodes -> NodeRow]
    /\ clients \subseteq Nodes
    /\ cache \subseteq Nodes
    /\ add \in {NoAdd} \cup [pc: {"insert", "call", "write"}, job: JobIds, node: Nodes]
    /\ reaper \in [pc: {"wait", "fail", "hide"}, todo: SUBSET Nodes,
                   at: Nodes \cup {NoNode}]
    /\ reg \in [Nodes -> {"no", "fail", "client", "answer"}]
    /\ beating \in [Nodes -> {"no", "restore", "update"}]
    /\ dereg \in [Nodes -> {"no", "fail", "hide", "client"}]
    /\ deletion \in [Nodes -> {"no", "fail", "row"}]
    /\ worker \in [Nodes -> {"down", "starting", "up", "leaving"}]
    /\ recon \in [Nodes -> [pc: {"no", "restore", "missing", "list", "legacy", "remove"},
                            disk: SUBSET Keys, valid: SUBSET Keys]]
    /\ running \in [Nodes -> SUBSET Keys]
    /\ disk \in [Nodes -> SUBSET Keys]

Init ==
    /\ jobs = <<>> /\ nodes = <<>> /\ clients = {}
    /\ cache = {} /\ add = NoAdd /\ reaper = IdleReaper
    /\ reg = [n \in Nodes |-> "no"] /\ beating = [n \in Nodes |-> "no"]
    /\ dereg = [n \in Nodes |-> "no"] /\ deletion = [n \in Nodes |-> "no"]
    /\ worker = [n \in Nodes |-> "down"] /\ recon = [n \in Nodes |-> NoRecon]
    /\ running = [n \in Nodes |-> {}] /\ disk = [n \in Nodes |-> {}]

-----------------------------------------------------------------------------
\* Statements.  A failure of one is logged, and the caller goes on.

Alive(n) == worker[n] # "down"
Online == {n \in DOMAIN nodes : nodes[n].online}
Failing == "statement" \in Faults

InFlight ==
    Cardinality({n \in Nodes : reg[n] # "no"}) + Cardinality({n \in Nodes : beating[n] # "no"})
    + Cardinality({n \in Nodes : dereg[n] # "no"}) + Cardinality({n \in Nodes : deletion[n] # "no"})
    + Cardinality({n \in Nodes : recon[n] # NoRecon})
    + Cardinality({x \in {reaper} : x.pc # "wait"}) + Cardinality({add} \ {NoAdd})
Room == InFlight < MaxInFlight

JobsAfter(result) == jobs' \in {result} \cup IF Failing THEN {jobs} ELSE {}

\* On a conflict last_heartbeat is set; an INSERT leaves it NULL.
UpsertNode(n) ==
    nodes' = [m \in DOMAIN nodes \cup {n} |->
                IF m # n THEN nodes[m]
                ELSE [online |-> TRUE,
                      beat |-> IF n \in DOMAIN nodes THEN "recent" ELSE "never"]]
SetNodeOffline(S) ==
    [m \in DOMAIN nodes |-> IF m \in S THEN [nodes[m] EXCEPT !.online = FALSE] ELSE nodes[m]]
UpdateNodeHeartbeat(n) ==
    [m \in DOMAIN nodes |-> IF m = n THEN [online |-> TRUE, beat |-> "recent"] ELSE nodes[m]]

\* Bug: only a node that is offline already is stale.
StaleOffline == {n \in DOMAIN nodes : nodes[n].beat = "old" /\ ~nodes[n].online}
\* last_heartbeat < NOW() - interval, which NULL never is.
Stale == {n \in Online : nodes[n].beat = "old"}

-----------------------------------------------------------------------------
(***************************************************************************)
(* The worker's process.  Its RPC server answers from the start; the next  *)
(* process of a node starts when the controller is done with the Register  *)
(* of the last one.                                                        *)
(***************************************************************************)
WorkerStart(n) ==
    /\ worker[n] = "down" /\ reg[n] = "no"
    /\ worker' = [worker EXCEPT ![n] = "starting"]
    /\ \E kept \in IF "disk" \in Faults THEN SUBSET disk[n] ELSE {disk[n]} :
         disk' = [disk EXCEPT ![n] = kept]
    /\ UNCHANGED <<jobs, nodes, clients, service, reaper, handlers, recon, running>>

\* A crash, a registration given up, or the end of the shutdown.
WorkerDie(n) ==
    /\ Alive(n)
    /\ worker' = [worker EXCEPT ![n] = "down"]
    /\ recon' = [recon EXCEPT ![n] = NoRecon]
    /\ running' = [running EXCEPT ![n] = {}]
    /\ UNCHANGED <<jobs, nodes, clients, service, reaper, handlers, disk>>

-----------------------------------------------------------------------------
\* Register.

RegisterUpsert(n) ==
    /\ worker[n] = "starting" /\ reg[n] = "no" /\ Room
    /\ UpsertNode(n)
    /\ reg' = [reg EXCEPT ![n] = "fail"]
    /\ UNCHANGED <<jobs, clients, service, reaper, beating, dereg, deletion, node>>

\* ResetStuckUploads, which comes next, is in Uploads: no job here has one.
RegisterFail(n) ==
    /\ reg[n] = "fail"
    /\ JobsAfter(MarkNodeActiveJobsFailed(jobs, n))
    /\ reg' = [reg EXCEPT ![n] = "client"]
    /\ UNCHANGED <<nodes, clients, service, reaper, beating, dereg, deletion, node>>

RegisterClient(n) ==
    /\ reg[n] = "client"
    /\ clients' = clients \cup {n}
    /\ reg' = [reg EXCEPT ![n] = "answer"]
    /\ UNCHANGED <<jobs, nodes, service, reaper, beating, dereg, deletion, node>>

\* go reconcileNode: the directories are read before the call.
Reconciling(n) ==
    recon' = [recon EXCEPT ![n] = [pc |-> "restore", disk |-> disk[n], valid |-> {}]]

RegisterAnswer(n) ==
    /\ reg[n] = "answer"
    /\ reg' = [reg EXCEPT ![n] = "no"]
    /\ \/ /\ worker[n] = "starting"
          /\ worker' = [worker EXCEPT ![n] = "up"]
          /\ Reconciling(n)
       \/ /\ worker[n] # "starting" \/ "answer" \in Faults   \* it will try again
          /\ UNCHANGED <<worker, recon>>
    /\ UNCHANGED <<jobs, nodes, clients, service, reaper, beating, dereg, deletion,
                   running, disk>>

-----------------------------------------------------------------------------
\* Heartbeats.

\* The node may have been unknown to this controller process: its client is
\* made from its row, and without a row the stream ends.
Ping(n) ==
    /\ worker[n] = "up" /\ beating[n] = "no" /\ Room
    /\ \/ /\ n \in clients
          /\ beating' = [beating EXCEPT ![n] = "update"]
          /\ UNCHANGED clients
       \/ /\ n \in DOMAIN nodes \ clients
          /\ beating' = [beating EXCEPT ![n] = "restore"]
          /\ clients' = clients \cup {n}
    /\ UNCHANGED <<jobs, nodes, service, reaper, reg, dereg, deletion, node>>

PingRestore(n) ==
    /\ beating[n] = "restore"
    /\ JobsAfter(RestoreNodeInactiveJobs(jobs, n))
    /\ beating' = [beating EXCEPT ![n] = "update"]
    /\ UNCHANGED <<nodes, clients, service, reaper, reg, dereg, deletion, node>>

\* Bug: a heartbeat leaves is_online alone.
PingKeepsOffline(n) ==
    /\ beating[n] = "update"
    /\ nodes' = [m \in DOMAIN nodes |->
                   IF m = n THEN [nodes[m] EXCEPT !.beat = "recent"] ELSE nodes[m]]
    /\ beating' = [beating EXCEPT ![n] = "no"]
    /\ UNCHANGED <<jobs, clients, service, reaper, reg, dereg, deletion, node>>

PingUpdate(n) ==
    /\ beating[n] = "update"
    /\ nodes' \in {UpdateNodeHeartbeat(n)} \cup IF Failing THEN {nodes} ELSE {}
    /\ beating' = [beating EXCEPT ![n] = "no"]
    /\ UNCHANGED <<jobs, clients, service, reaper, reg, dereg, deletion, node>>

\* The threshold passes without a heartbeat.
Age(n) ==
    /\ n \in DOMAIN nodes /\ nodes[n].beat = "recent"
    /\ worker[n] # "up" \/ "slow" \in Faults
    /\ nodes' = [nodes EXCEPT ![n].beat = "old"]
    /\ UNCHANGED <<jobs, clients, service, reaper, handlers, node>>

-----------------------------------------------------------------------------
\* Deregister: MarkNodeOffline, then the client goes.  The worker calls it once,
\* after a signal or when the controller was out of reach for too long.

DeregisterOffline(n) ==
    /\ worker[n] = "up" /\ dereg[n] = "no" /\ Room
    /\ worker' = [worker EXCEPT ![n] = "leaving"]
    /\ nodes' \in {SetNodeOffline({n})} \cup IF Failing THEN {nodes} ELSE {}
    /\ dereg' = [dereg EXCEPT ![n] = "fail"]
    /\ UNCHANGED <<jobs, clients, service, reaper, reg, beating, deletion,
                   recon, running, disk>>

DeregisterFail(n) ==
    /\ dereg[n] = "fail"
    /\ JobsAfter(MarkNodeActiveJobsFailed(jobs, n))
    /\ dereg' = [dereg EXCEPT ![n] = "hide"]
    /\ UNCHANGED <<nodes, clients, service, reaper, reg, beating, deletion, node>>

DeregisterHide(n) ==
    /\ dereg[n] = "hide"
    /\ JobsAfter(MarkNodeCompletedJobsInactive(jobs, n))
    /\ dereg' = [dereg EXCEPT ![n] = "client"]
    /\ UNCHANGED <<nodes, clients, service, reaper, reg, beating, deletion, node>>

DeregisterClient(n) ==
    /\ dereg[n] = "client"
    /\ clients' = clients \ {n}
    /\ dereg' = [dereg EXCEPT ![n] = "no"]
    /\ UNCHANGED <<jobs, nodes, service, reaper, reg, beating, deletion, node>>

-----------------------------------------------------------------------------
\* The reaper.  It leaves the clients alone.

Reap ==
    /\ reaper.pc = "wait" /\ Room
    /\ nodes' = SetNodeOffline(Stale)
    /\ reaper' = [IdleReaper EXCEPT !.pc = "fail", !.todo = Stale]
    /\ UNCHANGED <<jobs, clients, service, handlers, node>>

ReapFail(n) ==
    /\ reaper.pc = "fail" /\ n \in reaper.todo
    /\ JobsAfter(MarkNodeActiveJobsFailed(jobs, n))
    /\ reaper' = [reaper EXCEPT !.pc = "hide", !.at = n]
    /\ UNCHANGED <<nodes, clients, service, handlers, node>>

ReapHide ==
    /\ reaper.pc = "hide"
    /\ JobsAfter(MarkNodeCompletedJobsInactive(jobs, reaper.at))
    /\ reaper' = [reaper EXCEPT !.pc = "fail", !.todo = @ \ {reaper.at}, !.at = NoNode]
    /\ UNCHANGED <<nodes, clients, service, handlers, node>>

ReapRestore ==
    /\ reaper.pc = "fail" /\ reaper.todo = {}
    /\ JobsAfter(RestoreStaleInactiveJobs(jobs, Online))
    /\ reaper' = IdleReaper
    /\ UNCHANGED <<nodes, clients, service, handlers, node>>

\* Time, and the download service's reconciler.
Silence(j) ==
    /\ j \in DOMAIN jobs /\ jobs[j].fresh
    /\ jobs' = Elapse(jobs, j)
    /\ UNCHANGED <<nodes, clients, service, reaper, handlers, node>>
ReconcileStale(j) ==
    /\ j \in StaleRows(jobs)
    /\ JobsAfter(FailJob(jobs, j))
    /\ UNCHANGED <<nodes, clients, service, reaper, handlers, node>>

-----------------------------------------------------------------------------
(***************************************************************************)
(* ReconcileNode, and what the worker does with the answer.  It is called  *)
(* after Register and after every reconnection.                            *)
(***************************************************************************)
ReconLeaves == <<nodes, clients, service, reaper, handlers, worker, running>>

Reconnect(n) ==
    /\ Faults \cap {"slow", "controller"} # {} /\ Room
    /\ worker[n] = "up" /\ recon[n].pc = "no"
    /\ Reconciling(n)
    /\ UNCHANGED <<jobs, disk, ReconLeaves>>

ReconRestore(n) ==
    /\ recon[n].pc = "restore"
    /\ JobsAfter(RestoreNodeInactiveJobsWithKeys(jobs, n, recon[n].disk))
    /\ recon' = [recon EXCEPT ![n] = [NoRecon EXCEPT !.pc = "missing"]]
    /\ UNCHANGED <<disk, ReconLeaves>>

ReconMissing(n) ==
    /\ recon[n].pc = "missing"
    /\ JobsAfter(FailNodeInactiveJobsMissingKeys(jobs, n))
    /\ recon' = [recon EXCEPT ![n].pc = "list"]
    /\ UNCHANGED <<disk, ReconLeaves>>

\* A list that cannot be read is an empty list.
ReconList(n) ==
    /\ recon[n].pc = "list"
    /\ \E valid \in {ListStorageKeysByNode(jobs, n)} \cup IF Failing THEN {{}} ELSE {} :
         recon' = [recon EXCEPT ![n].pc = "remove", ![n].valid = valid]
    /\ UNCHANGED <<jobs, disk, ReconLeaves>>

\* The call fails: the worker asks for the list alone, which may fail too.
ReconLost(n) ==
    /\ "answer" \in Faults
    /\ recon[n].pc \in {"restore", "missing", "list"}
    /\ recon' = [recon EXCEPT ![n] = [NoRecon EXCEPT !.pc = "legacy"]]
    /\ UNCHANGED <<jobs, disk, ReconLeaves>>

ReconLegacy(n) ==
    /\ recon[n].pc = "legacy"
    /\ \/ recon' = [recon EXCEPT ![n].pc = "remove",
                                 ![n].valid = ListStorageKeysByNode(jobs, n)]
       \/ "answer" \in Faults /\ recon' = [recon EXCEPT ![n] = NoRecon]
    /\ UNCHANGED <<jobs, disk, ReconLeaves>>

RemoveOrphanedDirs(n) ==
    /\ recon[n].pc = "remove"
    /\ disk' = [disk EXCEPT ![n] = @ \cap recon[n].valid]
    /\ recon' = [recon EXCEPT ![n] = NoRecon]
    /\ UNCHANGED <<jobs, ReconLeaves>>

-----------------------------------------------------------------------------
\* The admin deletes a node that is offline.

DeleteCheck(n) ==
    /\ deletion[n] = "no" /\ Room /\ n \in DOMAIN nodes \ Online
    /\ deletion' = [deletion EXCEPT ![n] = "fail"]
    /\ UNCHANGED <<jobs, nodes, clients, service, reaper, reg, beating, dereg, node>>

DeleteFail(n) ==
    /\ deletion[n] = "fail"
    /\ \/ /\ jobs' = FailNodeJobsForDeletion(jobs, n)
          /\ deletion' = [deletion EXCEPT ![n] = "row"]
       \/ /\ Failing
          /\ deletion' = [deletion EXCEPT ![n] = "no"]
          /\ UNCHANGED jobs
    /\ UNCHANGED <<nodes, clients, service, reaper, reg, beating, dereg, node>>

DeleteRow(n) ==
    /\ deletion[n] = "row"
    /\ \/ nodes' = [m \in DOMAIN nodes \ {n} |-> nodes[m]] /\ jobs' = UnlinkNode(jobs, n)
       \/ Failing /\ UNCHANGED <<nodes, jobs>>
    /\ deletion' = [deletion EXCEPT ![n] = "no"]
    /\ UNCHANGED <<clients, service, reaper, reg, beating, dereg, node>>

-----------------------------------------------------------------------------
\* The scheduler and the Add that asks it.

\* onlineNodes: the list is as old as its last refresh.
RefreshNodes ==
    /\ cache # Online
    /\ cache' = Online
    /\ UNCHANGED <<jobs, nodes, clients, add, reaper, handlers, node>>

Free(j) == j \notin DOMAIN jobs \/ CanReset(jobs, j)
SelectNode(j, n) ==
    /\ add = NoAdd /\ Free(j) /\ n \in cache
    /\ Room
    /\ add' = [pc |-> "insert", job |-> j, node |-> n]
    /\ UNCHANGED <<jobs, nodes, clients, cache, reaper, handlers, node>>

\* A new row or a reset one; node_id must name a node, storage_key be unique,
\* and the row to reset not have been restored since.
AddInsert(k) ==
    LET j == add.job
        n == add.node
        ok == n \in DOMAIN nodes /\ Free(j)
    IN /\ add.pc = "insert"
       /\ IF j \in DOMAIN jobs THEN jobs[j].key = k ELSE RowsWithKey(jobs, k) = {}
       /\ add' = IF ok THEN [add EXCEPT !.pc = "call"] ELSE NoAdd
       /\ jobs' = IF ~ok THEN jobs
                  ELSE IF j \in DOMAIN jobs THEN ResetJob(jobs, j, n)
                  ELSE CreateJob(jobs, j, k, n)
       /\ UNCHANGED <<nodes, clients, cache, reaper, handlers, node>>

\* DispatchJob reaches a node with a client and a live process.
AddCall ==
    LET j == add.job
        n == add.node
    IN /\ add.pc = "call"
       /\ \/ /\ n \in clients /\ Alive(n)
             /\ running' = [running EXCEPT ![n] = @ \cup {jobs[j].key}]
             /\ disk' = [disk EXCEPT ![n] = @ \cup {jobs[j].key}]
             /\ add' = [add EXCEPT !.pc = "write"]
             /\ UNCHANGED jobs
          \/ /\ n \notin clients \/ ~Alive(n)
             /\ JobsAfter(FailJob(jobs, j))
             /\ add' = NoAdd
             /\ UNCHANGED <<running, disk>>
       /\ UNCHANGED <<nodes, clients, cache, reaper, handlers, worker, recon>>

AddWrite ==
    /\ add.pc = "write"
    /\ JobsAfter(UpdateJobStatus(jobs, add.job, "active", TRUE, "file"))
    /\ add' = NoAdd
    /\ UNCHANGED <<nodes, clients, cache, reaper, handlers, node>>

-----------------------------------------------------------------------------
\* What a node reports of its downloads (StatusLoop has the way it takes).

PushProgress(n, j) ==
    /\ j \in DOMAIN jobs /\ jobs[j].key \in running[n]
    /\ jobs' = BatchUpdateJobProgress(jobs, {j})
    /\ UNCHANGED <<nodes, clients, service, reaper, handlers, node>>

\* A failed job's directory is removed if the node can be reached.
PushEnd(n, j) ==
    /\ j \in DOMAIN jobs /\ jobs[j].key \in running[n]
    /\ running' = [running EXCEPT ![n] = @ \ {jobs[j].key}]
    /\ \/ jobs' = BatchCompleteJobs(jobs, {j}, FALSE) /\ UNCHANGED disk
       \/ /\ jobs' = BatchFailJobs(jobs, {j})
          /\ disk' = IF n \in clients THEN [disk EXCEPT ![n] = @ \ {jobs[j].key}] ELSE disk
    /\ UNCHANGED <<nodes, clients, service, reaper, handlers, worker, recon>>

-----------------------------------------------------------------------------
\* The controller dies; its reaper soon starts anew.  Calls to it fail.
ControllerCrash ==
    /\ "controller" \in Faults
    /\ clients' = {} /\ cache' = {} /\ add' = NoAdd /\ reaper' = IdleReaper
    /\ reg' = [n \in Nodes |-> "no"] /\ beating' = [n \in Nodes |-> "no"]
    /\ dereg' = [n \in Nodes |-> "no"] /\ deletion' = [n \in Nodes |-> "no"]
    /\ recon' = [n \in Nodes |->
                   IF recon[n].pc \in {"restore", "missing", "list", "legacy"}
                   THEN NoRecon ELSE recon[n]]
    /\ UNCHANGED <<jobs, nodes, worker, running, disk>>

MembershipStep(n) ==
    \/ RegisterUpsert(n) \/ RegisterFail(n) \/ RegisterClient(n) \/ RegisterAnswer(n)
    \/ Ping(n) \/ PingRestore(n) \/ PingUpdate(n)
    \/ DeregisterOffline(n) \/ DeregisterFail(n) \/ DeregisterHide(n) \/ DeregisterClient(n)
ReconStep(n) ==
    \/ ReconRestore(n) \/ ReconMissing(n) \/ ReconList(n) \/ ReconLegacy(n)
    \/ RemoveOrphanedDirs(n)
DeletionStep(n) == DeleteCheck(n) \/ DeleteFail(n) \/ DeleteRow(n)
HandlerStep(n) ==
    \/ RegisterFail(n) \/ RegisterClient(n) \/ RegisterAnswer(n)
    \/ DeregisterFail(n) \/ DeregisterHide(n) \/ DeregisterClient(n)
    \/ ReconStep(n) \/ DeleteFail(n) \/ DeleteRow(n)
Reaping == Reap \/ (\E n \in Nodes : ReapFail(n)) \/ ReapHide \/ ReapRestore
AddStep == (\E k \in Keys : AddInsert(k)) \/ AddCall \/ AddWrite

Next ==
    \/ \E n \in Nodes :
         \/ WorkerStart(n) \/ WorkerDie(n) \/ Age(n)
         \/ MembershipStep(n) \/ ReconStep(n) \/ DeletionStep(n) \/ Reconnect(n) \/ ReconLost(n)
         \/ \E j \in JobIds : SelectNode(j, n) \/ PushProgress(n, j) \/ PushEnd(n, j)
    \/ Reaping
    \/ RefreshNodes \/ AddStep
    \/ \E j \in JobIds : Silence(j) \/ ReconcileStale(j)
    \/ ControllerCrash

Spec == Init /\ [][Next]_vars

\* Handlers and calls return, the tickers of the reaper, the reconciler and the
\* worker's heartbeat fire, the scheduler's list expires and time passes.
\* Strong fairness is for the bound: a ticker does not wait until fewer than
\* MaxInFlight others are under way.
Fairness ==
    /\ SF_vars(Reaping) /\ WF_vars(RefreshNodes) /\ WF_vars(AddStep)
    /\ \A n \in Nodes :
         /\ WF_vars(HandlerStep(n))
         /\ SF_vars(Ping(n) \/ PingRestore(n) \/ PingUpdate(n))
         /\ WF_vars(Age(n) /\ worker[n] # "up")
    /\ \A j \in JobIds : WF_vars(Silence(j) \/ ReconcileStale(j))
FairSpec == Spec /\ Fairness

-----------------------------------------------------------------------------
(***************************************************************************)
(* Properties.                                                             *)
(***************************************************************************)
\* The controller does not die for ever.
CrashesEnd == <>[][~ControllerCrash]_vars

OnNode(n) == {j \in DOMAIN jobs : jobs[j].node = n}

\* A job does not stay unfinished once nobody works on it: its node's process
\* does not run it (it died, or was started again) and no Add has it in hand.
Lost(j) ==
    /\ j \in DOMAIN jobs /\ jobs[j].status \in Unfinished
    /\ \A n \in Nodes : jobs[j].key \notin running[n]
    /\ add.job # j
LostWorkEnds == CrashesEnd => \A j \in JobIds : []<>~Lost(j)

\* A node that died for good and had sent a heartbeat (so that the reaper can
\* see it is gone) is in the end offline, and has no unfinished job.
Gone(n) == worker[n] = "down" /\ (n \in DOMAIN nodes => nodes[n].beat # "never")
DeadNodesAreEmptied ==
    CrashesEnd => \A n \in Nodes :
      <>[]Gone(n) => <>[](n \notin Online /\ \A j \in OnNode(n) : jobs[j].status \notin Unfinished)

\* A node whose process lives and whose heartbeats are in time is online and
\* has a client again and again, whatever was done to it when it was late,
\* when its last process left or when the controller died.
Punctual(n) == worker[n] = "up" /\ n \in DOMAIN nodes /\ nodes[n].beat = "recent"
LiveNodesComeBack ==
    CrashesEnd => \A n \in Nodes :
      <>[]Punctual(n) => []<>(n \in Online \cap clients)

\* Such a node's completed downloads do not stay hidden, although a heartbeat
\* restores them only when the controller has no client for the node.
InactiveComesBack ==
    CrashesEnd => \A n \in Nodes : \A j \in JobIds :
      <>[]Punctual(n) => []<>(j \in OnNode(n) => jobs[j].status # "inactive")
=============================================================================
