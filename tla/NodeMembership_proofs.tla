------------------------ MODULE NodeMembership_proofs ------------------------
(***************************************************************************)
(* Proofs about NodeMembership, for any jobs, keys, nodes and faults and   *)
(* any number of handlers under way: the types of its variables.           *)
(***************************************************************************)
EXTENDS NodeMembership, JobStore_proofs

-----------------------------------------------------------------------------
(***************************************************************************)
(* TypeOK in parts.  An Add that calls a node has inserted or reset its    *)
(* row, and nothing here deletes a row.                                    *)
(***************************************************************************)
TablesTyped == IsTable(jobs) /\ DOMAIN nodes \subseteq Nodes /\ nodes \in [DOMAIN nodes -> NodeRow]
ControllerTyped == clients \subseteq Nodes /\ cache \subseteq Nodes
AddTyped ==
    /\ add \in {NoAdd} \cup [pc: {"insert", "call", "write"}, job: JobIds, node: Nodes]
    /\ add.pc \in {"call", "write"} => add.job \in DOMAIN jobs
ReaperTyped ==
    /\ reaper \in [pc: {"wait", "fail", "hide"}, todo: SUBSET Nodes, at: Nodes \cup {NoNode}]
HandlersTyped ==
    /\ reg \in [Nodes -> {"no", "fail", "client", "answer"}]
    /\ beating \in [Nodes -> {"no", "restore", "update"}]
    /\ dereg \in [Nodes -> {"no", "fail", "hide", "client"}]
    /\ deletion \in [Nodes -> {"no", "fail", "row"}]
Recon == [pc: {"no", "restore", "missing", "list", "legacy", "remove"},
          disk: SUBSET Keys, valid: SUBSET Keys]
WorkersTyped ==
    /\ worker \in [Nodes -> {"down", "starting", "up", "leaving"}]
    /\ recon \in [Nodes -> Recon]
    /\ running \in [Nodes -> SUBSET Keys]
    /\ disk \in [Nodes -> SUBSET Keys]
Typing ==
    /\ TablesTyped /\ ControllerTyped /\ AddTyped
    /\ ReaperTyped /\ HandlersTyped /\ WorkersTyped

\* Typing, which is inductive, implies TypeOK.
LEMMA TypingTypes == Typing => TypeOK
BY DEF Typing, TypeOK, TablesTyped, ControllerTyped, AddTyped, ReaperTyped, HandlersTyped,
       WorkersTyped, Recon, IsTable

\* Typing holds initially.
LEMMA TypingInit == Init => Typing
BY DEF Init, Typing, TablesTyped, ControllerTyped, AddTyped, ReaperTyped, HandlersTyped,
       WorkersTyped, Recon, IsTable, NoAdd, IdleReaper, NoRecon

\* What a step leaves alone keeps its type.
LEMMA Unchanged ==
    ASSUME Typing
    PROVE  /\ UNCHANGED <<jobs, nodes>> => TablesTyped'
           /\ UNCHANGED <<clients, cache>> => ControllerTyped'
           /\ UNCHANGED add /\ DOMAIN jobs \subseteq DOMAIN jobs' => AddTyped'
           /\ UNCHANGED reaper => ReaperTyped'
           /\ UNCHANGED handlers => HandlersTyped'
           /\ UNCHANGED node => WorkersTyped'
<1>1. UNCHANGED <<jobs, nodes>> => TablesTyped'
    BY DEF Typing, TablesTyped, IsTable
<1>2. UNCHANGED add /\ DOMAIN jobs \subseteq DOMAIN jobs' => AddTyped'
    BY DEF Typing, AddTyped
<1> QED
    BY <1>1, <1>2 DEF Typing, ControllerTyped, ReaperTyped, HandlersTyped, WorkersTyped,
       handlers, node

\* Statements that update rows.
LEMMA JobsUpdated ==
    ASSUME Typing, Updated(jobs, jobs'), UNCHANGED nodes
    PROVE  TablesTyped' /\ DOMAIN jobs \subseteq DOMAIN jobs'
BY DEF Typing, TablesTyped, Updated, Tamed

\* The table, as the statements' lemmas take it; a statement that fails changes
\* nothing.
LEMMA Statements ==
    ASSUME Typing
    PROVE  /\ IsTable(jobs) /\ Updated(jobs, jobs)
           /\ \A result : Updated(jobs, result) /\ JobsAfter(result) => Updated(jobs, jobs')
BY StatementsUpdate DEF Typing, TablesTyped, JobsAfter

\* The worker's process.
LEMMA WorkerTyped ==
    ASSUME Typing, NEW n \in Nodes, WorkerStart(n) \/ WorkerDie(n) PROVE Typing'
<1>1. WorkersTyped'
  <2>1. CASE WorkerStart(n)
    <3>1. disk[n] \subseteq Keys
      BY DEF Typing, WorkersTyped
    <3>2. disk' \in [Nodes -> SUBSET Keys]
      BY <2>1, <3>1 DEF WorkerStart, Typing, WorkersTyped
    <3> QED BY <2>1, <3>2 DEF WorkerStart, Typing, WorkersTyped
  <2>2. CASE WorkerDie(n)
    <3>1. NoRecon \in Recon
      BY DEF NoRecon, Recon
    <3> QED BY <2>2, <3>1 DEF WorkerDie, Typing, WorkersTyped
  <2> QED BY <2>1, <2>2
<1> QED
    BY <1>1, Unchanged DEF WorkerStart, WorkerDie, service, Typing

\* Register, Ping, Deregister and a heartbeat that is late.
LEMMA MembershipTyped ==
    ASSUME Typing, NEW n \in Nodes, MembershipStep(n) \/ Age(n) PROVE Typing'
<1>1. HandlersTyped'
    BY DEF MembershipStep, RegisterUpsert, RegisterFail, RegisterClient, RegisterAnswer,
       Ping, PingRestore, PingUpdate, DeregisterOffline, DeregisterFail, DeregisterHide,
       DeregisterClient, Age, handlers, Typing, HandlersTyped
<1>2. ControllerTyped'
    BY DEF MembershipStep, RegisterUpsert, RegisterFail, RegisterClient, RegisterAnswer,
       Ping, PingRestore, PingUpdate, DeregisterOffline, DeregisterFail, DeregisterHide,
       DeregisterClient, Age, service, Typing, ControllerTyped
<1>3. UNCHANGED <<add, reaper>>
    BY DEF MembershipStep, RegisterUpsert, RegisterFail, RegisterClient, RegisterAnswer,
       Ping, PingRestore, PingUpdate, DeregisterOffline, DeregisterFail, DeregisterHide,
       DeregisterClient, Age, service
<1>4. WorkersTyped'
  <2>1. CASE UNCHANGED node
    BY <2>1, Unchanged
  <2>2. CASE RegisterAnswer(n)
    <3>1. [pc |-> "restore", disk |-> disk[n], valid |-> {}] \in Recon
      BY DEF Typing, WorkersTyped, Recon
    <3>2. recon' \in [Nodes -> Recon]
      BY <2>2, <3>1 DEF RegisterAnswer, Reconciling, Typing, WorkersTyped
    <3> QED BY <2>2, <3>2 DEF RegisterAnswer, Typing, WorkersTyped
  <2>3. CASE DeregisterOffline(n)
    BY <2>3 DEF DeregisterOffline, Typing, WorkersTyped
  <2> QED
    BY <2>1, <2>2, <2>3 DEF MembershipStep, RegisterUpsert, RegisterFail, RegisterClient,
       Ping, PingRestore, PingUpdate, DeregisterFail, DeregisterHide, DeregisterClient, Age, node
<1>5. TablesTyped' /\ DOMAIN jobs \subseteq DOMAIN jobs'
  <2>1. CASE UNCHANGED <<jobs, nodes>>
    BY <2>1, Unchanged
  <2>2. CASE RegisterFail(n) \/ PingRestore(n) \/ DeregisterFail(n) \/ DeregisterHide(n)
    <3>1. Updated(jobs, jobs')
      BY <2>2, Statements, StatementsUpdate DEF RegisterFail, PingRestore, DeregisterFail, DeregisterHide
    <3> QED
      BY <2>2, <3>1, JobsUpdated DEF RegisterFail, PingRestore, DeregisterFail, DeregisterHide
  <2>3. CASE RegisterUpsert(n)
    BY <2>3 DEF RegisterUpsert, UpsertNode, Typing, TablesTyped, NodeRow, IsTable
  <2>4. CASE PingUpdate(n) \/ DeregisterOffline(n) \/ Age(n)
    <3>1. \A m \in DOMAIN nodes : nodes[m] \in NodeRow
      BY DEF Typing, TablesTyped
    <3>2. UpdateNodeHeartbeat(n) \in [DOMAIN nodes -> NodeRow]
      BY <3>1 DEF UpdateNodeHeartbeat, NodeRow
    <3>3. SetNodeOffline({n}) \in [DOMAIN nodes -> NodeRow]
      BY <3>1 DEF SetNodeOffline, NodeRow
    <3>4. n \in DOMAIN nodes => [nodes EXCEPT ![n].beat = "old"] \in [DOMAIN nodes -> NodeRow]
      BY <3>1 DEF NodeRow, Typing, TablesTyped
    <3>5. nodes' \in [DOMAIN nodes -> NodeRow] /\ UNCHANGED jobs
      BY <2>4, <3>2, <3>3, <3>4 DEF PingUpdate, DeregisterOffline, Age, Typing, TablesTyped
    <3> QED BY <3>5 DEF Typing, TablesTyped, IsTable
  <2> QED
    BY <2>1, <2>2, <2>3, <2>4 DEF MembershipStep, RegisterClient, RegisterAnswer, Ping,
       DeregisterClient
<1> QED
    BY <1>1, <1>2, <1>3, <1>4, <1>5, Unchanged DEF Typing

\* The reaper, time and the download service's reconciler.
LEMMA BackgroundTyped ==
    ASSUME Typing, Reaping \/ \E j \in JobIds : Silence(j) \/ ReconcileStale(j) PROVE Typing'
<1>1. ReaperTyped'
  <2>1. CASE UNCHANGED reaper
    BY <2>1, Unchanged
  <2>2. CASE Reap
    <3>1. Stale \in SUBSET Nodes
      BY DEF Stale, Online, Typing, TablesTyped
    <3>2. reaper' = [pc |-> "fail", todo |-> Stale, at |-> NoNode]
      BY <2>2 DEF Reap, IdleReaper
    <3> QED BY <3>1, <3>2 DEF ReaperTyped
  <2>3. CASE \E n \in Nodes : ReapFail(n)
    BY <2>3 DEF ReapFail, Typing, ReaperTyped
  <2>4. CASE ReapHide
    BY <2>4 DEF ReapHide, Typing, ReaperTyped
  <2>5. CASE ReapRestore
    BY <2>5 DEF ReapRestore, IdleReaper, ReaperTyped
  <2> QED BY <2>1, <2>2, <2>3, <2>4, <2>5 DEF Reaping, Silence, ReconcileStale
<1>2. UNCHANGED <<clients, service, handlers, node>>
    BY DEF Reaping, Reap, ReapFail, ReapHide, ReapRestore, Silence, ReconcileStale
<1>3. TablesTyped' /\ DOMAIN jobs \subseteq DOMAIN jobs'
  <2>1. CASE Reap
    <3>1. SetNodeOffline(Stale) \in [DOMAIN nodes -> NodeRow]
      BY DEF SetNodeOffline, NodeRow, Typing, TablesTyped
    <3> QED BY <2>1, <3>1 DEF Reap, Typing, TablesTyped, IsTable
  <2>2. CASE ~Reap
    <3>1. Updated(jobs, jobs') /\ UNCHANGED nodes
      BY <2>2, Statements, StatementsUpdate, NodeStatementsUpdate
      DEF Reaping, ReapFail, ReapHide, ReapRestore, Silence, ReconcileStale
    <3> QED BY <3>1, JobsUpdated
  <2> QED BY <2>1, <2>2
<1> QED
    BY <1>1, <1>2, <1>3, Unchanged DEF service, Typing

\* ReconcileNode, and the worker with its answer.
LEMMA ReconTyped ==
    ASSUME Typing, NEW n \in Nodes, ReconStep(n) \/ Reconnect(n) \/ ReconLost(n) PROVE Typing'
<1>1. UNCHANGED ReconLeaves
    BY DEF ReconStep, Reconnect, ReconRestore, ReconMissing, ReconList, ReconLost, ReconLegacy,
       RemoveOrphanedDirs
<1>2. Updated(jobs, jobs')
    BY Statements, NodeStatementsUpdate DEF ReconStep, Reconnect, ReconRestore, ReconMissing,
       ReconList, ReconLost, ReconLegacy, RemoveOrphanedDirs
<1>3. ListStorageKeysByNode(jobs, n) \subseteq Keys
    BY DEF ListStorageKeysByNode, Typing, TablesTyped, IsTable, Row
<1>4. recon[n] \in Recon /\ disk[n] \subseteq Keys /\ recon \in [Nodes -> Recon]
    BY DEF Typing, WorkersTyped
<1>5. ASSUME NEW r \in Recon, recon' = [recon EXCEPT ![n] = r] PROVE recon' \in [Nodes -> Recon]
    BY <1>4, <1>5
<1>6. recon' \in [Nodes -> Recon]
  <2>1. CASE Reconnect(n)
    <3>1. [pc |-> "restore", disk |-> disk[n], valid |-> {}] \in Recon
      BY <1>4 DEF Recon
    <3> QED BY <2>1, <3>1, <1>5 DEF Reconnect, Reconciling
  <2>2. CASE ReconRestore(n)
    <3>1. [NoRecon EXCEPT !.pc = "missing"] \in Recon
      BY DEF NoRecon, Recon
    <3> QED BY <2>2, <3>1, <1>5 DEF ReconRestore
  <2>3. CASE ReconMissing(n)
    <3>1. [recon[n] EXCEPT !.pc = "list"] \in Recon
      BY <1>4 DEF Recon
    <3> QED BY <2>3, <3>1, <1>4, <1>5 DEF ReconMissing
  <2>4. ASSUME NEW valid \in SUBSET Keys,
               recon' = [recon EXCEPT ![n].pc = "remove", ![n].valid = valid]
        PROVE  recon' \in [Nodes -> Recon]
    <3>1. [recon[n] EXCEPT !.pc = "remove", !.valid = valid] \in Recon
      BY <1>4 DEF Recon
    <3>2. recon' = [recon EXCEPT ![n] = [recon[n] EXCEPT !.pc = "remove", !.valid = valid]]
      BY <2>4, <1>4
    <3> QED BY <3>1, <3>2, <1>5
  <2>5. CASE ReconList(n)
    BY <2>4, <2>5, <1>3 DEF ReconList
  <2>6. CASE ReconLost(n)
    <3>1. [NoRecon EXCEPT !.pc = "legacy"] \in Recon
      BY DEF NoRecon, Recon
    <3> QED BY <2>6, <3>1, <1>5 DEF ReconLost
  <2>7. NoRecon \in Recon
    BY DEF NoRecon, Recon
  <2>8. CASE ReconLegacy(n)
    BY <2>4, <2>7, <2>8, <1>3, <1>5 DEF ReconLegacy
  <2>9. CASE RemoveOrphanedDirs(n)
    BY <2>7, <2>9, <1>5 DEF RemoveOrphanedDirs
  <2> QED BY <2>1, <2>2, <2>3, <2>5, <2>6, <2>8, <2>9 DEF ReconStep
<1>7. disk' \in [Nodes -> SUBSET Keys]
    BY <1>4 DEF ReconStep, Reconnect, ReconRestore, ReconMissing, ReconList, ReconLost,
       ReconLegacy, RemoveOrphanedDirs, Typing, WorkersTyped
<1>8. WorkersTyped'
    BY <1>1, <1>6, <1>7 DEF ReconLeaves, Typing, WorkersTyped
<1> QED
    BY <1>1, <1>2, <1>8, JobsUpdated, Unchanged DEF ReconLeaves, service, Typing

\* The admin deletes a node.
LEMMA DeletionTyped ==
    ASSUME Typing, NEW n \in Nodes, DeletionStep(n) PROVE Typing'
<1>1. HandlersTyped'
    BY DEF DeletionStep, DeleteCheck, DeleteFail, DeleteRow, Typing, HandlersTyped
<1>2. UNCHANGED <<clients, service, reaper, node>>
    BY DEF DeletionStep, DeleteCheck, DeleteFail, DeleteRow
<1>3. Updated(jobs, jobs')
    BY Statements, NodeStatementsUpdate DEF DeletionStep, DeleteCheck, DeleteFail, DeleteRow
<1>4. DOMAIN nodes' \subseteq DOMAIN nodes /\ nodes' \in [DOMAIN nodes' -> NodeRow]
    BY DEF DeletionStep, DeleteCheck, DeleteFail, DeleteRow, Typing, TablesTyped
<1>5. TablesTyped' /\ DOMAIN jobs \subseteq DOMAIN jobs'
    BY <1>3, <1>4 DEF Typing, TablesTyped, Updated, Tamed
<1> QED
    BY <1>1, <1>2, <1>5, Unchanged DEF service, Typing

\* The scheduler and the Add that asks it.
LEMMA AddTypes ==
    ASSUME Typing, RefreshNodes \/ AddStep \/ \E n \in Nodes, j \in JobIds : SelectNode(j, n)
    PROVE  Typing'
<1>1. UNCHANGED <<nodes, clients, reaper, handlers, worker, recon>>
    BY DEF RefreshNodes, AddStep, AddInsert, AddCall, AddWrite, SelectNode, node
<1>2. ControllerTyped'
    BY DEF RefreshNodes, AddStep, AddInsert, AddCall, AddWrite, SelectNode, Online, Typing,
       ControllerTyped, TablesTyped
<1>a. add.pc # "no" => /\ add.job \in JobIds /\ add.node \in Nodes
                       /\ add \in [pc: {"insert", "call", "write"}, job: JobIds, node: Nodes]
    BY DEF Typing, AddTyped, NoAdd
<1>3. IsTable(jobs') /\ DOMAIN jobs \subseteq DOMAIN jobs'
  <2>1. CASE UNCHANGED jobs
    BY <2>1 DEF Typing, TablesTyped, IsTable
  <2>2. ASSUME Updated(jobs, jobs') PROVE <1>3!:
    BY <2>2, JobsUpdated, <1>1 DEF Updated, Tamed
  <2>3. CASE \E k \in Keys : AddInsert(k)
    <3>1. PICK k \in Keys : AddInsert(k)
      BY <2>3
    <3>2. \/ UNCHANGED jobs
          \/ add.job \in DOMAIN jobs /\ jobs' = ResetJob(jobs, add.job, add.node)
          \/ add.job \notin DOMAIN jobs /\ jobs' = CreateJob(jobs, add.job, k, add.node)
      BY <3>1 DEF AddInsert
    <3>3. add.pc = "insert"
      BY <3>1 DEF AddInsert
    <3>4. IsTable(jobs) /\ add.job \in JobIds /\ add.node \in Nodes
      BY <3>3, <1>a, Statements
    <3>5. CASE UNCHANGED jobs
      BY <2>1, <3>5
    <3>6. CASE add.job \in DOMAIN jobs /\ jobs' = ResetJob(jobs, add.job, add.node)
      BY <3>4, <3>6, ResetJobRows
    <3>7. CASE add.job \notin DOMAIN jobs /\ jobs' = CreateJob(jobs, add.job, k, add.node)
      <4>1. PICK j \in JobIds \ DOMAIN jobs : j = add.job
        BY <3>4, <3>7
      <4>2. PICK n \in Nodes : n = add.node
        BY <3>4
      <4>3. IsTable(CreateJob(jobs, j, k, n)) /\ DOMAIN CreateJob(jobs, j, k, n) = DOMAIN jobs \cup {j}
        BY <3>4, CreateJobRows
      <4>4. jobs' = CreateJob(jobs, j, k, n)
        BY <3>7, <4>1, <4>2
      <4> QED BY <4>3, <4>4
    <3> QED BY <3>2, <3>5, <3>6, <3>7
  <2>4. CASE AddCall
    BY <2>1, <2>2, <2>4, Statements, StatementsUpdate DEF AddCall
  <2>5. CASE AddWrite
    <3>1. Updated(jobs, UpdateJobStatus(jobs, add.job, "active", TRUE, "file"))
      BY Statements, UpdateJobStatusUpdates DEF Statuses
    <3> QED BY <2>2, <2>5, <3>1, Statements DEF AddWrite
  <2> QED BY <2>1, <2>3, <2>4, <2>5 DEF RefreshNodes, AddStep, SelectNode
<1>4. AddTyped'
  <2>1. CASE UNCHANGED add \/ add' = NoAdd
    BY <2>1, <1>3 DEF Typing, AddTyped, NoAdd
  <2>2. CASE \E n \in Nodes, j \in JobIds : SelectNode(j, n)
    BY <2>2 DEF SelectNode, AddTyped
  <2>3. ASSUME NEW k \in Keys, AddInsert(k) PROVE AddTyped'
    <3>1. CASE add' = NoAdd
      BY <2>1, <3>1
    <3>2. CASE add' # NoAdd
      <4>1. /\ add.pc = "insert" /\ add' = [add EXCEPT !.pc = "call"]
            /\ \/ add.job \in DOMAIN jobs
               \/ add.job \notin DOMAIN jobs /\ jobs' = CreateJob(jobs, add.job, k, add.node)
        BY <2>3, <3>2 DEF AddInsert
      <4>2. add.job \in DOMAIN jobs'
        BY <4>1, <1>3 DEF CreateJob
      <4> QED BY <4>1, <4>2, <1>a DEF AddTyped
    <3> QED BY <3>1, <3>2
  <2>4. CASE AddCall
    <3>1. add.pc = "call" /\ add.job \in DOMAIN jobs
      BY <2>4 DEF AddCall, Typing, AddTyped
    <3>2. add' = NoAdd \/ add' = [add EXCEPT !.pc = "write"]
      BY <2>4 DEF AddCall
    <3> QED BY <2>1, <3>1, <3>2, <1>3, <1>a DEF AddTyped
  <2> QED BY <2>1, <2>2, <2>3, <2>4 DEF AddStep, RefreshNodes, AddWrite
<1>5. WorkersTyped'
  <2>1. CASE UNCHANGED node
    BY <2>1, Unchanged
  <2>2. CASE AddCall /\ ~UNCHANGED node
    <3>1. jobs[add.job].key \in Keys
      BY <2>2 DEF AddCall, Typing, AddTyped, TablesTyped, IsTable, Row
    <3> QED BY <2>2, <3>1 DEF AddCall, node, Typing, WorkersTyped
  <2> QED BY <2>1, <2>2 DEF AddStep, AddInsert, AddWrite, RefreshNodes, SelectNode
<1>6. TablesTyped'
    BY <1>1, <1>3 DEF Typing, TablesTyped
<1> QED
    BY <1>1, <1>2, <1>4, <1>5, <1>6, Unchanged DEF Typing

\* What nodes report.
LEMMA PushTyped ==
    ASSUME Typing, NEW n \in Nodes, NEW j \in JobIds, PushProgress(n, j) \/ PushEnd(n, j)
    PROVE  Typing'
<1>1. UNCHANGED <<nodes, clients, service, reaper, handlers>>
    BY DEF PushProgress, PushEnd
<1>2. Updated(jobs, jobs')
    BY Statements, StatementsUpdate DEF PushProgress, PushEnd
<1>3. WorkersTyped'
  <2>1. CASE PushProgress(n, j)
    BY <2>1, Unchanged DEF PushProgress
  <2>2. CASE PushEnd(n, j)
    <3>1. running' \in [Nodes -> SUBSET Keys]
      BY <2>2 DEF PushEnd, Typing, WorkersTyped
    <3>2. [disk EXCEPT ![n] = @ \ {jobs[j].key}] \in [Nodes -> SUBSET Keys]
      BY DEF Typing, WorkersTyped
    <3>3. disk' \in [Nodes -> SUBSET Keys]
      BY <2>2, <3>2 DEF PushEnd, Typing, WorkersTyped
    <3> QED BY <2>2, <3>1, <3>3 DEF PushEnd, Typing, WorkersTyped
  <2> QED BY <2>1, <2>2
<1> QED
    BY <1>1, <1>2, <1>3, JobsUpdated, Unchanged DEF service, Typing

\* The controller dies.
LEMMA CrashTyped == ASSUME Typing, ControllerCrash PROVE Typing'
<1>1. ControllerTyped' /\ AddTyped' /\ ReaperTyped' /\ HandlersTyped'
    BY DEF ControllerCrash, ControllerTyped, AddTyped, ReaperTyped, HandlersTyped, NoAdd, IdleReaper
<1>2. recon' \in [Nodes -> Recon]
    BY DEF ControllerCrash, Typing, WorkersTyped, NoRecon, Recon
<1>3. WorkersTyped'
    BY <1>2 DEF ControllerCrash, Typing, WorkersTyped
<1> QED
    BY <1>1, <1>3, Unchanged DEF ControllerCrash, Typing

\* Every step.
LEMMA StepTyped == ASSUME Typing, [Next]_vars PROVE Typing'
<1>1. CASE UNCHANGED vars
    BY <1>1, Unchanged DEF vars, service, Typing
<1> QED
    BY <1>1, WorkerTyped, MembershipTyped, BackgroundTyped, ReconTyped, DeletionTyped, AddTypes,
       PushTyped, CrashTyped DEF Next

\* The tables, the controller's memory, the handlers of every node, the reaper,
\* the Add in progress and the nodes keep their types, whatever fails, and an Add
\* that calls a node has a row for its job.
THEOREM TypeCorrect == Spec => []TypeOK
<1>1. Spec => []Typing
    BY TypingInit, StepTyped, PTL DEF Spec
<1> QED BY <1>1, TypingTypes, PTL
=============================================================================
