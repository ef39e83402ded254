------------------------ MODULE DownloadService_proofs ------------------------
(***************************************************************************)
(* Proofs about DownloadService, for any sets of users, keys, nodes, ids   *)
(* and concurrent requests, with and without faults: IInv is an inductive  *)
(* invariant, its consequences are invariants, and the claims of the Add   *)
(* requests implement the leases of DispatchLease.                         *)
(***************************************************************************)
EXTENDS DownloadService, JobStore_proofs

\* IInv is Tables /\ AddTyped /\ DelTyped /\ NodesTyped /\ HistoryTyped /\ Claiming.
Tables == TablesTyped /\ ForeignKeys
AddTyped == add \in [Adders -> AddSession] /\ SessionsShaped
DelTyped == del \in [Deleters -> DelSession]

-----------------------------------------------------------------------------
(***************************************************************************)
(* One session or one statement at a time.                                 *)
(***************************************************************************)
\* The session of a slot nobody uses.
LEMMA IdleSession == IdleAdd \in AddSession /\ Shaped(IdleAdd) /\ IdleAdd.job \notin JobIds
BY DownloadServiceAssumption DEF IdleAdd, AddSession, AddPCs, Shaped, ClaimPCs

\* A step of one session that touches neither the jobs table nor the claims:
\* it keeps its job and its storage key while it holds a claim.
LEMMA OneSessionMoves ==
  ASSUME IInv, NEW s \in Adders, NEW r \in AddSession, Shaped(r),
         add' = [add EXCEPT ![s] = r], UNCHANGED <<jobs, claims, abandoned>>,
         r.job \in DOMAIN jobs => jobs[r.job].key = r.key,
         s \in claims => r.pc \in ClaimPCs /\ r.job = add[s].job /\ r.key = add[s].key
  PROVE  AddTyped' /\ Claiming'
<1>1. add \in [Adders -> AddSession] /\ claims \subseteq Adders
  BY DEF IInv, Typing, TypeOK, SessionsTyped, HistoryTyped
<1>2. \A t \in Adders : add'[t] = IF t = s THEN r ELSE add[t]
  BY <1>1
<1>3. AddTyped'
  BY <1>1, <1>2 DEF AddTyped, SessionsShaped, IInv, Typing
<1>4. \A t \in claims : /\ add'[t].job = add[t].job /\ add'[t].key = add[t].key
                        /\ add'[t].pc \in ClaimPCs
  BY <1>1, <1>2 DEF IInv, Claiming, ClaimsAreLive
<1>5. SessionsKnowTheirKey'
  BY <1>2 DEF SessionsKnowTheirKey, IInv, Claiming
<1>6. StorageKeysUnique'
  BY DEF StorageKeysUnique, IInv, Claiming
<1>7. ClaimsAreLive'
  BY <1>4 DEF ClaimsAreLive, IInv, Claiming
<1>8. OneClaimPerJob'
  BY <1>4 DEF OneClaimPerJob, IInv, Claiming
<1>9. QueuedHasDispatcher'
  BY <1>4 DEF QueuedHasDispatcher, IInv, Claiming
<1> QED BY <1>3, <1>5, <1>6, <1>7, <1>8, <1>9 DEF Claiming

\* The same for a step that only moves the program counter.
LEMMA GotoMoves ==
  ASSUME IInv, NEW s \in Adders, NEW pc \in AddPCs, pc # "idle", GotoAdd(s, pc),
         UNCHANGED <<jobs, claims, abandoned>>,
         add[s].pc # "idle",
         pc \in {"claim", "create"} \cup ClaimPCs => add[s].node \in Nodes,
         pc \in ClaimPCs => add[s].job \in JobIds,
         s \in claims => pc \in ClaimPCs
  PROVE  AddTyped' /\ Claiming'
<1> DEFINE r == [add[s] EXCEPT !.pc = pc]
<1>1. add[s] \in AddSession /\ Shaped(add[s])
  BY DEF IInv, Typing, TypeOK, SessionsTyped, SessionsShaped
<1>2. /\ r \in AddSession /\ r.pc = pc /\ r.job = add[s].job /\ r.key = add[s].key
      /\ r.node = add[s].node /\ r.user = add[s].user
  BY <1>1 DEF AddSession
<1>3. Shaped(r)
  BY <1>1, <1>2 DEF Shaped
<1>4. r.job \in DOMAIN jobs => jobs[r.job].key = r.key
  BY <1>2 DEF IInv, Claiming, SessionsKnowTheirKey
<1>5. add' = [add EXCEPT ![s] = r]
  BY DEF GotoAdd
<1> QED BY <1>2, <1>3, <1>4, <1>5, OneSessionMoves

\* The same for a session that ends without a claim.
LEMMA EndMoves ==
  ASSUME IInv, NEW s \in Adders, EndAdd(s), UNCHANGED <<jobs, claims, abandoned>>, s \notin claims
  PROVE  AddTyped' /\ Claiming'
<1>1. DOMAIN jobs \subseteq JobIds
  BY DEF IInv, Typing, TypeOK, TablesTyped
<1> QED BY <1>1, IdleSession, OneSessionMoves DEF EndAdd

\* The lemmas of JobStore_proofs apply to the jobs table.
LEMMA JobsAreATable == IInv => IsTable(jobs) /\ Updated(jobs, jobs)
BY StatementsUpdate DEF IInv, Typing, TypeOK, TablesTyped, IsTable

\* A statement that queues nothing keeps the claims in order, provided that the
\* sessions it ends leave no queued job behind but the dropped ones.
LEMMA WritesKeepClaims ==
  ASSUME IInv, NEW table, Tamed(jobs, table), NEW ended, NEW dropped \in SUBSET JobIds,
         WriteJobs(table, ended, dropped),
         \A t \in claims \ ended : add'[t] = add[t],
         \A t \in Adders : add'[t] = add[t] \/ add'[t] = IdleAdd,
         \A t \in ended \cap claims : add[t].job \in DOMAIN table =>
              add[t].job \in dropped \/ table[add[t].job].status # "queued"
  PROVE  Claiming'
<1>1. /\ jobs' = table /\ DOMAIN table \subseteq DOMAIN jobs /\ DOMAIN table \subseteq JobIds
      /\ \A j \in DOMAIN table :
            /\ table[j].key = jobs[j].key
            /\ table[j].status = "queued" => jobs[j].status = "queued"
  BY DEF WriteJobs, Tamed, KeepsRow, IsTable
<1>2. claims' = {t \in claims \ ended : /\ add[t].job \in DOMAIN table
                                       /\ table[add[t].job].status \in Attachable}
  BY DEF WriteJobs, Unrevoked
<1>3. abandoned' = {j \in abandoned \cup dropped : j \in DOMAIN table /\ table[j].status = "queued"}
  BY DEF WriteJobs, StillQueued
<1>5. SessionsKnowTheirKey'
  BY <1>1, IdleSession DEF SessionsKnowTheirKey, IInv, Claiming
<1>6. StorageKeysUnique'
  BY <1>1 DEF StorageKeysUnique, IInv, Claiming
<1>7. ClaimsAreLive'
  BY <1>1, <1>2 DEF ClaimsAreLive, IInv, Claiming
<1>8. OneClaimPerJob'
  BY <1>2 DEF OneClaimPerJob, IInv, Claiming
<1>9. QueuedHasDispatcher'
  <2> SUFFICES ASSUME NEW j \in DOMAIN table, table[j].status = "queued", j \notin abandoned'
         PROVE \E s \in claims' : add'[s].job = j
    BY <1>1 DEF QueuedHasDispatcher
  <2>1. PICK s \in claims : add[s].job = j
    BY <1>1, <1>3 DEF QueuedHasDispatcher, IInv, Claiming
  <2>2. s \notin ended
    BY <2>1, <1>3
  <2> QED BY <1>2, <2>1, <2>2 DEF Attachable
<1> QED BY <1>5, <1>6, <1>7, <1>8, <1>9 DEF Claiming

\* The invariant in the parts the lemmas below establish.
LEMMA Assemble ==
  ASSUME Tables', AddTyped', DelTyped', NodesTyped', HistoryTyped', Claiming'
  PROVE  IInv'
BY DEF IInv, Typing, TypeOK, SessionsTyped, Tables, AddTyped, DelTyped

\* What a step does not touch keeps its part of the invariant.
LEMMA Unchanged ==
  ASSUME IInv
  PROVE  /\ UNCHANGED <<users, jobs, downloads>> => Tables'
         /\ UNCHANGED add => AddTyped'
         /\ UNCHANGED del => DelTyped'
         /\ UNCHANGED <<stale, nodeVars>> => NodesTyped'
         /\ UNCHANGED <<claims, abandoned>> => HistoryTyped'
         /\ UNCHANGED <<jobs, add, claims, abandoned>> => Claiming'
<1>1. UNCHANGED <<users, jobs, downloads>> => Tables'
  BY DEF IInv, Typing, TypeOK, Tables, TablesTyped, ForeignKeys
<1>2. UNCHANGED add => AddTyped'
  BY DEF IInv, Typing, TypeOK, AddTyped, SessionsTyped, SessionsShaped
<1>3. UNCHANGED del => DelTyped'
  BY DEF IInv, Typing, TypeOK, DelTyped, SessionsTyped
<1>4. UNCHANGED <<stale, nodeVars>> => NodesTyped'
  BY DEF IInv, Typing, TypeOK, NodesTyped, nodeVars
<1>5. UNCHANGED <<claims, abandoned>> => HistoryTyped'
  BY DEF IInv, Typing, TypeOK, HistoryTyped
<1>6. UNCHANGED <<jobs, add, claims, abandoned>> => Claiming'
  BY DEF IInv, Claiming, StorageKeysUnique, SessionsKnowTheirKey, ClaimsAreLive,
         OneClaimPerJob, QueuedHasDispatcher
<1>7. QED
  BY <1>1, <1>2, <1>3, <1>4, <1>5, <1>6

\* CreateDownload keeps the foreign keys.
LEMMA LinkKeepsTables ==
  ASSUME IInv, NEW u, NEW j, CanLink(u, j), NEW d \in DlIds, downloads' = Link(d, u, j),
         UNCHANGED <<users, jobs>>
  PROVE  Tables'
BY DEF IInv, Typing, TypeOK, Tables, TablesTyped, ForeignKeys, CanLink, Link

\* DeleteDownload, DeleteUser and the cascades keep the foreign keys.
LEMMA UnlinkKeepsTables ==
  ASSUME IInv, NEW gone, downloads' = Unlink(gone), users' \subseteq users, UNCHANGED jobs
  PROVE  Tables'
BY DEF IInv, Typing, TypeOK, Tables, TablesTyped, ForeignKeys, Unlink

\* A write of the jobs table keeps the history variables typed.
LEMMA HistoryAfterWrite ==
  ASSUME IInv, NEW table, NEW ended, NEW dropped \in SUBSET JobIds,
         WriteJobs(table, ended, dropped)
  PROVE  HistoryTyped'
BY DEF IInv, Typing, TypeOK, HistoryTyped, WriteJobs, Unrevoked, StillQueued

\* An UPDATE of the jobs table keeps the tables typed.
LEMMA UpdateKeepsTables ==
  ASSUME IInv, NEW table, IsTable(table), DOMAIN table = DOMAIN jobs, jobs' = table,
         UNCHANGED <<users, downloads>>
  PROVE  Tables'
BY DEF IInv, Typing, TypeOK, Tables, TablesTyped, ForeignKeys, IsTable

\* An UPDATE that queues nothing, outside the Add requests.
LEMMA UpdateKeepsInvariant ==
  ASSUME IInv, NEW table, Updated(jobs, table),
         WriteJobs(table, {}, {}), UNCHANGED <<users, downloads, add>>
  PROVE  Tables' /\ AddTyped' /\ HistoryTyped' /\ Claiming'
<1>1. Tables'
  BY UpdateKeepsTables DEF Updated, Tamed, WriteJobs
<1>2. HistoryTyped'
  BY HistoryAfterWrite
<1>3. Claiming'
  BY WritesKeepClaims DEF Updated
<1>4. QED
  BY <1>1, <1>2, <1>3, Unchanged

-----------------------------------------------------------------------------
(***************************************************************************)
(* Add requests.                                                           *)
(***************************************************************************)
\* The steps of an Add request that leave the jobs table alone.
LEMMA AddReads ==
  ASSUME IInv, NEW s \in Adders,
         \/ AddBegin(s) \/ Retry(s) \/ AddLookup(s) \/ AddDedup(s) \/ AddSelect(s)
  PROVE  IInv'
<1> DEFINE Quiet == UNCHANGED <<users, jobs, downloads, del, stale, nodeVars, claims, abandoned>>
<1>1. AddTyped' /\ Claiming' /\ Quiet => IInv'
  BY Unchanged, Assemble
<1>2. /\ add[s] \in AddSession /\ Shaped(add[s])
      /\ add[s].pc \notin ClaimPCs => s \notin claims
      /\ users \subseteq Users /\ downloads \in [DOMAIN downloads -> [user: Users, job: JobIds]]
      /\ jobs \in [DOMAIN jobs -> Row] /\ DOMAIN jobs \subseteq JobIds
      /\ \A d \in DOMAIN downloads : downloads[d].job \in DOMAIN jobs
  BY DEF IInv, Typing, TypeOK, TablesTyped, SessionsTyped, SessionsShaped, ForeignKeys,
         Claiming, ClaimsAreLive
<1>3. ASSUME NEW u \in Users, NEW k \in Keys, Quiet, add[s].pc = "idle",
             add' = [add EXCEPT ![s] = [IdleAdd EXCEPT !.pc = "lookup", !.user = u, !.key = k]]
      PROVE  IInv'
  <2> DEFINE r == [IdleAdd EXCEPT !.pc = "lookup", !.user = u, !.key = k]
  <2>1. r \in AddSession /\ Shaped(r) /\ r.job \notin JobIds
    BY IdleSession DEF AddSession, IdleAdd, AddPCs, Shaped, ClaimPCs
  <2>2. s \notin claims
    BY <1>2, <1>3 DEF ClaimPCs
  <2>3. AddTyped' /\ Claiming'
    BY <1>2, <1>3, <2>1, <2>2, OneSessionMoves
  <2>4. QED
    BY <1>1, <1>3, <2>3
<1>4. CASE AddBegin(s)
  BY <1>2, <1>3, <1>4 DEF AddBegin
<1>5. CASE Retry(s)
  <2>1. PICK d \in DOMAIN downloads :
           add' = [add EXCEPT ![s] = [IdleAdd EXCEPT !.pc = "lookup",
                                                     !.key = jobs[downloads[d].job].key,
                                                     !.user = downloads[d].user]]
    BY <1>5 DEF Retry
  <2>2. downloads[d].user \in Users /\ jobs[downloads[d].job].key \in Keys
    BY <1>2 DEF Row
  <2> DEFINE r == [IdleAdd EXCEPT !.pc = "lookup", !.key = jobs[downloads[d].job].key,
                                         !.user = downloads[d].user]
  <2>3. r = [IdleAdd EXCEPT !.pc = "lookup", !.user = downloads[d].user,
                            !.key = jobs[downloads[d].job].key]
    BY DEF IdleAdd
  <2>4. QED
    BY <1>3, <1>5, <2>1, <2>2, <2>3 DEF Retry
<1>6. CASE AddLookup(s)
  <2>1. Quiet /\ add[s].pc = "lookup" /\ s \notin claims
    BY <1>2, <1>6 DEF AddLookup, ClaimPCs
  <2>2. CASE GotoAdd(s, "select")
    BY <1>1, <2>1, <2>2, GotoMoves DEF AddPCs, ClaimPCs
  <2>3. CASE \E j \in RowsWithKey(jobs, add[s].key) :
            add' = [add EXCEPT ![s].job = j, ![s].seen = jobs[j].status,
                       ![s].pc = IF jobs[j].status \in Attachable
                                 THEN "dedup" ELSE "select"]
    <3>1. PICK j \in RowsWithKey(jobs, add[s].key) :
            add' = [add EXCEPT ![s].job = j, ![s].seen = jobs[j].status,
                       ![s].pc = IF jobs[j].status \in Attachable
                                 THEN "dedup" ELSE "select"]
      BY <2>3
    <3> DEFINE r == [add[s] EXCEPT !.job = j, !.seen = jobs[j].status,
                       !.pc = IF jobs[j].status \in Attachable
                                 THEN "dedup" ELSE "select"]
    <3>2. j \in JobIds /\ jobs[j].key = add[s].key /\ jobs[j].status \in Statuses
      BY <1>2 DEF RowsWithKey, Row
    <3>3. r \in AddSession
      BY <1>2, <3>2 DEF AddSession, AddPCs
    <3>4. r.key = add[s].key /\ r.user = add[s].user /\ r.job = j /\ r.pc \in {"dedup", "select"}
      BY <1>2 DEF AddSession
    <3>5. Shaped(r)
      BY <1>2, <2>1, <3>4 DEF Shaped, ClaimPCs
    <3>6. add' = [add EXCEPT ![s] = r]
      BY <3>1
    <3>7. QED
      BY <1>1, <2>1, <3>2, <3>3, <3>4, <3>5, <3>6, OneSessionMoves
  <2>4. QED
    BY <1>6, <2>2, <2>3 DEF AddLookup
<1>7. CASE AddDedup(s)
  <2>1. Quiet /\ add[s].pc = "dedup" /\ s \notin claims
    BY <1>2, <1>7 DEF AddDedup, ClaimPCs
  <2>2. CASE EndAdd(s)
    BY <1>1, <2>1, <2>2, EndMoves
  <2>3. CASE GotoAdd(s, "attach")
    BY <1>1, <2>1, <2>3, GotoMoves DEF AddPCs, ClaimPCs
  <2>4. QED
    BY <1>7, <2>2, <2>3 DEF AddDedup
<1>8. CASE AddSelect(s)
  <2>1. Quiet /\ add[s].pc = "select" /\ s \notin claims
    BY <1>2, <1>8 DEF AddSelect, ClaimPCs
  <2>2. CASE EndAdd(s)
    BY <1>1, <2>1, <2>2, EndMoves
  <2>3. ASSUME NEW n \in Nodes, NEW pc \in {"claim", "create"},
               add' = [add EXCEPT ![s].node = n, ![s].pc = pc]
        PROVE  IInv'
    <3> DEFINE r == [add[s] EXCEPT !.node = n, !.pc = pc]
    <3>1. r \in AddSession /\ r.key = add[s].key /\ r.user = add[s].user
          /\ r.job = add[s].job /\ r.pc = pc /\ r.node = n
      BY <1>2 DEF AddSession, AddPCs
    <3>2. Shaped(r)
      BY <1>2, <2>1, <3>1 DEF Shaped, ClaimPCs
    <3>3. r.job \in DOMAIN jobs => jobs[r.job].key = r.key
      BY <3>1 DEF IInv, Claiming, SessionsKnowTheirKey
    <3>4. add' = [add EXCEPT ![s] = r]
      BY <2>3
    <3>5. QED
      BY <1>1, <2>1, <3>1, <3>2, <3>3, <3>4, OneSessionMoves
  <2>4. QED
    BY <1>8, <2>2, <2>3 DEF AddSelect
<1>9. QED
  BY <1>4, <1>5, <1>6, <1>7, <1>8

\* CreateDownload, on a job found or on a job just reset.
LEMMA AddLinks ==
  ASSUME IInv, NEW s \in Adders, AddAttach(s) \/ AddRelink(s)
  PROVE  IInv'
<1>1. Tables'
  <2>1. CASE downloads' = downloads
    BY <2>1, Unchanged DEF AddAttach, AddRelink
  <2>2. CASE CanLink(add[s].user, add[s].job)
             /\ \E d \in FreshDls : downloads' = Link(d, add[s].user, add[s].job)
    BY <2>2, LinkKeepsTables DEF AddAttach, AddRelink, FreshDls
  <2>3. QED
    BY <2>1, <2>2 DEF AddAttach, AddRelink
<1>2. AddTyped' /\ Claiming'
  <2>1. Shaped(add[s]) /\ (s \in claims => add[s].pc \in ClaimPCs)
    BY DEF IInv, Typing, SessionsShaped, Claiming, ClaimsAreLive
  <2>2. CASE AddAttach(s)
    BY <2>1, <2>2, EndMoves DEF AddAttach, ClaimPCs
  <2>3. CASE AddRelink(s)
    <3>1. PICK pc \in {"dispatch", "relinkFind"} : GotoAdd(s, pc)
      BY <2>3 DEF AddRelink
    <3>2. pc \in AddPCs /\ pc # "idle" /\ pc \in ClaimPCs
      BY DEF AddPCs, ClaimPCs
    <3>3. add[s].job \in JobIds /\ add[s].node \in Nodes /\ add[s].pc # "idle"
      BY <2>1, <2>3 DEF AddRelink, Shaped, ClaimPCs
    <3>4. QED
      BY <2>3, <3>1, <3>2, <3>3, GotoMoves DEF AddRelink
  <2>4. QED
    BY <2>2, <2>3
<1>3. DelTyped' /\ NodesTyped' /\ HistoryTyped'
  BY Unchanged DEF AddAttach, AddRelink
<1>4. QED
  BY <1>1, <1>2, <1>3, Assemble

\* Add gives its claim up, and the job with it unless it settled the job.
LEMMA SettlingKeepsInvariant ==
  ASSUME IInv, NEW s \in Adders, EndAdd(s), NEW table, Updated(jobs, table),
         NEW dropped \in SUBSET JobIds,
         WriteJobs(table, {s}, dropped), UNCHANGED <<users, downloads, del, stale, nodeVars>>,
         add[s].job \in DOMAIN table =>
            add[s].job \in dropped \/ table[add[s].job].status # "queued"
  PROVE  IInv'
<1>1. Tables'
  BY UpdateKeepsTables DEF Updated, Tamed, WriteJobs
<1>2. \A t \in Adders : add'[t] = IF t = s THEN IdleAdd ELSE add[t]
  BY DEF IInv, Typing, TypeOK, SessionsTyped, EndAdd
<1>3. AddTyped'
  BY <1>2, IdleSession DEF IInv, Typing, TypeOK, SessionsTyped, EndAdd, AddTyped, SessionsShaped
<1>4. claims \subseteq Adders
  BY DEF IInv, Typing, TypeOK, HistoryTyped
<1>5. Claiming'
  BY <1>2, <1>4, WritesKeepClaims DEF Updated
<1>6. QED
  BY <1>1, <1>3, <1>5, HistoryAfterWrite, Unchanged, Assemble

\* The write after the dispatch gives the claim up with the job settled, or
\* with the job abandoned.
LEMMA AddSettles ==
  ASSUME IInv, NEW s \in Adders, AddActivate(s) \/ AddMarkFailed(s)
  PROVE  IInv'
<1>1. add[s].job \in JobIds /\ IsTable(jobs) /\ Updated(jobs, jobs)
  BY JobsAreATable DEF IInv, Typing, SessionsShaped, Shaped, AddActivate, AddMarkFailed, ClaimPCs
<1>2. ASSUME NEW st \in Statuses, st # "queued", NEW e \in BOOLEAN, NEW loc \in {"null", "file"},
             Settle(s, UpdateJobStatus(jobs, add[s].job, st, e, loc))
      PROVE  IInv'
  <2> DEFINE table == UpdateJobStatus(jobs, add[s].job, st, e, loc)
  <2>1. CASE WriteJobs(table, {s}, {})
    <3>1. /\ Updated(jobs, table)
          /\ add[s].job \in DOMAIN jobs => table[add[s].job].status = st
      BY <1>1, <1>2, UpdateJobStatusUpdates
    <3>2. QED
      BY <1>2, <2>1, <3>1, SettlingKeepsInvariant DEF Settle, Updated
  <2>2. CASE WriteJobs(jobs, {s}, {add[s].job})
    BY <1>1, <1>2, <2>2, SettlingKeepsInvariant DEF Settle
  <2>3. QED
    BY <1>2, <2>1, <2>2 DEF Settle
<1>3. QED
  BY <1>2 DEF AddActivate, AddMarkFailed, Statuses

\* The lookup after a failed re-link dispatches or gives the job up.
LEMMA AddRelinkFindKeeps ==
  ASSUME IInv, NEW s \in Adders, AddRelinkFind(s)
  PROVE  IInv'
<1>1. add[s].job \in JobIds /\ add[s].node \in Nodes /\ IsTable(jobs) /\ Updated(jobs, jobs)
  BY JobsAreATable DEF IInv, Typing, SessionsShaped, Shaped, AddRelinkFind, ClaimPCs
<1>2. CASE GotoAdd(s, "dispatch") /\ UNCHANGED <<jobs, claims, abandoned>>
  <2>1. AddTyped' /\ Claiming'
    BY <1>1, <1>2, GotoMoves DEF AddRelinkFind, AddPCs, ClaimPCs
  <2>2. QED
    BY <1>2, <2>1, Unchanged, Assemble DEF AddRelinkFind
<1>3. CASE EndAdd(s) /\ WriteJobs(jobs, {s}, {add[s].job})
  BY <1>1, <1>3, SettlingKeepsInvariant DEF AddRelinkFind
<1>4. QED
  BY <1>2, <1>3 DEF AddRelinkFind

\* The dispatch leaves the claim with the session, whatever the node answers.
LEMMA AddDispatchKeeps ==
  ASSUME IInv, NEW s \in Adders, AddDispatch(s)
  PROVE  IInv'
<1>1. /\ add[s].job \in JobIds /\ add[s].node \in Nodes /\ add[s].key \in Keys
      /\ add[s].pc = "dispatch"
  BY DEF IInv, Typing, SessionsShaped, Shaped, AddDispatch, ClaimPCs
<1>2. GotoAdd(s, "activate") \/ GotoAdd(s, "markFailed")
  BY DEF AddDispatch
<1>3. AddTyped' /\ Claiming'
  BY <1>1, <1>2, GotoMoves DEF AddDispatch, AddPCs, ClaimPCs
<1>4. NodesTyped'
  BY <1>1 DEF AddDispatch, IInv, Typing, TypeOK, NodesTyped
<1>5. QED
  BY <1>3, <1>4, Unchanged, Assemble DEF AddDispatch

\* The session that makes a claim on job j: the rest of it stays as it was.
LEMMA SessionClaims ==
  ASSUME IInv, NEW s \in Adders, NEW j \in JobIds, NEW pc \in ClaimPCs,
         add[s].node \in Nodes, add[s].pc # "idle",
         add' = [add EXCEPT ![s].job = j, ![s].pc = pc]
  PROVE  /\ AddTyped'
         /\ add'[s].job = j /\ add'[s].key = add[s].key /\ add'[s].pc \in ClaimPCs
         /\ \A t \in Adders : t # s => add'[t] = add[t]
<1> DEFINE r == [add[s] EXCEPT !.job = j, !.pc = pc]
<1>1. /\ add \in [Adders -> AddSession]
      /\ Shaped(add[s])
  BY DEF IInv, Typing, TypeOK, SessionsTyped, SessionsShaped
<1>2. r \in AddSession /\ r.job = j /\ r.key = add[s].key /\ r.pc = pc
      /\ r.node = add[s].node /\ r.user = add[s].user
  BY <1>1 DEF AddSession, AddPCs, ClaimPCs
<1>3. \A t \in Adders : add'[t] = IF t = s THEN r ELSE add[t]
  BY <1>1
<1>4. Shaped(r)
  BY <1>1, <1>2 DEF Shaped
<1>5. add' \in [Adders -> AddSession]
  BY <1>1, <1>2
<1>6. AddTyped'
  BY <1>3, <1>4, <1>5 DEF AddTyped, SessionsShaped, IInv, Typing
<1>7. QED
  BY <1>2, <1>3, <1>6

\* What a new claim needs: its job is queued, and nobody else claims it.
LEMMA ClaimingKeepsClaims ==
  ASSUME IInv, NEW s \in Adders, s \notin claims, NEW j \in JobIds,
         DOMAIN jobs' = DOMAIN jobs \cup {j},
         \A i \in DOMAIN jobs : i # j => jobs'[i] = jobs[i] /\ jobs[i].key # add[s].key,
         jobs'[j].key = add[s].key, jobs'[j].status = "queued",
         j \in DOMAIN jobs => jobs[j].status \in Resettable,
         add'[s].job = j, add'[s].key = add[s].key, add'[s].pc \in ClaimPCs,
         \A t \in Adders : t # s => add'[t] = add[t],
         \A t \in Adders : t # s /\ add[t].job = j => add[t].key = add[s].key,
         claims' = claims \cup {s}, UNCHANGED abandoned
  PROVE  Claiming' /\ HistoryTyped'
<1>1. claims \subseteq Adders /\ abandoned \subseteq JobIds
  BY DEF IInv, Typing, TypeOK, HistoryTyped
<1>2. HistoryTyped'
  BY <1>1 DEF HistoryTyped
<1>3. \A t \in claims : /\ t # s /\ add[t].pc \in ClaimPCs /\ add[t].job \in DOMAIN jobs
                        /\ jobs[add[t].job].status \in Attachable /\ add[t].job # j
  BY DEF IInv, Claiming, ClaimsAreLive, Attachable, Resettable
<1>4. StorageKeysUnique'
  BY DEF StorageKeysUnique, IInv, Claiming
<1>5. SessionsKnowTheirKey'
  <2> SUFFICES ASSUME NEW t \in Adders, add'[t].job \in DOMAIN jobs'
               PROVE  jobs'[add'[t].job].key = add'[t].key
    BY DEF SessionsKnowTheirKey
  <2>1. CASE add'[t].job = j
    BY <2>1
  <2>2. CASE add'[t].job # j
    BY <2>2 DEF SessionsKnowTheirKey, IInv, Claiming
  <2>3. QED
    BY <2>1, <2>2
<1>6. ClaimsAreLive'
  BY <1>1, <1>3 DEF ClaimsAreLive, Attachable
<1>7. OneClaimPerJob'
  BY <1>1, <1>3 DEF OneClaimPerJob, IInv, Claiming
<1>8. QueuedHasDispatcher'
  <2> SUFFICES ASSUME NEW i \in DOMAIN jobs', jobs'[i].status = "queued", i \notin abandoned
               PROVE  \E t \in claims' : add'[t].job = i
    BY DEF QueuedHasDispatcher
  <2>1. CASE i = j
    BY <2>1
  <2>2. CASE i # j
    <3>1. PICK t \in claims : add[t].job = i
      BY <2>2 DEF QueuedHasDispatcher, IInv, Claiming
    <3>2. QED
      BY <1>1, <1>3, <3>1
  <2>3. QED
    BY <2>1, <2>2
<1>9. QED
  BY <1>2, <1>4, <1>5, <1>6, <1>7, <1>8 DEF Claiming

\* ResetJob makes a claim on a job nobody can hold one on.
LEMMA AddResetKeeps ==
  ASSUME IInv, NEW s \in Adders, AddReset(s)
  PROVE  IInv'
<1>1. /\ add[s] \in AddSession /\ add[s].pc = "claim" /\ add[s].node \in Nodes
      /\ s \notin claims /\ IsTable(jobs)
  BY JobsAreATable DEF IInv, Typing, TypeOK, SessionsTyped, SessionsShaped, Shaped,
     AddReset, ClaimPCs, Claiming, ClaimsAreLive
<1>2. CASE GotoAdd(s, "create") /\ UNCHANGED <<jobs, claims, abandoned>>
  <2>1. AddTyped' /\ Claiming'
    BY <1>1, <1>2, GotoMoves DEF AddPCs, ClaimPCs
  <2>2. QED
    BY <1>2, <2>1, Unchanged, Assemble DEF AddReset
<1>3. CASE /\ CanReset(jobs, add[s].job)
           /\ jobs' = ResetJob(jobs, add[s].job, add[s].node)
           /\ claims' = claims \cup {s}
           /\ UNCHANGED abandoned
           /\ GotoAdd(s, "relink")
  <2> DEFINE j == add[s].job
  <2>1. j \in DOMAIN jobs /\ j \in JobIds /\ jobs[j].status \in Resettable
        /\ jobs[j].key = add[s].key
    BY <1>1, <1>3 DEF CanReset, IsTable, IInv, Claiming, SessionsKnowTheirKey
  <2>2. /\ IsTable(jobs')
        /\ jobs'[j].key = jobs[j].key
        /\ jobs'[j].status = "queued"
        /\ \A i \in DOMAIN jobs \ {j} : jobs'[i] = jobs[i]
        /\ DOMAIN jobs' = DOMAIN jobs
    BY <1>1, <1>3, <2>1, ResetJobRows
  <2>3. add' = [add EXCEPT ![s].job = j, ![s].pc = "relink"]
    <3>1. [add[s] EXCEPT !.pc = "relink"] = [add[s] EXCEPT !.job = j, !.pc = "relink"]
      BY <1>1 DEF AddSession
    <3>2. QED
      BY <1>3, <3>1 DEF GotoAdd
  <2>4. \A i \in DOMAIN jobs : i # j => jobs'[i] = jobs[i] /\ jobs[i].key # add[s].key
    BY <2>1, <2>2 DEF IInv, Claiming, StorageKeysUnique
  <2>5. \A t \in Adders : t # s /\ add[t].job = j => add[t].key = add[s].key
    BY <2>1 DEF IInv, Claiming, SessionsKnowTheirKey
  <2>6. AddTyped' /\ Claiming' /\ HistoryTyped'
    <3>1. DOMAIN jobs' = DOMAIN jobs \cup {j} /\ "relink" \in ClaimPCs /\ add[s].pc # "idle"
      BY <1>1, <2>1, <2>2 DEF ClaimPCs
    <3>2. /\ AddTyped'
          /\ add'[s].job = j /\ add'[s].key = add[s].key /\ add'[s].pc \in ClaimPCs
          /\ \A t \in Adders : t # s => add'[t] = add[t]
      BY <1>1, <2>1, <2>3, <3>1, SessionClaims
    <3>3. QED
      BY <1>1, <1>3, <2>1, <2>2, <2>4, <2>5, <3>1, <3>2, ClaimingKeepsClaims
  <2>7. Tables'
    BY <2>2, UpdateKeepsTables DEF AddReset
  <2>8. QED
    BY <2>6, <2>7, Unchanged, Assemble DEF AddReset
<1>4. QED
  BY <1>2, <1>3 DEF AddReset

\* CreateJob makes a claim on a job nobody has heard of.
LEMMA AddCreateKeeps ==
  ASSUME IInv, NEW s \in Adders, AddCreate(s)
  PROVE  IInv'
<1>1. /\ add[s] \in AddSession /\ add[s].pc = "create" /\ add[s].node \in Nodes
      /\ add[s].key \in Keys /\ s \notin claims /\ IsTable(jobs)
  BY JobsAreATable DEF IInv, Typing, TypeOK, SessionsTyped, SessionsShaped, Shaped,
     AddCreate, ClaimPCs, Claiming, ClaimsAreLive
<1>2. CASE EndAdd(s) /\ UNCHANGED <<jobs, downloads, claims, abandoned>>
  <2>1. AddTyped' /\ Claiming'
    BY <1>1, <1>2, EndMoves
  <2>2. QED
    BY <1>2, <2>1, Unchanged, Assemble DEF AddCreate
<1>3. ASSUME RowsWithKey(jobs, add[s].key) = {}, add[s].user \in users,
             NEW j \in FreshJobs, NEW d \in FreshDls,
             jobs' = CreateJob(jobs, j, add[s].key, add[s].node),
             downloads' = Link(d, add[s].user, j),
             \/ /\ add' = [add EXCEPT ![s].job = j, ![s].pc = "dispatch"]
                /\ claims' = claims \cup {s}
                /\ UNCHANGED abandoned
             \/ /\ Faults
                /\ EndAdd(s)
                /\ abandoned' = abandoned \cup {j}
                /\ UNCHANGED claims
      PROVE  IInv'
  <2>1. /\ j \in JobIds \ DOMAIN jobs /\ d \in DlIds
        /\ \A t \in Adders : add[t].job # j
    BY DEF FreshJobs, FreshDls
  <2>2. /\ IsTable(jobs') /\ DOMAIN jobs' = DOMAIN jobs \cup {j}
        /\ jobs'[j].key = add[s].key /\ jobs'[j].status = "queued"
        /\ \A i \in DOMAIN jobs : jobs'[i] = jobs[i]
    <3> DEFINE table == CreateJob(jobs, j, add[s].key, add[s].node)
    <3>1. /\ IsTable(table) /\ DOMAIN table = DOMAIN jobs \cup {j}
          /\ table[j].key = add[s].key /\ table[j].status = "queued"
          /\ \A i \in DOMAIN jobs : table[i] = jobs[i]
      BY <1>1, <2>1, CreateJobRows
    <3> HIDE DEF table
    <3>2. jobs' = table
      BY <1>3 DEF table
    <3>3. QED
      BY <3>1, <3>2
  <2>3. \A i \in DOMAIN jobs : i # j /\ jobs'[i] = jobs[i] /\ jobs[i].key # add[s].key
    BY <1>3, <2>1, <2>2 DEF RowsWithKey
  <2>4. Tables'
    <3>1. /\ downloads \in [DOMAIN downloads -> [user: Users, job: JobIds]]
          /\ DOMAIN downloads \subseteq DlIds /\ users \subseteq Users
          /\ \A e \in DOMAIN downloads : downloads[e].job \in DOMAIN jobs
          /\ users' = users
      BY DEF IInv, Typing, TypeOK, TablesTyped, ForeignKeys, AddCreate
    <3>2. [user |-> add[s].user, job |-> j] \in [user: Users, job: JobIds]
      BY <1>3, <2>1, <3>1
    <3>3. /\ DOMAIN downloads' = DOMAIN downloads \cup {d}
          /\ \A e \in DOMAIN downloads' :
                downloads'[e] = IF e = d THEN [user |-> add[s].user, job |-> j] ELSE downloads[e]
      BY <1>3 DEF Link
    <3>4. downloads' \in [DOMAIN downloads' -> [user: Users, job: JobIds]]
      BY <1>3, <3>1, <3>2 DEF Link
    <3>5. ForeignKeys'
      BY <2>2, <3>1, <3>3 DEF ForeignKeys
    <3>6. QED
      BY <2>1, <2>2, <3>1, <3>3, <3>4, <3>5 DEF Tables, TablesTyped, IsTable
  <2>5. AddTyped' /\ Claiming' /\ HistoryTyped'
    <3>1. CASE /\ add' = [add EXCEPT ![s].job = j, ![s].pc = "dispatch"]
               /\ claims' = claims \cup {s}
               /\ UNCHANGED abandoned
      <4>1. "dispatch" \in ClaimPCs /\ add[s].pc # "idle"
        BY <1>1 DEF ClaimPCs
      <4>2. /\ AddTyped'
            /\ add'[s].job = j /\ add'[s].key = add[s].key /\ add'[s].pc \in ClaimPCs
            /\ \A t \in Adders : t # s => add'[t] = add[t]
        BY <1>1, <2>1, <3>1, <4>1, SessionClaims
      <4>3. j \notin DOMAIN jobs
        BY <2>1
      <4>4. /\ DOMAIN jobs' = DOMAIN jobs \cup {j}
            /\ jobs'[j].key = add[s].key /\ jobs'[j].status = "queued"
            /\ \A i \in DOMAIN jobs : i # j => jobs'[i] = jobs[i] /\ jobs[i].key # add[s].key
        BY <2>2, <2>3
      <4>5. /\ s \notin claims /\ j \in JobIds
            /\ \A t \in Adders : t # s /\ add[t].job = j => add[t].key = add[s].key
        BY <1>1, <2>1
      <4>6. Claiming' /\ HistoryTyped'
        BY <3>1, <4>2, <4>3, <4>4, <4>5, ClaimingKeepsClaims
      <4>7. QED
        BY <4>2, <4>6
    <3>2. CASE EndAdd(s) /\ abandoned' = abandoned \cup {j} /\ UNCHANGED claims
      <4>1. \A t \in Adders : add'[t] = IF t = s THEN IdleAdd ELSE add[t]
        BY <3>2 DEF IInv, Typing, TypeOK, SessionsTyped, EndAdd
      <4>2. AddTyped'
        BY <3>2, <4>1, IdleSession DEF IInv, Typing, TypeOK, SessionsTyped, EndAdd, AddTyped,
           SessionsShaped
      <4>3. HistoryTyped'
        BY <2>1, <3>2 DEF HistoryTyped, IInv, Typing, TypeOK
      <4>4. \A t \in claims : t \in Adders /\ t # s /\ add'[t] = add[t]
        BY <1>1, <4>1 DEF IInv, Typing, TypeOK, HistoryTyped
      <4>5. \A t \in Adders : add'[t].job # j /\ (add'[t] = add[t] \/ add'[t].job \notin JobIds)
        BY <2>1, <4>1, IdleSession
      <4>6. StorageKeysUnique'
        BY <2>2, <2>3 DEF StorageKeysUnique, IInv, Claiming
      <4>7. SessionsKnowTheirKey'
        BY <2>2, <2>3, <4>5 DEF SessionsKnowTheirKey, IInv, Claiming, IsTable
      <4>8. ClaimsAreLive'
        BY <2>2, <2>3, <3>2, <4>4 DEF ClaimsAreLive, IInv, Claiming
      <4>9. OneClaimPerJob'
        BY <3>2, <4>4 DEF OneClaimPerJob, IInv, Claiming
      <4>10. QueuedHasDispatcher'
        BY <2>2, <2>3, <3>2, <4>4 DEF QueuedHasDispatcher, IInv, Claiming
      <4>11. QED
        BY <4>2, <4>3, <4>6, <4>7, <4>8, <4>9, <4>10 DEF Claiming
    <3>3. QED
      BY <1>3, <3>1, <3>2
  <2>6. QED
    BY <2>4, <2>5, Unchanged, Assemble DEF AddCreate
<1>4. QED
  BY <1>2, <1>3 DEF AddCreate

\* Every step of an Add request keeps the invariant.
LEMMA AddStepKeeps ==
  ASSUME IInv, NEW s \in Adders, AddStep(s)
  PROVE  IInv'
BY AddReads, AddLinks, AddSettles, AddRelinkFindKeeps, AddDispatchKeeps, AddResetKeeps,
   AddCreateKeeps DEF AddStep

-----------------------------------------------------------------------------
(***************************************************************************)
(* Delete requests.                                                        *)
(***************************************************************************)
\* The three ways a Delete session goes on.
LEMMA DealtKeepsTypes ==
  ASSUME IInv, NEW d \in Deleters, Dealt(d)
  PROVE  DelTyped'
<1>1. del[d] \in DelSession /\ del \in [Deleters -> DelSession]
  BY DEF IInv, Typing, TypeOK, SessionsTyped
<1>2. IdleDel \in DelSession
  BY DEF IdleDel, DelSession, DelPCs
<1>3. [IdleDel EXCEPT !.pc = "next", !.user = del[d].user, !.purge = TRUE, !.todo = del[d].todo]
        \in DelSession
  BY <1>1 DEF IdleDel, DelSession, DelPCs
<1>4. QED
  BY <1>1, <1>2, <1>3 DEF Dealt, DelTyped

\* What a Delete request remembers of the job it read is well typed.
LEMMA TargetTyped ==
  ASSUME IInv, NEW session \in DelSession, NEW j \in DOMAIN jobs
  PROVE  [Target(session, j) EXCEPT !.pc = "deleteJob"] \in DelSession
<1>1. jobs[j] \in Row /\ j \in JobIds
  BY DEF IInv, Typing, TypeOK, TablesTyped
<1>2. jobs[j].key \in Keys /\ jobs[j].node \in Nodes \cup {NoNode}
  BY <1>1 DEF Row
<1>3. (jobs[j].engineJob /\ jobs[j].status \in Unfinished) \in BOOLEAN
  OBVIOUS
<1>4. QED
  BY <1>1, <1>2, <1>3 DEF Target, DelSession, DelPCs

\* Every step of a Delete request keeps its session typed.
LEMMA DelStepTyped ==
  ASSUME IInv, NEW d \in Deleters, DelStep(d)
  PROVE  DelTyped'
<1>1. /\ del \in [Deleters -> DelSession] /\ del[d] \in DelSession
      /\ users \subseteq Users /\ DOMAIN downloads \subseteq DlIds
      /\ downloads \in [DOMAIN downloads -> [user: Users, job: JobIds]]
      /\ \A e \in DOMAIN downloads : downloads[e].job \in DOMAIN jobs
  BY DEF IInv, Typing, TypeOK, TablesTyped, SessionsTyped, ForeignKeys
<1>2. IdleDel \in DelSession
  BY DEF IdleDel, DelSession, DelPCs
<1>3. ASSUME NEW session \in DelSession, del' = [del EXCEPT ![d] = session]
      PROVE  DelTyped'
  BY <1>1, <1>3 DEF DelTyped
<1>4. ASSUME NEW pc \in DelPCs, del' = [del EXCEPT ![d].pc = pc]
      PROVE  DelTyped'
  <2>1. [del[d] EXCEPT !.pc = pc] \in DelSession
    BY <1>1 DEF DelSession
  <2>2. QED
    BY <1>3, <1>4, <2>1
<1>5. CASE DelBegin(d)
  <2>1. PICK e \in DOMAIN downloads :
           LET session == [IdleDel EXCEPT !.user = downloads[e].user, !.dl = e]
           IN del' = [del EXCEPT ![d] =
                        IF IsLast(e)
                        THEN [Target(session, downloads[e].job) EXCEPT !.pc = "deleteJob"]
                        ELSE [session EXCEPT !.pc = "unlink"]]
    BY <1>5 DEF DelBegin
  <2> DEFINE session == [IdleDel EXCEPT !.user = downloads[e].user, !.dl = e]
  <2>2. session \in DelSession
    BY <1>1, <1>2 DEF IdleDel, DelSession
  <2>3. [session EXCEPT !.pc = "unlink"] \in DelSession
    BY <2>2 DEF DelSession, DelPCs
  <2>4. [Target(session, downloads[e].job) EXCEPT !.pc = "deleteJob"] \in DelSession
    BY <1>1, <2>2, TargetTyped
  <2> HIDE DEF session
  <2>5. del' = [del EXCEPT ![d] = IF IsLast(e)
                                  THEN [Target(session, downloads[e].job) EXCEPT !.pc = "deleteJob"]
                                  ELSE [session EXCEPT !.pc = "unlink"]]
    BY <2>1 DEF session
  <2>6. QED
    BY <1>3, <2>3, <2>4, <2>5
<1>6. CASE PurgeBegin(d)
  <2>1. PICK u \in users : 
           LET mine == {e \in DOMAIN downloads : downloads[e].user = u}
           IN del' = [del EXCEPT ![d] =
                      [IdleDel EXCEPT !.pc = "next", !.user = u, !.purge = TRUE,
                         !.todo = {[dl |-> e, job |-> downloads[e].job,
                                    last |-> IsLast(e)] : e \in mine}]]
    BY <1>6 DEF PurgeBegin
  <2> DEFINE todo == {[dl |-> e, job |-> downloads[e].job, last |-> IsLast(e)] :
                        e \in {e \in DOMAIN downloads : downloads[e].user = u}}
  <2>2. todo \subseteq [dl: DlIds, job: JobIds, last: BOOLEAN]
    <3>1. \A e \in DOMAIN downloads : IsLast(e) \in BOOLEAN
      BY DEF IsLast
    <3>2. \A e \in DOMAIN downloads : e \in DlIds /\ downloads[e].job \in JobIds
      BY <1>1
    <3>3. QED
      BY <3>1, <3>2
  <2> HIDE DEF todo
  <2>3. [IdleDel EXCEPT !.pc = "next", !.user = u, !.purge = TRUE, !.todo = todo] \in DelSession
    BY <1>1, <2>2 DEF IdleDel, DelSession, DelPCs
  <2>4. del' = [del EXCEPT ![d] = [IdleDel EXCEPT !.pc = "next", !.user = u, !.purge = TRUE,
                                                  !.todo = todo]]
    BY <2>1 DEF todo
  <2>5. QED
    BY <1>3, <2>3, <2>4
<1>7. CASE PurgeNext(d)
  <2>1. PICK t \in del[d].todo :
           del' = [del EXCEPT ![d].dl = t.dl, ![d].job = t.job, ![d].todo = @ \ {t},
                              ![d].pc = IF t.last THEN "getJob" ELSE "unlink"]
    BY <1>7 DEF PurgeNext
  <2>2. /\ t.dl \in DlIds /\ t.job \in JobIds
        /\ del[d].todo \ {t} \subseteq [dl: DlIds, job: JobIds, last: BOOLEAN]
    BY <1>1 DEF DelSession
  <2>3. [del[d] EXCEPT !.dl = t.dl, !.job = t.job, !.todo = @ \ {t},
                       !.pc = IF t.last THEN "getJob" ELSE "unlink"] \in DelSession
    BY <1>1, <2>2 DEF DelSession, DelPCs
  <2>4. QED
    BY <1>3, <2>1, <2>3
<1>8. CASE PurgeGetJob(d)
  <2>1. CASE Dealt(d)
    BY <2>1, DealtKeepsTypes
  <2>2. CASE /\ del[d].job \in DOMAIN jobs
             /\ del' = [del EXCEPT ![d] = [Target(del[d], del[d].job) EXCEPT !.pc = "deleteJob"]]
    BY <1>1, <1>3, <2>2, TargetTyped
  <2>3. QED
    BY <1>8, <2>1, <2>2 DEF PurgeGetJob
<1>9. CASE DelJob(d)
  <2>1. CASE Dealt(d)
    BY <2>1, DealtKeepsTypes
  <2>2. CASE \E pc \in {"cancel", "remove"} : del' = [del EXCEPT ![d].pc = pc]
    BY <1>4, <2>2 DEF DelPCs
  <2>3. QED
    BY <1>9, <2>1, <2>2 DEF DelJob
<1>10. CASE DelCancel(d)
  BY <1>4, <1>10 DEF DelCancel, DelPCs
<1>11. CASE DelRemove(d) \/ DelUnlink(d)
  BY <1>11, DealtKeepsTypes DEF DelRemove, DelUnlink
<1>12. CASE PurgeUser(d)
  BY <1>2, <1>3, <1>12 DEF PurgeUser
<1>13. QED
  BY <1>5, <1>6, <1>7, <1>8, <1>9, <1>10, <1>11, <1>12 DEF DelStep

\* Every step of a Delete request keeps the invariant.
LEMMA DelStepKeeps ==
  ASSUME IInv, NEW d \in Deleters, DelStep(d)
  PROVE  IInv'
<1>1. DelTyped'
  BY DelStepTyped
<1>2. CASE DelBegin(d) \/ PurgeBegin(d) \/ PurgeNext(d) \/ PurgeGetJob(d)
  BY <1>1, <1>2, Unchanged, Assemble DEF DelBegin, PurgeBegin, PurgeNext, PurgeGetJob
<1>3. CASE DelJob(d)
  <2>1. CASE UNCHANGED <<jobs, downloads, claims, abandoned>>
    BY <1>1, <1>3, <2>1, Unchanged, Assemble DEF DelJob
  <2>2. CASE /\ WriteJobs(DeleteJob(jobs, del[d].job), {}, {})
             /\ downloads' = Unlink(DownloadsOf(del[d].job))
    <3> DEFINE table == DeleteJob(jobs, del[d].job)
    <3>1. Tamed(jobs, table)
      BY JobsAreATable, DeleteJobIsTame
    <3>2. Tables'
      BY <1>3, <2>2 DEF DelJob, WriteJobs, DeleteJob, Unlink, DownloadsOf, Tables, TablesTyped,
         ForeignKeys, IInv, Typing, TypeOK
    <3>3. Claiming' /\ HistoryTyped'
      BY <1>3, <2>2, <3>1, WritesKeepClaims, HistoryAfterWrite DEF DelJob
    <3>4. QED
      BY <1>1, <1>3, <3>2, <3>3, Unchanged, Assemble DEF DelJob
  <2>3. QED
    BY <1>3, <2>1, <2>2 DEF DelJob
<1>4. CASE DelCancel(d)
  <2>1. NodesTyped'
    BY <1>4 DEF DelCancel, NodesTyped, IInv, Typing, TypeOK
  <2>2. QED
    BY <1>1, <1>4, <2>1, Unchanged, Assemble DEF DelCancel
<1>5. CASE DelRemove(d)
  <2>1. NodesTyped'
    BY <1>5 DEF DelRemove, NodesTyped, IInv, Typing, TypeOK
  <2>2. QED
    BY <1>1, <1>5, <2>1, Unchanged, Assemble DEF DelRemove
<1>6. CASE DelUnlink(d) \/ PurgeUser(d)
  <2>1. Tables'
    <3>1. CASE UNCHANGED <<users, downloads>>
      BY <1>6, <3>1, Unchanged DEF DelUnlink, PurgeUser
    <3>2. CASE users' \subseteq users /\ \E gone : downloads' = Unlink(gone)
      BY <1>6, <3>2, UnlinkKeepsTables DEF DelUnlink, PurgeUser
    <3>3. QED
      BY <1>6, <3>1, <3>2 DEF DelUnlink, PurgeUser
  <2>2. QED
    BY <1>1, <1>6, <2>1, Unchanged, Assemble DEF DelUnlink, PurgeUser
<1>7. QED
  BY <1>2, <1>3, <1>4, <1>5, <1>6 DEF DelStep

-----------------------------------------------------------------------------
(***************************************************************************)
(* Background work, status reports and crashes.                            *)
(***************************************************************************)
\* The sweep, the restore and the status reports of one node.
LEMMA NodeStepKeeps ==
  ASSUME IInv, NEW n \in Nodes, NodeStep(n)
  PROVE  IInv'
<1>1. /\ push \in [Nodes -> Push] /\ push[n] \in Push /\ tracker \in [Nodes -> SUBSET JobIds]
      /\ stale \subseteq JobIds /\ swept \subseteq Nodes /\ files \subseteq Nodes \X Keys
      /\ IsTable(jobs) /\ Updated(jobs, jobs) /\ UploadPending \in BOOLEAN
  BY JobsAreATable, DownloadServiceAssumption DEF IInv, Typing, TypeOK, NodesTyped
<1>2. NodesTyped'
  <2>1. CASE SweepUnfinished(n) \/ SweepCompleted(n)
    BY <1>1, <2>1 DEF SweepUnfinished, SweepCompleted, TryWriteJobs, NodesTyped
  <2>2. CASE RestoreNode(n)
    BY <2>2, Unchanged DEF RestoreNode
  <2>3. ASSUME NEW p \in Push, push' = [push EXCEPT ![n] = p],
               UNCHANGED <<stale, swept>>, tracker' \in [Nodes -> SUBSET JobIds],
               files' \subseteq files
        PROVE  NodesTyped'
    BY <1>1, <2>3 DEF NodesTyped
  <2>4. CASE NodePoll(n)
    <3>1. PICK run \in SUBSET tracker[n], done \in SUBSET tracker[n], bad \in SUBSET tracker[n] :
             /\ tracker' = [tracker EXCEPT ![n] = @ \ (done \cup bad)]
             /\ push' = [push EXCEPT ![n].at = "progress", ![n].prog = run,
                                     ![n].done = @ \cup done, ![n].bad = @ \cup bad]
      BY <2>4 DEF NodePoll
    <3>2. [push[n] EXCEPT !.at = "progress", !.prog = run, !.done = @ \cup done, !.bad = @ \cup bad]
            \in Push
      BY <1>1 DEF Push, PushStages
    <3>3. tracker' \in [Nodes -> SUBSET JobIds]
      BY <1>1, <3>1
    <3>4. UNCHANGED <<stale, swept, files>>
      BY <2>4 DEF NodePoll
    <3>5. QED
      BY <2>3, <3>1, <3>2, <3>3, <3>4
  <2>5. CASE PushLost(n)
    <3>1. [push[n] EXCEPT !.at = "poll", !.prog = {}] \in Push
      BY <1>1 DEF Push, PushStages
    <3>2. QED
      BY <1>1, <2>3, <2>5, <3>1 DEF PushLost
  <2>6. CASE \E from, to \in PushStages : PushStep(n, from, to)
    <3>1. PICK from \in PushStages, to \in PushStages : PushStep(n, from, to)
      BY <2>6
    <3>2. [push[n] EXCEPT !.at = to, !.prog = {}] \in Push
      BY <1>1 DEF Push
    <3>3. QED
      BY <1>1, <2>3, <3>1, <3>2 DEF PushStep
  <2>7. CASE PushFail(n)
    <3>1. PICK keys \in SUBSET Keys :
             \/ push' = [push EXCEPT ![n].at = "remove", ![n].doomed = keys]
             \/ push' = [push EXCEPT ![n].at = "remove"]
      <4>1. {jobs[j].key : j \in push[n].bad \cap DOMAIN jobs} \subseteq Keys
        BY <1>1 DEF IsTable, Row
      <4>2. QED
        BY <2>7, <4>1 DEF PushFail
    <3>2. /\ [push[n] EXCEPT !.at = "remove", !.doomed = keys] \in Push
          /\ [push[n] EXCEPT !.at = "remove"] \in Push
      BY <1>1 DEF Push, PushStages
    <3>3. QED
      BY <1>1, <2>3, <2>7, <3>1, <3>2 DEF PushFail
  <2>8. CASE PushRemove(n)
    <3>1. PICK k \in push[n].doomed : push' = [push EXCEPT ![n].doomed = @ \ {k}]
      BY <2>8 DEF PushRemove
    <3>2. [push[n] EXCEPT !.doomed = @ \ {k}] \in Push
      BY <1>1 DEF Push
    <3>3. QED
      BY <1>1, <2>3, <2>8, <3>1, <3>2 DEF PushRemove
  <2>9. CASE PushEnd(n)
    <3>1. IdlePush \in Push /\ [push[n] EXCEPT !.at = "poll"] \in Push
      BY <1>1 DEF IdlePush, Push, PushStages
    <3>2. QED
      BY <1>1, <2>3, <2>9, <3>1 DEF PushEnd
  <2>10. QED
    BY <2>1, <2>2, <2>4, <2>5, <2>6, <2>7, <2>8, <2>9
       DEF NodeStep, PushProgress, PushComplete, PushStages
<1>3. ASSUME NEW table, Updated(jobs, table), WriteJobs(table, {}, {}),
             UNCHANGED <<users, downloads, add, del>>
      PROVE  IInv'
  BY <1>2, <1>3, UpdateKeepsInvariant, Unchanged, Assemble
<1>4. CASE SweepUnfinished(n)
  BY <1>1, <1>3, <1>4, StatementsUpdate DEF SweepUnfinished, TryWriteJobs
<1>5. CASE SweepCompleted(n)
  BY <1>1, <1>3, <1>5, StatementsUpdate DEF SweepCompleted, TryWriteJobs
<1>6. CASE RestoreNode(n)
  BY <1>1, <1>3, <1>6, StatementsUpdate DEF RestoreNode
<1>7. CASE PushProgress(n)
  BY <1>1, <1>3, <1>7, StatementsUpdate DEF PushProgress, PushStep, TryWriteJobs
<1>8. CASE PushComplete(n)
  BY <1>1, <1>3, <1>8, StatementsUpdate DEF PushComplete, PushStep, TryWriteJobs
<1>9. CASE PushFail(n)
  BY <1>1, <1>3, <1>9, StatementsUpdate DEF PushFail
<1>10. CASE NodePoll(n) \/ PushLost(n) \/ PushRemove(n) \/ PushEnd(n)
  BY <1>2, <1>10, Unchanged, Assemble DEF NodePoll, PushLost, PushRemove, PushEnd
<1>11. QED
  BY <1>4, <1>5, <1>6, <1>7, <1>8, <1>9, <1>10 DEF NodeStep

\* The stale-job reconciler.
LEMMA ReconcilerKeeps ==
  ASSUME IInv, ReconcileList \/ \E j \in JobIds : ReconcileStep(j)
  PROVE  IInv'
<1>1. NodesTyped'
  BY DEF IInv, Typing, TypeOK, NodesTyped, TablesTyped, nodeVars, StaleRows, ReconcileList,
         ReconcileStep, Silence, ReconcileFail, ReconcileFailLost
<1>2. CASE ReconcileList \/ \E j \in JobIds : ReconcileFailLost(j)
  BY <1>1, <1>2, Unchanged, Assemble DEF ReconcileList, ReconcileFailLost
<1>3. ASSUME NEW j \in JobIds, Silence(j) \/ ReconcileFail(j)
      PROVE  IInv'
  <2>1. PICK table \in {Elapse(jobs, j), FailJob(jobs, j)} : WriteJobs(table, {}, {})
    BY <1>3 DEF Silence, ReconcileFail
  <2>2. Updated(jobs, table)
    BY JobsAreATable, StatementsUpdate
  <2>3. QED
    BY <1>1, <1>3, <2>1, <2>2, UpdateKeepsInvariant, Unchanged, Assemble
       DEF Silence, ReconcileFail
<1>4. QED
  BY <1>2, <1>3 DEF ReconcileStep

\* A crash of the controller gives every claim up.
LEMMA CrashKeeps ==
  ASSUME IInv, ControllerCrash
  PROVE  IInv'
<1>1. Tables'
  BY Unchanged DEF ControllerCrash
<1>2. AddTyped'
  BY IdleSession DEF ControllerCrash, AddTyped, SessionsShaped
<1>3. DelTyped'
  BY DEF ControllerCrash, DelTyped, IdleDel, DelSession, DelPCs
<1>4. NodesTyped' /\ HistoryTyped'
  BY DEF ControllerCrash, NodesTyped, HistoryTyped, IInv, Typing, TypeOK, TablesTyped
<1>5. Claiming'
  <2>1. DOMAIN jobs \subseteq JobIds
    BY DEF IInv, Typing, TypeOK, TablesTyped
  <2>2. QED
    BY <2>1, IdleSession DEF ControllerCrash, IInv, Claiming, StorageKeysUnique,
       SessionsKnowTheirKey, ClaimsAreLive, OneClaimPerJob, QueuedHasDispatcher
<1>6. QED
  BY <1>1, <1>2, <1>3, <1>4, <1>5, Assemble

-----------------------------------------------------------------------------
(***************************************************************************)
(* The theorems.                                                           *)
(***************************************************************************)
\* The empty database satisfies the invariant.
LEMMA InitEstablishes == Init => IInv
<1> SUFFICES ASSUME Init PROVE IInv
  OBVIOUS
<1>1. TablesTyped /\ ForeignKeys /\ NodesTyped /\ HistoryTyped
  BY DEF Init, TablesTyped, ForeignKeys, NodesTyped, HistoryTyped, IdlePush, Push, PushStages
<1>2. SessionsTyped /\ SessionsShaped
  BY IdleSession DEF Init, SessionsTyped, SessionsShaped, IdleDel, DelSession, DelPCs
<1>3. Claiming
  BY IdleSession DEF Init, Claiming, StorageKeysUnique, SessionsKnowTheirKey, ClaimsAreLive,
     OneClaimPerJob, QueuedHasDispatcher
<1>4. QED
  BY <1>1, <1>2, <1>3 DEF IInv, Typing, TypeOK

\* Every step keeps the invariant.
LEMMA NextKeeps == IInv /\ [Next]_vars => IInv'
<1> SUFFICES ASSUME IInv, [Next]_vars PROVE IInv'
  OBVIOUS
<1>1. CASE Next
  BY <1>1, AddStepKeeps, DelStepKeeps, NodeStepKeeps, ReconcilerKeeps, CrashKeeps DEF Next
<1>2. CASE UNCHANGED vars
  BY <1>2, Unchanged, Assemble DEF vars, nodeVars
<1>3. QED
  BY <1>1, <1>2

\* IInv is an invariant: the three lemmas above put together.
THEOREM Invariance == Spec => []IInv
BY InitEstablishes, NextKeeps, PTL DEF Spec

\* Every table, session and report keeps its type: no statement leaves a
\* column outside its CHECK, no session goes on with an unset job or node.
THEOREM TypeCorrect == Spec => []TypeOK
<1>1. IInv => TypeOK
  BY DEF IInv, Typing
<1>2. QED
  BY <1>1, Invariance, PTL

\* Two claims on one key are claims on one job, hence one claim.
LEMMA OneClaimFollows == IInv => OneClaimPerKey
<1> SUFFICES ASSUME IInv, NEW s \in claims, NEW t \in claims, add[s].key = add[t].key
             PROVE  s = t
  BY DEF OneClaimPerKey
<1>1. /\ s \in Adders /\ t \in Adders
      /\ add[s].job \in DOMAIN jobs /\ add[t].job \in DOMAIN jobs
  BY DEF IInv, Typing, TypeOK, HistoryTyped, Claiming, ClaimsAreLive
<1>2. jobs[add[s].job].key = jobs[add[t].job].key
  BY <1>1 DEF IInv, Claiming, SessionsKnowTheirKey
<1>3. QED
  BY <1>1, <1>2 DEF IInv, Claiming, StorageKeysUnique, OneClaimPerJob

\* However many Add and Retry requests race for the same content, and
\* whatever fails, at most one of them is entitled to start it.
THEOREM ClaimExclusion == Spec => []OneClaimPerKey
BY OneClaimFollows, Invariance, PTL

\* A queued job has a request that will settle it, or was given up knowingly.
THEOREM NoQueuedJobForgotten == Spec => []QueuedHasDispatcher
<1>1. IInv => QueuedHasDispatcher
  BY DEF IInv, Claiming
<1>2. QED
  BY <1>1, Invariance, PTL

-----------------------------------------------------------------------------
(***************************************************************************)
(* Claims are leases.                                                      *)
(***************************************************************************)
Holders(k) == {s \in claims : add[s].key = k}

\* A step that only takes claims away loses leases.
LEMMA FewerClaims ==
  ASSUME IInv, claims' \subseteq claims, \A s \in claims' : add'[s].key = add[s].key
  PROVE  Lease!Next
<1> DEFINE Then(k) == {s \in claims' : add'[s].key = k}
           K == {k \in Keys : Then(k) = {}}
<1>1. \A k \in Keys : Then(k) = IF k \in K THEN {} ELSE Holders(k)
  <2> SUFFICES ASSUME NEW k \in Keys, NEW s \in Then(k)
               PROVE  Then(k) = Holders(k)
    OBVIOUS
  <2>1. Then(k) \subseteq Holders(k)
    BY DEF Holders
  <2>2. \A t \in Holders(k) : t = s
    BY <2>1, OneClaimFollows DEF OneClaimPerKey, Holders
  <2>3. QED
    BY <2>1, <2>2
<1>2. Lease!Lose(K)
  BY <1>1 DEF Lease!Lose, Holders
<1>3. K \in SUBSET Keys
  OBVIOUS
<1> HIDE DEF K
<1>4. QED
  BY <1>2, <1>3 DEF Lease!Next, Lease!Lose

\* A step that makes one claim, on a key nobody has claimed, takes a lease.
LEMMA OneMoreClaim ==
  ASSUME IInv, NEW s \in Adders, add[s].key \in Keys, Holders(add[s].key) = {},
         claims' = claims \cup {s}, \A t \in claims \cup {s} : add'[t].key = add[t].key
  PROVE  Lease!Next
<1> DEFINE k == add[s].key
<1>1. \A c \in Keys : Holders(c)' = IF c = k THEN {s} ELSE Holders(c)
  BY DEF Holders
<1>2. Lease!Take(k, s)
  BY <1>1 DEF Lease!Take, Holders
<1>3. QED
  <2> HIDE DEF k
  <2>1. k \in Keys
    BY DEF k
  <2>2. QED
    BY <1>2, <2>1 DEF Lease!Next, Lease!Take

\* A step of an Add request takes one free lease, or gives leases up.
LEMMA AddStepIsLeaseStep ==
  ASSUME IInv, NEW s \in Adders, AddStep(s)
  PROVE  Lease!Next
<1>1. /\ add \in [Adders -> AddSession] /\ add[s] \in AddSession /\ Shaped(add[s])
      /\ claims \subseteq Adders
      /\ \A t \in claims : /\ add[t].pc \in ClaimPCs /\ add[t].job \in DOMAIN jobs
                           /\ jobs[add[t].job].status \in Attachable
                           /\ jobs[add[t].job].key = add[t].key
  BY DEF IInv, Typing, TypeOK, SessionsTyped, HistoryTyped, SessionsShaped, Claiming, ClaimsAreLive,
         SessionsKnowTheirKey
<1>2. \A t \in Adders : t # s => add'[t] = add[t]
  BY <1>1 DEF AddStep, AddBegin, Retry, AddLookup, AddDedup, AddAttach, AddSelect, AddReset,
     AddRelink, AddRelinkFind, AddCreate, AddDispatch, AddActivate, AddMarkFailed, Settle,
     GotoAdd, EndAdd
<1>3. CASE claims' \subseteq claims /\ s \notin claims'
  BY <1>1, <1>2, <1>3, FewerClaims
<1>4. CASE claims' \subseteq claims /\ \E pc \in AddPCs : GotoAdd(s, pc)
  <2>1. add'[s].key = add[s].key
    BY <1>1, <1>4 DEF GotoAdd, AddSession
  <2>2. QED
    BY <1>1, <1>2, <1>4, <2>1, FewerClaims
<1>5. CASE AddReset(s) /\ claims' # claims
  <2>1. /\ CanReset(jobs, add[s].job) /\ claims' = claims \cup {s} /\ GotoAdd(s, "relink")
        /\ add[s].pc = "claim"
    BY <1>5 DEF AddReset
  <2>2. add'[s].key = add[s].key /\ add[s].key \in Keys
    BY <1>1, <2>1 DEF GotoAdd, AddSession, Shaped
  <2>3. Holders(add[s].key) = {}
    <3>1. jobs[add[s].job].key = add[s].key
      BY <2>1 DEF CanReset, IInv, Claiming, SessionsKnowTheirKey
    <3>2. QED
      BY <1>1, <2>1, <3>1 DEF CanReset, Holders, IInv, Claiming, StorageKeysUnique,
         Attachable, Resettable
  <2>4. QED
    BY <1>1, <1>2, <2>1, <2>2, <2>3, OneMoreClaim
<1>6. CASE AddCreate(s) /\ claims' # claims
  <2>1. /\ RowsWithKey(jobs, add[s].key) = {} /\ claims' = claims \cup {s}
        /\ add[s].pc = "create"
        /\ \E j \in FreshJobs : add' = [add EXCEPT ![s].job = j, ![s].pc = "dispatch"]
    BY <1>6 DEF AddCreate
  <2>2. add'[s].key = add[s].key /\ add[s].key \in Keys
    BY <1>1, <2>1 DEF AddSession, Shaped
  <2>3. Holders(add[s].key) = {}
    BY <1>1, <2>1 DEF Holders, RowsWithKey
  <2>4. QED
    BY <1>1, <1>2, <2>1, <2>2, <2>3, OneMoreClaim
<1>7. CASE UNCHANGED claims /\ add[s].pc \notin ClaimPCs
  BY <1>1, <1>3, <1>7
<1>8. CASE AddRelink(s) \/ AddRelinkFind(s) \/ AddDispatch(s) \/ AddActivate(s) \/ AddMarkFailed(s)
  BY <1>3, <1>4, <1>8 DEF AddRelink, AddRelinkFind, AddDispatch, AddActivate, AddMarkFailed,
     Settle, WriteJobs, Unrevoked, AddPCs
<1>9. QED
  BY <1>5, <1>6, <1>7, <1>8 DEF AddStep, AddBegin, Retry, AddLookup, AddDedup, AddAttach,
     AddSelect, AddReset, AddCreate, ClaimPCs

\* No other step takes a lease.
LEMMA OtherStepIsLeaseStep ==
  ASSUME IInv,
         \/ \E d \in Deleters : DelStep(d)
         \/ \E n \in Nodes : NodeStep(n)
         \/ ReconcileList
         \/ \E j \in JobIds : ReconcileStep(j)
         \/ ControllerCrash
  PROVE  Lease!Next
<1>1. CASE ControllerCrash
  BY <1>1, FewerClaims DEF ControllerCrash
<1>2. CASE claims' \subseteq claims /\ UNCHANGED add
  BY <1>2, FewerClaims
<1>3. CASE \E d \in Deleters : DelStep(d)
  BY <1>2, <1>3 DEF DelStep, DelBegin, DelJob, DelCancel, DelRemove, DelUnlink, PurgeBegin,
     PurgeNext, PurgeGetJob, PurgeUser, WriteJobs, Unrevoked
<1>4. CASE \E n \in Nodes : NodeStep(n)
  BY <1>2, <1>4 DEF NodeStep, SweepUnfinished, SweepCompleted, RestoreNode, NodePoll, PushLost,
     PushProgress, PushComplete, PushFail, PushRemove, PushEnd, PushStep, TryWriteJobs,
     WriteJobs, Unrevoked
<1>5. CASE ReconcileList \/ \E j \in JobIds : ReconcileStep(j)
  BY <1>2, <1>5 DEF ReconcileList, ReconcileStep, Silence, ReconcileFail, ReconcileFailLost,
     WriteJobs, Unrevoked
<1>6. QED
  BY <1>1, <1>3, <1>4, <1>5

\* The download service implements DispatchLease: the right to start a
\* storage key is taken only while nobody holds it.
THEOREM ClaimsImplementLeases == Spec => ClaimsAreLeases
<1>1. Init => Lease!Init
  BY DEF Init, Lease!Init
<1>2. IInv /\ [Next]_vars => [Lease!Next]_([k \in Keys |-> {s \in claims : add[s].key = k}])
  <2> SUFFICES ASSUME IInv, [Next]_vars
               PROVE  Lease!Next \/ UNCHANGED [k \in Keys |-> {s \in claims : add[s].key = k}]
    OBVIOUS
  <2>1. CASE Next
    BY <2>1, AddStepIsLeaseStep, OtherStepIsLeaseStep DEF Next
  <2>2. CASE UNCHANGED vars
    BY <2>2 DEF vars
  <2>3. QED
    BY <2>1, <2>2
<1>3. QED
  BY <1>1, <1>2, Invariance, PTL DEF Spec, ClaimsAreLeases, Lease!Spec

=============================================================================
