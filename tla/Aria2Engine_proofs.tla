------------------------- MODULE Aria2Engine_proofs -------------------------
(***************************************************************************)
(* One process per daemon, and outcomes that are not invented, for any     *)
(* number of daemons, process ids and jobs.                                *)
(*                                                                         *)
(* ManagerInv says why no daemon runs twice: the command kept for a daemon *)
(* is that of its only process, and startOne begins where there is none.   *)
(* Truth says why an outcome has a cause.  What is tracked, or is to be    *)
(* matched in this poll, has a download that aria2 still knows unless its  *)
(* failure, its loss or its deletion accounts for that (Standing); and     *)
(* once a job goes by the GID of the second download, that of its metadata *)
(* is gone (Succeeded), so that a second download that aria2 does not know *)
(* has left it by completing.                                              *)
(***************************************************************************)
EXTENDS Aria2Engine, TLAPS

ManagerInv ==
    /\ ManagerTypeOK
    /\ mutex \in {"free", "stop"} => todo = {} /\ doing = Idle
    /\ mutex = "start" => \A d \in todo : cmd[d] = NoCmd /\ (doing # Idle => d # doing.daemon)
    /\ \A p \in procs : p.pid = cmd[p.daemon]
    /\ \A p, q \in procs : p.pid = q.pid => p = q
    /\ doing.step = "launch" => \A p \in procs : p.daemon # doing.daemon

\* The GIDs a job's downloads have.
Second(j) == <<j, "next">>
Names(j) == {First(j)} \cup IF j \in Magnets THEN {Second(j)} ELSE {}
Gone(j) == row[j].state = "gone"
Polling == poll.pc # "idle"

\* The record that a poll is, and its jobs: each is still to be matched or has
\* a report.
PollShape ==
    /\ Polling => /\ poll = [pc |-> poll.pc, ids |-> poll.ids, todo |-> poll.todo,
                             seen |-> poll.seen, reports |-> poll.reports, own |-> poll.own]
                  /\ DOMAIN poll.ids = poll.todo \cup DOMAIN poll.reports
    /\ poll.pc = "active" => DOMAIN poll.seen = {} /\ DOMAIN poll.reports = {}
    /\ poll.pc = "child" => \E j \in poll.todo : poll.own = {j}
Shape == TypeOK /\ PollShape

\* Every GID, wherever it is kept, is one of its job's.
Named ==
    /\ \A g \in DOMAIN aria : g \in Names(g[1])
    /\ \A j \in DOMAIN tracker : tracker[j] \in Names(j)
    /\ \A j \in Jobs : row[j].gid \in Names(j) \cup {NoGid}
    /\ \A r \in removing : r.gid \in Names(r.job) \cup {NoGid} /\ Gone(r.job)
    /\ Polling =>
         /\ \A j \in DOMAIN poll.ids : poll.ids[j] \in Names(j)
         /\ \A g \in DOMAIN poll.seen : poll.seen[g].gid \in Names(g[1]) \cap {g, Second(g[1])}
         /\ \A j \in DOMAIN poll.reports : poll.reports[j].gid \in Names(j)

\* A job is new, or on its way to the tracker, or tracked; aria2 knows nothing
\* of a new one.
Placed ==
    \A j \in Jobs :
      /\ j \in dispatch => j \notin DOMAIN tracker /\ row[j].state # "new"
      /\ j \in DOMAIN tracker => row[j].state # "new"
      /\ Polling /\ j \in DOMAIN poll.ids => row[j].state # "new" /\ j \notin dispatch
Unborn ==
    \A g \in DOMAIN aria : row[g[1]].state # "new"

\* What accounts for a completion, and for a failure.  Of a job that has been
\* deleted nothing is said any more.
CompletionDue(j) == j \in done \cup lost \/ Gone(j)
FailureDue(j) == j \in failed \cup lost \/ Gone(j)

\* aria2's own states are true, and completed metadata has a second download,
\* unless that has completed and has been removed.
AriaTrue ==
    /\ ~Serving => DOMAIN aria = {}
    /\ \A g \in DOMAIN aria :
        /\ aria[g] = "seeding" => g = Second(g[1])
        /\ (aria[g] \in {"seeding", "complete"} /\ ~IsMetadata(g)) => CompletionDue(g[1])
        /\ aria[g] \in {"error", "removed"} => FailureDue(g[1])
    /\ \A j \in Magnets : First(j) \in DOMAIN aria /\ aria[First(j)] = "complete"
         => Second(j) \in DOMAIN aria \/ CompletionDue(j)

Standing(j, g) == g \in DOMAIN aria \/ FailureDue(j)
Succeeded(j, g) == g # First(j) => First(j) \notin DOMAIN aria
Held(j, g) == Standing(j, g) /\ Succeeded(j, g)

\* What is tracked stands.  A poll holds the GIDs the tracker has, but for jobs
\* that were added since.
TrackerTrue ==
    /\ \A j \in dispatch : Standing(j, First(j))
    /\ \A j \in DOMAIN tracker :
        /\ ~Polling => Held(j, tracker[j])
        /\ (Polling /\ j \in DOMAIN poll.ids) => tracker[j] = poll.ids[j]
        /\ (Polling /\ j \notin DOMAIN poll.ids) => tracker[j] = First(j) /\ Standing(j, First(j))

\* In a poll: what has been seen, a job still to be matched, one with a report,
\* and the one whose second download is being asked for.
SeenTrue ==
    Polling => \A g \in DOMAIN poll.seen :
         /\ poll.seen[g].state # "failed"
         /\ poll.seen[g].state = "completed" => CompletionDue(g[1])
Pending(j) ==
    LET g == poll.ids[j]
    IN /\ Standing(j, g) \/ g \in DOMAIN poll.seen
       /\ Succeeded(j, g)
       /\ (g \in DOMAIN poll.seen /\ poll.seen[g].state = "active") => Standing(j, poll.seen[g].gid)
Answered(j) ==
    LET r == poll.reports[j]
    IN /\ r.state = "active" => Held(j, r.gid)
       /\ r.state = "completed" => CompletionDue(j)
       /\ r.state = "failed" => FailureDue(j)
Asking(j) ==
    /\ j \in Magnets /\ poll.ids[j] = First(j)
    /\ \/ First(j) \in DOMAIN aria /\ aria[First(j)] = "complete"
       \/ j \in lost \/ Gone(j)
PollTrue ==
    Polling =>
    /\ \A j \in poll.todo : Pending(j)
    /\ \A j \in DOMAIN poll.reports : Answered(j)
    /\ poll.pc = "child" => \A j \in poll.own : Asking(j)

Truth == /\ Named /\ Placed /\ Unborn /\ AriaTrue
         /\ TrackerTrue /\ SeenTrue /\ PollTrue /\ OutcomesTrue

-----------------------------------------------------------------------------
\* The process manager.

\* StartAll begins with every daemon to look at and none started.
LEMMA ManagerInitHolds == ManagerInit => ManagerInv
BY DEF ManagerInit, ManagerInv, ManagerTypeOK, Doing, Idle

\* A process that comes up, or hangs, is the same process.
LEMMA BootKeeps == ASSUME ManagerInv, NEW p \in procs, Boot(p) PROVE ManagerInv'
<1> DEFINE q == [p EXCEPT !.state = "up"]
<1>1. p \in Process /\ q \in Process /\ q.daemon = p.daemon /\ q.pid = p.pid
    BY DEF ManagerInv, ManagerTypeOK, Process
<1> HIDE DEF q
<1>2. procs' = (procs \ {p}) \cup {q} /\ UNCHANGED <<node, mutex, todo, doing, cmd>>
    BY DEF Boot, q
<1> QED BY <1>1, <1>2 DEF ManagerInv, ManagerTypeOK

\* The same, for a process that stops answering.
LEMMA HangKeeps == ASSUME ManagerInv, NEW p \in procs, Hang(p) PROVE ManagerInv'
<1> DEFINE q == [p EXCEPT !.state = "hung"]
<1>1. p \in Process /\ q \in Process /\ q.daemon = p.daemon /\ q.pid = p.pid
    BY DEF ManagerInv, ManagerTypeOK, Process
<1> HIDE DEF q
<1>2. procs' = (procs \ {p}) \cup {q} /\ UNCHANGED <<node, mutex, todo, doing, cmd>>
    BY DEF Hang, q
<1> QED BY <1>1, <1>2 DEF ManagerInv, ManagerTypeOK

\* startOne is about the daemon it is called for.
LEMMA BegunIsDoing ==
    ASSUME NEW d \in Daemons, Begin(d)
    PROVE  doing' \in Doing /\ doing'.step = "launch" /\ doing'.daemon = d
BY DEF Begin, Doing

\* The process that startOne starts is the only one of its daemon, under an id
\* that no other has.
LEMMA LaunchKeeps ==
    ASSUME ManagerInv, mutex \in {"start", "watch"}, Launch PROVE ManagerInv'
<1> DEFINE d == doing.daemon
<1> USE DEF ManagerInv, ManagerTypeOK
<1>1. d \in Daemons /\ doing.step = "launch" /\ UNCHANGED <<node, mutex>>
    BY DEF Launch, Doing, Idle
<1>2. CASE cmd' = [cmd EXCEPT ![d] = NoProcess] /\ Fails /\ UNCHANGED procs
  <2>1. doing' = Idle /\ doing'.step = "none" /\ doing' \in Doing /\ todo' \subseteq todo
        /\ (mutex = "start" => todo' = {})
    BY <1>2 DEF Fails, Idle, Doing
  <2>2. \A p \in procs : p.daemon # d
    BY <1>1
  <2> HIDE DEF d
  <2> QED BY <1>1, <1>2, <2>1, <2>2 DEF Process
<1>3. ASSUME NEW i \in Pids \ {q.pid : q \in procs},
             procs' = procs \cup {[daemon |-> d, pid |-> i, state |-> "booting"]},
             cmd' = [cmd EXCEPT ![d] = i],
             doing' = [doing EXCEPT !.step = "await"], UNCHANGED todo
      PROVE  ManagerInv'
  <2>1. PICK n : n = [daemon |-> d, pid |-> i, state |-> "booting"]
    OBVIOUS
  <2>2. n \in Process /\ n.daemon = d /\ n.pid = i
    BY <1>1, <2>1 DEF Process
  <2>3. doing' \in Doing /\ doing'.step = "await"
    BY <1>1, <1>3 DEF Doing, Idle
  <2>4. procs' = procs \cup {n}
    BY <1>3, <2>1
  <2>5. \A p \in procs : p.daemon # d /\ p.pid # i
    BY <1>1, <1>3
  <2>6. mutex = "start" => \A e \in todo' : cmd'[e] = NoCmd /\ e # d
    <3>1. mutex = "start" => d \notin todo
      BY <1>1 DEF Idle
    <3> QED BY <1>1, <1>3, <3>1
  <2>7. doing'.daemon = d
    BY <1>1, <1>3 DEF Doing, Idle
  <2> HIDE DEF d
  <2> QED BY <1>1, <1>3, <2>2, <2>3, <2>4, <2>5, <2>6, <2>7 DEF Process
<1> QED BY <1>1, <1>2, <1>3 DEF Launch

\* Every step of the manager and of its processes keeps the invariant.
LEMMA ManagerStepKeeps == ASSUME ManagerInv, ManagerNext PROVE ManagerInv'
<1> USE DEF ManagerInv, ManagerTypeOK
<1>1. ASSUME NEW d \in Daemons, StartNext(d) PROVE ManagerInv'
  <2>1. doing' \in Doing /\ doing'.step = "launch" /\ doing'.daemon = d /\ doing' # Idle
    BY <1>1, BegunIsDoing DEF StartNext, Idle
  <2>2. \A p \in procs : p.daemon # d
    BY <1>1, ProcessAssumption DEF StartNext, Process
  <2> QED BY <1>1, <2>1, <2>2 DEF StartNext
<1>2. ASSUME NEW h \in {"start", "watch", "stop"}, Unlock(h) PROVE ManagerInv'
    BY <1>2 DEF Unlock, Idle
<1>3. ASSUME WatchLock PROVE ManagerInv'
    BY <1>3 DEF WatchLock
<1>4. ASSUME NEW d \in Daemons, Check(d) PROVE ManagerInv'
  <2>1. CASE cmd[d] \in Pids /\ ~Healthy(d)
    <3>1. doing' \in Doing /\ doing'.step = "launch" /\ doing'.daemon = d /\ procs' = procs \ Current(d)
      BY <1>4, <2>1, BegunIsDoing DEF Check
    <3>2. \A p \in procs' : p.daemon # d
      BY <3>1 DEF Current
    <3> QED BY <1>4, <3>1, <3>2 DEF Check
  <2>2. CASE ~(cmd[d] \in Pids /\ ~Healthy(d))
    BY <1>4, <2>2 DEF Check
  <2> QED BY <2>1, <2>2
<1>5. ASSUME Await, mutex \in {"start", "watch"} PROVE ManagerInv'
    BY <1>5 DEF Await, Fails, Doing, Idle
<1>6. ASSUME StopAll PROVE ManagerInv'
    BY <1>6 DEF StopAll, Idle
<1>7. ASSUME Signal \/ Exit PROVE ManagerInv'
    BY <1>7 DEF Signal, Exit
<1>8. ASSUME NEW p \in procs, Die(p) PROVE ManagerInv'
    BY <1>8 DEF Die
<1> HIDE DEF ManagerInv, ManagerTypeOK
<1>9. StartStep => ManagerInv'
    BY <1>1, <1>2, <1>5, LaunchKeeps DEF StartStep
<1>10. WatchStep => ManagerInv'
    BY <1>2, <1>3, <1>4, <1>5, LaunchKeeps DEF WatchStep
<1>11. StopStep => ManagerInv'
    BY <1>2, <1>6, <1>7 DEF StopStep
<1>12. Disturbance => ManagerInv'
    BY <1>8, HangKeeps DEF Disturbance
<1> QED BY <1>7, <1>9, <1>10, <1>11, <1>12, BootKeeps DEF ManagerNext

\* So does a step of something else.
LEMMA IdleManager == ASSUME ManagerInv, UNCHANGED managerVars PROVE ManagerInv'
BY DEF ManagerInv, ManagerTypeOK, managerVars

\* The manager's invariant holds: StartAll, Watch and StopAll take turns, and a
\* daemon has no process but that of its command.
THEOREM ManagerInvariance == Spec => []ManagerInv
<1>1. Init => ManagerInv
    BY ManagerInitHolds DEF Init
<1>2. ManagerInv /\ [Next]_vars => ManagerInv'
  <2> SUFFICES ASSUME ManagerInv, Next, ~UNCHANGED managerVars PROVE ManagerInv'
    BY IdleManager DEF vars
  <2>1. ManagerStep
    BY DEF Next, AriaStep, Followed, Downloaded, Seeded, Errs, JobStep, Add, Track, Delete,
           PollList, PollStep, PollActive, MatchChild, PollEnd, MatchActive, MatchOther, Cancel, Remove
  <2> QED BY <2>1, ManagerStepKeeps DEF ManagerStep
<1> QED BY <1>1, <1>2, PTL DEF Spec

\* No daemon runs twice (manager.go: startOne, checkAndRestart, StopAll), however
\* processes die, hang, fail to start or are stopped, and whoever holds the mutex.
THEOREM OneProcessEach == Spec => []OneProcess
<1>1. ManagerInv => OneProcess
    BY DEF ManagerInv, OneProcess
<1> QED BY <1>1, ManagerInvariance, PTL

-----------------------------------------------------------------------------
\* Helpers of the model.

\* The GIDs of a job are two, and its own.
LEMMA GidFacts ==
    /\ \A j \in Jobs :
         /\ First(j) \in Gid /\ First(j)[1] = j /\ Second(j) \in Gid /\ Second(j)[1] = j
         /\ First(j) # Second(j) /\ Follower(First(j)) = Second(j)
         /\ IsMetadata(First(j)) <=> j \in Magnets
         /\ ~IsMetadata(Second(j))
    /\ \A g \in Gid : /\ g[1] \in Jobs /\ Follower(g) = Second(g[1])
                      /\ g = First(g[1]) \/ g = Second(g[1])
    /\ NoGid \notin Gid
BY DEF Gid, First, Second, Follower, IsMetadata, NoGid

\* A function with one value more, and one on a smaller domain.
LEMMA WithParts ==
    ASSUME NEW f, NEW x, NEW v
    PROVE  /\ DOMAIN With(f, x, v) = DOMAIN f \cup {x}
           /\ With(f, x, v)[x] = v
           /\ \A y \in DOMAIN f : y # x => With(f, x, v)[y] = f[y]
BY DEF With

\* The same, for Without.
LEMMA WithoutParts ==
    ASSUME NEW f, NEW S
    PROVE  /\ DOMAIN Without(f, S) = DOMAIN f \ S
           /\ \A y \in DOMAIN f \ S : Without(f, S)[y] = f[y]
BY DEF Without

\* The empty sequence is the empty function.
LEMMA EmptyFunction == DOMAIN <<>> = {}
OBVIOUS

\* The poll that PollList begins.
LEMMA NewPoll ==
    ASSUME NEW f,
           poll' = [pc |-> "active", ids |-> f, todo |-> DOMAIN f,
                    seen |-> <<>>, reports |-> <<>>, own |-> {}]
    PROVE  /\ poll'.pc = "active" /\ poll'.ids = f /\ poll'.todo = DOMAIN f
           /\ DOMAIN poll'.seen = {} /\ DOMAIN poll'.reports = {} /\ PollShape'
BY DEF PollShape, Polling

\* A poll that is over.
LEMMA NoPoll == ASSUME poll' = IdlePoll PROVE poll'.pc = "idle" /\ PollShape'
BY DEF PollShape, Polling, IdlePoll

\* The poll after TellActive.
LEMMA SeenPoll ==
    ASSUME PollShape, poll.pc = "active", NEW S,
           poll' = [poll EXCEPT !.pc = "match", !.seen = S]
    PROVE  /\ poll'.pc = "match" /\ poll'.ids = poll.ids /\ poll'.todo = poll.todo
           /\ poll'.seen = S /\ poll'.reports = poll.reports /\ PollShape'
BY DEF PollShape, Polling

\* The poll after one job's result.
LEMMA ReportedPoll ==
    ASSUME PollShape, Polling, poll.pc # "active", NEW j \in poll.todo, NEW report, NEW gids,
           Reported(j, report, gids)
    PROVE  /\ poll'.pc = "match" /\ poll'.ids = poll.ids /\ poll'.todo = poll.todo \ {j}
           /\ poll'.seen = poll.seen /\ poll'.reports = With(poll.reports, j, report) /\ PollShape'
<1>1. poll' = [poll EXCEPT !.pc = "match", !.own = {}, !.todo = @ \ {j},
                           !.reports = With(@, j, report)]
    BY DEF Reported
<1>2. poll' = [pc |-> "match", ids |-> poll.ids, todo |-> poll.todo \ {j}, seen |-> poll.seen,
               reports |-> With(poll.reports, j, report), own |-> {}]
    BY <1>1 DEF PollShape
<1>3. DOMAIN With(poll.reports, j, report) = DOMAIN poll.reports \cup {j}
    BY WithParts
<1> QED BY <1>2, <1>3 DEF PollShape, Polling

\* The poll that is to ask for a second download.
LEMMA ChildPoll ==
    ASSUME PollShape, poll.pc = "match", NEW j \in poll.todo,
           poll' = [poll EXCEPT !.pc = "child", !.own = {j}]
    PROVE  /\ poll'.pc = "child" /\ poll'.ids = poll.ids /\ poll'.todo = poll.todo
           /\ poll'.seen = poll.seen /\ poll'.reports = poll.reports /\ poll'.own = {j} /\ PollShape'
BY DEF PollShape, Polling

\* The three ways in which the model changes a partial function keep its type.
LEMMA WithTyped ==
    ASSUME NEW f, NEW S, NEW T, PartialTo(f, S, T), NEW x \in S, NEW v \in T
    PROVE  PartialTo(With(f, x, v), S, T)
BY DEF PartialTo, With

\* The same, for Without.
LEMMA WithoutTyped ==
    ASSUME NEW f, NEW S, NEW T, PartialTo(f, S, T), NEW X
    PROVE  PartialTo(Without(f, X), S, T)
BY DEF PartialTo, Without

\* The same, for EXCEPT.
LEMMA ExceptTyped ==
    ASSUME NEW f, NEW S, NEW T, PartialTo(f, S, T), NEW x, NEW v \in T
    PROVE  /\ PartialTo([f EXCEPT ![x] = v], S, T)
           /\ DOMAIN [f EXCEPT ![x] = v] = DOMAIN f
BY DEF PartialTo

\* mapStatus answers with one of the states there are.
LEMMA StateTyped == \A x : State(x) \in States
BY DEF State, States

-----------------------------------------------------------------------------
\* Types.

AriaStatuses == {"active", "seeding", "complete", "error", "removed"}

\* What a type-correct poll is made of.
PollTyped ==
    poll.pc # "idle" =>
      /\ PartialTo(poll.ids, Jobs, Gid) /\ poll.todo \subseteq DOMAIN poll.ids
      /\ PartialTo(poll.seen, Gid, Report) /\ PartialTo(poll.reports, Jobs, Report)
DataTyped ==
    /\ PartialTo(aria, Gid, AriaStatuses)
    /\ done \subseteq Jobs /\ failed \subseteq Jobs /\ lost \subseteq Jobs
    /\ row \in [Jobs -> [state: States \cup {"new", "gone"}, gid: Gid \cup {NoGid}]]
    /\ dispatch \subseteq Jobs /\ PartialTo(tracker, Jobs, Gid)
    /\ removing \subseteq [job: Jobs, gid: Gid \cup {NoGid}, pc: {"cancel", "remove"}]

\* TypeOK in three parts: the manager, what the engine keeps, the poll.
LEMMA TypeParts ==
    TypeOK <=> /\ ManagerTypeOK /\ DataTyped /\ PollTyped
               /\ poll.pc \in {"idle", "active", "match", "child"}
BY DEF TypeOK, DataTyped, PollTyped, AriaStatuses

\* The types hold in the beginning.
LEMMA InitShape == Init => Shape
<1> SUFFICES ASSUME Init PROVE Shape
    OBVIOUS
<1>1. ManagerTypeOK
    BY ManagerInitHolds DEF Init, ManagerInv
<1>2. poll.pc = "idle" /\ PollTyped /\ PollShape
    BY DEF Init, IdlePoll, PollTyped, PollShape, Polling
<1>3. DataTyped
    BY EmptyFunction DEF Init, DataTyped, PartialTo
<1> QED BY <1>1, <1>2, <1>3, TypeParts DEF Shape

\* A step that leaves the poll alone keeps them if the rest is typed.
LEMMA PollKeptShape ==
    ASSUME Shape, UNCHANGED poll, ManagerTypeOK', DataTyped'
    PROVE  Shape'
<1>1. PollShape' /\ PollTyped' /\ poll'.pc \in {"idle", "active", "match", "child"}
    BY TypeParts DEF Shape, PollShape, Polling, PollTyped
<1> QED BY <1>1, TypeParts DEF Shape, TypeOK, DataTyped, PollTyped, AriaStatuses

\* Steps of aria2 keep the types ...
LEMMA AriaStepShape ==
    ASSUME Shape, ManagerTypeOK', NEW g \in Gid, AriaStep(g)
    PROVE  Shape'
<1> USE TypeParts DEF Shape
<1>1. UNCHANGED poll /\ g \in DOMAIN aria /\ g[1] \in Jobs /\ Follower(g) \in Gid
    BY GidFacts DEF AriaStep, Followed, Downloaded, Seeded, Errs
<1>2. CASE Followed(g)
  <2>1. PartialTo([aria EXCEPT ![g] = "complete"], Gid, AriaStatuses)
    BY ExceptTyped DEF DataTyped, AriaStatuses
  <2>2. PartialTo(aria', Gid, AriaStatuses)
    BY <1>1, <1>2, <2>1, WithTyped DEF Followed, AriaStatuses
  <2> QED BY <1>1, <1>2, <2>2, PollKeptShape DEF Followed, DataTyped
<1>3. CASE Downloaded(g)
  <2>1. PartialTo(aria', Gid, AriaStatuses)
    BY <1>3, ExceptTyped DEF Downloaded, DataTyped, AriaStatuses
  <2> QED BY <1>1, <1>3, <2>1, PollKeptShape DEF Downloaded, DataTyped
<1>4. CASE Seeded(g)
  <2>1. PartialTo(aria', Gid, AriaStatuses)
    BY <1>4, ExceptTyped DEF Seeded, DataTyped, AriaStatuses
  <2> QED BY <1>1, <1>4, <2>1, PollKeptShape DEF Seeded, DataTyped
<1>5. CASE Errs(g)
  <2>1. PartialTo(aria', Gid, AriaStatuses)
    BY <1>5, ExceptTyped DEF Errs, DataTyped, AriaStatuses
  <2> QED BY <1>1, <1>5, <2>1, PollKeptShape DEF Errs, DataTyped
<1> QED BY <1>2, <1>3, <1>4, <1>5 DEF AriaStep

\* ... so do those of its process ...
LEMMA ManagerStepShape ==
    ASSUME Shape, ManagerTypeOK', ManagerStep
    PROVE  Shape'
<1>1. PartialTo(aria', Gid, AriaStatuses) /\ lost' \subseteq Jobs
    BY GidFacts, EmptyFunction, TypeParts DEF ManagerStep, Shape, DataTyped, PartialTo
<1> QED BY <1>1, TypeParts, PollKeptShape DEF ManagerStep, Shape, DataTyped

\* ... Add, tracking and deletions ...
LEMMA JobStepShape ==
    ASSUME Shape, ManagerTypeOK', NEW j \in Jobs, JobStep(j)
    PROVE  Shape'
<1> USE TypeParts DEF Shape
<1>1. First(j) \in Gid
    BY GidFacts
<1>2. CASE Add(j)
  <2>1. PartialTo(aria', Gid, AriaStatuses)
    BY <1>1, <1>2, WithTyped DEF Add, DataTyped, AriaStatuses
  <2>2. row' \in [Jobs -> [state: States \cup {"new", "gone"}, gid: Gid \cup {NoGid}]]
    BY <1>2 DEF Add, DataTyped, States
  <2> QED BY <1>2, <2>1, <2>2, PollKeptShape DEF Add, DataTyped
<1>3. CASE Track(j)
  <2>1. PartialTo(tracker', Jobs, Gid)
    BY <1>1, <1>3, WithTyped DEF Track, DataTyped
  <2>2. row' \in [Jobs -> [state: States \cup {"new", "gone"}, gid: Gid \cup {NoGid}]]
    BY <1>1, <1>3 DEF Track, DataTyped, States
  <2> QED BY <1>3, <2>1, <2>2, PollKeptShape DEF Track, DataTyped
<1>4. CASE Delete(j)
  <2>1. row' \in [Jobs -> [state: States \cup {"new", "gone"}, gid: Gid \cup {NoGid}]]
    BY <1>4 DEF Delete, DataTyped, States
  <2>2. removing' \subseteq [job: Jobs, gid: Gid \cup {NoGid}, pc: {"cancel", "remove"}]
    BY <1>4 DEF Delete, DataTyped
  <2> QED BY <1>4, <2>1, <2>2, PollKeptShape DEF Delete, DataTyped
<1> QED BY <1>2, <1>3, <1>4 DEF JobStep

\* ... what a deletion makes the engine do ...
LEMMA RemovalShape ==
    ASSUME Shape, ManagerTypeOK', NEW r \in removing, Cancel(r) \/ Remove(r)
    PROVE  Shape'
<1> USE TypeParts DEF Shape
<1>1. r \in [job: Jobs, gid: Gid \cup {NoGid}, pc: {"cancel", "remove"}]
    BY DEF DataTyped
<1>2. CASE Cancel(r)
  <2>1. PartialTo(aria', Gid, AriaStatuses)
    BY <1>2, ExceptTyped DEF Cancel, DataTyped, AriaStatuses
  <2>2. PartialTo(tracker', Jobs, Gid)
    BY <1>2, WithoutTyped DEF Cancel, DataTyped
  <2>3. removing' \subseteq [job: Jobs, gid: Gid \cup {NoGid}, pc: {"cancel", "remove"}]
    BY <1>1, <1>2 DEF Cancel, DataTyped
  <2>4. failed' \subseteq Jobs
    BY <1>1, <1>2 DEF Cancel, DataTyped
  <2> QED BY <1>2, <2>1, <2>2, <2>3, <2>4, PollKeptShape DEF Cancel, DataTyped
<1>3. CASE Remove(r)
  <2>1. PartialTo(aria', Gid, AriaStatuses)
    BY <1>3, WithoutTyped DEF Remove, DataTyped
  <2> QED BY <1>1, <1>3, <2>1, PollKeptShape DEF Remove, DataTyped
<1> QED BY <1>2, <1>3

\* ... the end of a poll ...
LEMMA PollEndsShape ==
    ASSUME Shape, ManagerTypeOK', poll' = IdlePoll, DataTyped'
    PROVE  Shape'
BY NoPoll, TypeParts DEF Shape, TypeOK, DataTyped, PollTyped, AriaStatuses

\* A job's result, in each of the three ways there are to get one.
LEMMA ReportedShape ==
    ASSUME Shape, ManagerTypeOK', Polling, poll.pc # "active",
           NEW j \in poll.todo, NEW report \in Report, NEW gids, Reported(j, report, gids),
           UNCHANGED <<done, failed, lost, row, dispatch, tracker, removing>>
    PROVE  Shape'
<1> USE TypeParts DEF Shape
<1>1. /\ poll'.pc = "match" /\ poll'.ids = poll.ids /\ poll'.todo = poll.todo \ {j}
      /\ poll'.seen = poll.seen /\ poll'.reports = With(poll.reports, j, report) /\ PollShape'
    BY ReportedPoll
<1>2. PollTyped /\ poll.pc # "idle"
    BY DEF Polling
<1>3. PartialTo(poll'.reports, Jobs, Report)
    BY <1>1, <1>2, WithTyped DEF PollTyped, PartialTo
<1>4. PollTyped'
    BY <1>1, <1>2, <1>3 DEF PollTyped
<1>5. PartialTo(aria', Gid, AriaStatuses)
    BY WithoutTyped DEF Reported, DataTyped
<1>6. DataTyped'
    BY <1>5 DEF DataTyped
<1> QED BY <1>1, <1>4, <1>6 DEF TypeOK, DataTyped, PollTyped, AriaStatuses

\* What TellActive answers is a report.
LEMMA SeenAsTyped ==
    ASSUME Shape, NEW g \in ActiveGids \cup {First(c[1]) : c \in ActiveGids}
    PROVE  g \in Gid /\ SeenAs(g) \in Report
<1>1. ActiveGids \subseteq Gid
    BY TypeParts DEF Shape, DataTyped, PartialTo, ActiveGids
<1>2. g \in Gid /\ Follower(g) \in Gid
    BY <1>1, GidFacts
<1> QED BY <1>2, StateTyped DEF SeenAs, Report

\* Whatever TellStatus answers keeps the types.
LEMMA ToldShape ==
    ASSUME Shape, ManagerTypeOK', poll.pc = "match", NEW j \in poll.todo, Told(j, poll.ids[j]),
           UNCHANGED <<done, failed, lost, row, dispatch, tracker, removing>>
    PROVE  Shape'
<1> USE TypeParts DEF Shape
<1> DEFINE g == poll.ids[j]
<1>1. PollTyped /\ Polling /\ g \in Gid
    BY DEF PollTyped, Polling, PartialTo
<1>2. CASE IsMetadata(g) /\ aria[g] = "complete"
  <2>1. poll' = [poll EXCEPT !.pc = "child", !.own = {j}] /\ UNCHANGED aria
    BY <1>2 DEF Told
  <2>2. /\ poll'.pc = "child" /\ poll'.ids = poll.ids /\ poll'.todo = poll.todo
        /\ poll'.seen = poll.seen /\ poll'.reports = poll.reports /\ PollShape'
    BY <2>1, ChildPoll
  <2>3. PollTyped'
    BY <1>1, <2>2 DEF PollTyped, Polling
  <2>4. DataTyped'
    BY <2>1 DEF DataTyped
  <2> QED BY <2>2, <2>3, <2>4 DEF TypeOK, DataTyped, PollTyped, AriaStatuses
<1>3. CASE ~(IsMetadata(g) /\ aria[g] = "complete")
  <2>1. PICK gids : Reported(j, [gid |-> g, state |-> State(aria[g])], gids)
    BY <1>3 DEF Told
  <2>2. [gid |-> g, state |-> State(aria[g])] \in Report
    BY <1>1, StateTyped DEF Report
  <2> QED BY <1>1, <2>1, <2>2, ReportedShape
<1> QED BY <1>2, <1>3

\* Every call of a poll does.
LEMMA PollStepShape ==
    ASSUME Shape, ManagerTypeOK', PollList \/ PollStep
    PROVE  Shape'
<1> USE TypeParts DEF Shape
<1>1. CASE PollList
  <2>1. /\ poll'.pc = "active" /\ poll'.ids = tracker /\ poll'.todo = DOMAIN tracker
        /\ DOMAIN poll'.seen = {} /\ DOMAIN poll'.reports = {} /\ PollShape'
    BY <1>1, NewPoll DEF PollList
  <2>2. PollTyped'
    BY <2>1 DEF PollTyped, DataTyped, PartialTo
  <2>3. DataTyped'
    BY <1>1 DEF PollList, DataTyped
  <2> QED BY <2>1, <2>2, <2>3 DEF TypeOK, DataTyped, PollTyped, AriaStatuses
<1>2. CASE PollActive
  <2>1. CASE poll' = IdlePoll /\ UNCHANGED aria
    <3>1. DataTyped'
      BY <1>2, <2>1 DEF PollActive, DataTyped
    <3> QED BY <2>1, <3>1, PollEndsShape
  <2>2. CASE /\ poll' = [poll EXCEPT !.pc = "match",
                 !.seen = [g \in ActiveGids \cup {First(c[1]) : c \in ActiveGids} |-> SeenAs(g)]]
             /\ aria' = Without(aria, {g \in DOMAIN aria : aria[g] = "seeding"})
    <3> DEFINE S == [g \in ActiveGids \cup {First(c[1]) : c \in ActiveGids} |-> SeenAs(g)]
    <3>1. PartialTo(S, Gid, Report)
      BY SeenAsTyped DEF PartialTo
    <3> HIDE DEF S
    <3>2. /\ poll'.pc = "match" /\ poll'.ids = poll.ids /\ poll'.todo = poll.todo
          /\ poll'.seen = S /\ poll'.reports = poll.reports /\ PollShape'
      BY <1>2, <2>2, SeenPoll DEF PollActive, S
    <3>3. PollTyped'
      BY <1>2, <3>1, <3>2 DEF PollTyped, PollActive
    <3>4. PartialTo(aria', Gid, AriaStatuses)
      BY <2>2, WithoutTyped DEF DataTyped
    <3>5. DataTyped'
      BY <1>2, <3>4 DEF PollActive, DataTyped
    <3> QED BY <3>2, <3>3, <3>5 DEF TypeOK, DataTyped, PollTyped, AriaStatuses
  <2> QED BY <1>2, <2>1, <2>2 DEF PollActive
<1>3. CASE PollEnd
  <2>1. PollTyped
    OBVIOUS
  <2>2. PartialTo(tracker', Jobs, Gid)
    BY <1>3, <2>1 DEF PollEnd, PollTyped, DataTyped, PartialTo, Report
  <2>3. row' \in [Jobs -> [state: States \cup {"new", "gone"}, gid: Gid \cup {NoGid}]]
    <3>1. \A j \in Jobs : row'[j] \in {row[j]} \cup IF j \in DOMAIN poll.reports THEN {poll.reports[j]} ELSE {}
      BY <1>3 DEF PollEnd
    <3>2. \A j \in DOMAIN poll.reports : poll.reports[j] \in Report
      BY <1>3, <2>1 DEF PollEnd, PollTyped, PartialTo
    <3>3. \A x \in Report : x \in [state: States \cup {"new", "gone"}, gid: Gid \cup {NoGid}]
      BY DEF Report
    <3>4. \A j \in Jobs : row'[j] \in [state: States \cup {"new", "gone"}, gid: Gid \cup {NoGid}]
      BY <3>1, <3>2, <3>3 DEF DataTyped
    <3>5. PICK R : row' = [j \in Jobs |-> R[j]]
      BY <1>3 DEF PollEnd
    <3> QED BY <3>4, <3>5
  <2> QED BY <1>3, <2>2, <2>3, PollEndsShape DEF PollEnd, DataTyped
<1>4. ASSUME NEW j \in Jobs, MatchActive(j) PROVE Shape'
  <2>1. poll.seen[poll.ids[j]] \in Report
    BY <1>4 DEF MatchActive, PollTyped, PartialTo
  <2>2. PICK gids : Reported(j, poll.seen[poll.ids[j]], gids)
    BY <1>4 DEF MatchActive
  <2> QED BY <1>4, <2>1, <2>2, ReportedShape DEF MatchActive, Polling
<1>5. ASSUME NEW j \in Jobs, MatchOther(j) PROVE Shape'
  <2>1. CASE Told(j, poll.ids[j])
    BY <1>5, <2>1, ToldShape DEF MatchOther
  <2>2. CASE Reported(j, [gid |-> poll.ids[j], state |-> "failed"], {})
    <3>1. [gid |-> poll.ids[j], state |-> "failed"] \in Report
      BY <1>5 DEF MatchOther, PollTyped, PartialTo, Report, States
    <3> QED BY <1>5, <2>2, <3>1, ReportedShape DEF MatchOther, Polling
  <2> QED BY <1>5, <2>1, <2>2 DEF MatchOther
<1>6. CASE MatchChild
  <2>1. PICK j \in poll.todo : poll.own = {j}
    BY <1>6 DEF MatchChild, PollShape
  <2>2. j = CHOOSE i \in poll.own : TRUE
    BY <2>1
  <2>3. poll.ids[j] \in Gid /\ Follower(poll.ids[j]) \in Gid
    BY <1>6, GidFacts DEF MatchChild, PollTyped, PartialTo
  <2>4. \A x : [gid |-> Follower(poll.ids[j]), state |-> State(x)] \in Report
    BY <2>3, StateTyped DEF Report
  <2>5. [gid |-> poll.ids[j], state |-> "completed"] \in Report
    BY <2>3 DEF Report, States
  <2>6. PICK report \in Report : \E gids : Reported(j, report, gids)
    BY <1>6, <2>2, <2>4, <2>5 DEF MatchChild
  <2> QED BY <1>6, <2>6, ReportedShape DEF MatchChild, Polling
<1> QED BY <1>1, <1>2, <1>3, <1>4, <1>5, <1>6 DEF PollStep

\* A stutter does.
LEMMA IdleShape == ASSUME Shape, UNCHANGED vars PROVE Shape'
<1>1. ManagerTypeOK' /\ DataTyped'
    BY TypeParts DEF Shape, vars, managerVars, engineVars, ManagerTypeOK, DataTyped
<1> QED BY <1>1, PollKeptShape DEF vars, engineVars

\* Every step keeps the types.
LEMMA NextShape == ASSUME Shape, ManagerTypeOK', [Next]_vars PROVE Shape'
BY AriaStepShape, ManagerStepShape, JobStepShape, RemovalShape, PollStepShape, IdleShape DEF Next

-----------------------------------------------------------------------------
\* What most steps keep: the causes of outcomes, what stands, what is gone.
CausesKept ==
    \A j \in Jobs :
      /\ CompletionDue(j) => CompletionDue(j)'
      /\ FailureDue(j) => FailureDue(j)'
      /\ Gone(j) => Gone(j)'
      /\ j \in lost => j \in lost'
      /\ row[j].state # "new" => row'[j].state # "new"
StandingKept == \A j \in Jobs : \A g \in Names(j) : Standing(j, g) => Standing(j, g)'
FirstsKept ==
    \A j \in Jobs :
      (row[j].state # "new" /\ First(j) \in DOMAIN aria') => First(j) \in DOMAIN aria
AskingKept == \A j \in Jobs : (Asking(j) /\ UNCHANGED poll) => Asking(j)'

\* What a poll knows stays true in a step of something else, if causes stay, what
\* stood still stands and no metadata comes back.
LEMMA PollKeptTrue ==
    ASSUME Shape, Named, Placed, SeenTrue, PollTrue, UNCHANGED poll,
           CausesKept, StandingKept, FirstsKept, AskingKept
    PROVE  SeenTrue' /\ PollTrue'
<1>1. /\ Polling => /\ poll.todo \subseteq Jobs /\ DOMAIN poll.reports \subseteq Jobs
                    /\ DOMAIN poll.ids \subseteq Jobs /\ DOMAIN poll.seen \subseteq Gid
                    /\ poll.todo \subseteq DOMAIN poll.ids
                    /\ DOMAIN poll.reports \subseteq DOMAIN poll.ids
    BY TypeParts DEF Shape, PollTyped, PartialTo, PollShape, Polling
<1>2. SeenTrue'
    BY <1>1, GidFacts DEF SeenTrue, CausesKept, Polling
<1>3. ASSUME Polling PROVE \A j \in poll.todo : Pending(j)'
  <2> TAKE j \in poll.todo
  <2>1. j \in Jobs /\ row[j].state # "new" /\ Pending(j) /\ poll.ids[j] \in Names(j)
    BY <1>1, <1>3 DEF PollTrue, Placed, Named
  <2>2. poll.ids[j] \in DOMAIN poll.seen => poll.seen[poll.ids[j]].gid \in Names(j)
    BY <1>1, <1>3, <2>1, GidFacts DEF Named, Names
  <2> QED BY <2>1, <2>2 DEF Pending, StandingKept, FirstsKept, Succeeded
<1>4. ASSUME Polling PROVE \A j \in DOMAIN poll.reports : Answered(j)'
  <2> TAKE j \in DOMAIN poll.reports
  <2>1. j \in Jobs /\ row[j].state # "new" /\ Answered(j) /\ poll.reports[j].gid \in Names(j)
    BY <1>1, <1>4 DEF PollTrue, Placed, Named
  <2> QED BY <2>1 DEF Answered, Held, StandingKept, FirstsKept, Succeeded, CausesKept
<1>5. ASSUME poll.pc = "child" PROVE \A j \in poll.own : Asking(j)'
    BY <1>1, <1>5 DEF PollTrue, AskingKept, Shape, PollShape, Polling
<1> QED BY <1>2, <1>3, <1>4, <1>5 DEF PollTrue, Polling

\* So does what the tracker knows, when it loses jobs or gains the one just added.
LEMMA TrackerKeptTrue ==
    ASSUME Shape, Named, Placed, TrackerTrue, UNCHANGED poll,
           CausesKept, StandingKept, FirstsKept,
           \A j \in dispatch' : j \in dispatch \/ Standing(j, First(j))',
           \A j \in DOMAIN tracker' :
             \/ j \in DOMAIN tracker /\ tracker'[j] = tracker[j]
             \/ /\ tracker'[j] = First(j) /\ Standing(j, First(j))'
                /\ Polling => j \notin DOMAIN poll.ids
    PROVE  TrackerTrue'
<1>1. /\ DOMAIN tracker \subseteq Jobs /\ dispatch \subseteq Jobs
      /\ \A j \in Jobs : First(j) \in Names(j)
    BY TypeParts DEF Shape, DataTyped, PartialTo, Names
<1>2. \A j \in dispatch' : Standing(j, First(j))'
    BY <1>1 DEF TrackerTrue, StandingKept
<1>3. ASSUME NEW j \in DOMAIN tracker, Held(j, tracker[j]), tracker'[j] = tracker[j]
      PROVE  Held(j, tracker[j])'
    BY <1>1, <1>3 DEF Held, Succeeded, StandingKept, FirstsKept, Placed, Named
<1>4. ASSUME NEW j \in DOMAIN tracker, Standing(j, First(j)) PROVE Standing(j, First(j))'
    BY <1>1, <1>4 DEF StandingKept
<1> SUFFICES ASSUME NEW j \in DOMAIN tracker'
             PROVE  /\ ~Polling => Held(j, tracker[j])'
                    /\ (Polling /\ j \in DOMAIN poll.ids) => tracker'[j] = poll.ids[j]
                    /\ (Polling /\ j \notin DOMAIN poll.ids)
                          => tracker'[j] = First(j) /\ Standing(j, First(j))'
    BY <1>2 DEF TrackerTrue, Polling
<1>5. CASE j \in DOMAIN tracker /\ tracker'[j] = tracker[j]
    BY <1>3, <1>4, <1>5 DEF TrackerTrue
<1>6. CASE /\ tracker'[j] = First(j) /\ Standing(j, First(j))'
           /\ Polling => j \notin DOMAIN poll.ids
    BY <1>6 DEF Held, Succeeded
<1> QED BY <1>5, <1>6

\* Jobs stay where they are when nothing moves them.
LEMMA PlacedKept ==
    ASSUME Placed, CausesKept, UNCHANGED <<poll, tracker, dispatch>> PROVE Placed'
BY DEF Placed, CausesKept, Polling

\* Rows stay true while their causes stay.
LEMMA OutcomesKept ==
    ASSUME OutcomesTrue, CausesKept, UNCHANGED row PROVE OutcomesTrue'
BY DEF OutcomesTrue, CausesKept, CompletionDue, FailureDue, Gone

\* aria2's process may go at any moment: its downloads are then lost.
LEMMA ManagerStepTrue == ASSUME Shape, Truth, ManagerStep PROVE Truth'
<1> USE DEF Truth
<1>1. /\ UNCHANGED <<done, failed, row, dispatch, tracker, poll, removing>>
      /\ \/ DOMAIN aria' = {} /\ lost' = lost \cup {g[1] : g \in DOMAIN aria}
         \/ UNCHANGED <<aria, lost>> /\ (Serving \/ DOMAIN aria = {} )
      /\ ~Serving' => DOMAIN aria' = {}
    BY EmptyFunction DEF ManagerStep, AriaTrue
<1>2. CausesKept
    BY <1>1 DEF CausesKept, CompletionDue, FailureDue, Gone
<1>3. \A g \in DOMAIN aria' : g \in DOMAIN aria /\ aria'[g] = aria[g]
    BY <1>1
<1>4. \A j \in Jobs : \A g \in Names(j) : g \in DOMAIN aria => g \in DOMAIN aria' \/ j \in lost'
    BY <1>1, GidFacts DEF Names
<1>5. StandingKept /\ FirstsKept
    BY <1>2, <1>3, <1>4 DEF StandingKept, FirstsKept, Standing, CausesKept, FailureDue
<1>6. AskingKept
    BY <1>1, <1>4 DEF AskingKept, Asking, Names, Gone
<1>7. Named' /\ Unborn'
    BY <1>1, <1>3 DEF Named, Unborn, Gone, Polling
<1>8. DOMAIN aria' \subseteq Gid
    BY <1>3, TypeParts DEF Shape, DataTyped, PartialTo
<1>9. AriaTrue'
  <2>1. \A g \in DOMAIN aria' : g[1] \in Jobs
    BY <1>8, GidFacts
  <2>2. \A j \in Magnets : First(j) \in DOMAIN aria' => UNCHANGED <<aria, lost>>
    BY <1>1
  <2> QED BY <1>1, <1>2, <1>3, <2>1, <2>2 DEF AriaTrue, CausesKept, CompletionDue, FailureDue, Gone
<1> QED BY <1>1, <1>2, <1>5, <1>6, <1>7, <1>9, PollKeptTrue, TrackerKeptTrue, PlacedKept, OutcomesKept

\* A download goes on, ends or fails.
LEMMA AriaStepTrue == ASSUME Shape, Truth, NEW g \in Gid, AriaStep(g) PROVE Truth'
<1> USE DEF Truth
<1> DEFINE j == g[1]
<1>1. /\ UNCHANGED <<managerVars, lost, row, dispatch, tracker, poll, removing>>
      /\ Serving /\ g \in DOMAIN aria /\ aria[g] \in {"active", "seeding"}
    BY DEF AriaStep, Followed, Downloaded, Seeded, Errs
<1>2. Serving'
    BY <1>1 DEF Serving, Healthy, managerVars
<1>3. j \in Jobs /\ g \in Names(j) /\ DOMAIN aria \subseteq Gid /\ row[j].state # "new"
    BY <1>1, GidFacts, TypeParts DEF Named, Shape, DataTyped, PartialTo, Unborn
<1>4. \/ /\ Followed(g) /\ g = First(j) /\ j \in Magnets /\ aria[g] = "active"
         /\ DOMAIN aria' = DOMAIN aria \cup {Second(j)}
         /\ aria'[g] = "complete" /\ aria'[Second(j)] = "active"
         /\ \A h \in DOMAIN aria \ {g, Second(j)} : aria'[h] = aria[h]
         /\ UNCHANGED <<done, failed>>
      \/ /\ DOMAIN aria' = DOMAIN aria
         /\ \A h \in DOMAIN aria \ {g} : aria'[h] = aria[h]
         /\ \/ /\ ~IsMetadata(g) /\ aria[g] = "active"
               /\ aria'[g] = IF j \in Magnets THEN "seeding" ELSE "complete"
               /\ done' = done \cup {j} /\ UNCHANGED failed
            \/ aria[g] = "seeding" /\ aria'[g] = "complete" /\ UNCHANGED <<done, failed>>
            \/ /\ aria[g] = "active" /\ aria'[g] = "error"
               /\ failed' = failed \cup {j} /\ UNCHANGED done
  <2>1. CASE Followed(g)
    <3>1. j \in Magnets /\ g = First(j) /\ Follower(g) = Second(j) /\ First(j) # Second(j)
      BY <1>3, <2>1, GidFacts DEF Followed, IsMetadata
    <3> DEFINE a == [aria EXCEPT ![g] = "complete"]
    <3>2. DOMAIN a = DOMAIN aria /\ a[g] = "complete" /\ \A h \in DOMAIN aria \ {g} : a[h] = aria[h]
      BY <1>1
    <3>3. aria' = With(a, Second(j), "active") /\ aria[g] = "active" /\ UNCHANGED <<done, failed>>
      BY <2>1, <3>1 DEF Followed
    <3> HIDE DEF a
    <3>4. /\ DOMAIN aria' = DOMAIN a \cup {Second(j)} /\ aria'[Second(j)] = "active"
          /\ \A h \in DOMAIN a : h # Second(j) => aria'[h] = a[h]
      BY <3>3 DEF With
    <3>5. UNCHANGED <<done, failed>> /\ aria[g] = "active" /\ g \in DOMAIN a
      BY <1>1, <3>2, <3>3
    <3> HIDE DEF j
    <3> QED BY <2>1, <3>1, <3>2, <3>4, <3>5
  <2>2. CASE Downloaded(g)
    BY <2>2 DEF Downloaded
  <2>3. CASE Seeded(g)
    BY <2>3 DEF Seeded
  <2>4. CASE Errs(g)
    BY <2>4 DEF Errs
  <2> QED BY <2>1, <2>2, <2>3, <2>4 DEF AriaStep
<1> HIDE DEF j
<1>5. CausesKept
    BY <1>1, <1>4 DEF CausesKept, CompletionDue, FailureDue, Gone
<1>6. StandingKept
    BY <1>4, <1>5 DEF StandingKept, Standing, CausesKept
<1>7. FirstsKept
    BY <1>3, <1>4, GidFacts DEF FirstsKept
<1>8. AskingKept
    BY <1>1, <1>3, <1>4, GidFacts DEF AskingKept, Asking, Gone
<1>9. Named'
    BY <1>1, <1>3, <1>4, GidFacts DEF Named, Names, Gone, Polling
<1>10. Unborn'
    BY <1>1, <1>3, <1>4, GidFacts DEF Unborn
<1>11. AriaTrue'
  <2>1. ASSUME NEW h \in DOMAIN aria'
        PROVE  /\ aria'[h] = "seeding" => h = Second(h[1])
               /\ (aria'[h] \in {"seeding", "complete"} /\ ~IsMetadata(h)) => CompletionDue(h[1])'
               /\ aria'[h] \in {"error", "removed"} => FailureDue(h[1])'
    <3>1. h \in Gid /\ h[1] \in Jobs
      BY <1>3, <1>4, GidFacts
    <3>2. CASE h \in DOMAIN aria /\ aria'[h] = aria[h]
      BY <1>5, <3>1, <3>2 DEF AriaTrue, CausesKept
    <3>3. CASE h = Second(j) /\ aria'[h] = "active"
      BY <3>3
    <3>4. CASE h = g
      <4>1. g = First(j) => IsMetadata(g) <=> j \in Magnets
        BY <1>3, GidFacts
      <4>2. g = First(j) \/ g = Second(j)
        BY <1>3 DEF Names
      <4>3. h[1] = j /\ h[1] \in Jobs
        BY <3>1, <3>4 DEF j
      <4> QED BY <1>1, <1>4, <1>5, <3>4, <4>1, <4>2, <4>3, GidFacts DEF AriaTrue, CausesKept, CompletionDue, FailureDue
    <3> QED BY <1>4, <3>2, <3>3, <3>4
  <2>2. ASSUME NEW i \in Magnets, First(i) \in DOMAIN aria', aria'[First(i)] = "complete"
        PROVE  Second(i) \in DOMAIN aria' \/ CompletionDue(i)'
    <3>1. i \in Jobs
      BY DEF Jobs
    <3>2. CASE First(i) \in DOMAIN aria /\ aria[First(i)] = "complete"
      BY <1>4, <1>5, <3>1, <3>2 DEF AriaTrue, CausesKept
    <3>3. CASE ~(First(i) \in DOMAIN aria /\ aria[First(i)] = "complete")
      <4>1. First(i) = g /\ i = j
        BY <1>4, <2>2, <3>1, <3>3, GidFacts DEF j
      <4>2. IsMetadata(g)
        BY <3>1, <4>1, GidFacts
      <4>3. aria[g] # "seeding"
        BY <1>1, <3>1, <4>1, GidFacts DEF AriaTrue
      <4> QED BY <1>4, <2>2, <4>1, <4>2, <4>3
    <3> QED BY <3>2, <3>3
  <2> QED BY <1>2, <2>1, <2>2 DEF AriaTrue
<1> QED BY <1>1, <1>5, <1>6, <1>7, <1>8, <1>9, <1>10, <1>11, PollKeptTrue, TrackerKeptTrue, PlacedKept, OutcomesKept

\* Add, taken by aria2 or not.
LEMMA AddTrue == ASSUME Shape, Truth, NEW j \in Jobs, Add(j) PROVE Truth'
<1> USE DEF Truth
<1>1. /\ UNCHANGED <<managerVars, done, lost, tracker, poll, removing>> /\ row[j].state = "new"
      /\ First(j) \in Gid /\ First(j)[1] = j /\ First(j) \in Names(j) /\ First(j) # Second(j)
    BY GidFacts DEF Add, Names
<1>2. /\ DOMAIN aria \subseteq Gid /\ First(j) \notin DOMAIN aria /\ Second(j) \notin DOMAIN aria
      /\ DOMAIN row = Jobs /\ \A i \in Jobs : row[i] = [state |-> row[i].state, gid |-> row[i].gid]
    BY <1>1, GidFacts, TypeParts DEF Shape, DataTyped, PartialTo, Unborn
<1>3. \/ /\ Serving /\ dispatch' = dispatch \cup {j} /\ UNCHANGED failed
         /\ DOMAIN aria' = DOMAIN aria \cup {First(j)} /\ aria'[First(j)] = "active"
         /\ \A h \in DOMAIN aria : aria'[h] = aria[h]
         /\ row'[j].state = "active"
      \/ UNCHANGED <<aria, dispatch>> /\ row'[j].state = "failed" /\ failed' = failed \cup {j}
    BY <1>2 DEF Add, With
<1>4. /\ \A i \in Jobs : i # j => row'[i] = row[i]
      /\ row'[j].gid = row[j].gid /\ row'[j].state # "new" /\ row'[j].state # "gone"
    BY <1>2 DEF Add
<1>5. CausesKept
    BY <1>1, <1>3, <1>4 DEF CausesKept, CompletionDue, FailureDue, Gone
<1>6. StandingKept
    BY <1>3, <1>5 DEF StandingKept, Standing, CausesKept
<1>7. FirstsKept
    BY <1>1, <1>3, GidFacts DEF FirstsKept
<1>8. AskingKept
    BY <1>1, <1>3, <1>5 DEF AskingKept, Asking, CausesKept
<1>9. Named'
    BY <1>1, <1>3, <1>4, <1>5, TypeParts DEF Named, CausesKept, Polling, Shape, DataTyped
<1>10. Placed'
    BY <1>1, <1>3, <1>4 DEF Placed, Polling
<1>11. Unborn'
    BY <1>1, <1>2, <1>3, <1>4, GidFacts DEF Unborn
<1>12. Serving' <=> Serving
    BY <1>1 DEF Serving, Healthy, managerVars
<1>13. AriaTrue'
  <2>1. ASSUME NEW h \in DOMAIN aria'
        PROVE  /\ aria'[h] = "seeding" => h = Second(h[1])
               /\ (aria'[h] \in {"seeding", "complete"} /\ ~IsMetadata(h)) => CompletionDue(h[1])'
               /\ aria'[h] \in {"error", "removed"} => FailureDue(h[1])'
    BY <1>2, <1>3, <1>5, GidFacts DEF AriaTrue, CausesKept
  <2>2. ASSUME NEW i \in Magnets, First(i) \in DOMAIN aria', aria'[First(i)] = "complete"
        PROVE  Second(i) \in DOMAIN aria' \/ CompletionDue(i)'
    <3>1. i \in Jobs
      BY DEF Jobs
    <3> QED BY <1>3, <1>5, <2>2, <3>1 DEF AriaTrue, CausesKept
  <2> QED BY <1>3, <1>12, <2>1, <2>2 DEF AriaTrue
<1>14. OutcomesTrue'
    BY <1>1, <1>3, <1>4, <1>5 DEF OutcomesTrue, CausesKept, CompletionDue, FailureDue, Gone
<1>15. SeenTrue' /\ PollTrue'
    BY <1>1, <1>5, <1>6, <1>7, <1>8, PollKeptTrue
<1>16. TrackerTrue'
  <2>1. \A i \in dispatch' : i \in dispatch \/ Standing(i, First(i))'
    BY <1>3 DEF Standing
  <2> QED BY <1>1, <1>5, <1>6, <1>7, <2>1, TrackerKeptTrue
<1> QED BY <1>9, <1>10, <1>11, <1>13, <1>14, <1>15, <1>16

\* Steps that leave aria as it is.
LEMMA AriaKept ==
    ASSUME Shape, AriaTrue, CausesKept, UNCHANGED <<managerVars, aria>>
    PROVE  AriaTrue' /\ StandingKept /\ FirstsKept /\ AskingKept
<1>1. DOMAIN aria \subseteq Gid /\ (Serving' <=> Serving) /\ Magnets \subseteq Jobs
    BY TypeParts DEF Shape, DataTyped, PartialTo, Serving, Healthy, managerVars, Jobs
<1>2. AriaTrue'
  <2>1. \A h \in DOMAIN aria : h[1] \in Jobs
    BY <1>1, GidFacts
  <2> QED BY <1>1, <2>1 DEF AriaTrue, CausesKept
<1>3. StandingKept /\ FirstsKept
    BY DEF StandingKept, FirstsKept, Standing, CausesKept
<1>4. AskingKept
    BY DEF AskingKept, Asking, CausesKept
<1> QED BY <1>2, <1>3, <1>4

\* The tracker and the row learn the GID.
LEMMA TrackTrue == ASSUME Shape, Truth, NEW j \in Jobs, Track(j) PROVE Truth'
<1> USE DEF Truth
<1>1. /\ UNCHANGED <<managerVars, aria, done, failed, lost, poll, removing>> /\ j \in dispatch
      /\ dispatch' = dispatch \ {j} /\ j \in DOMAIN tracker'
      /\ \A i \in DOMAIN tracker' : i \in DOMAIN tracker \/ i = j
      /\ tracker'[j] = First(j) /\ \A i \in DOMAIN tracker : i # j => tracker'[i] = tracker[i]
      /\ First(j) \in Names(j)
    BY DEF Track, Names, With
<1>2. /\ DOMAIN row = Jobs /\ \A i \in Jobs : row[i] = [state |-> row[i].state, gid |-> row[i].gid]
    BY TypeParts DEF Shape, DataTyped
<1>3. /\ \A i \in Jobs : row'[i].state = row[i].state
      /\ \A i \in Jobs : row'[i].gid = row[i].gid \/ (i = j /\ row'[i].gid = First(j))
    BY <1>2 DEF Track
<1>4. CausesKept
    BY <1>1, <1>3 DEF CausesKept, CompletionDue, FailureDue, Gone
<1>5. AriaTrue' /\ StandingKept /\ FirstsKept /\ AskingKept
    BY <1>1, <1>4, AriaKept
<1>6. Named'
    BY <1>1, <1>3, TypeParts DEF Named, Gone, Polling, Shape, DataTyped
<1>7. Placed'
    BY <1>1, <1>3 DEF Placed, Polling
<1>8. Unborn'
    BY <1>1, <1>3, GidFacts, TypeParts DEF Unborn, Shape, DataTyped, PartialTo
<1>9. OutcomesTrue'
    BY <1>1, <1>3 DEF OutcomesTrue
<1>10. SeenTrue' /\ PollTrue'
    BY <1>1, <1>4, <1>5, PollKeptTrue
<1>11. TrackerTrue'
  <2>1. Standing(j, First(j))' /\ (Polling => j \notin DOMAIN poll.ids)
    BY <1>1, <1>5 DEF TrackerTrue, StandingKept, Placed
  <2>2. \A i \in DOMAIN tracker' :
          \/ i \in DOMAIN tracker /\ tracker'[i] = tracker[i]
          \/ /\ tracker'[i] = First(i) /\ Standing(i, First(i))'
             /\ Polling => i \notin DOMAIN poll.ids
    BY <1>1, <2>1
  <2>3. \A i \in dispatch' : i \in dispatch \/ Standing(i, First(i))'
    BY <1>1
  <2> QED BY <1>1, <1>4, <1>5, <2>2, <2>3, TrackerKeptTrue
<1> QED BY <1>5, <1>6, <1>7, <1>8, <1>9, <1>10, <1>11

\* A row goes.
LEMMA DeleteTrue == ASSUME Shape, Truth, NEW j \in Jobs, Delete(j) PROVE Truth'
<1> USE DEF Truth
<1>1. /\ UNCHANGED <<managerVars, aria, done, failed, lost, dispatch, tracker, poll>>
      /\ \A r \in removing' : r \in removing \/ (r.job = j /\ r.gid = row[j].gid)
    BY DEF Delete
<1>2. /\ DOMAIN row = Jobs /\ \A i \in Jobs : row[i] = [state |-> row[i].state, gid |-> row[i].gid]
    BY TypeParts DEF Shape, DataTyped
<1>3. /\ \A i \in Jobs : i # j => row'[i] = row[i]
      /\ row'[j].state = "gone" /\ row'[j].gid = row[j].gid /\ row[j].state # "new"
    BY <1>2 DEF Delete
<1>4. CausesKept
    BY <1>1, <1>3 DEF CausesKept, CompletionDue, FailureDue, Gone
<1>5. AriaTrue' /\ StandingKept /\ FirstsKept /\ AskingKept
    BY <1>1, <1>4, AriaKept
<1>6. Named'
  <2>1. \A r \in removing : r.job \in Jobs
    BY TypeParts DEF Shape, DataTyped
  <2> QED BY <1>1, <1>3, <1>4, <2>1 DEF Named, Gone, Polling, CausesKept
<1>7. Placed'
    BY <1>1, <1>3 DEF Placed, Polling
<1>8. Unborn'
    BY <1>1, <1>3, GidFacts, TypeParts DEF Unborn, Shape, DataTyped, PartialTo
<1>9. OutcomesTrue'
    BY <1>1, <1>3 DEF OutcomesTrue
<1>10. SeenTrue' /\ PollTrue' /\ TrackerTrue'
    BY <1>1, <1>4, <1>5, PollKeptTrue, TrackerKeptTrue
<1> QED BY <1>5, <1>6, <1>7, <1>8, <1>9, <1>10

\* A deletion's GID is its job's.
LEMMA RemovalFacts ==
    ASSUME Shape, Truth, NEW r \in removing
    PROVE  /\ r.job \in Jobs /\ Gone(r.job) /\ DOMAIN aria \subseteq Gid
           /\ \A i \in Jobs : r.gid \in Names(i) => i = r.job
           /\ \A i \in Jobs : First(i) \in Names(i) /\ (i \in Magnets => Second(i) \in Names(i))
           /\ r.gid \in Gid => r.gid \in Names(r.job) /\ r.gid[1] = r.job
<1>1. /\ r.job \in Jobs /\ r.gid \in Names(r.job) \cup {NoGid} /\ Gone(r.job) /\ DOMAIN aria \subseteq Gid
    BY TypeParts DEF Truth, Named, Shape, DataTyped, PartialTo
<1> QED BY <1>1, GidFacts DEF Names

\* CancelJob ends a download in progress and its tracking.
LEMMA CancelTrue == ASSUME Shape, Truth, NEW r \in removing, Cancel(r) PROVE Truth'
<1> USE DEF Truth
<1>1. /\ UNCHANGED <<managerVars, done, lost, row, dispatch, poll>>
      /\ \A s \in removing' : s \in removing \/ (s.job = r.job /\ s.gid = r.gid)
    <2>1. r \in [job: Jobs, gid: Gid \cup {NoGid}, pc: {"cancel", "remove"}]
      BY TypeParts DEF Shape, DataTyped
    <2> QED BY <2>1 DEF Cancel
<1>2. /\ DOMAIN tracker' \subseteq DOMAIN tracker /\ \A i \in DOMAIN tracker' : tracker'[i] = tracker[i]
      /\ DOMAIN aria' = DOMAIN aria
      /\ \/ /\ r.gid \in DOMAIN aria /\ aria[r.gid] \in {"active", "seeding"}
            /\ failed' = failed \cup {r.job}
            /\ aria'[r.gid] = "removed"
            /\ \A h \in DOMAIN aria : h # r.gid => aria'[h] = aria[h]
         \/ UNCHANGED <<aria, failed>>
    BY DEF Cancel, Without, ActiveGids
<1>3. CausesKept
    BY <1>1, <1>2 DEF CausesKept, CompletionDue, FailureDue, Gone
<1>4. StandingKept /\ FirstsKept
    BY <1>2, <1>3 DEF StandingKept, FirstsKept, Standing, CausesKept
<1>5. AskingKept
    BY <1>1, <1>2, <1>3 DEF AskingKept, Asking, CausesKept
<1>6. Named'
    BY <1>1, <1>2, <1>3 DEF Named, Gone, Polling
<1>7. Placed' /\ Unborn'
    BY <1>1, <1>2 DEF Placed, Unborn, Polling
<1>8. Serving' <=> Serving
    BY <1>1 DEF Serving, Healthy, managerVars
<1>9. AriaTrue'
  <2>1. ASSUME NEW h \in DOMAIN aria'
        PROVE  /\ aria'[h] = "seeding" => h = Second(h[1])
               /\ (aria'[h] \in {"seeding", "complete"} /\ ~IsMetadata(h)) => CompletionDue(h[1])'
               /\ aria'[h] \in {"error", "removed"} => FailureDue(h[1])'
    <3>1. h \in Gid /\ h[1] \in Jobs /\ h \in DOMAIN aria
      BY <1>2, RemovalFacts, GidFacts
    <3>2. CASE aria'[h] = aria[h]
      BY <1>3, <3>1, <3>2 DEF AriaTrue, CausesKept
    <3>3. CASE aria'[h] # aria[h]
      BY <1>2, <3>1, <3>3, RemovalFacts DEF FailureDue
    <3> QED BY <3>2, <3>3
  <2>2. ASSUME NEW i \in Magnets, First(i) \in DOMAIN aria', aria'[First(i)] = "complete"
        PROVE  Second(i) \in DOMAIN aria' \/ CompletionDue(i)'
    <3>1. i \in Jobs
      BY DEF Jobs
    <3> QED BY <1>2, <1>3, <2>2, <3>1 DEF AriaTrue, CausesKept
  <2> QED BY <1>2, <1>8, <2>1, <2>2 DEF AriaTrue
<1>10. OutcomesTrue'
    BY <1>1, <1>3, OutcomesKept
<1>11. SeenTrue' /\ PollTrue' /\ TrackerTrue'
    BY <1>1, <1>2, <1>3, <1>4, <1>5, PollKeptTrue, TrackerKeptTrue
<1> QED BY <1>6, <1>7, <1>9, <1>10, <1>11

\* RemoveJob takes the download and the files away.
LEMMA RemoveTrue == ASSUME Shape, Truth, NEW r \in removing, Remove(r) PROVE Truth'
<1> USE DEF Truth
<1>1. /\ UNCHANGED <<managerVars, lost, row, dispatch, tracker, poll>>
      /\ removing' \subseteq removing /\ done' = done \ {r.job} /\ failed \subseteq failed'
    BY DEF Remove
<1>2. /\ DOMAIN aria' \subseteq DOMAIN aria /\ \A h \in DOMAIN aria' : aria'[h] = aria[h]
      /\ \A h \in DOMAIN aria : h \in DOMAIN aria' \/ h = r.gid
    BY DEF Remove, Without
<1>3. CausesKept
    BY <1>1, RemovalFacts DEF CausesKept, CompletionDue, FailureDue, Gone
<1>4. StandingKept /\ FirstsKept
  <2>1. ASSUME NEW i \in Jobs, NEW h \in Names(i), h \in DOMAIN aria, h \notin DOMAIN aria'
        PROVE  Gone(i)'
    BY <1>1, <1>2, <2>1, RemovalFacts DEF Gone
  <2> QED BY <1>2, <1>3, <2>1 DEF StandingKept, FirstsKept, Standing, CausesKept, FailureDue
<1>5. AskingKept
  <2>1. ASSUME NEW i \in Jobs, First(i) \in DOMAIN aria, First(i) \notin DOMAIN aria'
        PROVE  Gone(i)'
    BY <1>1, <1>2, <2>1, RemovalFacts DEF Gone
  <2> QED BY <1>1, <1>2, <1>3, <2>1 DEF AskingKept, Asking, CausesKept
<1>6. Named'
    BY <1>1, <1>2, <1>3 DEF Named, Gone, Polling
<1>7. Placed' /\ Unborn'
    BY <1>1, <1>2 DEF Placed, Unborn, Polling
<1>8. Serving' <=> Serving
    BY <1>1 DEF Serving, Healthy, managerVars
<1>9. AriaTrue'
  <2>1. \A h \in DOMAIN aria' : h[1] \in Jobs
    BY <1>2, RemovalFacts, GidFacts
  <2>2. ASSUME NEW i \in Magnets, First(i) \in DOMAIN aria', aria'[First(i)] = "complete"
        PROVE  Second(i) \in DOMAIN aria' \/ CompletionDue(i)'
    <3>1. i \in Jobs
      BY DEF Jobs
    <3>2. CASE Second(i) = r.gid
      BY <1>1, <3>1, <3>2, RemovalFacts DEF CompletionDue, Gone
    <3>3. CASE Second(i) # r.gid
      BY <1>2, <1>3, <2>2, <3>1, <3>3 DEF AriaTrue, CausesKept
    <3> QED BY <3>2, <3>3
  <2> QED BY <1>2, <1>3, <1>8, <2>1, <2>2 DEF AriaTrue, CausesKept
<1>10. OutcomesTrue'
    BY <1>1, <1>3, OutcomesKept
<1>11. SeenTrue' /\ PollTrue' /\ TrackerTrue'
    BY <1>1, <1>2, <1>3, <1>4, <1>5, PollKeptTrue, TrackerKeptTrue
<1> QED BY <1>6, <1>7, <1>9, <1>10, <1>11

\* A poll begins with what is tracked.
LEMMA PollListTrue == ASSUME Shape, Truth, PollList PROVE Truth'
<1> USE DEF Truth
<1>1. /\ UNCHANGED <<managerVars, aria, done, failed, lost, row, dispatch, tracker, removing>>
      /\ poll.pc = "idle" /\ poll'.pc = "active" /\ poll'.ids = tracker /\ poll'.todo = DOMAIN tracker
      /\ DOMAIN poll'.seen = {} /\ DOMAIN poll'.reports = {}
    BY NewPoll DEF PollList
<1>2. CausesKept
    BY <1>1 DEF CausesKept, CompletionDue, FailureDue, Gone
<1>3. AriaTrue' /\ StandingKept /\ FirstsKept
    BY <1>1, <1>2, AriaKept
<1>4. Named' /\ Placed' /\ Unborn' /\ SeenTrue' /\ OutcomesTrue'
    BY <1>1 DEF Named, Placed, Unborn, SeenTrue, OutcomesTrue, Gone, Polling
<1>5. \A j, g : Held(j, g) <=> Held(j, g)'
    BY <1>1 DEF Held, Standing, Succeeded, FailureDue, Gone
<1>6. TrackerTrue'
    BY <1>1, <1>5 DEF TrackerTrue, Polling, Standing, FailureDue, Gone
<1>7. PollTrue'
    BY <1>1, <1>5 DEF PollTrue, TrackerTrue, Polling, Pending, Held
<1> QED BY <1>3, <1>4, <1>6, <1>7

\* What mapStatus makes of aria2's states.
LEMMA StateFacts ==
    \A x : /\ State(x) = "active" <=> x \notin {"seeding", "complete", "removed", "error"}
           /\ State(x) = "completed" <=> x \in {"seeding", "complete"}
           /\ State(x) = "failed" => x \notin {"active", "seeding", "complete"}
BY DEF State

\* TellActive sees every download in progress, and removes what only seeds: it has
\* been seen, and it is complete.
LEMMA PollActiveTrue == ASSUME Shape, Truth, PollActive PROVE Truth'
<1> USE DEF Truth
<1>1. /\ UNCHANGED <<managerVars, done, failed, lost, row, dispatch, tracker, removing>>
      /\ poll.pc = "active" /\ Polling /\ DOMAIN poll.seen = {} /\ DOMAIN poll.reports = {}
      /\ poll.todo = DOMAIN poll.ids
    BY DEF PollActive, Shape, PollShape, Polling
<1>2. CausesKept
    BY <1>1 DEF CausesKept, CompletionDue, FailureDue, Gone
<1>3. OutcomesTrue'
    BY <1>1, <1>2, OutcomesKept
<1>4. CASE poll' = IdlePoll /\ UNCHANGED aria
  <2>1. poll'.pc = "idle"
    BY <1>4, NoPoll
  <2>2. AriaTrue' /\ StandingKept /\ FirstsKept
    BY <1>1, <1>2, <1>4, AriaKept
  <2>3. Named' /\ Placed' /\ Unborn' /\ SeenTrue' /\ PollTrue'
    BY <1>1, <1>4, <2>1 DEF Named, Placed, Unborn, SeenTrue, PollTrue, Gone, Polling
  <2>4. \A j, g : Held(j, g) <=> Held(j, g)'
    BY <1>1, <1>4 DEF Held, Standing, Succeeded, FailureDue, Gone
  <2>5. \A j \in DOMAIN tracker : Held(j, tracker[j])
    BY <1>1 DEF TrackerTrue, PollTrue, Pending, Held, Succeeded
  <2>6. TrackerTrue'
    BY <1>1, <1>4, <2>1, <2>4, <2>5 DEF TrackerTrue, Polling, Standing, FailureDue, Gone
  <2> QED BY <1>3, <2>2, <2>3, <2>6
<1>5. CASE /\ Serving
           /\ poll' = [poll EXCEPT !.pc = "match",
                !.seen = [g \in ActiveGids \cup {First(c[1]) : c \in ActiveGids} |-> SeenAs(g)]]
           /\ aria' = Without(aria, {g \in DOMAIN aria : aria[g] = "seeding"})
  <2> DEFINE S == [g \in ActiveGids \cup {First(c[1]) : c \in ActiveGids} |-> SeenAs(g)]
  <2>1. poll' = [poll EXCEPT !.pc = "match", !.seen = S]
    BY <1>5
  <2>2. /\ DOMAIN S = ActiveGids \cup {First(c[1]) : c \in ActiveGids}
        /\ \A g \in DOMAIN S : S[g] = SeenAs(g)
    OBVIOUS
  <2> HIDE DEF S
  <2>3. /\ poll'.pc = "match" /\ poll'.ids = poll.ids /\ poll'.todo = poll.todo
        /\ poll'.seen = S /\ poll'.reports = poll.reports /\ Polling'
    BY <1>1, <2>1, SeenPoll DEF Shape, Polling
  <2>4. /\ DOMAIN aria' = {g \in DOMAIN aria : aria[g] # "seeding"}
        /\ \A g \in DOMAIN aria' : aria'[g] = aria[g]
    BY <1>5 DEF Without
  <2>5. /\ DOMAIN aria \subseteq Gid /\ DOMAIN tracker \subseteq Jobs /\ dispatch \subseteq Jobs
        /\ DOMAIN poll.ids \subseteq Jobs
        /\ \A g \in DOMAIN aria : g \in Names(g[1]) /\ g[1] \in Jobs
    BY <1>1, GidFacts, TypeParts DEF Named, Shape, DataTyped, PollTyped, PartialTo
  \* What the poll has seen is a download in progress, under its own GID or that
  \* of its metadata.
  <2>6. ASSUME NEW g \in DOMAIN S
        PROVE  \E c \in DOMAIN aria :
                 /\ aria[c] \in {"active", "seeding"} /\ c[1] = g[1]
                 /\ S[g].gid = c /\ S[g].state = State(aria[c])
                 /\ c = g \/ c = Second(g[1])
    <3>1. CASE g \in ActiveGids
      <4>1. g \in DOMAIN aria /\ aria[g] \in {"active", "seeding"}
        BY <3>1 DEF ActiveGids
      <4>2. S[g] = [gid |-> g, state |-> State(aria[g])]
        BY <2>2, <3>1 DEF SeenAs
      <4>3. S[g].gid = g /\ S[g].state = State(aria[g])
        BY <4>2
      <4> QED BY <4>1, <4>3
    <3>2. CASE g \notin ActiveGids
      <4>1. PICK c \in ActiveGids : g = First(c[1])
        BY <2>2, <3>2
      <4>2. c \in DOMAIN aria /\ c \in Gid /\ aria[c] \in {"active", "seeding"}
        BY <2>5 DEF ActiveGids
      <4>3. c = Second(c[1]) /\ g[1] = c[1] /\ Follower(g) = c
        BY <3>2, <4>1, <4>2, GidFacts
      <4>4. S[g] = [gid |-> c, state |-> State(aria[c])]
        BY <2>2, <3>2, <4>3 DEF SeenAs
      <4>5. S[g].gid = c /\ S[g].state = State(aria[c])
        BY <4>4
      <4> QED BY <4>2, <4>3, <4>5
    <3> QED BY <3>1, <3>2
  <2>7. Named'
    <3>1. \A g \in DOMAIN S : S[g].gid \in Names(g[1]) \cap {g, Second(g[1])}
      BY <2>5, <2>6
    <3> QED BY <1>1, <2>3, <2>4, <3>1 DEF Named, Gone
  <2>8. Placed' /\ Unborn'
    BY <1>1, <2>3, <2>4 DEF Placed, Unborn, Polling
  <2>9. SeenTrue'
    <3>1. ASSUME NEW g \in DOMAIN S
          PROVE  S[g].state # "failed" /\ (S[g].state = "completed" => CompletionDue(g[1])')
      <4>1. PICK c \in DOMAIN aria :
                 /\ aria[c] \in {"active", "seeding"} /\ c[1] = g[1]
                 /\ S[g].state = State(aria[c])
        BY <2>6
      <4>2. S[g].state # "failed" /\ (S[g].state = "completed" => aria[c] = "seeding")
        BY <4>1, StateFacts
      <4>3. aria[c] = "seeding" => CompletionDue(c[1])
        BY <2>5, GidFacts DEF AriaTrue
      <4> QED BY <1>2, <2>5, <4>1, <4>2, <4>3 DEF CausesKept
    <3> QED BY <2>3, <3>1 DEF SeenTrue
  <2>10. \A j \in Jobs : Standing(j, First(j)) => Standing(j, First(j))'
    BY <1>1, <2>4, GidFacts DEF AriaTrue, Standing, FailureDue, Gone
  <2>11. AriaTrue'
    <3>1. Serving' <=> Serving
      BY <1>1 DEF Serving, Healthy, managerVars
    <3>2. ASSUME NEW i \in Magnets, First(i) \in DOMAIN aria', aria'[First(i)] = "complete"
          PROVE  Second(i) \in DOMAIN aria' \/ CompletionDue(i)'
      <4>1. i \in Jobs /\ ~IsMetadata(Second(i)) /\ Second(i)[1] = i
        BY GidFacts DEF Jobs
      <4>2. CompletionDue(i) => CompletionDue(i)'
        BY <1>2, <4>1 DEF CausesKept
      <4> QED BY <2>4, <3>2, <4>1, <4>2 DEF AriaTrue
    <3> QED BY <1>2, <1>5, <2>4, <2>5, <3>1, <3>2 DEF AriaTrue, CausesKept
  <2>12. TrackerTrue'
    BY <1>1, <2>3, <2>5, <2>10 DEF TrackerTrue
  <2>13. ASSUME NEW j \in poll.todo PROVE Pending(j)'
    <3> DEFINE g == poll.ids[j]
    <3>1. j \in Jobs /\ g \in Names(j) /\ g[1] = j
      BY <1>1, <2>5, GidFacts DEF Named, Names
    <3>2. Standing(j, g) /\ Succeeded(j, g)
      BY <1>1 DEF PollTrue, Pending
    <3>3. Standing(j, g)' \/ g \in DOMAIN S
      BY <1>1, <2>2, <2>3, <2>4, <3>2 DEF Standing, ActiveGids, FailureDue, Gone
    <3>4. Succeeded(j, g)'
      BY <2>3, <2>4, <3>2 DEF Succeeded
    <3>5. ASSUME g \in DOMAIN S, S[g].state = "active" PROVE S[g].gid \in DOMAIN aria'
      <4>1. PICK c \in DOMAIN aria : S[g].gid = c /\ S[g].state = State(aria[c])
        BY <2>6, <3>5
      <4> QED BY <2>4, <3>5, <4>1, StateFacts
    <3> QED BY <2>3, <3>3, <3>4, <3>5 DEF Pending, Standing
  <2>14. PollTrue'
    BY <1>1, <2>3, <2>13 DEF PollTrue
  <2> QED BY <1>3, <2>7, <2>8, <2>9, <2>11, <2>12, <2>14
<1> QED BY <1>4, <1>5 DEF PollActive

\* What is known of a job when the poll comes to it.
LEMMA TurnFacts ==
    ASSUME Shape, Truth, Polling, NEW j \in poll.todo
    PROVE  /\ j \in Jobs /\ poll.ids[j] \in Names(j) /\ poll.ids[j] \in Gid
           /\ poll.ids[j][1] = j /\ Pending(j) /\ j \in DOMAIN poll.ids
           /\ First(j) \in Names(j) /\ First(j) # Second(j)
           /\ poll.ids[j] = First(j) \/ (poll.ids[j] = Second(j) /\ j \in Magnets)
<1>1. j \in DOMAIN poll.ids /\ j \in Jobs
    BY TypeParts DEF Shape, PollTyped, PartialTo, Polling
<1>2. poll.ids[j] \in Names(j) /\ Pending(j)
    BY <1>1 DEF Truth, Named, PollTrue
<1> QED BY <1>1, <1>2, GidFacts DEF Names

\* A result is true if it has its cause; what it removes from aria2 is the job's
\* own, and the metadata goes no later than the second download.
LEMMA ReportedTrue ==
    ASSUME Shape, Truth, Polling, poll.pc # "active", NEW j \in poll.todo,
           NEW report, NEW gids, gids \subseteq Names(j), report.gid \in Names(j),
           Reported(j, report, gids),
           UNCHANGED <<managerVars, done, failed, lost, row, dispatch, tracker, removing>>,
           report.state = "active" =>
             /\ Standing(j, report.gid) /\ report.gid \notin gids
             /\ report.gid # First(j) => First(j) \in gids \/ First(j) \notin DOMAIN aria,
           report.state = "completed" => CompletionDue(j),
           report.state = "failed" => FailureDue(j),
           Second(j) \in gids => First(j) \in gids \/ First(j) \notin DOMAIN aria
    PROVE  Truth'
<1> USE DEF Truth
<1>1. /\ poll'.pc = "match" /\ poll'.ids = poll.ids /\ poll'.todo = poll.todo \ {j}
      /\ poll'.seen = poll.seen /\ poll'.reports = With(poll.reports, j, report) /\ Polling'
    BY ReportedPoll DEF Shape, Polling
<1>2. /\ DOMAIN poll'.reports = DOMAIN poll.reports \cup {j} /\ poll'.reports[j] = report
      /\ \A i \in DOMAIN poll.reports : i # j => poll'.reports[i] = poll.reports[i]
    BY <1>1 DEF With
<1>3. /\ DOMAIN aria' \subseteq DOMAIN aria /\ \A h \in DOMAIN aria' : aria'[h] = aria[h]
      /\ \A h \in DOMAIN aria : h \in DOMAIN aria' \/ h \in gids
      /\ \A h \in gids : h \notin DOMAIN aria'
    BY DEF Reported, Without, AriaTrue
<1>4. CausesKept
    BY DEF CausesKept, CompletionDue, FailureDue, Gone
<1>5. /\ j \in Jobs /\ j \in DOMAIN poll.ids /\ First(j) \in Names(j)
      /\ DOMAIN poll.ids = poll.todo \cup DOMAIN poll.reports /\ DOMAIN poll.ids \subseteq Jobs
      /\ DOMAIN aria \subseteq Gid /\ DOMAIN tracker \subseteq Jobs /\ dispatch \subseteq Jobs
      /\ \A h \in Names(j) : h[1] = j
      /\ \A i \in Jobs : i # j => Names(i) \cap Names(j) = {}
    <2>1. /\ j \in Jobs /\ j \in DOMAIN poll.ids
          /\ DOMAIN poll.ids = poll.todo \cup DOMAIN poll.reports /\ DOMAIN poll.ids \subseteq Jobs
          /\ DOMAIN aria \subseteq Gid /\ DOMAIN tracker \subseteq Jobs /\ dispatch \subseteq Jobs
      BY TypeParts DEF Shape, PollShape, PollTyped, DataTyped, PartialTo, Polling
    <2> QED BY <2>1, GidFacts DEF Names
\* No other job's downloads are touched.
<1>6. /\ \A i \in Jobs : i # j => \A h \in Names(i) : Standing(i, h) => Standing(i, h)'
      /\ FirstsKept
    BY <1>3, <1>4, <1>5 DEF Standing, CausesKept, FirstsKept
<1>7. j \notin dispatch /\ row[j].state # "new"
    BY <1>5 DEF Placed
<1>8. Named'
    BY <1>1, <1>2, <1>3 DEF Named, Gone
<1>9. Placed' /\ Unborn'
    BY <1>1, <1>3 DEF Placed, Unborn, Polling
<1>10. AriaTrue'
  <2>1. Serving' <=> Serving
    BY DEF Serving, Healthy, managerVars
  <2>2. \A h \in DOMAIN aria' : h[1] \in Jobs
    BY <1>3, <1>5, GidFacts
  <2>3. ASSUME NEW i \in Magnets, First(i) \in DOMAIN aria', aria'[First(i)] = "complete"
        PROVE  Second(i) \in DOMAIN aria' \/ CompletionDue(i)'
    <3>1. i \in Jobs /\ Second(i) \in Names(i)
      BY DEF Jobs, Names
    <3>2. Second(i) \notin gids
      BY <1>3, <1>5, <2>3, <3>1
    <3> QED BY <1>3, <1>4, <2>3, <3>1, <3>2 DEF AriaTrue, CausesKept
  <2> QED BY <1>3, <1>4, <2>1, <2>2, <2>3 DEF AriaTrue, CausesKept
<1>11. SeenTrue'
  <2>1. \A g \in DOMAIN poll.seen : g[1] \in Jobs
    BY GidFacts, TypeParts DEF Shape, PollTyped, PartialTo, Polling
  <2> QED BY <1>1, <1>4, <2>1 DEF SeenTrue, CausesKept, Polling
<1>12. TrackerTrue'
  <2>1. \A i \in dispatch : Standing(i, First(i))'
    BY <1>5, <1>6, <1>7, GidFacts DEF TrackerTrue, Names
  <2>2. \A i \in DOMAIN tracker : i \notin DOMAIN poll.ids
          => tracker[i] = First(i) /\ Standing(i, First(i))'
    BY <1>5, <1>6, GidFacts DEF TrackerTrue, Names
  <2>3. \A i \in DOMAIN tracker : i \in DOMAIN poll.ids => tracker[i] = poll.ids[i]
    BY DEF TrackerTrue
  <2> QED BY <1>1, <2>1, <2>2, <2>3 DEF TrackerTrue
<1>13. ASSUME NEW i \in poll'.todo PROVE Pending(i)'
  <2>1. /\ i \in poll.todo /\ i # j /\ i \in Jobs /\ i \in DOMAIN poll.ids
        /\ Pending(i) /\ row[i].state # "new" /\ poll.ids[i] \in Names(i)
    BY <1>1, <1>5, TurnFacts DEF Placed
  <2>2. poll.ids[i] \in DOMAIN poll.seen => poll.seen[poll.ids[i]].gid \in Names(i)
    BY <2>1, TurnFacts DEF Named
  <2> QED BY <1>1, <1>6, <2>1, <2>2 DEF Pending, FirstsKept, Succeeded
<1>14. ASSUME NEW i \in DOMAIN poll'.reports PROVE Answered(i)'
  <2>1. CASE i = j
    <3>1. report.state = "active" => Held(j, report.gid)'
      BY <1>3, <1>4, <1>5 DEF Held, Standing, Succeeded, CausesKept
    <3>2. poll'.reports[i] = report
      BY <1>2, <2>1
    <3> QED BY <1>4, <1>5, <2>1, <3>1, <3>2 DEF Answered, CausesKept, Held, Standing, Succeeded
  <2>2. CASE i # j
    <3>1. /\ i \in DOMAIN poll.reports /\ poll'.reports[i] = poll.reports[i] /\ i \in Jobs
          /\ Answered(i) /\ row[i].state # "new" /\ poll.reports[i].gid \in Names(i)
      BY <1>2, <1>5, <2>2 DEF PollTrue, Placed, Named
    <3> QED BY <1>4, <1>6, <2>2, <3>1 DEF Answered, CausesKept, Held, Succeeded, FirstsKept
  <2> QED BY <2>1, <2>2
<1>15. PollTrue'
    BY <1>1, <1>13, <1>14 DEF PollTrue
<1>16. OutcomesTrue'
    BY <1>4, OutcomesKept
<1> QED BY <1>8, <1>9, <1>10, <1>11, <1>12, <1>15, <1>16

\* A job found among the active downloads.
LEMMA MatchActiveTrue == ASSUME Shape, Truth, NEW j \in Jobs, MatchActive(j) PROVE Truth'
<1> USE DEF Truth
<1> DEFINE g == poll.ids[j]
           report == poll.seen[g]
           gids == IF report.gid # g THEN {g} ELSE {}
<1>1. /\ poll.pc = "match" /\ Polling /\ j \in poll.todo /\ g \in DOMAIN poll.seen
      /\ Reported(j, report, gids)
      /\ UNCHANGED <<managerVars, done, failed, lost, row, dispatch, tracker, removing>>
    BY DEF MatchActive, Polling
<1>2. /\ g \in Names(j) /\ g[1] = j /\ Pending(j) /\ First(j) # Second(j)
      /\ g = First(j) \/ g = Second(j)
    BY <1>1, TurnFacts
<1>3. /\ report.gid \in Names(j) /\ report.gid \in {g, Second(j)}
      /\ report.state # "failed" /\ (report.state = "completed" => CompletionDue(j))
    BY <1>1, <1>2 DEF Named, SeenTrue
<1>4. /\ report.state = "active" => Standing(j, report.gid)
      /\ Succeeded(j, g)
    BY <1>1, <1>2 DEF Pending
<1>5. gids \subseteq Names(j) /\ report.gid \notin gids /\ Second(j) \notin gids
    BY <1>2, <1>3
<1>6. report.gid # First(j) => First(j) \in gids \/ First(j) \notin DOMAIN aria
    BY <1>2, <1>3, <1>4 DEF Succeeded
<1> HIDE DEF g, report, gids
<1> QED BY <1>1, <1>3, <1>4, <1>5, <1>6, ReportedTrue

\* A job found by its GID.
LEMMA ToldTrue ==
    ASSUME Shape, Truth, poll.pc = "match", NEW j \in poll.todo, Told(j, poll.ids[j]),
           UNCHANGED <<managerVars, done, failed, lost, row, dispatch, tracker, removing>>
    PROVE  Truth'
<1> USE DEF Truth
<1> DEFINE g == poll.ids[j]
<1>1. /\ Polling /\ j \in Jobs /\ g \in Names(j) /\ g \in Gid /\ g[1] = j /\ Succeeded(j, g)
      /\ g = First(j) \/ g = Second(j)
      /\ g = First(j) \/ j \in Magnets
      /\ First(j) # Second(j) /\ g \in DOMAIN aria /\ Serving
    BY TurnFacts DEF Polling, Pending, Told
<1>2. CASE IsMetadata(g) /\ aria[g] = "complete"
  <2>1. poll' = [poll EXCEPT !.pc = "child", !.own = {j}] /\ UNCHANGED aria
    BY <1>2 DEF Told
  <2>2. /\ poll'.pc = "child" /\ poll'.ids = poll.ids /\ poll'.todo = poll.todo
        /\ poll'.seen = poll.seen /\ poll'.reports = poll.reports /\ poll'.own = {j} /\ Polling'
    BY <2>1, ChildPoll DEF Shape, Polling
  <2>3. j \in Magnets /\ g = First(j)
    BY <1>1, <1>2, GidFacts
  <2>4. CausesKept
    BY DEF CausesKept, CompletionDue, FailureDue, Gone
  <2>5. AriaTrue' /\ OutcomesTrue'
    BY <2>1, <2>4, AriaKept, OutcomesKept
  <2>6. Named' /\ Placed' /\ Unborn' /\ SeenTrue'
    BY <1>1, <2>1, <2>2 DEF Named, Placed, Unborn, SeenTrue, Gone, CompletionDue
  <2>7. TrackerTrue'
    BY <1>1, <2>1, <2>2 DEF TrackerTrue, Standing, FailureDue, Gone
  <2>8. Asking(j)'
    BY <1>1, <1>2, <2>1, <2>2, <2>3 DEF Asking
  <2>9. \A i : (Pending(i) => Pending(i)') /\ (Answered(i) => Answered(i)')
    BY <2>1, <2>2 DEF Pending, Answered, Held, Standing, Succeeded, FailureDue, CompletionDue, Gone
  <2>10. PollTrue'
    BY <1>1, <2>2, <2>8, <2>9 DEF PollTrue
  <2> QED BY <2>5, <2>6, <2>7, <2>10
<1>3. CASE ~(IsMetadata(g) /\ aria[g] = "complete")
  <2> DEFINE report == [gid |-> g, state |-> State(aria[g])]
             gids == IF aria[g] \in Ended THEN {g} ELSE {}
  <2>1. Reported(j, report, gids)
    BY <1>3 DEF Told
  <2>2. report.gid = g /\ report.state = State(aria[g])
    OBVIOUS
  <2> HIDE DEF report
  <2>3. report.state = "active" => Standing(j, g) /\ g \notin gids
    BY <1>1, <2>2, StateFacts DEF Standing, Ended
  <2>4. g # First(j) => First(j) \notin DOMAIN aria
    BY <1>1 DEF Succeeded
  <2>5. report.state = "completed" => CompletionDue(j)
    <3>1. aria[g] = "seeding" => ~IsMetadata(g)
      BY <1>1, GidFacts DEF AriaTrue
    <3>2. report.state = "completed" => aria[g] \in {"seeding", "complete"} /\ ~IsMetadata(g)
      BY <1>3, <2>2, <3>1, StateFacts
    <3> HIDE DEF g
    <3> QED BY <1>1, <3>2 DEF AriaTrue
  <2>6. report.state = "failed" => FailureDue(j)
    <3>1. aria[g] \in {"active", "seeding", "complete", "error", "removed"}
      BY <1>1, TypeParts DEF Shape, DataTyped, PartialTo, AriaStatuses
    <3> QED BY <1>1, <2>2, <3>1, StateFacts DEF AriaTrue
  <2>7. Second(j) \in gids => First(j) \notin DOMAIN aria
    BY <1>1, <2>4
  <2>8. gids \subseteq Names(j) /\ report.gid \in Names(j) /\ poll.pc # "active"
    BY <1>1, <2>2
  <2> HIDE DEF gids, g
  <2> QED BY <1>1, <2>1, <2>2, <2>3, <2>4, <2>5, <2>6, <2>7, <2>8, ReportedTrue
<1> QED BY <1>2, <1>3

\* A job that aria2 does not know has failed, been lost or been deleted, when no
\* call fails but for want of aria2.
LEMMA MatchOtherTrue ==
    ASSUME "rpc" \notin Faults, Shape, Truth, NEW j \in Jobs, MatchOther(j) PROVE Truth'
<1> USE DEF Truth
<1> DEFINE g == poll.ids[j]
<1>1. /\ poll.pc = "match" /\ Polling /\ j \in poll.todo /\ g \notin DOMAIN poll.seen
      /\ UNCHANGED <<managerVars, done, failed, lost, row, dispatch, tracker, removing>>
    BY DEF MatchOther, Polling
<1>2. CASE Told(j, g)
    BY <1>1, <1>2, ToldTrue
<1>3. CASE (MayFail \/ g \notin DOMAIN aria) /\ Reported(j, [gid |-> g, state |-> "failed"], {})
  <2> DEFINE report == [gid |-> g, state |-> "failed"]
  <2>1. report.gid = g /\ report.state = "failed" /\ Reported(j, report, {})
    BY <1>3
  <2>2. g \notin DOMAIN aria
    BY <1>3 DEF MayFail, AriaTrue
  <2>3. FailureDue(j) /\ g \in Names(j)
    BY <1>1, <2>2, TurnFacts DEF Pending, Standing
  <2> HIDE DEF report, g
  <2> QED BY <1>1, <2>1, <2>3, ReportedTrue
<1> QED BY <1>2, <1>3 DEF MatchOther

\* A second download that aria2 does not know has completed, or the job has been
\* lost or deleted, likewise.
LEMMA MatchChildTrue ==
    ASSUME "rpc" \notin Faults, Shape, Truth, MatchChild PROVE Truth'
<1> USE DEF Truth
<1>1. /\ poll.pc = "child" /\ Polling
      /\ UNCHANGED <<managerVars, done, failed, lost, row, dispatch, tracker, removing>>
    BY DEF MatchChild, Polling
<1>2. PICK j \in poll.todo : poll.own = {j}
    BY <1>1 DEF Shape, PollShape
<1>3. j = CHOOSE i \in poll.own : TRUE
    BY <1>2
<1> DEFINE g == poll.ids[j]
           c == Second(j)
<1>4. /\ j \in Jobs /\ j \in Magnets /\ g = First(j) /\ g \in Names(j) /\ g # c /\ Asking(j)
      /\ Follower(g) = c /\ c \in Names(j) /\ c[1] = j /\ ~IsMetadata(c)
    BY <1>1, <1>2, TurnFacts, GidFacts DEF PollTrue, Asking, Names
<1>5. CASE /\ Serving /\ c \in DOMAIN aria
           /\ Reported(j, [gid |-> c, state |-> State(aria[c])],
                       {g} \cup IF aria[c] \in Ended THEN {c} ELSE {})
  <2> DEFINE report == [gid |-> c, state |-> State(aria[c])]
             gids == {g} \cup IF aria[c] \in Ended THEN {c} ELSE {}
  <2>1. report.gid = c /\ report.state = State(aria[c]) /\ Reported(j, report, gids)
    BY <1>5
  <2>2. First(j) \in gids /\ gids \subseteq Names(j)
    BY <1>4
  <2> HIDE DEF report
  <2>3. report.state = "active" => Standing(j, c) /\ c \notin gids
    BY <1>4, <1>5, <2>1, StateFacts DEF Standing, Ended
  <2>4. report.state = "completed" => CompletionDue(j)
    BY <1>4, <1>5, <2>1, StateFacts DEF AriaTrue
  <2>5. report.state = "failed" => FailureDue(j)
    <3>1. aria[c] \in {"active", "seeding", "complete", "error", "removed"}
      BY <1>5, TypeParts DEF Shape, DataTyped, PartialTo, AriaStatuses
    <3> QED BY <1>4, <1>5, <2>1, <3>1, StateFacts DEF AriaTrue
  <2> HIDE DEF gids, g
  <2> QED BY <1>1, <1>4, <2>1, <2>2, <2>3, <2>4, <2>5, ReportedTrue
<1>6. CASE /\ MayFail \/ c \notin DOMAIN aria
           /\ Reported(j, [gid |-> g, state |-> "completed"], {g})
  <2> DEFINE report == [gid |-> g, state |-> "completed"]
  <2>1. report.gid = g /\ report.state = "completed" /\ Reported(j, report, {g})
    BY <1>6
  <2>2. c \notin DOMAIN aria
    BY <1>6 DEF MayFail, AriaTrue
  <2>3. CompletionDue(j)
    BY <1>4, <2>2 DEF Asking, AriaTrue, CompletionDue
  <2>4. {g} \subseteq Names(j) /\ Second(j) \notin {g}
    BY <1>4
  <2> HIDE DEF report, g
  <2> QED BY <1>1, <1>4, <2>1, <2>3, <2>4, ReportedTrue
<1> QED BY <1>3, <1>4, <1>5, <1>6 DEF MatchChild

\* The reports that arrive have their causes; the tracker goes on with the GIDs
\* that stand.
LEMMA PollEndTrue == ASSUME Shape, Truth, PollEnd PROVE Truth'
<1> USE DEF Truth
<1>1. /\ UNCHANGED <<managerVars, aria, done, failed, lost, dispatch, removing>>
      /\ Polling /\ poll.pc = "match" /\ poll.todo = {} /\ poll'.pc = "idle"
      /\ DOMAIN tracker' = DOMAIN tracker \ {x \in DOMAIN poll.reports : Last(x)}
      /\ \A j \in DOMAIN tracker' :
           tracker'[j] = IF j \in DOMAIN poll.reports THEN poll.reports[j].gid ELSE tracker[j]
    BY NoPoll DEF PollEnd, Polling
<1>2. \A j \in Jobs :
        \/ row'[j] = row[j]
        \/ j \in DOMAIN poll.reports /\ row[j].state # "gone" /\ row'[j] = poll.reports[j]
    BY DEF PollEnd
<1>3. /\ DOMAIN poll.ids = DOMAIN poll.reports /\ DOMAIN tracker \subseteq Jobs
      /\ \A j \in DOMAIN poll.reports : /\ poll.reports[j].state \in States
                                        /\ row[j].state # "new" /\ Answered(j) /\ j \in Jobs
                                        /\ poll.reports[j].gid \in Names(j)
    <2>1. /\ DOMAIN poll.ids = DOMAIN poll.reports /\ DOMAIN tracker \subseteq Jobs
          /\ PartialTo(poll.reports, Jobs, Report)
      BY <1>1, TypeParts DEF Shape, PollShape, PollTyped, DataTyped, PartialTo, Polling
    <2>2. \A j \in DOMAIN poll.reports : j \in Jobs /\ poll.reports[j].state \in States
      BY <2>1 DEF PartialTo, Report
    <2> QED BY <1>1, <2>1, <2>2 DEF Placed, PollTrue, Named
<1>4. CausesKept
    BY <1>1, <1>2, <1>3 DEF CausesKept, CompletionDue, FailureDue, Gone, States
<1>5. AriaTrue' /\ StandingKept /\ FirstsKept
    BY <1>1, <1>4, AriaKept
<1>6. SeenTrue' /\ PollTrue'
    BY <1>1 DEF SeenTrue, PollTrue, Polling
<1>7. Named'
  <2>1. \A r \in removing : r.job \in Jobs
    BY TypeParts DEF Shape, DataTyped
  <2> QED BY <1>1, <1>2, <1>3, <1>4, <2>1 DEF Named, CausesKept, Polling
<1>8. Placed' /\ Unborn'
  <2>1. \A h \in DOMAIN aria : h[1] \in Jobs
    BY GidFacts, TypeParts DEF Shape, DataTyped, PartialTo
  <2> QED BY <1>1, <1>4, <2>1 DEF Placed, Unborn, CausesKept, Polling
<1>9. TrackerTrue'
  <2>1. \A j \in DOMAIN tracker' : Held(j, tracker'[j])
    BY <1>1, <1>3 DEF TrackerTrue, Answered, Last, Held, Succeeded, States
  <2>2. \A j \in Jobs : FailureDue(j) => FailureDue(j)'
    BY <1>4 DEF CausesKept
  <2>3. \A j \in DOMAIN tracker' : Held(j, tracker[j])'
    BY <1>1, <1>3, <2>1, <2>2 DEF Held, Standing, Succeeded
  <2>4. \A j \in dispatch' : Standing(j, First(j))'
    BY <1>1, <2>2, TypeParts DEF TrackerTrue, Standing, Shape, DataTyped
  <2> QED BY <1>1, <2>3, <2>4 DEF TrackerTrue, Polling
<1>10. OutcomesTrue'
    BY <1>1, <1>2, <1>3 DEF OutcomesTrue, Answered, CompletionDue, FailureDue, Gone
<1> QED BY <1>5, <1>6, <1>7, <1>8, <1>9, <1>10

-----------------------------------------------------------------------------
\* Nothing is claimed in the beginning.
LEMMA InitTrue == Init => Truth
<1> SUFFICES ASSUME Init PROVE Truth
    OBVIOUS
<1>1. /\ DOMAIN aria = {} /\ DOMAIN tracker = {} /\ dispatch = {} /\ removing = {}
      /\ ~Polling /\ \A j \in Jobs : row[j].state = "new" /\ row[j].gid = NoGid
    BY EmptyFunction DEF Init, Polling, IdlePoll
<1> QED BY <1>1 DEF Truth, Named, Placed, Unborn, AriaTrue, TrackerTrue, SeenTrue, PollTrue,
             OutcomesTrue, Jobs

\* A stutter keeps what is true.
LEMMA IdleTrue == ASSUME Shape, Truth, UNCHANGED vars PROVE Truth'
<1> USE DEF Truth
<1>1. UNCHANGED <<managerVars, aria, done, failed, lost, row, dispatch, tracker, poll, removing>>
    BY DEF vars, engineVars
<1>2. CausesKept
    BY <1>1 DEF CausesKept, CompletionDue, FailureDue, Gone
<1>3. AriaTrue' /\ StandingKept /\ FirstsKept /\ AskingKept
    BY <1>1, <1>2, AriaKept
<1>4. Named' /\ Unborn'
    BY <1>1 DEF Named, Unborn, Gone, Polling
<1> QED BY <1>1, <1>2, <1>3, <1>4, PollKeptTrue, TrackerKeptTrue, PlacedKept, OutcomesKept

\* Every step keeps what is true.
LEMMA NextTrue ==
    ASSUME "rpc" \notin Faults, Shape, Truth, [Next]_vars PROVE Truth'
<1>1. ASSUME PollStep PROVE Truth'
    BY <1>1, PollActiveTrue, MatchActiveTrue, MatchOtherTrue, MatchChildTrue, PollEndTrue DEF PollStep
<1>2. ASSUME NEW j \in Jobs, JobStep(j) PROVE Truth'
    BY <1>2, AddTrue, TrackTrue, DeleteTrue DEF JobStep
<1> QED BY <1>1, <1>2, ManagerStepTrue, AriaStepTrue, PollListTrue, CancelTrue, RemoveTrue, IdleTrue DEF Next

\* Polls are well formed, whatever fails.
THEOREM ShapeInvariance == Spec => []Shape
<1>1. Init => Shape
    BY InitShape
<1>2. Shape /\ ManagerInv' /\ [Next]_vars => Shape'
    BY NextShape DEF ManagerInv
<1> QED BY <1>1, <1>2, ManagerInvariance, PTL DEF Spec

\* Every variable of the aria2 engine and of its process manager keeps its type.
THEOREM TypeCorrect == Spec => []TypeOK
<1>1. Shape => TypeOK
    BY DEF Shape
<1> QED BY <1>1, ShapeInvariance, PTL

\* Outcomes are not invented (engine.go: Add, BatchStatus, Cancel, Remove): a
\* completed job was downloaded and a failed one failed, or the job was lost with
\* aria2's process, whatever dies, hangs, is lost on the way or is deleted
\* meanwhile, as long as aria2 answers while it is there.
THEOREM OutcomesAreTrue == ASSUME "rpc" \notin Faults PROVE Spec => []OutcomesTrue
<1>1. Init => Truth
    BY InitTrue
<1>2. Shape /\ Truth /\ [Next]_vars => Truth'
    BY NextTrue
<1>3. Truth => OutcomesTrue
    BY DEF Truth
<1> QED BY <1>1, <1>2, <1>3, ShapeInvariance, PTL DEF Spec
=============================================================================
