----------------------------- MODULE StatusLoop -----------------------------
(***************************************************************************)
(* How the end of a download becomes known: the node's engines, its        *)
(* tracker and status loop (internal/core/statusloop), the worker's sink   *)
(* with its buffer of undelivered reports (internal/worker/server.go), and *)
(* the controller's PushJobStatuses.                                       *)
(*                                                                         *)
(* A failed job is dispatched again, and content that was deleted is added *)
(* again under a new id, so one job has several runs and one storage key   *)
(* several jobs.  A report names a job only; the run in it is here to say  *)
(* whose outcome it is.  Of the controller, only what dispatches, deletes  *)
(* or fails a job is modelled, with one Add at a time per job id           *)
(* (DownloadService has the rest).                                         *)
(***************************************************************************)
EXTENDS Integers, SequencesExt

CONSTANTS YtJobs, AriaJobs,   \* job ids, by the engine that runs them
          Key,      \* job -> its storage key
          Runs,     \* bound: how many runs are started in all
          NoRun,    \* engine_job_id IS NULL
          Limit,    \* maxPendingTerminal
          Faults    \* what may go wrong, out of AllFaults

Jobs == YtJobs \cup AriaJobs

\* A push that fails, an answer that is lost, a statement that fails, an aria2
\* daemon that does not answer, a worker that dies.
AllFaults == {"push", "answer", "statement", "engine", "crash"}

ASSUME StatusLoopAssumption ==
    /\ YtJobs \cap AriaJobs = {} /\ DOMAIN Key = Jobs
    /\ \A y \in YtJobs, a \in AriaJobs : Key[y] # Key[a]
    /\ IsFiniteSet(Jobs) /\ IsFiniteSet(Runs) /\ NoRun \notin Runs
    /\ Limit \in Nat \ {0} /\ Faults \subseteq AllFaults

VARIABLES
    row,       \* job -> status of its row, "new" before it has one, or "gone"
    known,     \* job -> engine_job_id of its row
    adding,    \* job -> the Add that dispatches it
    removing,  \* deletions that still have to cancel or remove a job's run
    engine,    \* run -> [key, state], the entries of the engines' tables
    used,      \* runs started so far
    tracker,   \* job -> run, for tracked jobs
    loop,      \* where the status loop is, and what it holds
    pending,   \* terminal reports that could not be pushed
    recorded   \* history: outcomes written to the jobs table

controllerVars == <<row, known, adding, removing>>
vars == <<controllerVars, engine, used, tracker, loop, pending, recorded>>

Unfinished == {"queued", "active"}
Terminal == {"completed", "failed"}
Report == [job: Jobs, run: Runs, state: {"running"} \cup Terminal]
Outcome(x) == [job |-> x.job, run |-> x.run]

\* listed: jobs to poll; read: outcomes whose job is still tracked; batch and
\* progress: what is pushed; doomed: failed jobs whose files are to be removed.
LoopPCs == {"wait", "poll", "push", "complete", "fail", "remove"}
IdleLoop == [pc |-> "wait", listed |-> {}, read |-> {}, batch |-> <<>>,
             progress |-> {}, doomed |-> {}]
NoAdd == [pc |-> "no", run |-> NoRun]

TypeOK ==
    /\ row \in [Jobs -> {"new", "gone"} \cup Unfinished \cup Terminal]
    /\ known \in [Jobs -> Runs \cup {NoRun}]
    /\ adding \in [Jobs -> [pc: {"no", "dispatch", "activate"}, run: Runs \cup {NoRun}]]
    /\ removing \subseteq [job: Jobs, run: Runs \cup {NoRun}, cancel: BOOLEAN]
    /\ used \subseteq Runs /\ DOMAIN engine \subseteq used
    /\ \A r \in DOMAIN engine :
          engine[r] \in [key: Range(Key), state: {"running"} \cup Terminal]
    /\ DOMAIN tracker \subseteq Jobs /\ Range(tracker) \subseteq used
    /\ loop.pc \in LoopPCs
    /\ loop.listed \subseteq [job: Jobs, run: used]
    /\ loop.read \cup loop.progress \cup loop.doomed \subseteq Report
    /\ loop.batch \in Seq(Report) /\ pending \in Seq(Report)
    /\ Len(pending) <= Limit
    /\ recorded \subseteq [job: Jobs, run: used]

Init ==
    /\ row = [j \in Jobs |-> "new"]
    /\ known = [j \in Jobs |-> NoRun]
    /\ adding = [j \in Jobs |-> NoAdd]
    /\ removing = {}
    /\ engine = <<>> /\ used = {}
    /\ tracker = <<>> /\ loop = IdleLoop
    /\ pending = <<>> /\ recorded = {}

-----------------------------------------------------------------------------
(***************************************************************************)
(* The engines.  yt-dlp keys its table by the storage key and answers for  *)
(* whatever entry is there now; aria2 keys its own by GID.                 *)
(***************************************************************************)
Entries(j, r) ==
    {x \in DOMAIN engine : engine[x].key = Key[j] /\ (j \in YtJobs \/ x = r)}
Forget(f, S) == Restrict(f, DOMAIN f \ S)

Finish(r) ==
    /\ engine[r].state = "running"
    /\ \E end \in Terminal : engine' = [engine EXCEPT ![r].state = end]
    /\ UNCHANGED <<controllerVars, used, tracker, loop, pending, recorded>>

-----------------------------------------------------------------------------
(***************************************************************************)
(* What the controller does to a job, and the node server on its behalf.   *)
(***************************************************************************)
HasRow(j) == row[j] \notin {"new", "gone"}
SetRow(j, status) == row' = [row EXCEPT ![j] = IF HasRow(j) THEN status ELSE @]
Launch(r, j) == [x \in DOMAIN engine \cup {r} |->
                   IF x \in DOMAIN engine THEN engine[x]
                   ELSE [key |-> Key[j], state |-> "running"]]

\* A row is inserted under an id of its own, or a failed one is reset.
Start(j) ==
    /\ adding[j].pc = "no"
    /\ \/ row[j] = "new" /\ \A i \in Jobs : Key[i] = Key[j] => ~HasRow(i)
       \/ row[j] = "failed"
    /\ row' = [row EXCEPT ![j] = "queued"]
    /\ known' = [known EXCEPT ![j] = NoRun]
    /\ adding' = [adding EXCEPT ![j].pc = "dispatch"]
    /\ UNCHANGED <<removing, engine, used, tracker, loop, pending, recorded>>

\* DispatchJob: yt-dlp joins the run it has an entry for, whatever its state.
Dispatch(j) ==
    /\ adding[j].pc = "dispatch"
    /\ \/ \E r \in IF j \in YtJobs /\ Entries(j, NoRun) # {}
                   THEN Entries(j, NoRun) ELSE Runs \ used :
            /\ engine' = Launch(r, j)
            /\ used' = used \cup {r}
            /\ tracker' = [i \in DOMAIN tracker \cup {j} |->
                             IF i = j THEN r ELSE tracker[i]]
            /\ adding' = [adding EXCEPT ![j] = [pc |-> "activate", run |-> r]]
            /\ UNCHANGED row
       \/ /\ adding' = [adding EXCEPT ![j] = NoAdd]    \* rejected
          /\ SetRow(j, "failed")
          /\ UNCHANGED <<engine, used, tracker>>
    /\ UNCHANGED <<known, removing, loop, pending, recorded>>

\* Add's last write.
Activate(j) ==
    /\ adding[j].pc = "activate"
    /\ SetRow(j, "active")
    /\ known' = IF HasRow(j) THEN [known EXCEPT ![j] = adding[j].run] ELSE known
    /\ adding' = [adding EXCEPT ![j] = NoAdd]
    /\ UNCHANGED <<removing, engine, used, tracker, loop, pending, recorded>>

\* The reconciler or the sweep of an offline node.
FailRow(j) ==
    /\ row[j] \in Unfinished
    /\ row' = [row EXCEPT ![j] = "failed"]
    /\ UNCHANGED <<known, adding, removing, engine, used, tracker, loop, pending, recorded>>

\* DeleteJob; cancelling needs an engine id and an unfinished job, and both
\* need the node to be connected.
Delete(j) ==
    /\ HasRow(j)
    /\ row' = [row EXCEPT ![j] = "gone"]
    /\ known' = [known EXCEPT ![j] = NoRun]
    /\ \/ removing' = removing \cup
            {[job |-> j, run |-> known[j],
              cancel |-> known[j] # NoRun /\ row[j] \in Unfinished]}
       \/ UNCHANGED removing
    /\ UNCHANGED <<adding, engine, used, tracker, loop, pending, recorded>>

\* CancelJob: only when the engine can cancel the run does the tracker forget
\* the job.  yt-dlp marks any entry it has, and a download that is just
\* completing may still overwrite the mark; aria2 refuses a run that ended.
CancelJob(x) ==
    LET hit == {r \in Entries(x.job, x.run) :
                  x.job \in YtJobs \/ engine[r].state = "running"}
    IN /\ x.cancel
       /\ removing' = (removing \ {x}) \cup {[x EXCEPT !.cancel = FALSE]}
       /\ IF hit = {}
          THEN UNCHANGED <<engine, tracker>>
          ELSE /\ \E end \in Terminal :
                    /\ \/ end = "failed"
                       \/ x.job \in YtJobs /\ \A r \in hit : engine[r].state = "running"
                    /\ engine' = [r \in DOMAIN engine |->
                                    IF r \in hit THEN [engine[r] EXCEPT !.state = end]
                                    ELSE engine[r]]
               /\ tracker' = Forget(tracker, {x.job})
       /\ UNCHANGED <<row, known, adding, used, loop, pending, recorded>>

\* RemoveJob after a deletion: the tracker is left alone.
RemoveJob(x) ==
    /\ ~x.cancel
    /\ removing' = removing \ {x}
    /\ engine' = Forget(engine, Entries(x.job, x.run))
    /\ UNCHANGED <<row, known, adding, used, tracker, loop, pending, recorded>>

ControllerStep ==
    \/ \E j \in Jobs :
         Start(j) \/ Dispatch(j) \/ Activate(j) \/ FailRow(j) \/ Delete(j)
    \/ \E x \in removing : CancelJob(x) \/ RemoveJob(x)

-----------------------------------------------------------------------------
(***************************************************************************)
(* The status loop polls.                                                  *)
(***************************************************************************)
\* Tracker.List; with nothing tracked the tick does nothing.
PollList ==
    /\ loop.pc = "wait" /\ DOMAIN tracker # {}
    /\ loop' = [loop EXCEPT !.pc = "poll",
                  !.listed = {[job |-> j, run |-> tracker[j]] : j \in DOMAIN tracker}]
    /\ UNCHANGED <<controllerVars, engine, used, tracker, pending, recorded>>

\* What an engine answers for a listed job: the state of the entry, nothing
\* (a key yt-dlp does not know), or failed (a GID aria2 does not know).
Answers(x) ==
    IF Entries(x.job, x.run) # {}
    THEN {[job |-> x.job, run |-> r, state |-> engine[r].state] :
            r \in Entries(x.job, x.run)}
    ELSE IF x.job \in AriaJobs
         THEN {[job |-> x.job, run |-> x.run, state |-> "failed"]} ELSE {}

\* Bug: an engine keeps the entries of runs that have ended.
PollReadForgetsNothing(E) ==
    LET asked == {x \in loop.listed : x.job \in E}
        reports == UNION {Answers(x) : x \in asked}
        ended == {x \in reports : x.state \in Terminal}
    IN /\ loop.pc = "poll" /\ asked # {}
       /\ loop' = [loop EXCEPT !.listed = @ \ asked, !.read = @ \cup ended,
                               !.progress = @ \cup (reports \ ended)]
       /\ UNCHANGED <<controllerVars, engine, used, tracker, pending, recorded>>

\* BatchStatus of one engine, E its jobs.  Runs that ended are answered for
\* once: the engine forgets them.
PollRead(E) ==
    LET asked == {x \in loop.listed : x.job \in E}
        reports == UNION {Answers(x) : x \in asked}
        ended == {x \in reports : x.state \in Terminal}
    IN /\ loop.pc = "poll" /\ asked # {}
       /\ loop' = [loop EXCEPT !.listed = @ \ asked, !.read = @ \cup ended,
                               !.progress = @ \cup (reports \ ended)]
       /\ engine' = Forget(engine, {x.run : x \in ended})
       /\ UNCHANGED <<controllerVars, used, tracker, pending, recorded>>

\* aria2 does not answer: tellActive fails and nothing is reported, or
\* tellStatus fails and the job is reported as failed.
PollLost ==
    LET asked == {x \in loop.listed : x.job \in AriaJobs}
    IN /\ "engine" \in Faults
       /\ loop.pc = "poll" /\ asked # {}
       /\ \E lost \in SUBSET asked :
            loop' = [loop EXCEPT !.listed = @ \ asked,
                      !.read = @ \cup {[job |-> x.job, run |-> x.run,
                                       state |-> "failed"] : x \in lost}]
       /\ UNCHANGED <<controllerVars, engine, used, tracker, pending, recorded>>

\* A terminal report is appended, and the tracker drops the job by its id.
PollReport(x) ==
    /\ loop.pc = "poll"
    /\ loop' = [loop EXCEPT !.read = @ \ {x}, !.batch = Append(@, x)]
    /\ tracker' = Forget(tracker, {x.job})
    /\ UNCHANGED <<controllerVars, engine, used, pending, recorded>>

-----------------------------------------------------------------------------
(***************************************************************************)
(* The sink pushes, and the controller handles the push.                   *)
(***************************************************************************)
\* Bug: the buffer grows as long as pushes fail.
WithoutLimit(reports) == reports

Newest(reports) ==
    IF Len(reports) <= Limit THEN reports
    ELSE SubSeq(reports, Len(reports) - Limit + 1, Len(reports))

\* PushStatuses is called only with something new to report; what it buffered
\* earlier goes first.
Send ==
    /\ loop.pc = "poll" /\ loop.listed = {} /\ loop.read = {}
    /\ IF loop.batch = <<>> /\ loop.progress = {}
       THEN loop' = IdleLoop /\ UNCHANGED pending
       ELSE /\ loop' = [loop EXCEPT !.pc = "push", !.batch = pending \o @]
            /\ pending' = <<>>
    /\ UNCHANGED <<controllerVars, engine, used, tracker, recorded>>

\* Bug: the buffer is emptied before the push and not filled again.
BufferForgets ==
    /\ loop' = IdleLoop
    /\ UNCHANGED <<controllerVars, engine, used, tracker, pending, recorded>>

\* The push fails, or the answer to it: terminal reports are buffered.
Buffer ==
    /\ loop' = IdleLoop
    /\ pending' = Newest(loop.batch)
    /\ UNCHANGED <<controllerVars, engine, used, tracker, recorded>>

PushFails == "push" \in Faults /\ loop.pc = "push" /\ Buffer

Goto(pc) == loop' = [loop EXCEPT !.pc = pc]
InBatch(state) == {i \in DOMAIN loop.batch : loop.batch[i].state = state}
OutcomesOf(state) == {Outcome(loop.batch[i]) : i \in InBatch(state)}
JobsOf(reports) == {x.job : x \in reports} \cap {j \in Jobs : HasRow(j)}

\* batchUpdateProgress: the jobs are running again, whatever they were.
RecordProgress ==
    /\ loop.pc = "push"
    /\ Goto("complete")
    /\ \/ /\ row' = [j \in Jobs |-> IF j \in JobsOf(loop.progress) THEN "active" ELSE row[j]]
          /\ known' = [j \in Jobs |->
               IF j \in JobsOf(loop.progress)
               THEN (CHOOSE x \in loop.progress : x.job = j).run ELSE known[j]]
       \/ "statement" \in Faults /\ UNCHANGED <<row, known>>
    /\ UNCHANGED <<adding, removing, engine, used, tracker, pending, recorded>>

\* BatchCompleteJobs; of two reports of a job either may set engine_job_id.
RecordCompleted ==
    LET done == OutcomesOf("completed")
    IN /\ loop.pc = "complete"
       /\ Goto("fail")
       /\ \/ /\ row' = [j \in Jobs |-> IF j \in JobsOf(done) THEN "completed" ELSE row[j]]
             /\ known' \in {f \in [Jobs -> Runs \cup {NoRun}] : \A j \in Jobs :
                              IF j \in JobsOf(done)
                              THEN [job |-> j, run |-> f[j]] \in done
                              ELSE f[j] = known[j]}
             /\ recorded' = recorded \cup done
          \/ "statement" \in Faults /\ UNCHANGED <<row, known, recorded>>
       /\ UNCHANGED <<adding, removing, engine, used, tracker, pending>>

\* BatchFailJobs returns the rows it updated; the last report of each names
\* the run to remove, if the node is connected.
RecordFailed ==
    LET bad == OutcomesOf("failed")
        last == {i \in InBatch("failed") :
                   /\ HasRow(loop.batch[i].job)
                   /\ \A k \in InBatch("failed") :
                        k > i => loop.batch[k].job # loop.batch[i].job}
    IN /\ loop.pc = "fail"
       /\ \/ /\ row' = [j \in Jobs |-> IF j \in JobsOf(bad) THEN "failed" ELSE row[j]]
             /\ recorded' = recorded \cup bad
             /\ \E doomed \in {{}, {loop.batch[i] : i \in last}} :
                  loop' = [loop EXCEPT !.pc = "remove", !.doomed = doomed]
          \/ "statement" \in Faults /\ Goto("remove") /\ UNCHANGED <<row, recorded>>
       /\ UNCHANGED <<known, adding, removing, engine, used, tracker, pending>>

\* RemoveJob for a failed job.
RemoveFailed(x) ==
    /\ loop.pc = "remove"
    /\ loop' = [loop EXCEPT !.doomed = @ \ {x}]
    /\ engine' = Forget(engine, Entries(x.job, x.run))
    /\ UNCHANGED <<controllerVars, used, tracker, pending, recorded>>

Answer ==
    /\ loop.pc = "remove" /\ loop.doomed = {}
    /\ loop' = IdleLoop
    /\ UNCHANGED <<controllerVars, engine, used, tracker, pending, recorded>>
AnswerLost ==
    "answer" \in Faults /\ loop.pc = "remove" /\ loop.doomed = {} /\ Buffer

\* The worker dies, and its yt-dlp with it; aria2 may come back with its
\* session, but nothing tracks those downloads.
WorkerCrash ==
    /\ "crash" \in Faults
    /\ engine' \in {<<>>, Restrict(engine, {r \in DOMAIN engine :
                               \E a \in AriaJobs : engine[r].key = Key[a]})}
    /\ tracker' = <<>> /\ loop' = IdleLoop /\ pending' = <<>>
    /\ UNCHANGED <<controllerVars, used, recorded>>

LoopStep ==
    \/ PollList \/ PollRead(YtJobs) \/ PollRead(AriaJobs)
    \/ \E x \in loop.read : PollReport(x)
    \/ Send \/ RecordProgress \/ RecordCompleted \/ RecordFailed
    \/ \E x \in loop.doomed : RemoveFailed(x)
    \/ Answer
FaultStep == PollLost \/ PushFails \/ AnswerLost \/ WorkerCrash

Next ==
    \/ \E r \in DOMAIN engine : Finish(r)
    \/ ControllerStep
    \/ LoopStep
    \/ FaultStep

Spec == Init /\ [][Next]_vars

\* The ticker keeps firing and every call returns; aria2 answers and a push gets
\* through once in a while.
Fairness == /\ WF_vars(LoopStep)
            /\ SF_vars(PollRead(AriaJobs)) /\ SF_vars(RecordProgress)
FairSpec == Spec /\ Fairness

-----------------------------------------------------------------------------
(***************************************************************************)
(* Properties.                                                             *)
(***************************************************************************)
Held == {Outcome(x) : x \in loop.read \cup Range(loop.batch) \cup Range(pending)}
MayLose == \/ Faults \cap {"crash", "statement"} # {}
           \/ Limit < Cardinality(Runs) * Cardinality(Jobs)

\* The outcome of a run is read once for a job, however the job is failed,
\* deleted or dispatched again around the read, the push and its answer.
\* Whatever pushes fail, it then stays on the node until it has been written;
\* only a crash, a failing statement or a full buffer
\* (worker/server.go:511-513) may lose it.
Delivery == INSTANCE StatusDelivery
    WITH Outcomes <- [job: Jobs, run: Runs], Lossy <- MayLose, held <- Held
ReadOnceAndHeld == Delivery!Spec

\* While the node has something to report, failed pushes only delay an outcome.
Busy == \E j \in DOMAIN tracker : Answers([job |-> j, run |-> tracker[j]]) # {}
OutcomesDelivered ==
    []<>Busy => \A o \in [job: Jobs, run: Runs] : o \in Held ~> o \in recorded
=============================================================================
