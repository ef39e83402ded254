--------------------------- MODULE StatusLoop_proofs ---------------------------
(***************************************************************************)
(* Proofs about StatusLoop, for any jobs, runs, limit of the buffer and    *)
(* faults: the types of its variables, and that it implements              *)
(* StatusDelivery.                                                         *)
(***************************************************************************)
EXTENDS StatusLoop, SequenceTheorems, FiniteSetTheorems, TLAPS

-----------------------------------------------------------------------------
(***************************************************************************)
(* Types.                                                                  *)
(***************************************************************************)
Removal == [job: Jobs, run: Runs \cup {NoRun}, cancel: BOOLEAN]
RowsTyped ==
    /\ row \in [Jobs -> {"new", "gone"} \cup Unfinished \cup Terminal]
    /\ known \in [Jobs -> Runs \cup {NoRun}]
    /\ adding \in [Jobs -> [pc: {"no", "dispatch", "activate"}, run: Runs \cup {NoRun}]]
    /\ removing \subseteq Removal

Entry == [key: Range(Key), state: {"running"} \cup Terminal]
RunsTyped ==
    /\ used \subseteq Runs /\ DOMAIN engine \subseteq used
    /\ \A r \in DOMAIN engine : engine[r] \in Entry
    /\ DOMAIN tracker \subseteq Jobs
    /\ \A j \in DOMAIN tracker : tracker[j] \in used

\* Outcomes are those of runs that were started.
Started(R) == {x \in Report : x.run \in R}
Loops(R) == [pc: LoopPCs, listed: SUBSET [job: Jobs, run: R],
             read: SUBSET Started(R), batch: Seq(Started(R)),
             progress: SUBSET Started(R), doomed: SUBSET Report]
LoopTyped ==
    /\ loop \in Loops(used)
    /\ pending \in Seq(Started(used)) /\ Len(pending) <= Limit
    /\ recorded \subseteq [job: Jobs, run: used]

Typing == RowsTyped /\ RunsTyped /\ LoopTyped

\* Typing, which is inductive, implies TypeOK.
LEMMA TypingTypes == Typing => TypeOK
<1> SUFFICES ASSUME Typing PROVE TypeOK
    OBVIOUS
<1>1. used \subseteq Runs /\ Started(used) \subseteq Report
    BY DEF Typing, RunsTyped, Started
<1>2. Seq(Started(used)) \subseteq Seq(Report)
    BY <1>1, SeqMonotonic
<1>3. Range(tracker) \subseteq used
    BY DEF Typing, RunsTyped, Range
<1>4. /\ loop.pc \in LoopPCs /\ loop.listed \subseteq [job: Jobs, run: used]
      /\ loop.read \cup loop.progress \cup loop.doomed \subseteq Report
      /\ loop.batch \in Seq(Report)
    BY <1>1, <1>2 DEF Typing, LoopTyped, Loops
<1> QED
    BY <1>1, <1>2, <1>3, <1>4 DEF Typing, RowsTyped, RunsTyped, LoopTyped, TypeOK, Removal, Entry

\* Typing holds initially.
LEMMA TypingInit == Init => Typing
<1> SUFFICES ASSUME Init PROVE Typing
    OBVIOUS
<1>1. RowsTyped
    BY DEF Init, RowsTyped, NoAdd
<1>2. RunsTyped
    BY DEF Init, RunsTyped
<1>3. loop \in Loops(used)
    BY DEF Init, Loops, IdleLoop, LoopPCs
<1>4. LoopTyped
    BY <1>3, StatusLoopAssumption DEF Init, LoopTyped
<1> QED
    BY <1>1, <1>2, <1>4 DEF Typing

\* More runs, the same loop.
LEMMA MoreRuns ==
    ASSUME LoopTyped, used \subseteq used', UNCHANGED <<loop, pending, recorded>>
    PROVE  LoopTyped'
<1>1. Started(used) \subseteq Started(used') /\ [job: Jobs, run: used] \subseteq [job: Jobs, run: used']
    BY DEF Started
<1>2. Seq(Started(used)) \subseteq Seq(Started(used'))
    BY <1>1, SeqMonotonic
<1>3. loop \in Loops(used')
  <2>1. loop \in Loops(used)
    BY DEF LoopTyped
  <2>2. /\ loop.listed \in SUBSET [job: Jobs, run: used'] /\ loop.read \in SUBSET Started(used')
        /\ loop.batch \in Seq(Started(used')) /\ loop.progress \in SUBSET Started(used')
        /\ loop.pc \in LoopPCs /\ loop.doomed \in SUBSET Report
    BY <2>1, <1>1, <1>2 DEF Loops
  <2> HIDE <1>1, <1>2
  <2>3. loop = [pc |-> loop.pc, listed |-> loop.listed, read |-> loop.read, batch |-> loop.batch,
                progress |-> loop.progress, doomed |-> loop.doomed]
    BY <2>1 DEF Loops
  <2> QED BY <2>2, <2>3 DEF Loops
<1> QED
    BY <1>1, <1>2, <1>3 DEF LoopTyped

\* A step that leaves the rows alone leaves them typed.
LEMMA RowsIdle == ASSUME RowsTyped, UNCHANGED controllerVars PROVE RowsTyped'
BY DEF RowsTyped, controllerVars

\* The same of the runs.
LEMMA RunsIdle == ASSUME RunsTyped, UNCHANGED <<engine, used, tracker>> PROVE RunsTyped'
BY DEF RunsTyped

\* The same of the loop.
LEMMA LoopIdle == ASSUME LoopTyped, UNCHANGED <<used, loop, pending, recorded>> PROVE LoopTyped'
BY DEF LoopTyped, Loops

\* Runs are forgotten by the engine, jobs by the tracker.
LEMMA Forgotten ==
    ASSUME RunsTyped, UNCHANGED used,
           \/ UNCHANGED engine
           \/ \E S : engine' = Forget(engine, S)
           \/ \E S : engine' = Restrict(engine, {r \in DOMAIN engine : r \in S})
           \/ engine' = <<>>,
           \/ UNCHANGED tracker
           \/ \E S : tracker' = Forget(tracker, S)
           \/ tracker' = <<>>
    PROVE  RunsTyped'
<1>1. DOMAIN engine' \subseteq DOMAIN engine /\ \A r \in DOMAIN engine' : engine'[r] = engine[r]
  <2>1. ASSUME NEW S, engine' = Forget(engine, S)
        PROVE  DOMAIN engine' \subseteq DOMAIN engine /\ \A r \in DOMAIN engine' : engine'[r] = engine[r]
    BY <2>1 DEF Forget, Restrict
  <2>2. ASSUME NEW S, engine' = Restrict(engine, {r \in DOMAIN engine : r \in S})
        PROVE  DOMAIN engine' \subseteq DOMAIN engine /\ \A r \in DOMAIN engine' : engine'[r] = engine[r]
    BY <2>2 DEF Restrict
  <2>3. CASE engine' = <<>>
    BY <2>3
  <2> QED BY <2>1, <2>2, <2>3
<1>2. DOMAIN tracker' \subseteq DOMAIN tracker /\ \A j \in DOMAIN tracker' : tracker'[j] = tracker[j]
  <2>1. ASSUME NEW S, tracker' = Forget(tracker, S)
        PROVE  DOMAIN tracker' \subseteq DOMAIN tracker /\ \A j \in DOMAIN tracker' : tracker'[j] = tracker[j]
    BY <2>1 DEF Forget, Restrict
  <2>3. CASE tracker' = <<>>
    BY <2>3
  <2> QED BY <2>1, <2>3
<1> QED BY <1>1, <1>2 DEF RunsTyped

\* What the controller does keeps the types.
LEMMA ControllerTyped == ASSUME Typing, ControllerStep PROVE Typing'
<1> USE DEF Typing
<1>1. ASSUME NEW j \in Jobs, Start(j) PROVE Typing'
  <2>1. RowsTyped'
    BY <1>1 DEF Start, RowsTyped, Unfinished
  <2> QED BY <1>1, <2>1, RunsIdle, LoopIdle DEF Start
<1>2. ASSUME NEW j \in Jobs, Dispatch(j) PROVE Typing'
  <2>1. CASE UNCHANGED used /\ UNCHANGED engine /\ UNCHANGED tracker /\ adding' = [adding EXCEPT ![j] = NoAdd]
             /\ SetRow(j, "failed")
    <3>1. RowsTyped'
      BY <1>2, <2>1 DEF Dispatch, RowsTyped, SetRow, Unfinished, Terminal, NoAdd
    <3> QED BY <1>2, <2>1, <3>1, RunsIdle, LoopIdle DEF Dispatch
  <2>2. ASSUME NEW r \in Runs, engine' = Launch(r, j), used' = used \cup {r},
               tracker' = [i \in DOMAIN tracker \cup {j} |-> IF i = j THEN r ELSE tracker[i]],
               adding' = [adding EXCEPT ![j] = [pc |-> "activate", run |-> r]], UNCHANGED row
        PROVE  Typing'
    <3>1. RowsTyped'
      BY <1>2, <2>2 DEF Dispatch, RowsTyped
    <3>2. Key[j] \in Range(Key)
      BY StatusLoopAssumption DEF Range
    <3>3. RunsTyped'
      BY <3>2, <2>2 DEF RunsTyped, Launch, Entry
    <3> QED BY <1>2, <2>2, <3>1, <3>3, MoreRuns DEF Dispatch
  <2>3. \A r \in Entries(j, NoRun) : r \in Runs
    BY DEF Entries, RunsTyped
  <2> QED BY <1>2, <2>1, <2>2, <2>3 DEF Dispatch
<1>3. ASSUME NEW j \in Jobs, Activate(j) PROVE Typing'
  <2>1. row' \in [Jobs -> {"new", "gone"} \cup Unfinished \cup Terminal]
    BY <1>3 DEF Activate, SetRow, RowsTyped, Unfinished
  <2>2. known' \in [Jobs -> Runs \cup {NoRun}]
    BY <1>3 DEF Activate, RowsTyped
  <2>3. RowsTyped'
    BY <1>3, <2>1, <2>2 DEF Activate, RowsTyped, NoAdd
  <2> QED BY <1>3, <2>3, RunsIdle, LoopIdle DEF Activate
<1>4. ASSUME NEW j \in Jobs, FailRow(j) PROVE Typing'
  <2>1. RowsTyped'
    BY <1>4 DEF FailRow, RowsTyped, Terminal
  <2> QED BY <1>4, <2>1, RunsIdle, LoopIdle DEF FailRow
<1>5. ASSUME NEW j \in Jobs, Delete(j) PROVE Typing'
  <2>1. known[j] \in Runs \cup {NoRun}
    BY DEF RowsTyped
  <2>2. removing' \subseteq Removal
    <3>1. (known[j] # NoRun /\ row[j] \in Unfinished) \in BOOLEAN
      OBVIOUS
    <3>2. [job |-> j, run |-> known[j], cancel |-> known[j] # NoRun /\ row[j] \in Unfinished] \in Removal
      BY <2>1, <3>1, Zenon DEF Removal
    <3> QED BY <1>5, <3>2 DEF Delete, RowsTyped
  <2>3. RowsTyped'
    BY <1>5, <2>2 DEF Delete, RowsTyped
  <2> QED BY <1>5, <2>3, RunsIdle, LoopIdle DEF Delete
<1>6. ASSUME NEW x \in removing, CancelJob(x) PROVE Typing'
  <2>1. x \in Removal
    BY DEF RowsTyped
  <2>2. [x EXCEPT !.cancel = FALSE] \in Removal
    BY <2>1 DEF Removal
  <2>3. RowsTyped'
    BY <1>6, <2>2 DEF CancelJob, RowsTyped
  <2>4. RunsTyped'
    <3>1. /\ DOMAIN engine' = DOMAIN engine
          /\ \A r \in DOMAIN engine : engine'[r] \in Entry
      BY <1>6 DEF CancelJob, RunsTyped, Entry, Terminal
    <3>2. DOMAIN tracker' \subseteq DOMAIN tracker /\ \A j \in DOMAIN tracker' : tracker'[j] = tracker[j]
      BY <1>6 DEF CancelJob, Forget, Restrict
    <3> QED BY <1>6, <3>1, <3>2 DEF CancelJob, RunsTyped
  <2> QED BY <1>6, <2>3, <2>4, LoopIdle DEF CancelJob
<1>7. ASSUME NEW x \in removing, RemoveJob(x) PROVE Typing'
  <2>1. RowsTyped'
    BY <1>7 DEF RemoveJob, RowsTyped
  <2> QED BY <1>7, <2>1, Forgotten, LoopIdle DEF RemoveJob
<1> QED BY <1>1, <1>2, <1>3, <1>4, <1>5, <1>6, <1>7 DEF ControllerStep

\* What an engine answers is about runs that were started.
LEMMA AnswersStarted ==
    ASSUME Typing, NEW x \in [job: Jobs, run: used]
    PROVE  Answers(x) \subseteq Started(used)
<1>1. \A r \in DOMAIN engine : r \in used /\ r \in Runs /\ engine[r].state \in {"running"} \cup Terminal
    BY DEF Typing, RunsTyped, Entry
<1>2. CASE Entries(x.job, x.run) # {}
  <2>1. \A r \in Entries(x.job, x.run) : r \in DOMAIN engine
    BY DEF Entries
  <2> QED BY <1>1, <1>2, <2>1 DEF Answers, Started, Report
<1>3. CASE Entries(x.job, x.run) = {}
  <2>1. x.job \in Jobs /\ x.run \in used /\ x.run \in Runs
    BY DEF Typing, RunsTyped
  <2> QED BY <1>3, <2>1 DEF Answers, Started, Report, Terminal
<1> QED BY <1>2, <1>3

\* What the loop appends, sends, buffers or leaves alone is typed.
LEMMA NewestTyped ==
    ASSUME NEW S, NEW s \in Seq(S)
    PROVE  Newest(s) \in Seq(S) /\ Len(Newest(s)) <= Limit
<1>1. Limit \in Nat \ {0} /\ Len(s) \in Nat
    BY StatusLoopAssumption
<1>2. CASE Len(s) > Limit
  <2>1. /\ Len(s) - Limit + 1 \in 1..Len(s) /\ Len(s) \in 1..Len(s)
    BY <1>1, <1>2
  <2>2. SubSeq(s, Len(s) - Limit + 1, Len(s)) \in Seq(S)
        /\ Len(SubSeq(s, Len(s) - Limit + 1, Len(s))) = Limit
    BY <1>1, <1>2, <2>1, SubSeqProperties
  <2> QED BY <1>1, <1>2, <2>2 DEF Newest
<1> QED BY <1>1, <1>2 DEF Newest

\* What is in the batch is about runs that were started.
LEMMA BatchStarted ==
    ASSUME Typing, NEW i \in DOMAIN loop.batch
    PROVE  /\ loop.batch[i] \in Report /\ Outcome(loop.batch[i]) \in [job: Jobs, run: used]
<1>1. loop.batch \in Seq(Started(used))
    BY DEF Typing, LoopTyped, Loops
<1>2. loop.batch[i] \in Started(used)
    BY <1>1, ElementOfSeq
<1> QED BY <1>2 DEF Started, Outcome, Report

\* The steps of the status loop and of the push keep the types.
LEMMA LoopStepsTyped == ASSUME Typing, LoopStep PROVE Typing'
<1> USE DEF Typing
<1>a. loop \in Loops(used)
    BY DEF LoopTyped
<1>1. ASSUME PollList PROVE Typing'
  <2> DEFINE L == {[job |-> j, run |-> tracker[j]] : j \in DOMAIN tracker}
  <2>1. L \subseteq [job: Jobs, run: used]
    BY DEF RunsTyped
  <2> HIDE DEF L
  <2>2. loop' = [loop EXCEPT !.pc = "poll", !.listed = L]
    BY <1>1 DEF PollList, L
  <2>3. loop' \in Loops(used)
    BY <1>a, <2>1, <2>2 DEF Loops, LoopPCs
  <2>4. LoopTyped'
    BY <1>1, <2>3 DEF PollList, LoopTyped
  <2> QED BY <1>1, <2>4, RowsIdle, RunsIdle DEF PollList
<1>2. ASSUME NEW E, PollRead(E) PROVE Typing'
  <2> DEFINE asked == {x \in loop.listed : x.job \in E}
             reports == UNION {Answers(x) : x \in asked}
             ended == {x \in reports : x.state \in Terminal}
  <2>1. asked \subseteq [job: Jobs, run: used]
    BY <1>a DEF Loops
  <2>2. reports \subseteq Started(used)
    BY <2>1, AnswersStarted
  <2>3. ended \subseteq Started(used) /\ reports \ ended \subseteq Started(used)
    BY <2>2
  <2>4. /\ loop' = [loop EXCEPT !.listed = @ \ asked, !.read = @ \cup ended,
                               !.progress = @ \cup (reports \ ended)]
        /\ engine' = Forget(engine, {x.run : x \in ended})
        /\ UNCHANGED <<controllerVars, used, tracker, pending, recorded>>
    BY <1>2 DEF PollRead
  <2> HIDE DEF asked, reports, ended
  <2>5. loop' \in Loops(used)
    BY <1>a, <2>3, <2>4 DEF Loops
  <2>6. LoopTyped'
    BY <2>4, <2>5 DEF LoopTyped
  <2> QED BY <2>4, <2>6, RowsIdle, Forgotten
<1>3. ASSUME NEW x \in loop.read, PollReport(x) PROVE Typing'
  <2>1. x \in Started(used)
    BY <1>a DEF Loops
  <2>2. loop' = [loop EXCEPT !.read = @ \ {x}, !.batch = Append(@, x)]
    BY <1>3 DEF PollReport
  <2>3. Append(loop.batch, x) \in Seq(Started(used))
    BY <1>a, <2>1 DEF Loops
  <2>4. loop' \in Loops(used)
    BY <1>a, <2>2, <2>3 DEF Loops
  <2>5. LoopTyped'
    BY <1>3, <2>4 DEF PollReport, LoopTyped
  <2> QED BY <1>3, <2>5, RowsIdle, Forgotten DEF PollReport
<1>b. IdleLoop \in Loops(used)
    BY DEF Loops, IdleLoop, LoopPCs
<1>4. ASSUME Send PROVE Typing'
  <2>1. pending \o loop.batch \in Seq(Started(used))
    BY <1>a DEF LoopTyped, Loops
  <2>2. CASE loop' = IdleLoop /\ UNCHANGED pending
    BY <1>4, <1>b, <2>2, RowsIdle, RunsIdle DEF Send, LoopTyped
  <2>3. CASE loop' = [loop EXCEPT !.pc = "push", !.batch = pending \o @] /\ pending' = <<>>
    <3>1. loop' \in Loops(used)
      BY <1>a, <2>1, <2>3 DEF Loops, LoopPCs
    <3>2. LoopTyped'
      BY <1>4, <2>3, <3>1, StatusLoopAssumption DEF Send, LoopTyped
    <3> QED BY <1>4, <3>2, RowsIdle, RunsIdle DEF Send
  <2> QED BY <1>4, <2>2, <2>3 DEF Send
<1>c. ASSUME NEW pc \in LoopPCs, Goto(pc) PROVE loop' \in Loops(used)
    BY <1>a, <1>c DEF Goto, Loops
<1>5. ASSUME RecordProgress PROVE Typing'
  <2>1. loop' \in Loops(used)
    BY <1>5, <1>c DEF RecordProgress, LoopPCs
  <2>2. LoopTyped'
    BY <1>5, <2>1 DEF RecordProgress, LoopTyped
  <2>3. row' \in [Jobs -> {"new", "gone"} \cup Unfinished \cup Terminal]
    BY <1>5 DEF RecordProgress, RowsTyped, Unfinished
  <2>4. ASSUME NEW j \in Jobs, j \in JobsOf(loop.progress)
        PROVE  (CHOOSE x \in loop.progress : x.job = j).run \in Runs
    <3>1. PICK y \in loop.progress : y.job = j
      BY <2>4 DEF JobsOf
    <3>2. (CHOOSE x \in loop.progress : x.job = j) \in loop.progress
      BY <3>1
    <3> QED BY <1>a, <3>2 DEF Loops, Started, Report
  <2>5. known' \in [Jobs -> Runs \cup {NoRun}]
    BY <1>5, <2>4 DEF RecordProgress, RowsTyped
  <2>6. RowsTyped'
    BY <1>5, <2>3, <2>5 DEF RecordProgress, RowsTyped
  <2> QED BY <1>5, <2>2, <2>6, RunsIdle DEF RecordProgress
<1>d. ASSUME NEW state PROVE OutcomesOf(state) \subseteq [job: Jobs, run: used]
    BY BatchStarted DEF OutcomesOf, InBatch
<1>6. ASSUME RecordCompleted PROVE Typing'
  <2>1. loop' \in Loops(used)
    BY <1>6, <1>c DEF RecordCompleted, LoopPCs
  <2>2. LoopTyped'
    BY <1>6, <2>1, <1>d DEF RecordCompleted, LoopTyped
  <2>3. row' \in [Jobs -> {"new", "gone"} \cup Unfinished \cup Terminal]
    BY <1>6 DEF RecordCompleted, RowsTyped, Terminal
  <2>4. known' \in [Jobs -> Runs \cup {NoRun}]
    BY <1>6 DEF RecordCompleted, RowsTyped
  <2>5. RowsTyped'
    BY <1>6, <2>3, <2>4 DEF RecordCompleted, RowsTyped
  <2> QED BY <1>6, <2>2, <2>5, RunsIdle DEF RecordCompleted
<1>7. ASSUME RecordFailed PROVE Typing'
  <2>1. loop' \in Loops(used)
    <3>1. CASE Goto("remove")
      BY <3>1, <1>c DEF LoopPCs
    <3>2. ASSUME NEW doomed, doomed \subseteq Report, loop' = [loop EXCEPT !.pc = "remove", !.doomed = doomed]
          PROVE  loop' \in Loops(used)
      BY <1>a, <3>2 DEF Loops, LoopPCs
    <3>3. \A i \in InBatch("failed") : loop.batch[i] \in Report
      BY BatchStarted DEF InBatch
    <3> DEFINE last == {i \in InBatch("failed") :
                          /\ HasRow(loop.batch[i].job)
                          /\ \A k \in InBatch("failed") :
                               k > i => loop.batch[k].job # loop.batch[i].job}
    <3>4. {loop.batch[i] : i \in last} \subseteq Report
      BY <3>3
    <3>5. \/ Goto("remove")
          \/ \E doomed \in {{}, {loop.batch[i] : i \in last}} :
               loop' = [loop EXCEPT !.pc = "remove", !.doomed = doomed]
      BY <1>7 DEF RecordFailed
    <3> HIDE DEF last
    <3> QED BY <3>1, <3>2, <3>4, <3>5
  <2>2. LoopTyped'
    BY <1>7, <2>1, <1>d DEF RecordFailed, LoopTyped
  <2>3. row' \in [Jobs -> {"new", "gone"} \cup Unfinished \cup Terminal]
    BY <1>7 DEF RecordFailed, RowsTyped, Terminal
  <2>4. RowsTyped'
    BY <1>7, <2>3 DEF RecordFailed, RowsTyped
  <2> QED BY <1>7, <2>2, <2>4, RunsIdle DEF RecordFailed
<1>8. ASSUME NEW x \in loop.doomed, RemoveFailed(x) PROVE Typing'
  <2>1. loop' \in Loops(used)
    BY <1>8, <1>a DEF RemoveFailed, Loops
  <2>2. LoopTyped'
    BY <1>8, <2>1 DEF RemoveFailed, LoopTyped
  <2> QED BY <1>8, <2>2, RowsIdle, Forgotten DEF RemoveFailed
<1>9. ASSUME Answer PROVE Typing'
  BY <1>9, <1>b, RowsIdle, RunsIdle DEF Answer, LoopTyped
<1> QED BY <1>1, <1>2, <1>3, <1>4, <1>5, <1>6, <1>7, <1>8, <1>9 DEF LoopStep

\* So do faults: a poll, a push or an answer that is lost, a worker that dies.
LEMMA FaultsTyped == ASSUME Typing, FaultStep PROVE Typing'
<1> USE DEF Typing
<1>a. loop \in Loops(used)
    BY DEF LoopTyped
<1>b. IdleLoop \in Loops(used)
    BY DEF Loops, IdleLoop, LoopPCs
<1>1. ASSUME PollLost PROVE Typing'
  <2> DEFINE asked == {x \in loop.listed : x.job \in AriaJobs}
  <2>1. PICK lost \in SUBSET asked :
            loop' = [loop EXCEPT !.listed = @ \ asked,
                      !.read = @ \cup {[job |-> x.job, run |-> x.run,
                                       state |-> "failed"] : x \in lost}]
    BY <1>1 DEF PollLost
  <2> DEFINE R == {[job |-> x.job, run |-> x.run, state |-> "failed"] : x \in lost}
  <2>2. asked \subseteq [job: Jobs, run: used] /\ used \subseteq Runs
    BY <1>a DEF Loops, RunsTyped
  <2>3. R \subseteq Started(used)
    BY <2>2 DEF Started, Report, Terminal
  <2>4. loop' = [loop EXCEPT !.listed = @ \ asked, !.read = @ \cup R]
    BY <2>1
  <2> HIDE DEF asked, R
  <2>5. loop' \in Loops(used)
    BY <1>a, <2>3, <2>4 DEF Loops
  <2>6. LoopTyped'
    BY <1>1, <2>5 DEF PollLost, LoopTyped
  <2> QED BY <1>1, <2>6, RowsIdle, RunsIdle DEF PollLost
<1>2. ASSUME Buffer PROVE Typing'
  <2>1. pending' \in Seq(Started(used)) /\ Len(pending') <= Limit
    BY <1>2, <1>a, NewestTyped DEF Buffer, Loops
  <2>2. LoopTyped'
    BY <1>2, <1>b, <2>1 DEF Buffer, LoopTyped
  <2> QED BY <1>2, <2>2, RowsIdle, RunsIdle DEF Buffer
<1>3. ASSUME WorkerCrash PROVE Typing'
  <2>1. LoopTyped'
    BY <1>3, <1>b, StatusLoopAssumption DEF WorkerCrash, LoopTyped
  <2>2. RunsTyped'
    <3> DEFINE S == {r \in DOMAIN engine : \E a \in AriaJobs : engine[r].key = Key[a]}
    <3>1. engine' = <<>> \/ engine' = Restrict(engine, S)
      BY <1>3 DEF WorkerCrash
    <3>2. S = {r \in DOMAIN engine : r \in S}
      OBVIOUS
    <3> HIDE DEF S
    <3>3. engine' = <<>> \/ engine' = Restrict(engine, {r \in DOMAIN engine : r \in S})
      BY <3>1, <3>2
    <3> QED BY <1>3, <3>3, Forgotten DEF WorkerCrash
  <2> QED BY <1>3, <2>1, <2>2, RowsIdle DEF WorkerCrash
<1> QED BY <1>1, <1>2, <1>3 DEF FaultStep, PushFails, AnswerLost

\* Every step keeps the types.
LEMMA StepTyped == ASSUME Typing, [Next]_vars PROVE Typing'
<1>1. ASSUME NEW r \in DOMAIN engine, Finish(r) PROVE Typing'
  <2>1. RunsTyped'
    BY <1>1 DEF Finish, Typing, RunsTyped, Entry, Terminal
  <2> QED BY <1>1, <2>1, RowsIdle, LoopIdle DEF Finish, Typing
<1>2. CASE UNCHANGED vars
    BY <1>2, RowsIdle, RunsIdle, LoopIdle DEF vars, Typing
<1> QED BY <1>1, <1>2, ControllerTyped, LoopStepsTyped, FaultsTyped DEF Next

\* Typing is an invariant.
THEOREM TypingInvariance == Spec => []Typing
<1> QED BY TypingInit, StepTyped, PTL DEF Spec

\* Every variable of the engines, the tracker, the loop, the buffer and the jobs
\* table keeps its type, and the buffer its limit (worker/server.go: PushStatuses).
THEOREM TypeCorrect == Spec => []TypeOK
<1> QED BY TypingInvariance, TypingTypes, PTL

-----------------------------------------------------------------------------
(***************************************************************************)
(* An outcome is read once.                                                *)
(***************************************************************************)
Seen == Held \cup recorded

\* An entry yt-dlp answers for, a run aria2 is asked about, a run of aria2 that
\* is tracked: its outcome has not been read, or is just being reported.
YtUnread ==
    \A r \in DOMAIN engine, j \in YtJobs :
        engine[r].key = Key[j] => [job |-> j, run |-> r] \notin Seen
AriaUnread == \A x \in loop.listed : x.job \in AriaJobs => Outcome(x) \notin Seen
AriaTracked ==
    \A a \in AriaJobs \cap DOMAIN tracker :
        [job |-> a, run |-> tracker[a]] \in Seen => \E x \in loop.read : x.job = a
Unread == YtUnread /\ AriaUnread /\ AriaTracked

\* Where the loop is says what is where.
Pushing == {"push", "complete", "fail", "remove"}
Phases ==
    /\ loop.pc = "wait" => loop = IdleLoop
    /\ loop.pc # "poll" => loop.read = {}
    /\ loop.pc \in Pushing => pending = <<>>
OnlyEnds ==
    \A x \in loop.read \cup Range(loop.batch) \cup Range(pending) : x.state \in Terminal
RecordedSoFar ==
    "statement" \notin Faults =>
        /\ loop.pc \in {"fail", "remove"} => OutcomesOf("completed") \subseteq recorded
        /\ loop.pc = "remove" => OutcomesOf("failed") \subseteq recorded
Phased == Phases /\ OnlyEnds /\ RecordedSoFar

\* No outcome is held twice.
NoneTwice(s) == \A i, k \in DOMAIN s : Outcome(s[i]) = Outcome(s[k]) => i = k
Apart(A, B) == \A x \in A, y \in B : Outcome(x) # Outcome(y)
Distinct ==
    /\ NoneTwice(loop.batch) /\ NoneTwice(pending)
    /\ \A x, y \in loop.read : Outcome(x) = Outcome(y) => x = y
    /\ Apart(loop.read, Range(loop.batch)) /\ Apart(loop.read, Range(pending))
    /\ Apart(Range(loop.batch), Range(pending))

Holding == Unread /\ Phased /\ Distinct
Stutters == Held' = Held /\ recorded' = recorded

\* Holding holds initially.
LEMMA HoldingInit == Init => Holding
<1> SUFFICES ASSUME Init PROVE Holding
    OBVIOUS
<1>1. Unread
    BY DEF Init, Unread, YtUnread, AriaUnread, AriaTracked, IdleLoop
<1>2. Phased
    BY DEF Init, Phased, Phases, OnlyEnds, RecordedSoFar, IdleLoop, Range
<1>3. Distinct
    BY DEF Init, Distinct, NoneTwice, Apart, IdleLoop, Range
<1> QED BY <1>1, <1>2, <1>3 DEF Holding

\* Outcomes are held or recorded only of runs that were started.
LEMMA SeenStarted == ASSUME Typing PROVE Seen \subseteq [job: Jobs, run: used]
<1>1. /\ loop.read \subseteq Started(used)
      /\ loop.batch \in Seq(Started(used)) /\ pending \in Seq(Started(used))
    BY DEF Typing, LoopTyped, Loops
<1>2. Range(loop.batch) \subseteq Started(used) /\ Range(pending) \subseteq Started(used)
    BY <1>1, ElementOfSeq DEF Range
<1> QED BY <1>1, <1>2 DEF Seen, Held, Typing, LoopTyped, Started, Outcome, Report

\* Nothing unread is seen in a step that reads nothing and lists nothing.
LEMMA UnreadKept ==
    ASSUME Typing, Unread, Seen' \subseteq Seen,
           \A r \in DOMAIN engine' :
               (r \in DOMAIN engine /\ engine'[r].key = engine[r].key) \/ r \notin used,
           loop'.listed \subseteq loop.listed,
           \A j \in DOMAIN tracker' :
               (j \in DOMAIN tracker /\ tracker'[j] = tracker[j])
               \/ (j \in AriaJobs => tracker'[j] \notin used),
           \A x \in loop.read : x \in loop'.read \/ x.job \notin DOMAIN tracker'
    PROVE  Unread'
<1>1. \A o \in Seen : o.run \in used
    BY SeenStarted
<1>2. YtUnread'
    BY <1>1 DEF Unread, YtUnread
<1>3. AriaUnread'
    BY DEF Unread, AriaUnread
<1>4. AriaTracked'
    BY <1>1 DEF Unread, AriaTracked
<1> QED BY <1>2, <1>3, <1>4 DEF Unread

\* What happens outside the loop leaves what is held and recorded alone.
LEMMA Outside ==
    ASSUME UNCHANGED <<loop, pending, recorded>>
    PROVE  /\ Stutters /\ Seen' = Seen
           /\ Phased => Phased'
           /\ Distinct => Distinct'
<1>1. Stutters /\ Seen' = Seen
    BY DEF Stutters, Seen, Held
<1>2. Phased => Phased'
    BY DEF Phased, Phases, OnlyEnds, RecordedSoFar, OutcomesOf, InBatch
<1>3. Distinct => Distinct'
    BY DEF Distinct, NoneTwice, Apart
<1> QED BY <1>1, <1>2, <1>3

\* A run that ends has not been read yet.
LEMMA FinishHolds == ASSUME Typing, Holding, NEW r \in DOMAIN engine, Finish(r) PROVE Holding' /\ Stutters
<1>1. UNCHANGED <<loop, pending, recorded, tracker>>
    BY DEF Finish
<1>2. \A x \in DOMAIN engine' : x \in DOMAIN engine /\ engine'[x].key = engine[x].key
    BY DEF Finish, Typing, RunsTyped, Entry
<1>3. Unread'
    BY <1>1, <1>2, Outside, UnreadKept DEF Holding
<1> QED BY <1>1, <1>3, Outside DEF Holding

\* The controller neither reads nor records an outcome, and what it starts has
\* none yet; it may cancel, remove and dispatch a job anew in the middle of a poll.
LEMMA ControllerHolds == ASSUME Typing, Holding, ControllerStep PROVE Holding' /\ Stutters
<1>1. UNCHANGED <<loop, pending, recorded>>
    BY DEF ControllerStep, Start, Dispatch, Activate, FailRow, Delete, CancelJob, RemoveJob
<1>2. /\ \A r \in DOMAIN engine' :
             (r \in DOMAIN engine /\ engine'[r].key = engine[r].key) \/ r \notin used
      /\ \A j \in DOMAIN tracker' :
             (j \in DOMAIN tracker /\ tracker'[j] = tracker[j])
             \/ (j \in AriaJobs => tracker'[j] \notin used)
  <2>1. ASSUME NEW j \in Jobs, Start(j) \/ Activate(j) \/ FailRow(j) \/ Delete(j) PROVE <1>2!:
    BY <2>1 DEF Start, Activate, FailRow, Delete
  <2>2. ASSUME NEW j \in Jobs, Dispatch(j) PROVE <1>2!:
    <3>1. CASE UNCHANGED <<engine, tracker>>
      BY <3>1
    <3>2. CASE ~UNCHANGED <<engine, tracker>>
      <4>1. PICK r \in IF j \in YtJobs /\ Entries(j, NoRun) # {}
                       THEN Entries(j, NoRun) ELSE Runs \ used :
              /\ engine' = Launch(r, j)
              /\ tracker' = [i \in DOMAIN tracker \cup {j} |-> IF i = j THEN r ELSE tracker[i]]
        BY <2>2, <3>2 DEF Dispatch
      <4>2. r \in DOMAIN engine \/ r \notin used
        BY <4>1 DEF Entries
      <4>3. j \in AriaJobs => r \notin used
        BY <4>1, StatusLoopAssumption
      <4> QED BY <4>1, <4>2, <4>3 DEF Launch
    <3> QED BY <3>1, <3>2
  <2>3. ASSUME NEW x \in removing, CancelJob(x) PROVE <1>2!:
    <3>1. /\ DOMAIN engine' = DOMAIN engine
          /\ \A r \in DOMAIN engine : engine'[r].key = engine[r].key
      BY <2>3 DEF CancelJob, Typing, RunsTyped, Entry
    <3>2. DOMAIN tracker' \subseteq DOMAIN tracker /\ \A j \in DOMAIN tracker' : tracker'[j] = tracker[j]
      BY <2>3 DEF CancelJob, Forget, Restrict
    <3> QED BY <3>1, <3>2
  <2>4. ASSUME NEW x \in removing, RemoveJob(x) PROVE <1>2!:
    BY <2>4 DEF RemoveJob, Forget, Restrict
  <2> QED BY <2>1, <2>2, <2>3, <2>4 DEF ControllerStep
<1>3. Unread'
    BY <1>1, <1>2, Outside, UnreadKept DEF Holding
<1> QED BY <1>1, <1>3, Outside DEF Holding

\* Steps of the loop that move no report.
LEMMA SameReports ==
    ASSUME loop'.read = loop.read, loop'.batch = loop.batch, pending' = pending
    PROVE  /\ Held' = Held
           /\ \A state : OutcomesOf(state)' = OutcomesOf(state)
           /\ OnlyEnds => OnlyEnds'
           /\ Distinct => Distinct'
<1>1. Held' = Held
    BY DEF Held
<1>2. \A state : OutcomesOf(state)' = OutcomesOf(state)
    BY DEF OutcomesOf, InBatch
<1>3. OnlyEnds => OnlyEnds'
    BY DEF OnlyEnds
<1>4. Distinct => Distinct'
    BY DEF Distinct, NoneTwice, Apart
<1> QED BY <1>1, <1>2, <1>3, <1>4

\* A tick starts: what is tracked has not been read.
LEMMA PollListHolds == ASSUME Typing, Holding, PollList PROVE Holding' /\ Stutters
<1> DEFINE L == {[job |-> j, run |-> tracker[j]] : j \in DOMAIN tracker}
<1>1. loop \in Loops(used)
    BY DEF Typing, LoopTyped
<1>2. loop' = [loop EXCEPT !.pc = "poll", !.listed = L]
      /\ loop.pc = "wait" /\ UNCHANGED <<engine, tracker, pending, recorded>>
    BY DEF PollList
<1>3. loop.read = {}
    BY <1>2 DEF Holding, Phased, Phases
<1>4. \A x \in L : x.job \in AriaJobs => Outcome(x) \notin Seen
    BY <1>3 DEF Holding, Unread, AriaTracked, Outcome
<1> HIDE DEF L
<1>5. /\ loop'.pc = "poll" /\ loop'.listed = L
      /\ loop'.read = loop.read /\ loop'.batch = loop.batch
    BY <1>1, <1>2 DEF Loops
<1>6. Stutters /\ Seen' = Seen
    BY <1>2, <1>5, SameReports DEF Stutters, Seen
<1>7. Unread'
    BY <1>2, <1>4, <1>5, <1>6 DEF Holding, Unread, YtUnread, AriaUnread, AriaTracked
<1>8. Phases' /\ RecordedSoFar'
    BY <1>5 DEF Phases, RecordedSoFar, Pushing
<1> QED BY <1>2, <1>5, <1>6, <1>7, <1>8, SameReports DEF Holding, Phased

\* An outcome that was answered for has not been seen before, and is answered
\* for in one way.
LEMMA AnswersUnread ==
    ASSUME Typing, Holding, NEW x \in loop.listed, NEW y \in Answers(x), y.state \in Terminal
    PROVE  Outcome(y) \notin Seen
<1>1. x \in [job: Jobs, run: used]
    BY DEF Typing, LoopTyped, Loops
<1>2. CASE y.job \in YtJobs
  <2>1. y.job = x.job /\ x.job \notin AriaJobs
    BY <1>2, StatusLoopAssumption DEF Answers
  <2>2. y.run \in Entries(x.job, x.run)
    BY <2>1 DEF Answers
  <2> QED BY <1>2, <2>1, <2>2 DEF Entries, Holding, Unread, YtUnread, Outcome
<1>3. CASE y.job \notin YtJobs
  <2>1. y.job = x.job /\ x.job \in AriaJobs
    BY <1>1, <1>3 DEF Answers, Jobs
  <2>2. y.run = x.run
    BY <1>3, <2>1 DEF Answers, Entries
  <2> QED BY <2>1, <2>2 DEF Holding, Unread, AriaUnread, Outcome
<1> QED BY <1>2, <1>3

\* Two answers about the same run of the same job are the same.
LEMMA AnswersAgree ==
    ASSUME Typing, NEW x \in loop.listed, NEW y \in loop.listed,
           NEW a \in Answers(x), NEW b \in Answers(y), Outcome(a) = Outcome(b)
    PROVE  a = b
<1>1. x \in [job: Jobs, run: used] /\ y \in [job: Jobs, run: used]
    BY DEF Typing, LoopTyped, Loops
<1>2. a.job = x.job /\ b.job = y.job /\ a.job = b.job /\ a.run = b.run
    BY DEF Answers, Outcome
<1>3. \A z \in [job: Jobs, run: used] : \A c \in Answers(z) :
        \/ /\ c.run \in Entries(z.job, z.run)
           /\ c = [job |-> z.job, run |-> c.run, state |-> engine[c.run].state]
        \/ /\ Entries(z.job, z.run) = {} /\ z.job \in AriaJobs /\ c.run = z.run
           /\ c = [job |-> z.job, run |-> z.run, state |-> "failed"]
    BY DEF Answers
<1>4. \A z \in [job: Jobs, run: used] : \A r \in Entries(z.job, z.run) :
        z.job \in AriaJobs => r = z.run
    BY StatusLoopAssumption DEF Entries
<1>5. CASE x.job \in AriaJobs
  <2>1. a.run = x.run /\ b.run = y.run
    BY <1>1, <1>2, <1>3, <1>4, <1>5
  <2>2. x.job = y.job /\ x.run = y.run
    BY <1>2, <2>1
  <2> QED BY <1>1, <1>2, <1>3, <2>1, <2>2
<1>6. CASE x.job \notin AriaJobs
    BY <1>1, <1>2, <1>3, <1>6
<1> QED BY <1>5, <1>6

\* Reports of outcomes that were not seen are read.
LEMMA ReadingHolds ==
    ASSUME Typing, Typing', Holding, NEW New \in SUBSET Started(used),
           loop.pc = "poll", loop'.pc = "poll",
           loop'.read = loop.read \cup New, loop'.batch = loop.batch,
           UNCHANGED <<pending, recorded>>,
           \A x \in New : x.state \in Terminal /\ Outcome(x) \notin Seen,
           \A x, y \in New : Outcome(x) = Outcome(y) => x = y
    PROVE  /\ Held' = Held \cup {Outcome(x) : x \in New}
           /\ Phased' /\ Distinct'
           /\ \E R \in SUBSET [job: Jobs, run: Runs] : Delivery!Read(R)
<1> DEFINE R == {Outcome(x) : x \in New}
<1>1. Held' = Held \cup R
    BY DEF Held
<1>2. Phases' /\ RecordedSoFar' /\ OnlyEnds'
    BY DEF Holding, Phased, Phases, RecordedSoFar, OnlyEnds, Pushing
<1>3. \A x \in New : /\ \A y \in loop.read : Outcome(x) # Outcome(y)
                     /\ \A y \in Range(loop.batch) : Outcome(x) # Outcome(y)
                     /\ \A y \in Range(pending) : Outcome(x) # Outcome(y)
    BY DEF Seen, Held
<1>4. Distinct'
  <2>1. NoneTwice(loop'.batch) /\ NoneTwice(pending') /\ Apart(Range(loop'.batch), Range(pending'))
    BY DEF Holding, Distinct
  <2>2. \A x, y \in loop'.read : Outcome(x) = Outcome(y) => x = y
    BY <1>3 DEF Holding, Distinct
  <2>3. Apart(loop'.read, Range(loop'.batch)) /\ Apart(loop'.read, Range(pending'))
    BY <1>3 DEF Holding, Distinct, Apart
  <2> QED BY <2>1, <2>2, <2>3 DEF Distinct
<1>5. R \in SUBSET [job: Jobs, run: Runs] /\ R \cap (Held \cup recorded) = {}
    BY DEF Started, Report, Outcome, Seen
<1> HIDE DEF R
<1>6. Delivery!Read(R)
    BY <1>1, <1>5 DEF Delivery!Read
<1> QED BY <1>1, <1>2, <1>4, <1>5, <1>6 DEF Phased, R

\* BatchStatus reads outcomes that were not seen: the engine forgets those runs.
LEMMA PollReadHolds ==
    ASSUME Typing, Typing', Holding, NEW E, PollRead(E)
    PROVE  Holding' /\ \E R \in SUBSET [job: Jobs, run: Runs] : Delivery!Read(R)
<1> DEFINE asked == {x \in loop.listed : x.job \in E}
           reports == UNION {Answers(x) : x \in asked}
           ended == {x \in reports : x.state \in Terminal}
<1>0. loop \in Loops(used)
    BY DEF Typing, LoopTyped
<1>1. /\ loop' = [loop EXCEPT !.listed = @ \ asked, !.read = @ \cup ended,
                              !.progress = @ \cup (reports \ ended)]
      /\ engine' = Forget(engine, {x.run : x \in ended})
      /\ loop.pc = "poll" /\ UNCHANGED <<tracker, pending, recorded>>
    BY DEF PollRead
<1>2. ended \in SUBSET Started(used)
    BY <1>0, AnswersStarted DEF Loops
<1>3. \A x \in ended : x.state \in Terminal /\ Outcome(x) \notin Seen
    BY AnswersUnread
<1>4. \A x, y \in ended : Outcome(x) = Outcome(y) => x = y
    BY AnswersAgree
<1>5. \A x \in ended : x.job \in E
    BY DEF Answers
<1> HIDE DEF asked, reports, ended
<1>6. /\ loop'.pc = "poll" /\ loop'.batch = loop.batch
      /\ loop'.read = loop.read \cup ended /\ loop'.listed = loop.listed \ asked
    BY <1>0, <1>1 DEF Loops
<1>7. /\ Held' = Held \cup {Outcome(x) : x \in ended}
      /\ Phased' /\ Distinct'
      /\ \E R \in SUBSET [job: Jobs, run: Runs] : Delivery!Read(R)
    BY <1>1, <1>2, <1>3, <1>4, <1>6, ReadingHolds
<1>8. \A o \in Seen' : o \in Seen \/ \E x \in ended : o = Outcome(x)
    BY <1>1, <1>7 DEF Seen
<1>9. YtUnread'
  <2> SUFFICES ASSUME NEW r \in DOMAIN engine', NEW j \in YtJobs, engine'[r].key = Key[j],
                      [job |-> j, run |-> r] \in Seen'
               PROVE  FALSE
    BY DEF YtUnread
  <2>1. r \in DOMAIN engine /\ engine'[r] = engine[r] /\ r \notin {x.run : x \in ended}
    BY <1>1 DEF Forget, Restrict
  <2>2. [job |-> j, run |-> r] \notin Seen
    BY <2>1 DEF Holding, Unread, YtUnread
  <2> QED BY <1>8, <2>1, <2>2 DEF Outcome
<1>10. AriaUnread'
  <2>1. \A x \in loop'.listed : x \in loop.listed /\ x.job \notin E
    BY <1>6 DEF asked
  <2> QED BY <1>5, <1>8, <2>1 DEF Holding, Unread, AriaUnread, Outcome
<1>11. AriaTracked'
    BY <1>1, <1>6, <1>8 DEF Holding, Unread, AriaTracked, Outcome
<1> QED BY <1>7, <1>9, <1>10, <1>11 DEF Holding, Unread

\* aria2 does not answer: the jobs it is asked about, whose runs have not been
\* read, may be reported as failed.
LEMMA PollLostHolds ==
    ASSUME Typing, Typing', Holding, PollLost
    PROVE  Holding' /\ \E R \in SUBSET [job: Jobs, run: Runs] : Delivery!Read(R)
<1> DEFINE asked == {x \in loop.listed : x.job \in AriaJobs}
<1>0. loop \in Loops(used) /\ used \subseteq Runs
    BY DEF Typing, LoopTyped, RunsTyped
<1>1. PICK lost \in SUBSET asked :
          loop' = [loop EXCEPT !.listed = @ \ asked,
                    !.read = @ \cup {[job |-> x.job, run |-> x.run,
                                     state |-> "failed"] : x \in lost}]
    BY DEF PollLost
<1>2. loop.pc = "poll" /\ UNCHANGED <<engine, tracker, pending, recorded>>
    BY DEF PollLost
<1> DEFINE New == {[job |-> x.job, run |-> x.run, state |-> "failed"] : x \in lost}
<1>3. New \in SUBSET Started(used)
    BY <1>0 DEF Loops, Started, Report, Terminal
<1>4. \A x \in New : /\ x.state \in Terminal /\ x.job \in AriaJobs
                     /\ \E y \in asked : Outcome(x) = Outcome(y)
    BY DEF Terminal, Outcome
<1>5. \A x \in New : Outcome(x) \notin Seen
    BY <1>4 DEF Holding, Unread, AriaUnread
<1>6. \A x, y \in New : Outcome(x) = Outcome(y) => x = y
    BY DEF Outcome
<1>7. loop' = [loop EXCEPT !.listed = @ \ asked, !.read = @ \cup New]
    BY <1>1
<1> HIDE DEF New
<1>8. loop'.pc = "poll" /\ loop'.batch = loop.batch /\ loop'.read = loop.read \cup New
      /\ loop'.listed = loop.listed \ asked
    BY <1>0, <1>2, <1>7 DEF Loops
<1>9. /\ Held' = Held \cup {Outcome(x) : x \in New}
      /\ Phased' /\ Distinct'
      /\ \E R \in SUBSET [job: Jobs, run: Runs] : Delivery!Read(R)
    BY <1>2, <1>3, <1>4, <1>5, <1>6, <1>8, ReadingHolds
<1>10. \A o \in Seen' : o \in Seen \/ \E x \in New : o = Outcome(x)
    BY <1>2, <1>9 DEF Seen
<1>11. YtUnread'
    BY <1>2, <1>4, <1>10, StatusLoopAssumption DEF Holding, Unread, YtUnread, Outcome
<1>12. AriaUnread'
    BY <1>8 DEF AriaUnread
<1>13. AriaTracked'
    BY <1>2, <1>8, <1>10 DEF Holding, Unread, AriaTracked, Outcome
<1> QED BY <1>9, <1>11, <1>12, <1>13 DEF Holding, Unread

-----------------------------------------------------------------------------
(***************************************************************************)
(* An outcome is held until it is recorded.                                *)
(***************************************************************************)
\* Sequences of reports.
LEMMA Appended ==
    ASSUME NEW S, NEW s \in Seq(S), NEW x \in S
    PROVE  /\ Range(Append(s, x)) = Range(s) \cup {x}
           /\ NoneTwice(s) /\ (\A y \in Range(s) : Outcome(x) # Outcome(y)) => NoneTwice(Append(s, x))
<1> DEFINE t == Append(s, x)
<1>1. /\ DOMAIN s = 1..Len(s) /\ Len(s) \in Nat /\ DOMAIN t = 1..(Len(s) + 1)
      /\ \A i \in DOMAIN s : t[i] = s[i]
      /\ t[Len(s) + 1] = x
    BY AppendProperties, LenProperties
<1> HIDE DEF t
<1>2. \A i \in DOMAIN t : i \in DOMAIN s \/ i = Len(s) + 1
    BY <1>1
<1>3. \A i \in DOMAIN s : i \in DOMAIN t
    BY <1>1
<1>4. Range(t) = Range(s) \cup {x}
    BY <1>1, <1>2, <1>3 DEF Range
<1>5. ASSUME NoneTwice(s), \A y \in Range(s) : Outcome(x) # Outcome(y) PROVE NoneTwice(t)
    BY <1>1, <1>2, <1>5 DEF NoneTwice, Range
<1> QED BY <1>4, <1>5 DEF t

\* What was buffered goes first.
LEMMA Concatenated ==
    ASSUME NEW S, NEW s \in Seq(S), NEW t \in Seq(S)
    PROVE  /\ Range(s \o t) = Range(s) \cup Range(t)
           /\ NoneTwice(s) /\ NoneTwice(t) /\ Apart(Range(t), Range(s)) => NoneTwice(s \o t)
<1> DEFINE u == s \o t
<1>1. /\ DOMAIN s = 1..Len(s) /\ Len(s) \in Nat /\ DOMAIN t = 1..Len(t) /\ Len(t) \in Nat
      /\ DOMAIN u = 1..(Len(s) + Len(t))
      /\ \A i \in DOMAIN u : u[i] = IF i <= Len(s) THEN s[i] ELSE t[i - Len(s)]
    BY ConcatProperties, LenProperties
<1> HIDE DEF u
<1>2. \A i \in DOMAIN u : \/ i \in DOMAIN s /\ u[i] = s[i]
                          \/ i - Len(s) \in DOMAIN t /\ u[i] = t[i - Len(s)]
    BY <1>1
<1>3. /\ \A i \in DOMAIN s : i \in DOMAIN u /\ u[i] = s[i]
      /\ \A i \in DOMAIN t : i + Len(s) \in DOMAIN u /\ u[i + Len(s)] = t[i]
    BY <1>1
<1>4. Range(u) = Range(s) \cup Range(t)
    BY <1>2, <1>3 DEF Range
<1>5. ASSUME NoneTwice(s), NoneTwice(t), Apart(Range(t), Range(s)) PROVE NoneTwice(u)
  <2>1. \A i \in DOMAIN s, k \in DOMAIN t : Outcome(s[i]) # Outcome(t[k])
    BY <1>5 DEF Apart, Range
  <2>2. \A i, k \in DOMAIN t : Outcome(t[i]) = Outcome(t[k]) => i = k
    BY <1>5 DEF NoneTwice
  <2>3. \A i, k \in DOMAIN s : Outcome(s[i]) = Outcome(s[k]) => i = k
    BY <1>5 DEF NoneTwice
  <2> SUFFICES ASSUME NEW i \in DOMAIN u, NEW k \in DOMAIN u, Outcome(u[i]) = Outcome(u[k])
               PROVE  i = k
    BY DEF NoneTwice
  <2>4. CASE i \in DOMAIN s /\ u[i] = s[i]
    BY <1>2, <2>1, <2>3, <2>4
  <2>5. CASE i - Len(s) \in DOMAIN t /\ u[i] = t[i - Len(s)]
    <3>1. k - Len(s) \in DOMAIN t /\ u[k] = t[k - Len(s)]
      BY <1>2, <2>1, <2>5
    <3>2. i - Len(s) = k - Len(s)
      BY <2>2, <2>5, <3>1
    <3> QED BY <1>1, <3>2
  <2> QED BY <1>2, <2>4, <2>5
<1> QED BY <1>4, <1>5 DEF u

\* The newest reports of a batch.
LEMMA Cut ==
    ASSUME NEW S, NEW s \in Seq(S)
    PROVE  /\ Range(Newest(s)) \subseteq Range(s)
           /\ NoneTwice(s) => NoneTwice(Newest(s))
<1>1. Limit \in Nat \ {0} /\ Len(s) \in Nat /\ DOMAIN s = 1..Len(s)
    BY StatusLoopAssumption, LenProperties
<1>2. CASE Len(s) > Limit
  <2> DEFINE m == Len(s) - Limit
             t == SubSeq(s, m + 1, Len(s))
  <2>1. m \in Nat /\ m + 1 \in Int /\ Len(s) \in Int /\ m + 1 <= Len(s)
        /\ Len(s) - (m + 1) + 1 = Limit
    BY <1>1, <1>2
  <2>2. \A i \in (m + 1)..Len(s) : s[i] \in S
    BY <1>1, <2>1, ElementOfSeq
  <2> HIDE DEF m
  <2>3. /\ t \in Seq(S) /\ Len(t) = Limit /\ \A i \in 1..Limit : t[i] = s[m + 1 + i - 1]
    BY <2>1, <2>2, SubSeqProperties, Z3
  <2>4. /\ DOMAIN t = 1..Limit /\ \A i \in DOMAIN t : m + i \in DOMAIN s /\ t[i] = s[m + i]
    BY <1>1, <2>1, <2>3, LenProperties DEF m
  <2>5. Newest(s) = t
    BY <1>1, <1>2 DEF Newest, m
  <2> HIDE DEF t
  <2>6. Range(t) \subseteq Range(s)
    BY <2>4 DEF Range
  <2>7. ASSUME NoneTwice(s) PROVE NoneTwice(t)
    <3> SUFFICES ASSUME NEW i \in DOMAIN t, NEW k \in DOMAIN t, Outcome(t[i]) = Outcome(t[k])
                 PROVE  i = k
      BY DEF NoneTwice
    <3>1. m + i = m + k
      BY <2>4, <2>7 DEF NoneTwice
    <3> QED BY <1>1, <2>1, <2>4, <3>1
  <2> QED BY <2>5, <2>6, <2>7
<1> QED BY <1>1, <1>2 DEF Newest

\* There are no more outcomes than runs and jobs.
LEMMA FewOutcomes ==
    ASSUME NEW s \in Seq(Report), NoneTwice(s)
    PROVE  /\ Cardinality(Runs) * Cardinality(Jobs) \in Nat
           /\ Len(s) <= Cardinality(Runs) * Cardinality(Jobs)
<1> DEFINE f == [i \in 1..Len(s) |-> <<s[i].run, s[i].job>>]
<1>1. Len(s) \in Nat /\ DOMAIN s = 1..Len(s)
    BY LenProperties
<1>2. \A i \in 1..Len(s) : s[i] \in Report
    BY <1>1, ElementOfSeq
<1>3. f \in [1..Len(s) -> Runs \X Jobs]
    BY <1>2 DEF Report
<1>4. \A i, k \in 1..Len(s) : f[i] = f[k] => i = k
    BY <1>1 DEF NoneTwice, Outcome
<1>5. f \in Injection(1..Len(s), Runs \X Jobs)
    BY <1>3, <1>4 DEF Injection, IsInjective
<1>6. /\ IsFiniteSet(Runs \X Jobs)
      /\ Cardinality(Runs \X Jobs) = Cardinality(Runs) * Cardinality(Jobs)
    BY StatusLoopAssumption, FS_Product
<1>7. Cardinality(Runs \X Jobs) \in Nat
    BY <1>6, FS_CardinalityType
<1>8. Cardinality(1..Len(s)) <= Cardinality(Runs \X Jobs)
    BY <1>5, <1>6, FS_Injection
<1>9. Cardinality(1..Len(s)) = IF 1 > Len(s) THEN 0 ELSE Len(s) - 1 + 1
    BY <1>1, FS_Interval
<1> QED BY <1>1, <1>6, <1>7, <1>8, <1>9

\* What is held, part by part.
LEMMA Parts ==
    ASSUME Typing
    PROVE  /\ loop \in Loops(used)
           /\ loop.read \subseteq Started(used) /\ loop.batch \in Seq(Started(used))
           /\ pending \in Seq(Started(used)) /\ Started(used) \subseteq Report
           /\ loop.batch \in Seq(Report)
           /\ Held \in SUBSET [job: Jobs, run: Runs]
<1>1. /\ loop \in Loops(used) /\ pending \in Seq(Started(used))
      /\ loop.read \subseteq Started(used) /\ loop.batch \in Seq(Started(used))
    BY DEF Typing, LoopTyped, Loops
<1>2. Started(used) \subseteq Report
    BY DEF Started
<1>3. loop.batch \in Seq(Report)
    BY <1>1, <1>2, SeqMonotonic
<1>4. Held \in SUBSET [job: Jobs, run: Runs]
    BY SeenStarted DEF Seen, Typing, RunsTyped
<1> QED BY <1>1, <1>2, <1>3, <1>4

\* A report moves to the batch, and the tracker forgets its job.
LEMMA PollReportHolds ==
    ASSUME Typing, Holding, NEW x \in loop.read, PollReport(x) PROVE Holding' /\ Stutters
<1>1. /\ loop' = [loop EXCEPT !.read = @ \ {x}, !.batch = Append(@, x)]
      /\ loop.pc = "poll" /\ tracker' = Forget(tracker, {x.job})
      /\ UNCHANGED <<engine, used, pending, recorded>>
    BY DEF PollReport
<1>2. /\ loop'.pc = "poll" /\ loop'.read = loop.read \ {x} /\ loop'.listed = loop.listed
      /\ loop'.batch = Append(loop.batch, x)
    BY <1>1, Parts DEF Loops
<1>3. /\ Range(loop'.batch) = Range(loop.batch) \cup {x}
      /\ NoneTwice(loop'.batch)
  <2>1. x \in Started(used) /\ loop.batch \in Seq(Started(used))
    BY Parts
  <2>2. NoneTwice(loop.batch) /\ \A y \in Range(loop.batch) : Outcome(x) # Outcome(y)
    BY DEF Holding, Distinct, Apart
  <2> QED BY <1>2, <2>1, <2>2, Appended
<1>4. Stutters /\ Seen' = Seen
    BY <1>1, <1>2, <1>3 DEF Stutters, Seen, Held
<1>5. DOMAIN tracker' \subseteq DOMAIN tracker \ {x.job} /\ \A j \in DOMAIN tracker' : tracker'[j] = tracker[j]
    BY <1>1 DEF Forget, Restrict
<1>6. Unread'
    BY <1>1, <1>2, <1>4, <1>5, UnreadKept DEF Holding
<1>7. Phases' /\ RecordedSoFar'
    BY <1>2 DEF Phases, RecordedSoFar, Pushing
<1>8. OnlyEnds'
    BY <1>1, <1>2, <1>3 DEF Holding, Phased, OnlyEnds
<1>9. Distinct'
  <2>1. \A y \in loop.read \ {x} : Outcome(y) # Outcome(x)
    BY DEF Holding, Distinct
  <2>2. /\ Apart(loop'.read, Range(loop'.batch)) /\ Apart(loop'.read, Range(pending'))
        /\ Apart(Range(loop'.batch), Range(pending'))
    BY <1>1, <1>2, <1>3, <2>1 DEF Holding, Distinct, Apart
  <2> QED BY <1>1, <1>2, <1>3, <2>2 DEF Holding, Distinct
<1> QED BY <1>4, <1>6, <1>7, <1>8, <1>9 DEF Holding, Phased

\* The empty sequence.
LEMMA NothingTwice == NoneTwice(<<>>) /\ Range(<<>>) = {}
BY DEF NoneTwice, Range

\* The buffer is emptied into the batch.
LEMMA SendHolds == ASSUME Typing, Holding, Send PROVE Holding' /\ Stutters
<1>1. /\ loop.pc = "poll" /\ loop.listed = {} /\ loop.read = {}
      /\ UNCHANGED <<engine, used, tracker, recorded>>
    BY DEF Send
<1>2. CASE loop.batch = <<>> /\ loop' = IdleLoop /\ UNCHANGED pending
  <2>1. /\ loop'.pc = "wait" /\ loop'.listed = {} /\ loop'.read = loop.read
        /\ loop'.batch = loop.batch /\ pending' = pending
    BY <1>1, <1>2 DEF IdleLoop
  <2>2. Stutters /\ Seen' = Seen
    BY <1>1, <2>1, SameReports DEF Stutters, Seen
  <2>3. Unread'
    BY <1>1, <2>1, <2>2, UnreadKept DEF Holding
  <2>4. Phases' /\ RecordedSoFar'
    BY <1>1, <1>2, <2>1 DEF Phases, RecordedSoFar, Pushing
  <2> QED BY <2>1, <2>2, <2>3, <2>4, SameReports DEF Holding, Phased
<1>3. CASE loop' = [loop EXCEPT !.pc = "push", !.batch = pending \o @] /\ pending' = <<>>
  <2>1. /\ loop'.pc = "push" /\ loop'.listed = loop.listed /\ loop'.read = loop.read
        /\ loop'.batch = pending \o loop.batch
    BY <1>3, Parts DEF Loops
  <2>2. /\ Range(loop'.batch) = Range(pending) \cup Range(loop.batch)
        /\ NoneTwice(loop'.batch)
    BY <2>1, Parts, Concatenated DEF Holding, Distinct
  <2>3. Range(pending') = {} /\ NoneTwice(pending')
    BY <1>3, NothingTwice
  <2>4. Stutters /\ Seen' = Seen
    BY <1>1, <2>1, <2>2, <2>3 DEF Stutters, Seen, Held
  <2>5. Unread'
    BY <1>1, <2>1, <2>4, UnreadKept DEF Holding
  <2>6. Phases' /\ RecordedSoFar'
    BY <1>1, <1>3, <2>1 DEF Phases, RecordedSoFar, Pushing
  <2>7. OnlyEnds'
    BY <2>1, <2>2, <2>3 DEF Holding, Phased, OnlyEnds
  <2>8. Distinct'
    BY <1>1, <2>1, <2>2, <2>3 DEF Distinct, Apart
  <2> QED BY <2>4, <2>5, <2>6, <2>7, <2>8 DEF Holding, Phased
<1> QED BY <1>2, <1>3 DEF Send

\* From one place in a push to the next.
LEMMA GotoHolds ==
    ASSUME Typing, Holding, loop.pc \in Pushing, loop'.pc \in Pushing,
           loop'.listed = loop.listed, loop'.read = loop.read, loop'.batch = loop.batch,
           UNCHANGED <<tracker, pending>>,
           engine' = engine \/ (\E S : engine' = Forget(engine, S)),
           Seen' \subseteq Seen, RecordedSoFar'
    PROVE  Holding' /\ Held' = Held
<1>1. \A r \in DOMAIN engine' : r \in DOMAIN engine /\ engine'[r].key = engine[r].key
    BY DEF Forget, Restrict
<1>2. Unread'
    BY <1>1, UnreadKept DEF Holding
<1>3. Phases'
    BY DEF Holding, Phased, Phases, Pushing
<1> QED BY <1>2, <1>3, SameReports DEF Holding, Phased

\* A report in the batch is held.
LEMMA BatchHeld == ASSUME NEW state PROVE OutcomesOf(state) \subseteq Held
BY DEF OutcomesOf, InBatch, Held, Range

\* The fields of the loop in a step of the push.
LEMMA GotoFields ==
    ASSUME Typing, NEW pc, Goto(pc)
    PROVE  /\ loop'.pc = pc /\ loop'.listed = loop.listed /\ loop'.read = loop.read
           /\ loop'.batch = loop.batch
BY Parts DEF Goto, Loops

\* Progress is recorded: no outcome is.
LEMMA RecordProgressHolds == ASSUME Typing, Holding, RecordProgress PROVE Holding' /\ Stutters
<1>1. /\ loop.pc = "push" /\ Goto("complete") /\ UNCHANGED <<engine, tracker, pending, recorded>>
    BY DEF RecordProgress
<1>2. /\ loop'.pc = "complete" /\ loop'.listed = loop.listed /\ loop'.read = loop.read
      /\ loop'.batch = loop.batch
    BY <1>1, GotoFields
<1>3. Seen' = Seen
    BY <1>1, <1>2, SameReports DEF Seen
<1>4. RecordedSoFar'
    BY <1>2 DEF RecordedSoFar
<1> QED BY <1>1, <1>2, <1>3, <1>4, GotoHolds DEF Pushing, Stutters

\* Completions are recorded, or the statement fails.
LEMMA RecordCompletedHolds ==
    ASSUME Typing, Holding, RecordCompleted
    PROVE  Holding' /\ \/ Stutters
                       \/ \E R \in SUBSET [job: Jobs, run: Runs] : Delivery!Record(R)
<1> DEFINE done == OutcomesOf("completed")
<1>1. /\ loop.pc = "complete" /\ Goto("fail") /\ UNCHANGED <<engine, tracker, pending>>
      /\ \/ recorded' = recorded \cup done
         \/ "statement" \in Faults /\ recorded' = recorded
    BY DEF RecordCompleted
<1>2. /\ loop'.pc = "fail" /\ loop'.listed = loop.listed /\ loop'.read = loop.read
      /\ loop'.batch = loop.batch
    BY <1>1, GotoFields
<1>3. Held' = Held /\ done' = done /\ done \subseteq Held
    BY <1>1, <1>2, SameReports, BatchHeld
<1>4. Seen' \subseteq Seen
    BY <1>1, <1>3 DEF Seen
<1>5. RecordedSoFar'
    BY <1>1, <1>2, <1>3 DEF RecordedSoFar
<1>6. Holding'
    BY <1>1, <1>2, <1>4, <1>5, GotoHolds DEF Pushing
<1>7. done \in SUBSET [job: Jobs, run: Runs]
    BY <1>3, Parts
<1>8. recorded' = recorded \cup done => Delivery!Record(done)
    BY <1>3 DEF Delivery!Record
<1> QED BY <1>1, <1>3, <1>6, <1>7, <1>8 DEF Stutters

\* Failures are recorded, or the statement fails.
LEMMA RecordFailedHolds ==
    ASSUME Typing, Holding, RecordFailed
    PROVE  Holding' /\ \/ Stutters
                       \/ \E R \in SUBSET [job: Jobs, run: Runs] : Delivery!Record(R)
<1> DEFINE bad == OutcomesOf("failed")
<1>1. /\ loop.pc = "fail" /\ UNCHANGED <<engine, tracker, pending>>
      /\ \/ recorded' = recorded \cup bad
         \/ "statement" \in Faults /\ recorded' = recorded
    BY DEF RecordFailed
<1>2. /\ loop'.pc = "remove" /\ loop'.listed = loop.listed /\ loop'.read = loop.read
      /\ loop'.batch = loop.batch
  <2>1. Goto("remove") \/ \E doomed : loop' = [loop EXCEPT !.pc = "remove", !.doomed = doomed]
    BY DEF RecordFailed
  <2>2. ASSUME NEW doomed, loop' = [loop EXCEPT !.pc = "remove", !.doomed = doomed]
        PROVE  <1>2!:
    BY <2>2, Parts DEF Loops
  <2> QED BY <2>1, <2>2, GotoFields
<1>3. Held' = Held /\ bad' = bad /\ bad \subseteq Held
      /\ OutcomesOf("completed")' = OutcomesOf("completed")
    BY <1>1, <1>2, SameReports, BatchHeld
<1>4. Seen' \subseteq Seen
    BY <1>1, <1>3 DEF Seen
<1>5. RecordedSoFar'
    BY <1>1, <1>2, <1>3 DEF RecordedSoFar, Holding, Phased
<1>6. Holding'
    BY <1>1, <1>2, <1>4, <1>5, GotoHolds DEF Pushing
<1>7. bad \in SUBSET [job: Jobs, run: Runs]
    BY <1>3, Parts
<1>8. recorded' = recorded \cup bad => Delivery!Record(bad)
    BY <1>3 DEF Delivery!Record
<1> QED BY <1>1, <1>3, <1>6, <1>7, <1>8 DEF Stutters

\* The files of a failed job are removed, and with them the entry of the engine.
LEMMA RemoveFailedHolds ==
    ASSUME Typing, Holding, NEW x \in loop.doomed, RemoveFailed(x) PROVE Holding' /\ Stutters
<1>1. /\ loop.pc = "remove" /\ loop' = [loop EXCEPT !.doomed = @ \ {x}]
      /\ engine' = Forget(engine, Entries(x.job, x.run))
      /\ UNCHANGED <<tracker, pending, recorded>>
    BY DEF RemoveFailed
<1>2. /\ loop'.pc = "remove" /\ loop'.listed = loop.listed /\ loop'.read = loop.read
      /\ loop'.batch = loop.batch
    BY <1>1, Parts DEF Loops
<1>3. Seen' = Seen
    BY <1>1, <1>2, SameReports DEF Seen
<1>4. RecordedSoFar'
    BY <1>1, <1>2, SameReports DEF RecordedSoFar, Holding, Phased
<1> QED BY <1>1, <1>2, <1>3, <1>4, GotoHolds DEF Pushing, Stutters

\* The loop is idle again, with some of what it held.
LEMMA IdleAgain ==
    ASSUME Typing, Holding, loop' = IdleLoop, loop.read = {} \/ tracker' = <<>>,
           UNCHANGED recorded, NoneTwice(pending'),
           Range(pending') \subseteq Range(loop.batch) \cup Range(pending),
           tracker' = tracker \/ tracker' = <<>>,
           \A r \in DOMAIN engine' : r \in DOMAIN engine /\ engine'[r].key = engine[r].key
    PROVE  /\ Holding' /\ Held' \subseteq Held
           /\ Held' = {Outcome(x) : x \in Range(pending')}
<1>1. loop'.pc = "wait" /\ loop'.listed = {} /\ loop'.read = {} /\ loop'.batch = <<>>
    BY DEF IdleLoop
<1>2. Held' = {Outcome(x) : x \in Range(pending')}
    BY <1>1, NothingTwice DEF Held
<1>3. Held' \subseteq Held /\ Seen' \subseteq Seen
    BY <1>2 DEF Held, Seen
<1>4. Unread'
  <2>1. DOMAIN tracker' \subseteq DOMAIN tracker /\ \A j \in DOMAIN tracker' : tracker'[j] = tracker[j]
    OBVIOUS
  <2>2. loop.read = {} \/ DOMAIN tracker' = {}
    OBVIOUS
  <2> QED BY <1>1, <1>3, <2>1, <2>2, UnreadKept DEF Holding
<1>5. Phases' /\ RecordedSoFar'
    BY <1>1 DEF Phases, RecordedSoFar, Pushing
<1>6. OnlyEnds'
    BY <1>1, NothingTwice DEF Holding, Phased, OnlyEnds
<1>7. Distinct'
    BY <1>1, NothingTwice DEF Distinct, Apart
<1> QED BY <1>2, <1>3, <1>4, <1>5, <1>6, <1>7 DEF Holding, Phased

\* What is let go.
LEMMA Leaving ==
    ASSUME Typing, Held' \subseteq Held, UNCHANGED recorded,
           Held \ Held' \subseteq recorded \/ MayLose
    PROVE  \E R \in SUBSET [job: Jobs, run: Runs] : Delivery!LetGo(R)
<1>1. Held \ Held' \in SUBSET [job: Jobs, run: Runs] /\ Held' = Held \ (Held \ Held')
    BY Parts
<1>2. Delivery!LetGo(Held \ Held')
    BY <1>1 DEF Delivery!LetGo
<1> QED BY <1>1, <1>2

\* The answer arrives: the batch has been recorded, unless a statement failed.
LEMMA AnswerHolds ==
    ASSUME Typing, Holding, Answer
    PROVE  Holding' /\ \E R \in SUBSET [job: Jobs, run: Runs] : Delivery!LetGo(R)
<1>1. /\ loop.pc = "remove" /\ loop' = IdleLoop
      /\ UNCHANGED <<engine, tracker, pending, recorded>>
    BY DEF Answer
<1>2. loop.read = {} /\ pending = <<>>
    BY <1>1 DEF Holding, Phased, Phases, Pushing
<1>3. Range(pending') = {} /\ NoneTwice(pending')
    BY <1>1, <1>2, NothingTwice
<1>4. Holding' /\ Held' \subseteq Held
    BY <1>1, <1>2, <1>3, IdleAgain
<1>5. Held \subseteq recorded \/ MayLose
  <2>1. CASE "statement" \in Faults
    BY <2>1 DEF MayLose
  <2>2. CASE "statement" \notin Faults
    <3>1. OutcomesOf("completed") \cup OutcomesOf("failed") \subseteq recorded
      BY <1>1, <2>2 DEF Holding, Phased, RecordedSoFar
    <3>2. \A i \in DOMAIN loop.batch : loop.batch[i].state \in Terminal
      BY DEF Holding, Phased, OnlyEnds, Range
    <3>3. \A x \in Range(loop.batch) : Outcome(x) \in recorded
      BY <3>1, <3>2 DEF OutcomesOf, InBatch, Range, Terminal
    <3> QED BY <1>2, <3>3, NothingTwice DEF Held
  <2> QED BY <2>1, <2>2
<1> QED BY <1>1, <1>4, <1>5, Leaving

\* The push or its answer fails: the batch is buffered, and cut only if there are
\* more outcomes than the buffer takes.
LEMMA BufferHolds ==
    ASSUME Typing, Holding, loop.pc \in Pushing, Buffer
    PROVE  Holding' /\ \/ Stutters
                       \/ \E R \in SUBSET [job: Jobs, run: Runs] : Delivery!LetGo(R)
<1>1. /\ loop' = IdleLoop /\ pending' = Newest(loop.batch)
      /\ UNCHANGED <<engine, tracker, recorded>>
    BY DEF Buffer
<1>2. loop.read = {} /\ pending = <<>>
    BY DEF Holding, Phased, Phases, Pushing
<1>3. Range(pending') \subseteq Range(loop.batch) /\ NoneTwice(pending')
    BY <1>1, Cut, Parts DEF Holding, Distinct
<1>4. Holding' /\ Held' \subseteq Held /\ Held' = {Outcome(x) : x \in Range(pending')}
    BY <1>1, <1>2, <1>3, IdleAgain
<1>5. CASE Len(loop.batch) <= Limit
  <2>1. pending' = loop.batch
    BY <1>1, <1>5 DEF Newest
  <2>2. Held = {Outcome(x) : x \in Range(loop.batch)}
    BY <1>2, NothingTwice DEF Held
  <2> QED BY <1>1, <1>4, <2>1, <2>2 DEF Stutters
<1>6. CASE ~(Len(loop.batch) <= Limit)
  <2>1. Len(loop.batch) \in Nat /\ Limit \in Nat
    BY Parts, StatusLoopAssumption, LenProperties
  <2>2. MayLose
    BY <1>6, <2>1, Parts, FewOutcomes DEF MayLose, Holding, Distinct
  <2> QED BY <1>1, <1>4, <2>2, Leaving
<1> QED BY <1>5, <1>6

\* A worker dies with all it held.
LEMMA WorkerCrashHolds ==
    ASSUME Typing, Holding, WorkerCrash
    PROVE  Holding' /\ \E R \in SUBSET [job: Jobs, run: Runs] : Delivery!LetGo(R)
<1>1. /\ loop' = IdleLoop /\ pending' = <<>> /\ tracker' = <<>> /\ UNCHANGED recorded
      /\ "crash" \in Faults
    BY DEF WorkerCrash
<1>2. \A r \in DOMAIN engine' : r \in DOMAIN engine /\ engine'[r].key = engine[r].key
    BY DEF WorkerCrash, Restrict
<1>3. Range(pending') = {} /\ NoneTwice(pending')
    BY <1>1, NothingTwice
<1>4. Holding' /\ Held' \subseteq Held
    BY <1>1, <1>2, <1>3, IdleAgain
<1>5. MayLose
    BY <1>1 DEF MayLose
<1> QED BY <1>1, <1>4, <1>5, Leaving

-----------------------------------------------------------------------------
\* Nothing happens.
LEMMA Silence ==
    ASSUME Typing, Holding, UNCHANGED vars
    PROVE  Holding' /\ Stutters
<1>1. UNCHANGED <<loop, pending, recorded, engine, tracker>>
    BY DEF vars
<1>2. Unread'
    BY <1>1, Outside, UnreadKept DEF Holding
<1> QED BY <1>1, <1>2, Outside DEF Holding

\* Every step keeps the invariant, and reads, records, lets go or stutters.
LEMMA StepHolds ==
    ASSUME Typing, Typing', Holding, [Next]_vars
    PROVE  Holding' /\ [Delivery!Next]_<<Held, recorded>>
<1>1. Holding' /\ \/ Stutters
                  \/ \E R \in SUBSET [job: Jobs, run: Runs] :
                        Delivery!Read(R) \/ Delivery!Record(R) \/ Delivery!LetGo(R)
  <2>1. CASE LoopStep
    BY <2>1, PollListHolds, PollReadHolds, PollReportHolds, SendHolds, RecordProgressHolds,
       RecordCompletedHolds, RecordFailedHolds, RemoveFailedHolds, AnswerHolds DEF LoopStep
  <2>2. CASE FaultStep
    BY <2>2, PollLostHolds, BufferHolds, WorkerCrashHolds
    DEF FaultStep, PushFails, AnswerLost, Pushing
  <2> QED BY <2>1, <2>2, FinishHolds, ControllerHolds, Silence DEF Next
<1> QED BY <1>1 DEF Stutters, Delivery!Next

\* The invariant behind the refinement: where an outcome was read, nothing is
\* left to read it from, and it is in one place, until it is recorded.
THEOREM HoldingInvariance == Spec => []Holding
<1>1. Typing /\ Typing' /\ Holding /\ [Next]_vars => Holding'
    BY StepHolds
<1> QED BY <1>1, HoldingInit, TypingInvariance, PTL DEF Spec

\* The status loop, the worker's sink and PushJobStatuses implement
\* StatusDelivery: an outcome is read once, then held until it is recorded, and let
\* go before that only by a crash, a failing statement or a full buffer, whatever
\* pushes and answers are lost and however jobs are failed, deleted and started
\* anew meanwhile.
THEOREM DeliveryHeld == Spec => ReadOnceAndHeld
<1>1. Init => Delivery!Init
    BY NothingTwice DEF Init, Delivery!Init, Held, IdleLoop
<1>2. Typing /\ Typing' /\ Holding /\ [Next]_vars => [Delivery!Next]_<<Held, recorded>>
    BY StepHolds
<1> QED BY <1>1, <1>2, TypingInvariance, HoldingInvariance, PTL DEF Spec, ReadOnceAndHeld, Delivery!Spec

=============================================================================
