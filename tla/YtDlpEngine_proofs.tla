------------------------- MODULE YtDlpEngine_proofs -------------------------
(***************************************************************************)
(* One process in a directory, one, true outcome for each download, and no *)
(* entry that nobody answers for unless a removal failed or a job was      *)
(* dropped late, for any number of jobs and of downloads.                  *)
(*                                                                         *)
(* The invariant says why.  A download that nobody told to go keeps its    *)
(* entry until its goroutine is over (InTable), so that a new one, which   *)
(* needs the entry to be free, finds none at work.  What BatchStatus has   *)
(* answered for has left the table (AnsweredOnce) and its answer has a     *)
(* cause that nothing undoes (Caused), as each terminal state has.         *)
(***************************************************************************)
EXTENDS YtDlpEngine, TLAPS

AtWork == {"begin", "start", "running", "exited"}

InTable ==
    /\ \A r \in Runs : runs[r].at \in AtWork => runs[r].told \/ r = entry
    /\ \A r \in Runs : r = entry => runs[r].at # "unused"
AnsweredOnce ==
    /\ \A r \in Runs, s \in Terminal :
         <<r, s>> \in answers => runs[r].at # "unused" /\ r # entry
    /\ \A r \in Runs : ~ (<<r, "completed">> \in answers /\ <<r, "failed">> \in answers)

\* Why a download is completed, or failed.
Succeeded(r) == runs[r].at = "over" /\ runs[r].won
Failed(r) == runs[r].told \/ (runs[r].at = "over" /\ ~runs[r].won)
Caused ==
    /\ \A r \in Runs : runs[r].at \in {"unused", "begin", "start", "running"} => ~runs[r].won
    /\ \A r \in Runs : /\ runs[r].status = "completed" => Succeeded(r)
                       /\ runs[r].status = "failed" => Failed(r)
    /\ \A r \in Runs : /\ <<r, "completed">> \in answers => Succeeded(r)
                       /\ <<r, "failed">> \in answers => Failed(r)
IInv == TypeOK /\ InTable /\ AnsweredOnce /\ Caused

\* The ID of no run is none of the IDs.
LEMMA NoRunIsNoRun == NoRun \notin Runs
BY YtDlpAssumption DEF NoRun, Runs

\* Every download is in the beginning as it has never been used.
LEMMA InitHolds == Init => IInv
<1> SUFFICES ASSUME Init PROVE IInv
    OBVIOUS
<1> USE DEF Init
<1>1. TypeOK
    BY DEF TypeOK, Unused, Run, AddStage, DeleteStage, Terminal
<1>2. InTable
    BY NoRunIsNoRun DEF InTable, AtWork, Unused
<1>3. AnsweredOnce
    BY DEF AnsweredOnce
<1>4. Caused
    BY DEF Caused, Unused
<1> QED BY <1>1, <1>2, <1>3, <1>4 DEF IInv

\* A step that writes neither the table nor a download nor an answer.
LEMMA CallsKeepInvariant ==
    ASSUME IInv, UNCHANGED table, TypeOK'
    PROVE  IInv'
BY DEF table, IInv, InTable, AnsweredOnce, Caused, Succeeded, Failed

\* A step of one download that leaves the table and the answers alone.
LEMMA DownloadsKeepInvariant ==
    ASSUME IInv, TypeOK', UNCHANGED <<entry, answers>>,
           NEW r \in Runs, \A s \in Runs \ {r} : runs'[s] = runs[s],
           runs[r].at # "unused" /\ runs'[r].at # "unused",
           runs'[r].at \in AtWork => runs[r].at \in AtWork,
           runs[r].told => runs'[r].told,
           runs'[r].at \in {"begin", "start", "running"} => ~runs'[r].won,
           Succeeded(r) => Succeeded(r)', Failed(r) => Failed(r)',
           runs'[r].status = "completed" => Succeeded(r)',
           runs'[r].status = "failed" => Failed(r)'
    PROVE  IInv'
<1>1. InTable'
    BY DEF IInv, InTable, AtWork
<1>2. AnsweredOnce'
    BY DEF IInv, AnsweredOnce
<1>3. Caused'
    BY DEF IInv, Caused, Succeeded, Failed
<1> QED BY <1>1, <1>2, <1>3 DEF IInv

\* Runs are added to the table.
LEMMA AddKeepsInvariant ==
    ASSUME IInv, NEW j \in Jobs, Dispatch(j) \/ Look(j) \/ Insert(j) \/ Track(j)
    PROVE  IInv'
<1> USE DEF Adds
<1>1. CASE Dispatch(j) \/ Look(j) \/ Track(j)
  <2>1. TypeOK'
      BY <1>1 DEF IInv, TypeOK, Dispatch, Look, Track, AddStage, table, loop
  <2> QED BY <1>1, <2>1, CallsKeepInvariant DEF Dispatch, Look, Track
<1>2. CASE Insert(j) /\ entry # NoRun
  <2>1. TypeOK' /\ UNCHANGED table
      BY <1>2 DEF IInv, TypeOK, Insert, AddStage, table, loop
  <2> QED BY <2>1, CallsKeepInvariant
<1>3. CASE Insert(j) /\ entry = NoRun
  <2>1. PICK r \in Fresh : entry' = r /\ runs' = [runs EXCEPT ![r].at = "begin"]
      BY <1>3 DEF Insert
  <2>2. r \in Runs /\ runs[r].at = "unused" /\ runs \in [Runs -> Run] /\ UNCHANGED answers
      BY <1>3 DEF Fresh, Runs, Insert, IInv, TypeOK
  <2>3. /\ runs'[r] = [runs[r] EXCEPT !.at = "begin"]
        /\ \A s \in Runs \ {r} : runs'[s] = runs[s]
      BY <2>1, <2>2
  <2>4. TypeOK'
    <3>1. runs' \in [Runs -> Run]
        BY <2>1, <2>2 DEF Run
    <3>2. adding' \in [Jobs -> AddStage]
        BY <1>3 DEF IInv, TypeOK, Insert, AddStage
    <3> QED BY <1>3, <2>1, <2>2, <3>1, <3>2 DEF IInv, TypeOK, Insert, loop
  <2>5. InTable'
      BY <1>3, <2>1, <2>2, <2>3, NoRunIsNoRun DEF IInv, InTable, AtWork, Run
  <2>6. AnsweredOnce'
      BY <2>1, <2>2, <2>3 DEF IInv, AnsweredOnce, Run
  <2>7. Caused'
      BY <2>1, <2>2, <2>3 DEF IInv, Caused, Succeeded, Failed, Run
  <2> QED BY <2>4, <2>5, <2>6, <2>7 DEF IInv
<1> QED BY <1>1, <1>2, <1>3

\* Steps of a run.
LEMMA RunKeepsInvariant ==
    ASSUME IInv, NEW r \in Runs, RunStep(r) \/ ProcessStep(r)
    PROVE  IInv'
<1>1. runs \in [Runs -> Run] /\ runs[r] \in Run
    BY DEF IInv, TypeOK
<1>2. TypeOK'
    BY <1>1 DEF IInv, TypeOK, RunStep, ProcessStep, Begin, StartProcess, ExitProcess, End,
                Expire, Over, calls, loop, Run, Terminal
<1>3. UNCHANGED <<entry, answers>> /\ \A s \in Runs \ {r} : runs'[s] = runs[s]
    BY <1>1 DEF RunStep, ProcessStep, Begin, StartProcess, ExitProcess, End, Expire, Over
<1>4. /\ runs[r].at \in {"unused", "begin", "start", "running"} => ~runs[r].won
      /\ runs[r].status = "completed" => Succeeded(r)
      /\ runs[r].status = "failed" => Failed(r)
    BY DEF IInv, Caused
<1> USE <1>1, <1>4 DEF Run, AtWork, Succeeded, Failed
<1>5. CASE Begin(r)
    BY <1>2, <1>3, <1>5, DownloadsKeepInvariant DEF Begin, Over
<1>6. CASE StartProcess(r)
    BY <1>2, <1>3, <1>6, DownloadsKeepInvariant DEF StartProcess, Over
<1>7. CASE ExitProcess(r)
    BY <1>2, <1>3, <1>7, DownloadsKeepInvariant DEF ExitProcess
<1>8. CASE End(r)
    BY <1>2, <1>3, <1>8, DownloadsKeepInvariant DEF End, Over
<1>9. CASE Expire(r)
    BY <1>2, <1>3, <1>9, DownloadsKeepInvariant DEF Expire
<1> QED BY <1>5, <1>6, <1>7, <1>8, <1>9 DEF RunStep, ProcessStep

\* What has an outcome in the table has it for a reason, and leaves with it.
LEMMA AnswerKeepsInvariant ==
    ASSUME IInv, HasEnded, Answer, entry' = NoRun, UNCHANGED runs, TypeOK'
    PROVE  IInv'
<1>1. /\ entry \in Runs /\ runs[entry].status \in Terminal /\ runs \in [Runs -> Run]
      /\ entry' = NoRun /\ NoRun \notin Runs /\ UNCHANGED runs
      /\ answers' = answers \cup {<<entry, runs[entry].status>>}
    BY NoRunIsNoRun DEF IInv, TypeOK, HasEnded, Answer
<1>2. \A r \in Runs, s \in Terminal :
        <<r, s>> \in answers' <=> <<r, s>> \in answers \/ (r = entry /\ s = runs[r].status)
    BY <1>1
<1>3. /\ runs[entry].status = "completed" => Succeeded(entry)
      /\ runs[entry].status = "failed" => Failed(entry)
    BY <1>1 DEF IInv, Caused
<1>5. InTable'
  <2>1. ASSUME NEW r \in Runs, runs[r].at \in AtWork PROVE runs[r].told
      BY <1>1, <1>3, <2>1 DEF IInv, InTable, Succeeded, Failed, AtWork, Terminal
  <2> QED BY <1>1, <2>1 DEF InTable
<1>6. AnsweredOnce'
    BY <1>1, <1>2 DEF IInv, AnsweredOnce, InTable, Terminal
<1>7. Caused'
    BY <1>1, <1>2, <1>3 DEF IInv, Caused, Succeeded, Failed, Terminal
<1> QED BY <1>5, <1>6, <1>7 DEF IInv

\* A round of the status loop.
LEMMA PollKeepsInvariant ==
    ASSUME IInv, PollStep
    PROVE  IInv'
<1>1. CASE PollList \/ \E j \in Jobs : PollDrop(j)
  <2>1. TypeOK'
      BY <1>1 DEF IInv, TypeOK, PollList, PollDrop, table, calls
  <2> QED BY <1>1, <2>1, CallsKeepInvariant DEF PollList, PollDrop
<1>2. CASE PollRead /\ HasEnded
  <2>1. TypeOK'
      BY <1>2 DEF IInv, TypeOK, PollRead, Answer, Reported, HasEnded, calls
  <2> QED BY <1>2, <2>1, AnswerKeepsInvariant DEF PollRead
<1>3. CASE PollRead /\ ~HasEnded
  <2>1. TypeOK' /\ UNCHANGED table
      BY <1>3 DEF IInv, TypeOK, PollRead, table, calls
  <2> QED BY <2>1, CallsKeepInvariant
<1> QED BY <1>1, <1>2, <1>3 DEF PollStep

\* An entry is removed; its download is told.
LEMMA RemovalKeepsInvariant ==
    ASSUME IInv, RemoveEntry, UNCHANGED tracked, UNCHANGED poll,
           adding' \in [Jobs -> AddStage], cleaning' \subseteq Jobs,
           deleting' \in [Jobs -> [at: DeleteStage, run: Runs \cup {NoRun}]]
    PROVE  IInv'
<1>1. /\ entry' = NoRun /\ NoRun \notin Runs /\ UNCHANGED answers
      /\ runs' = IF entry = NoRun THEN runs ELSE [runs EXCEPT ![entry].told = TRUE]
      /\ runs \in [Runs -> Run] /\ entry \in Runs \cup {NoRun}
    BY NoRunIsNoRun DEF IInv, TypeOK, RemoveEntry
<1>2. \A s \in Runs :
        /\ runs'[s].at = runs[s].at /\ runs'[s].won = runs[s].won
        /\ runs'[s].status = runs[s].status
        /\ runs'[s].told <=> runs[s].told \/ s = entry
    BY <1>1 DEF Run
<1>3. TypeOK'
  <2>1. runs' \in [Runs -> Run]
    <3>1. CASE entry = NoRun
        BY <1>1, <3>1
    <3>2. CASE entry \in Runs
      <4>1. [runs[entry] EXCEPT !.told = TRUE] \in Run
          BY <1>1, <3>2 DEF Run
      <4> QED BY <1>1, <3>2, <4>1
    <3> QED BY <1>1, <3>1, <3>2
  <2>2. /\ answers' \subseteq Runs \X Terminal /\ tracked' \subseteq Jobs
        /\ poll' \in [listed: SUBSET Jobs, ended: SUBSET Jobs]
      BY <1>1 DEF IInv, TypeOK
  <2>3. entry' \in Runs \cup {NoRun} /\ tracked' \cup cleaning' \subseteq Jobs
      BY <1>1, <2>2
  <2> QED BY <2>1, <2>2, <2>3 DEF TypeOK
<1>4. InTable'
    BY <1>1, <1>2 DEF IInv, InTable
<1>5. AnsweredOnce'
    BY <1>1, <1>2 DEF IInv, AnsweredOnce
<1>6. Caused'
    BY <1>1, <1>2 DEF IInv, Caused, Succeeded, Failed
<1> QED BY <1>3, <1>4, <1>5, <1>6 DEF IInv

\* Runs are cancelled and removed.
LEMMA DeletionKeepsInvariant ==
    ASSUME IInv, NEW j \in Jobs,
           \/ Delete(j) \/ CancelFind(j) \/ CancelMark(j) \/ CancelContext(j)
           \/ Untrack(j) \/ Remove(j) \/ RemoveFail(j) \/ CleanUp(j)
    PROVE  IInv'
<1>1. runs \in [Runs -> Run] /\ entry \in Runs \cup {NoRun}
    BY DEF IInv, TypeOK
<1>2. CASE Delete(j) \/ CancelFind(j) \/ Untrack(j) \/ RemoveFail(j)
  <2>1. TypeOK'
      BY <1>2 DEF IInv, TypeOK, Delete, CancelFind, Untrack, RemoveFail, Goes, Holds,
                  DeleteStage, table, loop
  <2> QED BY <1>2, <2>1, CallsKeepInvariant DEF Delete, CancelFind, Untrack, RemoveFail
<1>3. CASE CancelMark(j) \/ CancelContext(j)
  <2>1. TypeOK'
    <3>1. runs' \in [Runs -> Run]
        BY <1>1, <1>3 DEF CancelMark, CancelContext, Run, Terminal
    <3> QED BY <1>3, <3>1 DEF IInv, TypeOK, CancelMark, CancelContext, Goes, Holds, DeleteStage, loop
  <2>2. CASE deleting[j].run \notin Runs
    <3>1. runs' = runs
        BY <1>1, <1>3, <2>2 DEF CancelMark, CancelContext
    <3> QED BY <1>3, <2>1, <3>1, CallsKeepInvariant DEF CancelMark, CancelContext, table
  <2>3. CASE deleting[j].run \in Runs
    <3> DEFINE r == deleting[j].run
    <3>1. /\ \A s \in Runs \ {r} : runs'[s] = runs[s]
          /\ UNCHANGED <<entry, answers>>
          /\ runs[r].at = runs'[r].at /\ runs[r].won = runs'[r].won
          /\ \/ runs'[r].status = "failed" /\ runs'[r].told
             \/ runs'[r].status = runs[r].status /\ runs'[r].told = runs[r].told
        BY <1>1, <1>3, <2>3 DEF CancelMark, CancelContext, Run
    <3>2. InTable'
        BY <2>3, <3>1 DEF IInv, InTable
    <3>3. AnsweredOnce'
        BY <2>3, <3>1 DEF IInv, AnsweredOnce
    <3>4. Caused'
        BY <2>3, <3>1 DEF IInv, Caused, Succeeded, Failed
    <3> QED BY <2>1, <3>2, <3>3, <3>4 DEF IInv
  <2> QED BY <2>2, <2>3
<1>4. CASE Remove(j)
  <2>1. deleting' \in [Jobs -> [at: DeleteStage, run: Runs \cup {NoRun}]]
      BY <1>4 DEF IInv, TypeOK, Remove, Goes, DeleteStage
  <2> QED BY <1>4, <2>1, RemovalKeepsInvariant DEF IInv, TypeOK, Remove, loop
<1>5. CASE CleanUp(j)
  <2>1. /\ cleaning' = cleaning \ {j} /\ UNCHANGED <<adding, deleting, tracked, poll>>
        /\ RemoveEntry \/ UNCHANGED table
      BY <1>5 DEF CleanUp, calls
  <2>2. CASE RemoveEntry
      BY <2>1, <2>2, RemovalKeepsInvariant DEF IInv, TypeOK
  <2>3. CASE UNCHANGED table
    <3>1. TypeOK'
        BY <2>1, <2>3 DEF IInv, TypeOK, table
    <3> QED BY <2>3, <3>1, CallsKeepInvariant
  <2> QED BY <2>1, <2>2, <2>3
<1> QED BY <1>2, <1>3, <1>4, <1>5

\* What no step of any job, download or poll breaks.
THEOREM Invariance == Spec => []IInv
<1>1. IInv /\ [Next]_vars => IInv'
  <2> SUFFICES ASSUME IInv, [Next]_vars PROVE IInv'
      OBVIOUS
  <2>1. CASE UNCHANGED vars
    <3>1. TypeOK'
        BY <2>1 DEF vars, table, calls, loop, IInv, TypeOK
    <3> QED BY <2>1, <3>1, CallsKeepInvariant DEF vars
  <2>2. CASE \E j \in Jobs : JobStep(j) \/ Dispatch(j) \/ Delete(j) \/ CleanUp(j)
      BY <2>2, AddKeepsInvariant, DeletionKeepsInvariant DEF JobStep
  <2>3. CASE \E r \in Runs : RunStep(r) \/ ProcessStep(r)
      BY <2>3, RunKeepsInvariant
  <2>4. CASE PollStep
      BY <2>4, PollKeepsInvariant
  <2> QED BY <2>1, <2>2, <2>3, <2>4 DEF Next
<1> QED BY InitHolds, <1>1, PTL DEF Spec

\* The table, the downloads and the jobs keep their types, and BatchStatus
\* answers with terminal states of downloads.
THEOREM TypeCorrect == Spec => []TypeOK
<1>1. IInv => TypeOK
    BY DEF IInv
<1> QED BY Invariance, <1>1, PTL

\* Two processes never write one directory, unless one was told to go: a
\* download at work still has the entry, and there is one entry.
THEOREM ProcessExclusion == Spec => []OneProcess
<1>1. IInv => OneProcess
    BY DEF IInv, InTable, AtWork, OneProcess
<1> QED BY Invariance, <1>1, PTL

\* BatchStatus never answers both ways for a download, "completed" only after
\* yt-dlp succeeded, "failed" only if it did not or the download was cancelled.
THEOREM OutcomeTruth == Spec => []OneOutcome
<1>1. IInv => OneOutcome
  <2> SUFFICES ASSUME IInv, NEW r \in Runs
               PROVE  /\ ~ {<<r, "completed">>, <<r, "failed">>} \subseteq answers
                      /\ <<r, "completed">> \in answers => runs[r].won
                      /\ <<r, "failed">> \in answers => ~runs[r].won \/ runs[r].told
      BY Zenon DEF OneOutcome
  <2>1. ~ (<<r, "completed">> \in answers /\ <<r, "failed">> \in answers)
      BY DEF IInv, AnsweredOnce
  <2>2. /\ <<r, "completed">> \in answers => Succeeded(r)
        /\ <<r, "failed">> \in answers => Failed(r)
      BY DEF IInv, Caused
  <2>3. ~ {<<r, "completed">>, <<r, "failed">>} \subseteq answers
      BY <2>1
  <2> QED BY <2>2, <2>3 DEF Succeeded, Failed
<1> QED BY Invariance, <1>1, PTL

\* An entry in the table has somebody who asks for it, or a call underway that will
\* make it asked for or remove it, until a removal fails or the status loop drops
\* the last job that asks.
THEOREM OrphansHaveACause == Spec => OrphanedOnlyByFailure
<1> DEFINE Cause == \E j \in Jobs : RemoveFail(j) \/ PollDrop(j)
<1>1. ASSUME TypeOK, [Next]_vars, ~Orphaned, Orphaned' PROVE Cause
  <2>1. ASSUME UNCHANGED <<entry, tracked, deleting>>,
               \A j \in Jobs : adding[j] = "track" => adding'[j] = "track"
        PROVE  FALSE
      BY <1>1, <2>1 DEF Orphaned
  <2>2. entry' # NoRun /\ tracked' = {} /\ adding \in [Jobs -> AddStage]
        /\ deleting \in [Jobs -> [at: DeleteStage, run: Runs \cup {NoRun}]]
        /\ \A j \in Jobs : adding'[j] # "track" /\ deleting'[j].at \in {"no", "gone"}
      BY <1>1 DEF Orphaned, TypeOK
  <2>3. CASE UNCHANGED vars
      BY <2>1, <2>3 DEF vars, table, calls, loop
  <2>4. ASSUME NEW j \in Jobs, Dispatch(j) \/ Look(j) \/ Insert(j) \/ Track(j) PROVE FALSE
    <3>1. CASE Dispatch(j)
        BY <2>1, <2>2, <2>4, <3>1 DEF Dispatch, Adds, table, loop
    <3>2. CASE Look(j) /\ entry = NoRun
        BY <2>2, <3>2 DEF Look, table
    <3>3. CASE (Look(j) /\ entry # NoRun) \/ Insert(j)
      <4>1. adding'[j] = "track"
          BY <2>2, <3>3 DEF Look, Insert, Adds
      <4> QED BY <2>2, <4>1
    <3>4. CASE Track(j)
        BY <2>2, <3>4 DEF Track
    <3> QED BY <2>4, <3>1, <3>2, <3>3, <3>4
  <2>5. ASSUME NEW j \in Jobs,
               CancelFind(j) \/ CancelMark(j) \/ CancelContext(j) \/ Untrack(j)
        PROVE  FALSE
    <3>1. deleting'[j].at \in {"mark", "kill", "untrack", "remove"}
        BY <2>2, <2>5 DEF CancelFind, CancelMark, CancelContext, Untrack, Goes, Holds
    <3> QED BY <2>2, <3>1
  <2>6. ASSUME NEW j \in Jobs, Delete(j) PROVE FALSE
    <3>1. deleting[j].at = "no" /\ UNCHANGED <<entry, tracked, adding>>
          /\ \A x \in Jobs \ {j} : deleting'[x] = deleting[x]
        BY <2>2, <2>6 DEF Delete, Goes, table, loop
    <3> QED BY <1>1, <2>2, <3>1 DEF Orphaned
  <2>7. ASSUME NEW j \in Jobs, Remove(j) PROVE FALSE
      BY <2>2, <2>7 DEF Remove, RemoveEntry
  <2>8. ASSUME NEW j \in Jobs, CleanUp(j) PROVE FALSE
      BY <2>1, <2>2, <2>8 DEF CleanUp, RemoveEntry, table, calls
  <2>9. ASSUME NEW r \in Runs, RunStep(r) \/ ProcessStep(r) PROVE FALSE
      BY <2>1, <2>9 DEF RunStep, ProcessStep, Begin, StartProcess, ExitProcess, End, Expire,
                        calls, loop
  <2>10. CASE PollList \/ PollRead
    <3>1. UNCHANGED <<tracked, adding, deleting>> /\ (entry' = NoRun \/ entry' = entry)
        BY <2>10 DEF PollList, PollRead, table, calls
    <3> QED BY <2>1, <2>2, <3>1
  <2> QED BY <1>1, <2>3, <2>4, <2>5, <2>6, <2>7, <2>8, <2>9, <2>10 DEF Next, JobStep, PollStep
<1>2. TypeOK /\ [Next]_vars => [~Orphaned /\ Orphaned' => Cause]_vars
    BY <1>1
<1> QED BY <1>2, TypeCorrect, PTL DEF Spec, OrphanedOnlyByFailure
=============================================================================
