---------------------------- MODULE YtDlpEngine ----------------------------
(***************************************************************************)
(* Downloads of the yt-dlp engine (core/engine/ytdlp): a table with one    *)
(* entry per storage key, a goroutine and a yt-dlp process per download,   *)
(* and the calls of the node server and of the status loop, which lock     *)
(* the table and the entry's state step by step.                           *)
(*                                                                         *)
(* Entries of different keys share nothing but the lock, so one storage    *)
(* key is modelled, with several jobs for it: content that is tried again  *)
(* or deleted and added again, by calls that may overlap.  Left out: two   *)
(* Adds of one job at a time, and the worker's own end, which empties both *)
(* the table and the tracker.                                              *)
(***************************************************************************)
EXTENDS Naturals

CONSTANTS Jobs,     \* jobs for the storage key
          Deleted,  \* bound: those that may be deleted
          MaxRuns   \* bound: downloads started in all
ASSUME YtDlpAssumption == Deleted \subseteq Jobs /\ MaxRuns \in Nat

Runs == 1..MaxRuns
NoRun == 0   \* the key has no entry

VARIABLES
    entry,     \* the download the table holds for the key
    runs,      \* download -> its state, its context and its goroutine
    adding,    \* job -> where its latest Add is
    deleting,  \* job -> where its deletion is, and the run it cancels
    tracked,   \* jobs the status loop asks for
    poll,      \* the jobs its latest round asks for, and those it has to drop
    cleaning,  \* jobs the controller cleans up after, once it knows of their failure
    answers    \* history: outcomes BatchStatus has answered

table == <<entry, runs, answers>>
calls == <<adding, deleting>>
loop == <<tracked, poll, cleaning>>
vars == <<table, calls, loop>>

Terminal == {"completed", "failed"}
\* ctx: the download's context, until the goroutine is over; at: stage of its goroutine; won: yt-dlp has
\* exited with success; told: the download was cancelled, or its entry removed.
Run == [status: {"queued", "active"} \cup Terminal,
        ctx: {"live", "done"},
        at: {"unused", "begin", "start", "running", "exited", "over"},
        won: BOOLEAN, told: BOOLEAN]
AddStage == {"new", "look", "insert", "track", "done"}
DeleteStage == {"no", "cancel", "mark", "kill", "untrack", "remove", "gone"}

TypeOK ==
    /\ entry \in Runs \cup {NoRun} /\ runs \in [Runs -> Run]
    /\ adding \in [Jobs -> AddStage]
    /\ deleting \in [Jobs -> [at: DeleteStage, run: Runs \cup {NoRun}]]
    /\ tracked \cup cleaning \subseteq Jobs
    /\ poll \in [listed: SUBSET Jobs, ended: SUBSET Jobs]
    /\ answers \subseteq Runs \X Terminal

Unused == [status |-> "queued", ctx |-> "live", at |-> "unused",
           won |-> FALSE, told |-> FALSE]
Init ==
    /\ entry = NoRun /\ runs = [r \in Runs |-> Unused]
    /\ adding = [j \in Jobs |-> "new"]
    /\ deleting = [j \in Jobs |-> [at |-> "no", run |-> NoRun]]
    /\ tracked = {} /\ cleaning = {} /\ answers = {}
    /\ poll = [listed |-> {}, ended |-> {}]

Adds(j, stage) == adding' = [adding EXCEPT ![j] = stage]
Goes(j, stage) == deleting' = [deleting EXCEPT ![j].at = stage]
Holds(j, stage, r) == deleting' = [deleting EXCEPT ![j] = [at |-> stage, run |-> r]]

-----------------------------------------------------------------------------
Fresh == {r \in Runs : \A x \in Runs : runs[x].at = "unused" <=> x >= r}

\* Add: a look at the table, and a second one before the entry is made.

\* A job is dispatched, and again whenever its row says that it failed.
Dispatch(j) ==
    /\ adding[j] \in {"new", "done"} /\ deleting[j].at = "no"
    /\ Adds(j, "look")
    /\ UNCHANGED <<table, deleting, loop>>

\* Without an entry the directory is made first, if that works.
Look(j) ==
    /\ adding[j] = "look"
    /\ IF entry # NoRun THEN Adds(j, "track") ELSE Adds(j, "insert") \/ Adds(j, "done")
    /\ UNCHANGED <<table, deleting, loop>>

\* Bug: the table is not looked at again.
InsertUnchecked(j) ==
    /\ adding[j] = "insert" /\ Adds(j, "track")
    /\ \E r \in Fresh :
         /\ entry' = r /\ runs' = [runs EXCEPT ![r].at = "begin"]
    /\ UNCHANGED <<answers, deleting, loop>>

Insert(j) ==
    /\ adding[j] = "insert" /\ Adds(j, "track")
    /\ \/ entry # NoRun /\ UNCHANGED <<entry, runs>>
       \/ /\ entry = NoRun
          /\ \E r \in Fresh :
               /\ entry' = r /\ runs' = [runs EXCEPT ![r].at = "begin"]
    /\ UNCHANGED <<answers, deleting, loop>>

\* The node server's part of DispatchJob.
Track(j) ==
    /\ adding[j] = "track" /\ Adds(j, "done")
    /\ tracked' = tracked \cup {j}
    /\ UNCHANGED <<table, deleting, poll, cleaning>>

-----------------------------------------------------------------------------
\* runDownload.

Over(r, status) ==
    runs' = [runs EXCEPT ![r].at = "over", ![r].ctx = "done", ![r].status = status]

\* The mark of a Cancel is overwritten here ...
Begin(r) ==
    /\ runs[r].at = "begin"
    /\ \/ runs' = [runs EXCEPT ![r].at = "start", ![r].status = "active"]
       \/ Over(r, "failed")
    /\ UNCHANGED <<entry, answers, calls, loop>>

StartProcess(r) ==
    /\ runs[r].at = "start"
    /\ \/ /\ runs[r].ctx = "live"
          /\ runs' = [runs EXCEPT ![r].at = "running"]
       \/ Over(r, "failed")
    /\ UNCHANGED <<entry, answers, calls, loop>>

\* yt-dlp ends by itself, or is killed with its context.
ExitProcess(r) ==
    /\ runs[r].at = "running"
    /\ \E success \in BOOLEAN :
         runs' = [runs EXCEPT ![r].at = "exited", ![r].won = success]
    /\ UNCHANGED <<entry, answers, calls, loop>>

\* Bug: yt-dlp's own name of the state is written.
EndAsNamed(r) ==
    /\ runs[r].at = "exited"
    /\ Over(r, IF runs[r].won THEN "finished" ELSE "failed")
    /\ UNCHANGED <<entry, answers, calls, loop>>

\* ... and here.
End(r) ==
    /\ runs[r].at = "exited"
    /\ Over(r, IF runs[r].won THEN "completed" ELSE "failed")
    /\ UNCHANGED <<entry, answers, calls, loop>>

\* Bug: the time is that of the start only.
ExpireStart(r) ==
    /\ runs[r].ctx = "live" /\ runs[r].at \in {"begin", "start"}
    /\ runs' = [runs EXCEPT ![r].ctx = "done"]
    /\ UNCHANGED <<entry, answers, calls, loop>>

\* The longest time a download may take is over.
Expire(r) ==
    /\ runs[r].ctx = "live" /\ runs[r].at \notin {"unused", "over"}
    /\ runs' = [runs EXCEPT ![r].ctx = "done"]
    /\ UNCHANGED <<entry, answers, calls, loop>>

-----------------------------------------------------------------------------
\* A round of the status loop: the tracked jobs are listed, BatchStatus answers for
\* them under the lock of the table, those whose download has ended are dropped by
\* their id, and what was answered is reported.

PollList ==
    /\ tracked # {} /\ poll = [listed |-> {}, ended |-> {}]
    /\ poll' = [poll EXCEPT !.listed = tracked]
    /\ UNCHANGED <<table, calls, tracked, cleaning>>

Answer == answers' = answers \cup {<<entry, runs[entry].status>>}
HasEnded == entry # NoRun /\ runs[entry].status \in Terminal
Reported ==
    /\ poll' = [listed |-> {}, ended |-> poll.listed]
    /\ cleaning' = IF runs[entry].status = "failed" THEN cleaning \cup poll.listed ELSE cleaning

\* Bug: an entry that has been answered for is kept.
PollKeeps ==
    /\ poll.listed # {}
    /\ IF HasEnded THEN Answer /\ Reported
                   ELSE poll' = [poll EXCEPT !.listed = {}] /\ UNCHANGED <<answers, cleaning>>
    /\ UNCHANGED <<entry, runs, calls, tracked>>

PollRead ==
    /\ poll.listed # {}
    /\ IF HasEnded
       THEN Answer /\ Reported /\ entry' = NoRun
       ELSE poll' = [poll EXCEPT !.listed = {}] /\ UNCHANGED <<entry, answers, cleaning>>
    /\ UNCHANGED <<runs, calls, tracked>>

\* Even if the job has been dispatched again meanwhile.
PollDrop(j) ==
    /\ j \in poll.ended
    /\ poll' = [poll EXCEPT !.ended = @ \ {j}]
    /\ tracked' = tracked \ {j}
    /\ UNCHANGED <<table, calls, cleaning>>

\* Remove drops whatever entry the key has, and stops nothing.
RemoveEntry ==
    /\ entry' = NoRun
    /\ runs' = IF entry = NoRun THEN runs ELSE [runs EXCEPT ![entry].told = TRUE]
    /\ UNCHANGED answers

\* The controller's RemoveJob after a failure, any time after the round that had it:
\* if the report came, the row is still there and this call gets through.
CleanUp(j) ==
    /\ j \in cleaning \ poll.ended /\ cleaning' = cleaning \ {j}
    /\ RemoveEntry \/ UNCHANGED table
    /\ UNCHANGED <<calls, tracked, poll>>

-----------------------------------------------------------------------------
\* A deletion: CancelJob if the job is not over, and RemoveJob, if the node has a
\* client.  Calls that fail are logged: each may do nothing.

Delete(j) ==
    /\ j \in Deleted   \* bound
    /\ adding[j] # "new" /\ deleting[j].at = "no"
    /\ \E stage \in {"cancel", "remove", "gone"} : Goes(j, stage)
    /\ UNCHANGED <<table, adding, loop>>

\* Cancel finds the entry, marks its state, and cancels its context; without an
\* entry the job stays tracked.
CancelFind(j) ==
    /\ deleting[j].at = "cancel"
    /\ (entry # NoRun /\ Holds(j, "mark", entry)) \/ Goes(j, "remove")
    /\ UNCHANGED <<table, adding, loop>>
CancelMark(j) ==
    /\ deleting[j].at = "mark" /\ Goes(j, "kill")
    /\ runs' = [runs EXCEPT ![deleting[j].run].status = "failed", ![deleting[j].run].told = TRUE]
    /\ UNCHANGED <<entry, answers, adding, loop>>
CancelContext(j) ==
    /\ deleting[j].at = "kill" /\ Holds(j, "untrack", NoRun)
    /\ runs' = [runs EXCEPT ![deleting[j].run].ctx = "done"]
    /\ UNCHANGED <<entry, answers, adding, loop>>

\* Bug: a job that was cancelled is not removed.
UntrackOnly(j) ==
    /\ deleting[j].at = "untrack" /\ Goes(j, "gone")
    /\ tracked' = tracked \ {j}
    /\ UNCHANGED <<table, adding, poll, cleaning>>

Untrack(j) ==
    /\ deleting[j].at = "untrack" /\ Goes(j, "remove")
    /\ tracked' = tracked \ {j}
    /\ UNCHANGED <<table, adding, poll, cleaning>>

Remove(j) ==
    /\ deleting[j].at = "remove" /\ Goes(j, "gone")
    /\ RemoveEntry
    /\ UNCHANGED <<adding, loop>>
RemoveFail(j) ==
    /\ deleting[j].at = "remove" /\ Goes(j, "gone")
    /\ UNCHANGED <<table, adding, loop>>

-----------------------------------------------------------------------------
JobStep(j) ==
    \/ Look(j) \/ Insert(j) \/ Track(j)
    \/ CancelFind(j) \/ CancelMark(j) \/ CancelContext(j) \/ Untrack(j)
    \/ Remove(j) \/ RemoveFail(j)
PollStep == PollList \/ PollRead \/ \E j \in Jobs : PollDrop(j)
RunStep(r) == Begin(r) \/ StartProcess(r) \/ End(r)
ProcessStep(r) == ExitProcess(r) \/ Expire(r)

Next ==
    \/ \E j \in Jobs : JobStep(j) \/ Dispatch(j) \/ Delete(j) \/ CleanUp(j)
    \/ \E r \in Runs : RunStep(r) \/ ProcessStep(r)
    \/ PollStep

Spec == Init /\ [][Next]_vars

\* Calls and goroutines go on, and the status loop keeps asking.  Nothing says
\* that yt-dlp ends, but for the timer, which kills it.
Killed(r) == runs[r].ctx = "done" /\ ExitProcess(r)
Fairness ==
    /\ \A j \in Jobs : WF_vars(JobStep(j))
    /\ \A r \in Runs : WF_vars(RunStep(r)) /\ WF_vars(Expire(r)) /\ WF_vars(Killed(r))
    /\ WF_vars(PollStep)
FairSpec == Spec /\ Fairness

-----------------------------------------------------------------------------
(***************************************************************************)
(* Properties.                                                             *)
(***************************************************************************)
\* Two processes do not write the same directory, however Adds overlap, unless
\* one was told to go (engine.go:198: Remove leaves its process alone).
OneProcess ==
    \A r, s \in Runs :
      runs[r].at = "running" /\ runs[s].at = "running"
        => r = s \/ runs[r].told \/ runs[s].told

\* A download has one outcome, and it is the true one: whoever cancels, polls
\* or adds the key again while the goroutine writes its state, BatchStatus
\* never answers both ways, and answers "completed" only after a success.
OneOutcome ==
    \A r \in Runs :
      /\ ~ {<<r, "completed">>, <<r, "failed">>} \subseteq answers
      /\ <<r, "completed">> \in answers => runs[r].won
      /\ <<r, "failed">> \in answers => ~runs[r].won \/ runs[r].told

\* Nobody asks for the entry and no call that will make it asked for, or remove it,
\* is underway: later Adds join a download that may be over for long.
Orphaned ==
    /\ entry # NoRun /\ tracked = {}
    /\ \A j \in Jobs : adding[j] # "track" /\ deleting[j].at \in {"no", "gone"}

\* An entry does not stay in the table, where later Adds would join it, unless it
\* is orphaned ...
EntriesEnd == \A r \in Runs : []<>(entry # r \/ Orphaned)

\* ... and that only a removal that failed does, or the status loop that drops a
\* job by its id after the answer (statusloop.go:178): however else Adds, deletions
\* and polls overlap, somebody stays responsible for the entry.
OrphanedOnlyByFailure ==
    [][~Orphaned /\ Orphaned' => \E j \in Jobs : RemoveFail(j) \/ PollDrop(j)]_vars
=============================================================================
