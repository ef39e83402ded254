---------------------------- MODULE Aria2Engine ----------------------------
(***************************************************************************)
(* Jobs of the aria2 engine (core/engine/aria2/engine.go), whose downloads *)
(* live in a daemon that the process manager starts, watches and stops:    *)
(* Add, BatchStatus call by call, Cancel and Remove, with the status loop  *)
(* that polls them.                                                        *)
(*                                                                         *)
(* aria2 itself is external.  It names downloads by GIDs.  A magnet link   *)
(* is first a download of metadata; when that ends, a second download with *)
(* a GID of its own follows it.  What aria2 knows goes with its process.   *)
(*                                                                         *)
(* How reports travel is in StatusLoop: here all reports of a poll arrive  *)
(* at once, or only the last ones of their jobs do.  Each job is           *)
(* dispatched once.                                                        *)
(***************************************************************************)
EXTENDS ProcessManager

CONSTANTS Magnets,  \* jobs given by a magnet link
          Plain,    \* jobs given by another URL
          Aria2c,   \* the daemon
          MaxJobs   \* bound: jobs given to the node
ASSUME Aria2Assumption ==
    Aria2c \in Daemons /\ Magnets \cap Plain = {} /\ MaxJobs \in Nat

\* A report of progress is lost; a single call of aria2 fails.
EngineFaults == {"push", "rpc"}

VARIABLES
    aria,      \* GID -> status, for the GIDs aria2 knows
    done,      \* jobs whose content is on disk
    failed,    \* jobs that aria2 did not take, failed, or was told to give up
    lost,      \* jobs whose download went with aria2's process
    row,       \* job -> the controller's row
    dispatch,  \* jobs that aria2 has accepted and the tracker does not know yet
    tracker,   \* job -> GID, for the tracked jobs
    poll,      \* the poll in progress
    removing   \* jobs whose deletion is in progress

engineVars == <<aria, done, failed, lost, row, dispatch, tracker, poll, removing>>
vars == <<managerVars, engineVars>>

Jobs == Magnets \cup Plain
Gid == Jobs \X {"first", "next"}
First(j) == <<j, "first">>
Follower(g) == <<g[1], "next">>
IsMetadata(g) == g[1] \in Magnets /\ g[2] = "first"
NoGid == <<"none", "none">>

States == {"active", "completed", "failed"}
Report == [gid: Gid, state: States]
IdlePoll == [pc |-> "idle"]

\* Functions on part of a set.
PartialTo(f, S, T) == DOMAIN f \subseteq S /\ \A x \in DOMAIN f : f[x] \in T
Without(f, S) == [x \in DOMAIN f \ S |-> f[x]]
With(f, x, v) == [y \in DOMAIN f \cup {x} |-> IF y = x THEN v ELSE f[y]]

TypeOK ==
    /\ ManagerTypeOK
    /\ PartialTo(aria, Gid, {"active", "seeding", "complete", "error", "removed"})
    /\ done \subseteq Jobs /\ failed \subseteq Jobs /\ lost \subseteq Jobs
    /\ row \in [Jobs -> [state: States \cup {"new", "gone"}, gid: Gid \cup {NoGid}]]
    /\ dispatch \subseteq Jobs /\ PartialTo(tracker, Jobs, Gid)
    /\ poll.pc \in {"idle", "active", "match", "child"}
    /\ poll.pc # "idle" =>
         /\ PartialTo(poll.ids, Jobs, Gid) /\ poll.todo \subseteq DOMAIN poll.ids
         /\ PartialTo(poll.seen, Gid, Report) /\ PartialTo(poll.reports, Jobs, Report)
    /\ removing \subseteq [job: Jobs, gid: Gid \cup {NoGid}, pc: {"cancel", "remove"}]

Init ==
    /\ ManagerInit
    /\ aria = <<>> /\ done = {} /\ failed = {} /\ lost = {}
    /\ row = [j \in Jobs |-> [state |-> "new", gid |-> NoGid]]
    /\ dispatch = {} /\ tracker = <<>> /\ poll = IdlePoll /\ removing = {}

Serving == Healthy(Aria2c)
\* A call may fail although aria2 is there.
MayFail == ~Serving \/ "rpc" \in Faults

-----------------------------------------------------------------------------
\* aria2 at work.

\* Bug: aria2's own names of states get through.
StateNamed(status) == CASE status = "active" -> "active"
                        [] status \in {"seeding", "complete"} -> "completed"
                        [] OTHER -> status
\* mapStatus, without "waiting": aria2's queue is left out, what waits there is as
\* one in progress.
State(status) == CASE status \in {"seeding", "complete"} -> "completed"
                   [] status \in {"removed", "error"} -> "failed"
                   [] OTHER -> "active"

Followed(g) ==
    /\ Serving /\ g \in DOMAIN aria /\ aria[g] = "active" /\ IsMetadata(g)
    /\ aria' = With([aria EXCEPT ![g] = "complete"], Follower(g), "active")
    /\ UNCHANGED <<managerVars, done, failed, lost, row, dispatch, tracker, poll, removing>>

Downloaded(g) ==
    /\ Serving /\ g \in DOMAIN aria /\ aria[g] = "active" /\ ~IsMetadata(g)
    /\ aria' = [aria EXCEPT ![g] = IF g[1] \in Magnets THEN "seeding" ELSE "complete"]
    /\ done' = done \cup {g[1]}
    /\ UNCHANGED <<managerVars, failed, lost, row, dispatch, tracker, poll, removing>>

Seeded(g) ==
    /\ Serving /\ g \in DOMAIN aria /\ aria[g] = "seeding"
    /\ aria' = [aria EXCEPT ![g] = "complete"]
    /\ UNCHANGED <<managerVars, done, failed, lost, row, dispatch, tracker, poll, removing>>

Errs(g) ==
    /\ Serving /\ g \in DOMAIN aria /\ aria[g] = "active"
    /\ aria' = [aria EXCEPT ![g] = "error"]
    /\ failed' = failed \cup {g[1]}
    /\ UNCHANGED <<managerVars, done, lost, row, dispatch, tracker, poll, removing>>

\* With its process, aria2 loses everything it knows.
ManagerStep ==
    /\ ManagerNext
    /\ IF Serving /\ ~Serving'
       THEN aria' = <<>> /\ lost' = lost \cup {g[1] : g \in DOMAIN aria}
       ELSE UNCHANGED <<aria, lost>>
    /\ UNCHANGED <<done, failed, row, dispatch, tracker, poll, removing>>

-----------------------------------------------------------------------------
\* DispatchJob: Add, then tracker.Add and the controller's write.

Add(j) ==
    /\ node # "exited" /\ row[j].state = "new"
    /\ Cardinality({i \in Jobs : row[i].state # "new"}) < MaxJobs
    /\ \/ /\ Serving
          /\ aria' = With(aria, First(j), "active")
          /\ dispatch' = dispatch \cup {j}
          /\ row' = [row EXCEPT ![j].state = "active"]
          /\ UNCHANGED failed
       \/ /\ MayFail
          /\ row' = [row EXCEPT ![j].state = "failed"]
          /\ failed' = failed \cup {j}
          /\ UNCHANGED <<aria, dispatch>>
    /\ UNCHANGED <<managerVars, done, lost, tracker, poll, removing>>

Track(j) ==
    /\ j \in dispatch
    /\ dispatch' = dispatch \ {j}
    /\ tracker' = With(tracker, j, First(j))
    /\ row' = IF row[j].state = "gone" THEN row ELSE [row EXCEPT ![j].gid = First(j)]
    /\ UNCHANGED <<managerVars, aria, done, failed, lost, poll, removing>>

-----------------------------------------------------------------------------
\* The poll: the tracked jobs, then BatchStatus.  It may be for the sake of jobs
\* that are not among Jobs.

PollList ==
    /\ poll.pc = "idle" /\ node # "exited"
    /\ poll' = [pc |-> "active", ids |-> tracker, todo |-> DOMAIN tracker,
                seen |-> <<>>, reports |-> <<>>, own |-> {}]
    /\ UNCHANGED <<managerVars, aria, done, failed, lost, row, dispatch, tracker, removing>>

\* TellActive: the downloads in progress, known by their own GID and by that of
\* the metadata they follow.  What only seeds is done and is removed.
ActiveGids == {g \in DOMAIN aria : aria[g] \in {"active", "seeding"}}
SeenAs(g) ==
    IF g \in ActiveGids THEN [gid |-> g, state |-> State(aria[g])]
                        ELSE [gid |-> Follower(g), state |-> State(aria[Follower(g)])]
PollActive ==
    /\ poll.pc = "active"
    /\ \/ /\ Serving
          /\ poll' = [poll EXCEPT !.pc = "match",
               !.seen = [g \in ActiveGids \cup {First(c[1]) : c \in ActiveGids} |-> SeenAs(g)]]
          /\ aria' = Without(aria, {g \in DOMAIN aria : aria[g] = "seeding"})
       \/ MayFail /\ poll' = IdlePoll /\ UNCHANGED aria
    /\ UNCHANGED <<managerVars, done, failed, lost, row, dispatch, tracker, removing>>

\* A job's result, and the GIDs that RemoveDownloadResult takes out of aria2.
Reported(j, report, gids) ==
    /\ poll' = [poll EXCEPT !.pc = "match", !.own = {}, !.todo = @ \ {j},
                            !.reports = With(@, j, report)]
    /\ aria' = IF Serving THEN Without(aria, gids) ELSE aria

\* Found among the active ones; the metadata entry is removed.
MatchActive(j) ==
    LET g == poll.ids[j]
    IN /\ poll.pc = "match" /\ j \in poll.todo /\ g \in DOMAIN poll.seen
       /\ Reported(j, poll.seen[g], IF poll.seen[g].gid # g THEN {g} ELSE {})
       /\ UNCHANGED <<managerVars, done, failed, lost, row, dispatch, tracker, removing>>

Ended == {"complete", "error"}
\* Bug: metadata that is complete is taken for the content.
MatchFirstOnly(j) ==
    LET g == poll.ids[j]
    IN /\ poll.pc = "match" /\ j \in poll.todo /\ g \notin DOMAIN poll.seen
       /\ IF Serving /\ g \in DOMAIN aria
          THEN Reported(j, [gid |-> g, state |-> State(aria[g])],
                        IF aria[g] \in Ended THEN {g} ELSE {})
          ELSE Reported(j, [gid |-> g, state |-> "failed"], {})
       /\ UNCHANGED <<managerVars, done, failed, lost, row, dispatch, tracker, removing>>

\* What TellStatus answers; the metadata of a download asks for another call.
Told(j, g) ==
    /\ Serving /\ g \in DOMAIN aria
    /\ IF IsMetadata(g) /\ aria[g] = "complete"
       THEN poll' = [poll EXCEPT !.pc = "child", !.own = {j}] /\ UNCHANGED aria
       ELSE Reported(j, [gid |-> g, state |-> State(aria[g])],
                     IF aria[g] \in Ended THEN {g} ELSE {})

\* Bug: a GID that aria2 does not know is left for the next poll.
MatchKnown(j) ==
    LET g == poll.ids[j]
    IN /\ poll.pc = "match" /\ j \in poll.todo /\ g \notin DOMAIN poll.seen
       /\ \/ Told(j, g)
          \/ /\ MayFail \/ g \notin DOMAIN aria
             /\ poll' = [poll EXCEPT !.todo = @ \ {j}] /\ UNCHANGED aria
       /\ UNCHANGED <<managerVars, done, failed, lost, row, dispatch, tracker, removing>>

\* TellStatus of any other.  An error is taken for a lost download.
MatchOther(j) ==
    LET g == poll.ids[j]
    IN /\ poll.pc = "match" /\ j \in poll.todo /\ g \notin DOMAIN poll.seen
       /\ \/ Told(j, g)
          \/ /\ MayFail \/ g \notin DOMAIN aria
             /\ Reported(j, [gid |-> g, state |-> "failed"], {})
       /\ UNCHANGED <<managerVars, done, failed, lost, row, dispatch, tracker, removing>>

\* TellStatus of the download that followed.  Without an answer the metadata's
\* own status stands.
MatchChild ==
    LET j == CHOOSE i \in poll.own : TRUE
        g == poll.ids[j]
        c == Follower(g)
    IN /\ poll.pc = "child"
       /\ \/ /\ Serving /\ c \in DOMAIN aria
             /\ Reported(j, [gid |-> c, state |-> State(aria[c])],
                         {g} \cup IF aria[c] \in Ended THEN {c} ELSE {})
          \/ /\ MayFail \/ c \notin DOMAIN aria
             /\ Reported(j, [gid |-> g, state |-> "completed"], {g})
       /\ UNCHANGED <<managerVars, done, failed, lost, row, dispatch, tracker, removing>>

\* The tracker follows the GIDs and drops what has ended; the reports arrive.
Last(j) == poll.reports[j].state # "active"
PollEnd ==
    /\ poll.pc = "match" /\ poll.todo = {}
    /\ poll' = IdlePoll
    /\ tracker' = [j \in DOMAIN tracker \ {x \in DOMAIN poll.reports : Last(x)} |->
                     IF j \in DOMAIN poll.reports THEN poll.reports[j].gid ELSE tracker[j]]
    /\ \E all \in {TRUE} \cup IF "push" \in Faults THEN {FALSE} ELSE {} :
         row' = [j \in Jobs |->
                   IF /\ j \in DOMAIN poll.reports /\ row[j].state # "gone"
                      /\ all \/ Last(j)
                   THEN poll.reports[j] ELSE row[j]]
    /\ UNCHANGED <<managerVars, aria, done, failed, lost, dispatch, removing>>

-----------------------------------------------------------------------------
\* A deletion, with the GID of the row: CancelJob for a row that is active and
\* has one, and RemoveJob.

Delete(j) ==
    /\ row[j].state \notin {"new", "gone"}
    /\ row' = [row EXCEPT ![j].state = "gone"]
    /\ removing' = removing \cup
         {[job |-> j, gid |-> row[j].gid,
           pc |-> IF row[j].state = "active" /\ row[j].gid # NoGid THEN "cancel" ELSE "remove"]}
    /\ UNCHANGED <<managerVars, aria, done, failed, lost, dispatch, tracker, poll>>

\* The tracker keeps the job when aria2 has nothing to cancel.
Cancel(r) ==
    /\ r \in removing /\ r.pc = "cancel"
    /\ removing' = (removing \ {r}) \cup {[r EXCEPT !.pc = "remove"]}
    /\ \/ /\ Serving /\ r.gid \in ActiveGids
          /\ aria' = [aria EXCEPT ![r.gid] = "removed"]
          /\ failed' = failed \cup {r.job}
          /\ tracker' = Without(tracker, {r.job})
       \/ /\ MayFail \/ r.gid \notin ActiveGids
          /\ UNCHANGED <<aria, failed, tracker>>
    /\ UNCHANGED <<managerVars, done, lost, row, dispatch, poll>>

Remove(r) ==
    /\ r \in removing /\ r.pc = "remove"
    /\ removing' = removing \ {r}
    /\ aria' = IF Serving THEN Without(aria, {r.gid}) ELSE aria
    /\ failed' = IF Serving /\ r.gid \in DOMAIN aria THEN failed \cup {r.job} ELSE failed
    /\ done' = done \ {r.job}
    /\ UNCHANGED <<managerVars, lost, row, dispatch, tracker, poll>>

-----------------------------------------------------------------------------
AriaStep(g) == Followed(g) \/ Downloaded(g) \/ Seeded(g) \/ Errs(g)
PollStep ==
    \/ PollActive \/ MatchChild \/ PollEnd
    \/ \E j \in Jobs : MatchActive(j) \/ MatchOther(j)
JobStep(j) == Add(j) \/ Track(j) \/ Delete(j)

Next ==
    \/ ManagerStep
    \/ \E g \in Gid : AriaStep(g)
    \/ \E j \in Jobs : JobStep(j)
    \/ PollList \/ PollStep
    \/ \E r \in removing : Cancel(r) \/ Remove(r)

Spec == Init /\ [][Next]_vars

\* The watcher's and the status loop's tickers keep firing and what they start
\* goes on; a daemon that is started comes up in the time it is given at last.
Fairness ==
    /\ WF_vars(StartStep /\ ManagerStep) /\ WF_vars(WatchStep /\ ManagerStep)
    /\ SF_vars((\E p \in procs : Boot(p)) /\ ManagerStep)
    /\ WF_vars(PollList \/ PollStep)
    /\ WF_vars(\E j \in Jobs : Track(j))
FairSpec == Spec /\ Fairness

-----------------------------------------------------------------------------
(***************************************************************************)
(* Properties.                                                             *)
(***************************************************************************)
\* Outcomes are not invented: a job is completed once its content is on disk,
\* and failed once aria2 failed or lost it, through the change of GIDs, the
\* removal of what seeds and the gaps between the calls of a poll.  (What went
\* with aria2's process may be given either outcome: engine.go:182.)
OutcomesTrue ==
    \A j \in Jobs :
      /\ row[j].state = "completed" => j \in done \cup lost
      /\ row[j].state = "failed" => j \in failed \cup lost

\* The daemon stops failing.
FailuresEnd == <>[][~Disturbance]_managerVars

\* manager.go:143: "Watch monitors daemons and restarts crashed ones".
DaemonsRestarted == FailuresEnd => \A d \in Daemons : Restarted(d)

\* A download that has ended, or is lost with aria2, is reported: nothing stays
\* tracked, or active in the table, without a download that goes on.
Over(j) == j \in done \cup failed \cup lost /\ row[j].state = "active"
EndsReported ==
    FailuresEnd => \A j \in Jobs : []<>(~Over(j) \/ node \notin {"starting", "running"})
=============================================================================
