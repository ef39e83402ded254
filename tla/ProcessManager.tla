--------------------------- MODULE ProcessManager ---------------------------
(***************************************************************************)
(* The daemons a node runs as child processes (core/process/manager.go):   *)
(* StartAll at its start, Watch while it runs, StopAll at its end          *)
(* (core/node/runner.go).  The three take turns under one mutex and keep   *)
(* it while they wait for a process.                                       *)
(*                                                                         *)
(* The context that Watch is given is never cancelled: it ends with the    *)
(* node's own process.                                                     *)
(***************************************************************************)
EXTENDS Integers, FiniteSets

CONSTANTS Daemons,  \* the registered daemons
          Pids,     \* bound: ids of the processes alive at a time
          Faults    \* what may go wrong
\* A daemon dies, a daemon stops answering, a process cannot be started, the
\* node is told to stop.
DaemonFaults == {"die", "hang", "start", "stop"}

NoCmd == "never started"
NoProcess == "start failed"
ASSUME ProcessAssumption == {NoCmd, NoProcess} \cap Pids = {}

VARIABLES
    node,   \* stage of the node's main function
    mutex,  \* who holds the manager's mutex
    todo,   \* daemons the holder has not looked at yet
    doing,  \* what it does with one of them
    cmd,    \* daemon -> the command kept for it
    procs   \* the processes alive

managerVars == <<node, mutex, todo, doing, cmd, procs>>

Process == [daemon: Daemons, pid: Pids, state: {"booting", "up", "hung"}]
Idle == [step |-> "none"]
Doing == {Idle} \cup [step: {"launch", "await"}, daemon: Daemons]

ManagerTypeOK ==
    /\ node \in {"starting", "running", "stopping", "stopped", "exited"}
    /\ mutex \in {"free", "start", "watch", "stop"}
    /\ todo \subseteq Daemons /\ doing \in Doing
    /\ cmd \in [Daemons -> Pids \cup {NoCmd, NoProcess}]
    /\ procs \subseteq Process

ManagerInit ==
    /\ node = "starting" /\ mutex = "start"
    /\ todo = Daemons /\ doing = Idle
    /\ cmd = [d \in Daemons |-> NoCmd] /\ procs = {}

\* GetVersion is answered.
Healthy(d) == \E p \in procs : p.daemon = d /\ p.state = "up"
Current(d) == {p \in procs : p.daemon = d /\ p.pid = cmd[d]}

-----------------------------------------------------------------------------
\* The processes.

Boot(p) ==
    /\ p \in procs /\ p.state = "booting"
    /\ procs' = (procs \ {p}) \cup {[p EXCEPT !.state = "up"]}
    /\ UNCHANGED <<node, mutex, todo, doing, cmd>>
Die(p) ==
    /\ "die" \in Faults /\ p \in procs
    /\ procs' = procs \ {p}
    /\ UNCHANGED <<node, mutex, todo, doing, cmd>>
Hang(p) ==
    /\ "hang" \in Faults /\ p \in procs /\ p.state = "up"
    /\ procs' = (procs \ {p}) \cup {[p EXCEPT !.state = "hung"]}
    /\ UNCHANGED <<node, mutex, todo, doing, cmd>>

-----------------------------------------------------------------------------
\* startOne, for StartAll and for checkAndRestart.  StartAll gives up at the
\* first error, checkAndRestart goes on to the next daemon.

Begin(d) == doing' = [step |-> "launch", daemon |-> d]
StartNext(d) ==
    /\ mutex = "start" /\ doing = Idle /\ d \in todo
    /\ todo' = todo \ {d} /\ Begin(d)
    /\ UNCHANGED <<node, mutex, cmd, procs>>

Fails == /\ doing' = Idle
         /\ todo' = IF mutex = "start" THEN {} ELSE todo
Launch ==
    LET d == doing.daemon
    IN /\ doing.step = "launch"
       /\ \/ \E p \in Pids \ {q.pid : q \in procs} :
               /\ procs' = procs \cup {[daemon |-> d, pid |-> p, state |-> "booting"]}
               /\ cmd' = [cmd EXCEPT ![d] = p]
               /\ doing' = [doing EXCEPT !.step = "await"]
               /\ UNCHANGED todo
          \/ /\ "start" \in Faults
             /\ cmd' = [cmd EXCEPT ![d] = NoProcess]
             /\ Fails
             /\ UNCHANGED procs
       /\ UNCHANGED <<node, mutex>>

\* The probe succeeds, or is still failing at the deadline.
Await ==
    /\ doing.step = "await"
    /\ \/ Healthy(doing.daemon) /\ doing' = Idle /\ UNCHANGED todo
       \/ ~Healthy(doing.daemon) /\ Fails
    /\ UNCHANGED <<node, mutex, cmd, procs>>

Unlock(holder) ==
    /\ mutex = holder /\ todo = {} /\ doing = Idle
    /\ mutex' = "free"
    /\ node' = IF holder = "start" THEN "running" ELSE node
    /\ UNCHANGED <<todo, doing, cmd, procs>>

\* checkAndRestart, at a tick of the watcher.
WatchLock ==
    /\ node \in {"running", "stopping", "stopped"} /\ mutex = "free"
    /\ mutex' = "watch" /\ todo' = Daemons
    /\ UNCHANGED <<node, doing, cmd, procs>>

\* Bug: a daemon that does not answer is not killed before its successor starts.
CheckWithoutKill(d) ==
    /\ mutex = "watch" /\ doing = Idle /\ d \in todo
    /\ todo' = todo \ {d}
    /\ IF cmd[d] \in Pids /\ ~Healthy(d) THEN Begin(d) ELSE UNCHANGED doing
    /\ UNCHANGED <<node, mutex, cmd, procs>>

\* Bug: only a process that has exited is replaced.
CheckExited(d) ==
    /\ mutex = "watch" /\ doing = Idle /\ d \in todo
    /\ todo' = todo \ {d}
    /\ IF cmd[d] \in Pids /\ Current(d) = {} THEN Begin(d) ELSE UNCHANGED doing
    /\ UNCHANGED <<node, mutex, cmd, procs>>

\* A daemon whose process could not be started is passed over, as is one that
\* has never been started.
Check(d) ==
    /\ mutex = "watch" /\ doing = Idle /\ d \in todo
    /\ todo' = todo \ {d}
    /\ IF cmd[d] \in Pids /\ ~Healthy(d)
       THEN Begin(d) /\ procs' = procs \ Current(d)
       ELSE UNCHANGED <<doing, procs>>
    /\ UNCHANGED <<node, mutex, cmd>>

\* A signal; StopAll, which stops what was started; the end of main.
Signal ==
    /\ "stop" \in Faults /\ node = "running"
    /\ node' = "stopping"
    /\ UNCHANGED <<mutex, todo, doing, cmd, procs>>
StopAll ==
    /\ node = "stopping" /\ mutex = "free"
    /\ mutex' = "stop" /\ node' = "stopped"
    /\ procs' = procs \ UNION {Current(d) : d \in Daemons}
    /\ UNCHANGED <<todo, doing, cmd>>
Exit ==
    /\ node = "stopped" /\ mutex # "stop"
    /\ node' = "exited"
    /\ UNCHANGED <<mutex, todo, doing, cmd, procs>>

-----------------------------------------------------------------------------
StartStep == \/ \E d \in Daemons : StartNext(d)
             \/ mutex = "start" /\ (Launch \/ Await)
             \/ Unlock("start")
WatchStep == /\ node # "exited"
             /\ \/ WatchLock
                \/ \E d \in Daemons : Check(d)
                \/ mutex = "watch" /\ (Launch \/ Await)
                \/ Unlock("watch")
StopStep == StopAll \/ Unlock("stop") \/ Exit
Disturbance == \E p \in procs : Die(p) \/ Hang(p)

ManagerNext ==
    \/ StartStep \/ WatchStep \/ Signal \/ StopStep \/ Disturbance
    \/ \E p \in procs : Boot(p)

-----------------------------------------------------------------------------
(***************************************************************************)
(* Properties.                                                             *)
(***************************************************************************)
\* No daemon runs twice, on the same port and the same files: a restart waits
\* for the old process to be gone, and StartAll, Watch and StopAll do not mix.
OneProcess == \A p, q \in procs : p.daemon = q.daemon => p = q

\* "Watch monitors daemons and restarts crashed ones" (manager.go:143): while
\* the node runs, each is up again and again, once nothing makes it fail.
Restarted(d) == []<>(Healthy(d) \/ node \notin {"starting", "running"})
=============================================================================
