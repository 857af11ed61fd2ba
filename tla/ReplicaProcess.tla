--------------------------- MODULE ReplicaProcess ---------------------------
(***************************************************************************)
(* What the replicas of the service rely on of one another's processes,    *)
(* however they are started, probed, signalled and killed: a shutdown is   *)
(* final until the process is gone, no job is begun in it, a job outlasts  *)
(* it but no process its jobs, and a worker is on one job at a time.       *)
(* AppLifecycle implements this with one replica, MailDispatch with all.   *)
(***************************************************************************)
CONSTANT Procs

VARIABLES
    mode,      \* is a replica running, shutting down, or down
    working    \* the replicas whose worker is on a job

vars == <<mode, working>>

Init ==
    /\ mode = [p \in Procs |-> "running"]
    /\ working = {}

TakesJob(p) ==
    /\ mode[p] = "running"
    /\ p \notin working
    /\ working' = working \cup {p}
    /\ UNCHANGED mode

EndsJob(p) ==
    /\ p \in working
    /\ working' = working \ {p}
    /\ UNCHANGED mode

ShutsDown(p) ==
    /\ mode[p] = "running"
    /\ mode' = [mode EXCEPT ![p] = "shutdown"]
    /\ UNCHANGED working

Dies(p) ==
    /\ mode[p] # "down"
    /\ mode' = [mode EXCEPT ![p] = "down"]
    /\ working' = working \ {p}

Restarts(p) ==
    /\ mode[p] = "down"
    /\ mode' = [mode EXCEPT ![p] = "running"]
    /\ UNCHANGED working

Next ==
    \E p \in Procs :
        TakesJob(p) \/ EndsJob(p) \/ ShutsDown(p) \/ Dies(p) \/ Restarts(p)

Spec == Init /\ [][Next]_vars

=============================================================================
