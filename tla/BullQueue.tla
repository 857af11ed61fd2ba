----------------------------- MODULE BullQueue -----------------------------
(***************************************************************************)
(* One job of the Bull queue, as far as the service relies on it.  Bull is *)
(* a dependency: its behaviour is modelled from how QueueConnection        *)
(* configures it and QueueService calls it.  A job's id is the message's   *)
(* id, so a message has at most one job.  Jobs are removed from Redis when *)
(* they complete or finally fail (removeOnComplete, removeOnFail).         *)
(***************************************************************************)
EXTENDS Naturals

CONSTANTS
    Procs,        \* the replicas of the service, each with one worker
    NoProc,       \* the lock of a job nobody works on
    MaxAttempts,  \* server.maxAttempts
    MaxStalls     \* Bull's maxStalledCount

ASSUME QueueAssumption ==
    /\ NoProc \notin Procs
    /\ MaxAttempts \in Nat \ {0}
    /\ MaxStalls \in Nat

Job == [state: {"none", "delayed", "waiting", "active"},
        attemptsMade: 0..MaxAttempts,
        failedReason: BOOLEAN,
        stalls: 0..MaxStalls,
        lock: Procs \cup {NoProc}]

NoJob == [state |-> "none", attemptsMade |-> 0, failedReason |-> FALSE,
          stalls |-> 0, lock |-> NoProc]

\* Mutated: enqueue passes no job id, so an add is never a no-op.
addedAnew(j, delayed) ==
    [NoJob EXCEPT !.state = IF delayed THEN "delayed" ELSE "waiting"]

\* queue.add with the message's id as job id: a no-op when the job exists.
added(j, delayed) ==
    IF j.state = "none"
    THEN [NoJob EXCEPT !.state = IF delayed THEN "delayed" ELSE "waiting"]
    ELSE j

\* job.promote, and the end of a delay.
promoted(j) == [j EXCEPT !.state = "waiting"]

taken(j, p) == [j EXCEPT !.state = "active", !.lock = p]

\* Mutated: an attempt too many.
RetriesLeftPastMax(j) == j.attemptsMade <= MaxAttempts

\* A failed attempt goes back to the delayed set for the backoff, the last
\* one leaves the queue.
RetriesLeft(j) == j.attemptsMade + 1 < MaxAttempts

\* Mutated: the attempts are not counted.
afterFailureUncounted(j) ==
    [j EXCEPT !.state = "delayed", !.failedReason = TRUE, !.lock = NoProc]

afterFailure(j) ==
    IF RetriesLeft(j)
    THEN [j EXCEPT !.state = "delayed", !.attemptsMade = @ + 1,
                   !.failedReason = TRUE, !.lock = NoProc]
    ELSE NoJob

\* job.remove refuses a locked job, and looks at nothing else.
Removable(j) == j.lock = NoProc

\* The stalled-job check finds an active job whose lock expired.
Stalled(j) == j.state = "active" /\ j.lock = NoProc

\* Mutated: the stalls are not counted.
afterStallUncounted(j) ==
    IF j.stalls < MaxStalls
    THEN [j EXCEPT !.state = "waiting"]
    ELSE NoJob

afterStall(j) ==
    IF j.stalls < MaxStalls
    THEN [j EXCEPT !.state = "waiting", !.stalls = @ + 1]
    ELSE NoJob

=============================================================================
