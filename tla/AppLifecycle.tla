---------------------------- MODULE AppLifecycle ----------------------------
(***************************************************************************)
(* The life of one replica's process (src/app/app.js): it connects to      *)
(* Postgres, Redis and, in production, the mail server, attaches its       *)
(* queue worker, lets requests through while the probe of every ten        *)
(* seconds finds all well, and otherwise, on a signal or on an unhandled   *)
(* rejection shuts down: pause the worker, wait, close queue, mail and     *)
(* database in this order, exit; or exit anyway ten seconds later.         *)
(*                                                                         *)
(* Nothing orders the steps but the code's own conditions: the checks of   *)
(* start-up, up to |Probes| probes that overlap because one hangs, cleanup *)
(* and the environment interleave freely, and time is not modelled.        *)
(***************************************************************************)
EXTENDS Naturals

CONSTANTS
    Probes,      \* slots of probes in progress: a bound on their overlap
    MaxTroubles  \* bound on changes of the environment, kills and 5xx errors

ASSUME LifecycleAssumption == MaxTroubles \in Nat

VARIABLES
    env,       \* what the process depends on; an `empty' database has no
               \* tables, and outside production nobody checks the smtp server
    init,      \* the tasks of initializeConnections
    state,     \* app.js's own state object
    attached,  \* has mountServices run?
    clients,   \* have Bull's blocking and event clients been created?
    busy,      \* is the worker on a job?
    probe,     \* the checkConnections in progress
    pool,      \* the database pool
    closing,   \* how far cleanup is
    exitCode,
    exited,
    early,     \* history: did a probe start before those clients existed?
    troubles   \* how often each kind of trouble happened

vars == <<env, init, state, attached, clients, busy, probe, pool, closing,
          exitCode, exited, early, troubles>>

Idle == [at |-> "idle"]

\* `created' is what Bull said of its clients when the probe began.
Probe == [at: {"checking"}, created: BOOLEAN,
          data: {"pending", "ok", "bad"}, queue: {"pending", "ok", "bad"}]

Connections == [data: BOOLEAN, queue: BOOLEAN, email: BOOLEAN]

TypeOK ==
    /\ env \in [db: {"writable", "empty", "readOnly", "down"},
                redis: BOOLEAN, smtp: {"unchecked", "up", "down"}]
    /\ init \in [data: {"connect", "connected", "unconnected",
                       "ok", "bad", "rejected"},
                 queue: {"pending", "ok", "bad"},
                 email: {"pending", "ok", "rejected"},
                 settled: BOOLEAN]
    /\ state \in [connections: Connections, mounted: BOOLEAN,
                  ready: BOOLEAN, shutdown: BOOLEAN]
    /\ attached \in BOOLEAN /\ clients \in BOOLEAN /\ busy \in BOOLEAN
    /\ exited \in BOOLEAN /\ early \in BOOLEAN
    /\ probe \in [Probes -> Probe \cup {Idle}]
    /\ pool \in {"open", "draining", "closed"}
    /\ closing \in {"no", "queue", "data"}
    /\ exitCode \in {0, 1}
    /\ troubles \in [{"change", "kill", "error"} -> 0..MaxTroubles]

\* Mutated: the mail server is not assumed to be there.
ConnectionsAtStartUnassumed ==
    [data |-> FALSE, queue |-> FALSE, email |-> FALSE]

ConnectionsAtStart == [data |-> FALSE, queue |-> FALSE, email |-> TRUE]

\* Only in production is the mail server checked at start-up.
Init ==
    /\ env \in [db: {"writable", "empty", "readOnly", "down"},
                redis: BOOLEAN, smtp: {"unchecked", "up", "down"}]
    /\ init = [data |-> "connect", queue |-> "pending",
               email |-> IF env.smtp = "unchecked" THEN "ok" ELSE "pending",
               settled |-> FALSE]
    /\ state = [connections |-> ConnectionsAtStart, mounted |-> FALSE,
                ready |-> FALSE, shutdown |-> FALSE]
    /\ attached = FALSE
    /\ clients = FALSE
    /\ busy = FALSE
    /\ probe = [q \in Probes |-> Idle]
    /\ pool = "open"
    /\ closing = "no"
    /\ exitCode = 0
    /\ exited = FALSE
    /\ early = FALSE
    /\ troubles = [kind \in {"change", "kill", "error"} |-> 0]

\* One more trouble of a kind.
Trouble(kind) ==
    /\ troubles.change + troubles.kill + troubles.error < MaxTroubles
    /\ troubles' = [troubles EXCEPT ![kind] = @ + 1]

\* What `show transaction_read_only' tells: it knows nothing of tables.
DbAnswers == env.db \in {"writable", "empty"}

Verdict(good) == IF good THEN "ok" ELSE "bad"

AllConnected(c) == c.data /\ c.queue /\ c.email

\* The middleware that answers 503 lets a request through.
Serving == state.ready /\ state.mounted /\ ~state.shutdown /\ ~exited

-----------------------------------------------------------------------------
(* initializeConnections. *)

CheckingData == init.data \in {"connect", "connected", "unconnected"}

\* A pool that is being reset may abort the queries that are under way.
Aborted == {FALSE, pool # "open"}

\* checkAll reads whether Postgres is read-only, then whether the tables are
\* there; of these two only the second rejects when its query fails.
CheckData ==
    /\ ~exited
    /\ \E aborted \in Aborted :
         \/ /\ init.data = "connect"
            /\ init' = [init EXCEPT !.data =
                          IF DbAnswers /\ ~aborted THEN "connected" ELSE "unconnected"]
         \/ /\ init.data \in {"connected", "unconnected"}
            /\ init' = [init EXCEPT !.data =
                          IF env.db = "down" \/ aborted THEN "rejected"
                          ELSE Verdict(env.db # "empty" /\ init.data = "connected")]
    /\ UNCHANGED <<env, state, attached, clients, busy, probe, pool, closing,
                   exitCode, exited, early, troubles>>

\* checkReachable gives up after five seconds.
CheckQueue ==
    /\ ~exited
    /\ init.queue = "pending"
    /\ init' = [init EXCEPT !.queue = Verdict(env.redis)]
    /\ UNCHANGED <<env, state, attached, clients, busy, probe, pool, closing,
                   exitCode, exited, early, troubles>>

\* Mutated: a failing verify is caught and answered with false.
CheckEmailCaught ==
    /\ ~exited
    /\ init.email = "pending"
    /\ init' = [init EXCEPT !.email = IF env.smtp = "up" THEN "ok" ELSE "bad"]
    /\ UNCHANGED <<env, state, attached, clients, busy, probe, pool, closing,
                   exitCode, exited, early, troubles>>

\* verify rejects when it fails.
CheckEmail ==
    /\ ~exited
    /\ init.email = "pending"
    /\ init' = [init EXCEPT !.email =
                   IF env.smtp = "up" THEN "ok" ELSE "rejected"]
    /\ UNCHANGED <<env, state, attached, clients, busy, probe, pool, closing,
                   exitCode, exited, early, troubles>>

Rejected == "rejected" \in {init.data, init.email}

Resolved == /\ init.data \in {"ok", "bad"}
            /\ init.queue \in {"ok", "bad"}
            /\ init.email = "ok"

\* Without a check the connection stays what it was assumed to be.
EmailResult == env.smtp # "unchecked" \/ state.connections.email

\* Mutated: what is missing is only logged.
ShutsDownNever(good) == state.shutdown

\* Mutated: a probe that finds all well takes an earlier shutdown back.
ShutsDownForgets(good) == ~good

\* Start-up without a queue, and a probe that finds anything down, shut down.
ShutsDown(good) == state.shutdown \/ ~good

\* Mutated: they do it as a kill signal would.
ExitCodeKept(good) == exitCode

ExitCode(good) == IF good THEN exitCode ELSE 1

\* Promise.all; a rejection leaves the connections as they are.  The service
\* mounts its worker as soon as the queue is there.
InitSettles ==
    LET connections == IF Rejected THEN state.connections
                       ELSE [data |-> init.data = "ok",
                             queue |-> init.queue = "ok", email |-> EmailResult]
    IN
    /\ ~exited
    /\ ~init.settled
    /\ Rejected \/ Resolved
    /\ init' = [init EXCEPT !.settled = TRUE]
    /\ state' = [state EXCEPT !.connections = connections,
                              !.ready = AllConnected(connections),
                              !.shutdown = ShutsDown(connections.queue)]
    /\ attached' = connections.queue
    /\ exitCode' = ExitCode(connections.queue)
    /\ UNCHANGED <<env, clients, busy, probe, pool, closing, exited, early, troubles>>

\* Bull creates the clients it processes jobs with.
ClientsCreated ==
    /\ ~exited
    /\ attached
    /\ env.redis
    /\ clients' = TRUE
    /\ UNCHANGED <<env, init, state, attached, busy, probe, pool, closing,
                   exitCode, exited, early, troubles>>

-----------------------------------------------------------------------------
(* checkConnections, every ten seconds until cleanup. *)

\* Mutated: only the queue's main client is checked.
ClientsKnownUnchecked == TRUE

\* checkConnection of QueueConnection asks Bull whether its clients have been
\* created before it names them.
ClientsKnown == clients

\* Naming the clients creates them, too late for this probe.  Whichever idle slot
\* it takes is the same.
ProbeStarts(q) ==
    /\ ~exited
    /\ closing = "no"
    /\ ~state.shutdown
    /\ probe[q] = Idle /\ q = CHOOSE r \in Probes : probe[r] = Idle
    /\ probe' = [probe EXCEPT ![q] =
                   [at |-> "checking", created |-> ClientsKnown,
                    data |-> "pending", queue |-> "pending"]]
    /\ clients' = TRUE
    /\ early' = (early \/ ~clients)
    /\ UNCHANGED <<env, init, state, attached, busy, pool, closing, exitCode,
                   exited, troubles>>

ProbeData(q) ==
    /\ ~exited
    /\ probe[q] # Idle
    /\ probe[q].data = "pending"
    /\ \E aborted \in Aborted :
          probe' = [probe EXCEPT ![q].data = Verdict(DbAnswers /\ ~aborted)]
    /\ UNCHANGED <<env, init, state, attached, clients, busy, pool, closing,
                   exitCode, exited, early, troubles>>

ProbeQueue(q) ==
    /\ ~exited
    /\ probe[q] # Idle
    /\ probe[q].queue = "pending"
    /\ probe' = [probe EXCEPT ![q].queue = Verdict(probe[q].created /\ env.redis)]
    /\ UNCHANGED <<env, init, state, attached, clients, busy, pool, closing,
                   exitCode, exited, early, troubles>>

ProbeSettles(q) ==
    LET connections == [state.connections EXCEPT
                          !.data = probe[q].data = "ok",
                          !.queue = probe[q].queue = "ok"]
    IN
    /\ ~exited
    /\ probe[q] # Idle
    /\ "pending" \notin {probe[q].data, probe[q].queue}
    /\ probe' = [probe EXCEPT ![q] = Idle]
    /\ state' = [connections |-> connections,
                 ready |-> AllConnected(connections),
                 mounted |-> connections.queue,
                 shutdown |-> ShutsDown(AllConnected(connections))]
    /\ exitCode' = ExitCode(AllConnected(connections))
    /\ UNCHANGED <<env, init, attached, clients, busy, pool, closing, exited,
                   early, troubles>>

-----------------------------------------------------------------------------
(* Jobs, errors and the end. *)

\* A paused worker takes no job.
JobStarts ==
    /\ ~exited
    /\ attached /\ clients /\ env.redis
    /\ ~busy
    /\ ~state.shutdown
    /\ busy' = TRUE
    /\ UNCHANGED <<env, init, state, attached, clients, probe, pool, closing,
                   exitCode, exited, early, troubles>>

JobEnds ==
    /\ ~exited
    /\ busy
    /\ busy' = FALSE
    /\ UNCHANGED <<env, init, state, attached, clients, probe, pool, closing,
                   exitCode, exited, early, troubles>>

\* The error handler resets the pool, which drains, then opens again.  It also
\* gets errors from ahead of the 503 gate, as of a body that is no JSON, before
\* the replica serves or has checked its connections.
resetConnection ==
    /\ ~exited
    /\ ~state.shutdown
    /\ pool = "open"
    /\ Trouble("error")
    /\ pool' = "draining"
    /\ UNCHANGED <<env, init, state, attached, clients, busy, probe, closing,
                   exitCode, exited, early>>

\* Not before the queries that are under way are over.
PoolReopens ==
    /\ ~exited
    /\ pool = "draining"
    /\ ~CheckingData
    /\ ~ \E q \in Probes : probe[q] # Idle /\ probe[q].data = "pending"
    /\ pool' = "open"
    /\ UNCHANGED <<env, init, state, attached, clients, busy, probe, closing,
                   exitCode, exited, early, troubles>>

\* A kill signal, or with exit code 1 an unhandled rejection or exception.
shutdown ==
    /\ ~exited
    /\ Trouble("kill")
    /\ state' = [state EXCEPT !.shutdown = TRUE]
    /\ exitCode' \in {exitCode, 1}
    /\ UNCHANGED <<env, init, attached, clients, busy, probe, pool, closing,
                   exited, early>>

\* Five seconds after shutdown.
cleanup ==
    /\ ~exited
    /\ state.shutdown
    /\ closing = "no"
    /\ closing' = "queue"
    /\ UNCHANGED <<env, init, state, attached, clients, busy, probe, pool,
                   exitCode, exited, early, troubles>>

\* Mutated: the queue is closed without whenCurrentJobsFinished.
JobsFinishedUnasked == TRUE

JobsFinished == ~busy

\* The mailers close at once, and on to the database.
CloseEmail == closing' = "data"

CloseQueue ==
    /\ ~exited
    /\ closing = "queue"
    /\ env.redis
    /\ JobsFinished
    /\ CloseEmail
    /\ UNCHANGED <<env, init, state, attached, clients, busy, probe, pool,
                   exitCode, exited, early, troubles>>

CloseData ==
    /\ ~exited
    /\ closing = "data"
    /\ pool' = "closed"
    /\ exited' = TRUE
    /\ probe' = [q \in Probes |-> Idle]
    /\ UNCHANGED <<env, init, state, attached, clients, busy, closing, exitCode,
                   early, troubles>>

\* Mutated: cleanup sets no timer of its own.
HardExitNever == FALSE /\ UNCHANGED vars

\* Ten seconds after cleanup began.
HardExit ==
    /\ ~exited
    /\ closing # "no"
    /\ exited' = TRUE
    /\ probe' = [q \in Probes |-> Idle]
    /\ UNCHANGED <<env, init, state, attached, clients, busy, pool, closing,
                   exitCode, early, troubles>>

\* Something the process depends on fails or comes back.
EnvironmentChanges ==
    /\ ~exited
    /\ Trouble("change")
    /\ \/ \E d \in {"writable", "empty", "readOnly", "down"} \ {env.db} :
             env' = [env EXCEPT !.db = d]
       \/ env' = [env EXCEPT !.redis = ~@]
       \/ /\ env.smtp # "unchecked"
          /\ env' = [env EXCEPT !.smtp = IF @ = "up" THEN "down" ELSE "up"]
    /\ UNCHANGED <<init, state, attached, clients, busy, probe, pool, closing,
                   exitCode, exited, early>>

-----------------------------------------------------------------------------

StartUp == CheckData \/ CheckQueue \/ CheckEmail \/ InitSettles

checkConnections(q) ==
    ProbeStarts(q) \/ ProbeData(q) \/ ProbeQueue(q) \/ ProbeSettles(q)

Next ==
    \/ StartUp \/ ClientsCreated
    \/ \E q \in Probes : checkConnections(q)
    \/ JobStarts \/ JobEnds \/ resetConnection \/ PoolReopens
    \/ shutdown \/ cleanup \/ CloseQueue \/ CloseData \/ HardExit
    \/ EnvironmentChanges

Spec == Init /\ [][Next]_vars

\* Checks answer or time out, the interval and the timers fire.  A job need
\* not end, and nothing closes unless the code makes it.
Fairness ==
    /\ WF_vars(StartUp)
    /\ \A q \in Probes : WF_vars(checkConnections(q))
    /\ WF_vars(cleanup \/ HardExit)

FairSpec == Spec /\ Fairness

-----------------------------------------------------------------------------

\* The replica lets requests through only with its worker attached.  Start-up
\* and probes do not know of each other; what keeps the order is that Bull's
\* other clients exist only once something names them.  If a second probe
\* overtakes a first one that hangs, the first is bound to shut it down.
ServingMeansAttached ==
    Serving /\ ~attached =>
        \E q \in Probes : probe[q] # Idle /\ ~probe[q].created

\* The database pool is never taken from under a job by a clean exit.
PoolOutlivesJobs == pool = "closed" => ~busy

\* Only a kill signal ends the replica with exit code 0: a failed start-up
\* and a failed probe tell the platform.
ExitCodeTells == exited /\ exitCode = 0 => troubles.kill > 0

\* To the other replicas this process is one that MailDispatch's replicas may
\* be: start-up and probes end no shutdown, and a replica that shuts down, for
\* whatever reason, takes no job any more, though it may be on one when it dies.
Replica == INSTANCE ReplicaProcess WITH
    Procs   <- {"this"},
    mode    <- [p \in {"this"} |-> IF exited THEN "down"
                                  ELSE IF state.shutdown THEN "shutdown"
                                  ELSE "running"],
    working <- IF busy /\ ~exited THEN {"this"} ELSE {}

ImplementsReplica == Replica!Spec

\* Every shutdown ends the process, also when a job hangs or Redis is gone and
\* the queue cannot be closed.
ShutdownExits == state.shutdown ~> exited

\* If Postgres or Redis stays away the replica gives up and exits, whatever
\* start-up found and however probes overlap.
OutageExits == <>[](~DbAnswers \/ ~env.redis) => <>exited

Calm == /\ env.db = "writable" /\ env.redis /\ env.smtp # "down"
        /\ troubles = [kind \in {"change", "kill", "error"} |-> 0]
        /\ ~early

\* While all it depends on is there and nobody ends it, a replica whose worker
\* was up before its first probe comes to serve, and serves from then on.
CalmServes == []Calm => <>[]Serving

\* "Initialize connections and exit if unsuccessful" (app.js): a replica that
\* found something missing at start-up never serves.
FailedInitNeverServes ==
    [][init.settled /\ ~AllConnected(state.connections) => ~Serving']_vars

=============================================================================
