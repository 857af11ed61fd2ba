------------------------- MODULE AppLifecycleProofs -------------------------
(***************************************************************************)
(* What holds of AppLifecycle for every number of overlapping probes and   *)
(* of troubles.                                                            *)
(***************************************************************************)
EXTENDS AppLifecycle, TLAPS

\* An increment of one kind of trouble stays within the bound.
LEMMA TroubleBounded ==
    ASSUME NEW kind \in {"change", "kill", "error"}, TypeOK, Trouble(kind)
    PROVE  troubles' \in [{"change", "kill", "error"} -> 0..MaxTroubles]
  <1>1. troubles[kind] < MaxTroubles
    BY LifecycleAssumption DEF TypeOK, Trouble
  <1>2. troubles[kind] + 1 \in 0..MaxTroubles
    BY <1>1, LifecycleAssumption DEF TypeOK
  <1>. QED
    BY <1>2 DEF TypeOK, Trouble

\* What initializeConnections and a probe record is a set of connections, and
\* their verdict on it a state object.
LEMMA ConnectionsTyped ==
    ASSUME TypeOK, NEW data \in BOOLEAN, NEW queue \in BOOLEAN,
           NEW c \in Connections
    PROVE  /\ [c EXCEPT !.data = data, !.queue = queue] \in Connections
           /\ [data |-> data, queue |-> queue, email |-> EmailResult] \in Connections
           /\ AllConnected(c) \in BOOLEAN
           /\ ShutsDown(data) \in BOOLEAN
           /\ ExitCode(data) \in {0, 1}
  BY DEF TypeOK, Connections, EmailResult, AllConnected, ShutsDown, ExitCode

\* A step of start-up keeps the types.
LEMMA StartUpTyped == TypeOK /\ StartUp => TypeOK'
  <1>. SUFFICES ASSUME TypeOK, StartUp PROVE TypeOK'
    OBVIOUS
  <1>1. CASE CheckData
    BY <1>1 DEF CheckData, TypeOK, Verdict
  <1>2. CASE CheckQueue
    BY <1>2 DEF CheckQueue, TypeOK, Verdict
  <1>3. CASE CheckEmail
    BY <1>3 DEF CheckEmail, TypeOK
  <1>4. CASE InitSettles
    <2>. DEFINE new == IF Rejected THEN state.connections
                       ELSE [data |-> init.data = "ok",
                             queue |-> init.queue = "ok", email |-> EmailResult]
    <2>1. new \in Connections
      BY ConnectionsTyped DEF TypeOK, Connections
    <2>2. /\ new.queue \in BOOLEAN
          /\ AllConnected(new) \in BOOLEAN
          /\ ShutsDown(new.queue) \in BOOLEAN
          /\ ExitCode(new.queue) \in {0, 1}
      BY <2>1, ConnectionsTyped DEF Connections
    <2>3. /\ init' = [init EXCEPT !.settled = TRUE]
          /\ state' = [state EXCEPT !.connections = new,
                                    !.ready = AllConnected(new),
                                    !.shutdown = ShutsDown(new.queue)]
          /\ attached' = new.queue
          /\ exitCode' = ExitCode(new.queue)
          /\ UNCHANGED <<env, clients, busy, probe, pool, closing, exited,
                         early, troubles>>
      BY <1>4 DEF InitSettles
    <2>. HIDE DEF new
    <2>4. /\ init' \in [data: {"connect", "connected", "unconnected",
                               "ok", "bad", "rejected"},
                         queue: {"pending", "ok", "bad"},
                         email: {"pending", "ok", "rejected"},
                         settled: BOOLEAN]
          /\ attached' \in BOOLEAN
      BY <2>2, <2>3 DEF TypeOK
    <2>5. state' \in [connections: Connections, mounted: BOOLEAN,
                      ready: BOOLEAN, shutdown: BOOLEAN]
      BY <2>1, <2>2, <2>3 DEF TypeOK
    <2>. QED
      BY <2>2, <2>3, <2>4, <2>5 DEF TypeOK
  <1>. QED
    BY <1>1, <1>2, <1>3, <1>4 DEF StartUp

\* A step of a probe keeps the types.
LEMMA ProbeTyped ==
    ASSUME TypeOK, NEW q \in Probes, checkConnections(q) PROVE TypeOK'
  <1>1. CASE ProbeStarts(q)
    BY <1>1 DEF ProbeStarts, ClientsKnown, TypeOK, Probe
  <1>2. CASE ProbeData(q)
    BY <1>2 DEF ProbeData, TypeOK, Probe, Idle, Verdict
  <1>3. CASE ProbeQueue(q)
    BY <1>3 DEF ProbeQueue, TypeOK, Probe, Idle, Verdict
  <1>4. CASE ProbeSettles(q)
    <2>. DEFINE new == [state.connections EXCEPT
                          !.data = probe[q].data = "ok",
                          !.queue = probe[q].queue = "ok"]
    <2>1. new \in Connections
      BY ConnectionsTyped DEF TypeOK
    <2>2. /\ new.queue \in BOOLEAN
          /\ AllConnected(new) \in BOOLEAN
          /\ ShutsDown(AllConnected(new)) \in BOOLEAN
          /\ ExitCode(AllConnected(new)) \in {0, 1}
      BY <2>1, ConnectionsTyped DEF Connections
    <2>3. /\ probe' = [probe EXCEPT ![q] = Idle]
          /\ state' = [connections |-> new,
                       ready |-> AllConnected(new),
                       mounted |-> new.queue,
                       shutdown |-> ShutsDown(AllConnected(new))]
          /\ exitCode' = ExitCode(AllConnected(new))
          /\ UNCHANGED <<env, init, attached, clients, busy, pool, closing,
                         exited, early, troubles>>
      BY <1>4 DEF ProbeSettles
    <2>. HIDE DEF new
    <2>. QED
      BY <2>1, <2>2, <2>3 DEF TypeOK
  <1>. QED
    BY <1>1, <1>2, <1>3, <1>4 DEF checkConnections

\* The process, the worker's flags and the environment keep their types
\* whatever probes overlap and whatever fails.
THEOREM LifecycleTypeCorrect == Spec => []TypeOK
  <1>1. Init => TypeOK
    <2>. SUFFICES ASSUME Init PROVE TypeOK
      OBVIOUS
    <2>1. /\ attached \in BOOLEAN /\ clients \in BOOLEAN /\ busy \in BOOLEAN
          /\ exited \in BOOLEAN /\ early \in BOOLEAN
      BY DEF Init
    <2>2. /\ env \in [db: {"writable", "empty", "readOnly", "down"},
                       redis: BOOLEAN, smtp: {"unchecked", "up", "down"}]
          /\ init \in [data: {"connect", "connected", "unconnected",
                              "ok", "bad", "rejected"},
                        queue: {"pending", "ok", "bad"},
                        email: {"pending", "ok", "rejected"},
                        settled: BOOLEAN]
      BY DEF Init
    <2>3. state \in [connections: Connections, mounted: BOOLEAN,
                     ready: BOOLEAN, shutdown: BOOLEAN]
      <3>1. ConnectionsAtStart \in Connections
        BY DEF ConnectionsAtStart, Connections
      <3>. QED
        BY <3>1 DEF Init
    <2>4. troubles \in [{"change", "kill", "error"} -> 0..MaxTroubles]
      BY LifecycleAssumption DEF Init
    <2>. QED
      BY <2>1, <2>2, <2>3, <2>4 DEF Init, TypeOK
  <1>2. TypeOK /\ [Next]_vars => TypeOK'
    <2>. SUFFICES ASSUME TypeOK, [Next]_vars PROVE TypeOK'
      OBVIOUS
    <2>1. CASE StartUp
      BY <2>1, StartUpTyped
    <2>2. CASE ClientsCreated
      BY <2>2 DEF ClientsCreated, TypeOK
    <2>3. CASE \E q \in Probes : checkConnections(q)
      BY <2>3, ProbeTyped
    <2>4. CASE JobStarts
      BY <2>4 DEF JobStarts, TypeOK
    <2>5. CASE JobEnds
      <3>1. busy' \in BOOLEAN
        BY <2>5 DEF JobEnds
      <3>. QED
        BY <2>5, <3>1 DEF JobEnds, TypeOK
    <2>6. CASE resetConnection
      BY <2>6, TroubleBounded DEF resetConnection, TypeOK
    <2>7. CASE PoolReopens
      BY <2>7 DEF PoolReopens, TypeOK
    <2>8. CASE shutdown
      <3>1. troubles' \in [{"change", "kill", "error"} -> 0..MaxTroubles]
        BY <2>8, TroubleBounded DEF shutdown
      <3>2. exitCode' \in {0, 1}
        BY <2>8 DEF shutdown, TypeOK
      <3>3. state' \in [connections: Connections, mounted: BOOLEAN,
                        ready: BOOLEAN, shutdown: BOOLEAN]
        BY <2>8 DEF shutdown, TypeOK
      <3>4. UNCHANGED <<env, init, attached, clients, busy, probe, pool, closing,
                        exited, early>>
        BY <2>8 DEF shutdown
      <3>. QED
        BY <3>1, <3>2, <3>3, <3>4 DEF TypeOK
    <2>9. CASE cleanup
      BY <2>9 DEF cleanup, TypeOK
    <2>10. CASE CloseQueue
      BY <2>10 DEF CloseQueue, CloseEmail, TypeOK
    <2>11. CASE CloseData
      BY <2>11 DEF CloseData, TypeOK
    <2>12. CASE HardExit
      BY <2>12 DEF HardExit, TypeOK
    <2>13. CASE EnvironmentChanges
      <3>1. troubles' \in [{"change", "kill", "error"} -> 0..MaxTroubles]
        BY <2>13, TroubleBounded DEF EnvironmentChanges
      <3>2. env' \in [db: {"writable", "empty", "readOnly", "down"},
                      redis: BOOLEAN, smtp: {"unchecked", "up", "down"}]
        <4>1. CASE \E d \in {"writable", "empty", "readOnly", "down"} \ {env.db} :
                      env' = [env EXCEPT !.db = d]
          BY <4>1 DEF TypeOK
        <4>2. CASE env' = [env EXCEPT !.redis = ~env.redis]
          BY <4>2 DEF TypeOK
        <4>3. CASE env' = [env EXCEPT !.smtp = IF env.smtp = "up" THEN "down"
                                               ELSE "up"]
          BY <4>3 DEF TypeOK
        <4>. QED
          BY <2>13, <4>1, <4>2, <4>3 DEF EnvironmentChanges
      <3>. QED
        BY <2>13, <3>1, <3>2 DEF EnvironmentChanges, TypeOK
    <2>14. CASE UNCHANGED vars
      BY <2>14 DEF vars, TypeOK
    <2>. QED
      BY <2>1, <2>2, <2>3, <2>4, <2>5, <2>6, <2>7, <2>8, <2>9, <2>10,
         <2>11, <2>12, <2>13, <2>14 DEF Next
  <1>. QED
    BY <1>1, <1>2, PTL DEF Spec

-----------------------------------------------------------------------------

\* Why a clean exit takes the pool from no job: cleanup follows a shutdown,
\* which is for good and lets no job begin, and the queue was closed without
\* one.
CleanupInv ==
    /\ closing # "no" => state.shutdown
    /\ closing = "data" => ~busy
    /\ pool = "closed" => closing = "data"

\* The database pool is never taken from under a job by a clean exit.
THEOREM PoolSafe == Spec => []PoolOutlivesJobs
  <1>1. Init => CleanupInv
    BY DEF Init, CleanupInv
  <1>2. TypeOK /\ CleanupInv /\ [Next]_vars => CleanupInv'
    <2>. SUFFICES ASSUME TypeOK, CleanupInv, [Next]_vars PROVE CleanupInv'
      OBVIOUS
    <2>1. CASE StartUp
      <3>1. state.shutdown => state'.shutdown
        BY <2>1 DEF StartUp, CheckData, CheckQueue, CheckEmail, InitSettles,
                    ShutsDown, TypeOK
      <3>2. UNCHANGED <<closing, busy, pool>>
        BY <2>1 DEF StartUp, CheckData, CheckQueue, CheckEmail, InitSettles
      <3>. QED
        BY <3>1, <3>2 DEF CleanupInv
    <2>2. CASE \E q \in Probes : checkConnections(q)
      <3>. PICK q \in Probes : checkConnections(q)
        BY <2>2
      <3>1. state.shutdown => state'.shutdown
        <4>1. CASE ProbeSettles(q)
          BY <4>1 DEF ProbeSettles, ShutsDown
        <4>2. CASE ProbeStarts(q) \/ ProbeData(q) \/ ProbeQueue(q)
          BY <4>2 DEF ProbeStarts, ProbeData, ProbeQueue
        <4>. QED
          BY <4>1, <4>2 DEF checkConnections
      <3>2. UNCHANGED <<closing, busy, pool>>
        BY DEF checkConnections, ProbeStarts, ProbeData, ProbeQueue, ProbeSettles
      <3>. QED
        BY <3>1, <3>2 DEF CleanupInv
    <2>3. CASE ClientsCreated \/ JobStarts \/ JobEnds
      BY <2>3 DEF ClientsCreated, JobStarts, JobEnds, CleanupInv
    <2>4. CASE resetConnection \/ PoolReopens
      BY <2>4 DEF resetConnection, PoolReopens, CleanupInv
    <2>5. CASE shutdown \/ EnvironmentChanges
      BY <2>5 DEF shutdown, EnvironmentChanges, TypeOK, CleanupInv
    <2>6. CASE cleanup \/ CloseQueue \/ CloseData \/ HardExit
      BY <2>6 DEF cleanup, CloseQueue, JobsFinished, CloseEmail, CloseData,
                  HardExit, CleanupInv
    <2>7. CASE UNCHANGED vars
      BY <2>7 DEF vars, CleanupInv
    <2>. QED
      BY <2>1, <2>2, <2>3, <2>4, <2>5, <2>6, <2>7 DEF Next
  <1>3. CleanupInv => PoolOutlivesJobs
    BY DEF CleanupInv, PoolOutlivesJobs
  <1>. QED
    BY <1>1, <1>2, <1>3, LifecycleTypeCorrect, PTL DEF Spec

-----------------------------------------------------------------------------

\* Whoever probed before Bull's clients existed is bound to report the queue as
\* missing, and shuts the replica down.
EarlyProbe == \E q \in Probes : probe[q] # Idle /\ ~probe[q].created

\* Why no replica serves without its worker: a replica is mounted by a probe
\* that found the queue, so Bull's clients existed when that probe began; they
\* exist because the worker was attached, or because an early probe named them,
\* which is still running or has shut the replica down.
AttachInv ==
    /\ \A q \in Probes : probe[q] # Idle =>
          clients /\ (probe[q].queue = "ok" => probe[q].created)
    /\ state.mounted => clients
    /\ clients /\ ~attached => exited \/ state.shutdown \/ EarlyProbe

\* A step that leaves alone what AttachInv is about, but for a shutdown, keeps it.
LEMMA AttachKept ==
    ASSUME AttachInv, UNCHANGED <<probe, clients, attached, exited>>,
           state'.mounted = state.mounted, state.shutdown => state'.shutdown
    PROVE  AttachInv'
  BY DEF AttachInv, EarlyProbe

\* A step of a probe keeps AttachInv.
LEMMA ProbeKeepsAttach ==
    ASSUME TypeOK, AttachInv, NEW q \in Probes, checkConnections(q)
    PROVE  AttachInv'
  <1>1. CASE ProbeStarts(q)
    <2>1. /\ probe' = [probe EXCEPT ![q] =
                         [at |-> "checking", created |-> clients,
                          data |-> "pending", queue |-> "pending"]]
          /\ clients' = TRUE
          /\ UNCHANGED <<state, attached, exited>>
      BY <1>1 DEF ProbeStarts, ClientsKnown
    <2>2. /\ probe'[q] # Idle /\ probe'[q].created = clients
          /\ probe'[q].queue = "pending"
          /\ \A r \in Probes : r # q => probe'[r] = probe[r]
      BY <2>1 DEF TypeOK, Idle
    <2>3. EarlyProbe /\ clients => EarlyProbe'
      <3>. SUFFICES ASSUME EarlyProbe, clients PROVE EarlyProbe'
        OBVIOUS
      <3>1. PICK r \in Probes : probe[r] # Idle /\ ~probe[r].created
        BY DEF EarlyProbe
      <3>2. r # q
        BY <1>1, <3>1 DEF ProbeStarts
      <3>. QED
        BY <2>2, <3>1, <3>2 DEF EarlyProbe
    <2>4. ~clients => EarlyProbe'
      BY <2>2 DEF EarlyProbe
    <2>. QED
      BY <2>1, <2>2, <2>3, <2>4 DEF AttachInv
  <1>2. CASE ProbeData(q)
    <2>1. PICK verdict \in {"ok", "bad"} : probe' = [probe EXCEPT ![q].data = verdict]
      BY <1>2 DEF ProbeData, Verdict
    <2>2. probe[q] \in Probe
      BY <1>2 DEF ProbeData, TypeOK
    <2>3. /\ probe'[q] # Idle
          /\ probe'[q].created = probe[q].created /\ probe'[q].queue = probe[q].queue
          /\ \A r \in Probes : r # q => probe'[r] = probe[r]
      BY <2>1, <2>2 DEF TypeOK, Idle, Probe
    <2>4. probe[q] # Idle /\ UNCHANGED <<state, clients, attached, exited>>
      BY <1>2 DEF ProbeData
    <2>. QED
      BY <2>3, <2>4 DEF AttachInv, EarlyProbe
  <1>3. CASE ProbeQueue(q)
    <2>1. probe' = [probe EXCEPT ![q].queue = Verdict(probe[q].created /\ env.redis)]
      BY <1>3 DEF ProbeQueue
    <2>2. probe[q] \in Probe
      BY <1>3 DEF ProbeQueue, TypeOK
    <2>3. /\ probe'[q] # Idle
          /\ probe'[q].created = probe[q].created
          /\ probe'[q].queue = "ok" => probe[q].created
          /\ \A r \in Probes : r # q => probe'[r] = probe[r]
      BY <2>1, <2>2 DEF TypeOK, Idle, Probe, Verdict
    <2>4. probe[q] # Idle /\ UNCHANGED <<state, clients, attached, exited>>
      BY <1>3 DEF ProbeQueue
    <2>. QED
      BY <2>3, <2>4 DEF AttachInv, EarlyProbe
  <1>4. CASE ProbeSettles(q)
    <2>. DEFINE new == [state.connections EXCEPT
                          !.data = probe[q].data = "ok",
                          !.queue = probe[q].queue = "ok"]
    <2>1. /\ new.queue = (probe[q].queue = "ok")
          /\ AllConnected(new) => new.queue
      BY DEF TypeOK, Connections, AllConnected
    <2>2. /\ probe' = [probe EXCEPT ![q] = Idle]
          /\ state' = [connections |-> new,
                       ready |-> AllConnected(new),
                       mounted |-> new.queue,
                       shutdown |-> ShutsDown(AllConnected(new))]
          /\ probe[q] # Idle
          /\ UNCHANGED <<clients, attached, exited>>
      BY <1>4 DEF ProbeSettles
    <2>. HIDE DEF new
    <2>3. \A r \in Probes : probe'[r] = IF r = q THEN Idle ELSE probe[r]
      BY <2>2 DEF TypeOK
    <2>4. clients
      BY <2>2 DEF AttachInv
    <2>5. EarlyProbe => EarlyProbe' \/ state'.shutdown
      <3>. SUFFICES ASSUME EarlyProbe PROVE EarlyProbe' \/ state'.shutdown
        OBVIOUS
      <3>1. PICK r \in Probes : probe[r] # Idle /\ ~probe[r].created
        BY DEF EarlyProbe
      <3>2. CASE r = q
        <4>1. probe[q].queue # "ok"
          BY <2>2, <3>1, <3>2 DEF AttachInv
        <4>2. ~AllConnected(new)
          BY <2>1, <4>1
        <4>. QED
          BY <2>2, <4>2 DEF ShutsDown
      <3>3. CASE r # q
        BY <2>3, <3>1, <3>3 DEF EarlyProbe
      <3>. QED
        BY <3>2, <3>3
    <2>6. state.shutdown => state'.shutdown
      BY <2>2 DEF ShutsDown
    <2>. QED
      BY <2>2, <2>3, <2>4, <2>5, <2>6 DEF AttachInv
  <1>. QED
    BY <1>1, <1>2, <1>3, <1>4 DEF checkConnections

\* No replica lets requests through without its worker, but one that is about
\* to shut down.
THEOREM ServingCorrect == Spec => []ServingMeansAttached
  <1>1. Init => AttachInv
    BY DEF Init, AttachInv
  <1>2. TypeOK /\ AttachInv /\ [Next]_vars => AttachInv'
    <2>. SUFFICES ASSUME TypeOK, AttachInv, [Next]_vars PROVE AttachInv'
      OBVIOUS
    <2>1. CASE CheckData \/ CheckQueue \/ CheckEmail
      BY <2>1, AttachKept DEF CheckData, CheckQueue, CheckEmail
    <2>2. CASE InitSettles
      <3>. DEFINE new == IF Rejected THEN state.connections
                         ELSE [data |-> init.data = "ok",
                               queue |-> init.queue = "ok", email |-> EmailResult]
      <3>1. /\ state' = [state EXCEPT !.connections = new,
                                      !.ready = AllConnected(new),
                                      !.shutdown = ShutsDown(new.queue)]
            /\ attached' = new.queue
            /\ UNCHANGED <<clients, probe, exited>>
        BY <2>2 DEF InitSettles
      <3>. HIDE DEF new
      <3>2. /\ state'.mounted = state.mounted
            /\ state'.shutdown = (state.shutdown \/ ~attached')
        BY <3>1 DEF TypeOK, ShutsDown
      <3>. QED
        BY <3>1, <3>2 DEF AttachInv
    <2>3. CASE ClientsCreated
      BY <2>3 DEF ClientsCreated, AttachInv
    <2>4. CASE \E q \in Probes : checkConnections(q)
      BY <2>4, ProbeKeepsAttach
    <2>5. CASE JobStarts \/ JobEnds \/ resetConnection \/ PoolReopens
      BY <2>5, AttachKept DEF JobStarts, JobEnds, resetConnection, PoolReopens
    <2>6. CASE shutdown
      BY <2>6, AttachKept DEF shutdown, TypeOK
    <2>7. CASE cleanup \/ CloseQueue \/ EnvironmentChanges
      BY <2>7, AttachKept DEF cleanup, CloseQueue, CloseEmail, EnvironmentChanges
    <2>8. CASE CloseData \/ HardExit
      <3>1. /\ exited' = TRUE
            /\ \A q \in Probes : probe'[q] = Idle
            /\ UNCHANGED <<state, clients, attached>>
        BY <2>8 DEF CloseData, HardExit
      <3>. QED
        BY <3>1 DEF AttachInv
    <2>9. CASE UNCHANGED vars
      BY <2>9, AttachKept DEF vars
    <2>. QED
      BY <2>1, <2>2, <2>3, <2>4, <2>5, <2>6, <2>7, <2>8, <2>9 DEF Next, StartUp
  <1>3. AttachInv => ServingMeansAttached
    BY DEF AttachInv, EarlyProbe, Serving, ServingMeansAttached
  <1>. QED
    BY <1>1, <1>2, <1>3, LifecycleTypeCorrect, PTL DEF Spec

-----------------------------------------------------------------------------

\* Why the exit code tells: only cleanup ends the process, cleanup follows a
\* shutdown, and whatever shuts the replica down sets the exit code or is a
\* signal.
ExitInv ==
    /\ exited => closing # "no"
    /\ closing # "no" => state.shutdown
    /\ state.shutdown => exitCode = 1 \/ troubles.kill > 0

\* A replica that ends itself, at start-up or by a probe, never ends with
\* exit code 0.
THEOREM ExitCodeCorrect == Spec => []ExitCodeTells
  <1>1. Init => ExitInv
    BY DEF Init, ExitInv
  <1>2. TypeOK /\ ExitInv /\ [Next]_vars => ExitInv'
    <2>. SUFFICES ASSUME TypeOK, ExitInv, [Next]_vars PROVE ExitInv'
      OBVIOUS
    <2>1. CASE CheckData \/ CheckQueue \/ CheckEmail \/ ClientsCreated
      BY <2>1 DEF CheckData, CheckQueue, CheckEmail, ClientsCreated, ExitInv
    <2>2. CASE InitSettles
      <3>. DEFINE new == IF Rejected THEN state.connections
                         ELSE [data |-> init.data = "ok",
                               queue |-> init.queue = "ok", email |-> EmailResult]
      <3>1. /\ state' = [state EXCEPT !.connections = new,
                                      !.ready = AllConnected(new),
                                      !.shutdown = ShutsDown(new.queue)]
            /\ exitCode' = ExitCode(new.queue)
            /\ UNCHANGED <<closing, exited, troubles>>
        BY <2>2 DEF InitSettles
      <3>. HIDE DEF new
      <3>2. state'.shutdown = (state.shutdown \/ ~new.queue)
        BY <3>1 DEF TypeOK, ShutsDown
      <3>. QED
        BY <3>1, <3>2 DEF ExitInv, ExitCode
    <2>3. CASE \E q \in Probes : checkConnections(q)
      <3>. PICK q \in Probes : checkConnections(q)
        BY <2>3
      <3>1. CASE ProbeStarts(q) \/ ProbeData(q) \/ ProbeQueue(q)
        BY <3>1 DEF ProbeStarts, ProbeData, ProbeQueue, ExitInv
      <3>2. CASE ProbeSettles(q)
        <4>1. PICK good : /\ state'.shutdown = ShutsDown(good)
                          /\ exitCode' = ExitCode(good)
          BY <3>2 DEF ProbeSettles
        <4>. QED
          BY <3>2, <4>1 DEF ProbeSettles, ShutsDown, ExitCode, ExitInv
      <3>. QED
        BY <3>1, <3>2 DEF checkConnections
    <2>4. CASE JobStarts \/ JobEnds \/ PoolReopens
      BY <2>4 DEF JobStarts, JobEnds, PoolReopens, ExitInv
    <2>5. CASE resetConnection \/ EnvironmentChanges
      BY <2>5 DEF resetConnection, EnvironmentChanges, Trouble, TypeOK, ExitInv
    <2>6. CASE shutdown
      <3>1. troubles'.kill > 0
        BY <2>6, LifecycleAssumption DEF shutdown, Trouble, TypeOK
      <3>2. state'.shutdown /\ UNCHANGED <<closing, exited>>
        BY <2>6 DEF shutdown, TypeOK
      <3>. QED
        BY <3>1, <3>2 DEF ExitInv
    <2>7. CASE cleanup \/ CloseQueue \/ CloseData \/ HardExit
      BY <2>7 DEF cleanup, CloseQueue, CloseEmail, CloseData, HardExit, ExitInv
    <2>8. CASE UNCHANGED vars
      BY <2>8 DEF vars, ExitInv
    <2>. QED
      BY <2>1, <2>2, <2>3, <2>4, <2>5, <2>6, <2>7, <2>8 DEF Next, StartUp
  <1>3. ExitInv => ExitCodeTells
    BY DEF ExitInv, ExitCodeTells
  <1>. QED
    BY <1>1, <1>2, <1>3, LifecycleTypeCorrect, PTL DEF Spec

-----------------------------------------------------------------------------
(* What MailDispatch takes for granted of a replica's process. *)

\* Neither the process's mode nor its worker shows the step.
LEMMA UnseenStep ==
    ASSUME exited' = exited, state'.shutdown = state.shutdown, busy' = busy
    PROVE  UNCHANGED Replica!vars
  BY DEF Replica!vars

\* A verdict may shut down a process that lives, and takes no shutdown back.
LEMMA VerdictStep ==
    ASSUME TypeOK, ~exited, exited' = exited, busy' = busy,
           state.shutdown => state'.shutdown, state'.shutdown \in BOOLEAN
    PROVE  [Replica!Next]_(Replica!vars)
  <1>1. CASE state'.shutdown = state.shutdown
    BY <1>1, UnseenStep
  <1>2. CASE state'.shutdown # state.shutdown
    <2>1. ~state.shutdown /\ state'.shutdown
      BY <1>2 DEF TypeOK
    <2>2. Replica!ShutsDown("this")
      BY <2>1 DEF Replica!ShutsDown
    <2>. QED
      BY <2>2 DEF Replica!Next
  <1>. QED
    BY <1>1, <1>2

\* A process that exits takes a job it is on along.
LEMMA ExitStep ==
    ASSUME ~exited, exited'
    PROVE  [Replica!Next]_(Replica!vars)
  <1>1. Replica!Dies("this")
    BY DEF Replica!Dies
  <1>. QED
    BY <1>1 DEF Replica!Next

\* The worker takes and ends its jobs as a replica may.
LEMMA JobStep ==
    ASSUME TypeOK, JobStarts \/ JobEnds
    PROVE  [Replica!Next]_(Replica!vars)
  <1>1. ~exited /\ UNCHANGED <<exited, state>>
    BY DEF JobStarts, JobEnds
  <1>2. CASE JobStarts
    <2>1. Replica!TakesJob("this")
      BY <1>1, <1>2 DEF JobStarts, Replica!TakesJob
    <2>. QED
      BY <2>1 DEF Replica!Next
  <1>3. CASE JobEnds
    <2>1. Replica!EndsJob("this")
      BY <1>1, <1>3 DEF JobEnds, Replica!EndsJob
    <2>. QED
      BY <2>1 DEF Replica!Next
  <1>. QED
    BY <1>2, <1>3

\* The process implements a replica as MailDispatch has it: whatever start-up,
\* probes, signals and cleanup do in whatever order, a shutdown is final, and
\* from it on the worker takes no job.
THEOREM LifecycleImplements == Spec => ImplementsReplica
  <1>1. Init => Replica!Init
    BY DEF Init, Replica!Init
  <1>2. TypeOK /\ TypeOK' /\ [Next]_vars => [Replica!Next]_(Replica!vars)
    <2>. SUFFICES ASSUME TypeOK, TypeOK', [Next]_vars PROVE [Replica!Next]_(Replica!vars)
      OBVIOUS
    <2>1. CASE CheckData \/ CheckQueue \/ CheckEmail \/ ClientsCreated
      BY <2>1, UnseenStep DEF CheckData, CheckQueue, CheckEmail, ClientsCreated
    <2>2. CASE InitSettles
      <3>1. ~exited /\ UNCHANGED <<exited, busy>>
        BY <2>2 DEF InitSettles
      <3>2. state.shutdown => state'.shutdown
        BY <2>2 DEF InitSettles, ShutsDown, TypeOK
      <3>. QED
        BY <3>1, <3>2, VerdictStep DEF TypeOK
    <2>3. CASE \E q \in Probes : checkConnections(q)
      <3>. PICK q \in Probes : checkConnections(q)
        BY <2>3
      <3>1. CASE ProbeStarts(q) \/ ProbeData(q) \/ ProbeQueue(q)
        BY <3>1, UnseenStep DEF ProbeStarts, ProbeData, ProbeQueue
      <3>2. CASE ProbeSettles(q)
        <4>1. ~exited /\ UNCHANGED <<exited, busy>>
          BY <3>2 DEF ProbeSettles
        <4>2. state.shutdown => state'.shutdown
          BY <3>2 DEF ProbeSettles, ShutsDown
        <4>. QED
          BY <4>1, <4>2, VerdictStep DEF TypeOK
      <3>. QED
        BY <3>1, <3>2 DEF checkConnections
    <2>4. CASE JobStarts \/ JobEnds
      BY <2>4, JobStep
    <2>5. CASE \/ resetConnection \/ PoolReopens \/ cleanup \/ CloseQueue
              \/ EnvironmentChanges \/ UNCHANGED vars
      BY <2>5, UnseenStep DEF resetConnection, PoolReopens, cleanup, CloseQueue,
                              CloseEmail, EnvironmentChanges, vars
    <2>6. CASE shutdown
      <3>1. ~exited /\ state'.shutdown /\ UNCHANGED <<exited, busy>>
        BY <2>6 DEF shutdown, TypeOK
      <3>. QED
        BY <3>1, VerdictStep
    <2>7. CASE CloseData \/ HardExit
      BY <2>7, ExitStep DEF CloseData, HardExit
    <2>. QED
      BY <2>1, <2>2, <2>3, <2>4, <2>5, <2>6, <2>7 DEF Next, StartUp
  <1>. QED
    BY <1>1, <1>2, LifecycleTypeCorrect, PTL DEF Spec, ImplementsReplica, Replica!Spec

=============================================================================
