---------------------------- MODULE MailDispatch ----------------------------
(***************************************************************************)
(* How an accepted message reaches the mail server, or does not: the API   *)
(* operations of ChesService, QueueService over the Bull queue and         *)
(* DataService over Postgres, and the QueueListener that works the queue,  *)
(* in every replica of the service at once (src/app/src/services).         *)
(*                                                                         *)
(* The code is asynchronous: between two awaits any other request, worker  *)
(* or replica may run.  So every operation in progress is a `call', and    *)
(* one action of this module is what a call does between two awaits: one   *)
(* Redis command, one SMTP exchange, or one read or commit in Postgres.    *)
(*                                                                         *)
(*   sendEmail, sendEmailMerge     add - enqueued                          *)
(*   cancelMessage, findCancel..   getJob - getState - remove              *)
(*                                   onRemoved: removed - purge            *)
(*   promoteMessage, findPromote.. getJob - getState - promote - promoted  *)
(*                                   no job: recover - recovered - add ..  *)
(*   onProcess                     processing - load - send - result       *)
(*                                   - delivered - finish                  *)
(*                                   onCompleted: completed - purge        *)
(*                                   an error: fail, onFailed: failed      *)
(*                                                                         *)
(* A call whose step emits a queue event goes on as that event's listener. *)
(***************************************************************************)
EXTENDS MessageStore, BullQueue, FiniteSets, Functions

CONSTANTS
    Messages,     \* the messages that may be sent
    Clients,      \* the authorized parties
    Owner,        \* Owner[m] is the client whose transaction holds m
    Calls,        \* slots for operations in progress: a bound on concurrency
    MaxRequests,  \* bound on the cancel and promote requests
    MaxFaults,    \* bound on failing database, Redis and SMTP operations
    MaxLapses,    \* bound on locks and jobs that Redis forgets
    MaxCrashes    \* bound on the crashes and kill signals

ASSUME DispatchAssumption ==
    /\ Owner \in [Messages -> Clients]
    /\ MaxRequests \in Nat
    /\ MaxFaults \in Nat
    /\ MaxLapses \in Nat
    /\ MaxCrashes \in Nat

VARIABLES
    stored,   \* the messages that are in the database
    row,      \* their rows
    job,      \* their jobs
    call,     \* the operations in progress
    mode,     \* is a replica running, shutting down, or down
    inbox,    \* how often the mail server accepted a message
    asked,    \* history: what the owner of a message requested for it
    cut,      \* history: did a dying process cut off a worker, or another
              \* operation, on the message?
    spent     \* how much of each bound is used up

vars == <<stored, row, job, call, mode, inbox, asked, cut, spent>>

-----------------------------------------------------------------------------

\* The steps that are a DataService.updateStatus, and the state they record.
StateRecordedAt ==
    [enqueued |-> "enqueued", processing |-> "processing",
     delivered |-> "delivered", completed |-> "completed",
     failed |-> "failed", removed |-> "removed",
     promoted |-> "promoted", recovered |-> "promoted"]

UpdateSteps == {"enqueued", "processing", "delivered", "completed",
                "failed", "removed", "promoted", "recovered"}

\* The steps that Bull runs under a job's lock.
WorkSteps ==
    {"processing", "load", "send", "result", "delivered", "finish", "fail"}

Steps == UpdateSteps \cup WorkSteps \cup
    {"add", "getJob", "getState", "remove", "promote", "recover", "purge"}

\* `content' is the email a bulk promotion read with its query; `drops' is
\* what updateContent will decide from the job object the call holds.
Call == [at: Steps,
         kind: {"send", "cancel", "bulkCancel", "promote", "bulkPromote", "work"},
         m: Messages,
         by: Clients,
         proc: Procs,
         seen: Snapshot \cup {NoSnapshot},
         content: BOOLEAN,
         drops: BOOLEAN]

Idle == [at |-> "idle"]

IdleCalls == {c \in Calls : call[c] = Idle}

Bound == [request |-> MaxRequests, fault |-> MaxFaults,
          lapse |-> MaxLapses, crash |-> MaxCrashes]

Spend(what) == /\ spent[what] < Bound[what]
               /\ spent' = [spent EXCEPT ![what] = @ + 1]

TypeOK ==
    /\ stored \subseteq Messages
    /\ row \in [Messages -> Row]
    /\ job \in [Messages -> Job]
    /\ call \in [Calls -> Call \cup {Idle}]
    /\ mode \in [Procs -> {"running", "shutdown", "down"}]
    /\ inbox \in [Messages -> Nat]
    /\ asked \in [Messages -> SUBSET {"cancel", "promote"}]
    /\ cut \in [Messages -> SUBSET {"worker", "other"}]
    /\ spent \in [{"request", "fault", "lapse", "crash"} -> Nat]

\* row[m] says nothing until m is stored.
Init ==
    /\ stored = {}
    /\ row = [m \in Messages |-> NewMessage]
    /\ job = [m \in Messages |-> NoJob]
    /\ call = [c \in Calls |-> Idle]
    /\ mode = [p \in Procs |-> "running"]
    /\ inbox = [m \in Messages |-> 0]
    /\ asked = [m \in Messages |-> {}]
    /\ cut = [m \in Messages |-> {}]
    /\ spent = [what \in {"request", "fault", "lapse", "crash"} |-> 0]

-----------------------------------------------------------------------------
(* How a call begins, goes on and ends. *)

\* An idle slot for each message of S.
Start(kind, step, client, p, S) ==
    \E D \in SUBSET IdleCalls : \E carried \in Bijection(D, S) :
        call' = [c \in Calls |->
                    IF c \in D
                    THEN [at |-> step, kind |-> kind, m |-> carried[c],
                          by |-> client, proc |-> p, seen |-> NoSnapshot,
                          content |-> kind = "bulkPromote" /\ row[carried[c]].email,
                          drops |-> FALSE]
                    ELSE call[c]]

Goto(c, step) ==
    call' = [call EXCEPT ![c] =
                IF step = "idle" THEN Idle
                ELSE [@ EXCEPT !.at = step, !.seen = NoSnapshot]]

At(c, step) == call[c] # Idle /\ call[c].at = step

\* Nobody awaits the promises of enqueue in sendEmail and of removeJob in
\* findCancelMessages, nor those of the listeners.
Unhandled(k) ==
    \/ k.kind = "send"
    \/ k.kind = "bulkCancel" /\ k.at \in {"getJob", "getState", "remove"}
    \/ k.at \in {"completed", "removed"}

\* Mutated: sendMessage logs the error and does not throw it again.
RejectsSwallowed(c) ==
    LET k == call[c] IN
    IF k.at \in {"load", "send", "result"}
    THEN Goto(c, "delivered") /\ UNCHANGED mode
    ELSE IF k.at \in WorkSteps
    THEN Goto(c, "fail") /\ UNCHANGED mode
    ELSE /\ Goto(c, "idle")
         /\ mode' = IF Unhandled(k) THEN [mode EXCEPT ![k.proc] = "shutdown"]
                    ELSE mode

\* A step of call c rejects.  Bull fails the job a worker was on; onFailed
\* and updateContent catch; a route turns the error into a response; what is
\* left is an unhandled rejection, on which app.js shuts the process down.
Rejects(c) ==
    LET k == call[c] IN
    IF k.at \in WorkSteps
    THEN Goto(c, "fail") /\ UNCHANGED mode
    ELSE /\ Goto(c, "idle")
         /\ mode' = IF Unhandled(k) THEN [mode EXCEPT ![k.proc] = "shutdown"]
                    ELSE mode

-----------------------------------------------------------------------------
(* The API: app.js answers 503 unless the process is running. *)

\* Mutated: sendEmailMerge enqueues the first of its messages only.
sendEmailFirst(p, client, S) ==
    /\ mode[p] = "running"
    /\ S # {}
    /\ S \cap stored = {}
    /\ \A m \in S : Owner[m] = client
    /\ stored' = stored \cup S
    /\ Start("send", "add", client, p, {CHOOSE m \in S : TRUE})
    /\ UNCHANGED <<row, job, mode, inbox, asked, cut, spent>>

\* sendEmail stores one message, sendEmailMerge one per context, in one
\* transaction; each is then enqueued without waiting.
sendEmail(p, client, S) ==
    /\ mode[p] = "running"
    /\ S # {}
    /\ S \cap stored = {}
    /\ \A m \in S : Owner[m] = client
    /\ stored' = stored \cup S
    /\ Start("send", "add", client, p, S)
    /\ UNCHANGED <<row, job, mode, inbox, asked, cut, spent>>

\* createTransaction commits, but readTransaction after it fails: the
\* client gets an error and nothing is enqueued.
sendEmailUnread(p, client, S) ==
    /\ mode[p] = "running"
    /\ S # {}
    /\ S \cap stored = {}
    /\ \A m \in S : Owner[m] = client
    /\ Spend("fault")
    /\ stored' = stored \cup S
    /\ UNCHANGED <<row, job, call, mode, inbox, asked, cut>>

\* The requests name one message (of any client) or, by a query, any of the
\* client's own.
Request(kind, op, p, client, S) ==
    /\ mode[p] = "running"
    /\ S # {}
    /\ S \subseteq stored
    /\ Spend("request")
    /\ Start(kind, "getJob", client, p, S)
    /\ asked' = [m \in Messages |->
                    IF m \in S /\ Owner[m] = client
                    THEN asked[m] \cup {op} ELSE asked[m]]
    /\ UNCHANGED <<stored, row, job, mode, inbox, cut>>

cancelMessage(p, client, m) == Request("cancel", "cancel", p, client, {m})

promoteMessage(p, client, m) == Request("promote", "promote", p, client, {m})

findCancelMessages(p, client, S) ==
    /\ \A m \in S : Owner[m] = client
    /\ Request("bulkCancel", "cancel", p, client, S)

findPromoteMessages(p, client, S) ==
    /\ \A m \in S : Owner[m] = client
    /\ Request("bulkPromote", "promote", p, client, S)

-----------------------------------------------------------------------------
(* QueueService. *)

\* Mutated: an add that takes long is tried again.
AddRetried(c) ==
    /\ At(c, "add")
    /\ \E delayed \in BOOLEAN :
         /\ delayed => call[c].kind = "send"
         /\ job' = [job EXCEPT ![call[c].m] = added(@, delayed)]
    /\ Goto(c, "add") \/ Goto(c, "enqueued")
    /\ UNCHANGED <<stored, row, mode, inbox, asked, cut, spent>>

\* enqueue: only sendEmail passes a delay, and only when the email has one.
Add(c) ==
    /\ At(c, "add")
    /\ \E delayed \in BOOLEAN :
         /\ delayed => call[c].kind = "send"
         /\ job' = [job EXCEPT ![call[c].m] = added(@, delayed)]
    /\ Goto(c, "enqueued")
    /\ UNCHANGED <<stored, row, mode, inbox, asked, cut, spent>>

IsCancel(k) == k.kind \in {"cancel", "bulkCancel"}

\* Mutated: the first half of updateContent's condition is lost.
DropsContentOfFailed(j) == j.failedReason /\ j.attemptsMade >= MaxAttempts

\* updateContent keeps the email of a job that failed and may be retried.
DropsContent(j) == ~j.failedReason \/ j.attemptsMade >= MaxAttempts

\* Mutated: the client is not compared.
MayTouchAny(k) == TRUE

\* The job's data names the client it was enqueued for.
MayTouch(k) == k.by = Owner[k.m]

\* removeJob and promoteJob, queue.getJob.  With no job, cancelling finds
\* nothing to do, promoting turns to the database.
GetJob(c) ==
    LET k == call[c] IN
    /\ At(c, "getJob")
    /\ IF job[k.m].state # "none"
       THEN IF MayTouch(k)
            THEN /\ call' = [call EXCEPT ![c].at = "getState",
                                         ![c].drops = DropsContent(job[k.m])]
                 /\ UNCHANGED mode
            ELSE Rejects(c)
       ELSE /\ \/ k.kind = "promote" /\ MayTouch(k) /\ Goto(c, "recover")
               \/ k.kind = "bulkPromote" /\ k.content /\ Goto(c, "recovered")
               \/ /\ ~(k.kind = "promote" /\ MayTouch(k))
                  /\ ~(k.kind = "bulkPromote" /\ k.content)
                  /\ Goto(c, "idle")
            /\ UNCHANGED mode
    /\ UNCHANGED <<stored, row, job, inbox, asked, cut, spent>>

\* Both demand a job in Bull's delayed set.
GetState(c) ==
    LET k == call[c] IN
    /\ At(c, "getState")
    /\ IF job[k.m].state = "delayed"
       THEN /\ Goto(c, IF IsCancel(k) THEN "remove" ELSE "promote")
            /\ UNCHANGED mode
       ELSE Rejects(c)
    /\ UNCHANGED <<stored, row, job, inbox, asked, cut, spent>>

\* Mutated: nobody listens to 'removed'.
RemoveUnheard(c) ==
    LET m == call[c].m IN
    /\ At(c, "remove")
    /\ \/ /\ Removable(job[m])
          /\ job' = [job EXCEPT ![m] = NoJob]
          /\ Goto(c, "idle")
          /\ UNCHANGED mode
       \/ /\ ~Removable(job[m]) \/ job[m].state = "none"
          /\ Rejects(c)
          /\ UNCHANGED job
    /\ UNCHANGED <<stored, row, inbox, asked, cut, spent>>

\* Mutated: the removal is recorded here, and nobody waits for Bull's answer.
RemoveUnawaited(c) ==
    LET m == call[c].m IN
    /\ At(c, "remove")
    /\ job' = [job EXCEPT ![m] = IF Removable(@) THEN NoJob ELSE @]
    /\ Goto(c, "removed")
    /\ UNCHANGED <<stored, row, mode, inbox, asked, cut, spent>>

\* Bull removes a job nobody has locked, whatever its state is by now; what
\* it reports of a job that is gone is not relied on here.
Remove(c) ==
    LET m == call[c].m IN
    /\ At(c, "remove")
    /\ \/ /\ Removable(job[m])
          /\ job' = [job EXCEPT ![m] = NoJob]
          /\ Goto(c, "removed")
          /\ UNCHANGED mode
       \/ /\ ~Removable(job[m]) \/ job[m].state = "none"
          /\ Rejects(c)
          /\ UNCHANGED job
    /\ UNCHANGED <<stored, row, inbox, asked, cut, spent>>

\* Bull promotes a job that is still delayed.
Promote(c) ==
    LET m == call[c].m IN
    /\ At(c, "promote")
    /\ IF job[m].state = "delayed"
       THEN /\ job' = [job EXCEPT ![m] = promoted(@)]
            /\ Goto(c, "promoted")
            /\ UNCHANGED mode
       ELSE Rejects(c) /\ UNCHANGED job
    /\ UNCHANGED <<stored, row, inbox, asked, cut, spent>>

\* recoverMessage reads the message and gives up without its content.
Recover(c) ==
    /\ At(c, "recover")
    /\ Goto(c, IF row[call[c].m].email THEN "recovered" ELSE "idle")
    /\ UNCHANGED <<stored, row, job, mode, inbox, asked, cut, spent>>

-----------------------------------------------------------------------------
(* DataService.updateStatus, in its two steps, and updateContent. *)

AtUpdate(c) == call[c] # Idle /\ call[c].at \in UpdateSteps

ReadStatus(c) ==
    /\ AtUpdate(c)
    /\ ~call[c].seen.taken
    /\ call' = [call EXCEPT ![c].seen = readMessage(row[call[c].m])]
    /\ UNCHANGED <<stored, row, job, mode, inbox, asked, cut, spent>>

\* Mutated: onFailed drops the content after every failed attempt.
StepAfterPurging(k) ==
    CASE k.at = "processing" -> "load"
      [] k.at = "delivered"  -> "finish"
      [] k.at = "recovered"  -> "add"
      [] k.at = "failed"     -> "purge"
      [] k.at \in {"completed", "removed"} -> IF k.drops THEN "purge" ELSE "idle"
      [] OTHER -> "idle"

\* What follows the update a call was at.
StepAfter(k) ==
    CASE k.at = "processing" -> "load"
      [] k.at = "delivered"  -> "finish"
      [] k.at = "recovered"  -> "add"
      [] k.at \in {"completed", "removed"} -> IF k.drops THEN "purge" ELSE "idle"
      [] OTHER -> "idle"

Recorded(k) == updateStatus(row[k.m], k.seen, StateRecordedAt[k.at])

WriteStatus(c) ==
    LET k == call[c] IN
    /\ AtUpdate(c)
    /\ k.seen.taken
    /\ row' = [row EXCEPT ![k.m] = Recorded(k)]
    /\ Goto(c, StepAfter(k))
    /\ UNCHANGED <<stored, job, mode, inbox, asked, cut, spent>>

Purge(c) ==
    /\ At(c, "purge")
    /\ row' = [row EXCEPT ![call[c].m] = deleteMessageEmail(@)]
    /\ Goto(c, "idle")
    /\ UNCHANGED <<stored, job, mode, inbox, asked, cut, spent>>

-----------------------------------------------------------------------------
(* The worker of a replica: Bull hands it one job at a time. *)

WorkerIdle(p) ==
    ~ \E c \in Calls : call[c] # Idle /\ call[c].at \in WorkSteps /\ call[c].proc = p

\* Mutated: shutdown does not pause the worker.
TakeUnpaused(c, p, m) ==
    /\ mode[p] # "down"
    /\ call[c] = Idle
    /\ WorkerIdle(p)
    /\ job[m].state = "waiting"
    /\ job' = [job EXCEPT ![m] = taken(@, p)]
    /\ call' = [call EXCEPT ![c] =
                  [at |-> "processing", kind |-> "work", m |-> m,
                   by |-> Owner[m], proc |-> p, seen |-> NoSnapshot,
                   content |-> FALSE, drops |-> FALSE]]
    /\ UNCHANGED <<stored, row, mode, inbox, asked, cut, spent>>

Take(c, p, m) ==
    /\ mode[p] = "running"
    /\ call[c] = Idle
    /\ WorkerIdle(p)
    /\ job[m].state = "waiting"
    /\ job' = [job EXCEPT ![m] = taken(@, p)]
    /\ call' = [call EXCEPT ![c] =
                  [at |-> "processing", kind |-> "work", m |-> m,
                   by |-> Owner[m], proc |-> p, seen |-> NoSnapshot,
                   content |-> FALSE, drops |-> FALSE]]
    /\ UNCHANGED <<stored, row, mode, inbox, asked, cut, spent>>

\* sendMessage reads the email; sendMail rejects when there is none.
Load(c) ==
    /\ At(c, "load")
    /\ IF row[call[c].m].email
       THEN Goto(c, "send") /\ UNCHANGED mode
       ELSE Rejects(c)
    /\ UNCHANGED <<stored, row, job, inbox, asked, cut, spent>>

Accept(c) == inbox' = [inbox EXCEPT ![call[c].m] = @ + 1]

\* The mail server accepts or rejects.
Send(c) ==
    /\ At(c, "send")
    /\ \/ Accept(c) /\ Goto(c, "result") /\ UNCHANGED mode
       \/ Rejects(c) /\ UNCHANGED inbox
    /\ UNCHANGED <<stored, row, job, asked, cut, spent>>

\* It accepts, but the answer does not arrive.
SendUnanswered(c) ==
    /\ At(c, "send")
    /\ Spend("fault")
    /\ Accept(c)
    /\ Rejects(c)
    /\ UNCHANGED <<stored, row, job, asked, cut>>

SaveResult(c) ==
    /\ At(c, "result")
    /\ row' = [row EXCEPT ![call[c].m] = updateMessageSendResult(@)]
    /\ Goto(c, "delivered")
    /\ UNCHANGED <<stored, job, mode, inbox, asked, cut, spent>>

\* Bull lets a worker finish or fail only the job it has locked; otherwise
\* it emits 'error', which onError logs.  A job that succeeds still has the
\* failedReason of its earlier attempts.
HoldsLock(k) == job[k.m].lock = k.proc

Finish(c) ==
    LET k == call[c] IN
    /\ At(c, "finish")
    /\ IF HoldsLock(k)
       THEN /\ job' = [job EXCEPT ![k.m] = NoJob]
            /\ call' = [call EXCEPT
                          ![c].at = "completed",
                          ![c].drops = DropsContent(job[k.m])]
       ELSE Goto(c, "idle") /\ UNCHANGED job
    /\ UNCHANGED <<stored, row, mode, inbox, asked, cut, spent>>

\* Mutated: nobody listens to 'failed'.
FailUnheard(c) ==
    LET k == call[c] IN
    /\ At(c, "fail")
    /\ IF HoldsLock(k)
       THEN /\ job' = [job EXCEPT ![k.m] = afterFailure(@)]
            /\ Goto(c, "idle")
       ELSE Goto(c, "idle") /\ UNCHANGED job
    /\ UNCHANGED <<stored, row, mode, inbox, asked, cut, spent>>

Fail(c) ==
    LET k == call[c] IN
    /\ At(c, "fail")
    /\ IF HoldsLock(k)
       THEN /\ job' = [job EXCEPT ![k.m] = afterFailure(@)]
            /\ Goto(c, "failed")
       ELSE Goto(c, "idle") /\ UNCHANGED job
    /\ UNCHANGED <<stored, row, mode, inbox, asked, cut, spent>>

-----------------------------------------------------------------------------
(* What else happens to jobs. *)

\* The delay or the backoff is over, which some replica's timer notices.
DelayExpires(m) ==
    /\ \E p \in Procs : mode[p] # "down"
    /\ job[m].state = "delayed"
    /\ job' = [job EXCEPT ![m] = promoted(@)]
    /\ UNCHANGED <<stored, row, call, mode, inbox, asked, cut, spent>>

\* A replica's stalled-job check, which goes on while it shuts down, requeues
\* the job, or fails it for good and emits 'failed'.
Requeue(p, m) ==
    /\ mode[p] # "down"
    /\ Stalled(job[m])
    /\ job[m].stalls < MaxStalls
    /\ job' = [job EXCEPT ![m] = afterStall(@)]
    /\ UNCHANGED <<stored, row, call, mode, inbox, asked, cut, spent>>

StalledTooOften(c, p, m) ==
    /\ mode[p] # "down"
    /\ call[c] = Idle
    /\ Stalled(job[m])
    /\ job[m].stalls = MaxStalls
    /\ job' = [job EXCEPT ![m] = afterStall(@)]
    /\ call' = [call EXCEPT ![c] =
                  [at |-> "failed", kind |-> "work", m |-> m,
                   by |-> Owner[m], proc |-> p, seen |-> NoSnapshot,
                   content |-> FALSE, drops |-> FALSE]]
    /\ UNCHANGED <<stored, row, mode, inbox, asked, cut, spent>>

\* A lock runs out under a worker too busy to renew it.
LockLapses(m) ==
    /\ job[m].lock # NoProc
    /\ Spend("lapse")
    /\ job' = [job EXCEPT ![m].lock = NoProc]
    /\ UNCHANGED <<stored, row, call, mode, inbox, asked, cut>>

\* Redis loses a job (what recoverMessage is for).
JobLost(m) ==
    /\ job[m] # NoJob
    /\ Spend("lapse")
    /\ job' = [job EXCEPT ![m] = NoJob]
    /\ UNCHANGED <<stored, row, call, mode, inbox, asked, cut>>

-----------------------------------------------------------------------------
(* Failing operations and failing processes. *)

FallibleSteps == UpdateSteps \cup
    {"add", "getJob", "getState", "remove", "promote", "recover", "load",
     "result", "purge"}

\* An operation fails without effect: Redis or Postgres is not there for it, or
\* will not have what it is given, as a failedReason that is too long for the
\* description of a status.
OperationFails(c) ==
    /\ call[c] # Idle
    /\ call[c].at \in FallibleSteps
    /\ Spend("fault")
    /\ Rejects(c)
    /\ UNCHANGED <<stored, row, job, inbox, asked, cut>>

\* updateStatus and updateMessageSendResult commit, then fail to read the
\* message back.
ReadBackFails(c) ==
    LET k == call[c] IN
    /\ k # Idle
    /\ \/ /\ k.at \in UpdateSteps /\ k.seen.taken
          /\ row' = [row EXCEPT ![k.m] = Recorded(k)]
       \/ /\ k.at = "result"
          /\ row' = [row EXCEPT ![k.m] = updateMessageSendResult(@)]
    /\ Spend("fault")
    /\ Rejects(c)
    /\ UNCHANGED <<stored, job, inbox, asked, cut>>

Runs(c, p) == call[c] # Idle /\ call[c].proc = p

\* The process is gone, and with it what it was doing; its locks run out.
Dies(p) ==
    /\ mode' = [mode EXCEPT ![p] = "down"]
    /\ call' = [c \in Calls |-> IF Runs(c, p) THEN Idle ELSE call[c]]
    /\ cut' = [m \in Messages |-> cut[m] \cup
                 {IF call[c].at \in WorkSteps THEN "worker" ELSE "other" :
                    c \in {d \in Calls : Runs(d, p) /\ call[d].m = m}}]
    /\ job' = [m \in Messages |-> IF job[m].lock = p
                                  THEN [job[m] EXCEPT !.lock = NoProc]
                                  ELSE job[m]]

Crash(p) ==
    /\ mode[p] # "down"
    /\ Spend("crash")
    /\ Dies(p)
    /\ UNCHANGED <<stored, row, inbox, asked>>

\* A kill signal: shutdown stops the API and pauses the worker; operations
\* in progress go on for the seconds until cleanup exits.
Terminate(p) ==
    /\ mode[p] = "running"
    /\ Spend("crash")
    /\ mode' = [mode EXCEPT ![p] = "shutdown"]
    /\ UNCHANGED <<stored, row, job, call, inbox, asked, cut>>

Exit(p) ==
    /\ mode[p] = "shutdown"
    /\ Dies(p)
    /\ UNCHANGED <<stored, row, inbox, asked, spent>>

Restart(p) ==
    /\ mode[p] = "down"
    /\ mode' = [mode EXCEPT ![p] = "running"]
    /\ UNCHANGED <<stored, row, job, call, inbox, asked, cut, spent>>

-----------------------------------------------------------------------------

\* What a call does when nothing goes wrong with it.
Proceed(c) ==
    \/ Add(c) \/ GetJob(c) \/ GetState(c) \/ Remove(c) \/ Promote(c) \/ Recover(c)
    \/ ReadStatus(c) \/ WriteStatus(c) \/ Purge(c)
    \/ Load(c) \/ Send(c) \/ SaveResult(c) \/ Finish(c) \/ Fail(c)

Next ==
    \/ \E p \in Procs, client \in Clients, S \in SUBSET Messages :
          \/ sendEmail(p, client, S)
          \/ sendEmailUnread(p, client, S)
          \/ findCancelMessages(p, client, S)
          \/ findPromoteMessages(p, client, S)
    \/ \E p \in Procs, client \in Clients, m \in Messages :
          cancelMessage(p, client, m) \/ promoteMessage(p, client, m)
    \/ \E c \in Calls :
          Proceed(c) \/ SendUnanswered(c) \/ OperationFails(c) \/ ReadBackFails(c)
    \/ \E c \in Calls, p \in Procs, m \in Messages :
          Take(c, p, m) \/ StalledTooOften(c, p, m)
    \/ \E p \in Procs, m \in Messages : Requeue(p, m)
    \/ \E m \in Messages : DelayExpires(m) \/ LockLapses(m) \/ JobLost(m)
    \/ \E p \in Procs : Crash(p) \/ Terminate(p) \/ Exit(p) \/ Restart(p)

Spec == Init /\ [][Next]_vars

\* Promises settle, timers fire, Bull hands out and checks its jobs, and the
\* platform restarts a replica that exits.  Nobody need send or request
\* anything, and nothing need fail.
Fairness ==
    /\ \A c \in Calls : WF_vars(Proceed(c))
    /\ \A m \in Messages :
         /\ WF_vars(DelayExpires(m))
         /\ WF_vars(\E c \in Calls, p \in Procs : Take(c, p, m))
         /\ WF_vars(\E p \in Procs : Requeue(p, m))
         /\ WF_vars(\E c \in Calls, p \in Procs : StalledTooOften(c, p, m))
    /\ \A p \in Procs : WF_vars(Exit(p)) /\ WF_vars(Restart(p))

FairSpec == Spec /\ Fairness

-----------------------------------------------------------------------------
(* Safety. *)

\* A message is reported completed only when the mail server's answer is on
\* record, whatever races, retries, failed commits or crashes came between
\* onProcess and onCompleted.
CompletedMeansDelivered ==
    \A m \in stored :
        "completed" \in row[m].statusHistory => row[m].sendResult

\* The email of a message is given up only once it was completed or was
\* cancelled: until then a promotion can still recover it, even from a queue
\* that lost its job (updateContent, recoverMessage).
ContentKept ==
    \A m \in stored :
        ~row[m].email =>
            row[m].statusHistory \cap {"completed", "cancelled"} # {}

\* Although status updates interleave and overwrite each other's status, none
\* is lost from what the client is shown: the status history holds the
\* business status of every queue record, and the current status with it.
HistoriesAgree ==
    \A m \in stored :
        /\ row[m].status \in row[m].statusHistory
        /\ row[m].statusHistory = {queueToStatus(q) : q \in row[m].queueHistory}

\* What an operation in progress may rely on: the status it read is in the
\* history, onCompleted and the end of onProcess follow a send result, and
\* updateContent follows the completion or the removal.
Knows(k) ==
    k # Idle =>
        /\ k.seen.taken => k.seen.status \in row[k.m].statusHistory
        /\ k.at \in {"delivered", "finish", "completed"} => row[k.m].sendResult
        /\ k.at = "purge" =>
              row[k.m].statusHistory \cap {"completed", "cancelled"} # {}

RowSound(r) ==
    /\ r.status \in r.statusHistory
    /\ r.statusHistory = {queueToStatus(q) : q \in r.queueHistory}
    /\ "completed" \in r.statusHistory => r.sendResult
    /\ ~r.email => r.statusHistory \cap {"completed", "cancelled"} # {}

\* The inductive invariant behind CompletedMeansDelivered, ContentKept and
\* HistoriesAgree: the rows are sound, and so is what operations concluded
\* from them before they were interleaved.
RecordInv ==
    /\ \A m \in Messages : RowSound(row[m])
    /\ \A c \in Calls : Knows(call[c])

\* Two workers, of one replica or of two, never work on one message, as long
\* as Redis keeps the locks and jobs: not even across crashes, stalled jobs,
\* cancellations that race the delay, and jobs put back by a promotion.
OneWorker ==
    spent["lapse"] = 0 =>
        \A c, d \in Calls :
            (/\ call[c] # Idle /\ call[c].at \in WorkSteps
             /\ call[d] # Idle /\ call[d].at \in WorkSteps
             /\ call[c].m = call[d].m) => c = d

\* The recipient gets a message at most once, unless an operation on it fails,
\* a process dies while sending it, or its owner has it promoted, which sends
\* again what the queue does not hold.
SentOnce ==
    \A m \in Messages :
        (/\ spent["fault"] + spent["lapse"] = 0
         /\ "promote" \notin asked[m]
         /\ "worker" \notin cut[m]) => inbox[m] <= 1

\* Whatever fails, stalls and dies, Bull's two counters bound the copies of a
\* message that nobody promoted: each attempt, and each stall it survives, may
\* send one.  Only a lock or a job that Redis loses escapes them.
CopiesBounded ==
    \A m \in Messages :
        (spent["lapse"] = 0 /\ "promote" \notin asked[m]) =>
            inbox[m] <= MaxAttempts + MaxStalls

\* As long as a message has a job, which a worker may take or has taken, its
\* email is there to be sent: of the listeners that drop it none is about, and
\* none of those under way is late, unless its owner had it promoted.
WorkHasContent ==
    \A m \in stored :
        (spent["lapse"] = 0 /\ "promote" \notin asked[m]) =>
            (job[m].state # "none" => row[m].email)

\* Once the removal of a message is on record nobody sends it any more, unless
\* its owner asked for a promotion: the job is gone, no worker has it, and no
\* slow enqueue brings it back.
CancelledIsNotSent ==
    [][\A m \in stored :
          (/\ "removed" \in row[m].queueHistory
           /\ "promote" \notin asked[m]
           /\ spent["lapse"] = 0) => inbox'[m] = inbox[m]]_vars

\* No client can cancel or promote what another client sent, through the
\* single operations or the queries.
OnlyTheOwner ==
    \A m \in stored :
        /\ "removed" \in row[m].queueHistory => "cancel" \in asked[m]
        /\ "promoted" \in row[m].queueHistory => "promote" \in asked[m]

Settled(m) ==
    \/ row[m].sendResult
    \/ row[m].statusHistory \cap {"failed", "cancelled"} # {}

InProgress(m) ==
    \/ job[m].state # "none"
    \/ \E c \in Calls : call[c] # Idle /\ call[c].m = m

\* An accepted message is sent, reported failed, cancelled, or still on its
\* way: nothing forgets it while Redis and the database do what they are asked
\* and no process dies between the database and the queue.  A worker may die at any point.
NeverForgotten ==
    \A m \in stored :
        (spent["fault"] + spent["lapse"] = 0 /\ "other" \notin cut[m]) =>
            Settled(m) \/ InProgress(m)

\* What the client is promised: the queue, the workers and the status updates
\* with all their failures amount to the few steps of MailDelivery.
Delivery == INSTANCE MailDelivery WITH
    accepted  <- stored,
    held      <- {m \in stored : row[m].email},
    receipts  <- {m \in stored : row[m].sendResult},
    completed <- {m \in stored : "completed" \in row[m].statusHistory},
    cancelled <- {m \in stored : "cancelled" \in row[m].statusHistory}

Implements == Delivery!Spec

\* What each replica is to the others: its process runs, shuts down and dies,
\* and takes jobs, as in ReplicaProcess, which AppLifecycle implements too.
Replicas == INSTANCE ReplicaProcess WITH working <- {p \in Procs : ~WorkerIdle(p)}

ImplementsReplicas == Replicas!Spec

-----------------------------------------------------------------------------
(* Liveness, under FairSpec. *)

\* Every accepted message is eventually sent, reported failed or cancelled, while
\* the database takes what it is given.
EventuallySettled ==
    \A m \in Messages : m \in stored ~> (Settled(m) \/ "other" \in cut[m])

\* Every job eventually leaves the queue, through crashes and restarts too.
JobsEnd == \A m \in Messages : job[m].state # "none" ~> job[m].state = "none"

\* The email of a message that went out at the first attempt is eventually
\* dropped, whatever is cancelled or promoted meanwhile, unless the process
\* dies in onCompleted.
ContentPurged ==
    \A m \in Messages :
        row[m].statusHistory \cap {"completed", "failed"} = {"completed"}
            ~> (\/ ~row[m].email
                \/ "failed" \in row[m].statusHistory
                \/ "other" \in cut[m])

=============================================================================
