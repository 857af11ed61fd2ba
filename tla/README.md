# A formal model of the Common Hosted Email Service

The Common Hosted Email Service (CHES) accepts emails over HTTP, stores them in Postgres, queues
them in Redis through the Bull library, and delivers them over SMTP with retries. Clients can ask
for the status of a message, cancel it, or promote it (send it now). Several replicas of the
service run against one database and one Redis.

This directory holds TLA+ specifications of the parts where order, failure and concurrency decide
whether a message is delivered, TLC configurations that check them on small instances, and proofs
that TLAPS checks for every value of the constants. All paths below are relative to the
repository; the code lies in `src/app`.

1. [The system](#1-the-system)
2. [What is hard about it](#2-what-is-hard-about-it)
3. [Modules](#3-modules)
4. [From code to model](#4-from-code-to-model)
5. [The runs](#5-the-runs)
6. [Bounds](#6-bounds)
7. [Fairness](#7-fairness)
8. [Where documents and code disagree](#8-where-documents-and-code-disagree)
9. [What is proved](#9-what-is-proved)
10. [What is not modelled](#10-what-is-not-modelled)
11. [Plan](#11-plan)

To reproduce, from this directory:

    tlc -workers 2 -config races.cfg MCMailDispatch.tla
    tlc -workers 2 -config requests.cfg MCMailSubmission.tla
    tlc -workers 2 -config lifecycle.cfg AppLifecycle.tla
    tlapm MailSubmissionProofs.tla

## 1. The system

| Component | State it keeps | Operations | Talks to | Correct means |
|---|---|---|---|---|
| **Message states** `components/state.js` | none | `queueToStatus` | everyone | a queue record always has one business status |
| **DataService** `services/dataSvc.js`, `models/`, `migrations/` | tables Trxn, Message, Status, Queue | `createTransaction`, `createMessage`, `updateStatus`, `updateMessageSendResult`, `deleteMessageEmail`, reads | Postgres | histories lose nothing; content goes only when it is no longer needed |
| **QueueService** `services/queueSvc.js` | none of its own | `enqueue`, `removeJob`, `promoteJob`, `sendMessage`, `updateContent`, `updateStatus` | Bull, DataService, EmailService | one job per message, and only its owner reaches it |
| **QueueListener** `services/queueListener.js` | none of its own | `onProcess`, `onCompleted`, `onFailed`, `onRemoved`, `onDrained`, `onError` | Bull's events, QueueService | what happened to a job ends up in the database |
| **ChesService** `services/chesSvc.js` | none of its own | `sendEmail`, `sendEmailMerge`, `cancelMessage`, `findCancelMessages`, `promoteMessage`, `findPromoteMessages`, `recoverMessage`, `getStatus`, `findStatuses` | DataService, QueueService | an accepted message is sent, reported failed, or cancelled by its owner |
| **EmailService** `services/emailSvc.js` | none | `send` | SMTP server | |
| **Bull queue** (library) `services/queueConn.js` | one job per message in Redis: delayed, waiting, active; attempts, lock, stalls | add, take, promote, remove, retry with backoff, stalled check | Redis | one worker per job; every job ends |
| **Application lifecycle** `app.js`, `services/*Conn.js`, `components/health.js`, `bin/www` | `state.connections`, `state.mounted`, `state.ready`, `state.shutdown`, the pool, the timers | `initializeConnections`, `mountServices`, `checkConnections`, `resetConnection`, `shutdown`, `cleanup`, the 503 gate | all connections, signals | serves only when it can; ends when it cannot; ends cleanly |
| **Authentication, authorized party** `middleware/authorizedParty.js`, `middleware/authentication.js` | token keys | read the client from the token, verify the token | Keycloak (keys) | a route works only for the client of a verified token |
| **Validation** `components/validators.js`, `middleware/validation.js` | none | `email`, `merge`, the checks of ids and queries; a 422 with the reasons | | both ways in (email and merge) accept the same messages |
| **Template merge** `components/merge.js` | none | `mergeTemplate`, `renderMerge` | nunjucks | one message per context, with the context's own fields |
| **Transformer, utilities** `components/transformer.js`, `components/utils.js` | none | response shapes, `calculateDelayMS`, the two filters | | what is shown and sent is what was asked for |
| **Routes** `routes/` | none | one ChesService call each, after the middlewares | ChesService | an id means the same to every route |
| **Logging** `components/log.js` | none | | | |

How they interact. A POST passes `authorizedParty` (which reads the client from a token that is not
verified yet), the token validator, the check that there is a client, and the validators; a merge is
then turned into one message per context. It reaches `ChesService.sendEmail`, which commits a transaction with its
messages (status `accepted`), answers the client, and *does not wait* for the `enqueue` that adds
a job to Bull and then records `enqueued`. A worker, in any replica, gets the job from Bull
(`onProcess`), records `processing`, loads the content, sends it, saves the send result and
records `delivered`; Bull then emits `completed` or `failed` in the same process, whose listener
records that and, on completion, drops the content (`updateContent`). A cancellation finds the
job, checks its owner and state, and removes it; Bull's `removed` event then records `removed` and
drops the content. A promotion finds the job and, if it is delayed, makes it wait; if the queue no
longer has it but the database still has its content, the promotion enqueues it again
(`recoverMessage`). All of these are promises: between any two awaits any other operation, of the
same replica or of another, may run.

## 2. What is hard about it

* **Every operation is a chain of awaits over two stores.** No transaction spans Redis and
  Postgres, so every crash or error between two steps leaves a partial result.
* **Status updates race.** `updateStatus` reads the message and writes what that read decided, at
  READ COMMITTED and without a row lock. The enqueue's own update runs after the response and may
  commit after the worker's.
* **Check, then act.** `removeJob` and `promoteJob` read the job's state, then act on the job;
  a delay may end, a worker may take the job, another request may remove it, in between.
* **Retries and backoff.** A job whose attempt failed waits among the delayed jobs, as one that a
  client delayed does.
* **Stalled jobs and lost locks.** Bull gives the job of a dead worker to another one, and, if a
  lock lapses under a living worker, the job has two.
* **Unawaited promises.** A rejection nobody handles ends the process (`app.js`), with all
  operations in progress.
* **One message, two names.** Postgres compares ids as uuids, Bull as strings; a client may write
  them in either case, and each route decides what to pass on.
* **A message is written down five times.** The body of a POST is validated, merged, stored as
  columns and as JSON, given to the queue as an id and a delay, put into an envelope and shown in two
  responses, each by other code with its own idea of what is empty.
* **The process itself** starts up, probes its connections, serves and shuts down by timers and
  promises that know little of each other.

`PROJECT.json` lists these hazards at their lines, each with the properties that would show it
going wrong.

## 3. Modules

| Module | Models | Built on |
|---|---|---|
| `MessageStates` | the two vocabularies and `queueToStatus` | |
| `MessageStore` | a message's rows, and what each DataService transaction does to them | `MessageStates` |
| `BullQueue` | one Bull job and what add, take, promote, failure and stall do to it | |
| `MailDelivery` | the abstract specification: what the service promises the sender | |
| `ReplicaProcess` | the abstract specification of the replicas' processes: running, shutting down, down, on a job or not | |
| `MailDispatch` | the core: every operation of ChesService, QueueService, QueueListener, with workers, replicas, faults and crashes | `MessageStore`, `BullQueue`; implements `MailDelivery`, `ReplicaProcess` |
| `MailDispatchClaims` | what documents, comments and tests say where the code does otherwise | `MailDispatch` |
| `MCMailDispatch` | small instances for TLC | `MailDispatchClaims` |
| `MailDispatchProofs` | type correctness, proved | `MailDispatch` |
| `MailDispatchRecords` | the inductive invariant over rows and operations in progress, proved | `MailDispatchProofs` |
| `MailDispatchPromises` | `OnlyTheOwner`, the refinement `Implements` and what clients may conclude from it, proved | `MailDispatchRecords` |
| `MailDispatchQueue` | `OneWorker`, `SentOnce`, `CancelledIsNotSent`, `NeverForgotten`, proved | `MailDispatchPromises` |
| `MailDispatchWorkers` | `CopiesBounded`, `WorkHasContent` the refinement `ImplementsReplicas`, and `RunsDown`, proved | `MailDispatchQueue` |
| `RequestValues` | what a parameter or a field of a request may hold | |
| `MessageRequests` | what requests about messages are about and what they are answered: validators, routes and searches of cancel, promote and status | `MessageStore`, `RequestValues` |
| `MessageRequestsProofs` | its inductive invariant and all its invariants, proved | `MessageRequests` |
| `MCMessageRequests` | its small instance for `promotes_what_waits` | `MessageRequests` |
| `MailBodies` | what becomes of the body of a POST: validators, merge, columns, delay, envelope, responses, as operators | `RequestValues` |
| `MailSubmission` | a POST from its header to its jobs, step by step, composed with all the requests of `MessageRequests` | `MessageRequests`, `MailBodies`; implements `MessageRequests` |
| `MailSubmissionProofs` | that refinement and all its invariants, proved | `MailSubmission`, `MessageRequestsProofs` |
| `MCMailSubmission` | small instances for TLC | `MailSubmission` |
| `AppLifecycle` | one replica's process from start-up to exit | implements `ReplicaProcess` |
| `AppLifecycleProofs` | its type correctness, all its invariants and that refinement, proved | `AppLifecycle` |

`MailDispatch` sees of `AppLifecycle` what its other replicas see: a replica is running, shutting
down (its worker takes no new job, what it does goes on), or down, and is restarted. That both have the
same process in mind is not left to the reader: `ReplicaProcess` says what a replica is to the
others, and both are shown to implement it.

`MessageRequests` and `MailDispatch` look at the same requests from two sides. In `MailDispatch` a request
is a chain of awaits that anything may interleave with, ids are in lower case, and answers are left
out; in `MessageRequests` a request is one action, and ids, parameters and answers are what it is about.
`MailSubmission` is what comes before both: its last step, `Store`, is the `send` of
`MessageRequests` with the client, the tags and the delays that the POST itself gives.
The finding of the second, a message with two jobs, is therefore outside `OneWorker` and `SentOnce` of
the first: these hold of clients that write ids as the service returned them.

Operators called "Mutated" in the modules are plausible bugs. No action uses them; each is the
form of some definition that makes one property fail, and so shows that the property depends on
that definition.

## 4. From code to model

### MailDispatch

A *call* is one operation in progress on one message: the enqueue that follows a POST, a
cancellation, a promotion, or a worker's run of a job. `call[c].at` is the await it will resume
from, and one action is the code up to the next await:

| Step | Code |
|---|---|
| `sendEmail` (an action that starts a call per message) | `createTransaction` commits all messages; the response goes out |
| `sendEmailUnread` | the same commit, and then the read-back fails: the client gets an error, the messages are stored, nobody enqueues them |
| `add` | `queue.add` with the message's id as job id, and a delay from the message's `delayTS` |
| `enqueued`, `processing`, `delivered`, `completed`, `failed`, `removed`, `promoted`, `recovered` | `DataService.updateStatus`, in two actions: `ReadStatus` (the read) and `WriteStatus` (the commit of what that read decided) |
| `getJob`, `getState`, `remove` / `promote` | `queue.getJob` and the owner check, `job.getState`, `job.remove` or `job.promote` |
| `recover` | `recoverMessage`: the content is read from the database; if there is some, `promoted` is recorded and the job added again |
| `load`, `send`, `result`, `finish` | `onProcess`: the content is read, sent, the result saved, the job completed in Redis |
| `fail` | the throw out of `onProcess`: Bull moves the job to the delayed set, or out of the queue after the last attempt |
| `purge` | `updateContent` |

A call whose step emits a queue event goes on as that event's listener (`remove` as `onRemoved`,
`finish` as `onCompleted`, `fail` as `onFailed`), because Bull emits these events locally.

A bulk request (`findCancelMessages`, `findPromoteMessages`) starts a call for each message its
query returns. `findCancelMessages` does not await `removeJob`: a rejection there is unhandled
(`Unhandled`) and shuts the replica down, as `app.js` does for every unhandled rejection. A bulk
promotion carries the content its query read.

The state: `stored` and `row` are the database, `job` is Redis, `call` the memory of the
processes, `mode` the processes themselves, and `inbox` counts what the mail server accepted.
`asked` and `cut` are history variables that only properties read.

What goes wrong: `OperationFails` rejects the database, Redis or SMTP operation a call waits for, because
the store is not there or will not have what it is given (a `failedReason` of more than 255 characters does
not fit the `description` of a status, so the `failed` update rejects);
`SendUnanswered` is a mail that was accepted although its answer was lost; `ReadBackFails` is a
commit whose read-back fails; `LockLapses` and `JobLost` are Redis forgetting a lock or a job;
`Crash` ends a process with all its calls; `Terminate` is SIGTERM; `Exit` the end of a shutdown;
`Restart` the platform's new process.

Bull is not under `src/`, so what it does is an assumption, made in `BullQueue` and in the actions
that use it: events are local; a job in backoff is in state `delayed`; `failed` is emitted after
each failed attempt, not only the last; `remove` refuses a locked job and nothing else, and its
outcome for a missing job may be either; `promote` refuses a job that is not delayed; adding a job
id that exists does nothing; a stalled job is requeued up to the maximum stall count, then failed
by the replica that checks, which may be one that is shutting down: its queue is paused for its own
worker only, and Bull's check goes on until the process is gone; a worker that lost its lock gets an `error` event, which is only
logged; `failedReason` stays on a job that later succeeds. Locks are per replica since each worker
has concurrency 1. The lock of a crashed worker is released at the crash: its expiry thirty seconds
later adds only a delay.

Abstracted away: what a message says; how often a status was recorded (histories are sets); times.
A delay is over whenever `DelayExpires` says so, which covers every length of it, delays in the past
among them.

### MailDelivery

The abstract specification has sets for what was accepted, is held, has a receipt, was completed
and was cancelled. `Delivery == INSTANCE MailDelivery WITH ...` in `MailDispatch` maps the rows to
those sets; `Implements` says that every step of the service, failures included, is one of the
abstract steps or a stutter: in particular nothing is completed without a receipt, cancelled
without its owner's request, or discarded while it is neither.

`Promised` and `NothingErased` say what a client may conclude from a status history at any time: the
service has the content of a message whose history has neither a completion nor a removal; a completion means
that a mail server took the message, a removal that the client asked for it; no later history lacks an entry
of an earlier one, and no receipt is lost. None of this is about the *current* status, which may go
from completed back to pending: that is the finding of `completed_is_terminal`.

### ReplicaProcess

The abstract specification of the replicas: `mode` says whether each is running, shutting down or
down, `working` which have a worker on a job. A shutdown is final until the process is gone, no job is
begun in it, a job outlasts it but no process its jobs, a worker is on one job at a time.
`MailDispatch` has `working` as the replicas whose worker is not idle (`ImplementsReplicas`);
`AppLifecycle` is the case of one replica, whose `mode` is that of `state.shutdown` and `exited`
(`ImplementsReplica`).

### MessageRequests

| Definition | Code |
|---|---|
| `Query`, `queryParam`, `searchQueryFields`, `searchQuery` | `validators.js`: each parameter is absent, empty, malformed, or an id, status or tag; the validators let absent and empty pass, and refuse a query that names none of the four |
| `toLowerCase` | the routes of cancel and status; those of promote have no such call |
| `parameters`, `findMessagesByQuery` | `dropUndefinedObject` and the where clause: what is absent is dropped, what is empty is compared. Postgres refuses the empty string for a uuid (`SearchFails`, a 500) |
| `cancelCode`, `promoteCode`, `statusCode`, `SearchCode` | the status codes of requests, from the queue's answer, the database's, and the errors `chesSvc.js` turns into problems |
| `cancelMessage`, `promoteMessage`, `findCancelMessages`, `findPromoteMessages` | the effects of those that get something done (`Removes`, `Promotes`), as if nothing interleaved |
| `send`, `onProcess`, `onCompleted`, `onFailed`, `delayEnds` | the message's way through queue and worker, each as one action |

`stored` and `rows` are the database, with the owner, tag and transaction of each message and without its
histories; `jobs` is Redis, by the string that is a job's id, so that a message can have a job under
either spelling. `odd` is a history variable: the messages recovered under an id in upper case. `SearchesExact`
compares what a search finds with `Described`, which says what the client asked about without
looking at how the service gets there.

### MailSubmission and MailBodies

| Definition | Code |
|---|---|
| `Arrive` | `app.use(authorizedParty)`: the client is whoever the token names, before anybody verifies it |
| `Admit` | `routes/v1.js` and the routers: the token validator, then `authorizedPartyValidator` |
| `Validate` | `middleware/validation.js`: 422 with the reasons; or an exception, which nobody catches in an async middleware (`lost`) |
| `Preview`, `Fail`, `Store` | the routes of email, merge and preview and `ChesService.sendEmail`, `sendEmailMerge`: an answer without messages, an exception that becomes a 500, or transaction, rows, jobs and a 201 |
| `Forget` | the request is over |
| `email`, `merge`, `messageFields`, `ownFields`, `contexts`, `attachments` | `validators.js`, as the set of fields an error is about; `*Throws` are the bodies on which they throw |
| `mergeTemplate`, `Rendered` | `merge.js` |
| `createMessage`, `Storable`, `delay`, `calculateDelayMS` | `dataSvc.js`'s columns and what fits them; the delay given to Bull |
| `createEnvelope`, `filterUndefinedAndEmptyArray` | `emailSvc.js`, `utils.js` |
| `toStatusResponse`, `toTransactionResponse` | `transformer.js`; a time is shown as a `Date` gives it back (`moment`): as itself within `MaxDate` milliseconds of 1970, and beyond that as `NaN`, which JSON makes `null` |

`post` is the POST in progress: the request, the client that `authorizedParty` set, the answer, and
for each message its id, its row and when Bull will hand it out (`due`). A field of the body is absent,
empty, malformed, or one of the values that the code tells apart (an address, a list of addresses with
or without something else in it, an overlong tag, a time that only `isInt` accepts...).

### AppLifecycle

| Variable | Code |
|---|---|
| `env` | what is true outside: the database `writable`, `readOnly`, `down` or `empty` (no tables), Redis, the mail server (`unchecked` outside production) |
| `init` | the tasks of `initializeConnections` and whether `Promise.all` settled |
| `state` | app.js's `state` |
| `attached`, `clients` | `mountServices` has run; Bull's blocking and event clients exist |
| `probe` | the `checkConnections` in progress; they overlap when one hangs |
| `pool`, `busy` | the database pool; the worker is on a job |
| `closing`, `exited`, `exitCode` | `cleanup`, up to `process.exit` |

Time is not modelled: the ten seconds between probes, the five seconds before `cleanup` and the
ten before the hard exit only say that the timer fires at some point. Facts of the code that the
model rests on: `checkAll` rejects rather than answers when the table query fails, whereas
`checkConnection` turns errors into `false`; `checkConnection` of the queue asks whether Bull's
clients exist *before* it names, and thereby creates, them, so a probe that precedes
`mountServices` fails; only start-up can lose `connections.email`; repeated shutdowns and cleanups
do nothing new; closing the queue needs Redis and waits for the worker's job; closing the mailers
is synchronous, so it is part of the step that closed the queue. An error resets the pool whenever the replica is
not shutting down, also one raised ahead of the 503 gate (a body that is no JSON), hence before the
replica serves; the reset may abort the queries of a probe and of start-up's `checkAll`.

## 5. The runs

| Run | Instance | Checks | Shows |
|---|---|---|---|
| `races` | 1 message, 3 calls at once, 2 requests | `TypeOK` `HistoriesAgree` `SentOnce` `WorkHasContent` `CancelledIsNotSent` | cancellations, promotions, the enqueue, the delay and the worker in every order: no second mail, no mail after a recorded removal, no job without its email, no history entry lost |
| `faults` | 2 replicas, 1 fault, 1 crash or kill, 1 request | `OneWorker` `NeverForgotten` `CopiesBounded` `Implements` `ImplementsReplicas` | the replicas never work on one message together, nothing is forgotten, no message goes out more often than Bull's bounds allow, and the whole refines `MailDelivery` and `ReplicaProcess` |
| `lapses` | 2 replicas, 2 clients, 3 calls, 1 lapse, 1 request | `CompletedMeansDelivered` `ContentKept` `RecordInv` `OnlyTheOwner` | with two workers on one message, and a stranger's requests, the records stay sound |
| `merge` | 2 messages in one transaction, 1 replica, requests by query | `NeverForgotten` | the messages of a merge do not get in each other's way |
| `live` | 1 replica, 2 crashes or kills, 1 request, fairness | `EventuallySettled` `JobsEnd` `ContentPurged` | every accepted message comes to an end, and so does its job and, if it went out at the first attempt, its content |
| `lifecycle` | 2 overlapping probes, 1 trouble, every initial environment, fairness | `TypeOK` `ServingMeansAttached` `PoolOutlivesJobs` `ExitCodeTells` `ImplementsReplica` `ShutdownExits` `OutageExits` `CalmServes` | a replica serves only with its worker, serves if all is well, exits if something stays away, and always ends a shutdown; no start-up and no probe takes a shutdown back |
| `requests` | every POST of `FollowedPosts` into an empty service; then 2 messages, transactions and clients, 1 tag, ids in either case, searches of up to 2 parameters | `PostTypeOK` `TypeOK` `SearchesExact` `AnswersHonest` `CancelsWhatWaits` `QueuedHasContent` `LatestShown` `ClientVerified` `AcceptsAlike` `GoesToItsOwn` `AcceptedIsStored` `DueWhenAsked` `ShownAsAsked` `ImplementsRequests` | whose a message is, to whom it goes, when it is due and what is shown of it come from its own request; email and merge accept the same; a search is about exactly the client's messages it describes, never about all of them; answers tell whose a message is; what waits can be cancelled; what is queued has its email |

Five more runs each check one claim that fails ([section 8](#8-where-documents-and-code-disagree)).

Some properties carry conditions, which are part of what the code can promise:

* `SentOnce` excludes faults, lapses, promotions and a worker killed while sending: each of these
  can send a second copy. A crash elsewhere, a stall or a cancellation cannot.
* `CopiesBounded` is what remains of `SentOnce` with faults and deaths: a copy for each attempt and for each stall
  that Bull allows. It excludes promotions, each of which adds a job with counters of its own, and lapses: when
  a lock lapses two workers send in one attempt, and a lost job takes its counters with it.
* `WorkHasContent` excludes promoted messages: a promotion reads the content and adds the job some steps later,
  and `updateContent` of a worker that has just finished may drop the content in between. The new job then
  fails all its attempts, after the message was sent. It excludes lapses for the same reason.
* `NeverForgotten` excludes faults, lapses and a process that dies between the database and the
  queue (`"other" \in cut[m]`): nothing scans the database for accepted messages without a job. A
  worker may die at any point. `EventuallySettled` is checked without faults and with the same exception. A
  `failedReason` too long for its column is one of these faults: after the last attempt such a
  message is never recorded as failed.
* `ContentPurged` is about messages that went out at the first attempt. After a failed attempt the
  content stays: `onFailed` does not drop it (its call of `updateContent` at `queueListener.js:67` is
  commented out), and after a retry that succeeds the job still has its `failedReason`, for which
  `updateContent` keeps the content. The second rests on the assumption that Bull leaves `failedReason` there.
* `CancelsWhatWaits` and `QueuedHasContent` leave out a message recovered under an id in upper case,
  which has two jobs.
* `LatestShown` is about updates that do not interleave: what two that do leave behind is the finding
  of `completed_is_terminal`. It also has no operation fail between the send result and the completion.
* `AcceptsAlike`, `GoesToItsOwn`, `AcceptedIsStored`, `DueWhenAsked` and `ShownAsAsked` are about templates that
  have no `to`, `cc`, `bcc`, `tag` or `delayTS` of their own (`Plain`). Such a field replaces that of every
  context, and no validator looks at it: a template with `"to": "nobody"` is accepted.
* `AcceptedIsStored` names the exceptions, after which nothing is stored and the answer is a 500: a
  template that nunjucks fails to render, a tag longer than its column, and a `delayTS` that `isInt`
  accepts and a bigint does not, or that is the empty string. devMode, whose transport has no `mailer`,
  always fails.
* `ShownAsAsked` has the answer show the time that was asked for if a `Date` holds it, and none if not: a
  larger one is accepted and stored, since `isInt` and a bigint reach further.
* `ServingMeansAttached` has one window: a first probe that hangs from before `mountServices`, and is
  overtaken by a second one, leaves the replica serving for as long as it hangs, and then shuts it
  down.
* `CalmServes` excludes a first probe before the clients exist (start-up slower than ten seconds),
  since that probe ends the replica, and the errors that reset the pool
  under the probe.

`CHECK_DEADLOCK FALSE` is set where the system may stop: every message settled and no request left,
or the process exited.

## 6. Bounds

| Bound | Values | Why it is enough |
|---|---|---|
| `Messages` | 1; 2 in `merge` | operations of different messages share only the worker, the transaction and the process, which `merge` has |
| `Clients` | 1; 2 in `lapses` | an owner and somebody else |
| `Procs` | 1 or 2 | two workers on one job, or a job handed over, need two; a third is another of the second |
| `Calls` | 1 to 3 slots | a call starts only in an idle slot: in `races` three operations race on a message, in `lapses` two workers and a request |
| `MaxAttempts` | 2; 1 in `merge` | a first and a last attempt; the code's `server.maxAttempts` compares equally for any number |
| `MaxStalls` | 1; 0 where nothing crashes | Bull's default |
| `MaxRequests` | 0 to 2 | a cancellation and a promotion, in both orders, or two of the same |
| `MaxFaults`, `MaxLapses`, `MaxCrashes` | 0 to 2 | kept apart by run, so that each condition of a property meets what it allows |
| `Probes` | 2 | one hangs, one overtakes it; 1 where no overlap is needed. A new probe takes the first idle slot, which loses nothing since the slots are alike |
| `MaxTroubles` | 1, 0 for `failed_init` | one change, kill or error, on every initial environment, good or bad |
| `Trxns`, `Tags` | 2 and 1 in `requests` | messages of one transaction or of two; tagged, with an empty tag or without |
| `MaxNamed` | 2; 1 for `promotes_what_waits` | parameters are joined by "and" and each stands for one column: two show that both count |
| `MaxWithOdd` | 1 | how many messages are stored once one has been recovered under an upper-case id, with that one: requests about one message look at no other, so its two jobs are explored alone |
| `Posts` | `FollowedPosts`, some thousand | every body that differs in two fields from a sound one, every template that differs in its contexts, and in its body or type, or in two of its fields; every header and configuration with bodies that differ in the sender. A validator looks at one field, and two show that errors add up |
| `Clock` | 1 and 2 | a time asked for of -3 to 3 is past, present and future, and the clock may move before Bull gets the job |
| `MaxDate` | 2 | times of -3 to 3 are within what a `Date` holds, at its bound and beyond it, of either sign |

POSTs are followed step by step only into an empty service (`Arrive`): until `Store` their steps touch
nothing that other requests share, and `Store` is `send`, which `requests` explores in every state, with
every tag and delay. A body's lists of addresses and attachments are sets, since nothing depends on their
order; `null`, `false` and `0` are left out where the code asks only for truthiness.

`Calls` and `Procs` are symmetric in the safety runs. Nothing in the model chooses among slots or
replicas, so the symmetry is sound; `requests` is symmetric in messages, transactions and clients for the
same reason (its one `CHOOSE` picks the only id there is). The runs with liveness properties, `live` and `lifecycle`, use none.

## 7. Fairness

`MailDispatch!FairSpec` has weak fairness of

* each call's `Proceed`: promises settle. Postgres, Redis and SMTP clients have timeouts, and
  without failures they answer;
* `DelayExpires`, `Take`, `Requeue`, `StalledTooOften` for each message: Bull's timers and its
  stalled-job check, which run as long as some replica is up;
* `Exit` and `Restart`: `cleanup` has a timer of its own, and the platform restarts a pod.

No fairness on requests, on faults or on the outcome of an SMTP exchange: a mail server may refuse
for ever, and then the attempts run out.

`AppLifecycle!FairSpec` has weak fairness of the start-up checks (`checkReachable` has a time-out,
the others answer or reject), of each probe's steps together with its start (the interval), and of
`cleanup \/ HardExit` (two timers). A job need not end and no close need succeed, so `ShutdownExits`
really rests on the hard exit. There is none on a worker taking a job.

## 8. Where documents and code disagree

Each is a run that finds the claim violated.

| Run | Claim | What the code does |
|---|---|---|
| `completed_is_terminal` | `components/state.js:32`: completed is a terminal state | the enqueue's update, not awaited, may have read the message before the send result was there and commits `pending` after `completed`; the message reads `pending` for good |
| `lists_its_reasons` | `docs/v1.api-spec.yaml:56`: should there be validation errors, the endpoint will return a list of reasons why | a `from` that is no string (under the sender rules), a `null` among the attachments or the contexts make a validator throw in an async middleware without a catch: no answer, and the unhandled rejection shuts the process down |
| `bulk_cancel_keeps_serving` | the test at `tests/integration/chesSvc.spec.js:355`, and the catch in `findCancelMessages` | `removeJob` is not awaited, so the catch never sees its error; the unhandled rejection shuts the process down |
| `promotes_what_waits` | `services/chesSvc.js:325`: promotes message `messageId` if it is still waiting to send | the promote routes pass the id on as written, where cancel and status lower it. In upper case Bull finds no job and Postgres finds the row, so the message is taken for one the queue lost and enqueued a second time, with a worker on the first: it goes out twice |
| `failed_init` | `app.js:66`: initialize connections and exit if unsuccessful | without tables, start-up mounts the worker anyway, and the first probe, which does not look at tables, sets the replica ready |

Others need no run to be seen, or show nothing that these do not:

* `docs/v1.api-spec.yaml:233` says that messages cannot be promoted once they have begun processing; a job in
  backoff is `delayed` for Bull, and `promoteJob` (`queueSvc.js:264`) takes it.
* The API's documentation of `MergeResponse` has one object where the code returns a list, and its example
  of `delayTS` is in seconds.
* A search with an empty `msgId` or `txId` passes the validators and ends in a 500 (`SearchFails`).
* In devMode every message fails with a 500: `emailSvc.js:94` uses a `mailer` that `EmailConnection` does
  not have.
* An accepted `delayTS` beyond 8.64e15 is shown as `null` (`transformer.js:20`): no `Date` holds it.
* The comment at `queueListener.js:64` says that the catch is only reached if database and Redis are inconsistent; a
  `failedReason` longer than its column (`migrations/20191016164716_init.js:6`) gets there too.
* A merged subject or body may render to nothing; the template is validated, not what comes of it.

## 9. What is proved

All theorems hold for every number of messages, clients, replicas, calls, attempts, stalls,
requests, faults, lapses and crashes (`AppLifecycle`: of probes and troubles). The assumptions are
those the modules name: `QueueAssumption`, `DispatchAssumption`, `LifecycleAssumption` and
`SubmissionAssumption`, which only give the constants their types (the last also says that the mark for
"no client" is none, and that a `Date` holds the milliseconds up to some natural number, `MaxDate`). The theorems of `MessageRequests` need no assumption, and hold for every value of the bounds
on searches and on messages beside an odd one. Those of `MailSubmission` hold for every set of bodies,
with any addresses, strings, names and contexts and any number of these, any times, and whatever
`renderString` makes of a template.

| Theorem | Says |
|---|---|
| `MailDispatchProofs!TypeCorrect` | `Spec => []TypeOK`; so no job is attempted or stalls more often than its bound, whatever fails |
| `MailDispatchRecords!RecordsSound` | `Spec => []RecordInv` |
| `MailDispatchRecords!CompletedCorrect` | `Spec => []CompletedMeansDelivered` |
| `MailDispatchRecords!ContentCorrect` | `Spec => []ContentKept` |
| `MailDispatchRecords!HistoriesCorrect` | `Spec => []HistoriesAgree` |
| `MailDispatchPromises!PromisesSound`, `OwnerCorrect` | `Spec => []PromiseInv`, `Spec => []OnlyTheOwner` |
| `MailDispatchPromises!DispatchImplements` | `Spec => Implements`, that is `Delivery!Spec` of `MailDelivery` |
| `MailDispatchPromises!ClientsConclude` | `Spec => []Promised /\ NothingErased` of `MailDelivery`, from that refinement: what its histories tell, not its current status |
| `MailDispatchQueue!QueueSound` | `Spec => []QueueInv` |
| `...!OneWorkerCorrect`, `SentOnceCorrect`, `ForgetsNothing`, `CancelledCorrect` | `Spec => []OneWorker`, `[]SentOnce`, `[]NeverForgotten`, `Spec => CancelledIsNotSent` |
| `MailDispatchWorkers!CopiesCounted`, `CopiesCorrect` | `Spec => []CopiesInv`, `Spec => []CopiesBounded` |
| `MailDispatchWorkers!WorkCorrect` | `Spec => []WorkHasContent` |
| `MailDispatchWorkers!DispatchReplicas` | `Spec => ImplementsReplicas`, that is the `Spec` of `ReplicaProcess` |
| `MailDispatchWorkers!NothingGoesRound` | `Spec => [][RunsDown]_vars` |
| `AppLifecycleProofs!LifecycleTypeCorrect` | `Spec => []TypeOK` |
| `AppLifecycleProofs!PoolSafe`, `ServingCorrect`, `ExitCodeCorrect` | `Spec => []PoolOutlivesJobs`, `[]ServingMeansAttached`, `[]ExitCodeTells` |
| `AppLifecycleProofs!LifecycleImplements` | `Spec => ImplementsReplica`: one replica of `ReplicaProcess` |
| `MessageRequestsProofs!RequestsSafe` | `Spec => []RequestInv` |
| `...!RequestsTypeCorrect`, `QueuedCorrect`, `ShownCorrect`, `HonestCorrect`, `CancelsCorrect`, `SearchesCorrect` | `Spec => []TypeOK`, `[]QueuedHasContent`, `[]LatestShown`, `[]AnswersHonest`, `[]CancelsWhatWaits`, `[]SearchesExact` |
| `MailSubmissionProofs!SubmissionImplements` | `SubmissionSpec => Spec` of `MessageRequests` (`ImplementsRequests`) |
| `MailSubmissionProofs!SubmissionSafe`, `RequestsStaySafe` | `SubmissionSpec => []PostInv`, `SubmissionSpec => []RequestInv` |
| `...!PostTypeCorrect`, `ClientVerifiedCorrect`, `AcceptsAlikeCorrect`, `GoesToItsOwnCorrect`, `AcceptedCorrect`, `DueCorrect`, `ShownAsAskedCorrect` | `SubmissionSpec => []` `PostTypeOK`, `ClientVerified`, `AcceptsAlike`, `GoesToItsOwn`, `AcceptedIsStored`, `DueWhenAsked`, `ShownAsAsked` |

**The inductive invariant of the records.** `CompletedMeansDelivered` alone is not inductive: a
`completed` about to be written by `onCompleted` depends on what `SaveResult` did many steps
before, and what an update writes depends on the row it read before others wrote. `RecordInv` adds
`Knows(call[c])`, what an operation in progress may rely on: the status it read is in the history (so
leaving out the record of an unchanged status loses nothing), a call at `delivered`, `finish` or
`completed` has a send result on record, a call at `purge` follows a recorded completion or
removal. Two facts carry the induction: rows only grow (a send result is never unset, histories
never shrink: lemmas `UpdateAdds`, `Preserved`), so an interleaved step cannot invalidate what a call
knows; and most steps touch no row and give a call nothing new to know (`Quiet`, `QuietStep`). What
is left is one lemma for each step that writes a row, reads one, or enters one of those places.
`RecordInv` is checked by TLC in `lapses`, where two workers share a message.

**What owners asked for, and the refinement.** A record of a cancellation is written many steps after
the client was compared with the owner, and a bulk query compares in the database, not at the job.
`PromiseInv` says of each step of an operation in progress what the owner must have asked for by then
(`Entitled`), of each message that such records were asked for, and that nothing is known of a message
before it is stored (`Justified`). `Implements` follows from it and `RecordInv`: a step that writes a
row is a status update, a send result or a drop of the content; each is a step of `MailDelivery` on that
one message or changes nothing there (`StatusDelivers`, `RecordDelivers`, `PatchDelivers`), its guard in
`MailDelivery` is what the invariants say of the call, and every other step is a stutter.

**The inductive invariant of the queue.** That no message is sent twice depends on who holds which job
while a retry, a cancellation and an enqueue that nobody waits for are all in progress. `QueueInv` has

* `LockInv`: a replica has one worker, and, unless Redis forgot something, a worker has the lock of an
  active job;
* `AddsFirst`: while an enqueue of a message nobody promoted is under way, the message has no job, no
  receipt, no removal, and other operations on it are yet to look for the job. This is where the
  message's id as job id matters: the enqueue that is last to finish must still be the first to add;
* `StaysRemoved`: after its removal a message has no job, no worker and no enqueue under way;
* `OneReceipt`: after its receipt the job is gone, or with a worker past the receipt, and nobody is
  at a step before one;
* `CaredFor`: an unsettled message has a job, or an operation that adds it or is about to record why
  there is none.

Every step of a call has one of seven shapes (`Talks`, `Adds`, `Removes`, `Promotes`, `Sends`,
`Finishes`, `Fails`; lemmas `TalkShapes`, `QueueShapes`, `FailureShapes`), and there is one lemma for
each shape, for what Bull and Redis do to a job, for a process that dies, and for the API.

**Copies.** `CopiesBounded` counts what left over all attempts, replicas and crashes, and so cannot be read
off any one step. `CopiesInv` bounds the copies by what Bull has counted against the job: `attemptsMade + stalls`,
and one more for the attempt in progress once it is past the server; a worker that has yet to send
finds no such one. It is inductive only with `QueueInv`: by `AddsFirst` the job is added once and before
the first copy, so its counters never start anew, and by `LockInv` there is one worker on it, so a failure or
a stall counts the copy it may have sent.

**The content of what is queued.** `ContentInv` says that a message with a job, or with one about to be added, has
its email, and that no listener on its way to `updateContent` is about. Such a listener begins with the job's
removal or completion; by `AddsFirst` no enqueue of the message is under way then, so nothing but a promotion
adds the job again, and by `LockInv` a worker whose attempt fails puts back only a job that is there. Most steps can neither queue a message nor send a call to drop its email (`ContentStays`).

**The replicas.** `AliveInv` says that no process that is gone has an operation in progress. With it and
`LockInv`, which gives a replica one worker, the shapes of a call's steps (`CallShapes`) and what a step does to
its process (`ModeAfter`: nothing, or an unhandled rejection shuts it down, and never one of a worker's) tell
which step of `ReplicaProcess` each step is. In `AppLifecycle` that needs no more than the types: what start-up
and a probe conclude keeps a shutdown (`VerdictStep`), and jobs start only in a replica without one (`JobStep`).

**Nothing goes round.** `RunsDown` is the part of `JobsEnd` and `EventuallySettled` that needs no fairness. It
gives each job and each operation a natural number (`JobLeftBounded`, `CallLeftBounded`) and says that every step
that changes it lowers that number: of a job, an attempt or a stall outweighs the way from the delayed set to
a worker that it begins again, because both are counted, up to `MaxAttempts` and `MaxStalls`; of an operation, a
rejection leads a worker to `fail` and everything else to its end. It holds with faults, lapses, crashes and
promotions. So a job changes at most `6 * (MaxAttempts + MaxStalls + 1)` times and an operation takes at most 16
steps; that the next step comes is what fairness adds. It is stated for the theorem only.

**The inductive invariants of the lifecycle.** A replica is mounted by a probe that found the queue, so
Bull's clients existed when that probe began; they exist because the worker was attached, or because an
early probe named them, which is still running or has shut the replica down (`AttachInv`). Only cleanup
ends the process, cleanup follows a shutdown, and whatever shuts down sets the exit code or is a signal
(`ExitInv`). Once the queue has closed the worker is idle and, the replica being shut down, takes no job
again (`CleanupInv`).

**The inductive invariant of the requests.** What a job finds when it runs depends on what happened to
the row while it waited. `RequestInv` says that every job's message is stored and is its client's
(`JobsOwned`), that a job under an upper-case id is one a promotion recovered (`UpperIsOdd`), that what
is queued has its email, and that a row with a send result reads completed and any other reads like its
newest entry (`Steady`). `StepInv` reduces every action that stores nothing to two questions: does each row
stay a steady row of its client, and is each job an old one or one of a message's client with its email
there. The answers to the first come from three lemmas about rows (`RecordedSteady`, `PurgedKeeps`,
`CompletedRow`). `AnswersHonest` and `CancelsWhatWaits` follow from `JobsOwned` and `UpperIsOdd`, since queue and
database then agree whose a message is; `SearchesExact` from what the validators leave of a parameter
(`ColumnFits`).

**The inductive invariant of a POST.** `PostInv` is what each step has made sure of: past `Admit` the token
is verified and names the client; past `Validate` the body is sound and nothing throws; a 500 under
configured keys is the handler's; each message has its row, its job, and no earlier time than its
delay gives (`StoredAs`). The rest is about operators, for every body: a sound body has contexts that are
contexts (`SoundContexts`), a message's own fields are those of its asker (`OwnFields`, `AskedFor`), the validators
agree (`TakenAlike`), the envelope keeps what is to be sent (`EnvelopeKeeps`). TLC checks both invariants'
parts in `requests`, as the properties that follow from them.

**Only model-checked.** Liveness, which TLAPS does not reach: `EventuallySettled`, `JobsEnd`, `ContentPurged`,
`ShutdownExits`, `OutageExits`, `CalmServes`. They rest on weak fairness, and so on `ENABLED`; `RunsDown` is as far as the proofs go. Every safety
and action property and every refinement of a passing run has a theorem.

## 10. What is not modelled

* What a library decides: whether a token verifies, what nunjucks renders, whether a string is an address. Each
  is a constant or part of the input.
* The order of recipients and attachments, the content of errors, and the numbers `0` and values `false` and
  `null` where the code asks for truthiness (a `delayTS` of 0 is modelled).
* The further fields of a body, `html`, `text`, `replyTo` and whatever else a client adds: they pass the
  validators and the merge, are stored in the row's JSON, and `createEnvelope` hands them to the
  mailer. `Body` has the fields that the validators name.
* Rounding: a delay is the exact difference of two integers, where JavaScript rounds numbers beyond 2^53.
* The status history that a response shows, beyond its newest entry.
* The health endpoint.
* The choice between a pooled SMTP transport and one per message; sending in devMode (Ethereal), which bypasses
  database and queue, beyond what it is answered.
* The routes of health and docs, getters and setters, and logging.
* The reset of the pool by one request's error as seen by other requests' transactions:
  `AppLifecycle` has its effect on probes and on start-up's check only; for `MailDispatch` it is one of
  `OperationFails`.
* `createdAt`, by which the status history is sorted for a client.

## 11. Plan

In the order of what matters most:

1. *Done*: the dispatch of a message with its faults and crashes; its abstract specification; the
   process lifecycle; the requests; a POST with authentication, validation, merge and envelope.
2. *Done*: proofs of type correctness, of every invariant the passing runs check, of
   `CancelledIsNotSent`, that the dispatch implements `MailDelivery` and that a POST refines the requests; that
   copies are bounded, that what is queued has its email, that the replicas are those of `AppLifecycle`,
   that jobs and operations run down.
3. `StatusLog`: histories as sequences ordered by `createdAt`, what `getStatus` and `findStatuses` show
   of concurrent updates. Bounds: two concurrent updates of one message.
   The `Content-Location` of a cancellation or promotion points to the status search with the same
   query, which no longer finds the messages if the query names their status: to be stated there.
4. `PoolReset`: requests, the worker and a 5xx error share one pool that is destroyed and made anew; every
   handler that answers 500 resets it.

New runs share the existing configurations where they can: `races` and `merge` take further invariants
at no cost in states.
