-------------------------- MODULE MessageRequests --------------------------
(***************************************************************************)
(* What the requests about messages mean and what they are answered: the   *)
(* validators and routes of cancel, promote and status, and the searches   *)
(* behind them.  A request that changes anything is one action here; how   *)
(* its steps interleave is the subject of MailDispatch.  What a request is *)
(* answered is an operator of the state it meets.                          *)
(*                                                                         *)
(* A client may write an id in lower or upper case.  Postgres compares     *)
(* uuids, so it finds the row either way.  Bull compares strings, and the  *)
(* ids of its jobs are those the service gave the rows, in lower case.     *)
(***************************************************************************)
EXTENDS MessageStore, RequestValues, Naturals, FiniteSets

CONSTANTS
    Messages,   \* the ids of messages that are or may come to be stored
    Trxns,      \* the ids of transactions
    Clients,    \* the authorized parties
    MaxNamed,   \* bound on the parameters a search names
    MaxWithOdd  \* bound on the messages stored beside one recovered under an
                \* id in upper case, with that one

ASSUME RequestsAssumption == MaxNamed \in Nat /\ MaxWithOdd \in Nat

VARIABLES
    stored,     \* the messages that are in the database
    rows,       \* their rows
    jobs,       \* Bull's jobs, by the string that is their id
    odd         \* history: the messages recovered under an id in upper case

vars == <<stored, rows, jobs, odd>>

-----------------------------------------------------------------------------
(* Parameters. *)

\* The ids that jobs may get: message ids as somebody wrote them.
JobIds == Id(Messages)

inLowerCase(x) == [is |-> "id", x |-> x, upper |-> FALSE]

\* Mutated: the route passes the id on as the client wrote it.
asWritten(p) == p

\* x?.toLowerCase()
toLowerCase(p) == IF p.is = "id" THEN inLowerCase(p.x) ELSE p

Fields == {"msgId", "status", "tag", "txId"}

Query == [msgId: {Absent, Empty, Malformed} \cup Id(Messages),
          status: {Absent, Empty, Malformed} \cup Text(StatusState),
          tag: {Absent, Empty, Malformed} \cup Text(Tags),
          txId: {Absent, Empty, Malformed} \cup Id(Trxns)]

Named(query) == {f \in Fields : query[f] # Absent}

Queries == {query \in Query : Cardinality(Named(query)) <= MaxNamed}

\* The validators look only at what is truthy.
queryParam(p) == p # Malformed

searchQueryFields(query) == \A f \in Fields : queryParam(query[f])

\* cancelQuery, promoteQuery and statusQuery are the same.
searchQuery(query) == Named(query) # {} /\ searchQueryFields(query)

-----------------------------------------------------------------------------
(* The database and the queue. *)

NoJob == [state |-> "none"]

\* `failed': has an attempt failed, so that the job has a failedReason?
Job == [state: {"delayed", "waiting", "active"}, client: Clients, failed: BOOLEAN]

\* `latest' is the newest Status record; the rest of the histories is
\* MailDispatch's subject.  Nobody validates the tag of a template.
Message == [status: StatusState, latest: StatusState,
            email: BOOLEAN, sendResult: BOOLEAN,
            client: Clients, tag: {Absent, Empty, Malformed} \cup Text(Tags), trxn: Trxns]

NoMessage == [stored |-> FALSE]

TypeOK ==
    /\ stored \subseteq Messages
    /\ rows \in [Messages -> Message \cup {NoMessage}]
    /\ \A m \in stored : rows[m] \in Message
    /\ jobs \in [JobIds -> Job \cup {NoJob}]
    /\ odd \subseteq stored

Init ==
    /\ stored = {}
    /\ rows = [m \in Messages |-> NoMessage]
    /\ jobs = [id \in JobIds |-> NoJob]
    /\ odd = {}

Owns(client, m) == m \in stored /\ rows[m].client = client

\* Mutated: the search forgets whose messages it is about.
messageExistsAnywhere(client, m) == m \in stored

messageExists(client, m) == Owns(client, m)

\* Mutated: parameters that are empty are dropped too.
parametersNotEmpty(query) == {f \in Fields : query[f] \notin {Absent, Empty}}

\* dropUndefinedObject
parameters(query) == {f \in Fields : query[f] # Absent}

\* Postgres rejects the empty string for a uuid.
SearchFails(query) ==
    \E f \in parameters(query) \cap {"msgId", "txId"} : query[f] = Empty

column(m, f) ==
    CASE f = "msgId" -> inLowerCase(m)
      [] f = "txId" -> inLowerCase(rows[m].trxn)
      [] f = "tag" -> rows[m].tag
      [] f = "status" -> [is |-> "text", x |-> rows[m].status]

\* Postgres reads a uuid in either case.
findMessagesByQuery(client, where) ==
    {m \in stored : Owns(client, m) /\ \A f \in DOMAIN where : column(m, f) = where[f]}

\* Mutated: the queue's state is stored as the business status.
RecordedUntranslated(r, q) ==
    IF MayPatch(readMessage(r), queueToStatus(q)) THEN [r EXCEPT !.status = q] ELSE r

\* Mutated: a Status record is written only if there is a description.
RecordedIfDescribed(r, q) ==
    LET business == queueToStatus(q)
    IN  [r EXCEPT
           !.status = IF MayPatch(readMessage(r), business) THEN business ELSE @,
           !.latest = IF HasDescription(q) THEN business ELSE @]

\* A status update that nothing interleaves with.
Recorded(r, q) ==
    LET business == queueToStatus(q)
        reported == HasDescription(q) \/ r.status # business
    IN  [r EXCEPT
           !.status = IF reported /\ MayPatch(readMessage(r), business)
                      THEN business ELSE @,
           !.latest = IF reported THEN business ELSE @]

\* onRemoved and onCompleted: updateContent keeps the email of a job that has
\* a failedReason and attempts left.
Purged(r, j) == IF j.failed THEN r ELSE deleteMessageEmail(r)

HasJob(m, state) ==
    \E id \in JobIds : id.x = m /\ jobs[id].state = state

-----------------------------------------------------------------------------
(* Messages come, wait and go. *)

\* POST /email, and POST /emailMerge with a context for each message of S.
send(client, S, trxn, tag, delayed) ==
    /\ S # {}
    /\ S \cap stored = {}
    /\ odd # {} => Cardinality(stored \cup S) <= MaxWithOdd
    /\ \A m \in stored : rows[m].trxn # trxn
    /\ stored' = stored \cup S
    /\ rows' = [m \in Messages |->
                  IF m \in S
                  THEN Recorded([status |-> "accepted", latest |-> "accepted",
                                 email |-> TRUE,
                                 sendResult |-> FALSE, client |-> client,
                                 tag |-> tag[m], trxn |-> trxn], "enqueued")
                  ELSE rows[m]]
    /\ jobs' = [id \in JobIds |->
                  IF id.x \in S /\ ~id.upper
                  THEN [state |-> IF id.x \in delayed THEN "delayed" ELSE "waiting",
                        client |-> client, failed |-> FALSE]
                  ELSE jobs[id]]
    /\ UNCHANGED odd

delayEnds(id) ==
    /\ jobs[id].state = "delayed"
    /\ jobs' = [jobs EXCEPT ![id].state = "waiting"]
    /\ UNCHANGED <<stored, rows, odd>>

onProcess(id) ==
    /\ jobs[id].state = "waiting"
    /\ jobs' = [jobs EXCEPT ![id].state = "active"]
    /\ rows' = [rows EXCEPT ![id.x] = Recorded(@, "processing")]
    /\ UNCHANGED <<stored, odd>>

onCompleted(id) ==
    /\ jobs[id].state = "active"
    /\ rows[id.x].email
    /\ jobs' = [jobs EXCEPT ![id] = NoJob]
    /\ rows' = [rows EXCEPT ![id.x] =
                  Purged(Recorded(Recorded(updateMessageSendResult(@), "delivered"),
                                  "completed"), jobs[id])]
    /\ UNCHANGED <<stored, odd>>

\* The job waits for another attempt, or that was the last one.
onFailed(id) ==
    /\ jobs[id].state = "active"
    /\ \E next \in {NoJob, [jobs[id] EXCEPT !.state = "delayed", !.failed = TRUE]} :
          jobs' = [jobs EXCEPT ![id] = next]
    /\ rows' = [rows EXCEPT ![id.x] = Recorded(@, "failed")]
    /\ UNCHANGED <<stored, odd>>

-----------------------------------------------------------------------------
(* The effects of requests. *)

IsOwn(client, id) == jobs[id] # NoJob /\ jobs[id].client = client

\* removeJob on the jobs of ids.
Removes(ids) ==
    LET ofMessage(m) == CHOOSE id \in ids : id.x = m
    IN  /\ jobs' = [id \in JobIds |-> IF id \in ids THEN NoJob ELSE jobs[id]]
        /\ rows' = [m \in Messages |->
                      IF \E id \in ids : id.x = m
                      THEN Purged(Recorded(rows[m], "removed"), jobs[ofMessage(m)])
                      ELSE rows[m]]
        /\ UNCHANGED <<stored, odd>>

\* promoteJob on the delayed jobs of ids; and for the ids of lost, which have no
\* job, the promotion is recorded and the message enqueued without a delay.
Promotes(client, ids, lost) ==
    /\ jobs' = [id \in JobIds |->
                  IF id \in ids THEN [jobs[id] EXCEPT !.state = "waiting"]
                  ELSE IF id \in lost
                       THEN [state |-> "waiting", client |-> client, failed |-> FALSE]
                       ELSE jobs[id]]
    /\ rows' = [m \in Messages |->
                  IF \E id \in ids : id.x = m THEN Recorded(rows[m], "promoted")
                  ELSE IF \E id \in lost : id.x = m
                       THEN Recorded(Recorded(rows[m], "promoted"), "enqueued")
                       ELSE rows[m]]
    /\ UNCHANGED stored

-----------------------------------------------------------------------------
(* Requests for one message: p is the id in the path. *)

\* DELETE /cancel/:msgId
cancelCode(client, p) ==
    LET id == toLowerCase(p)
    IN  CASE ~queryParam(p) -> 422
          [] queryParam(p) /\ jobs[id] = NoJob ->
                IF messageExists(client, id.x) THEN 409 ELSE 404
          [] queryParam(p) /\ jobs[id] # NoJob /\ ~IsOwn(client, id) -> 403
          [] queryParam(p) /\ IsOwn(client, id) ->
                IF jobs[id].state = "delayed" THEN 202 ELSE 409

cancelMessage(client, p) ==
    /\ cancelCode(client, p) = 202
    /\ Removes({toLowerCase(p)})

\* Mutated: nobody looks whether the email is still there.
RecoverableBlindly(client, p) == jobs[p] = NoJob /\ messageExists(client, p.x)

\* There is no such job, and the email is still in the database.
Recoverable(client, p) ==
    jobs[p] = NoJob /\ messageExists(client, p.x) /\ rows[p.x].email

\* POST /promote/:msgId, whose route leaves the id as it is written.
promoteCode(client, p) ==
    CASE ~queryParam(p) -> 422
      [] queryParam(p) /\ jobs[p] = NoJob ->
            IF ~messageExists(client, p.x) THEN 404
            ELSE IF Recoverable(client, p) THEN 202 ELSE 409
      [] queryParam(p) /\ jobs[p] # NoJob /\ ~IsOwn(client, p) -> 403
      [] queryParam(p) /\ IsOwn(client, p) ->
            IF jobs[p].state = "delayed" THEN 202 ELSE 409

promoteMessage(client, p) ==
    /\ promoteCode(client, p) = 202
    /\ \/ /\ ~Recoverable(client, p)
          /\ Promotes(client, {p}, {})
          /\ UNCHANGED odd
       \/ /\ Recoverable(client, p)
          /\ Promotes(client, {}, {p})
          /\ odd' = IF p.upper THEN odd \cup {p.x} ELSE odd
          /\ odd' # {} => Cardinality(stored) <= MaxWithOdd

\* GET /status/:msgId
statusCode(client, p) ==
    IF ~queryParam(p) THEN 422
    ELSE IF messageExists(client, toLowerCase(p).x) THEN 200 ELSE 404

-----------------------------------------------------------------------------
(* Searches. *)

\* `code' is the answer to a search that is all right.
SearchCode(query, code) ==
    IF ~searchQuery(query) THEN 422 ELSE IF SearchFails(query) THEN 500 ELSE code

\* The searches that reach the database, with the parameters they have left.
Searches == {[query |-> q, where |-> [f \in parameters(q) |-> toLowerCase(q[f])]] :
                q \in {query \in Queries : SearchCode(query, 200) = 200}}

\* The ids are those of the rows, so they are in lower case.
DelayedOf(client, found) ==
    {id \in Id(found) : ~id.upper /\ IsOwn(client, id) /\ jobs[id].state = "delayed"}

RecoverableOf(client, found) ==
    {id \in Id(found) : ~id.upper /\ Recoverable(client, id)}

Wheres == {search.where : search \in Searches}

\* DELETE /cancel: what cannot be cancelled is left alone.
findCancelMessages(client, found) ==
    /\ DelayedOf(client, found) # {}
    /\ Removes(DelayedOf(client, found))

\* POST /promote
findPromoteMessages(client, found) ==
    /\ DelayedOf(client, found) \cup RecoverableOf(client, found) # {}
    /\ Promotes(client, DelayedOf(client, found), RecoverableOf(client, found))
    /\ UNCHANGED odd

-----------------------------------------------------------------------------

Next ==
    \/ \E client \in Clients, S \in SUBSET (Messages \ stored), trxn \in Trxns :
          \E tag \in [S -> {Absent, Empty, Malformed} \cup Text(Tags)], delayed \in SUBSET S :
              send(client, S, trxn, tag, delayed)
    \/ \E id \in JobIds :
          delayEnds(id) \/ onProcess(id) \/ onCompleted(id) \/ onFailed(id)
    \/ \E client \in Clients, p \in JobIds :
          cancelMessage(client, p) \/ promoteMessage(client, p)
    \/ \E client \in Clients :
          \E found \in {findMessagesByQuery(client, where) : where \in Wheres} :
              findCancelMessages(client, found) \/ findPromoteMessages(client, found)

Spec == Init /\ [][Next]_vars

-----------------------------------------------------------------------------

\* The client's messages with every property the query names: what the client
\* asked about, whatever the service makes of it.
Described(client, query) ==
    {m \in stored :
        /\ Owns(client, m)
        /\ query.msgId = Absent \/ (query.msgId.is = "id" /\ query.msgId.x = m)
        /\ query.txId = Absent \/ (query.txId.is = "id" /\ query.txId.x = rows[m].trxn)
        /\ query.tag \in {Absent, rows[m].tag}
        /\ query.status \in {Absent, [is |-> "text", x |-> rows[m].status]}}

\* A search is about exactly those messages of its client that have every
\* property it names, in whatever case ids are written: nothing gets lost
\* between the validators, the route and the database.  One that names
\* nothing, and so would be about all of them, is refused.
SearchesExact ==
    \A search \in Searches :
        /\ Named(search.query) # {}
        /\ \A client \in Clients :
              findMessagesByQuery(client, search.where) = Described(client, search.query)

\* The answer to a request for one message tells whose it is: 403 and 404 only
\* of what is not the client's, success and conflict only of what is.
AnswersHonest ==
    \A client \in Clients, p \in JobIds :
        {cancelCode(client, p), promoteCode(client, p), statusCode(client, p)}
            \subseteq IF Owns(client, p.x) THEN {200, 202, 409} ELSE {403, 404}

\* The status that is shown is the newest entry of the history that is shown
\* with it; except that what was sent and completed is shown as completed
\* whatever a later promotion of it comes to.  (Of updates that do not interleave,
\* and without a failure between sending and completing.)
LatestShown ==
    \A m \in stored :
        \/ rows[m].status = rows[m].latest
        \/ rows[m].sendResult /\ rows[m].status = "completed"

\* The owner's cancellation is refused only if nothing of the message waits for
\* its time, in whatever case its id is written.
CancelsWhatWaits ==
    \A client \in Clients, p \in JobIds :
        Owns(client, p.x) /\ p.x \notin odd /\ HasJob(p.x, "delayed") =>
            cancelCode(client, p) = 202

\* Whatever is cancelled, promoted, retried and recovered, a job's message still
\* has the email that its worker is to send; unless the message was recovered
\* under an upper case id, and has two jobs.
QueuedHasContent ==
    \A id \in JobIds :
        jobs[id] # NoJob /\ id.x \notin odd => rows[id.x].email

\* "Promotes message `messageId` if it is still waiting to send"
\* (services/chesSvc.js, promoteMessage): no worker has a message whose
\* promotion succeeds.
PromotesWhatWaits ==
    \A client \in Clients, p \in JobIds :
        HasJob(p.x, "active") => promoteCode(client, p) # 202

=============================================================================
