----------------------- MODULE MessageRequestsProofs -----------------------
(***************************************************************************)
(* The safety of MessageRequests for any number of messages, transactions, *)
(* clients, tags and parameters, and with both bounds at any value.        *)
(***************************************************************************)
EXTENDS MessageRequests, TLAPS

\* A job's message is stored, and is its client's.
JobsOwned ==
    \A id \in JobIds :
        jobs[id] # NoJob => id.x \in stored /\ jobs[id].client = rows[id.x].client

\* A job under an id in upper case is one that a promotion recovered.
UpperIsOdd ==
    \A id \in JobIds : jobs[id] # NoJob /\ id.upper => id.x \in odd

\* What is sent reads completed; what is not reads like its newest entry.
Steady(r) == IF r.sendResult THEN r.status = "completed" ELSE r.status = r.latest

AllSteady == \A m \in stored : Steady(rows[m])

\* The inductive invariant.
RequestInv ==
    /\ TypeOK
    /\ JobsOwned
    /\ UpperIsOdd
    /\ QueuedHasContent
    /\ AllSteady

-----------------------------------------------------------------------------
(* What happens to a row. *)

\* A status update leaves everything but the status and the newest entry.
LEMMA RecordedKeeps ==
    ASSUME NEW r \in Message, NEW q \in QueueState
    PROVE  /\ Recorded(r, q) \in Message
           /\ Recorded(r, q).client = r.client
           /\ Recorded(r, q).email = r.email
           /\ Recorded(r, q).sendResult = r.sendResult
<1>1. queueToStatus(q) \in StatusState
  BY DEF queueToStatus, QueueState, StatusState
<1>. QED
  BY <1>1 DEF Recorded, Message

\* Nor does it make a row unsteady: once there is a send result, the status is
\* completed, and only another completed could replace it.
LEMMA RecordedSteady ==
    ASSUME NEW r \in Message, NEW q \in QueueState, Steady(r)
    PROVE  Steady(Recorded(r, q))
<1>1. queueToStatus(q) \in StatusState
  BY DEF queueToStatus, QueueState, StatusState
<1>. QED
  BY <1>1, RecordedKeeps DEF Recorded, Message, Steady, MayPatch, readMessage

\* Purging takes at most the email.
LEMMA PurgedKeeps ==
    ASSUME NEW r \in Message, NEW j
    PROVE  /\ Purged(r, j) \in Message
           /\ Purged(r, j).client = r.client
           /\ Steady(r) => Steady(Purged(r, j))
BY DEF Purged, deleteMessageEmail, Message, Steady

\* The row of a message whose worker is done.
LEMMA CompletedRow ==
    ASSUME NEW r \in Message, NEW j, Steady(r)
    PROVE  LET sent == Purged(Recorded(Recorded(updateMessageSendResult(r), "delivered"),
                                       "completed"), j)
           IN  sent \in Message /\ sent.client = r.client /\ Steady(sent)
<1>. DEFINE saved == updateMessageSendResult(r)
            delivered == Recorded(saved, "delivered")
            done == Recorded(delivered, "completed")
<1>1. saved \in Message /\ saved.client = r.client /\ saved.sendResult
  BY DEF updateMessageSendResult, Message
<1>2. /\ delivered \in Message /\ delivered.client = r.client /\ delivered.sendResult
      /\ done \in Message /\ done.client = r.client /\ done.sendResult
  BY <1>1, RecordedKeeps DEF QueueState
<1>3. done.status = "completed"
  <2>1. queueToStatus("completed") = "completed"
    BY DEF queueToStatus
  <2>. HIDE DEF delivered
  <2>. QED
    BY <1>2, <2>1 DEF Recorded, Message, MayPatch
<1>4. Steady(done)
  BY <1>2, <1>3 DEF Steady
<1>. QED
  BY <1>2, <1>4, PurgedKeeps

-----------------------------------------------------------------------------
(* Each action keeps the invariant. *)

\* What each of these proofs opens.
LEMMA InvParts ==
    ASSUME RequestInv
    PROVE  /\ stored \subseteq Messages /\ odd \subseteq stored
           /\ rows \in [Messages -> Message \cup {NoMessage}]
           /\ \A m \in stored : rows[m] \in Message /\ Steady(rows[m])
           /\ jobs \in [JobIds -> Job \cup {NoJob}]
           /\ \A id \in JobIds :
                 jobs[id] # NoJob =>
                    /\ jobs[id] \in Job /\ id.x \in stored
                    /\ jobs[id].client = rows[id.x].client
                    /\ id.upper => id.x \in odd
                    /\ id.x \notin odd => rows[id.x].email
BY DEF RequestInv, TypeOK, JobsOwned, UpperIsOdd, QueuedHasContent, AllSteady

\* Initially there is nothing.
LEMMA InitInv == Init => RequestInv
BY DEF Init, RequestInv, TypeOK, JobsOwned, UpperIsOdd, QueuedHasContent, AllSteady,
       NoJob, NoMessage

\* What a new message's row and job look like.
LEMMA SendInv ==
    ASSUME RequestInv,
           NEW client \in Clients, NEW S \in SUBSET Messages, NEW trxn \in Trxns,
           NEW tag \in [S -> {Absent, Empty, Malformed} \cup Text(Tags)], NEW delayed,
           send(client, S, trxn, tag, delayed)
    PROVE  RequestInv'
<1>. DEFINE new(m) == [status |-> "accepted", latest |-> "accepted", email |-> TRUE,
                       sendResult |-> FALSE, client |-> client,
                       tag |-> tag[m], trxn |-> trxn]
<1>. USE InvParts
<1>1. \A m \in S : new(m) \in Message /\ Steady(new(m))
  BY DEF Message, StatusState, Steady
<1>2. \A m \in S : /\ rows'[m] = Recorded(new(m), "enqueued")
                   /\ rows'[m] \in Message /\ Steady(rows'[m])
                   /\ rows'[m].client = client /\ rows'[m].email
  <2>. SUFFICES ASSUME NEW m \in S
                PROVE  /\ rows'[m] = Recorded(new(m), "enqueued")
                       /\ rows'[m] \in Message /\ Steady(rows'[m])
                       /\ rows'[m].client = client /\ rows'[m].email
    OBVIOUS
  <2>1. rows'[m] = Recorded(new(m), "enqueued")
    BY DEF send
  <2>2. new(m).client = client /\ new(m).email
    OBVIOUS
  <2>3. new(m) \in Message /\ Steady(new(m)) /\ "enqueued" \in QueueState
    BY <1>1 DEF QueueState
  <2>. HIDE DEF new
  <2>4. /\ Recorded(new(m), "enqueued") \in Message
        /\ Recorded(new(m), "enqueued").client = client
        /\ Recorded(new(m), "enqueued").email
    BY <2>2, <2>3, RecordedKeeps
  <2>5. Steady(Recorded(new(m), "enqueued"))
    BY <2>3, RecordedSteady
  <2>. QED
    BY <2>1, <2>4, <2>5
<1>3. \A m \in Messages \ S : rows'[m] = rows[m]
  BY DEF send
<1>. HIDE DEF new
<1>4. TypeOK'
  <2>1. rows' \in [Messages -> Message \cup {NoMessage}]
    BY <1>2, <1>3 DEF send
  <2>2. jobs' \in [JobIds -> Job \cup {NoJob}]
    BY DEF send, Job
  <2>. QED
    BY <1>2, <1>3, <2>1, <2>2 DEF send, TypeOK
<1>5. \A id \in JobIds :
         jobs'[id] # NoJob =>
            \/ id.x \in S /\ ~id.upper /\ jobs'[id].client = client
            \/ id.x \notin S /\ jobs'[id] = jobs[id]
  BY DEF send, JobIds, Id
<1>6. JobsOwned' /\ UpperIsOdd' /\ QueuedHasContent'
  BY <1>2, <1>3, <1>5 DEF JobsOwned, UpperIsOdd, QueuedHasContent, JobIds, Id, send
<1>7. AllSteady'
  BY <1>2, <1>3 DEF AllSteady, send
<1>. QED
  BY <1>4, <1>6, <1>7 DEF RequestInv

\* A change of rows that leaves each stored message a steady row of its client.
Safe(m) ==
    /\ rows'[m] \in Message
    /\ rows'[m].client = rows[m].client
    /\ Steady(rows'[m])

\* An action that stores nothing keeps the invariant if every row stays a row
\* of its client and every job is one there was, or a new one of a message's
\* client, whose email is there.
LEMMA StepInv ==
    ASSUME RequestInv,
           stored' = stored, odd \subseteq odd', odd' \subseteq stored,
           rows' \in [Messages -> Message \cup {NoMessage}],
           jobs' \in [JobIds -> Job \cup {NoJob}],
           \A m \in stored : Safe(m),
           \A id \in JobIds :
              jobs'[id] # NoJob =>
                 /\ id.x \in stored /\ jobs'[id].client = rows[id.x].client
                 /\ id.upper => id.x \in odd'
                 /\ id.x \notin odd' => rows'[id.x].email
    PROVE  RequestInv'
BY InvParts DEF RequestInv, TypeOK, JobsOwned, UpperIsOdd, QueuedHasContent, AllSteady, Safe

LEMMA DelayEndsInv ==
    ASSUME RequestInv, NEW id \in JobIds, delayEnds(id)
    PROVE  RequestInv'
<1>1. \A other \in JobIds :
         /\ jobs'[other] # NoJob => jobs[other] # NoJob
         /\ jobs'[other] # NoJob => jobs'[other].client = jobs[other].client
         /\ jobs'[other] \in Job \cup {NoJob}
  BY InvParts DEF delayEnds, Job, NoJob
<1>2. jobs' \in [JobIds -> Job \cup {NoJob}]
  BY <1>1, InvParts DEF delayEnds
<1>. QED
  BY <1>1, <1>2, InvParts, StepInv DEF delayEnds, Safe

LEMMA OnProcessInv ==
    ASSUME RequestInv, NEW id \in JobIds, onProcess(id)
    PROVE  RequestInv'
<1>1. \A other \in JobIds :
         /\ jobs'[other] # NoJob => jobs[other] # NoJob
         /\ jobs'[other] # NoJob => jobs'[other].client = jobs[other].client
         /\ jobs'[other] \in Job \cup {NoJob}
  BY InvParts DEF onProcess, Job, NoJob
<1>2. jobs' \in [JobIds -> Job \cup {NoJob}]
  BY <1>1, InvParts DEF onProcess
<1>3. jobs[id] # NoJob /\ id.x \in stored /\ rows[id.x] \in Message /\ Steady(rows[id.x])
  BY InvParts DEF onProcess, NoJob
<1>4. /\ rows'[id.x] \in Message /\ rows'[id.x].client = rows[id.x].client
      /\ rows'[id.x].email = rows[id.x].email /\ Steady(rows'[id.x])
  <2>1. rows'[id.x] = Recorded(rows[id.x], "processing")
    BY <1>3, InvParts DEF onProcess
  <2>2. "processing" \in QueueState
    BY DEF QueueState
  <2>3. Steady(Recorded(rows[id.x], "processing"))
    BY <1>3, <2>2, RecordedSteady
  <2>. QED
    BY <1>3, <2>1, <2>2, <2>3, RecordedKeeps
<1>5. \A m \in Messages : m # id.x => rows'[m] = rows[m]
  BY InvParts DEF onProcess
<1>6. rows' \in [Messages -> Message \cup {NoMessage}]
  BY <1>4, <1>5, InvParts DEF onProcess
<1>7. \A m \in stored : Safe(m) /\ rows'[m].email = rows[m].email
  BY <1>4, <1>5, InvParts DEF Safe
<1>8. stored' = stored /\ odd' = odd
  BY DEF onProcess
<1>9. \A other \in JobIds :
         jobs'[other] # NoJob =>
            /\ other.x \in stored /\ jobs'[other].client = rows[other.x].client
            /\ other.upper => other.x \in odd'
            /\ other.x \notin odd' => rows'[other.x].email
  BY <1>1, <1>7, <1>8, InvParts
<1>. QED
  BY <1>2, <1>6, <1>7, <1>8, <1>9, InvParts, StepInv

\* The job ends, and no other one needs the message's email.
LEMMA OnCompletedInv ==
    ASSUME RequestInv, NEW id \in JobIds, onCompleted(id)
    PROVE  RequestInv'
<1>1. \A other \in JobIds :
         /\ jobs'[other] # NoJob => other # id /\ jobs'[other] = jobs[other]
         /\ jobs'[other] \in Job \cup {NoJob}
  BY InvParts DEF onCompleted, NoJob
<1>2. jobs' \in [JobIds -> Job \cup {NoJob}]
  BY <1>1, InvParts DEF onCompleted
<1>3. jobs[id] # NoJob /\ id.x \in stored /\ rows[id.x] \in Message /\ Steady(rows[id.x])
  BY InvParts DEF onCompleted, NoJob
<1>4. rows'[id.x] \in Message /\ rows'[id.x].client = rows[id.x].client /\ Steady(rows'[id.x])
  <2>1. rows'[id.x] =
          Purged(Recorded(Recorded(updateMessageSendResult(rows[id.x]), "delivered"),
                          "completed"), jobs[id])
    BY <1>3, InvParts DEF onCompleted
  <2>. QED
    BY <1>3, <2>1, CompletedRow
<1>5. \A m \in Messages : m # id.x => rows'[m] = rows[m]
  BY InvParts DEF onCompleted
<1>6. rows' \in [Messages -> Message \cup {NoMessage}]
  BY <1>4, <1>5, InvParts DEF onCompleted
<1>7. \A m \in stored : Safe(m)
  BY <1>4, <1>5, InvParts DEF Safe
<1>8. stored' = stored /\ odd' = odd
  BY DEF onCompleted
<1>9. \A other \in JobIds :
         other # id /\ jobs[other] # NoJob /\ other.x = id.x => id.x \in odd
  <2>1. \A other \in JobIds : other.x = id.x /\ other.upper = id.upper => other = id
    BY DEF JobIds, Id
  <2>2. \A other \in JobIds : other.upper \in BOOLEAN
    BY DEF JobIds, Id
  <2>. QED
    BY <1>3, <2>1, <2>2, InvParts
<1>10. \A other \in JobIds :
         jobs'[other] # NoJob =>
            /\ other.x \in stored /\ jobs'[other].client = rows[other.x].client
            /\ other.upper => other.x \in odd'
            /\ other.x \notin odd' => rows'[other.x].email
  BY <1>1, <1>5, <1>8, <1>9, InvParts DEF JobIds, Id
<1>. QED
  BY <1>2, <1>6, <1>7, <1>8, <1>10, InvParts, StepInv

LEMMA OnFailedInv ==
    ASSUME RequestInv, NEW id \in JobIds, onFailed(id)
    PROVE  RequestInv'
<1>1. \A other \in JobIds :
         /\ jobs'[other] # NoJob => jobs[other] # NoJob
         /\ jobs'[other] # NoJob => jobs'[other].client = jobs[other].client
         /\ jobs'[other] \in Job \cup {NoJob}
  <2>1. jobs[id] # NoJob /\ jobs[id] \in Job
    BY InvParts DEF onFailed, NoJob
  <2>2. PICK next \in {NoJob, [jobs[id] EXCEPT !.state = "delayed", !.failed = TRUE]} :
          jobs' = [jobs EXCEPT ![id] = next]
    BY DEF onFailed
  <2>3. next \in Job \cup {NoJob} /\ (next # NoJob => next.client = jobs[id].client)
    BY <2>1, <2>2 DEF Job
  <2>. QED
    BY <2>1, <2>2, <2>3, InvParts
<1>2. jobs' \in [JobIds -> Job \cup {NoJob}]
  BY <1>1, InvParts DEF onFailed
<1>3. jobs[id] # NoJob /\ id.x \in stored /\ rows[id.x] \in Message /\ Steady(rows[id.x])
  BY InvParts DEF onFailed, NoJob
<1>4. /\ rows'[id.x] \in Message /\ rows'[id.x].client = rows[id.x].client
      /\ rows'[id.x].email = rows[id.x].email /\ Steady(rows'[id.x])
  <2>1. rows'[id.x] = Recorded(rows[id.x], "failed")
    BY <1>3, InvParts DEF onFailed
  <2>2. "failed" \in QueueState
    BY DEF QueueState
  <2>3. Steady(Recorded(rows[id.x], "failed"))
    BY <1>3, <2>2, RecordedSteady
  <2>. QED
    BY <1>3, <2>1, <2>2, <2>3, RecordedKeeps
<1>5. \A m \in Messages : m # id.x => rows'[m] = rows[m]
  BY InvParts DEF onFailed
<1>6. rows' \in [Messages -> Message \cup {NoMessage}]
  BY <1>4, <1>5, InvParts DEF onFailed
<1>7. \A m \in stored : Safe(m) /\ rows'[m].email = rows[m].email
  BY <1>4, <1>5, InvParts DEF Safe
<1>8. stored' = stored /\ odd' = odd
  BY DEF onFailed
<1>9. \A other \in JobIds :
         jobs'[other] # NoJob =>
            /\ other.x \in stored /\ jobs'[other].client = rows[other.x].client
            /\ other.upper => other.x \in odd'
            /\ other.x \notin odd' => rows'[other.x].email
  BY <1>1, <1>7, <1>8, InvParts
<1>. QED
  BY <1>2, <1>6, <1>7, <1>8, <1>9, InvParts, StepInv

\* Cancelling the client's jobs under ids in lower case.
LEMMA RemovesInv ==
    ASSUME RequestInv, NEW client \in Clients, NEW ids \in SUBSET JobIds, Removes(ids),
           \A id \in ids : IsOwn(client, id) /\ ~id.upper
    PROVE  RequestInv'
<1>1. /\ jobs' = [id \in JobIds |-> IF id \in ids THEN NoJob ELSE jobs[id]]
      /\ stored' = stored /\ odd' = odd
  BY DEF Removes
<1>2. jobs' \in [JobIds -> Job \cup {NoJob}]
  BY <1>1, InvParts
<1>3. \A id \in ids : id.x \in stored
  BY InvParts DEF IsOwn
<1>4. \A m \in Messages :
         IF \E id \in ids : id.x = m
         THEN \E j : rows'[m] = Purged(Recorded(rows[m], "removed"), j)
         ELSE rows'[m] = rows[m]
  BY DEF Removes
<1>5. \A m \in stored : Safe(m)
  <2>. SUFFICES ASSUME NEW m \in stored  PROVE Safe(m)
    OBVIOUS
  <2>1. rows[m] \in Message /\ Steady(rows[m]) /\ m \in Messages /\ "removed" \in QueueState
    BY InvParts DEF QueueState
  <2>2. CASE \E id \in ids : id.x = m
    <3>1. PICK j : rows'[m] = Purged(Recorded(rows[m], "removed"), j)
      BY <1>4, <2>1, <2>2
    <3>2. /\ Recorded(rows[m], "removed") \in Message
          /\ Recorded(rows[m], "removed").client = rows[m].client
      BY <2>1, RecordedKeeps
    <3>3. Steady(Recorded(rows[m], "removed"))
      BY <2>1, RecordedSteady
    <3>. QED
      BY <3>1, <3>2, <3>3, PurgedKeeps DEF Safe
  <2>3. CASE ~\E id \in ids : id.x = m
    BY <1>4, <2>1, <2>3 DEF Safe
  <2>. QED
    BY <2>2, <2>3
<1>6. rows' \in [Messages -> Message \cup {NoMessage}]
  <2>1. \A m \in Messages : rows'[m] \in Message \cup {NoMessage}
    BY <1>3, <1>4, <1>5, InvParts DEF Safe
  <2>. QED
    BY <2>1 DEF Removes
<1>7. \A other \in JobIds :
         jobs'[other] # NoJob =>
            /\ other.x \in stored /\ jobs'[other].client = rows[other.x].client
            /\ other.upper => other.x \in odd'
            /\ other.x \notin odd' => rows'[other.x].email
  <2>. SUFFICES ASSUME NEW other \in JobIds, jobs'[other] # NoJob
                PROVE  /\ other.x \in stored /\ jobs'[other].client = rows[other.x].client
                       /\ other.upper => other.x \in odd'
                       /\ other.x \notin odd' => rows'[other.x].email
    OBVIOUS
  <2>1. other \notin ids /\ jobs'[other] = jobs[other] /\ jobs[other] # NoJob
    BY <1>1
  <2>2. other.x \notin odd => ~\E id \in ids : id.x = other.x
    <3>1. \A id \in ids : id.x = other.x /\ ~other.upper => id = other
      BY DEF JobIds, Id
    <3>. QED
      BY <2>1, <3>1, InvParts
  <2>. QED
    BY <1>1, <1>4, <2>1, <2>2, InvParts
<1>. QED
  BY <1>1, <1>2, <1>5, <1>6, <1>7, InvParts, StepInv

\* Promoting delayed jobs, and enqueueing messages whose email is there.
LEMMA PromotesInv ==
    ASSUME RequestInv, NEW client \in Clients,
           NEW ids \in SUBSET JobIds, NEW lost \in SUBSET JobIds,
           Promotes(client, ids, lost),
           \A id \in ids : jobs[id] # NoJob,
           \A id \in lost : Recoverable(client, id),
           odd \subseteq odd', odd' \subseteq stored,
           \A id \in lost : id.upper => id.x \in odd'
    PROVE  RequestInv'
<1>1. /\ jobs' = [id \in JobIds |->
                    IF id \in ids THEN [jobs[id] EXCEPT !.state = "waiting"]
                    ELSE IF id \in lost
                         THEN [state |-> "waiting", client |-> client, failed |-> FALSE]
                         ELSE jobs[id]]
      /\ stored' = stored
  BY DEF Promotes
<1>2. \A id \in lost : /\ id.x \in stored /\ rows[id.x].client = client
                       /\ rows[id.x].email
  BY DEF Recoverable, messageExists, Owns
<1>3. \A id \in ids : id.x \in stored
  BY InvParts
<1>4. \A m \in Messages :
         \/ rows'[m] = rows[m]
         \/ m \in stored /\ rows'[m] = Recorded(rows[m], "promoted")
         \/ m \in stored /\ rows'[m] = Recorded(Recorded(rows[m], "promoted"), "enqueued")
  BY <1>2, <1>3 DEF Promotes
<1>5. \A m \in stored : Safe(m) /\ rows'[m].email = rows[m].email
  <2>. SUFFICES ASSUME NEW m \in stored
                PROVE  Safe(m) /\ rows'[m].email = rows[m].email
    OBVIOUS
  <2>. DEFINE promotion == Recorded(rows[m], "promoted")
              again == Recorded(promotion, "enqueued")
  <2>1. /\ rows[m] \in Message /\ Steady(rows[m]) /\ m \in Messages
        /\ "promoted" \in QueueState /\ "enqueued" \in QueueState
    BY InvParts DEF QueueState
  <2>2. /\ promotion \in Message /\ promotion.client = rows[m].client
        /\ promotion.email = rows[m].email
    BY <2>1, RecordedKeeps
  <2>3. Steady(promotion)
    BY <2>1, RecordedSteady
  <2>. HIDE DEF promotion
  <2>4. /\ again \in Message /\ again.client = rows[m].client
        /\ again.email = rows[m].email
    BY <2>1, <2>2, RecordedKeeps
  <2>5. Steady(again)
    BY <2>1, <2>2, <2>3, RecordedSteady
  <2>6. rows'[m] \in {rows[m], promotion, again}
    BY <1>4, <2>1 DEF promotion
  <2>. HIDE DEF again
  <2>. QED
    BY <2>1, <2>2, <2>3, <2>4, <2>5, <2>6 DEF Safe
<1>6. rows' \in [Messages -> Message \cup {NoMessage}]
  <2>1. \A m \in Messages : rows'[m] \in Message \cup {NoMessage}
    BY <1>4, <1>5, InvParts DEF Safe
  <2>. QED
    BY <2>1 DEF Promotes
<1>7. \A id \in JobIds : jobs'[id] \in Job \cup {NoJob}
  <2>. SUFFICES ASSUME NEW id \in JobIds  PROVE jobs'[id] \in Job \cup {NoJob}
    OBVIOUS
  <2>1. CASE id \in ids
    BY <1>1, <2>1, InvParts DEF Job
  <2>2. CASE id \notin ids
    BY <1>1, <2>2, InvParts DEF Job
  <2>. QED
    BY <2>1, <2>2
<1>8. jobs' \in [JobIds -> Job \cup {NoJob}]
  BY <1>1, <1>7
<1>9. \A id \in JobIds :
         jobs'[id] # NoJob =>
            /\ id.x \in stored /\ jobs'[id].client = rows[id.x].client
            /\ id.upper => id.x \in odd'
            /\ id.x \notin odd' => rows'[id.x].email
  <2>. SUFFICES ASSUME NEW id \in JobIds, jobs'[id] # NoJob
                PROVE  /\ id.x \in stored /\ jobs'[id].client = rows[id.x].client
                       /\ id.upper => id.x \in odd'
                       /\ id.x \notin odd' => rows'[id.x].email
    OBVIOUS
  <2>1. CASE id \in ids
    <3>1. jobs[id] \in Job /\ jobs[id] # NoJob
      BY <2>1, InvParts
    <3>2. jobs'[id].client = jobs[id].client
      BY <1>1, <2>1, <3>1 DEF Job
    <3>. QED
      BY <1>5, <3>1, <3>2, InvParts
  <2>2. CASE id \notin ids /\ id \in lost
    BY <1>1, <1>2, <1>5, <2>2
  <2>3. CASE id \notin ids /\ id \notin lost
    <3>1. jobs'[id] = jobs[id]
      BY <1>1, <2>3
    <3>. QED
      BY <1>5, <3>1, InvParts
  <2>. QED
    BY <2>1, <2>2, <2>3
<1>. QED
  BY <1>1, <1>5, <1>6, <1>8, <1>9, InvParts, StepInv

\* The alternatives of both codes exclude each other; an id is never malformed.
LEMMA Codes ==
    ASSUME NEW client, NEW p \in JobIds
    PROVE  /\ cancelCode(client, p) =
                LET id == toLowerCase(p)
                IN  IF jobs[id] = NoJob
                    THEN IF messageExists(client, id.x) THEN 409 ELSE 404
                    ELSE IF jobs[id].client # client THEN 403
                         ELSE IF jobs[id].state = "delayed" THEN 202 ELSE 409
           /\ promoteCode(client, p) =
                IF jobs[p] = NoJob
                THEN IF ~messageExists(client, p.x) THEN 404
                     ELSE IF Recoverable(client, p) THEN 202 ELSE 409
                ELSE IF jobs[p].client # client THEN 403
                     ELSE IF jobs[p].state = "delayed" THEN 202 ELSE 409
           /\ toLowerCase(p) = inLowerCase(p.x) /\ toLowerCase(p) \in JobIds
<1>1. queryParam(p)
  BY DEF queryParam, Malformed, JobIds, Id
<1>2. toLowerCase(p) = inLowerCase(p.x) /\ toLowerCase(p) \in JobIds
  BY DEF toLowerCase, inLowerCase, JobIds, Id
<1>3. cancelCode(client, p) =
         LET id == toLowerCase(p)
         IN  IF jobs[id] = NoJob
             THEN IF messageExists(client, id.x) THEN 409 ELSE 404
             ELSE IF jobs[id].client # client THEN 403
                  ELSE IF jobs[id].state = "delayed" THEN 202 ELSE 409
  <2>1. CASE jobs[toLowerCase(p)] = NoJob
    BY <1>1, <2>1 DEF cancelCode, IsOwn
  <2>2. CASE jobs[toLowerCase(p)] # NoJob /\ jobs[toLowerCase(p)].client # client
    BY <1>1, <2>2 DEF cancelCode, IsOwn
  <2>3. CASE jobs[toLowerCase(p)] # NoJob /\ jobs[toLowerCase(p)].client = client
    BY <1>1, <2>3 DEF cancelCode, IsOwn
  <2>. QED
    BY <2>1, <2>2, <2>3
<1>4. promoteCode(client, p) =
         IF jobs[p] = NoJob
         THEN IF ~messageExists(client, p.x) THEN 404
              ELSE IF Recoverable(client, p) THEN 202 ELSE 409
         ELSE IF jobs[p].client # client THEN 403
              ELSE IF jobs[p].state = "delayed" THEN 202 ELSE 409
  <2>1. CASE jobs[p] = NoJob
    BY <1>1, <2>1 DEF promoteCode, IsOwn
  <2>2. CASE jobs[p] # NoJob /\ jobs[p].client # client
    BY <1>1, <2>2 DEF promoteCode, IsOwn
  <2>3. CASE jobs[p] # NoJob /\ jobs[p].client = client
    BY <1>1, <2>3 DEF promoteCode, IsOwn
  <2>. QED
    BY <2>1, <2>2, <2>3
<1>. QED
  BY <1>2, <1>3, <1>4

\* Nor does anything else change what the invariant says.
LEMMA NextInv == RequestInv /\ [Next]_vars => RequestInv'
<1>. SUFFICES ASSUME RequestInv, [Next]_vars
              PROVE  RequestInv'
  OBVIOUS
<1>1. CASE UNCHANGED vars
  BY <1>1 DEF vars, RequestInv, TypeOK, JobsOwned, UpperIsOdd, QueuedHasContent, AllSteady
<1>2. ASSUME NEW client \in Clients, NEW S \in SUBSET (Messages \ stored), NEW trxn \in Trxns,
             NEW tag \in [S -> {Absent, Empty, Malformed} \cup Text(Tags)], NEW delayed,
             send(client, S, trxn, tag, delayed)
      PROVE  RequestInv'
  <2>1. S \in SUBSET Messages
    OBVIOUS
  <2>. QED
    BY <1>2, <2>1, SendInv
<1>3. ASSUME NEW id \in JobIds,
             delayEnds(id) \/ onProcess(id) \/ onCompleted(id) \/ onFailed(id)
      PROVE  RequestInv'
  BY <1>3, DelayEndsInv, OnProcessInv, OnCompletedInv, OnFailedInv
<1>4. ASSUME NEW client \in Clients, NEW p \in JobIds, cancelMessage(client, p)
      PROVE  RequestInv'
  <2>1. toLowerCase(p) \in JobIds /\ ~toLowerCase(p).upper
    BY DEF toLowerCase, inLowerCase, JobIds, Id
  <2>2. IsOwn(client, toLowerCase(p))
    BY <1>4, Codes DEF cancelMessage, IsOwn
  <2>. QED
    BY <1>4, <2>1, <2>2, RemovesInv DEF cancelMessage
<1>5. ASSUME NEW client \in Clients, NEW p \in JobIds, promoteMessage(client, p)
      PROVE  RequestInv'
  <2>1. Recoverable(client, p) \/ jobs[p] # NoJob
    BY <1>5, Codes DEF promoteMessage
  <2>2. CASE ~Recoverable(client, p)
    <3>1. Promotes(client, {p}, {}) /\ odd' = odd
      BY <1>5, <2>2 DEF promoteMessage
    <3>. QED
      BY <2>1, <2>2, <3>1, InvParts, PromotesInv
  <2>3. CASE Recoverable(client, p)
    <3>1. /\ Promotes(client, {}, {p})
          /\ odd' = IF p.upper THEN odd \cup {p.x} ELSE odd
      BY <1>5, <2>3 DEF promoteMessage
    <3>2. p.x \in stored
      BY <2>3 DEF Recoverable, messageExists, Owns
    <3>. QED
      BY <2>3, <3>1, <3>2, InvParts, PromotesInv
  <2>. QED
    BY <2>2, <2>3
<1>6. ASSUME NEW client \in Clients, NEW found \in SUBSET stored,
             findCancelMessages(client, found) \/ findPromoteMessages(client, found)
      PROVE  RequestInv'
  <2>1. Id(found) \subseteq JobIds
    BY InvParts DEF Id, JobIds
  <2>2. CASE findCancelMessages(client, found)
    BY <2>1, <2>2, RemovesInv DEF findCancelMessages, DelayedOf
  <2>3. CASE findPromoteMessages(client, found)
    <3>1. /\ Promotes(client, DelayedOf(client, found), RecoverableOf(client, found))
          /\ odd' = odd
      BY <2>3 DEF findPromoteMessages
    <3>2. /\ DelayedOf(client, found) \in SUBSET JobIds
          /\ RecoverableOf(client, found) \in SUBSET JobIds
          /\ \A id \in DelayedOf(client, found) : jobs[id] # NoJob
          /\ \A id \in RecoverableOf(client, found) : Recoverable(client, id) /\ ~id.upper
      BY <2>1 DEF DelayedOf, RecoverableOf, IsOwn
    <3>. QED
      BY <3>1, <3>2, InvParts, PromotesInv
  <2>. QED
    BY <1>6, <2>2, <2>3
<1>7. \A client, where : findMessagesByQuery(client, where) \in SUBSET stored
  BY DEF findMessagesByQuery
<1>. QED
  BY <1>1, <1>2, <1>3, <1>4, <1>5, <1>6, <1>7 DEF Next

-----------------------------------------------------------------------------
(* The theorems. *)

\* The invariant holds of every run.
THEOREM RequestsSafe == Spec => []RequestInv
BY InitInv, NextInv, PTL DEF Spec

\* Every variable of MessageRequests keeps its type.
THEOREM RequestsTypeCorrect == Spec => []TypeOK
<1>1. RequestInv => TypeOK
  BY DEF RequestInv
<1>. QED
  BY <1>1, RequestsSafe, PTL

\* A job in the queue still has the email that is to be sent (updateContent and
\* recoverMessage never part them).
THEOREM QueuedCorrect == Spec => []QueuedHasContent
<1>1. RequestInv => QueuedHasContent
  BY DEF RequestInv
<1>. QED
  BY <1>1, RequestsSafe, PTL

\* The status that getStatus shows is the newest entry of its history.
THEOREM ShownCorrect == Spec => []LatestShown
<1>1. RequestInv => LatestShown
  BY InvParts DEF LatestShown, Steady
<1>. QED
  BY <1>1, RequestsSafe, PTL

\* 403 and 404 are answered only of what is not the client's, success and
\* conflict only of what is: the queue and the database agree whose it is.
THEOREM HonestCorrect == Spec => []AnswersHonest
<1>1. RequestInv => AnswersHonest
  <2>. SUFFICES ASSUME RequestInv, NEW client \in Clients, NEW p \in JobIds
                PROVE  {cancelCode(client, p), promoteCode(client, p), statusCode(client, p)}
                          \subseteq IF Owns(client, p.x) THEN {200, 202, 409} ELSE {403, 404}
    BY DEF AnswersHonest
  <2>1. /\ toLowerCase(p) \in JobIds /\ toLowerCase(p).x = p.x
        /\ queryParam(p)
    BY Codes DEF inLowerCase, queryParam, Malformed, JobIds, Id
  <2>2. \A id \in JobIds :
           jobs[id] # NoJob => (jobs[id].client = client <=> Owns(client, id.x))
    BY InvParts DEF Owns
  <2>3. cancelCode(client, p) \in IF Owns(client, p.x) THEN {200, 202, 409} ELSE {403, 404}
    BY <2>1, <2>2, Codes DEF messageExists
  <2>4. promoteCode(client, p) \in IF Owns(client, p.x) THEN {200, 202, 409} ELSE {403, 404}
    BY <2>2, Codes DEF messageExists
  <2>5. statusCode(client, p) \in IF Owns(client, p.x) THEN {200, 202, 409} ELSE {403, 404}
    BY <2>1 DEF statusCode, messageExists
  <2>. QED
    BY <2>3, <2>4, <2>5
<1>. QED
  BY <1>1, RequestsSafe, PTL

\* An owner who cancels what waits for its time is not refused, in whatever
\* case the id is written.
THEOREM CancelsCorrect == Spec => []CancelsWhatWaits
<1>1. RequestInv => CancelsWhatWaits
  <2>. SUFFICES ASSUME RequestInv, NEW client \in Clients, NEW p \in JobIds,
                       Owns(client, p.x), p.x \notin odd, HasJob(p.x, "delayed")
                PROVE  cancelCode(client, p) = 202
    BY DEF CancelsWhatWaits
  <2>1. PICK id \in JobIds : id.x = p.x /\ jobs[id].state = "delayed"
    BY DEF HasJob
  <2>2. jobs[id] # NoJob /\ ~id.upper /\ jobs[id].client = client
    BY <2>1, InvParts DEF NoJob, Owns
  <2>3. id = toLowerCase(p)
    BY <2>1, <2>2, Codes DEF inLowerCase, JobIds, Id
  <2>. QED
    BY <2>1, <2>2, <2>3, Codes
<1>. QED
  BY <1>1, RequestsSafe, PTL

\* A column is compared with a parameter just if the parameter is named, and as
\* the client meant it.
LEMMA ColumnFits ==
    ASSUME NEW query \in Query, searchQuery(query), ~SearchFails(query),
           NEW m, rows[m] \in Message
    PROVE  (\A f \in parameters(query) : column(m, f) = toLowerCase(query[f])) <=>
              /\ query.msgId = Absent \/ (query.msgId.is = "id" /\ query.msgId.x = m)
              /\ query.txId = Absent
                 \/ (query.txId.is = "id" /\ query.txId.x = rows[m].trxn)
              /\ query.tag \in {Absent, rows[m].tag}
              /\ query.status \in {Absent, [is |-> "text", x |-> rows[m].status]}
<1>. DEFINE fits(f) == query[f] = Absent \/ column(m, f) = toLowerCase(query[f])
<1>1. (\A f \in parameters(query) : column(m, f) = toLowerCase(query[f])) <=>
         fits("msgId") /\ fits("txId") /\ fits("tag") /\ fits("status")
  BY DEF parameters, Fields
<1>2. /\ query.msgId \in {Absent} \cup Id(Messages) /\ query.txId \in {Absent} \cup Id(Trxns)
      /\ query.tag \in {Absent, Empty} \cup Text(Tags)
      /\ query.status \in {Absent, Empty} \cup Text(StatusState)
  <2>1. \A f \in Fields : query[f] # Malformed
    BY DEF searchQuery, searchQueryFields, queryParam
  <2>2. query.msgId # Empty /\ query.txId # Empty
    BY DEF SearchFails, parameters, Fields, Empty, Absent
  <2>. QED
    BY <2>1, <2>2 DEF Query, Fields
<1>3. fits("msgId") <=> query.msgId = Absent \/ (query.msgId.is = "id" /\ query.msgId.x = m)
  BY <1>2 DEF column, toLowerCase, inLowerCase, Id, Absent
<1>4. fits("txId") <=> query.txId = Absent
                       \/ (query.txId.is = "id" /\ query.txId.x = rows[m].trxn)
  BY <1>2 DEF column, toLowerCase, inLowerCase, Id, Absent
<1>5. fits("tag") <=> query.tag \in {Absent, rows[m].tag}
  <2>1. toLowerCase(query.tag) = query.tag
    BY <1>2 DEF toLowerCase, Absent, Empty, Text
  <2>. QED
    BY <2>1 DEF column
<1>6. fits("status") <=> query.status \in {Absent, [is |-> "text", x |-> rows[m].status]}
  <2>1. toLowerCase(query.status) = query.status
    BY <1>2 DEF toLowerCase, Absent, Empty, Text
  <2>. QED
    BY <2>1 DEF column
<1>. QED
  BY <1>1, <1>3, <1>4, <1>5, <1>6

\* A search is about exactly the messages of the client that it describes.
THEOREM SearchesCorrect == Spec => []SearchesExact
<1>1. RequestInv => SearchesExact
  <2>. SUFFICES ASSUME RequestInv, NEW search \in Searches
                PROVE  /\ Named(search.query) # {}
                       /\ \A client \in Clients :
                             findMessagesByQuery(client, search.where)
                                = Described(client, search.query)
    BY DEF SearchesExact
  <2>1. PICK query \in Queries :
           /\ SearchCode(query, 200) = 200
           /\ search = [query |-> query,
                        where |-> [f \in parameters(query) |-> toLowerCase(query[f])]]
    BY DEF Searches
  <2>2. searchQuery(query) /\ ~SearchFails(query) /\ query \in Query
    BY <2>1 DEF SearchCode, Queries
  <2>3. ASSUME NEW client \in Clients, NEW m \in stored
        PROVE  m \in findMessagesByQuery(client, search.where)
                  <=> m \in Described(client, query)
    <3>1. rows[m] \in Message
      BY InvParts
    <3>2. (\A f \in DOMAIN search.where : column(m, f) = search.where[f]) <=>
             (\A f \in parameters(query) : column(m, f) = toLowerCase(query[f]))
      BY <2>1
    <3>. QED
      BY <2>2, <3>1, <3>2, ColumnFits DEF findMessagesByQuery, Described
  <2>4. Named(query) # {}
    BY <2>2 DEF searchQuery
  <2>. QED
    BY <2>1, <2>3, <2>4 DEF findMessagesByQuery, Described
<1>. QED
  BY <1>1, RequestsSafe, PTL

=============================================================================
