------------------------ MODULE MailDispatchRecords ------------------------
(***************************************************************************)
(* What the database says of a message is true and complete: the proof of  *)
(* the inductive invariant RecordInv of MailDispatch, and of the           *)
(* properties that follow from it.                                         *)
(***************************************************************************)
EXTENDS MailDispatchProofs

-----------------------------------------------------------------------------
(* A status update. *)

\* Only the queue's "completed" is the business's.
LEMMA CompletedOnly ==
    \A q \in QueueState : queueToStatus(q) = "completed" => q = "completed"
BY DEF QueueState, queueToStatus

\* An update that acts on a status of the history, however old, adds its own
\* status to the history and takes none away.
LEMMA UpdateAdds ==
    ASSUME NEW r \in Row, NEW seen \in Snapshot, NEW q \in QueueState,
           seen.status \in r.statusHistory
    PROVE  /\ updateStatus(r, seen, q).statusHistory
                = r.statusHistory \cup {queueToStatus(q)}
           /\ updateStatus(r, seen, q).queueHistory = r.queueHistory \cup {q}
           /\ updateStatus(r, seen, q).status \in {r.status, queueToStatus(q)}
           /\ updateStatus(r, seen, q).email = r.email
           /\ updateStatus(r, seen, q).sendResult = r.sendResult
BY BusinessStatus DEF updateStatus, Row

\* Such an update keeps a row sound, if it reports completion only of a
\* message with a send result.
LEMMA UpdateSound ==
    ASSUME NEW r \in Row, NEW seen \in Snapshot, NEW q \in QueueState,
           seen.status \in r.statusHistory, RowSound(r),
           q = "completed" => r.sendResult
    PROVE  RowSound(updateStatus(r, seen, q))
<1>. DEFINE u == updateStatus(r, seen, q)
<1>1. /\ u.statusHistory = r.statusHistory \cup {queueToStatus(q)}
      /\ u.queueHistory = r.queueHistory \cup {q}
      /\ u.status \in {r.status, queueToStatus(q)}
      /\ u.email = r.email /\ u.sendResult = r.sendResult
  BY UpdateAdds
<1>. HIDE DEF u
<1>2. u.status \in u.statusHistory
  BY <1>1 DEF RowSound
<1>3. u.statusHistory = {queueToStatus(x) : x \in u.queueHistory}
  BY <1>1 DEF RowSound
<1>4. "completed" \in u.statusHistory => u.sendResult
  BY <1>1, CompletedOnly DEF RowSound
<1>5. ~u.email => u.statusHistory \cap {"completed", "cancelled"} # {}
  BY <1>1 DEF RowSound
<1>6. RowSound(u)
  BY <1>2, <1>3, <1>4, <1>5 DEF RowSound
<1>. QED
  BY <1>6 DEF u

-----------------------------------------------------------------------------
(* Rows only grow, so what a call knows stays true. *)

Grown(r, s) == /\ r.statusHistory \subseteq s.statusHistory
               /\ r.sendResult => s.sendResult

\* A step whose rows are sound and grown, and whose changed calls know what
\* they rely on, keeps the invariant.
LEMMA Preserved ==
    ASSUME TypeOK, RecordInv,
           \A m \in Messages : RowSound(row'[m]) /\ Grown(row[m], row'[m]),
           \A c \in Calls : call'[c] = call[c] \/ Knows(call[c])'
    PROVE  RecordInv'
<1>1. ASSUME NEW c \in Calls, call'[c] = call[c]
      PROVE  Knows(call[c])'
  <2>1. CASE call[c] = Idle
    BY <1>1, <2>1 DEF Knows
  <2>2. CASE call[c] # Idle
    <3>1. call[c].m \in Messages
      BY <2>2, Busy DEF TypeOK, CallsOK
    <3>2. Knows(call[c])
      BY DEF RecordInv
    <3>3. Grown(row[call[c].m], row'[call[c].m])
      BY <3>1
    <3>. QED
      BY <1>1, <2>2, <3>2, <3>3 DEF Knows, Grown
  <2>. QED
    BY <2>1, <2>2
<1>. QED
  BY <1>1 DEF RecordInv

\* The steps at which a call relies on nothing but the status it has read.
Quiet(k) ==
    k # Idle => ~k.seen.taken /\ k.at \notin {"delivered", "finish", "completed", "purge"}

\* A step that leaves the rows alone and leads calls to quiet steps keeps the
\* invariant.
LEMMA QuietStep ==
    ASSUME TypeOK, RecordInv, UNCHANGED row,
           \A c \in Calls : call'[c] = call[c] \/ Quiet(call'[c])
    PROVE  RecordInv'
<1>1. \A m \in Messages : RowSound(row'[m]) /\ Grown(row[m], row'[m])
  BY DEF RecordInv, Grown
<1>2. \A c \in Calls : Quiet(call'[c]) => Knows(call[c])'
  BY DEF Quiet, Knows
<1>. QED
  BY <1>1, <1>2, Preserved

\* Goto a quiet step changes one call to a quiet one.
LEMMA QuietGoto ==
    ASSUME TypeOK, NEW c \in Calls, call[c] # Idle, NEW step, Goto(c, step),
           step \notin {"delivered", "finish", "completed", "purge"}
    PROVE  \A d \in Calls : call'[d] = call[d] \/ Quiet(call'[d])
<1>1. call[c] \in Call
  BY Busy DEF TypeOK, CallsOK
<1>2. step # "idle" =>
        LET k == [call[c] EXCEPT !.at = step, !.seen = NoSnapshot]
        IN  ~k.seen.taken /\ k.at = step
  BY <1>1 DEF Call, NoSnapshot
<1>. QED
  BY <1>2 DEF Goto, Quiet, TypeOK

\* A rejection does no more.
LEMMA QuietReject ==
    ASSUME TypeOK, NEW c \in Calls, call[c] # Idle, Rejects(c)
    PROVE  \A d \in Calls : call'[d] = call[d] \/ Quiet(call'[d])
<1>1. PICK step \in {"fail", "idle"} : Goto(c, step)
  BY DEF Rejects
<1>. QED
  BY <1>1, QuietGoto

\* Nor does the start of an operation.
LEMMA QuietStart ==
    ASSUME TypeOK, NEW kind, NEW step \in {"add", "getJob"}, NEW client, NEW p,
           NEW S \in SUBSET Messages, Start(kind, step, client, p, S)
    PROVE  \A d \in Calls : call'[d] = call[d] \/ Quiet(call'[d])
BY DEF Start, Quiet, NoSnapshot

-----------------------------------------------------------------------------
(* The steps that do more. *)

\* One row changes, to a sound and grown one, and one call goes on to a step
\* at which it knows what it relies on.
LEMMA OneRow ==
    ASSUME TypeOK, TypeOK', RecordInv, NEW c \in Calls, call[c] # Idle,
           NEW r \in Row, row' = [row EXCEPT ![call[c].m] = r],
           RowSound(r), Grown(row[call[c].m], r),
           \A d \in Calls : call'[d] = call[d] \/ Knows(call[d])'
    PROVE  RecordInv'
<1>1. call[c].m \in Messages
  BY Busy DEF TypeOK, CallsOK
<1>2. \A m \in Messages : row'[m] = IF m = call[c].m THEN r ELSE row[m]
  BY <1>1 DEF TypeOK
<1>3. \A m \in Messages : RowSound(row'[m]) /\ Grown(row[m], row'[m])
  BY <1>2 DEF RecordInv, Grown
<1>. QED
  BY <1>3, Preserved

\* What a call that may commit a status update writes.
LEMMA RecordedSound ==
    ASSUME TypeOK, RecordInv, NEW c \in Calls, call[c] # Idle,
           call[c].at \in UpdateSteps, call[c].seen.taken
    PROVE  /\ Recorded(call[c]) \in Row
           /\ RowSound(Recorded(call[c]))
           /\ Grown(row[call[c].m], Recorded(call[c]))
           /\ queueToStatus(StateRecordedAt[call[c].at])
                 \in Recorded(call[c]).statusHistory
<1>. DEFINE k == call[c]
            q == StateRecordedAt[k.at]
<1>1. k \in Call /\ k.m \in Messages /\ row[k.m] \in Row
  BY Busy DEF TypeOK, CallsOK
<1>2. k.seen \in Snapshot
  BY <1>1 DEF Call, NoSnapshot
<1>3. q \in QueueState /\ (q = "completed" => k.at = "completed")
  BY DEF StateRecordedAt, UpdateSteps, QueueState
<1>4. Knows(k) /\ RowSound(row[k.m])
  BY <1>1 DEF RecordInv
<1>5. k.seen.status \in row[k.m].statusHistory
  BY <1>4 DEF Knows
<1>6. q = "completed" => row[k.m].sendResult
  BY <1>3, <1>4 DEF Knows
<1>7. Recorded(k) = updateStatus(row[k.m], k.seen, q)
  BY DEF Recorded
<1>. HIDE DEF q
<1>8. Recorded(k) \in Row
  BY <1>1, <1>2, <1>3, <1>7, RowOperators
<1>9. RowSound(Recorded(k))
  BY <1>1, <1>2, <1>3, <1>4, <1>5, <1>6, <1>7, UpdateSound
<1>10. /\ Recorded(k).statusHistory = row[k.m].statusHistory \cup {queueToStatus(q)}
       /\ Recorded(k).sendResult = row[k.m].sendResult
  BY <1>1, <1>2, <1>3, <1>5, <1>7, UpdateAdds
<1>11. Grown(row[k.m], Recorded(k)) /\ queueToStatus(q) \in Recorded(k).statusHistory
  BY <1>10 DEF Grown
<1>. QED
  BY <1>8, <1>9, <1>11 DEF q

\* A status update commits.
LEMMA WriteStatusKeeps ==
    ASSUME TypeOK, TypeOK', RecordInv, NEW c \in Calls, WriteStatus(c)
    PROVE  RecordInv'
<1>. DEFINE k == call[c]
            q == StateRecordedAt[k.at]
            step == StepAfter(k)
<1>1. k # Idle /\ k.at \in UpdateSteps /\ k.seen.taken
  BY DEF WriteStatus, AtUpdate
<1>2. k \in Call /\ k.m \in Messages
  BY <1>1, Busy DEF TypeOK, CallsOK
<1>3. /\ Recorded(k) \in Row /\ RowSound(Recorded(k))
      /\ Grown(row[k.m], Recorded(k))
      /\ queueToStatus(q) \in Recorded(k).statusHistory
  BY <1>1, RecordedSound
<1>4. row' = [row EXCEPT ![k.m] = Recorded(k)]
  BY DEF WriteStatus
<1>5. row'[k.m] = Recorded(k)
  BY <1>2, <1>4 DEF TypeOK
<1>6. Goto(c, step)
  BY DEF WriteStatus
<1>7. /\ step \in {"load", "finish", "add", "purge", "idle"}
      /\ step = "finish" => k.at = "delivered"
      /\ step = "purge" => k.at \in {"completed", "removed"}
  BY DEF StepAfter
<1>8. step = "finish" => row'[k.m].sendResult
  <2>1. step = "finish" => row[k.m].sendResult
    BY <1>1, <1>7 DEF RecordInv, Knows
  <2>. QED
    BY <1>3, <1>5, <2>1 DEF Grown
<1>9. step = "purge" => row'[k.m].statusHistory \cap {"completed", "cancelled"} # {}
  <2>1. step = "purge" => queueToStatus(q) \in {"completed", "cancelled"}
    BY <1>7 DEF StateRecordedAt, queueToStatus
  <2>. QED
    BY <1>3, <1>5, <2>1
<1>10. step # "idle" =>
         /\ call'[c].m = k.m /\ call'[c].at = step /\ ~call'[c].seen.taken
  BY <1>2, <1>6 DEF Goto, TypeOK, Call, NoSnapshot
<1>11. step = "idle" => call'[c] = Idle
  BY <1>6 DEF Goto, TypeOK
<1>12. Knows(call[c])'
  BY <1>7, <1>8, <1>9, <1>10, <1>11 DEF Knows
<1>13. \A d \in Calls : d # c => call'[d] = call[d]
  BY <1>6 DEF Goto, TypeOK
<1>. QED
  BY <1>1, <1>3, <1>4, <1>12, <1>13, OneRow

\* The send result is saved.
LEMMA SaveResultKeeps ==
    ASSUME TypeOK, TypeOK', RecordInv, NEW c \in Calls, SaveResult(c)
    PROVE  RecordInv'
<1>. DEFINE k == call[c]
            r == updateMessageSendResult(row[k.m])
<1>1. k # Idle /\ k \in Call /\ k.m \in Messages /\ row[k.m] \in Row
  BY Busy DEF SaveResult, At, TypeOK, CallsOK
<1>2. r \in Row /\ RowSound(r) /\ Grown(row[k.m], r) /\ r.sendResult
  BY <1>1, RowOperators DEF updateMessageSendResult, Row, RowSound, Grown, RecordInv
<1>3. row' = [row EXCEPT ![k.m] = r]
  BY DEF SaveResult
<1>4. Goto(c, "delivered")
  BY DEF SaveResult
<1>5. call'[c].m = k.m /\ call'[c].at = "delivered" /\ ~call'[c].seen.taken
  BY <1>1, <1>4 DEF Goto, TypeOK, Call, NoSnapshot
<1>6. row'[k.m] = r
  BY <1>1, <1>3 DEF TypeOK
<1>7. Knows(call[c])'
  BY <1>2, <1>5, <1>6 DEF Knows
<1>8. \A d \in Calls : d # c => call'[d] = call[d]
  BY <1>4 DEF Goto, TypeOK
<1>. HIDE DEF r
<1>. QED
  BY <1>1, <1>2, <1>3, <1>7, <1>8, OneRow

\* The email is dropped.
LEMMA PurgeKeeps ==
    ASSUME TypeOK, TypeOK', RecordInv, NEW c \in Calls, Purge(c)
    PROVE  RecordInv'
<1>. DEFINE k == call[c]
            r == deleteMessageEmail(row[k.m])
<1>1. k # Idle /\ k.at = "purge" /\ k \in Call /\ k.m \in Messages /\ row[k.m] \in Row
  BY Busy DEF Purge, At, TypeOK, CallsOK
<1>2. row[k.m].statusHistory \cap {"completed", "cancelled"} # {}
  BY <1>1 DEF RecordInv, Knows
<1>3. r \in Row /\ RowSound(r) /\ Grown(row[k.m], r)
  BY <1>1, <1>2, RowOperators DEF deleteMessageEmail, Row, RowSound, Grown, RecordInv
<1>4. row' = [row EXCEPT ![k.m] = r]
  BY DEF Purge
<1>5. \A d \in Calls : call'[d] = call[d] \/ Quiet(call'[d])
  BY <1>1, QuietGoto DEF Purge
<1>6. \A d \in Calls : Quiet(call'[d]) => Knows(call[d])'
  BY DEF Quiet, Knows
<1>. HIDE DEF r
<1>. QED
  BY <1>1, <1>3, <1>4, <1>5, <1>6, OneRow

\* A commit takes effect, but its operation fails.
LEMMA ReadBackFailsKeeps ==
    ASSUME TypeOK, TypeOK', RecordInv, NEW c \in Calls, ReadBackFails(c)
    PROVE  RecordInv'
<1>. DEFINE k == call[c]
            r == updateMessageSendResult(row[k.m])
<1>1. k # Idle /\ k \in Call /\ k.m \in Messages /\ row[k.m] \in Row
  BY Busy DEF ReadBackFails, TypeOK, CallsOK
<1>2. \A d \in Calls : call'[d] = call[d] \/ Quiet(call'[d])
  BY <1>1, QuietReject DEF ReadBackFails
<1>3. \A d \in Calls : Quiet(call'[d]) => Knows(call[d])'
  BY DEF Quiet, Knows
<1>4. CASE k.at \in UpdateSteps /\ k.seen.taken /\ row' = [row EXCEPT ![k.m] = Recorded(k)]
  BY <1>1, <1>2, <1>3, <1>4, RecordedSound, OneRow
<1>5. CASE row' = [row EXCEPT ![k.m] = r]
  <2>1. r \in Row /\ RowSound(r) /\ Grown(row[k.m], r)
    BY <1>1, RowOperators DEF updateMessageSendResult, Row, RowSound, Grown, RecordInv
  <2>. HIDE DEF r
  <2>. QED
    BY <1>1, <1>2, <1>3, <1>5, <2>1, OneRow
<1>. QED
  BY <1>4, <1>5 DEF ReadBackFails

\* updateStatus reads the row.
LEMMA ReadStatusKeeps ==
    ASSUME TypeOK, RecordInv, NEW c \in Calls, ReadStatus(c)
    PROVE  RecordInv'
<1>. DEFINE k == call[c]
<1>1. k # Idle /\ k \in Call /\ k.m \in Messages /\ k.at \in UpdateSteps
  BY Busy DEF ReadStatus, AtUpdate, TypeOK, CallsOK
<1>2. call'[c] = [k EXCEPT !.seen = readMessage(row[k.m])]
  BY DEF ReadStatus, TypeOK
<1>3. /\ call'[c].m = k.m /\ call'[c].at = k.at
      /\ call'[c].seen.status = row[k.m].status
  BY <1>1, <1>2 DEF Call, readMessage
<1>4. row' = row
  BY DEF ReadStatus
<1>5. Knows(k) /\ RowSound(row[k.m])
  BY <1>1 DEF RecordInv
<1>6. Knows(call[c])'
  BY <1>1, <1>3, <1>4, <1>5 DEF Knows, RowSound
<1>7. \A d \in Calls : d # c => call'[d] = call[d]
  BY DEF ReadStatus, TypeOK
<1>8. \A m \in Messages : RowSound(row'[m]) /\ Grown(row[m], row'[m])
  BY <1>4 DEF RecordInv, Grown
<1>. QED
  BY <1>6, <1>7, <1>8, Preserved

\* queue.getJob.
LEMMA GetJobKeeps ==
    ASSUME TypeOK, RecordInv, NEW c \in Calls, GetJob(c)
    PROVE  RecordInv'
<1>. DEFINE k == call[c]
<1>1. k # Idle /\ k \in Call /\ row' = row
  BY Busy DEF GetJob, At, TypeOK, CallsOK
<1>2. CASE job[k.m].state # "none" /\ MayTouch(k)
  <2>1. call' = [call EXCEPT ![c].at = "getState",
                             ![c].drops = DropsContent(job[k.m])]
    BY <1>2 DEF GetJob
  <2>2. call'[c].m = k.m /\ call'[c].at = "getState" /\ call'[c].seen = k.seen
    BY <1>1, <2>1 DEF TypeOK, Call
  <2>3. Knows(call[c])'
    BY <1>1, <2>2 DEF Knows, RecordInv
  <2>4. \A d \in Calls : d # c => call'[d] = call[d]
    BY <2>1 DEF TypeOK
  <2>5. \A m \in Messages : RowSound(row'[m]) /\ Grown(row[m], row'[m])
    BY <1>1 DEF RecordInv, Grown
  <2>. QED
    BY <2>3, <2>4, <2>5, Preserved
<1>3. CASE job[k.m].state # "none" /\ ~MayTouch(k)
  BY <1>1, <1>3, QuietReject, QuietStep DEF GetJob
<1>4. CASE job[k.m].state = "none"
  <2>1. PICK step \in {"recover", "recovered", "idle"} : Goto(c, step)
    BY <1>4 DEF GetJob
  <2>. QED
    BY <1>1, <2>1, QuietGoto, QuietStep
<1>. QED
  BY <1>2, <1>3, <1>4

\* Bull takes the completed job off the queue.
LEMMA FinishKeeps ==
    ASSUME TypeOK, RecordInv, NEW c \in Calls, Finish(c)
    PROVE  RecordInv'
<1>. DEFINE k == call[c]
<1>1. k # Idle /\ k \in Call /\ k.at = "finish" /\ row' = row
  BY Busy DEF Finish, At, TypeOK, CallsOK
<1>2. CASE HoldsLock(k)
  <2>1. call' = [call EXCEPT ![c].at = "completed",
                             ![c].drops = DropsContent(job[k.m])]
    BY <1>2 DEF Finish
  <2>2. call'[c].m = k.m /\ call'[c].at = "completed" /\ call'[c].seen = k.seen
    BY <1>1, <2>1 DEF TypeOK, Call
  <2>3. Knows(call[c])'
    BY <1>1, <2>2 DEF Knows, RecordInv
  <2>4. \A d \in Calls : d # c => call'[d] = call[d]
    BY <2>1 DEF TypeOK
  <2>5. \A m \in Messages : RowSound(row'[m]) /\ Grown(row[m], row'[m])
    BY <1>1 DEF RecordInv, Grown
  <2>. QED
    BY <2>3, <2>4, <2>5, Preserved
<1>3. CASE ~HoldsLock(k)
  BY <1>1, <1>3, QuietGoto, QuietStep DEF Finish
<1>. QED
  BY <1>2, <1>3

-----------------------------------------------------------------------------
(* The invariant and what follows from it. *)

\* What a call does when nothing goes wrong with it keeps the invariant.
LEMMA ProceedKeeps ==
    ASSUME TypeOK, TypeOK', RecordInv, NEW c \in Calls, Proceed(c)
    PROVE  RecordInv'
<1>. DEFINE k == call[c]
<1>1. CASE \/ Add(c) \/ GetState(c) \/ Remove(c) \/ Promote(c) \/ Recover(c)
           \/ Load(c) \/ Send(c) \/ Fail(c)
  <2>1. k # Idle /\ UNCHANGED row
    BY <1>1 DEF At, Add, GetState, Remove, Promote, Recover, Load, Send, Fail
  <2>2. \/ Rejects(c)
        \/ \E step \in {"enqueued", "remove", "promote", "removed", "promoted",
                        "recovered", "send", "result", "failed", "idle"} :
              Goto(c, step)
    BY <1>1 DEF Add, GetState, Remove, Promote, Recover, Load, Send, Fail
  <2>3. \A d \in Calls : call'[d] = call[d] \/ Quiet(call'[d])
    BY <2>1, <2>2, QuietGoto, QuietReject
  <2>. QED
    BY <2>1, <2>3, QuietStep
<1>. QED
  BY <1>1, GetJobKeeps, ReadStatusKeeps, WriteStatusKeeps, PurgeKeeps, SaveResultKeeps,
     FinishKeeps DEF Proceed

\* Every step keeps the invariant.
LEMMA RecordStep == TypeOK /\ TypeOK' /\ RecordInv /\ [Next]_vars => RecordInv'
<1>. SUFFICES ASSUME TypeOK, TypeOK', RecordInv, [Next]_vars
              PROVE  RecordInv'
  OBVIOUS
<1>1. ASSUME NEW p \in Procs, NEW client \in Clients, NEW S \in SUBSET Messages,
             \/ sendEmail(p, client, S) \/ sendEmailUnread(p, client, S)
             \/ findCancelMessages(p, client, S) \/ findPromoteMessages(p, client, S)
      PROVE  RecordInv'
  <2>1. UNCHANGED row
    BY <1>1 DEF sendEmail, sendEmailUnread, findCancelMessages, findPromoteMessages, Request
  <2>2. \/ UNCHANGED call
        \/ \E kind \in {"send", "bulkCancel", "bulkPromote"}, step \in {"add", "getJob"} :
              Start(kind, step, client, p, S)
    BY <1>1 DEF sendEmail, sendEmailUnread, findCancelMessages, findPromoteMessages, Request
  <2>3. \A d \in Calls : call'[d] = call[d] \/ Quiet(call'[d])
    BY <2>2, QuietStart
  <2>. QED
    BY <2>1, <2>3, QuietStep
<1>2. ASSUME NEW p \in Procs, NEW client \in Clients, NEW m \in Messages,
             cancelMessage(p, client, m) \/ promoteMessage(p, client, m)
      PROVE  RecordInv'
  <2>1. UNCHANGED row
    BY <1>2 DEF cancelMessage, promoteMessage, Request
  <2>2. \E kind \in {"cancel", "promote"} : Start(kind, "getJob", client, p, {m})
    BY <1>2 DEF cancelMessage, promoteMessage, Request
  <2>3. \A d \in Calls : call'[d] = call[d] \/ Quiet(call'[d])
    BY <2>2, QuietStart
  <2>. QED
    BY <2>1, <2>3, QuietStep
<1>3. ASSUME NEW c \in Calls, SendUnanswered(c) \/ OperationFails(c)
      PROVE  RecordInv'
  BY <1>3, QuietReject, QuietStep DEF SendUnanswered, OperationFails, At
<1>4. ASSUME NEW c \in Calls, NEW p \in Procs, NEW m \in Messages,
             Take(c, p, m) \/ StalledTooOften(c, p, m)
      PROVE  RecordInv'
  <2>1. UNCHANGED row
    BY <1>4 DEF Take, StalledTooOften
  <2>2. \A d \in Calls : call'[d] = call[d] \/ Quiet(call'[d])
    BY <1>4 DEF Take, StalledTooOften, Quiet, NoSnapshot, TypeOK
  <2>. QED
    BY <2>1, <2>2, QuietStep
<1>5. ASSUME NEW m \in Messages,
             \/ \E p \in Procs : Requeue(p, m)
             \/ DelayExpires(m) \/ LockLapses(m) \/ JobLost(m)
      PROVE  RecordInv'
  <2>1. UNCHANGED <<row, call>>
    BY <1>5 DEF Requeue, DelayExpires, LockLapses, JobLost
  <2>. QED
    BY <2>1, QuietStep
<1>6. ASSUME NEW p \in Procs, Crash(p) \/ Terminate(p) \/ Exit(p) \/ Restart(p)
      PROVE  RecordInv'
  <2>1. UNCHANGED row
    BY <1>6 DEF Crash, Terminate, Exit, Restart
  <2>2. \A d \in Calls : call'[d] = call[d] \/ Quiet(call'[d])
    BY <1>6 DEF Crash, Terminate, Exit, Restart, Dies, Quiet
  <2>. QED
    BY <2>1, <2>2, QuietStep
<1>7. CASE UNCHANGED vars
  BY <1>7, QuietStep DEF vars
<1>. QED
  BY <1>1, <1>2, <1>3, <1>4, <1>5, <1>6, <1>7, ProceedKeeps, ReadBackFailsKeeps DEF Next

\* The invariant holds initially.
LEMMA RecordInit == Init => RecordInv
<1>. SUFFICES ASSUME Init PROVE RecordInv
  OBVIOUS
<1>1. RowSound(NewMessage)
  BY DEF RowSound, NewMessage, queueToStatus
<1>. QED
  BY <1>1 DEF Init, RecordInv, Knows

\* The rows are sound at any time, and so is what any operation in progress
\* has concluded from them.
THEOREM RecordsSound == Spec => []RecordInv
<1>1. Spec => [](TypeOK /\ RecordInv)
  BY TypeInit, TypeStep, RecordInit, RecordStep, PTL DEF Spec
<1>. QED
  BY <1>1, PTL

\* No message is reported completed without a mail server's answer on record.
THEOREM CompletedCorrect == Spec => []CompletedMeansDelivered
<1>1. TypeOK /\ RecordInv => CompletedMeansDelivered
  BY DEF TypeOK, RecordInv, RowSound, CompletedMeansDelivered
<1>. QED
  BY <1>1, TypeCorrect, RecordsSound, PTL

\* No message loses its content before it is completed or cancelled.
THEOREM ContentCorrect == Spec => []ContentKept
<1>1. TypeOK /\ RecordInv => ContentKept
  BY DEF TypeOK, RecordInv, RowSound, ContentKept
<1>. QED
  BY <1>1, TypeCorrect, RecordsSound, PTL

\* Status updates that overwrite each other lose nothing from the history.
THEOREM HistoriesCorrect == Spec => []HistoriesAgree
<1>1. TypeOK /\ RecordInv => HistoriesAgree
  BY DEF TypeOK, RecordInv, RowSound, HistoriesAgree
<1>. QED
  BY <1>1, TypeCorrect, RecordsSound, PTL

=============================================================================
