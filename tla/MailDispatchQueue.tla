------------------------- MODULE MailDispatchQueue -------------------------
(***************************************************************************)
(* The queue and its workers neither send a message twice nor forget it:   *)
(* the proof of OneWorker, CancelledIsNotSent, SentOnce and NeverForgotten *)
(* of MailDispatch.                                                        *)
(***************************************************************************)
EXTENDS MailDispatchPromises

On(c, m) == call[c] # Idle /\ call[c].m = m

Working(c) == call[c] # Idle /\ call[c].at \in WorkSteps

Unpromoted(m) == "promote" \notin asked[m]

NoLapse == spent["lapse"] = 0

NoFailure == spent["fault"] + spent["lapse"] = 0

\* A replica has one worker, and a worker has the lock of its job.
LockInv ==
    /\ \A c, d \in Calls :
          Working(c) /\ Working(d) /\ call[c].proc = call[d].proc => c = d
    /\ NoLapse => \A c \in Calls : Working(c) =>
          /\ job[call[c].m].state = "active"
          /\ job[call[c].m].lock = call[c].proc

\* An enqueue under way is the first thing that happens to a message.
AddsFirst(m) ==
    /\ m \notin stored => inbox[m] = 0
    /\ \A c \in Calls : On(c, m) /\ call[c].at = "add" /\ Unpromoted(m) =>
          /\ job[m].state = "none"
          /\ "removed" \notin row[m].queueHistory
          /\ inbox[m] = 0
          /\ \A d \in Calls : On(d, m) /\ d # c => call[d].at = "getJob"

Removal(m) == \/ "removed" \in row[m].queueHistory
              \/ \E c \in Calls : On(c, m) /\ call[c].at = "removed"

\* After its removal a message has no job and nobody who would make one.
StaysRemoved(m) ==
    Unpromoted(m) /\ NoLapse /\ Removal(m) =>
        /\ job[m].state = "none"
        /\ \A c \in Calls : On(c, m) => call[c].at \notin WorkSteps \cup {"add"}

\* The steps of a worker, and before it, that come before the mail server's
\* receipt, and those that come after it.
Before == {"add", "processing", "load", "send", "fail"}
After == {"result", "delivered", "finish"}

\* A worker's steps up to the mail server's answer.
Unsent == {"processing", "load", "send"}

\* After its receipt a message's job is in the hands of the worker that got it,
\* or gone.
OneReceipt(m) ==
    Unpromoted(m) /\ NoFailure /\ "worker" \notin cut[m] /\ inbox[m] # 0 =>
        /\ inbox[m] = 1
        /\ \A c \in Calls : On(c, m) => call[c].at \notin Before
        /\ \/ job[m].state = "none"
           \/ \E c \in Calls : On(c, m) /\ call[c].at \in After

\* Whoever takes the job of an unsettled message off the queue settles it.
CaredFor(m) ==
    m \in stored /\ NoFailure /\ "other" \notin cut[m] =>
        \/ Settled(m)
        \/ job[m].state # "none"
        \/ \E c \in Calls : On(c, m) /\ call[c].at \in {"add", "removed", "failed"}

MessageInv(m) == AddsFirst(m) /\ StaysRemoved(m) /\ OneReceipt(m) /\ CaredFor(m)

\* The inductive invariant.
QueueInv == LockInv /\ \A m \in Messages : MessageInv(m)

-----------------------------------------------------------------------------
(* The shapes of a call's steps, without what these invariants do not ask. *)

\* Call c goes on to step b, or ends.
Moves(c, b) ==
    /\ call[c] # Idle
    /\ \A d \in Calls : d # c => call'[d] = call[d]
    /\ b = "idle" => call'[c] = Idle
    /\ b # "idle" => /\ call'[c] # Idle /\ call'[c].at = b
                     /\ call'[c].m = call[c].m /\ call'[c].proc = call[c].proc

\* What a step of call c does to the rows.
Writes(c) ==
    /\ \A m \in Messages : Settled(m) => Settled(m)'
    /\ \A m \in Messages :
          "removed" \in row'[m].queueHistory =>
             \/ "removed" \in row[m].queueHistory
             \/ On(c, m) /\ call[c].at = "removed"
    /\ \A m \in Messages :
          row[m].email => row'[m].email \/ (On(c, m) /\ call[c].at = "purge")

\* It leaves the queue and the mail server alone.
Talks(c, b) ==
    /\ Moves(c, b)
    /\ Writes(c)
    /\ UNCHANGED <<stored, job, inbox, asked, cut>>
    /\ call[c].at \in WorkSteps =>
          b \in WorkSteps \/ (b = "idle" /\ ~HoldsLock(call[c]))
    /\ call[c].at \notin WorkSteps => b \notin WorkSteps
    /\ b = "add" => call[c].at = "recovered"
    /\ b = "removed" => call[c].at = "removed"
    /\ b = "completed" => call[c].at = "completed"
    /\ b = "purge" => call[c].at \in {"completed", "removed"}
    /\ b \in Unsent => call[c].at \in Unsent
    /\ call[c].at = "getJob" =>
          \/ b \in {"recover", "recovered", "idle"}
          \/ b = "getState" /\ job[call[c].m].state # "none"
    /\ spent' = spent =>
          /\ call[c].at \in After => b \in After \cup {"idle"}
          /\ call[c].at # "add"
          /\ call[c].at \in {"removed", "failed"} =>
                b = call[c].at \/ \A m \in Messages : On(c, m) => Settled(m)'

\* It puts j in the place of the message's job.
Requeues(c, a, b, j) ==
    /\ call[c].at = a
    /\ Moves(c, b)
    /\ job' = [job EXCEPT ![call[c].m] = j]
    /\ UNCHANGED <<stored, row, inbox, asked, cut>>

Adds(c) == \E j : /\ Requeues(c, "add", "enqueued", j)
                  /\ j.state # "none"
                  /\ job[call[c].m].state # "none" => j = job[call[c].m]
                  /\ job[call[c].m].state = "none" => j.attemptsMade = 0

Removes(c) == /\ Requeues(c, "remove", "removed", NoJob)
              /\ job[call[c].m].lock = NoProc

Promotes(c) == \E j : /\ Requeues(c, "promote", "promoted", j)
                      /\ j.state # "none"
                      /\ job[call[c].m].state = "delayed"

Finishes(c) == /\ Requeues(c, "finish", "completed", NoJob)
               /\ HoldsLock(call[c])

Fails(c) == /\ Requeues(c, "fail", "failed", afterFailure(job[call[c].m]))
            /\ HoldsLock(call[c])

\* The mail server accepts the message.
Sends(c) ==
    /\ call[c].at = "send"
    /\ \E b \in {"result", "fail"} : Moves(c, b) /\ (spent' = spent => b = "result")
    /\ inbox' = [inbox EXCEPT ![call[c].m] = @ + 1]
    /\ UNCHANGED <<stored, job, row, asked, cut>>

-----------------------------------------------------------------------------
(* Every step of a call has one of these shapes. *)

\* Goto moves a call.
LEMMA GotoMoves ==
    ASSUME TypeOK, NEW c \in Calls, call[c] # Idle, NEW step, Goto(c, step)
    PROVE  Moves(c, step)
<1>1. CASE step = "idle"
  BY <1>1 DEF Goto, Moves, TypeOK
<1>2. CASE step # "idle"
  <2>1. call[c] \in Call
    BY Busy DEF TypeOK, CallsOK
  <2>2. call'[c] = [call[c] EXCEPT !.at = step, !.seen = NoSnapshot]
    BY <1>2 DEF Goto, TypeOK
  <2>3. /\ call'[c].at = step /\ call'[c].m = call[c].m
        /\ call'[c].proc = call[c].proc
    BY <2>1, <2>2 DEF Call
  <2>4. call'[c] # Idle
    BY <1>2, <2>3 DEF Idle
  <2>5. \A d \in Calls : d # c => call'[d] = call[d]
    BY GotoStep, <1>2
  <2>. QED
    BY <1>2, <2>3, <2>4, <2>5 DEF Moves
<1>. QED
  BY <1>1, <1>2

\* A rejection leads a worker to "fail" and ends any other call.
LEMMA RejectMoves ==
    ASSUME TypeOK, NEW c \in Calls, call[c] # Idle, Rejects(c)
    PROVE  Moves(c, IF call[c].at \in WorkSteps THEN "fail" ELSE "idle")
BY GotoMoves DEF Rejects

\* Rows that stay write nothing.
LEMMA NothingWritten == \A c : UNCHANGED row => Writes(c)
BY DEF Writes, Settled

\* A patch of a row writes no status.
LEMMA PatchWrites ==
    ASSUME TypeOK, NEW c \in Calls, call[c] # Idle,
           \/ row' = [row EXCEPT ![call[c].m] = updateMessageSendResult(@)]
           \/ /\ row' = [row EXCEPT ![call[c].m] = deleteMessageEmail(@)]
              /\ call[c].at = "purge"
    PROVE  Writes(c)
<1>1. call[c].m \in Messages /\ row[call[c].m] \in Row
  BY Busy DEF TypeOK, CallsOK
<1>2. PICK r : /\ row' = [row EXCEPT ![call[c].m] = r]
               /\ r.queueHistory = row[call[c].m].queueHistory
               /\ r.statusHistory = row[call[c].m].statusHistory
               /\ row[call[c].m].sendResult => r.sendResult
               /\ row[call[c].m].email => r.email \/ call[c].at = "purge"
  <2>1. CASE row' = [row EXCEPT ![call[c].m] = updateMessageSendResult(@)]
    <3>1. LET r == updateMessageSendResult(row[call[c].m])
          IN  /\ r.queueHistory = row[call[c].m].queueHistory
              /\ r.statusHistory = row[call[c].m].statusHistory
              /\ r.sendResult /\ r.email = row[call[c].m].email
      BY <1>1 DEF updateMessageSendResult, Row
    <3>. QED
      BY <2>1, <3>1
  <2>2. CASE /\ row' = [row EXCEPT ![call[c].m] = deleteMessageEmail(@)]
             /\ call[c].at = "purge"
    <3>1. LET r == deleteMessageEmail(row[call[c].m])
          IN  /\ r.queueHistory = row[call[c].m].queueHistory
              /\ r.statusHistory = row[call[c].m].statusHistory
              /\ r.sendResult = row[call[c].m].sendResult
      BY <1>1 DEF deleteMessageEmail, Row
    <3>. QED
      BY <2>2, <3>1
  <2>. QED
    BY <2>1, <2>2
<1>3. \A m \in Messages : /\ row'[m].queueHistory = row[m].queueHistory
                          /\ row'[m].statusHistory = row[m].statusHistory
                          /\ row[m].sendResult => row'[m].sendResult
                          /\ row[m].email => \/ row'[m].email
                                             \/ On(c, m) /\ call[c].at = "purge"
  BY <1>2 DEF TypeOK, On
<1>. QED
  BY <1>3 DEF Writes, Settled

\* A status update that commits settles a message that failed or was removed.
LEMMA RecordWrites ==
    ASSUME TypeOK, RecordInv, NEW c \in Calls, call[c] # Idle,
           call[c].at \in UpdateSteps, call[c].seen.taken,
           row' = [row EXCEPT ![call[c].m] = Recorded(call[c])]
    PROVE  /\ Writes(c)
           /\ call[c].at \in {"removed", "failed"} =>
                 \A m \in Messages : On(c, m) => Settled(m)'
<1>. DEFINE k == call[c]
            q == StateRecordedAt[k.at]
<1>1. k \in Call /\ k.m \in Messages /\ row[k.m] \in Row
  BY Busy DEF TypeOK, CallsOK
<1>2. /\ Grown(row[k.m], Recorded(k))
      /\ queueToStatus(q) \in Recorded(k).statusHistory
  BY RecordedSound
<1>3. /\ Recorded(k).queueHistory = row[k.m].queueHistory \cup {q}
      /\ Recorded(k).email = row[k.m].email
  BY <1>1 DEF Recorded, updateStatus, Row
<1>4. q = "removed" => k.at = "removed"
  BY DEF StateRecordedAt, UpdateSteps
<1>5. k.at \in {"removed", "failed"} => queueToStatus(q) \in {"failed", "cancelled"}
  BY DEF StateRecordedAt, queueToStatus
<1>6. \A m \in Messages : row'[m] = IF m = k.m THEN Recorded(k) ELSE row[m]
  BY <1>1 DEF TypeOK
<1>7. Writes(c)
  BY <1>2, <1>3, <1>4, <1>6 DEF Writes, Settled, Grown, On
<1>8. k.at \in {"removed", "failed"} => \A m \in Messages : On(c, m) => Settled(m)'
  BY <1>2, <1>5, <1>6 DEF Settled, On
<1>. QED
  BY <1>7, <1>8

\* Spending a bound shows.
LEMMA Spent ==
    ASSUME TypeOK, NEW what \in {"request", "fault", "lapse", "crash"}, Spend(what)
    PROVE  /\ spent' # spent
           /\ \A other \in {"request", "fault", "lapse", "crash"} :
                 spent'[other] = IF other = what THEN spent[what] + 1 ELSE spent[other]
           /\ spent[what] \in Nat
BY DEF Spend, TypeOK

\* A call in progress that only talks to the database or to Redis.
LEMMA TalkShapes ==
    ASSUME TypeOK, RecordInv, NEW c \in Calls,
           \/ GetJob(c) \/ GetState(c) \/ Recover(c)
           \/ ReadStatus(c) \/ WriteStatus(c) \/ Purge(c) \/ Load(c) \/ SaveResult(c)
    PROVE  \E b : Talks(c, b)
<1>. DEFINE k == call[c]
<1>1. k # Idle /\ UNCHANGED <<stored, job, inbox, asked, cut, spent>>
  BY DEF At, AtUpdate, GetJob, GetState, Recover, ReadStatus, WriteStatus, Purge,
         Load, SaveResult
<1>2. k \in Call
  BY <1>1, Busy DEF TypeOK, CallsOK
<1>3. ASSUME Rejects(c), k.at \notin WorkSteps \cup {"add", "removed", "failed"},
             UNCHANGED row
      PROVE  Talks(c, "idle")
  BY <1>1, <1>3, RejectMoves, NothingWritten DEF Talks, WorkSteps, After, Unsent
<1>4. CASE GetJob(c)
  <2>1. k.at = "getJob" /\ UNCHANGED row
    BY <1>4 DEF GetJob, At
  <2>2. CASE Rejects(c)
    BY <1>3, <2>1, <2>2 DEF WorkSteps
  <2>3. CASE /\ job[k.m].state # "none"
             /\ call' = [call EXCEPT ![c].at = "getState",
                                     ![c].drops = DropsContent(job[k.m])]
    <3>1. /\ call'[c].at = "getState" /\ call'[c].m = k.m /\ call'[c].proc = k.proc
          /\ \A d \in Calls : d # c => call'[d] = call[d]
      BY <1>2, <2>3 DEF TypeOK, Call
    <3>2. Moves(c, "getState")
      BY <1>1, <3>1 DEF Moves, Idle
    <3>3. Talks(c, "getState")
      BY <1>1, <2>1, <2>3, <3>2, NothingWritten DEF Talks, WorkSteps, After, Unsent
    <3>. QED
      BY <3>3
  <2>4. CASE \E step \in {"recover", "recovered", "idle"} : Goto(c, step)
    <3>1. PICK step \in {"recover", "recovered", "idle"} : Goto(c, step)
      BY <2>4
    <3>2. Talks(c, step)
      BY <1>1, <2>1, <3>1, GotoMoves, NothingWritten DEF Talks, WorkSteps, After, Unsent
    <3>. QED
      BY <3>2
  <2>. QED
    BY <1>4, <2>2, <2>3, <2>4 DEF GetJob
<1>5. CASE GetState(c)
  <2>1. k.at = "getState" /\ UNCHANGED row
    BY <1>5 DEF GetState, At
  <2>2. CASE Rejects(c)
    BY <1>3, <2>1, <2>2 DEF WorkSteps
  <2>3. CASE \E step \in {"remove", "promote"} : Goto(c, step)
    <3>1. PICK step \in {"remove", "promote"} : Goto(c, step)
      BY <2>3
    <3>2. Talks(c, step)
      BY <1>1, <2>1, <3>1, GotoMoves, NothingWritten DEF Talks, WorkSteps, After, Unsent
    <3>. QED
      BY <3>2
  <2>. QED
    BY <1>5, <2>2, <2>3 DEF GetState
<1>6. CASE Recover(c)
  <2>1. PICK step \in {"recovered", "idle"} : Goto(c, step)
    BY <1>6 DEF Recover
  <2>2. k.at = "recover" /\ UNCHANGED row
    BY <1>6 DEF Recover, At
  <2>3. Talks(c, step)
    BY <1>1, <2>1, <2>2, GotoMoves, NothingWritten DEF Talks, WorkSteps, After, Unsent
  <2>. QED
    BY <2>3
<1>7. CASE ReadStatus(c)
  <2>1. /\ call' = [call EXCEPT ![c].seen = readMessage(row[k.m])]
        /\ k.at \in UpdateSteps /\ UNCHANGED row
    BY <1>7 DEF ReadStatus, AtUpdate
  <2>2. /\ call'[c].at = k.at /\ call'[c].m = k.m /\ call'[c].proc = k.proc
        /\ \A d \in Calls : d # c => call'[d] = call[d]
    BY <1>2, <2>1 DEF TypeOK, Call
  <2>3. Moves(c, k.at)
    BY <1>1, <2>1, <2>2 DEF Moves, Idle, UpdateSteps
  <2>4. Talks(c, k.at)
    BY <1>1, <2>1, <2>3, NothingWritten DEF Talks, UpdateSteps, Unsent
  <2>. QED
    BY <2>4
<1>8. CASE WriteStatus(c)
  <2>1. /\ k.at \in UpdateSteps /\ k.seen.taken
        /\ row' = [row EXCEPT ![k.m] = Recorded(k)]
        /\ Goto(c, StepAfter(k))
    BY <1>8 DEF WriteStatus, AtUpdate
  <2>2. /\ Writes(c)
        /\ k.at \in {"removed", "failed"} =>
              \A m \in Messages : On(c, m) => Settled(m)'
    BY <1>1, <2>1, RecordWrites
  <2>3. Moves(c, StepAfter(k))
    BY <1>1, <2>1, GotoMoves
  <2>4. /\ k.at = "processing" => StepAfter(k) = "load"
        /\ k.at = "delivered" => StepAfter(k) = "finish"
        /\ k.at = "recovered" => StepAfter(k) = "add"
        /\ k.at \in {"completed", "removed"} => StepAfter(k) \in {"purge", "idle"}
        /\ k.at \notin {"processing", "delivered", "recovered", "completed", "removed"}
              => StepAfter(k) = "idle"
    BY DEF StepAfter
  <2>5. Talks(c, StepAfter(k))
    BY <1>1, <2>1, <2>2, <2>3, <2>4 DEF Talks, WorkSteps, UpdateSteps, After, Unsent
  <2>. QED
    BY <2>5
<1>9. CASE Purge(c)
  <2>1. k.at = "purge" /\ Moves(c, "idle") /\ Writes(c)
    BY <1>1, <1>9, GotoMoves, PatchWrites DEF Purge, At
  <2>2. Talks(c, "idle")
    BY <1>1, <2>1 DEF Talks, WorkSteps, After, Unsent
  <2>. QED
    BY <2>2
<1>10. CASE SaveResult(c)
  <2>1. k.at = "result" /\ Moves(c, "delivered") /\ Writes(c)
    BY <1>1, <1>10, GotoMoves, PatchWrites DEF SaveResult, At
  <2>2. Talks(c, "delivered")
    BY <1>1, <2>1 DEF Talks, WorkSteps, After, Unsent
  <2>. QED
    BY <2>2
<1>11. CASE Load(c)
  <2>1. k.at = "load" /\ UNCHANGED row
    BY <1>11 DEF Load, At
  <2>2. PICK step \in {"send", "fail"} : Moves(c, step)
    BY <1>1, <1>11, <2>1, GotoMoves, RejectMoves DEF Load, WorkSteps
  <2>3. Talks(c, step)
    BY <1>1, <2>1, <2>2, NothingWritten DEF Talks, WorkSteps, After, Unsent
  <2>. QED
    BY <2>3
<1>. QED
  BY <1>4, <1>5, <1>6, <1>7, <1>8, <1>9, <1>10, <1>11

\* Those that touch the queue or the mail server.
LEMMA QueueShapes ==
    ASSUME TypeOK, RecordInv, NEW c \in Calls,
           Add(c) \/ Remove(c) \/ Promote(c) \/ Send(c) \/ Finish(c) \/ Fail(c)
    PROVE  \/ \E b : Talks(c, b)
           \/ Adds(c) \/ Removes(c) \/ Promotes(c) \/ Sends(c) \/ Finishes(c) \/ Fails(c)
<1>. DEFINE k == call[c]
<1>1. k # Idle /\ UNCHANGED <<stored, row, asked, cut, spent>>
  BY DEF At, Add, Remove, Promote, Send, Finish, Fail
<1>2. k \in Call /\ k.m \in Messages /\ job[k.m] \in Job
  BY <1>1, Busy DEF TypeOK, CallsOK
<1>3. ASSUME NEW step \in {"idle", "fail"}, Moves(c, step), UNCHANGED <<job, inbox>>,
             \/ step = "idle" /\ k.at \in {"remove", "promote"}
             \/ step = "idle" /\ k.at \in {"finish", "fail"} /\ ~HoldsLock(k)
             \/ step = "fail" /\ k.at = "send"
      PROVE  Talks(c, step)
  BY <1>1, <1>3, NothingWritten DEF Talks, WorkSteps, After, Unsent
<1>4. CASE Add(c)
  <2>1. PICK delayed \in BOOLEAN : job' = [job EXCEPT ![k.m] = added(@, delayed)]
    BY <1>4 DEF Add
  <2>2. /\ added(job[k.m], delayed).state # "none"
        /\ job[k.m].state # "none" => added(job[k.m], delayed) = job[k.m]
        /\ job[k.m].state = "none" => added(job[k.m], delayed).attemptsMade = 0
    BY DEF added, NoJob
  <2>3. k.at = "add" /\ Moves(c, "enqueued") /\ UNCHANGED inbox
    BY <1>1, <1>4, GotoMoves DEF Add, At
  <2>4. Requeues(c, "add", "enqueued", added(job[k.m], delayed))
    BY <1>1, <2>1, <2>3 DEF Requeues
  <2>5. Adds(c)
    BY <2>2, <2>4 DEF Adds
  <2>. QED
    BY <2>5
<1>5. CASE Remove(c)
  <2>1. k.at = "remove" /\ UNCHANGED inbox
    BY <1>5 DEF Remove, At
  <2>2. CASE Rejects(c) /\ UNCHANGED job
    <3>1. Moves(c, "idle")
      BY <1>1, <2>1, <2>2, RejectMoves DEF WorkSteps
    <3>. QED
      BY <1>3, <2>1, <2>2, <3>1
  <2>3. CASE /\ Removable(job[k.m]) /\ Goto(c, "removed")
             /\ job' = [job EXCEPT ![k.m] = NoJob]
    <3>1. Moves(c, "removed")
      BY <1>1, <2>3, GotoMoves
    <3>2. Removes(c)
      BY <1>1, <2>1, <2>3, <3>1 DEF Removes, Requeues, Removable
    <3>. QED
      BY <3>2
  <2>. QED
    BY <1>5, <2>2, <2>3 DEF Remove
<1>6. CASE Promote(c)
  <2>1. k.at = "promote" /\ UNCHANGED inbox
    BY <1>6 DEF Promote, At
  <2>2. CASE Rejects(c) /\ UNCHANGED job
    <3>1. Moves(c, "idle")
      BY <1>1, <2>1, <2>2, RejectMoves DEF WorkSteps
    <3>. QED
      BY <1>3, <2>1, <2>2, <3>1
  <2>3. CASE /\ job[k.m].state = "delayed" /\ Goto(c, "promoted")
             /\ job' = [job EXCEPT ![k.m] = promoted(@)]
    <3>1. Moves(c, "promoted")
      BY <1>1, <2>3, GotoMoves
    <3>2. promoted(job[k.m]).state # "none"
      BY <1>2 DEF promoted, Job
    <3>3. Requeues(c, "promote", "promoted", promoted(job[k.m]))
      BY <1>1, <2>1, <2>3, <3>1 DEF Requeues
    <3>4. Promotes(c)
      BY <2>3, <3>2, <3>3 DEF Promotes
    <3>. QED
      BY <3>4
  <2>. QED
    BY <1>6, <2>2, <2>3 DEF Promote
<1>7. CASE Send(c)
  <2>1. k.at = "send" /\ UNCHANGED job
    BY <1>7 DEF Send, At
  <2>2. CASE Rejects(c) /\ UNCHANGED inbox
    <3>1. Moves(c, "fail")
      BY <1>1, <2>1, <2>2, RejectMoves DEF WorkSteps
    <3>. QED
      BY <1>3, <2>1, <2>2, <3>1
  <2>3. CASE Accept(c) /\ Goto(c, "result")
    <3>1. Moves(c, "result")
      BY <1>1, <2>3, GotoMoves
    <3>2. Sends(c)
      BY <1>1, <2>1, <2>3, <3>1 DEF Sends, Accept
    <3>. QED
      BY <3>2
  <2>. QED
    BY <1>7, <2>2, <2>3 DEF Send
<1>8. CASE Finish(c)
  <2>1. k.at = "finish" /\ UNCHANGED inbox
    BY <1>8 DEF Finish, At
  <2>2. CASE HoldsLock(k)
    <3>1. /\ job' = [job EXCEPT ![k.m] = NoJob]
          /\ call' = [call EXCEPT ![c].at = "completed",
                                  ![c].drops = DropsContent(job[k.m])]
      BY <1>8, <2>2 DEF Finish
    <3>2. /\ call'[c].at = "completed" /\ call'[c].m = k.m /\ call'[c].proc = k.proc
          /\ \A d \in Calls : d # c => call'[d] = call[d]
      BY <1>2, <3>1 DEF TypeOK, Call
    <3>3. Moves(c, "completed")
      BY <1>1, <3>2 DEF Moves, Idle
    <3>4. Finishes(c)
      BY <1>1, <2>1, <2>2, <3>1, <3>3 DEF Finishes, Requeues
    <3>. QED
      BY <3>4
  <2>3. CASE ~HoldsLock(k)
    <3>1. Moves(c, "idle") /\ UNCHANGED job
      BY <1>1, <1>8, <2>3, GotoMoves DEF Finish
    <3>. QED
      BY <1>3, <2>1, <2>3, <3>1
  <2>. QED
    BY <2>2, <2>3
<1>9. CASE Fail(c)
  <2>1. k.at = "fail" /\ UNCHANGED inbox
    BY <1>9 DEF Fail, At
  <2>2. CASE HoldsLock(k)
    <3>1. /\ job' = [job EXCEPT ![k.m] = afterFailure(job[k.m])]
          /\ Moves(c, "failed")
      BY <1>1, <1>9, <2>2, GotoMoves DEF Fail
    <3>2. Requeues(c, "fail", "failed", afterFailure(job[k.m]))
      BY <1>1, <2>1, <3>1 DEF Requeues
    <3>3. Fails(c)
      BY <2>2, <3>2 DEF Fails
    <3>. QED
      BY <3>3
  <2>3. CASE ~HoldsLock(k)
    <3>1. Moves(c, "idle") /\ UNCHANGED job
      BY <1>1, <1>9, <2>3, GotoMoves DEF Fail
    <3>. QED
      BY <1>3, <2>1, <2>3, <3>1
  <2>. QED
    BY <2>2, <2>3
<1>. QED
  BY <1>4, <1>5, <1>6, <1>7, <1>8, <1>9

\* The failures.
LEMMA FailureShapes ==
    ASSUME TypeOK, RecordInv, NEW c \in Calls,
           SendUnanswered(c) \/ OperationFails(c) \/ ReadBackFails(c)
    PROVE  Sends(c) \/ \E b : Talks(c, b)
<1>. DEFINE k == call[c]
            b == IF k.at \in WorkSteps THEN "fail" ELSE "idle"
<1>1. /\ k # Idle /\ UNCHANGED <<stored, job, asked, cut>>
      /\ Rejects(c) /\ Spend("fault")
  BY DEF At, SendUnanswered, OperationFails, ReadBackFails
<1>2. spent' # spent
  BY <1>1, Spent
<1>3. Moves(c, b)
  BY <1>1, RejectMoves
<1>4. CASE SendUnanswered(c)
  <2>1. k.at = "send" /\ Moves(c, "fail")
    BY <1>3, <1>4 DEF SendUnanswered, At, WorkSteps
  <2>2. Sends(c)
    BY <1>1, <1>2, <1>4, <2>1 DEF Sends, SendUnanswered, Accept
  <2>. QED
    BY <2>2
<1>5. ASSUME Writes(c), UNCHANGED inbox
      PROVE  Talks(c, b)
  BY <1>1, <1>2, <1>3, <1>5 DEF Talks, WorkSteps, Unsent
<1>6. CASE OperationFails(c)
  <2>1. Talks(c, b)
    BY <1>5, <1>6, NothingWritten DEF OperationFails
  <2>. QED
    BY <2>1
<1>7. CASE ReadBackFails(c)
  <2>1. Writes(c)
    BY <1>1, <1>7, RecordWrites, PatchWrites DEF ReadBackFails
  <2>2. Talks(c, b)
    BY <1>5, <1>7, <2>1 DEF ReadBackFails
  <2>. QED
    BY <2>2
<1>. QED
  BY <1>4, <1>6, <1>7

\* All of them.
LEMMA CallShapes ==
    ASSUME TypeOK, RecordInv, NEW c \in Calls,
           Proceed(c) \/ SendUnanswered(c) \/ OperationFails(c) \/ ReadBackFails(c)
    PROVE  \/ \E b : Talks(c, b)
           \/ Adds(c) \/ Removes(c) \/ Promotes(c) \/ Sends(c) \/ Finishes(c) \/ Fails(c)
<1>1. CASE Proceed(c)
  BY <1>1, TalkShapes, QueueShapes DEF Proceed
<1>2. CASE SendUnanswered(c) \/ OperationFails(c) \/ ReadBackFails(c)
  BY <1>2, FailureShapes
<1>. QED
  BY <1>1, <1>2

-----------------------------------------------------------------------------
(* What the shapes do to the invariant. *)

\* A step of a call spends nothing, or shows that something failed.
CallSpends == /\ NoLapse' => NoLapse
              /\ NoFailure' => NoFailure /\ spent' = spent

\* What the proofs about one step of one call start from.
LEMMA MovesOn ==
    ASSUME NEW c \in Calls, NEW b, Moves(c, b)
    PROVE  /\ \A d \in Calls, m \in Messages :
                 On(d, m)' => /\ On(d, m)
                              /\ d # c => call'[d] = call[d]
                              /\ d = c => b # "idle" /\ call'[d].at = b
           /\ \A d \in Calls, m \in Messages :
                 On(d, m) /\ (d # c \/ b # "idle") => On(d, m)'
           /\ \A d \in Calls :
                 Working(d)' => /\ call[d] # Idle
                                /\ call'[d].m = call[d].m
                                /\ call'[d].proc = call[d].proc
                                /\ d # c => Working(d)
                                /\ d = c => b \in WorkSteps
BY DEF Moves, On, Working

\* Talking keeps the invariant.
LEMMA TalkKeeps ==
    ASSUME TypeOK, PromiseInv, PromiseInv', QueueInv, CallSpends,
           NEW c \in Calls, NEW b, Talks(c, b)
    PROVE  QueueInv'
<1>. DEFINE k == call[c]
<1>0. /\ k # Idle /\ Moves(c, b) /\ Writes(c)
      /\ UNCHANGED <<stored, job, inbox, asked, cut>>
  BY DEF Talks, Moves
<1>1. PICK m \in Messages : k.m = m /\ On(c, m)
  BY <1>0, Busy DEF TypeOK, CallsOK, On
<1>2. Unpromoted(m) => /\ k.at \notin {"recovered"}
                       /\ b \notin {"recover", "recovered"}
  <2>1. Unpromoted(m) => k.at # "recovered"
    BY <1>0, <1>1 DEF Unpromoted, PromiseInv, Entitled
  <2>2. b # "idle" => call'[c] # Idle /\ call'[c].at = b /\ call'[c].m = m
    BY <1>0, <1>1 DEF Moves
  <2>3. Entitled(call[c])'
    BY DEF PromiseInv
  <2>. QED
    BY <1>0, <2>1, <2>2, <2>3 DEF Unpromoted, Entitled
<1>3. \A d \in Calls : Working(d)' => /\ Working(d)
                                      /\ call'[d].m = call[d].m
                                      /\ call'[d].proc = call[d].proc
  BY <1>0, MovesOn DEF Talks, Working
<1>4. LockInv'
  BY <1>0, <1>3 DEF QueueInv, LockInv, CallSpends
<1>5. \A n \in Messages : AddsFirst(n)'
  <2>1. ASSUME NEW d \in Calls, NEW n \in Messages,
               On(d, n)', call'[d].at = "add", Unpromoted(n)'
        PROVE  /\ d # c /\ On(d, n) /\ call[d].at = "add" /\ Unpromoted(n)
    BY <1>0, <1>1, <1>2, <2>1, MovesOn DEF Talks, Unpromoted, On
  <2>2. ASSUME NEW d \in Calls, NEW n \in Messages,
               On(d, n)', call'[d].at = "add", Unpromoted(n)'
        PROVE  /\ job[n].state = "none" /\ inbox[n] = 0
               /\ "removed" \notin row[n].queueHistory
               /\ \A e \in Calls : On(e, n) /\ e # d => call[e].at = "getJob"
    BY <2>1, <2>2 DEF QueueInv, MessageInv, AddsFirst
  <2>3. ASSUME NEW d \in Calls, NEW n \in Messages,
               On(d, n)', call'[d].at = "add", Unpromoted(n)',
               NEW e \in Calls, On(e, n)', e # d
        PROVE  call'[e].at = "getJob"
    <3>1. On(e, n) /\ call[e].at = "getJob"
      BY <1>0, <2>2, <2>3, MovesOn
    <3>2. CASE e # c
      BY <1>0, <2>3, <3>1, <3>2, MovesOn
    <3>3. CASE e = c
      <4>1. n = m /\ Unpromoted(m) /\ b # "idle"
        BY <1>0, <1>1, <2>1, <2>3, <3>1, <3>3, MovesOn DEF On
      <4>2. /\ b \in {"recover", "recovered", "getState"}
            /\ b = "getState" => job[m].state # "none"
        BY <1>1, <3>1, <3>3, <4>1 DEF Talks
      <4>. QED
        BY <1>2, <2>2, <2>3, <4>1, <4>2
    <3>. QED
      BY <3>2, <3>3
  <2>4. ASSUME NEW d \in Calls, NEW n \in Messages,
               On(d, n)', call'[d].at = "add", Unpromoted(n)'
        PROVE  "removed" \notin row'[n].queueHistory
    BY <1>0, <2>1, <2>2, <2>4 DEF Writes
  <2>. QED
    BY <1>0, <2>2, <2>3, <2>4 DEF QueueInv, MessageInv, AddsFirst
<1>6. \A n \in Messages : StaysRemoved(n)'
  <2>1. ASSUME NEW n \in Messages, Removal(n)'
        PROVE  Removal(n)
    BY <1>0, <2>1, MovesOn DEF Removal, Writes, Talks
  <2>2. ASSUME NEW n \in Messages, Unpromoted(n), NEW d \in Calls, On(d, n)',
               call'[d].at \in WorkSteps \cup {"add"}
        PROVE  On(d, n) /\ call[d].at \in WorkSteps \cup {"add"}
    BY <1>0, <1>1, <1>2, <2>2, MovesOn DEF Talks, On
  <2>. QED
    BY <1>0, <2>1, <2>2 DEF QueueInv, MessageInv, StaysRemoved, Unpromoted, CallSpends
<1>7. \A n \in Messages : OneReceipt(n)'
  <2>. SUFFICES ASSUME NEW n \in Messages, Unpromoted(n)', NoFailure',
                       "worker" \notin cut'[n], inbox'[n] # 0
                PROVE  /\ inbox'[n] = 1
                       /\ \A d \in Calls : On(d, n)' => call'[d].at \notin Before
                       /\ \/ job'[n].state = "none"
                          \/ \E d \in Calls : On(d, n)' /\ call'[d].at \in After
    BY DEF OneReceipt
  <2>1. /\ Unpromoted(n) /\ NoFailure /\ spent' = spent /\ NoLapse
        /\ inbox[n] = 1
        /\ \A d \in Calls : On(d, n) => call[d].at \notin Before
        /\ \/ job[n].state = "none"
           \/ \E d \in Calls : On(d, n) /\ call[d].at \in After
    BY <1>0 DEF QueueInv, MessageInv, OneReceipt, CallSpends, Unpromoted, NoFailure, NoLapse, TypeOK
  <2>2. \A d \in Calls : On(d, n)' => call'[d].at \notin Before
    <3>1. On(c, n) => b \notin Before
      BY <1>1, <1>2, <2>1 DEF Talks, Before, After, WorkSteps, On
    <3>. QED
      BY <1>0, <2>1, <3>1, MovesOn
  <2>3. ASSUME On(c, n), k.at \in After
        PROVE  b \in After
    <3>1. HoldsLock(k)
      BY <1>0, <2>1, <2>3 DEF QueueInv, LockInv, Working, After, WorkSteps, HoldsLock
    <3>. QED
      BY <2>1, <2>3, <3>1 DEF Talks, After, WorkSteps
  <2>4. (\E d \in Calls : On(d, n) /\ call[d].at \in After)
           => \E d \in Calls : On(d, n)' /\ call'[d].at \in After
    BY <1>0, <2>3, MovesOn DEF After
  <2>. QED
    BY <1>0, <2>1, <2>2, <2>4
<1>8. \A n \in Messages : CaredFor(n)'
  <2>. SUFFICES ASSUME NEW n \in Messages, n \in stored, NoFailure', "other" \notin cut[n],
                       ~Settled(n)', job[n].state = "none"
                PROVE  \E d \in Calls :
                          On(d, n)' /\ call'[d].at \in {"add", "removed", "failed"}
    BY <1>0 DEF CaredFor
  <2>1. n \in Messages /\ ~Settled(n) /\ NoFailure /\ spent' = spent
    BY <1>0 DEF TypeOK, Writes, CallSpends
  <2>2. PICK d \in Calls : On(d, n) /\ call[d].at \in {"add", "removed", "failed"}
    BY <2>1 DEF QueueInv, MessageInv, CaredFor
  <2>3. d = c => b = call[d].at
    BY <2>1, <2>2 DEF Talks
  <2>. QED
    BY <1>0, <2>1, <2>2, <2>3, MovesOn
<1>. QED
  BY <1>4, <1>5, <1>6, <1>7, <1>8 DEF QueueInv, MessageInv

\* The invariant is about one message at a time: a step of a call on m that
\* changes m's job only keeps it for every other message.
Elsewise(m) ==
    \A n \in Messages \ {m} :
        /\ job'[n] = job[n] /\ inbox'[n] = inbox[n]
        /\ \A d \in Calls : On(d, n)' <=> On(d, n)
        /\ \A d \in Calls : On(d, n) => call'[d] = call[d]

\* A step of one call on m leaves the other messages alone.
LEMMA MovesElsewise ==
    ASSUME TypeOK, NEW c \in Calls, NEW b, Moves(c, b),
           NEW m \in Messages, On(c, m), inbox' = inbox \/ \E i : inbox' = [inbox EXCEPT ![m] = i],
           job' = job \/ \E j : job' = [job EXCEPT ![m] = j]
    PROVE  Elsewise(m)
<1>1. \A n \in Messages \ {m} : job'[n] = job[n] /\ inbox'[n] = inbox[n]
  BY DEF TypeOK
<1>2. \A n \in Messages \ {m}, d \in Calls :
         On(d, n)' => On(d, n) /\ call'[d] = call[d]
  BY MovesOn DEF On
<1>3. \A n \in Messages \ {m}, d \in Calls :
         On(d, n) => On(d, n)' /\ call'[d] = call[d]
  BY DEF On, Moves
<1>. QED
  BY <1>1, <1>2, <1>3 DEF Elsewise

\* What holds of a message elsewhere goes on to hold.
LEMMA ElsewiseKept ==
    ASSUME TypeOK, QueueInv, UNCHANGED <<stored, row, asked, cut>>,
           NoLapse' => NoLapse, NoFailure' => NoFailure,
           NEW m \in Messages, Elsewise(m)
    PROVE  \A n \in Messages \ {m} : MessageInv(n)'
<1>. SUFFICES ASSUME NEW n \in Messages \ {m} PROVE MessageInv(n)'
  OBVIOUS
<1>1. /\ job'[n] = job[n] /\ inbox'[n] = inbox[n] /\ MessageInv(n)
      /\ \A d \in Calls : On(d, n)' <=> On(d, n)
      /\ \A d \in Calls : On(d, n) => call'[d] = call[d]
  BY DEF Elsewise, QueueInv
<1>2. AddsFirst(n)'
  BY <1>1 DEF MessageInv, AddsFirst, Unpromoted
<1>3. StaysRemoved(n)'
  BY <1>1 DEF MessageInv, StaysRemoved, Removal, Unpromoted
<1>4. OneReceipt(n)'
  BY <1>1 DEF MessageInv, OneReceipt, Unpromoted
<1>5. CaredFor(n)'
  BY <1>1 DEF MessageInv, CaredFor, Settled
<1>. QED
  BY <1>2, <1>3, <1>4, <1>5 DEF MessageInv

\* What a call's step on the queue has in common: the message, its new job, and
\* the calls on it.
AtMessage(c, m, b, j) ==
    /\ call[c].m = m /\ m \in stored /\ On(c, m) /\ On(c, m)' /\ call'[c].at = b
    /\ job'[m] = j
    /\ UNCHANGED <<stored, row, inbox, asked, cut>>
    /\ \A n \in Messages \ {m} : MessageInv(n)' /\ job'[n] = job[n]
    /\ \A d \in Calls : On(d, m)' => On(d, m) /\ (d # c => call'[d] = call[d])
    /\ \A d \in Calls : Working(d)' =>
          /\ call'[d].m = call[d].m /\ call'[d].proc = call[d].proc
          /\ d # c => Working(d)
          /\ d = c => b \in WorkSteps

\* There is such a message.
LEMMA RequeueStart ==
    ASSUME TypeOK, PromiseInv, QueueInv, CallSpends, NEW c \in Calls,
           NEW a, NEW b, b # "idle", NEW j, Requeues(c, a, b, j)
    PROVE  \E m \in Messages : AtMessage(c, m, b, j)
<1>1. /\ Moves(c, b) /\ call[c] # Idle
      /\ job' = [job EXCEPT ![call[c].m] = j]
      /\ UNCHANGED <<stored, row, inbox, asked, cut>>
  BY DEF Requeues, Moves
<1>2. PICK m \in Messages : call[c].m = m
  BY <1>1, Busy DEF TypeOK, CallsOK
<1>3. On(c, m) /\ On(c, m)' /\ call'[c].at = b
  BY <1>1, <1>2 DEF On, Moves
<1>4. m \in stored
  BY <1>1, <1>2 DEF PromiseInv, Entitled
<1>5. job'[m] = j /\ \A n \in Messages \ {m} : job'[n] = job[n]
  BY <1>1, <1>2 DEF TypeOK
<1>6. Elsewise(m)
  BY <1>1, <1>2, <1>3, MovesElsewise
<1>7. \A n \in Messages \ {m} : MessageInv(n)'
  BY <1>1, <1>6, ElsewiseKept DEF CallSpends
<1>8. AtMessage(c, m, b, j)
  BY <1>1, <1>2, <1>3, <1>4, <1>5, <1>7, MovesOn DEF AtMessage
<1>. QED
  BY <1>8

\* A worker that has its job's lock is the only one on the message.
LEMMA OnlyWorker ==
    ASSUME QueueInv, NoLapse, NEW c \in Calls, NEW d \in Calls, NEW m \in Messages,
           Working(c), Working(d), On(c, m), On(d, m)
    PROVE  c = d /\ HoldsLock(call[c]) /\ job[m].state = "active"
BY DEF QueueInv, LockInv, On, HoldsLock

\* A message whose job is not active, or not locked, has no worker.
LEMMA NoWorker ==
    ASSUME TypeOK, QueueInv, NoLapse, NEW d \in Calls, NEW m \in Messages, On(d, m),
           job[m].state # "active" \/ job[m].lock = NoProc
    PROVE  ~Working(d)
BY QueueAssumption, Busy DEF QueueInv, LockInv, On, Working, TypeOK, CallsOK, QueueAssumption

\* Workers that go on keep their locks, if those on m do.
LEMMA LockKept ==
    ASSUME TypeOK, QueueInv, NoLapse' => NoLapse, NEW m \in Messages,
           \A n \in Messages \ {m} : job'[n] = job[n],
           \A d \in Calls : Working(d)' => /\ Working(d)
                                           /\ call'[d].m = call[d].m
                                           /\ call'[d].proc = call[d].proc,
           \A d \in Calls : NoLapse /\ Working(d)' /\ On(d, m) =>
              job'[m].state = "active" /\ job'[m].lock = call[d].proc
    PROVE  LockInv'
<1>1. ASSUME NEW c \in Calls, NEW d \in Calls, Working(c)', Working(d)',
             call'[c].proc = call'[d].proc
      PROVE  c = d
  BY <1>1 DEF QueueInv, LockInv
<1>2. ASSUME NoLapse', NEW d \in Calls, Working(d)'
      PROVE  job'[call'[d].m].state = "active" /\ job'[call'[d].m].lock = call'[d].proc
  <2>1. Working(d) /\ call'[d].m = call[d].m /\ call'[d].proc = call[d].proc
    BY <1>2
  <2>2. call[d].m \in Messages
    BY <2>1, Busy DEF Working, TypeOK, CallsOK
  <2>3. CASE call[d].m = m
    BY <1>2, <2>1, <2>3 DEF On, Working
  <2>4. CASE call[d].m # m
    <3>1. job[call[d].m].state = "active" /\ job[call[d].m].lock = call[d].proc
      BY <1>2, <2>1 DEF QueueInv, LockInv
    <3>. QED
      BY <2>1, <2>2, <2>4, <3>1
  <2>. QED
    BY <2>3, <2>4
<1>. QED
  BY <1>1, <1>2 DEF LockInv

\* Enqueueing.
LEMMA AddKeeps ==
    ASSUME TypeOK, PromiseInv, QueueInv, CallSpends, NEW c \in Calls, Adds(c)
    PROVE  QueueInv'
<1>1. PICK j : /\ Requeues(c, "add", "enqueued", j) /\ j.state # "none"
               /\ job[call[c].m].state # "none" => j = job[call[c].m]
  BY DEF Adds
<1>2. PICK m \in Messages : AtMessage(c, m, "enqueued", j)
  BY <1>1, RequeueStart
<1>3. call[c].at = "add" /\ (job[m].state # "none" => j = job[m])
  BY <1>1, <1>2 DEF Requeues, AtMessage
<1>4. LockInv'
  <2>1. \A d \in Calls : Working(d)' => Working(d)
    BY <1>2 DEF AtMessage, WorkSteps
  <2>2. \A d \in Calls : NoLapse /\ Working(d)' /\ On(d, m) =>
           job'[m].state = "active" /\ job'[m].lock = call[d].proc
    BY <1>2, <1>3, <2>1 DEF AtMessage, QueueInv, LockInv, On
  <2>. QED
    BY <1>2, <2>1, <2>2, LockKept DEF AtMessage, CallSpends
<1>5. AddsFirst(m)' /\ StaysRemoved(m)'
  <2>1. Unpromoted(m) => ~Removal(m) /\ \A d \in Calls : On(d, m) /\ d # c =>
                              call[d].at = "getJob"
    BY <1>2, <1>3 DEF AtMessage, QueueInv, MessageInv, AddsFirst, Removal
  <2>. QED
    BY <1>2, <2>1 DEF AtMessage, AddsFirst, StaysRemoved, Removal, Unpromoted
<1>6. OneReceipt(m)'
  BY <1>2, <1>3 DEF AtMessage, QueueInv, MessageInv, OneReceipt, Unpromoted, Before, CallSpends
<1>7. CaredFor(m)'
  BY <1>1, <1>2 DEF AtMessage, CaredFor
<1>. QED
  BY <1>2, <1>4, <1>5, <1>6, <1>7 DEF AtMessage, QueueInv, MessageInv

\* Removing.
LEMMA RemoveKeeps ==
    ASSUME TypeOK, PromiseInv, QueueInv, CallSpends, NEW c \in Calls, Removes(c)
    PROVE  QueueInv'
<1>1. Requeues(c, "remove", "removed", NoJob) /\ job[call[c].m].lock = NoProc
  BY DEF Removes
<1>2. PICK m \in Messages : AtMessage(c, m, "removed", NoJob)
  BY <1>1, RequeueStart
<1>3. call[c].at = "remove" /\ job[m].lock = NoProc /\ NoJob.state = "none"
  BY <1>1, <1>2 DEF Requeues, AtMessage, NoJob
<1>4. NoLapse => \A d \in Calls : On(d, m) => ~Working(d)
  BY <1>3, NoWorker
<1>5. LockInv'
  <2>1. \A d \in Calls : Working(d)' => Working(d)
    BY <1>2 DEF AtMessage, WorkSteps
  <2>. QED
    BY <1>2, <1>4, <2>1, LockKept DEF AtMessage, CallSpends
<1>6. Unpromoted(m) => \A d \in Calls : On(d, m) => call[d].at # "add"
  BY <1>2, <1>3 DEF AtMessage, QueueInv, MessageInv, AddsFirst
<1>7. AddsFirst(m)'
  BY <1>2, <1>6 DEF AtMessage, AddsFirst, Unpromoted
<1>8. StaysRemoved(m)'
  BY <1>2, <1>3, <1>4, <1>6 DEF AtMessage, StaysRemoved, Unpromoted, CallSpends, Working,
     WorkSteps, On
<1>9. OneReceipt(m)'
  BY <1>2, <1>3 DEF AtMessage, QueueInv, MessageInv, OneReceipt, Unpromoted, Before, CallSpends
<1>10. CaredFor(m)'
  BY <1>2 DEF AtMessage, CaredFor
<1>. QED
  BY <1>2, <1>5, <1>7, <1>8, <1>9, <1>10 DEF AtMessage, QueueInv, MessageInv

\* Promoting, which the owner asked for.
LEMMA PromoteKeeps ==
    ASSUME TypeOK, PromiseInv, QueueInv, CallSpends, NEW c \in Calls, Promotes(c)
    PROVE  QueueInv'
<1>1. PICK j : /\ Requeues(c, "promote", "promoted", j) /\ j.state # "none"
               /\ job[call[c].m].state = "delayed"
  BY DEF Promotes
<1>2. PICK m \in Messages : AtMessage(c, m, "promoted", j)
  BY <1>1, RequeueStart
<1>3. call[c].at = "promote" /\ job[m].state = "delayed"
  BY <1>1, <1>2 DEF Requeues, AtMessage
<1>4. ~Unpromoted(m) /\ ~Unpromoted(m)'
  BY <1>2, <1>3 DEF AtMessage, On, PromiseInv, Entitled, Unpromoted
<1>5. LockInv'
  <2>1. \A d \in Calls : Working(d)' => Working(d)
    BY <1>2 DEF AtMessage, WorkSteps
  <2>2. NoLapse => \A d \in Calls : On(d, m) => ~Working(d)
    BY <1>3, NoWorker
  <2>. QED
    BY <1>2, <2>1, <2>2, LockKept DEF AtMessage, CallSpends
<1>6. AddsFirst(m)' /\ StaysRemoved(m)' /\ OneReceipt(m)'
  BY <1>2, <1>4 DEF AtMessage, AddsFirst, StaysRemoved, OneReceipt
<1>7. CaredFor(m)'
  BY <1>1, <1>2 DEF AtMessage, CaredFor
<1>. QED
  BY <1>2, <1>5, <1>6, <1>7 DEF AtMessage, QueueInv, MessageInv

\* A worker that gives up its job leaves none behind.
LEMMA WorkerLeaves ==
    ASSUME TypeOK, QueueInv, CallSpends, NEW c \in Calls, Working(c), NEW b,
           b \notin WorkSteps, NEW j, NEW m \in Messages, AtMessage(c, m, b, j)
    PROVE  LockInv' /\ (NoLapse => \A d \in Calls : On(d, m)' => ~Working(d)')
<1>1. \A d \in Calls : Working(d)' => Working(d) /\ d # c
  BY DEF AtMessage
<1>2. NoLapse => \A d \in Calls : On(d, m) /\ Working(d) => d = c
  BY OnlyWorker DEF AtMessage
<1>3. NoLapse => \A d \in Calls : On(d, m)' => ~Working(d)'
  BY <1>1, <1>2 DEF AtMessage
<1>4. NoLapse => \A d \in Calls : On(d, m) => ~Working(d)'
  BY <1>1, <1>2
<1>5. LockInv'
  BY <1>1, <1>4, LockKept DEF AtMessage, CallSpends
<1>. QED
  BY <1>3, <1>5

\* Finishing a job, for which there is a receipt.
LEMMA FinishKeepsQueue ==
    ASSUME TypeOK, RecordInv, PromiseInv, QueueInv, CallSpends,
           NEW c \in Calls, Finishes(c)
    PROVE  QueueInv'
<1>1. Requeues(c, "finish", "completed", NoJob)
  BY DEF Finishes
<1>2. PICK m \in Messages : AtMessage(c, m, "completed", NoJob)
  BY <1>1, RequeueStart
<1>3. call[c].at = "finish" /\ NoJob.state = "none" /\ Working(c)
  BY <1>1, <1>2 DEF Requeues, AtMessage, NoJob, Working, WorkSteps, On
<1>4. LockInv' /\ (NoLapse => \A d \in Calls : On(d, m)' => ~Working(d)')
  BY <1>2, <1>3, WorkerLeaves DEF WorkSteps
<1>5. Unpromoted(m) => \A d \in Calls : On(d, m) => call[d].at # "add"
  BY <1>2, <1>3 DEF AtMessage, QueueInv, MessageInv, AddsFirst
<1>6. AddsFirst(m)'
  BY <1>2, <1>5 DEF AtMessage, AddsFirst, Unpromoted
<1>7. StaysRemoved(m)'
  BY <1>2, <1>3, <1>4, <1>5 DEF AtMessage, StaysRemoved, Unpromoted, CallSpends, Working,
     WorkSteps, On
<1>8. OneReceipt(m)'
  BY <1>2, <1>3 DEF AtMessage, QueueInv, MessageInv, OneReceipt, Unpromoted, Before, CallSpends
<1>9. CaredFor(m)'
  <2>1. row[m].sendResult
    BY <1>2, <1>3 DEF AtMessage, On, RecordInv, Knows
  <2>. QED
    BY <1>2, <2>1 DEF AtMessage, CaredFor, Settled
<1>. QED
  BY <1>2, <1>4, <1>6, <1>7, <1>8, <1>9 DEF AtMessage, QueueInv, MessageInv

\* Failing a job, for which there is none.
LEMMA FailKeepsQueue ==
    ASSUME TypeOK, PromiseInv, QueueInv, CallSpends, NEW c \in Calls, Fails(c)
    PROVE  QueueInv'
<1>1. PICK j : Requeues(c, "fail", "failed", j)
  BY DEF Fails
<1>2. PICK m \in Messages : AtMessage(c, m, "failed", j)
  BY <1>1, RequeueStart
<1>3. call[c].at = "fail" /\ Working(c)
  BY <1>1, <1>2 DEF Requeues, AtMessage, Working, WorkSteps, On
<1>4. LockInv'
  BY <1>2, <1>3, WorkerLeaves DEF WorkSteps
<1>5. Unpromoted(m) => \A d \in Calls : On(d, m) => call[d].at # "add"
  BY <1>2, <1>3 DEF AtMessage, QueueInv, MessageInv, AddsFirst
<1>6. AddsFirst(m)'
  BY <1>2, <1>5 DEF AtMessage, QueueInv, MessageInv, AddsFirst, Unpromoted
<1>7. StaysRemoved(m)'
  <2>1. Unpromoted(m) /\ NoLapse => ~Removal(m)
    BY <1>2, <1>3 DEF AtMessage, QueueInv, MessageInv, StaysRemoved, WorkSteps
  <2>2. Removal(m)' => Removal(m)
    BY <1>2 DEF AtMessage, Removal
  <2>. QED
    BY <1>2, <2>1, <2>2 DEF AtMessage, StaysRemoved, Unpromoted, CallSpends
<1>8. OneReceipt(m)'
  BY <1>2, <1>3 DEF AtMessage, QueueInv, MessageInv, OneReceipt, Unpromoted, Before, CallSpends
<1>9. CaredFor(m)'
  BY <1>2 DEF AtMessage, CaredFor
<1>. QED
  BY <1>2, <1>4, <1>6, <1>7, <1>8, <1>9 DEF AtMessage, QueueInv, MessageInv

\* Sending, which nobody has done before.
LEMMA SendKeeps ==
    ASSUME TypeOK, PromiseInv, QueueInv, CallSpends, NEW c \in Calls, Sends(c)
    PROVE  QueueInv'
<1>1. PICK b \in {"result", "fail"} : Moves(c, b) /\ (spent' = spent => b = "result")
  BY DEF Sends
<1>2. /\ call[c].at = "send" /\ UNCHANGED <<stored, job, row, asked, cut>>
      /\ inbox' = [inbox EXCEPT ![call[c].m] = @ + 1]
  BY DEF Sends
<1>3. PICK m \in Messages : call[c].m = m /\ On(c, m)
  BY <1>1, Busy DEF TypeOK, CallsOK, On, Moves
<1>4. /\ inbox'[m] = inbox[m] + 1 /\ inbox[m] \in Nat /\ m \in stored
  BY <1>1, <1>2, <1>3 DEF TypeOK, PromiseInv, Entitled, Moves
<1>5. Elsewise(m)
  BY <1>1, <1>2, <1>3, MovesElsewise
<1>6. \A n \in Messages \ {m} : MessageInv(n)'
  BY <1>2, <1>5, ElsewiseKept DEF CallSpends
<1>7. /\ On(c, m)' /\ call'[c].at = b
      /\ \A d \in Calls : On(d, m)' => On(d, m) /\ (d # c => call'[d] = call[d])
  BY <1>1, <1>3, MovesOn DEF On, Moves
<1>8. Working(c)
  BY <1>2, <1>3 DEF Working, On, WorkSteps
<1>9. LockInv'
  <2>1. \A d \in Calls : Working(d)' => /\ Working(d) /\ call'[d].m = call[d].m
                                        /\ call'[d].proc = call[d].proc
    BY <1>1, <1>8, MovesOn
  <2>2. \A d \in Calls : NoLapse /\ Working(d)' /\ On(d, m) =>
           job'[m].state = "active" /\ job'[m].lock = call[d].proc
    BY <1>2, <2>1 DEF QueueInv, LockInv, On
  <2>. QED
    BY <1>2, <2>1, <2>2, LockKept DEF CallSpends
<1>10. Unpromoted(m) => \A d \in Calls : On(d, m) => call[d].at # "add"
  BY <1>2, <1>3 DEF QueueInv, MessageInv, AddsFirst
<1>11. AddsFirst(m)'
  BY <1>1, <1>2, <1>4, <1>7, <1>10 DEF AddsFirst, Unpromoted
<1>12. StaysRemoved(m)'
  <2>1. Unpromoted(m) /\ NoLapse => ~Removal(m)
    BY <1>2, <1>3 DEF QueueInv, MessageInv, StaysRemoved, WorkSteps
  <2>2. Removal(m)' => Removal(m)
    BY <1>1, <1>2, <1>7 DEF Removal
  <2>. QED
    BY <1>2, <2>1, <2>2 DEF StaysRemoved, Unpromoted, CallSpends
<1>13. OneReceipt(m)'
  <2>. SUFFICES ASSUME Unpromoted(m), NoFailure', "worker" \notin cut[m]
                PROVE  /\ inbox'[m] = 1
                       /\ \A d \in Calls : On(d, m)' => call'[d].at \notin Before
                       /\ \E d \in Calls : On(d, m)' /\ call'[d].at \in After
    BY <1>2 DEF OneReceipt, Unpromoted
  <2>1. NoFailure /\ spent' = spent /\ b = "result" /\ NoLapse
    BY <1>1 DEF CallSpends, NoFailure, NoLapse, TypeOK
  <2>2. inbox[m] = 0
    BY <1>2, <1>3, <2>1 DEF QueueInv, MessageInv, OneReceipt, Before
  <2>3. \A d \in Calls : On(d, m) /\ Working(d) => d = c
    BY <1>3, <1>8, <2>1, OnlyWorker
  <2>4. \A d \in Calls : On(d, m) /\ d # c => call[d].at \notin Before
    BY <1>10, <2>3 DEF Before, Working, WorkSteps, On
  <2>5. \A d \in Calls : On(d, m)' => call'[d].at \notin Before
    BY <1>7, <2>1, <2>4 DEF Before
  <2>. QED
    BY <1>4, <1>7, <2>1, <2>2, <2>5 DEF After
<1>14. CaredFor(m)'
  <2>1. NoFailure /\ "other" \notin cut[m] =>
           \/ Settled(m) \/ job[m].state # "none"
           \/ \E d \in Calls : On(d, m) /\ call[d].at \in {"add", "removed", "failed"}
    BY <1>4 DEF QueueInv, MessageInv, CaredFor
  <2>2. ASSUME NEW d \in Calls, On(d, m), call[d].at \in {"add", "removed", "failed"}
        PROVE  On(d, m)' /\ call'[d].at \in {"add", "removed", "failed"}
    BY <1>1, <1>2, <2>2 DEF Moves, On
  <2>. QED
    BY <1>2, <2>1, <2>2 DEF CaredFor, Settled, CallSpends
<1>. QED
  BY <1>6, <1>9, <1>11, <1>12, <1>13, <1>14 DEF QueueInv, MessageInv

-----------------------------------------------------------------------------
(* What Bull, Redis and the processes do to the invariant. *)

\* A worker, or the stalled-job check, begins with a job.
Begins(c, p, m, step, j) ==
    /\ call[c] = Idle
    /\ call' = [call EXCEPT ![c] =
                  [at |-> step, kind |-> "work", m |-> m,
                   by |-> Owner[m], proc |-> p, seen |-> NoSnapshot,
                   content |-> FALSE, drops |-> FALSE]]
    /\ job' = [job EXCEPT ![m] = j]
    /\ UNCHANGED <<stored, row, mode, inbox, asked, cut, spent>>

\* What the other calls and messages see of it.
LEMMA BeginsOn ==
    ASSUME TypeOK, QueueInv, NEW c \in Calls, NEW p, NEW m \in Messages,
           NEW step \in Steps, NEW j, Begins(c, p, m, step, j)
    PROVE  /\ On(c, m)' /\ call'[c].at = step /\ call'[c].proc = p /\ job'[m] = j
           /\ \A d \in Calls : d # c => call'[d] = call[d]
           /\ \A d \in Calls : On(d, m) => d # c
           /\ \A n \in Messages \ {m} : MessageInv(n)' /\ job'[n] = job[n]
<1>1. /\ call'[c].at = step /\ call'[c].m = m /\ call'[c].proc = p
      /\ \A d \in Calls : d # c => call'[d] = call[d]
  BY DEF Begins, TypeOK
<1>2. call'[c] # Idle /\ call[c] = Idle
  BY <1>1 DEF Begins, Idle, Steps, UpdateSteps, WorkSteps
<1>3. job'[m] = j /\ \A n \in Messages \ {m} : job'[n] = job[n]
  BY DEF Begins, TypeOK
<1>4. Elsewise(m)
  BY <1>1, <1>2, <1>3 DEF Elsewise, On, Begins
<1>5. (NoLapse' => NoLapse) /\ (NoFailure' => NoFailure)
  BY DEF Begins, NoLapse, NoFailure
<1>6. \A n \in Messages \ {m} : MessageInv(n)'
  BY <1>4, <1>5, ElsewiseKept DEF Begins
<1>. QED
  BY <1>1, <1>2, <1>3, <1>6 DEF On

\* A replica's worker takes a waiting job.
LEMMA TakeKeeps ==
    ASSUME TypeOK, PromiseInv, QueueInv, NEW c \in Calls, NEW p \in Procs,
           NEW m \in Messages, Take(c, p, m)
    PROVE  QueueInv'
<1>1. /\ Begins(c, p, m, "processing", taken(job[m], p))
      /\ WorkerIdle(p) /\ job[m].state = "waiting"
  BY DEF Take, Begins
<1>2. /\ On(c, m)' /\ call'[c].at = "processing" /\ call'[c].proc = p
      /\ job'[m] = taken(job[m], p)
      /\ \A d \in Calls : d # c => call'[d] = call[d]
      /\ \A d \in Calls : On(d, m) => d # c
      /\ \A n \in Messages \ {m} : MessageInv(n)' /\ job'[n] = job[n]
  BY <1>1, BeginsOn DEF Steps, UpdateSteps
<1>3. job'[m].state = "active" /\ job'[m].lock = p /\ m \in stored
  BY <1>1, <1>2 DEF TypeOK, taken, Job, PromiseInv, Justified
<1>4. UNCHANGED <<stored, row, inbox, asked, cut, spent>>
  BY <1>1 DEF Begins
<1>5. LockInv'
  <2>1. \A d \in Calls : Working(d) => call[d].proc # p
    BY <1>1 DEF WorkerIdle, Working
  <2>2. \A d \in Calls : Working(d)' /\ d # c => Working(d) /\ call'[d] = call[d]
    BY <1>2 DEF Working
  <2>3. ASSUME NEW d \in Calls, NEW e \in Calls, Working(d)', Working(e)',
               call'[d].proc = call'[e].proc
        PROVE  d = e
    <3>1. CASE d # c /\ e # c
      BY <2>2, <2>3, <3>1 DEF QueueInv, LockInv
    <3>2. CASE d = c \/ e = c
      BY <1>2, <2>1, <2>2, <2>3, <3>2
    <3>. QED
      BY <3>1, <3>2
  <2>4. ASSUME NoLapse', NEW d \in Calls, Working(d)'
        PROVE  job'[call'[d].m].state = "active" /\ job'[call'[d].m].lock = call'[d].proc
    <3>1. CASE d = c
      BY <1>2, <1>3, <3>1 DEF On
    <3>2. CASE d # c
      <4>1. /\ Working(d) /\ call'[d] = call[d] /\ NoLapse
            /\ call[d].m \in Messages
        BY <1>4, <2>2, <2>4, <3>2, Busy DEF NoLapse, Working, TypeOK, CallsOK
      <4>2. job[call[d].m].state = "active" /\ job[call[d].m].lock = call[d].proc
        BY <4>1 DEF QueueInv, LockInv
      <4>3. call[d].m # m
        BY <1>1, <4>2
      <4>. QED
        BY <1>2, <4>1, <4>2, <4>3
    <3>. QED
      BY <3>1, <3>2
  <2>. QED
    BY <2>3, <2>4 DEF LockInv
<1>6. AddsFirst(m)'
  <2>1. Unpromoted(m) => \A d \in Calls : On(d, m) => call[d].at # "add"
    BY <1>1 DEF QueueInv, MessageInv, AddsFirst
  <2>. QED
    BY <1>2, <1>3, <1>4, <2>1 DEF AddsFirst, Unpromoted, On
<1>7. StaysRemoved(m)'
  <2>1. Unpromoted(m) /\ NoLapse => ~Removal(m)
    BY <1>1 DEF QueueInv, MessageInv, StaysRemoved
  <2>2. Removal(m)' => Removal(m)
    BY <1>2, <1>4 DEF Removal, On
  <2>. QED
    BY <1>4, <2>1, <2>2 DEF StaysRemoved, Unpromoted, NoLapse
<1>8. OneReceipt(m)'
  <2>1. NoLapse => \A d \in Calls : On(d, m) => ~Working(d)
    BY <1>1, NoWorker
  <2>2. NoFailure => NoLapse
    BY DEF NoFailure, NoLapse, TypeOK
  <2>3. Unpromoted(m) /\ NoFailure /\ "worker" \notin cut[m] => inbox[m] = 0
    BY <1>1, <2>1, <2>2 DEF QueueInv, MessageInv, OneReceipt, Working, On, After, WorkSteps
  <2>. QED
    BY <1>4, <2>3 DEF OneReceipt, Unpromoted, NoFailure
<1>9. CaredFor(m)'
  BY <1>3 DEF CaredFor
<1>. QED
  BY <1>2, <1>5, <1>6, <1>7, <1>8, <1>9 DEF QueueInv, MessageInv

\* A job that stalled has no worker and is neither removed nor sent for good.
LEMMA StalledJob ==
    ASSUME TypeOK, QueueInv, NEW m \in Messages, job[m].state # "none",
           job[m].state # "active" \/ job[m].lock = NoProc
    PROVE  /\ NoLapse => \A d \in Calls : On(d, m) => ~Working(d)
           /\ Unpromoted(m) => \A d \in Calls : On(d, m) => call[d].at # "add"
           /\ Unpromoted(m) /\ NoLapse => ~Removal(m)
           /\ Unpromoted(m) /\ NoFailure /\ "worker" \notin cut[m] => inbox[m] = 0
<1>1. NoLapse => \A d \in Calls : On(d, m) => ~Working(d)
  BY NoWorker
<1>2. NoFailure => NoLapse
  BY DEF NoFailure, NoLapse, TypeOK
<1>. QED
  BY <1>1, <1>2 DEF QueueInv, MessageInv, AddsFirst, StaysRemoved, OneReceipt, Working, On,
     After, WorkSteps

\* Bull gives a job up, and says so.
LEMMA StalledTooOftenKeeps ==
    ASSUME TypeOK, PromiseInv, QueueInv, NEW c \in Calls, NEW p \in Procs,
           NEW m \in Messages, StalledTooOften(c, p, m)
    PROVE  QueueInv'
<1>1. /\ Begins(c, p, m, "failed", afterStall(job[m]))
      /\ job[m].state = "active" /\ job[m].lock = NoProc
  BY DEF StalledTooOften, Begins, Stalled
<1>2. /\ On(c, m)' /\ call'[c].at = "failed"
      /\ \A d \in Calls : d # c => call'[d] = call[d]
      /\ \A d \in Calls : On(d, m) => d # c
      /\ \A n \in Messages \ {m} : MessageInv(n)' /\ job'[n] = job[n]
  BY <1>1, BeginsOn DEF Steps, UpdateSteps
<1>3. m \in stored /\ UNCHANGED <<stored, row, inbox, asked, cut, spent>>
  BY <1>1 DEF Begins, PromiseInv, Justified
<1>4. /\ NoLapse => \A d \in Calls : On(d, m) => ~Working(d)
      /\ Unpromoted(m) => \A d \in Calls : On(d, m) => call[d].at # "add"
      /\ Unpromoted(m) /\ NoLapse => ~Removal(m)
      /\ Unpromoted(m) /\ NoFailure /\ "worker" \notin cut[m] => inbox[m] = 0
  BY <1>1, StalledJob
<1>5. LockInv'
  <2>1. \A d \in Calls : Working(d)' => /\ Working(d) /\ call'[d].m = call[d].m
                                        /\ call'[d].proc = call[d].proc
    BY <1>2 DEF Working, WorkSteps
  <2>. QED
    BY <1>2, <1>3, <1>4, <2>1, LockKept DEF NoLapse
<1>6. AddsFirst(m)'
  BY <1>2, <1>3, <1>4 DEF AddsFirst, Unpromoted, On
<1>7. StaysRemoved(m)'
  <2>1. Removal(m)' => Removal(m)
    BY <1>2, <1>3 DEF Removal, On
  <2>. QED
    BY <1>3, <1>4, <2>1 DEF StaysRemoved, Unpromoted, NoLapse
<1>8. OneReceipt(m)' /\ CaredFor(m)'
  BY <1>2, <1>3, <1>4 DEF OneReceipt, CaredFor, Unpromoted, NoFailure
<1>. QED
  BY <1>2, <1>5, <1>6, <1>7, <1>8 DEF QueueInv, MessageInv

\* A job that nobody works on becomes ready again.
LEMMA ReadyKeeps ==
    ASSUME TypeOK, PromiseInv, QueueInv, NEW m \in Messages, NEW j,
           job' = [job EXCEPT ![m] = j], j.state # "none",
           job[m].state # "none", job[m].state # "active" \/ job[m].lock = NoProc,
           UNCHANGED <<stored, row, call, inbox, asked, cut, spent>>
    PROVE  QueueInv'
<1>1. job'[m] = j /\ \A n \in Messages \ {m} : job'[n] = job[n]
  BY DEF TypeOK
<1>2. /\ NoLapse => \A d \in Calls : On(d, m) => ~Working(d)
      /\ Unpromoted(m) => \A d \in Calls : On(d, m) => call[d].at # "add"
      /\ Unpromoted(m) /\ NoLapse => ~Removal(m)
      /\ Unpromoted(m) /\ NoFailure /\ "worker" \notin cut[m] => inbox[m] = 0
  BY StalledJob
<1>3. \A d \in Calls : On(d, m)' <=> On(d, m)
  BY DEF On
<1>4. LockInv'
  <2>1. \A d \in Calls : Working(d)' => /\ Working(d) /\ call'[d].m = call[d].m
                                        /\ call'[d].proc = call[d].proc
    BY DEF Working
  <2>. QED
    BY <1>1, <1>2, <2>1, LockKept DEF NoLapse
<1>5. \A n \in Messages \ {m} : MessageInv(n)'
  <2>1. Elsewise(m)
    BY <1>1 DEF Elsewise, On
  <2>. QED
    BY <2>1, ElsewiseKept DEF NoLapse, NoFailure
<1>6. AddsFirst(m)'
  <2>1. m \notin stored => inbox[m] = 0
    BY DEF QueueInv, MessageInv, AddsFirst
  <2>. QED
    BY <1>2, <1>3, <2>1 DEF AddsFirst, Unpromoted
<1>7. StaysRemoved(m)'
  <2>1. Removal(m)' => Removal(m)
    BY DEF Removal, On
  <2>. QED
    BY <1>2, <2>1 DEF StaysRemoved, Unpromoted, NoLapse
<1>8. OneReceipt(m)' /\ CaredFor(m)'
  BY <1>1, <1>2 DEF OneReceipt, CaredFor, Unpromoted, NoFailure
<1>. QED
  BY <1>4, <1>5, <1>6, <1>7, <1>8 DEF QueueInv, MessageInv

\* Delays that expire, and stalled jobs that get another chance.
LEMMA WaitsKeeps ==
    ASSUME TypeOK, PromiseInv, QueueInv, NEW m \in Messages,
           DelayExpires(m) \/ \E p \in Procs : Requeue(p, m)
    PROVE  QueueInv'
<1>1. job[m] \in Job
  BY DEF TypeOK
<1>2. CASE DelayExpires(m)
  <2>1. promoted(job[m]).state # "none"
    BY <1>1 DEF promoted, Job
  <2>. QED
    BY <1>2, <2>1, ReadyKeeps DEF DelayExpires
<1>3. CASE \E p \in Procs : Requeue(p, m)
  <2>1. Stalled(job[m]) /\ job[m].stalls < MaxStalls
    BY <1>3 DEF Requeue
  <2>2. afterStall(job[m]).state # "none"
    BY <1>1, <2>1 DEF afterStall, Job
  <2>. QED
    BY <1>3, <2>1, <2>2, ReadyKeeps DEF Requeue, Stalled
<1>. QED
  BY <1>2, <1>3

\* After a lapse little is promised any more.
LEMMA LapseKeeps ==
    ASSUME TypeOK, QueueInv, NEW m \in Messages, LockLapses(m) \/ JobLost(m)
    PROVE  QueueInv'
<1>1. Spend("lapse") /\ UNCHANGED <<stored, row, call, inbox, asked, cut>>
  BY DEF LockLapses, JobLost
<1>2. ~NoLapse' /\ ~NoFailure'
  BY <1>1, Spent DEF NoLapse, NoFailure, TypeOK
<1>3. \A n \in Messages : job[n].state = "none" => job'[n].state = "none"
  <2>1. job[m] \in Job
    BY DEF TypeOK
  <2>2. CASE LockLapses(m)
    <3>1. job' = [job EXCEPT ![m] = [job[m] EXCEPT !.lock = NoProc]]
      BY <2>2 DEF LockLapses
    <3>. QED
      BY <2>1, <3>1 DEF TypeOK, Job
  <2>3. CASE JobLost(m)
    BY <2>3 DEF JobLost, TypeOK, NoJob
  <2>. QED
    BY <2>2, <2>3
<1>4. LockInv'
  BY <1>1, <1>2 DEF QueueInv, LockInv, Working
<1>5. \A n \in Messages : AddsFirst(n)'
  BY <1>1, <1>3 DEF QueueInv, MessageInv, AddsFirst, On, Unpromoted
<1>6. \A n \in Messages : StaysRemoved(n)' /\ OneReceipt(n)' /\ CaredFor(n)'
  BY <1>2 DEF StaysRemoved, OneReceipt, CaredFor
<1>. QED
  BY <1>4, <1>5, <1>6 DEF QueueInv, MessageInv

\* A process that dies leaves its jobs unlocked, and its mark on the messages
\* its calls were about.
LEMMA DeathMarks ==
    ASSUME TypeOK, NEW p \in Procs, Dies(p)
    PROVE  /\ \A d \in Calls, n \in Messages :
                 On(d, n)' => On(d, n) /\ call'[d] = call[d]
           /\ \A d \in Calls : Working(d)' =>
                 Working(d) /\ call'[d] = call[d] /\ call[d].proc # p
           /\ \A d \in Calls, n \in Messages :
                 On(d, n) => \/ On(d, n)' /\ call'[d] = call[d]
                             \/ call[d].at \in WorkSteps /\ "worker" \in cut'[n]
                             \/ call[d].at \notin WorkSteps /\ "other" \in cut'[n]
           /\ \A n \in Messages : /\ cut[n] \subseteq cut'[n]
                                  /\ job'[n].state = job[n].state
                                  /\ job[n].lock # p => job'[n] = job[n]
<1>1. \A d \in Calls : call'[d] = IF Runs(d, p) THEN Idle ELSE call[d]
  BY DEF Dies
<1>2. \A d \in Calls, n \in Messages : On(d, n)' => On(d, n) /\ call'[d] = call[d]
  BY <1>1 DEF On
<1>3. \A d \in Calls : Working(d)' =>
         Working(d) /\ call'[d] = call[d] /\ call[d].proc # p
  BY <1>1 DEF Working, Runs
<1>4. ASSUME NEW d \in Calls, NEW n \in Messages, On(d, n), Runs(d, p)
      PROVE  (IF call[d].at \in WorkSteps THEN "worker" ELSE "other") \in cut'[n]
  <2>1. cut'[n] = cut[n] \cup
           {IF call[c].at \in WorkSteps THEN "worker" ELSE "other" :
              c \in {e \in Calls : Runs(e, p) /\ call[e].m = n}}
    BY DEF Dies
  <2>. QED
    BY <1>4, <2>1 DEF On
<1>5. \A d \in Calls, n \in Messages :
         On(d, n) => \/ On(d, n)' /\ call'[d] = call[d]
                     \/ call[d].at \in WorkSteps /\ "worker" \in cut'[n]
                     \/ call[d].at \notin WorkSteps /\ "other" \in cut'[n]
  <2>. SUFFICES ASSUME NEW d \in Calls, NEW n \in Messages, On(d, n)
                PROVE  \/ On(d, n)' /\ call'[d] = call[d]
                       \/ call[d].at \in WorkSteps /\ "worker" \in cut'[n]
                       \/ call[d].at \notin WorkSteps /\ "other" \in cut'[n]
    OBVIOUS
  <2>1. CASE Runs(d, p)
    BY <1>4, <2>1
  <2>2. CASE ~Runs(d, p)
    BY <1>1, <2>2 DEF On
  <2>. QED
    BY <2>1, <2>2
<1>6. \A n \in Messages : cut[n] \subseteq cut'[n]
  BY DEF Dies
<1>7. \A n \in Messages : /\ job'[n].state = job[n].state
                          /\ job[n].lock # p => job'[n] = job[n]
  <2>. SUFFICES ASSUME NEW n \in Messages
                PROVE  /\ job'[n].state = job[n].state
                       /\ job[n].lock # p => job'[n] = job[n]
    OBVIOUS
  <2>1. job[n] \in Job
    BY DEF TypeOK
  <2>2. job'[n] = IF job[n].lock = p THEN [job[n] EXCEPT !.lock = NoProc] ELSE job[n]
    BY DEF Dies
  <2>. QED
    BY <2>1, <2>2 DEF Job
<1>. QED
  BY <1>2, <1>3, <1>5, <1>6, <1>7

\* A process that dies keeps the invariant.
LEMMA DeathKeeps ==
    ASSUME TypeOK, QueueInv, NEW p \in Procs, Dies(p),
           UNCHANGED <<stored, row, inbox, asked>>,
           NoLapse' => NoLapse, NoFailure' => NoFailure
    PROVE  QueueInv'
<1>1. /\ \A d \in Calls, n \in Messages :
            On(d, n)' => On(d, n) /\ call'[d] = call[d]
      /\ \A d \in Calls : Working(d)' =>
            Working(d) /\ call'[d] = call[d] /\ call[d].proc # p
      /\ \A d \in Calls, n \in Messages :
            On(d, n) => \/ On(d, n)' /\ call'[d] = call[d]
                        \/ call[d].at \in WorkSteps /\ "worker" \in cut'[n]
                        \/ call[d].at \notin WorkSteps /\ "other" \in cut'[n]
      /\ \A n \in Messages : /\ cut[n] \subseteq cut'[n]
                             /\ job'[n].state = job[n].state
                             /\ job[n].lock # p => job'[n] = job[n]
  BY DeathMarks
<1>2. LockInv'
  <2>1. ASSUME NEW c \in Calls, NEW d \in Calls, Working(c)', Working(d)',
               call'[c].proc = call'[d].proc
        PROVE  c = d
    BY <1>1, <2>1 DEF QueueInv, LockInv
  <2>2. ASSUME NoLapse', NEW d \in Calls, Working(d)'
        PROVE  job'[call'[d].m].state = "active" /\ job'[call'[d].m].lock = call'[d].proc
    <3>1. Working(d) /\ call'[d] = call[d] /\ call[d].proc # p
      BY <1>1, <2>2
    <3>2. call[d].m \in Messages
      BY <3>1, Busy DEF Working, TypeOK, CallsOK
    <3>3. job[call[d].m].state = "active" /\ job[call[d].m].lock = call[d].proc
      BY <2>2, <3>1 DEF QueueInv, LockInv
    <3>. QED
      BY <1>1, <3>1, <3>2, <3>3
  <2>. QED
    BY <2>1, <2>2 DEF LockInv
<1>. SUFFICES ASSUME NEW n \in Messages PROVE MessageInv(n)'
  BY <1>2 DEF QueueInv
<1>3. MessageInv(n)
  BY DEF QueueInv
<1>4. AddsFirst(n)'
  BY <1>1, <1>3 DEF MessageInv, AddsFirst, Unpromoted
<1>5. StaysRemoved(n)'
  <2>1. Removal(n)' => Removal(n)
    BY <1>1 DEF Removal
  <2>. QED
    BY <1>1, <1>3, <2>1 DEF MessageInv, StaysRemoved, Unpromoted
<1>6. OneReceipt(n)'
  BY <1>1, <1>3 DEF MessageInv, OneReceipt, Unpromoted, After, WorkSteps
<1>7. CaredFor(n)'
  BY <1>1, <1>3 DEF MessageInv, CaredFor, Settled, WorkSteps
<1>. QED
  BY <1>4, <1>5, <1>6, <1>7 DEF MessageInv

\* A step that changes nothing the invariant is about.
LEMMA QuietKeeps ==
    ASSUME QueueInv, UNCHANGED <<stored, row, job, call, inbox, asked, cut>>,
           NoLapse' => NoLapse, NoFailure' => NoFailure
    PROVE  QueueInv'
<1>1. LockInv'
  BY DEF QueueInv, LockInv, Working
<1>. SUFFICES ASSUME NEW n \in Messages PROVE MessageInv(n)'
  BY <1>1 DEF QueueInv
<1>2. MessageInv(n)
  BY DEF QueueInv
<1>3. AddsFirst(n)' /\ StaysRemoved(n)'
  BY <1>2 DEF MessageInv, AddsFirst, StaysRemoved, Removal, On, Unpromoted
<1>4. OneReceipt(n)' /\ CaredFor(n)'
  BY <1>2 DEF MessageInv, OneReceipt, CaredFor, Settled, On, Unpromoted
<1>. QED
  BY <1>3, <1>4 DEF MessageInv

\* Whatever happens to the processes.
LEMMA ProcessKeeps ==
    ASSUME TypeOK, QueueInv, NEW p \in Procs,
           Crash(p) \/ Terminate(p) \/ Exit(p) \/ Restart(p)
    PROVE  QueueInv'
<1>1. (NoLapse' => NoLapse) /\ (NoFailure' => NoFailure)
  <2>1. CASE Spend("crash")
    BY <2>1, Spent DEF NoLapse, NoFailure
  <2>2. CASE UNCHANGED spent
    BY <2>2 DEF NoLapse, NoFailure
  <2>. QED
    BY <2>1, <2>2 DEF Crash, Terminate, Exit, Restart
<1>2. CASE Crash(p) \/ Exit(p)
  BY <1>1, <1>2, DeathKeeps DEF Crash, Exit
<1>3. CASE Terminate(p) \/ Restart(p)
  BY <1>1, <1>3, QuietKeeps DEF Terminate, Restart
<1>. QED
  BY <1>2, <1>3

-----------------------------------------------------------------------------
(* What the API does to the invariant. *)

\* A call at the step has started on each message of S, and on no other.
StartedAt(step, S) ==
    /\ \A d \in Calls :
          \/ call'[d] = call[d]
          \/ call[d] = Idle /\ call'[d].at = step /\ call'[d].m \in S
    /\ \A d \in Calls : call[d] # Idle => call'[d] = call[d]
    /\ \A m \in S : \E d \in Calls : On(d, m)' /\ call'[d].at = step
    /\ \A d \in Calls, e \in Calls, m \in S :
          call[d] = Idle /\ call[e] = Idle /\ On(d, m)' /\ On(e, m)' => d = e

\* That is what Start does.
LEMMA Started ==
    ASSUME TypeOK, NEW kind, NEW step \in {"add", "getJob"}, NEW client, NEW p,
           NEW S \in SUBSET Messages, Start(kind, step, client, p, S)
    PROVE  StartedAt(step, S)
<1>. DEFINE New(carried, c) ==
              [at |-> step, kind |-> kind, m |-> carried[c],
               by |-> client, proc |-> p, seen |-> NoSnapshot,
               content |-> kind = "bulkPromote" /\ row[carried[c]].email,
               drops |-> FALSE]
<1>0. PICK D \in SUBSET IdleCalls : \E carried \in Bijection(D, S) :
         call' = [c \in Calls |-> IF c \in D THEN New(carried, c) ELSE call[c]]
  BY DEF Start
<1>1. PICK carried \in Bijection(D, S) :
         call' = [c \in Calls |-> IF c \in D THEN New(carried, c) ELSE call[c]]
  BY <1>0
<1>2. /\ carried \in [D -> S]
      /\ \A d, e \in D : carried[d] = carried[e] => d = e
      /\ \A m \in S : \E d \in D : carried[d] = m
  BY DEF Bijection, Injection, Surjection, IsInjective
<1>3. /\ \A d \in D : d \in Calls /\ call[d] = Idle
      /\ \A d \in D : call'[d].at = step /\ call'[d].m = carried[d]
      /\ \A d \in Calls \ D : call'[d] = call[d]
  BY <1>1 DEF IdleCalls
<1>4. \A d \in D : call'[d] # Idle
  BY <1>3 DEF Idle
<1>5. ASSUME NEW d \in Calls, NEW e \in Calls, NEW m \in S,
             call[d] = Idle, call[e] = Idle, On(d, m)', On(e, m)'
      PROVE  d = e
  BY <1>2, <1>3, <1>5 DEF On
<1>6. \A m \in S : \E d \in Calls : On(d, m)' /\ call'[d].at = step
  BY <1>2, <1>3, <1>4 DEF On
<1>7. \A d \in Calls :
         \/ call'[d] = call[d]
         \/ call[d] = Idle /\ call'[d].at = step /\ call'[d].m \in S
  BY <1>2, <1>3
<1>. QED
  BY <1>3, <1>5, <1>6, <1>7 DEF StartedAt

\* Sending stores messages that nothing is known of yet, and enqueues each.
LEMMA SendEmailKeeps ==
    ASSUME TypeOK, PromiseInv, QueueInv, NEW p \in Procs, NEW client \in Clients,
           NEW S \in SUBSET Messages, sendEmail(p, client, S)
    PROVE  QueueInv'
<1>1. /\ S \cap stored = {} /\ stored' = stored \cup S
      /\ Start("send", "add", client, p, S)
      /\ UNCHANGED <<row, job, inbox, asked, cut, spent>>
  BY DEF sendEmail
<1>2. /\ \A d \in Calls :
            \/ call'[d] = call[d]
            \/ call[d] = Idle /\ call'[d].at = "add" /\ call'[d].m \in S
      /\ \A d \in Calls : call[d] # Idle => call'[d] = call[d]
      /\ \A m \in S : \E d \in Calls : On(d, m)' /\ call'[d].at = "add"
      /\ \A d \in Calls, e \in Calls, m \in S :
            call[d] = Idle /\ call[e] = Idle /\ On(d, m)' /\ On(e, m)' => d = e
  <2>1. StartedAt("add", S)
    BY <1>1, Started
  <2>. QED
    BY <2>1 DEF StartedAt
<1>3. \A d \in Calls : Working(d)' => Working(d) /\ call'[d] = call[d]
  BY <1>2 DEF Working, WorkSteps
<1>4. LockInv'
  BY <1>1, <1>3 DEF QueueInv, LockInv, NoLapse
<1>5. ASSUME NEW m \in S
      PROVE  MessageInv(m)'
  <2>1. /\ m \in Messages /\ m \notin stored
        /\ row[m] = NewMessage /\ job[m].state = "none" /\ inbox[m] = 0
    BY <1>1 DEF PromiseInv, Justified, QueueInv, MessageInv, AddsFirst
  <2>2. \A d \in Calls : ~On(d, m)
    BY <2>1 DEF PromiseInv, Entitled, On
  <2>3. \A d \in Calls : On(d, m)' => call[d] = Idle /\ call'[d].at = "add"
    BY <1>2, <2>2 DEF On
  <2>4. "removed" \notin row[m].queueHistory
    BY <2>1 DEF NewMessage
  <2>5. AddsFirst(m)'
    BY <1>1, <1>2, <2>1, <2>3, <2>4 DEF AddsFirst
  <2>6. StaysRemoved(m)'
    BY <1>1, <2>3, <2>4 DEF StaysRemoved, Removal
  <2>7. OneReceipt(m)' /\ CaredFor(m)'
    BY <1>1, <1>2, <2>1 DEF OneReceipt, CaredFor
  <2>. QED
    BY <2>5, <2>6, <2>7 DEF MessageInv
<1>6. ASSUME NEW m \in Messages \ S
      PROVE  MessageInv(m)'
  <2>1. /\ \A d \in Calls : On(d, m)' <=> On(d, m)
        /\ \A d \in Calls : On(d, m)' => call'[d] = call[d]
    BY <1>2 DEF On
  <2>2. MessageInv(m) /\ (m \in stored' <=> m \in stored)
    BY <1>1 DEF QueueInv
  <2>3. AddsFirst(m)'
    BY <1>1, <2>1, <2>2 DEF MessageInv, AddsFirst, Unpromoted
  <2>4. StaysRemoved(m)'
    BY <1>1, <2>1, <2>2 DEF MessageInv, StaysRemoved, Removal, Unpromoted, NoLapse
  <2>5. OneReceipt(m)'
    BY <1>1, <2>1, <2>2 DEF MessageInv, OneReceipt, Unpromoted, NoFailure
  <2>6. CaredFor(m)'
    BY <1>1, <2>1, <2>2 DEF MessageInv, CaredFor, Settled, NoFailure
  <2>. QED
    BY <2>3, <2>4, <2>5, <2>6 DEF MessageInv
<1>. QED
  BY <1>4, <1>5, <1>6 DEF QueueInv

\* A transaction that is committed but not enqueued is a failure.
LEMMA UnreadKeeps ==
    ASSUME TypeOK, QueueInv, NEW p \in Procs, NEW client \in Clients,
           NEW S \in SUBSET Messages, sendEmailUnread(p, client, S)
    PROVE  QueueInv'
<1>1. /\ stored' = stored \cup S /\ Spend("fault")
      /\ UNCHANGED <<row, job, call, inbox, asked, cut>>
  BY DEF sendEmailUnread
<1>2. (NoLapse' => NoLapse) /\ ~NoFailure'
  BY <1>1, Spent DEF NoLapse, NoFailure, TypeOK
<1>3. LockInv'
  BY <1>1, <1>2 DEF QueueInv, LockInv, Working
<1>. SUFFICES ASSUME NEW n \in Messages PROVE MessageInv(n)'
  BY <1>3 DEF QueueInv
<1>4. MessageInv(n)
  BY DEF QueueInv
<1>5. AddsFirst(n)' /\ StaysRemoved(n)'
  BY <1>1, <1>2, <1>4 DEF MessageInv, AddsFirst, StaysRemoved, Removal, On, Unpromoted
<1>6. OneReceipt(n)' /\ CaredFor(n)'
  BY <1>2 DEF OneReceipt, CaredFor
<1>. QED
  BY <1>5, <1>6 DEF MessageInv

\* A request starts calls that first look for the job.
LEMMA RequestKeeps ==
    ASSUME TypeOK, QueueInv, NEW p \in Procs, NEW client \in Clients,
           NEW S \in SUBSET Messages, NEW kind, NEW op, Request(kind, op, p, client, S)
    PROVE  QueueInv'
<1>1. /\ Start(kind, "getJob", client, p, S) /\ Spend("request")
      /\ UNCHANGED <<stored, row, job, inbox, cut>>
  BY DEF Request
<1>2. /\ \A d \in Calls :
            \/ call'[d] = call[d]
            \/ call[d] = Idle /\ call'[d].at = "getJob"
      /\ \A d \in Calls : call[d] # Idle => call'[d] = call[d]
  BY <1>1, Started DEF StartedAt
<1>3. (NoLapse' => NoLapse) /\ (NoFailure' => NoFailure)
  BY <1>1, Spent DEF NoLapse, NoFailure
<1>4. \A n \in Messages : Unpromoted(n)' => Unpromoted(n)
  BY DEF Request, Unpromoted
<1>5. \A d \in Calls, n \in Messages :
         On(d, n)' => (On(d, n) /\ call'[d] = call[d]) \/ call'[d].at = "getJob"
  BY <1>2 DEF On
<1>6. \A d \in Calls, n \in Messages : On(d, n) => On(d, n)' /\ call'[d] = call[d]
  BY <1>2 DEF On
<1>7. \A d \in Calls : Working(d)' => Working(d) /\ call'[d] = call[d]
  BY <1>2 DEF Working, WorkSteps
<1>8. LockInv'
  BY <1>1, <1>3, <1>7 DEF QueueInv, LockInv
<1>. SUFFICES ASSUME NEW n \in Messages PROVE MessageInv(n)'
  BY <1>8 DEF QueueInv
<1>9. MessageInv(n)
  BY DEF QueueInv
<1>10. AddsFirst(n)'
  BY <1>1, <1>4, <1>5, <1>9 DEF MessageInv, AddsFirst
<1>11. StaysRemoved(n)'
  <2>1. Removal(n)' => Removal(n)
    BY <1>1, <1>5 DEF Removal
  <2>. QED
    BY <1>1, <1>3, <1>4, <1>5, <1>9, <2>1 DEF MessageInv, StaysRemoved, WorkSteps
<1>12. OneReceipt(n)'
  BY <1>1, <1>3, <1>4, <1>5, <1>6, <1>9 DEF MessageInv, OneReceipt, Before
<1>13. CaredFor(n)'
  BY <1>1, <1>3, <1>6, <1>9 DEF MessageInv, CaredFor, Settled
<1>. QED
  BY <1>10, <1>11, <1>12, <1>13 DEF MessageInv

-----------------------------------------------------------------------------
(* The invariant of the specification. *)

\* A call that goes on spends nothing, and one that fails, a fault.
LEMMA CallsSpend ==
    ASSUME TypeOK, NEW c \in Calls,
           Proceed(c) \/ SendUnanswered(c) \/ OperationFails(c) \/ ReadBackFails(c)
    PROVE  CallSpends
<1>1. CASE Proceed(c)
  <2>1. UNCHANGED spent
    BY <1>1 DEF Proceed, Add, GetJob, GetState, Remove, Promote, Recover, ReadStatus,
       WriteStatus, Purge, Load, Send, SaveResult, Finish, Fail
  <2>. QED
    BY <2>1 DEF CallSpends, NoLapse, NoFailure
<1>2. CASE SendUnanswered(c) \/ OperationFails(c) \/ ReadBackFails(c)
  <2>1. Spend("fault")
    BY <1>2 DEF SendUnanswered, OperationFails, ReadBackFails
  <2>. QED
    BY <2>1, Spent DEF CallSpends, NoLapse, NoFailure, TypeOK
<1>. QED
  BY <1>1, <1>2

\* A step of a call keeps the invariant.
LEMMA CallKeeps ==
    ASSUME TypeOK, RecordInv, PromiseInv, PromiseInv', QueueInv, NEW c \in Calls,
           Proceed(c) \/ SendUnanswered(c) \/ OperationFails(c) \/ ReadBackFails(c)
    PROVE  QueueInv'
<1>1. CallSpends
  BY CallsSpend
<1>2. \/ \E b : Talks(c, b)
      \/ Adds(c) \/ Removes(c) \/ Promotes(c) \/ Sends(c) \/ Finishes(c) \/ Fails(c)
  BY CallShapes
<1>. QED
  BY <1>1, <1>2, TalkKeeps, AddKeeps, RemoveKeeps, PromoteKeeps, SendKeeps,
     FinishKeepsQueue, FailKeepsQueue

\* Nothing is known of any message at first.
LEMMA QueueInit == Init => QueueInv
<1>. SUFFICES ASSUME Init PROVE QueueInv
  OBVIOUS
<1>1. \A c \in Calls : call[c] = Idle
  BY DEF Init
<1>2. \A m \in Messages : /\ m \notin stored /\ inbox[m] = 0
                          /\ row[m] = NewMessage /\ job[m] = NoJob
  BY DEF Init
<1>3. LockInv
  BY <1>1 DEF LockInv, Working
<1>4. \A m \in Messages : MessageInv(m)
  BY <1>1, <1>2 DEF MessageInv, AddsFirst, StaysRemoved, OneReceipt, CaredFor, Removal, On,
     NewMessage, NoJob
<1>. QED
  BY <1>3, <1>4 DEF QueueInv

\* Every step keeps it.
LEMMA QueueStep ==
    TypeOK /\ RecordInv /\ PromiseInv /\ PromiseInv' /\ QueueInv /\ [Next]_vars => QueueInv'
<1>. SUFFICES ASSUME TypeOK, RecordInv, PromiseInv, PromiseInv', QueueInv, [Next]_vars
              PROVE  QueueInv'
  OBVIOUS
<1>1. ASSUME NEW p \in Procs, NEW client \in Clients, NEW S \in SUBSET Messages,
             \/ sendEmail(p, client, S) \/ sendEmailUnread(p, client, S)
             \/ findCancelMessages(p, client, S) \/ findPromoteMessages(p, client, S)
      PROVE  QueueInv'
  BY <1>1, SendEmailKeeps, UnreadKeeps, RequestKeeps DEF findCancelMessages,
     findPromoteMessages
<1>2. ASSUME NEW p \in Procs, NEW client \in Clients, NEW m \in Messages,
             cancelMessage(p, client, m) \/ promoteMessage(p, client, m)
      PROVE  QueueInv'
  <2>1. {m} \in SUBSET Messages
    OBVIOUS
  <2>. QED
    BY <1>2, <2>1, RequestKeeps DEF cancelMessage, promoteMessage
<1>3. ASSUME NEW c \in Calls,
             Proceed(c) \/ SendUnanswered(c) \/ OperationFails(c) \/ ReadBackFails(c)
      PROVE  QueueInv'
  BY <1>3, CallKeeps
<1>4. ASSUME NEW c \in Calls, NEW p \in Procs, NEW m \in Messages,
             Take(c, p, m) \/ StalledTooOften(c, p, m)
      PROVE  QueueInv'
  BY <1>4, TakeKeeps, StalledTooOftenKeeps
<1>5. ASSUME NEW m \in Messages,
             \/ \E p \in Procs : Requeue(p, m)
             \/ DelayExpires(m) \/ LockLapses(m) \/ JobLost(m)
      PROVE  QueueInv'
  BY <1>5, WaitsKeeps, LapseKeeps
<1>6. ASSUME NEW p \in Procs, Crash(p) \/ Terminate(p) \/ Exit(p) \/ Restart(p)
      PROVE  QueueInv'
  BY <1>6, ProcessKeeps
<1>7. CASE UNCHANGED vars
  BY <1>7, QuietKeeps DEF vars, NoLapse, NoFailure
<1>. QED
  BY <1>1, <1>2, <1>3, <1>4, <1>5, <1>6, <1>7 DEF Next

\* The queue, the workers and the cancellations agree about every message at
\* every moment.
THEOREM QueueSound == Spec => []QueueInv
<1>1. TypeOK /\ RecordInv /\ PromiseInv /\ QueueInv /\ [Next]_vars
         => TypeOK' /\ RecordInv' /\ PromiseInv' /\ QueueInv'
  BY TypeStep, RecordStep, PromiseStep, QueueStep
<1>. QED
  BY <1>1, TypeInit, RecordInit, PromiseInit, QueueInit, PTL DEF Spec

\* No two workers ever work on one message while Redis keeps locks and jobs.
THEOREM OneWorkerCorrect == Spec => []OneWorker
<1>1. TypeOK /\ QueueInv => OneWorker
  <2>. SUFFICES ASSUME TypeOK, QueueInv, NoLapse, NEW c \in Calls, NEW d \in Calls,
                       Working(c), Working(d), call[c].m = call[d].m
                PROVE  c = d
    BY DEF OneWorker, NoLapse, Working
  <2>1. PICK m \in Messages : On(c, m) /\ On(d, m)
    BY Busy DEF Working, On, TypeOK, CallsOK
  <2>. QED
    BY <2>1, OnlyWorker
<1>. QED
  BY <1>1, TypeCorrect, QueueSound, PTL

\* The recipient gets no message twice, however the workers of the replicas,
\* cancellations, stalled jobs and dying processes interleave.
THEOREM SentOnceCorrect == Spec => []SentOnce
<1>1. TypeOK /\ QueueInv => SentOnce
  BY DEF TypeOK, QueueInv, MessageInv, OneReceipt, SentOnce, Unpromoted, NoFailure
<1>. QED
  BY <1>1, TypeCorrect, QueueSound, PTL

\* No accepted message is forgotten.
THEOREM ForgetsNothing == Spec => []NeverForgotten
<1>1. TypeOK /\ QueueInv => NeverForgotten
  BY DEF TypeOK, QueueInv, MessageInv, CaredFor, NeverForgotten, InProgress, NoFailure, On
<1>. QED
  BY <1>1, TypeCorrect, QueueSound, PTL

\* Only a worker sends.
LEMMA OnlySends ==
    ASSUME TypeOK, RecordInv, [Next]_vars, NEW m \in Messages, inbox'[m] # inbox[m]
    PROVE  \E c \in Calls : On(c, m) /\ call[c].at = "send"
<1>1. inbox' # inbox
  OBVIOUS
<1>2. PICK c \in Calls : Send(c) \/ SendUnanswered(c)
  BY <1>1 DEF Next, vars, Proceed, sendEmail, sendEmailUnread, findCancelMessages,
     findPromoteMessages, cancelMessage, promoteMessage, Request, Add, GetJob, GetState,
     Remove, Promote, Recover, ReadStatus, WriteStatus, Purge, Load, SaveResult, Finish,
     Fail, OperationFails, ReadBackFails, Take, StalledTooOften, Requeue, DelayExpires,
     LockLapses, JobLost, Crash, Terminate, Exit, Restart
<1>3. /\ call[c] # Idle /\ call[c].at = "send"
      /\ inbox' = inbox \/ inbox' = [inbox EXCEPT ![call[c].m] = @ + 1]
  BY <1>2 DEF Send, SendUnanswered, Accept, At
<1>. QED
  BY <1>3 DEF On, TypeOK

\* No worker sends a message after its removal.
THEOREM CancelledCorrect == Spec => CancelledIsNotSent
<1>. DEFINE NotSent == \A m \in stored :
                         (/\ "removed" \in row[m].queueHistory
                          /\ "promote" \notin asked[m]
                          /\ spent["lapse"] = 0) => inbox'[m] = inbox[m]
<1>1. TypeOK /\ RecordInv /\ QueueInv /\ [Next]_vars => NotSent
  <2>. SUFFICES ASSUME TypeOK, RecordInv, QueueInv, [Next]_vars, NEW m \in stored,
                       "removed" \in row[m].queueHistory, Unpromoted(m), NoLapse,
                       inbox'[m] # inbox[m]
                PROVE  FALSE
    BY DEF Unpromoted, NoLapse
  <2>1. m \in Messages
    BY DEF TypeOK
  <2>2. PICK c \in Calls : On(c, m) /\ call[c].at = "send"
    BY <2>1, OnlySends
  <2>. QED
    BY <2>1, <2>2 DEF QueueInv, MessageInv, StaysRemoved, Removal, WorkSteps
<1>. QED
  BY <1>1, TypeCorrect, RecordsSound, QueueSound, PTL DEF Spec, CancelledIsNotSent

=============================================================================
