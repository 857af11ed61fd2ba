------------------------- MODULE MailDispatchWorkers ------------------------
(***************************************************************************)
(* What the workers of the replicas do in all: how many copies of a        *)
(* message they send at most, that what they send is there to be sent,     *)
(* that their replicas are the processes of ReplicaProcess, and that no    *)
(* job and no operation goes round.  These are the proofs of               *)
(* CopiesBounded, WorkHasContent and ImplementsReplicas of MailDispatch,   *)
(* and of RunsDown, stated here.                                           *)
(***************************************************************************)
EXTENDS MailDispatchQueue

-----------------------------------------------------------------------------
(* What Bull has counted against a job bounds what was sent for it, and the *)
(* job is only ever added once: the proof of CopiesBounded.                 *)

\* What Bull has counted against a job.
Counted(j) == j.attemptsMade + j.stalls

\* The copies of a message are counted, but for one that the present attempt
\* may have sent; while a worker has yet to send, there is no such one.
Copies(m) ==
    NoLapse /\ Unpromoted(m) =>
        /\ job[m].state = "none" => inbox[m] <= MaxAttempts + MaxStalls
        /\ job[m].state # "none" =>
              /\ job[m].attemptsMade < MaxAttempts
              /\ inbox[m] <= Counted(job[m]) + 1
              /\ job[m].state # "active" => inbox[m] <= Counted(job[m])
              /\ \A c \in Calls : On(c, m) /\ call[c].at \in Unsent =>
                    inbox[m] <= Counted(job[m])

\* The inductive invariant, with QueueInv.
CopiesInv == \A m \in Messages : Copies(m)

-----------------------------------------------------------------------------

\* The types that the arithmetic needs.
LEMMA Numbers ==
    ASSUME TypeOK, NEW m \in Messages
    PROVE  /\ inbox[m] \in Nat /\ MaxAttempts \in Nat \ {0} /\ MaxStalls \in Nat
           /\ job[m] \in Job /\ job[m].attemptsMade \in Nat
           /\ job[m].stalls \in Nat /\ job[m].stalls <= MaxStalls
BY QueueAssumption DEF QueueAssumption, TypeOK, Job

\* A step that touches neither a message's job nor its copies, and brings no
\* worker on it back before the mail server.
LEMMA CopiesKept ==
    ASSUME NEW m \in Messages, Copies(m), NoLapse' => NoLapse,
           Unpromoted(m)' => Unpromoted(m),
           job'[m] = job[m], inbox'[m] = inbox[m],
           \A d \in Calls : On(d, m)' /\ call'[d].at \in Unsent =>
              On(d, m) /\ call[d].at \in Unsent
    PROVE  Copies(m)'
BY DEF Copies

\* Once a message's job leaves the queue its copies stay within the bound.
LEMMA CopiesWithoutJob ==
    ASSUME TypeOK, NEW m \in Messages, Copies(m), NoLapse' => NoLapse,
           Unpromoted(m)' => Unpromoted(m), job'[m] = NoJob, inbox'[m] = inbox[m]
    PROVE  Copies(m)'
<1>. SUFFICES ASSUME NoLapse, Unpromoted(m) PROVE inbox[m] <= MaxAttempts + MaxStalls
  BY DEF Copies, NoJob
<1>1. CASE job[m].state = "none"
  BY <1>1 DEF Copies
<1>2. CASE job[m].state # "none"
  BY <1>2, Numbers DEF Copies, Counted
<1>. QED
  BY <1>1, <1>2

\* A call that only talks.
LEMMA TalkCopies ==
    ASSUME TypeOK, CopiesInv, CallSpends, NEW c \in Calls, NEW b, Talks(c, b)
    PROVE  CopiesInv'
<1>. SUFFICES ASSUME NEW m \in Messages PROVE Copies(m)'
  BY DEF CopiesInv
<1>1. Moves(c, b) /\ UNCHANGED <<job, inbox, asked>>
  BY DEF Talks
<1>2. \A d \in Calls : On(d, m)' /\ call'[d].at \in Unsent =>
         On(d, m) /\ call[d].at \in Unsent
  BY <1>1, MovesOn DEF Talks
<1>. QED
  BY <1>1, <1>2, CopiesKept DEF CopiesInv, CallSpends, Unpromoted

\* A call that changes its message's job leaves the others' copies alone.
LEMMA RequeueElsewhere ==
    ASSUME TypeOK, CopiesInv, CallSpends, NEW c \in Calls,
           NEW a, NEW b, b \notin Unsent, NEW j, Requeues(c, a, b, j),
           NEW m \in Messages, AtMessage(c, m, b, j), Copies(m)'
    PROVE  CopiesInv'
<1>. SUFFICES ASSUME NEW n \in Messages \ {m} PROVE Copies(n)'
  BY DEF CopiesInv
<1>1. Moves(c, b) /\ job'[n] = job[n] /\ UNCHANGED <<inbox, asked>>
  BY DEF Requeues, AtMessage
<1>2. \A d \in Calls : On(d, n)' /\ call'[d].at \in Unsent =>
         On(d, n) /\ call[d].at \in Unsent
  BY <1>1, MovesOn
<1>. QED
  BY <1>1, <1>2, CopiesKept DEF CopiesInv, CallSpends, Unpromoted

\* Enqueueing a message, of which there is no copy yet.
LEMMA AddCopies ==
    ASSUME TypeOK, TypeOK', PromiseInv, QueueInv, CopiesInv, CallSpends,
           NEW c \in Calls, Adds(c)
    PROVE  CopiesInv'
<1>1. PICK j : /\ Requeues(c, "add", "enqueued", j) /\ j.state # "none"
               /\ job[call[c].m].state = "none" => j.attemptsMade = 0
  BY DEF Adds
<1>2. PICK m \in Messages : AtMessage(c, m, "enqueued", j)
  BY <1>1, RequeueStart
<1>3. Copies(m)'
  <2>. SUFFICES ASSUME NoLapse', Unpromoted(m)' PROVE Copies(m)'
    BY DEF Copies
  <2>1. job[m].state = "none" /\ inbox[m] = 0 /\ inbox'[m] = 0 /\ job'[m] = j
    BY <1>1, <1>2 DEF AtMessage, Requeues, QueueInv, MessageInv, AddsFirst, Unpromoted
  <2>2. j.attemptsMade = 0 /\ j.stalls \in Nat /\ MaxAttempts \in Nat \ {0}
    BY <1>1, <1>2, <2>1, QueueAssumption DEF AtMessage, TypeOK, Job, QueueAssumption
  <2>. QED
    BY <1>1, <2>1, <2>2 DEF Copies, Counted
<1>. QED
  BY <1>1, <1>2, <1>3, RequeueElsewhere DEF Unsent

\* Removing and finishing take the job off the queue.
LEMMA LeaveCopies ==
    ASSUME TypeOK, PromiseInv, QueueInv, CopiesInv, CallSpends,
           NEW c \in Calls, Removes(c) \/ Finishes(c)
    PROVE  CopiesInv'
<1>1. PICK a \in {"remove", "finish"}, b \in {"removed", "completed"} :
         Requeues(c, a, b, NoJob)
  BY DEF Removes, Finishes
<1>2. PICK m \in Messages : AtMessage(c, m, b, NoJob)
  BY <1>1, RequeueStart
<1>3. Copies(m)'
  BY <1>2, CopiesWithoutJob DEF AtMessage, CopiesInv, CallSpends, Unpromoted
<1>. QED
  BY <1>1, <1>2, <1>3, RequeueElsewhere DEF Unsent

\* Promoting is what the bound does not speak of.
LEMMA PromoteCopies ==
    ASSUME TypeOK, PromiseInv, QueueInv, CopiesInv, CallSpends,
           NEW c \in Calls, Promotes(c)
    PROVE  CopiesInv'
<1>1. PICK j : Requeues(c, "promote", "promoted", j)
  BY DEF Promotes
<1>2. PICK m \in Messages : AtMessage(c, m, "promoted", j)
  BY <1>1, RequeueStart
<1>3. ~Unpromoted(m)'
  BY <1>1, <1>2 DEF AtMessage, Requeues, On, PromiseInv, Entitled, Unpromoted
<1>4. Copies(m)'
  BY <1>3 DEF Copies
<1>. QED
  BY <1>1, <1>2, <1>4, RequeueElsewhere DEF Unsent

\* A failed attempt, which Bull counts.
LEMMA FailCopies ==
    ASSUME TypeOK, PromiseInv, QueueInv, CopiesInv, CallSpends,
           NEW c \in Calls, Fails(c)
    PROVE  CopiesInv'
<1>. DEFINE j == afterFailure(job[call[c].m])
<1>1. Requeues(c, "fail", "failed", j)
  BY DEF Fails
<1>2. PICK m \in Messages : AtMessage(c, m, "failed", j)
  BY <1>1, RequeueStart
<1>3. job'[m] = afterFailure(job[m]) /\ call[c].at = "fail" /\ On(c, m)
  BY <1>1, <1>2 DEF AtMessage, Requeues
<1>4. inbox'[m] = inbox[m] /\ (Unpromoted(m)' => Unpromoted(m))
  BY <1>2 DEF AtMessage, Unpromoted
<1>5. CASE RetriesLeft(job[m])
  <2>. SUFFICES ASSUME NoLapse', Unpromoted(m)' PROVE Copies(m)'
    BY <1>1, <1>2, RequeueElsewhere DEF Copies, Unsent
  <2>1. NoLapse /\ Unpromoted(m)
    BY <1>4 DEF CallSpends
  <2>2. job[m].state # "none"
    BY <1>3, <2>1 DEF QueueInv, LockInv, Working, WorkSteps, On
  <2>3. /\ job'[m].attemptsMade = job[m].attemptsMade + 1
        /\ job'[m].stalls = job[m].stalls /\ job'[m].state = "delayed"
    BY <1>3, <1>5, Numbers DEF afterFailure, Job
  <2>4. inbox[m] <= Counted(job[m]) + 1
    BY <2>1, <2>2 DEF CopiesInv, Copies
  <2>5. inbox'[m] <= Counted(job'[m]) /\ Counted(job'[m]) \in Nat
    BY <1>4, <2>3, <2>4, Numbers DEF Counted
  <2>6. job'[m].attemptsMade < MaxAttempts
    BY <1>5, <2>3, Numbers DEF RetriesLeft
  <2>. QED
    BY <1>4, <2>3, <2>5, <2>6, Numbers DEF Copies
<1>6. CASE ~RetriesLeft(job[m])
  <2>1. Copies(m)'
    BY <1>3, <1>4, <1>6, CopiesWithoutJob DEF afterFailure, CopiesInv, CallSpends
  <2>. QED
    BY <1>1, <1>2, <2>1, RequeueElsewhere DEF Unsent
<1>. QED
  BY <1>5, <1>6

\* Sending, which the worker with the lock does once in an attempt.
LEMMA SendCopies ==
    ASSUME TypeOK, PromiseInv, QueueInv, CopiesInv, CallSpends,
           NEW c \in Calls, Sends(c)
    PROVE  CopiesInv'
<1>1. PICK b \in {"result", "fail"} : Moves(c, b)
  BY DEF Sends
<1>2. /\ call[c].at = "send" /\ UNCHANGED <<job, asked>>
      /\ inbox' = [inbox EXCEPT ![call[c].m] = @ + 1]
  BY DEF Sends
<1>3. PICK m \in Messages : call[c].m = m /\ On(c, m)
  BY <1>1, Busy DEF TypeOK, CallsOK, On, Moves
<1>4. \A d \in Calls, n \in Messages : On(d, n)' /\ call'[d].at \in Unsent =>
         On(d, n) /\ d # c /\ call'[d] = call[d]
  BY <1>1, MovesOn DEF Unsent
<1>5. ASSUME NEW n \in Messages \ {m}
      PROVE  Copies(n)'
  <2>1. inbox'[n] = inbox[n]
    BY <1>2, <1>3 DEF TypeOK
  <2>. QED
    BY <1>2, <1>4, <1>5, <2>1, CopiesKept DEF CopiesInv, CallSpends, Unpromoted
<1>6. Copies(m)'
  <2>. SUFFICES ASSUME NoLapse', Unpromoted(m)' PROVE Copies(m)'
    BY DEF Copies
  <2>1. NoLapse /\ Unpromoted(m)
    BY <1>2 DEF CallSpends, Unpromoted
  <2>2. Working(c)
    BY <1>2, <1>3 DEF Working, On, WorkSteps
  <2>3. job[m].state = "active"
    BY <1>3, <2>1, <2>2, OnlyWorker
  <2>4. /\ job[m].attemptsMade < MaxAttempts /\ inbox[m] <= Counted(job[m])
        /\ inbox'[m] = inbox[m] + 1
    BY <1>2, <1>3, <2>1, <2>3 DEF CopiesInv, Copies, Unsent, TypeOK
  <2>5. \A d \in Calls : On(d, m)' => call'[d].at \notin Unsent
    BY <1>3, <1>4, <2>1, <2>2, OnlyWorker DEF Working, On, WorkSteps, Unsent
  <2>. QED
    BY <1>2, <2>3, <2>4, <2>5, Numbers DEF Copies, Counted
<1>. QED
  BY <1>5, <1>6 DEF CopiesInv

-----------------------------------------------------------------------------

\* A worker, or the stalled-job check, begins with a job.
LEMMA BeginsElsewhere ==
    ASSUME TypeOK, QueueInv, CopiesInv, NEW c \in Calls, NEW p, NEW m \in Messages,
           NEW step \in Steps, NEW j, Begins(c, p, m, step, j), Copies(m)'
    PROVE  CopiesInv'
<1>. SUFFICES ASSUME NEW n \in Messages \ {m} PROVE Copies(n)'
  BY DEF CopiesInv
<1>1. /\ job'[n] = job[n] /\ call'[c].m = m
      /\ \A d \in Calls : d # c => call'[d] = call[d]
  BY BeginsOn DEF On
<1>2. \A d \in Calls : On(d, n)' => On(d, n) /\ call'[d] = call[d]
  BY <1>1 DEF On
<1>. QED
  BY <1>1, <1>2, CopiesKept DEF CopiesInv, Begins, NoLapse, Unpromoted

\* A worker takes a job whose copies are all counted.
LEMMA TakeCopies ==
    ASSUME TypeOK, QueueInv, CopiesInv, NEW c \in Calls, NEW p \in Procs,
           NEW m \in Messages, Take(c, p, m)
    PROVE  CopiesInv'
<1>1. /\ Begins(c, p, m, "processing", taken(job[m], p)) /\ job[m].state = "waiting"
      /\ "processing" \in Steps
  BY DEF Take, Begins, Steps, UpdateSteps
<1>2. job'[m] = taken(job[m], p) /\ UNCHANGED <<inbox, asked, spent>>
  BY DEF Take, TypeOK
<1>3. /\ job'[m].state = "active" /\ job'[m].stalls = job[m].stalls
      /\ job'[m].attemptsMade = job[m].attemptsMade
  BY <1>2, Numbers DEF taken, Job
<1>4. Copies(m)'
  BY <1>1, <1>2, <1>3, Numbers DEF CopiesInv, Copies, Counted, NoLapse, Unpromoted
<1>. QED
  BY <1>1, <1>4, BeginsElsewhere

\* Bull gives a job up.
LEMMA GiveUpCopies ==
    ASSUME TypeOK, QueueInv, CopiesInv, NEW c \in Calls, NEW p \in Procs,
           NEW m \in Messages, StalledTooOften(c, p, m)
    PROVE  CopiesInv'
<1>1. /\ Begins(c, p, m, "failed", afterStall(job[m])) /\ "failed" \in Steps
      /\ afterStall(job[m]) = NoJob
  BY Numbers DEF StalledTooOften, Begins, afterStall, Steps, UpdateSteps
<1>2. job'[m] = NoJob /\ UNCHANGED <<inbox, asked, spent>>
  BY <1>1 DEF StalledTooOften, TypeOK
<1>3. Copies(m)'
  BY <1>2, CopiesWithoutJob DEF CopiesInv, NoLapse, Unpromoted
<1>. QED
  BY <1>1, <1>3, BeginsElsewhere

\* Delays expire, and a job that stalled gets another chance, which Bull counts.
LEMMA WaitCopies ==
    ASSUME TypeOK, CopiesInv, NEW m \in Messages,
           DelayExpires(m) \/ \E p \in Procs : Requeue(p, m)
    PROVE  CopiesInv'
<1>1. UNCHANGED <<call, inbox, asked, spent>>
  BY DEF DelayExpires, Requeue
<1>2. \A n \in Messages \ {m} : job'[n] = job[n]
  BY DEF DelayExpires, Requeue, TypeOK
<1>3. \A n \in Messages \ {m} : Copies(n)'
  BY <1>1, <1>2 DEF CopiesInv, Copies, On, NoLapse, Unpromoted
<1>4. CASE DelayExpires(m)
  <2>1. /\ job[m].state = "delayed" /\ job'[m].state = "waiting"
        /\ job'[m].attemptsMade = job[m].attemptsMade /\ job'[m].stalls = job[m].stalls
    BY <1>4, Numbers DEF DelayExpires, promoted, Job, TypeOK
  <2>2. Copies(m)'
    BY <1>1, <2>1 DEF CopiesInv, Copies, Counted, On, NoLapse, Unpromoted
  <2>. QED
    BY <1>3, <2>2 DEF CopiesInv
<1>5. CASE \E p \in Procs : Requeue(p, m)
  <2>1. /\ job[m].state = "active" /\ job'[m].state = "waiting"
        /\ job'[m].attemptsMade = job[m].attemptsMade
        /\ job'[m].stalls = job[m].stalls + 1
    BY <1>5, Numbers DEF Requeue, Stalled, afterStall, Job, TypeOK
  <2>2. Counted(job'[m]) = Counted(job[m]) + 1
    BY <2>1, Numbers DEF Counted
  <2>3. Copies(m)'
    <3>. SUFFICES ASSUME NoLapse, Unpromoted(m) PROVE Copies(m)'
      BY <1>1 DEF Copies, NoLapse, Unpromoted
    <3>1. /\ job[m].attemptsMade < MaxAttempts
          /\ inbox[m] <= Counted(job[m]) + 1
      BY <2>1 DEF CopiesInv, Copies
    <3>2. job'[m].attemptsMade < MaxAttempts /\ inbox'[m] <= Counted(job'[m])
      BY <1>1, <2>1, <2>2, <3>1
    <3>3. Counted(job'[m]) \in Nat /\ inbox'[m] \in Nat
      BY <1>1, <2>2, Numbers DEF Counted
    <3>. QED
      BY <2>1, <3>2, <3>3 DEF Copies
  <2>. QED
    BY <1>3, <2>3 DEF CopiesInv
<1>. QED
  BY <1>4, <1>5

\* After a lapse the bound says nothing.
LEMMA LapseCopies ==
    ASSUME TypeOK, NEW m \in Messages, LockLapses(m) \/ JobLost(m)
    PROVE  CopiesInv'
<1>1. Spend("lapse")
  BY DEF LockLapses, JobLost
<1>2. ~NoLapse'
  BY <1>1, Spent DEF NoLapse
<1>. QED
  BY <1>2 DEF CopiesInv, Copies

\* A process that dies leaves its job uncounted, for the stalled-job check.
LEMMA ProcessCopies ==
    ASSUME TypeOK, CopiesInv, NEW p \in Procs,
           Crash(p) \/ Terminate(p) \/ Exit(p) \/ Restart(p)
    PROVE  CopiesInv'
<1>. SUFFICES ASSUME NEW m \in Messages PROVE Copies(m)'
  BY DEF CopiesInv
<1>1. /\ UNCHANGED <<inbox, asked>>
      /\ Spend("crash") \/ UNCHANGED spent
  BY DEF Crash, Terminate, Exit, Restart
<1>2. NoLapse' => NoLapse
  BY <1>1, Spent DEF NoLapse
<1>3. CASE Dies(p)
  <2>1. \A d \in Calls : On(d, m)' => On(d, m) /\ call'[d] = call[d]
    BY <1>3, DeathMarks
  <2>2. job'[m] = IF job[m].lock = p THEN [job[m] EXCEPT !.lock = NoProc] ELSE job[m]
    BY <1>3 DEF Dies
  <2>3. /\ job'[m].state = job[m].state /\ job'[m].stalls = job[m].stalls
        /\ job'[m].attemptsMade = job[m].attemptsMade
    BY <2>2, Numbers DEF Job
  <2>. QED
    BY <1>1, <1>2, <2>1, <2>3 DEF CopiesInv, Copies, Counted, Unpromoted
<1>4. CASE UNCHANGED <<job, call>>
  BY <1>1, <1>2, <1>4, CopiesKept DEF CopiesInv, On, Unpromoted
<1>. QED
  BY <1>3, <1>4 DEF Crash, Terminate, Exit, Restart

\* The API starts calls, none of which is a worker's.
LEMMA StartCopies ==
    ASSUME TypeOK, CopiesInv, NEW S \in SUBSET Messages, NEW p, NEW client, NEW kind,
           NEW op,
           sendEmail(p, client, S) \/ sendEmailUnread(p, client, S)
              \/ Request(kind, op, p, client, S)
    PROVE  CopiesInv'
<1>. SUFFICES ASSUME NEW m \in Messages PROVE Copies(m)'
  BY DEF CopiesInv
<1>1. UNCHANGED <<job, inbox>> /\ (Unpromoted(m)' => Unpromoted(m))
  BY DEF sendEmail, sendEmailUnread, Request, Unpromoted
<1>2. NoLapse' => NoLapse
  <2>1. UNCHANGED spent \/ Spend("fault") \/ Spend("request")
    BY DEF sendEmail, sendEmailUnread, Request
  <2>. QED
    BY <2>1, Spent DEF NoLapse
<1>3. \A d \in Calls : call'[d] = call[d] \/ call'[d].at \in {"add", "getJob"}
  <2>1. \/ UNCHANGED call
        \/ \E any : \E step \in {"add", "getJob"} : Start(any, step, client, p, S)
    BY DEF sendEmail, sendEmailUnread, Request
  <2>. QED
    BY <2>1, Started DEF StartedAt
<1>. QED
  BY <1>1, <1>2, <1>3, CopiesKept DEF CopiesInv, On, Unsent

-----------------------------------------------------------------------------

\* A step of a call keeps the count.
LEMMA CallCopies ==
    ASSUME TypeOK, TypeOK', RecordInv, PromiseInv, QueueInv, CopiesInv, NEW c \in Calls,
           Proceed(c) \/ SendUnanswered(c) \/ OperationFails(c) \/ ReadBackFails(c)
    PROVE  CopiesInv'
<1>1. CallSpends
  BY CallsSpend
<1>2. \/ \E b : Talks(c, b)
      \/ Adds(c) \/ Removes(c) \/ Promotes(c) \/ Sends(c) \/ Finishes(c) \/ Fails(c)
  BY CallShapes
<1>. QED
  BY <1>1, <1>2, TalkCopies, AddCopies, LeaveCopies, PromoteCopies, SendCopies, FailCopies

\* Every step does.
LEMMA CopiesStep ==
    TypeOK /\ TypeOK' /\ RecordInv /\ PromiseInv /\ QueueInv /\ CopiesInv /\ [Next]_vars
        => CopiesInv'
<1>. SUFFICES ASSUME TypeOK, TypeOK', RecordInv, PromiseInv, QueueInv, CopiesInv, [Next]_vars
              PROVE  CopiesInv'
  OBVIOUS
<1>1. ASSUME NEW p \in Procs, NEW client \in Clients, NEW S \in SUBSET Messages,
             \/ sendEmail(p, client, S) \/ sendEmailUnread(p, client, S)
             \/ findCancelMessages(p, client, S) \/ findPromoteMessages(p, client, S)
      PROVE  CopiesInv'
  BY <1>1, StartCopies DEF findCancelMessages, findPromoteMessages
<1>2. ASSUME NEW p \in Procs, NEW client \in Clients, NEW m \in Messages,
             cancelMessage(p, client, m) \/ promoteMessage(p, client, m)
      PROVE  CopiesInv'
  <2>1. {m} \in SUBSET Messages
    OBVIOUS
  <2>. QED
    BY <1>2, <2>1, StartCopies DEF cancelMessage, promoteMessage
<1>3. ASSUME NEW c \in Calls,
             Proceed(c) \/ SendUnanswered(c) \/ OperationFails(c) \/ ReadBackFails(c)
      PROVE  CopiesInv'
  BY <1>3, CallCopies
<1>4. ASSUME NEW c \in Calls, NEW p \in Procs, NEW m \in Messages,
             Take(c, p, m) \/ StalledTooOften(c, p, m)
      PROVE  CopiesInv'
  BY <1>4, TakeCopies, GiveUpCopies
<1>5. ASSUME NEW m \in Messages,
             \/ \E p \in Procs : Requeue(p, m)
             \/ DelayExpires(m) \/ LockLapses(m) \/ JobLost(m)
      PROVE  CopiesInv'
  BY <1>5, WaitCopies, LapseCopies
<1>6. ASSUME NEW p \in Procs, Crash(p) \/ Terminate(p) \/ Exit(p) \/ Restart(p)
      PROVE  CopiesInv'
  BY <1>6, ProcessCopies
<1>7. CASE UNCHANGED vars
  BY <1>7 DEF vars, CopiesInv, Copies, NoLapse, Unpromoted, On
<1>. QED
  BY <1>1, <1>2, <1>3, <1>4, <1>5, <1>6, <1>7 DEF Next

\* Nothing was sent at first.
LEMMA CopiesInit == Init => CopiesInv
BY QueueAssumption DEF Init, CopiesInv, Copies, NoJob, QueueAssumption

\* Every copy of a message is one that its job's counters have counted, or that
\* the attempt in progress may have sent.
THEOREM CopiesCounted == Spec => []CopiesInv
<1>1. TypeOK /\ RecordInv /\ PromiseInv /\ QueueInv /\ CopiesInv /\ [Next]_vars
         => TypeOK' /\ RecordInv' /\ PromiseInv' /\ QueueInv' /\ CopiesInv'
  BY TypeStep, RecordStep, PromiseStep, QueueStep, CopiesStep
<1>. QED
  BY <1>1, TypeInit, RecordInit, PromiseInit, QueueInit, CopiesInit, PTL DEF Spec

\* The mail server never accepts more copies of a message than Bull's bounds on
\* attempts and stalls allow, whatever fails and wherever processes die.
THEOREM CopiesCorrect == Spec => []CopiesBounded
<1>1. TypeOK /\ CopiesInv => CopiesBounded
  <2>. SUFFICES ASSUME TypeOK, CopiesInv, NEW m \in Messages, NoLapse, Unpromoted(m)
                PROVE  inbox[m] <= MaxAttempts + MaxStalls
    BY DEF CopiesBounded, NoLapse, Unpromoted
  <2>. QED
    BY Numbers DEF CopiesInv, Copies, Counted
<1>. QED
  BY <1>1, TypeCorrect, CopiesCounted, PTL

-----------------------------------------------------------------------------
(* What a worker takes has its email: the proof of WorkHasContent. *)

\* It has a job, or is about to have one.
Queued(m) == \/ job[m].state # "none"
             \/ \E c \in Calls : On(c, m) /\ call[c].at = "add"

\* The listeners that drop the email.
Droppers == {"completed", "removed", "purge"}

\* While a message is queued nobody is about to drop its email.
Content(m) ==
    NoLapse /\ Unpromoted(m) /\ Queued(m) =>
        /\ row[m].email
        /\ \A c \in Calls : On(c, m) => call[c].at \notin Droppers

\* The inductive invariant, with QueueInv.
ContentInv == \A m \in Messages : Content(m)

\* A step that queues nothing new and sends no call to drop a queued message's
\* email.
LEMMA ContentStays ==
    ASSUME NEW m \in Messages, Content(m), NoLapse' => NoLapse,
           Unpromoted(m)' => Unpromoted(m), Unpromoted(m)' /\ Queued(m)' => Queued(m),
           row[m].email => \/ row'[m].email
                           \/ \E c \in Calls : On(c, m) /\ call[c].at = "purge",
           \A d \in Calls : On(d, m)' /\ call'[d].at \in Droppers =>
              On(d, m) /\ call[d].at \in Droppers
    PROVE  Content(m)'
BY DEF Content, Droppers

\* A call that only talks.
LEMMA TalkContent ==
    ASSUME TypeOK, PromiseInv, ContentInv, CallSpends, NEW c \in Calls, NEW b, Talks(c, b)
    PROVE  ContentInv'
<1>. SUFFICES ASSUME NEW m \in Messages PROVE Content(m)'
  BY DEF ContentInv
<1>1. Moves(c, b) /\ Writes(c) /\ UNCHANGED <<job, asked>>
  BY DEF Talks
<1>2. \A d \in Calls : On(d, m)' /\ call'[d].at \in Droppers =>
         On(d, m) /\ call[d].at \in Droppers
  BY <1>1, MovesOn DEF Talks, Droppers
<1>3. Unpromoted(m) => \A d \in Calls : On(d, m) => call[d].at # "recovered"
  BY DEF PromiseInv, Entitled, On, Unpromoted
<1>4. \A d \in Calls : Unpromoted(m) /\ On(d, m)' /\ call'[d].at = "add" =>
         On(d, m) /\ call[d].at = "add"
  BY <1>1, <1>3, MovesOn DEF Talks
<1>5. Unpromoted(m)' /\ Queued(m)' => Queued(m)
  BY <1>1, <1>4 DEF Queued, Unpromoted
<1>6. row[m].email => \/ row'[m].email
                      \/ \E d \in Calls : On(d, m) /\ call[d].at = "purge"
  BY <1>1 DEF Writes
<1>. QED
  BY <1>1, <1>2, <1>5, <1>6, ContentStays DEF ContentInv, CallSpends, Unpromoted

\* One that changes a message's job leaves the others' content alone.
LEMMA RequeueContent ==
    ASSUME TypeOK, ContentInv, CallSpends, NEW c \in Calls,
           NEW a, NEW b, b # "add", NEW j, Requeues(c, a, b, j),
           NEW m \in Messages, AtMessage(c, m, b, j),
           \/ b \notin Droppers /\ (NoLapse /\ Unpromoted(m) => Queued(m))
           \/ ~(NoLapse' /\ Unpromoted(m)' /\ Queued(m)')
    PROVE  ContentInv'
<1>1. ASSUME NEW n \in Messages \ {m}
      PROVE  Content(n)'
  <2>1. /\ job'[n] = job[n] /\ UNCHANGED <<row, asked>>
        /\ \A d \in Calls : On(d, n)' => On(d, n) /\ call'[d] = call[d]
    <3>1. Moves(c, b) /\ On(c, m)' /\ job'[n] = job[n] /\ UNCHANGED <<row, asked>>
      BY DEF Requeues, AtMessage
    <3>. QED
      BY <3>1, MovesOn DEF On
  <2>. QED
    BY <2>1, ContentStays DEF ContentInv, CallSpends, Unpromoted, Queued
<1>2. Content(m)'
  <2>1. CASE ~(NoLapse' /\ Unpromoted(m)' /\ Queued(m)')
    BY <2>1 DEF Content
  <2>2. CASE b \notin Droppers /\ (NoLapse /\ Unpromoted(m) => Queued(m))
    <3>1. SUFFICES ASSUME NoLapse, Unpromoted(m) PROVE Content(m)'
      BY DEF Content, CallSpends, AtMessage, Unpromoted
    <3>2. \A d \in Calls : On(d, m)' /\ call'[d].at \in Droppers =>
             On(d, m) /\ call[d].at \in Droppers
      BY <2>2 DEF AtMessage
    <3>3. Queued(m) /\ UNCHANGED <<row, asked>>
      BY <2>2, <3>1 DEF AtMessage
    <3>. QED
      BY <3>1, <3>2, <3>3, ContentStays DEF ContentInv, CallSpends, Unpromoted
  <2>. QED
    BY <2>1, <2>2
<1>. QED
  BY <1>1, <1>2 DEF ContentInv

\* Nobody enqueues a message on which another call is past looking for its job.
LEMMA NoAddBeside ==
    ASSUME QueueInv, NEW m \in Messages, Unpromoted(m),
           NEW c \in Calls, On(c, m), call[c].at \notin {"add", "getJob"}
    PROVE  \A d \in Calls : On(d, m) => call[d].at # "add"
BY DEF QueueInv, MessageInv, AddsFirst

\* The steps that change a job.
LEMMA QueueContent ==
    ASSUME TypeOK, PromiseInv, QueueInv, ContentInv, CallSpends, NEW c \in Calls,
           Adds(c) \/ Removes(c) \/ Promotes(c) \/ Finishes(c) \/ Fails(c)
    PROVE  ContentInv'
<1>1. CASE Adds(c)
  <2>1. PICK j : Requeues(c, "add", "enqueued", j)
    BY <1>1 DEF Adds
  <2>2. PICK m \in Messages : AtMessage(c, m, "enqueued", j)
    BY <2>1, RequeueStart
  <2>3. Queued(m)
    BY <2>1, <2>2 DEF Requeues, AtMessage, Queued
  <2>. QED
    BY <2>1, <2>2, <2>3, RequeueContent DEF Droppers
<1>2. CASE Removes(c) \/ Finishes(c)
  <2>1. PICK a \in {"remove", "finish"}, b \in {"removed", "completed"} :
           Requeues(c, a, b, NoJob)
    BY <1>2 DEF Removes, Finishes
  <2>2. PICK m \in Messages : AtMessage(c, m, b, NoJob)
    BY <2>1, RequeueStart
  <2>3. Unpromoted(m)' => ~Queued(m)'
    <3>. SUFFICES ASSUME Unpromoted(m)' PROVE ~Queued(m)'
      OBVIOUS
    <3>1. Unpromoted(m) /\ On(c, m) /\ call[c].at \notin {"add", "getJob"}
      BY <2>1, <2>2 DEF AtMessage, Unpromoted, Requeues
    <3>2. \A d \in Calls : On(d, m)' => call'[d].at # "add"
      BY <2>2, <3>1, NoAddBeside DEF AtMessage
    <3>. QED
      BY <2>2, <3>2 DEF AtMessage, Queued, NoJob
  <2>. QED
    BY <2>1, <2>2, <2>3, RequeueContent
<1>3. CASE Promotes(c)
  <2>1. PICK j : Requeues(c, "promote", "promoted", j)
    BY <1>3 DEF Promotes
  <2>2. PICK m \in Messages : AtMessage(c, m, "promoted", j)
    BY <2>1, RequeueStart
  <2>3. ~Unpromoted(m)'
    BY <2>1, <2>2 DEF AtMessage, Requeues, On, PromiseInv, Entitled, Unpromoted
  <2>. QED
    BY <2>1, <2>2, <2>3, RequeueContent
<1>4. CASE Fails(c)
  <2>. DEFINE j == afterFailure(job[call[c].m])
  <2>1. Requeues(c, "fail", "failed", j)
    BY <1>4 DEF Fails
  <2>2. PICK m \in Messages : AtMessage(c, m, "failed", j)
    BY <2>1, RequeueStart
  <2>3. Working(c) /\ On(c, m)
    BY <2>1, <2>2 DEF Requeues, AtMessage, Working, WorkSteps, On
  <2>4. NoLapse => Queued(m)
    BY <2>3, OnlyWorker DEF Queued
  <2>. QED
    BY <2>1, <2>2, <2>4, RequeueContent DEF Droppers
<1>. QED
  BY <1>1, <1>2, <1>3, <1>4

\* Sending drops nothing.
LEMMA SendContent ==
    ASSUME TypeOK, ContentInv, CallSpends, NEW c \in Calls, Sends(c)
    PROVE  ContentInv'
<1>. SUFFICES ASSUME NEW m \in Messages PROVE Content(m)'
  BY DEF ContentInv
<1>1. PICK b \in {"result", "fail"} : Moves(c, b)
  BY DEF Sends
<1>2. UNCHANGED <<row, job, asked>>
  BY DEF Sends
<1>3. \A d \in Calls : On(d, m)' /\ call'[d].at \in Droppers \cup {"add"} =>
         On(d, m) /\ call'[d] = call[d]
  BY <1>1, MovesOn DEF Droppers
<1>. QED
  BY <1>2, <1>3, ContentStays DEF ContentInv, CallSpends, Unpromoted, Queued

\* Taking a job, and giving one up, begin with a job that is there.
LEMMA BeginContent ==
    ASSUME TypeOK, QueueInv, ContentInv, NEW c \in Calls, NEW p \in Procs,
           NEW m \in Messages, Take(c, p, m) \/ StalledTooOften(c, p, m)
    PROVE  ContentInv'
<1>. SUFFICES ASSUME NEW n \in Messages PROVE Content(n)'
  BY DEF ContentInv
<1>1. PICK step \in {"processing", "failed"} : \E j : Begins(c, p, m, step, j)
  <2>1. CASE Take(c, p, m)
    BY <2>1 DEF Take, Begins
  <2>2. CASE StalledTooOften(c, p, m)
    BY <2>2 DEF StalledTooOften, Begins
  <2>. QED
    BY <2>1, <2>2
<1>2. step \in Steps /\ UNCHANGED <<row, asked, spent>>
  BY <1>1 DEF Begins, Steps, UpdateSteps, WorkSteps
<1>3. /\ call'[c].at = step /\ call'[c].m = m
      /\ \A d \in Calls : d # c => call'[d] = call[d]
      /\ \A k \in Messages \ {m} : job'[k] = job[k]
  BY <1>1 DEF Begins, TypeOK
<1>4. job[m].state # "none"
  BY DEF Take, StalledTooOften, Stalled
<1>5. \A d \in Calls : On(d, n)' /\ call'[d].at \in Droppers \cup {"add"} =>
         On(d, n) /\ call'[d] = call[d]
  BY <1>3 DEF On, Droppers
<1>6. Queued(n)' => Queued(n)
  BY <1>3, <1>4, <1>5 DEF Queued
<1>. QED
  BY <1>2, <1>5, <1>6, ContentStays DEF ContentInv, NoLapse, Unpromoted

\* What else happens to jobs and to processes.
LEMMA WaitContent ==
    ASSUME TypeOK, ContentInv, NEW m \in Messages,
           \/ \E p \in Procs : Requeue(p, m)
           \/ DelayExpires(m) \/ LockLapses(m) \/ JobLost(m)
    PROVE  ContentInv'
<1>1. CASE LockLapses(m) \/ JobLost(m)
  <2>1. ~NoLapse'
    BY <1>1, Spent DEF LockLapses, JobLost, NoLapse
  <2>. QED
    BY <2>1 DEF ContentInv, Content
<1>2. CASE DelayExpires(m) \/ \E p \in Procs : Requeue(p, m)
  <2>. SUFFICES ASSUME NEW n \in Messages PROVE Content(n)'
    BY DEF ContentInv
  <2>1. /\ UNCHANGED <<row, call, asked, spent>> /\ job[m].state # "none"
        /\ \A k \in Messages \ {m} : job'[k] = job[k]
    BY <1>2 DEF DelayExpires, Requeue, Stalled, TypeOK
  <2>2. Queued(n)' => Queued(n)
    BY <2>1 DEF Queued, On
  <2>. QED
    BY <2>1, <2>2, ContentStays DEF ContentInv, NoLapse, Unpromoted, On
<1>. QED
  BY <1>1, <1>2

\* A dying process drops no email.
LEMMA ProcessContent ==
    ASSUME TypeOK, ContentInv, NEW p \in Procs,
           Crash(p) \/ Terminate(p) \/ Exit(p) \/ Restart(p)
    PROVE  ContentInv'
<1>. SUFFICES ASSUME NEW m \in Messages PROVE Content(m)'
  BY DEF ContentInv
<1>1. /\ UNCHANGED <<row, asked>>
      /\ Spend("crash") \/ UNCHANGED spent
  BY DEF Crash, Terminate, Exit, Restart
<1>2. NoLapse' => NoLapse
  BY <1>1, Spent DEF NoLapse
<1>3. CASE Dies(p)
  <2>1. \A d \in Calls : On(d, m)' => On(d, m) /\ call'[d] = call[d]
    BY <1>3, DeathMarks
  <2>2. job'[m].state = job[m].state
    BY <1>3, DeathMarks
  <2>. QED
    BY <1>1, <1>2, <2>1, <2>2, ContentStays DEF ContentInv, Unpromoted, Queued
<1>4. CASE UNCHANGED <<job, call>>
  BY <1>1, <1>2, <1>4, ContentStays DEF ContentInv, On, Unpromoted, Queued
<1>. QED
  BY <1>3, <1>4 DEF Crash, Terminate, Exit, Restart

\* A message that is sent has its email, and nobody knows of it yet.
LEMMA SendEmailContent ==
    ASSUME TypeOK, PromiseInv, ContentInv, NEW p \in Procs, NEW client \in Clients,
           NEW S \in SUBSET Messages, sendEmail(p, client, S)
    PROVE  ContentInv'
<1>. SUFFICES ASSUME NEW m \in Messages PROVE Content(m)'
  BY DEF ContentInv
<1>1. /\ S \cap stored = {} /\ Start("send", "add", client, p, S)
      /\ UNCHANGED <<row, job, asked, spent>>
  BY DEF sendEmail
<1>2. \A d \in Calls : \/ call'[d] = call[d]
                       \/ call'[d].at = "add" /\ call'[d].m \in S
  BY <1>1, Started DEF StartedAt
<1>3. CASE m \in S
  <2>1. row[m] = NewMessage /\ \A d \in Calls : ~On(d, m)
    BY <1>1, <1>3 DEF PromiseInv, Justified, Entitled, On
  <2>. QED
    BY <1>1, <1>2, <2>1 DEF Content, NewMessage, On, Droppers
<1>4. CASE m \notin S
  <2>1. \A d \in Calls : On(d, m)' => On(d, m) /\ call'[d] = call[d]
    BY <1>2, <1>4 DEF On
  <2>. QED
    BY <1>1, <2>1, ContentStays DEF ContentInv, NoLapse, Unpromoted, Queued
<1>. QED
  BY <1>3, <1>4

\* A request only looks for the job at first.
LEMMA RequestContent ==
    ASSUME TypeOK, ContentInv, NEW S \in SUBSET Messages, NEW p, NEW client,
           NEW kind, NEW op,
           sendEmailUnread(p, client, S) \/ Request(kind, op, p, client, S)
    PROVE  ContentInv'
<1>. SUFFICES ASSUME NEW m \in Messages PROVE Content(m)'
  BY DEF ContentInv
<1>1. UNCHANGED <<row, job>> /\ (Unpromoted(m)' => Unpromoted(m))
  BY DEF sendEmailUnread, Request, Unpromoted
<1>2. NoLapse' => NoLapse
  <2>1. Spend("fault") \/ Spend("request")
    BY DEF sendEmailUnread, Request
  <2>. QED
    BY <2>1, Spent DEF NoLapse
<1>3. \A d \in Calls : call'[d] = call[d] \/ call'[d].at = "getJob"
  <2>1. UNCHANGED call \/ Start(kind, "getJob", client, p, S)
    BY DEF sendEmailUnread, Request
  <2>. QED
    BY <2>1, Started DEF StartedAt
<1>4. \A d \in Calls : On(d, m)' /\ call'[d].at \in Droppers \cup {"add"} =>
         On(d, m) /\ call'[d] = call[d]
  BY <1>3 DEF On, Droppers
<1>. QED
  BY <1>1, <1>2, <1>4, ContentStays DEF ContentInv, Queued

\* Every step keeps a queued message's content.
LEMMA ContentStep ==
    TypeOK /\ RecordInv /\ PromiseInv /\ QueueInv /\ ContentInv /\ [Next]_vars => ContentInv'
<1>. SUFFICES ASSUME TypeOK, RecordInv, PromiseInv, QueueInv, ContentInv, [Next]_vars
              PROVE  ContentInv'
  OBVIOUS
<1>1. ASSUME NEW p \in Procs, NEW client \in Clients, NEW S \in SUBSET Messages,
             \/ sendEmail(p, client, S) \/ sendEmailUnread(p, client, S)
             \/ findCancelMessages(p, client, S) \/ findPromoteMessages(p, client, S)
      PROVE  ContentInv'
  BY <1>1, SendEmailContent, RequestContent DEF findCancelMessages, findPromoteMessages
<1>2. ASSUME NEW p \in Procs, NEW client \in Clients, NEW m \in Messages,
             cancelMessage(p, client, m) \/ promoteMessage(p, client, m)
      PROVE  ContentInv'
  <2>1. {m} \in SUBSET Messages
    OBVIOUS
  <2>. QED
    BY <1>2, <2>1, RequestContent DEF cancelMessage, promoteMessage
<1>3. ASSUME NEW c \in Calls,
             Proceed(c) \/ SendUnanswered(c) \/ OperationFails(c) \/ ReadBackFails(c)
      PROVE  ContentInv'
  <2>1. CallSpends
    BY <1>3, CallsSpend
  <2>2. \/ \E b : Talks(c, b)
        \/ Adds(c) \/ Removes(c) \/ Promotes(c) \/ Sends(c) \/ Finishes(c) \/ Fails(c)
    BY <1>3, CallShapes
  <2>. QED
    BY <2>1, <2>2, TalkContent, QueueContent, SendContent
<1>4. ASSUME NEW c \in Calls, NEW p \in Procs, NEW m \in Messages,
             Take(c, p, m) \/ StalledTooOften(c, p, m)
      PROVE  ContentInv'
  BY <1>4, BeginContent
<1>5. ASSUME NEW m \in Messages,
             \/ \E p \in Procs : Requeue(p, m)
             \/ DelayExpires(m) \/ LockLapses(m) \/ JobLost(m)
      PROVE  ContentInv'
  BY <1>5, WaitContent
<1>6. ASSUME NEW p \in Procs, Crash(p) \/ Terminate(p) \/ Exit(p) \/ Restart(p)
      PROVE  ContentInv'
  BY <1>6, ProcessContent
<1>7. CASE UNCHANGED vars
  BY <1>7 DEF vars, ContentInv, Content, NoLapse, Unpromoted, Queued, On
<1>. QED
  BY <1>1, <1>2, <1>3, <1>4, <1>5, <1>6, <1>7 DEF Next

\* No worker ever takes a message whose email is gone or about to be dropped,
\* whatever completions, removals, failures and deaths interleave.
THEOREM WorkCorrect == Spec => []WorkHasContent
<1>1. Init => ContentInv
  BY DEF Init, ContentInv, Content, Queued, On, NoJob
<1>2. TypeOK /\ ContentInv => WorkHasContent
  BY DEF TypeOK, ContentInv, Content, Queued, WorkHasContent, NoLapse, Unpromoted
<1>. QED
  BY <1>1, <1>2, TypeCorrect, RecordsSound, PromisesSound, QueueSound, ContentStep, PTL
     DEF Spec

-----------------------------------------------------------------------------
(* The replicas are those of ReplicaProcess: the proof of ImplementsReplicas. *)

\* Nothing is in progress in a process that is gone.
AliveInv == \A c \in Calls : call[c] # Idle => mode[call[c].proc] # "down"

\* A replica's worker is on a job if one of its calls is a worker's.
LEMMA WorkerBusy ==
    ASSUME NEW p PROVE ~WorkerIdle(p) <=> \E c \in Calls : Working(c) /\ call[c].proc = p
BY DEF WorkerIdle, Working

\* The same after a step.
LEMMA WorkerBusyNext ==
    ASSUME NEW p PROVE ~WorkerIdle(p)' <=> \E c \in Calls : Working(c)' /\ call'[c].proc = p
BY DEF WorkerIdle, Working

\* No process and no worker shows the step.
LEMMA UnseenByReplicas ==
    ASSUME UNCHANGED mode, \A p \in Procs : WorkerIdle(p)' <=> WorkerIdle(p)
    PROVE  UNCHANGED Replicas!vars
BY DEF Replicas!vars

\* Nor does one that starts other calls than a worker's, in processes that live.
LEMMA StartReplica ==
    ASSUME AliveInv, NEW p \in Procs, mode[p] # "down", UNCHANGED mode,
           \A d \in Calls : \/ call'[d] = call[d]
                            \/ /\ call[d] = Idle /\ call'[d].at \notin WorkSteps
                               /\ call'[d].proc = p
    PROVE  UNCHANGED Replicas!vars /\ AliveInv'
<1>1. \A d \in Calls : /\ Working(d)' <=> Working(d)
                       /\ Working(d) => call'[d] = call[d]
  BY DEF Working
<1>2. \A q \in Procs : WorkerIdle(q)' <=> WorkerIdle(q)
  BY <1>1, WorkerBusy, WorkerBusyNext
<1>3. AliveInv'
  BY DEF AliveInv
<1>. QED
  BY <1>2, <1>3, UnseenByReplicas

\* What a step of a call does to its process: nothing, or an unhandled rejection
\* shuts it down.
ModeAfter(c) ==
    \/ UNCHANGED mode
    \/ /\ mode' = [mode EXCEPT ![call[c].proc] = "shutdown"]
       /\ call[c].at \notin WorkSteps

\* That is all that the steps of calls do to a process.
LEMMA CallModes ==
    ASSUME NEW c \in Calls,
           Proceed(c) \/ SendUnanswered(c) \/ OperationFails(c) \/ ReadBackFails(c)
    PROVE  ModeAfter(c)
<1>1. Rejects(c) => ModeAfter(c)
  BY DEF Rejects, ModeAfter
<1>2. CASE Proceed(c)
  BY <1>1, <1>2 DEF Proceed, Add, GetJob, GetState, Remove, Promote, Recover, ReadStatus,
     WriteStatus, Purge, Load, Send, SaveResult, Finish, Fail, ModeAfter
<1>3. CASE SendUnanswered(c) \/ OperationFails(c) \/ ReadBackFails(c)
  BY <1>1, <1>3 DEF SendUnanswered, OperationFails, ReadBackFails
<1>. QED
  BY <1>2, <1>3

\* A worker that goes on or ends, and a call that ends its process.
LEMMA MoveReplica ==
    ASSUME TypeOK, QueueInv, AliveInv, NEW c \in Calls, NEW b, Moves(c, b),
           b \in WorkSteps => call[c].at \in WorkSteps, ModeAfter(c)
    PROVE  [Replicas!Next]_(Replicas!vars) /\ AliveInv'
<1>. DEFINE p == call[c].proc
<1>1. /\ call[c] # Idle /\ p \in Procs /\ mode[p] \in {"running", "shutdown"}
      /\ \A d \in Calls : d # c => call'[d] = call[d]
      /\ call'[c] # Idle => call'[c].proc = p
  BY Busy DEF Moves, TypeOK, CallsOK, AliveInv
<1>2. AliveInv'
  <2>. SUFFICES ASSUME NEW d \in Calls, call'[d] # Idle
                PROVE  mode'[call'[d].proc] # "down"
    BY DEF AliveInv
  <2>1. call[d] # Idle /\ call'[d].proc = call[d].proc
    BY <1>1
  <2>2. mode[call[d].proc] # "down"
    BY <2>1 DEF AliveInv
  <2>3. call[d].proc \in Procs
    BY <2>1, Busy DEF TypeOK, CallsOK
  <2>4. mode' = mode \/ mode' = [mode EXCEPT ![p] = "shutdown"]
    BY DEF ModeAfter
  <2>. QED
    BY <2>1, <2>2, <2>3, <2>4 DEF TypeOK
<1>3. CASE Working(c) /\ ~Working(c)'
  <2>1. UNCHANGED mode /\ p \in {q \in Procs : ~WorkerIdle(q)}
    BY <1>1, <1>3, WorkerBusy DEF ModeAfter, Working
  <2>2. \A q \in Procs : ~WorkerIdle(q)' <=> ~WorkerIdle(q) /\ q # p
    <3>. SUFFICES ASSUME NEW q \in Procs PROVE ~WorkerIdle(q)' <=> ~WorkerIdle(q) /\ q # p
      OBVIOUS
    <3>1. \A d \in Calls : Working(d)' <=> Working(d) /\ d # c
      BY <1>1, <1>3 DEF Working
    <3>2. \A d \in Calls : Working(d) /\ d # c => call[d].proc # p
      BY <1>3 DEF QueueInv, LockInv
    <3>. QED
      BY <1>1, <3>1, <3>2, WorkerBusy, WorkerBusyNext
  <2>3. Replicas!EndsJob(p)
    BY <2>1, <2>2 DEF Replicas!EndsJob
  <2>. QED
    BY <1>1, <1>2, <2>3 DEF Replicas!Next
<1>4. CASE ~(Working(c) /\ ~Working(c)')
  <2>1. Working(c)' <=> Working(c)
    BY <1>1, <1>4 DEF Moves, Working, WorkSteps
  <2>2. \A q \in Procs : WorkerIdle(q)' <=> WorkerIdle(q)
    <3>1. \A d \in Calls : /\ Working(d)' <=> Working(d)
                           /\ Working(d) => call'[d].proc = call[d].proc
      BY <1>1, <2>1 DEF Working
    <3>. QED
      BY <3>1, WorkerBusy, WorkerBusyNext
  <2>3. CASE UNCHANGED mode
    BY <1>2, <2>2, <2>3, UnseenByReplicas
  <2>4. CASE mode' = [mode EXCEPT ![p] = "shutdown"] /\ mode[p] = "running"
    <3>1. Replicas!ShutsDown(p)
      BY <2>2, <2>4 DEF Replicas!ShutsDown
    <3>. QED
      BY <1>1, <1>2, <3>1 DEF Replicas!Next
  <2>5. CASE mode' = [mode EXCEPT ![p] = "shutdown"] /\ mode[p] = "shutdown"
    <3>1. UNCHANGED mode
      BY <2>5 DEF TypeOK
    <3>. QED
      BY <1>2, <2>2, <3>1, UnseenByReplicas
  <2>. QED
    BY <1>1, <2>3, <2>4, <2>5 DEF ModeAfter
<1>. QED
  BY <1>3, <1>4

\* The steps of calls.
LEMMA CallReplica ==
    ASSUME TypeOK, RecordInv, QueueInv, AliveInv, NEW c \in Calls,
           Proceed(c) \/ SendUnanswered(c) \/ OperationFails(c) \/ ReadBackFails(c)
    PROVE  [Replicas!Next]_(Replicas!vars) /\ AliveInv'
<1>1. \E b : Moves(c, b) /\ (b \in WorkSteps => call[c].at \in WorkSteps)
  <2>1. CASE \E b : Talks(c, b)
    BY <2>1 DEF Talks
  <2>2. CASE Adds(c) \/ Removes(c) \/ Promotes(c) \/ Finishes(c) \/ Fails(c)
    BY <2>2 DEF Adds, Removes, Promotes, Finishes, Fails, Requeues, WorkSteps
  <2>3. CASE Sends(c)
    BY <2>3 DEF Sends, WorkSteps
  <2>. QED
    BY <2>1, <2>2, <2>3, CallShapes
<1>. QED
  BY <1>1, CallModes, MoveReplica

\* A worker takes a job, or the stalled-job check gives one up.
LEMMA BeginReplica ==
    ASSUME TypeOK, AliveInv, NEW c \in Calls, NEW p \in Procs, NEW m \in Messages,
           Take(c, p, m) \/ StalledTooOften(c, p, m)
    PROVE  [Replicas!Next]_(Replicas!vars) /\ AliveInv'
<1>1. /\ mode[p] # "down" /\ UNCHANGED mode /\ call[c] = Idle
      /\ call'[c] # Idle /\ call'[c].proc = p
      /\ \A d \in Calls : d # c => call'[d] = call[d]
  BY DEF Take, StalledTooOften, TypeOK, Idle
<1>2. CASE Take(c, p, m)
  <2>1. mode[p] = "running" /\ WorkerIdle(p) /\ call'[c].at = "processing"
    BY <1>2 DEF Take, TypeOK
  <2>2. \A d \in Calls : Working(d)' <=> Working(d) \/ d = c
    BY <1>1, <2>1 DEF Working, WorkSteps
  <2>3. \A q \in Procs : ~WorkerIdle(q)' <=> ~WorkerIdle(q) \/ q = p
    BY <1>1, <2>2, WorkerBusy, WorkerBusyNext DEF Working
  <2>4. Replicas!TakesJob(p)
    BY <1>1, <2>1, <2>3 DEF Replicas!TakesJob
  <2>5. AliveInv'
    BY <1>1 DEF AliveInv
  <2>. QED
    BY <2>4, <2>5 DEF Replicas!Next
<1>3. CASE StalledTooOften(c, p, m)
  <2>1. call'[c].at \notin WorkSteps
    BY <1>3 DEF StalledTooOften, TypeOK, WorkSteps
  <2>. QED
    BY <1>1, <2>1, StartReplica
<1>. QED
  BY <1>2, <1>3

\* Processes end and start again.
LEMMA ProcessReplica ==
    ASSUME TypeOK, AliveInv, NEW p \in Procs,
           Crash(p) \/ Terminate(p) \/ Exit(p) \/ Restart(p)
    PROVE  [Replicas!Next]_(Replicas!vars) /\ AliveInv'
<1>1. CASE Crash(p) \/ Exit(p)
  <2>1. /\ mode[p] # "down" /\ mode' = [mode EXCEPT ![p] = "down"]
        /\ \A d \in Calls : call'[d] = IF Runs(d, p) THEN Idle ELSE call[d]
    BY <1>1 DEF Crash, Exit, Dies
  <2>2. \A d \in Calls : Working(d)' <=> Working(d) /\ call[d].proc # p
    BY <2>1 DEF Working, Runs
  <2>3. \A q \in Procs : ~WorkerIdle(q)' <=> ~WorkerIdle(q) /\ q # p
    BY <2>1, <2>2, WorkerBusy, WorkerBusyNext DEF Runs
  <2>4. Replicas!Dies(p)
    BY <2>1, <2>3 DEF Replicas!Dies
  <2>5. AliveInv'
    BY <2>1 DEF AliveInv, Runs, TypeOK
  <2>. QED
    BY <2>4, <2>5 DEF Replicas!Next
<1>2. CASE Terminate(p) \/ Restart(p)
  <2>1. UNCHANGED call
    BY <1>2 DEF Terminate, Restart
  <2>2. \A q \in Procs : WorkerIdle(q)' <=> WorkerIdle(q)
    BY <2>1 DEF WorkerIdle
  <2>3. Replicas!ShutsDown(p) \/ Replicas!Restarts(p)
    BY <1>2, <2>2 DEF Terminate, Restart, Replicas!ShutsDown, Replicas!Restarts
  <2>4. AliveInv'
    <3>. SUFFICES ASSUME NEW d \in Calls, call'[d] # Idle
                  PROVE  mode'[call'[d].proc] # "down"
      BY DEF AliveInv
    <3>1. mode[call[d].proc] # "down"
      BY <2>1 DEF AliveInv
    <3>2. call[d].proc \in Procs
      BY <2>1, Busy DEF TypeOK, CallsOK
    <3>. QED
      BY <1>2, <2>1, <3>1, <3>2 DEF Terminate, Restart, TypeOK
  <2>. QED
    BY <2>3, <2>4 DEF Replicas!Next
<1>. QED
  BY <1>1, <1>2

\* What the API does starts calls in a replica that is running.
LEMMA RequestReplica ==
    ASSUME TypeOK, AliveInv, NEW S, NEW p \in Procs, NEW client, NEW kind, NEW op,
           \/ sendEmail(p, client, S) \/ sendEmailUnread(p, client, S)
           \/ Request(kind, op, p, client, S)
    PROVE  UNCHANGED Replicas!vars /\ AliveInv'
<1>1. /\ mode[p] = "running" /\ UNCHANGED mode
      /\ \/ UNCHANGED call
         \/ \E any : \E step \in {"add", "getJob"} : Start(any, step, client, p, S)
  BY DEF sendEmail, sendEmailUnread, Request
<1>2. \A d \in Calls : \/ call'[d] = call[d]
                       \/ /\ call[d] = Idle /\ call'[d].at \notin WorkSteps
                          /\ call'[d].proc = p
  <2>1. ASSUME NEW any, NEW step \in {"add", "getJob"}, Start(any, step, client, p, S),
               NEW d \in Calls, call'[d] # call[d]
        PROVE  call[d] = Idle /\ call'[d].at \notin WorkSteps /\ call'[d].proc = p
    BY <2>1 DEF Start, IdleCalls, WorkSteps
  <2>. QED
    BY <1>1, <2>1
<1>. QED
  BY <1>1, <1>2, StartReplica

\* Every step is one of a replica, or of none.
LEMMA ReplicaStep ==
    TypeOK /\ RecordInv /\ QueueInv /\ AliveInv /\ [Next]_vars =>
        [Replicas!Next]_(Replicas!vars) /\ AliveInv'
<1>. SUFFICES ASSUME TypeOK, RecordInv, QueueInv, AliveInv, [Next]_vars
              PROVE  [Replicas!Next]_(Replicas!vars) /\ AliveInv'
  OBVIOUS
<1>1. ASSUME NEW p \in Procs, NEW client \in Clients, NEW S \in SUBSET Messages,
             \/ sendEmail(p, client, S) \/ sendEmailUnread(p, client, S)
             \/ findCancelMessages(p, client, S) \/ findPromoteMessages(p, client, S)
      PROVE  UNCHANGED Replicas!vars /\ AliveInv'
  BY <1>1, RequestReplica DEF findCancelMessages, findPromoteMessages
<1>2. ASSUME NEW p \in Procs, NEW client \in Clients, NEW m \in Messages,
             cancelMessage(p, client, m) \/ promoteMessage(p, client, m)
      PROVE  UNCHANGED Replicas!vars /\ AliveInv'
  BY <1>2, RequestReplica DEF cancelMessage, promoteMessage
<1>3. ASSUME NEW c \in Calls,
             Proceed(c) \/ SendUnanswered(c) \/ OperationFails(c) \/ ReadBackFails(c)
      PROVE  [Replicas!Next]_(Replicas!vars) /\ AliveInv'
  BY <1>3, CallReplica
<1>4. ASSUME NEW c \in Calls, NEW p \in Procs, NEW m \in Messages,
             Take(c, p, m) \/ StalledTooOften(c, p, m)
      PROVE  [Replicas!Next]_(Replicas!vars) /\ AliveInv'
  BY <1>4, BeginReplica
<1>5. ASSUME UNCHANGED <<call, mode>>
      PROVE  UNCHANGED Replicas!vars /\ AliveInv'
  BY <1>5, UnseenByReplicas DEF WorkerIdle, AliveInv
<1>6. ASSUME NEW m \in Messages,
             \/ \E p \in Procs : Requeue(p, m)
             \/ DelayExpires(m) \/ LockLapses(m) \/ JobLost(m)
      PROVE  UNCHANGED <<call, mode>>
  BY <1>6 DEF Requeue, DelayExpires, LockLapses, JobLost
<1>7. ASSUME NEW p \in Procs, Crash(p) \/ Terminate(p) \/ Exit(p) \/ Restart(p)
      PROVE  [Replicas!Next]_(Replicas!vars) /\ AliveInv'
  BY <1>7, ProcessReplica
<1>8. CASE UNCHANGED vars
  BY <1>5, <1>8 DEF vars
<1>. QED
  BY <1>1, <1>2, <1>3, <1>4, <1>5, <1>6, <1>7, <1>8 DEF Next

\* However requests, workers, rejections, signals and crashes interleave, the
\* replicas are processes as AppLifecycle has them: none begins a job once it
\* shuts down, none comes back but by a restart, and none works when it is gone.
THEOREM DispatchReplicas == Spec => ImplementsReplicas
<1>1. Init => Replicas!Init /\ AliveInv
  BY DEF Init, Replicas!Init, AliveInv, WorkerIdle
<1>. QED
  BY <1>1, TypeCorrect, RecordsSound, QueueSound, ReplicaStep, PTL
     DEF Spec, ImplementsReplicas, Replicas!Spec

-----------------------------------------------------------------------------
(* Nothing goes round: the part of JobsEnd and EventuallySettled that needs *)
(* no fairness.  Each job and each operation has a number of steps left,    *)
(* and every step of it, of whoever's making, leaves it fewer.              *)

\* The way of a job to its worker.
Ahead(j) == CASE j.state = "delayed" -> 4 [] j.state = "waiting" -> 2 [] OTHER -> 0

\* An attempt or a stall sends the job back on its way, and is counted.
JobLeft(j) ==
    IF j.state = "none" THEN 0
    ELSE 6 * ((MaxAttempts - j.attemptsMade) + (MaxStalls - j.stalls))
         + Ahead(j) + (IF j.lock = NoProc THEN 1 ELSE 2)

\* The steps from one to the end of the operation, on its longest way.
StepsLeft ==
    [purge |-> 1, failed |-> 1, enqueued |-> 1, promoted |-> 1,
     removed |-> 2, completed |-> 2, add |-> 2, fail |-> 2,
     remove |-> 3, promote |-> 3, recovered |-> 3, finish |-> 3,
     getState |-> 4, recover |-> 4, delivered |-> 4,
     getJob |-> 5, result |-> 5, send |-> 6, load |-> 7, processing |-> 8]

\* A status update takes two of them, the read and the commit.
CallLeft(k) == 2 * StepsLeft[k.at] - (IF k.seen.taken THEN 1 ELSE 0)

\* A step that changes a job brings it nearer to its end, also when locks and
\* jobs are lost.
JobRunsDown(m) ==
    job[m].state # "none" /\ job'[m] # job[m] => JobLeft(job'[m]) < JobLeft(job[m])

\* A step of an operation brings it nearer to its end, also when it rejects.
CallRunsDown(c) ==
    call[c] # Idle /\ call'[c] # call[c] =>
        call'[c] = Idle \/ CallLeft(call'[c]) < CallLeft(call[c])

RunsDown == /\ \A m \in Messages : JobRunsDown(m)
            /\ \A c \in Calls : CallRunsDown(c)

\* What is left is a number, so it cannot shrink for ever; it bounds the steps.
LEMMA JobLeftBounded ==
    ASSUME NEW j \in Job
    PROVE  JobLeft(j) \in 0 .. 6 * (MaxAttempts + MaxStalls + 1)
<1>. MaxAttempts \in Nat /\ MaxStalls \in Nat
  BY QueueAssumption DEF QueueAssumption
<1>. /\ j.attemptsMade \in 0 .. MaxAttempts /\ j.stalls \in 0 .. MaxStalls
     /\ Ahead(j) \in {0, 2, 4}
  BY DEF Job, Ahead
<1>. QED
  BY DEF JobLeft

LEMMA CallLeftBounded ==
    ASSUME NEW k \in Call
    PROVE  CallLeft(k) \in 1 .. 16
<1>1. StepsLeft[k.at] \in 1 .. 8
  BY DEF Call, Steps, UpdateSteps, WorkSteps, StepsLeft
<1>. QED
  BY <1>1 DEF CallLeft

\* What Bull does to a job: each operation of BullQueue on the jobs it is for.
LEMMA BullRunsDown ==
    ASSUME NEW j \in Job, j.state # "none"
    PROVE  /\ \A delayed \in BOOLEAN : added(j, delayed) = j
           /\ j.state = "delayed" => JobLeft(promoted(j)) < JobLeft(j)
           /\ \A p \in Procs : j.state = "waiting" => JobLeft(taken(j, p)) < JobLeft(j)
           /\ JobLeft(afterFailure(j)) < JobLeft(j)
           /\ Stalled(j) => JobLeft(afterStall(j)) < JobLeft(j)
           /\ JobLeft(NoJob) < JobLeft(j)
           /\ j.lock # NoProc => JobLeft([j EXCEPT !.lock = NoProc]) < JobLeft(j)
<1>. MaxAttempts \in Nat /\ MaxStalls \in Nat /\ NoProc \notin Procs
  BY QueueAssumption DEF QueueAssumption
<1>. j.attemptsMade \in 0 .. MaxAttempts /\ j.stalls \in 0 .. MaxStalls
  BY DEF Job
<1>0. j.state \in {"delayed", "waiting", "active"}
  BY DEF Job
<1>. USE DEF JobLeft, Ahead
<1>1. \A delayed \in BOOLEAN : added(j, delayed) = j
  BY DEF added
<1>2. j.state = "delayed" => JobLeft(promoted(j)) < JobLeft(j)
  BY DEF promoted, Job
<1>3. ASSUME NEW p \in Procs, j.state = "waiting" PROVE JobLeft(taken(j, p)) < JobLeft(j)
  BY <1>3 DEF taken, Job
<1>4. JobLeft(NoJob) < JobLeft(j)
  BY <1>0 DEF NoJob
<1>5. JobLeft(afterFailure(j)) < JobLeft(j)
  BY <1>0, <1>4 DEF afterFailure, RetriesLeft, Job
<1>6. Stalled(j) => JobLeft(afterStall(j)) < JobLeft(j)
  BY <1>0, <1>4 DEF afterStall, Stalled, Job
<1>7. j.lock # NoProc => JobLeft([j EXCEPT !.lock = NoProc]) < JobLeft(j)
  BY <1>0 DEF Job
<1>. QED
  BY <1>1, <1>2, <1>3, <1>4, <1>5, <1>6, <1>7

\* Jobs run down in the steps of operations.
LEMMA CallsRunJobsDown ==
    ASSUME TypeOK, NEW c \in Calls, NEW m \in Messages,
           Proceed(c) \/ SendUnanswered(c) \/ OperationFails(c) \/ ReadBackFails(c)
    PROVE  JobRunsDown(m)
<1>. SUFFICES ASSUME job[m].state # "none", job'[m] # job[m]
              PROVE  JobLeft(job'[m]) < JobLeft(job[m])
  BY DEF JobRunsDown
<1>1. job[m] \in Job
  BY DEF TypeOK
<1>2. CASE Add(c)
  <2>1. PICK delayed \in BOOLEAN :
           job' = [job EXCEPT ![call[c].m] = added(job[call[c].m], delayed)]
    BY <1>2 DEF Add
  <2>2. job'[m] = added(job[m], delayed)
    BY <2>1 DEF TypeOK
  <2>3. job'[m] = job[m]
    BY <1>1, <2>2, BullRunsDown
  <2>. QED
    BY <2>3
<1>3. CASE Remove(c) \/ Finish(c)
  <2>1. job'[m] = NoJob
    BY <1>3 DEF Remove, Finish, TypeOK
  <2>. QED
    BY <1>1, <2>1, BullRunsDown
<1>4. CASE Promote(c)
  <2>1. job[m].state = "delayed" /\ job'[m] = promoted(job[m])
    BY <1>4 DEF Promote, TypeOK
  <2>. QED
    BY <1>1, <2>1, BullRunsDown
<1>5. CASE Fail(c)
  <2>1. job'[m] = afterFailure(job[m])
    BY <1>5 DEF Fail, TypeOK
  <2>. QED
    BY <1>1, <2>1, BullRunsDown
<1>6. CASE \/ GetJob(c) \/ GetState(c) \/ Recover(c) \/ ReadStatus(c) \/ WriteStatus(c)
           \/ Purge(c) \/ Load(c) \/ Send(c) \/ SaveResult(c)
           \/ SendUnanswered(c) \/ OperationFails(c) \/ ReadBackFails(c)
  BY <1>6 DEF GetJob, GetState, Recover, ReadStatus, WriteStatus, Purge, Load, Send,
              SaveResult, SendUnanswered, OperationFails, ReadBackFails
<1>. QED
  BY <1>2, <1>3, <1>4, <1>5, <1>6 DEF Proceed

\* And in what Bull, Redis and dying processes do to them.
LEMMA QueueRunsJobsDown ==
    ASSUME TypeOK, NEW n \in Messages, NEW m \in Messages,
           \/ \E c \in Calls, p \in Procs : Take(c, p, m) \/ StalledTooOften(c, p, m)
           \/ \E p \in Procs : Requeue(p, m) \/ Crash(p) \/ Exit(p)
           \/ DelayExpires(m) \/ LockLapses(m) \/ JobLost(m)
    PROVE  JobRunsDown(n)
<1>. SUFFICES ASSUME job[n].state # "none", job'[n] # job[n]
              PROVE  JobLeft(job'[n]) < JobLeft(job[n])
  BY DEF JobRunsDown
<1>1. job[n] \in Job
  BY DEF TypeOK
<1>2. CASE \E c \in Calls, p \in Procs : Take(c, p, m)
  <2>1. \E p \in Procs : job[n].state = "waiting" /\ job'[n] = taken(job[n], p)
    BY <1>2 DEF Take, TypeOK
  <2>. QED
    BY <1>1, <2>1, BullRunsDown
<1>3. CASE \/ \E c \in Calls, p \in Procs : StalledTooOften(c, p, m)
           \/ \E p \in Procs : Requeue(p, m)
  <2>1. Stalled(job[n]) /\ job'[n] = afterStall(job[n])
    BY <1>3 DEF StalledTooOften, Requeue, TypeOK
  <2>. QED
    BY <1>1, <2>1, BullRunsDown
<1>4. CASE DelayExpires(m)
  <2>1. job[n].state = "delayed" /\ job'[n] = promoted(job[n])
    BY <1>4 DEF DelayExpires, TypeOK
  <2>. QED
    BY <1>1, <2>1, BullRunsDown
<1>5. CASE JobLost(m)
  <2>1. job'[n] = NoJob
    BY <1>5 DEF JobLost, TypeOK
  <2>. QED
    BY <1>1, <2>1, BullRunsDown
<1>6. CASE LockLapses(m) \/ \E p \in Procs : Crash(p) \/ Exit(p)
  <2>1. job[n].lock # NoProc /\ job'[n] = [job[n] EXCEPT !.lock = NoProc]
    <3>1. CASE LockLapses(m)
      BY <3>1 DEF LockLapses, TypeOK
    <3>2. ASSUME NEW p \in Procs, Dies(p)
          PROVE  job[n].lock # NoProc /\ job'[n] = [job[n] EXCEPT !.lock = NoProc]
      BY <3>2, QueueAssumption DEF Dies, QueueAssumption
    <3>. QED
      BY <1>6, <3>1, <3>2 DEF Crash, Exit
  <2>. QED
    BY <1>1, <2>1, BullRunsDown
<1>. QED
  BY <1>2, <1>3, <1>4, <1>5, <1>6

\* An operation that goes on to a later step, or ends.
LEMMA GotoRunsDown ==
    ASSUME TypeOK, NEW c \in Calls, call[c] # Idle, NEW step \in Steps \cup {"idle"},
           Goto(c, step), step # "idle" => StepsLeft[step] < StepsLeft[call[c].at],
           NEW d \in Calls
    PROVE  CallRunsDown(d)
<1>1. CASE d # c \/ step = "idle"
  BY <1>1 DEF Goto, CallRunsDown, TypeOK
<1>2. CASE d = c /\ step # "idle"
  <2>1. call[c] \in Call
    BY DEF TypeOK
  <2>2. call'[c].at = step /\ ~call'[c].seen.taken
    BY <1>2, <2>1 DEF Goto, TypeOK, Call, NoSnapshot
  <2>3. StepsLeft[step] \in Nat /\ StepsLeft[call[c].at] \in Nat
    BY <1>2, <2>1 DEF Call, Steps, UpdateSteps, WorkSteps, StepsLeft
  <2>. QED
    BY <1>2, <2>2, <2>3 DEF CallRunsDown, CallLeft
<1>. QED
  BY <1>1, <1>2

\* One that rejects: a worker's job fails, others end.
LEMMA RejectRunsDown ==
    ASSUME TypeOK, NEW c \in Calls, call[c] # Idle, Rejects(c),
           call[c].at # "fail", NEW d \in Calls
    PROVE  CallRunsDown(d)
<1>1. CASE call[c].at \in WorkSteps
  <2>1. Goto(c, "fail")
    BY <1>1 DEF Rejects
  <2>2. StepsLeft["fail"] < StepsLeft[call[c].at]
    BY <1>1 DEF WorkSteps, StepsLeft
  <2>. QED
    BY <2>1, <2>2, GotoRunsDown DEF Steps, WorkSteps
<1>2. CASE call[c].at \notin WorkSteps
  <2>1. Goto(c, "idle")
    BY <1>2 DEF Rejects
  <2>. QED
    BY <2>1, GotoRunsDown
<1>. QED
  BY <1>1, <1>2

\* Operations run down in their own steps.
LEMMA CallsRunDown ==
    ASSUME TypeOK, NEW c \in Calls, NEW d \in Calls,
           Proceed(c) \/ SendUnanswered(c) \/ OperationFails(c) \/ ReadBackFails(c)
    PROVE  CallRunsDown(d)
<1>. call[c] # Idle
  BY DEF Proceed, Add, GetJob, GetState, Remove, Promote, Recover, ReadStatus, WriteStatus,
         Purge, Load, Send, SaveResult, Finish, Fail, SendUnanswered, OperationFails,
         ReadBackFails, At, AtUpdate
<1>1. CASE GetJob(c)
  <2>1. CASE call' = [call EXCEPT ![c].at = "getState", ![c].drops = DropsContent(job[call[c].m])]
    BY <1>1, <2>1 DEF GetJob, At, TypeOK, Call, CallRunsDown, CallLeft, StepsLeft
  <2>2. CASE Rejects(c)
    BY <1>1, <2>2, RejectRunsDown DEF GetJob, At
  <2>3. CASE Goto(c, "recover") \/ Goto(c, "recovered") \/ Goto(c, "idle")
    BY <1>1, <2>3, GotoRunsDown DEF GetJob, At, Steps, UpdateSteps, StepsLeft
  <2>. QED
    BY <1>1, <2>1, <2>2, <2>3 DEF GetJob
<1>2. CASE Finish(c)
  <2>1. CASE call' = [call EXCEPT ![c].at = "completed", ![c].drops = DropsContent(job[call[c].m])]
    BY <1>2, <2>1 DEF Finish, At, TypeOK, Call, CallRunsDown, CallLeft, StepsLeft
  <2>2. CASE Goto(c, "idle")
    BY <2>2, GotoRunsDown
  <2>. QED
    BY <1>2, <2>1, <2>2 DEF Finish
<1>3. CASE ReadStatus(c)
  BY <1>3 DEF ReadStatus, AtUpdate, readMessage, TypeOK, Call, CallRunsDown, CallLeft,
              UpdateSteps, StepsLeft
<1>4. CASE WriteStatus(c)
  <2>. DEFINE step == StepAfter(call[c])
  <2>1. Goto(c, step) /\ call[c].at \in UpdateSteps
    BY <1>4 DEF WriteStatus, AtUpdate
  <2>2. \/ step = "idle"
        \/ call[c].at = "processing" /\ step = "load"
        \/ call[c].at = "delivered" /\ step = "finish"
        \/ call[c].at = "recovered" /\ step = "add"
        \/ call[c].at \in {"completed", "removed"} /\ step = "purge"
    BY DEF StepAfter
  <2>3. step \in Steps \cup {"idle"}
    BY <2>2 DEF Steps, UpdateSteps, WorkSteps
  <2>4. step # "idle" => StepsLeft[step] < StepsLeft[call[c].at]
    BY <2>2 DEF StepsLeft
  <2>. QED
    BY <2>1, <2>3, <2>4, GotoRunsDown
<1>5. CASE Add(c) \/ Fail(c) \/ Purge(c) \/ SaveResult(c) \/ Recover(c)
  <2>1. \E step \in Steps \cup {"idle"} :
           Goto(c, step) /\ (step # "idle" => StepsLeft[step] < StepsLeft[call[c].at])
    BY <1>5 DEF Add, Fail, Purge, SaveResult, Recover, At, Steps, UpdateSteps, WorkSteps, StepsLeft
  <2>. QED
    BY <2>1, GotoRunsDown
<1>6. CASE \/ GetState(c) \/ Remove(c) \/ Promote(c) \/ Load(c) \/ Send(c)
           \/ SendUnanswered(c) \/ OperationFails(c) \/ ReadBackFails(c)
  <2>1. \/ Rejects(c) /\ call[c].at # "fail"
        \/ \E step \in Steps :
              Goto(c, step) /\ StepsLeft[step] < StepsLeft[call[c].at]
    <3>1. CASE GetState(c) \/ Remove(c) \/ Promote(c) \/ Load(c) \/ Send(c)
      BY <3>1 DEF GetState, Remove, Promote, Load, Send, At, Steps, UpdateSteps, WorkSteps,
                  StepsLeft
    <3>2. CASE SendUnanswered(c) \/ OperationFails(c) \/ ReadBackFails(c)
      BY <3>2 DEF SendUnanswered, OperationFails, ReadBackFails, At, FallibleSteps, UpdateSteps
    <3>. QED
      BY <1>6, <3>1, <3>2
  <2>. QED
    BY <2>1, GotoRunsDown, RejectRunsDown DEF Steps
<1>. QED
  BY <1>1, <1>2, <1>3, <1>4, <1>5, <1>6 DEF Proceed

\* Nothing else changes an operation in progress, but the death of its process.
LEMMA OthersLeaveCalls ==
    ASSUME TypeOK, NEW d \in Calls,
           \/ \E p \in Procs, client \in Clients, S \in SUBSET Messages :
                 \/ sendEmail(p, client, S) \/ sendEmailUnread(p, client, S)
                 \/ \E kind, op : Request(kind, op, p, client, S)
           \/ \E c \in Calls, p \in Procs, m \in Messages :
                 Take(c, p, m) \/ StalledTooOften(c, p, m)
           \/ \E p \in Procs, m \in Messages : Requeue(p, m)
           \/ \E m \in Messages : DelayExpires(m) \/ LockLapses(m) \/ JobLost(m)
           \/ \E p \in Procs : Crash(p) \/ Terminate(p) \/ Exit(p) \/ Restart(p)
    PROVE  CallRunsDown(d)
<1>. SUFFICES ASSUME call[d] # Idle PROVE call'[d] \in {call[d], Idle}
  BY DEF CallRunsDown
<1>1. ASSUME NEW p \in Procs, NEW client \in Clients, NEW S \in SUBSET Messages,
             \/ sendEmail(p, client, S) \/ sendEmailUnread(p, client, S)
             \/ \E kind, op : Request(kind, op, p, client, S)
      PROVE  call'[d] = call[d]
  <2>1. UNCHANGED call \/ \E kind, step : Start(kind, step, client, p, S)
    BY <1>1 DEF sendEmail, sendEmailUnread, Request
  <2>. QED
    BY <2>1 DEF Start, IdleCalls
<1>2. ASSUME NEW c \in Calls, NEW p \in Procs, NEW m \in Messages,
             Take(c, p, m) \/ StalledTooOften(c, p, m)
      PROVE  call'[d] = call[d]
  BY <1>2 DEF Take, StalledTooOften, TypeOK
<1>3. ASSUME NEW p \in Procs, Crash(p) \/ Terminate(p) \/ Exit(p) \/ Restart(p)
      PROVE  call'[d] \in {call[d], Idle}
  BY <1>3 DEF Crash, Terminate, Exit, Restart, Dies
<1>4. CASE \/ \E p \in Procs, m \in Messages : Requeue(p, m)
           \/ \E m \in Messages : DelayExpires(m) \/ LockLapses(m) \/ JobLost(m)
  BY <1>4 DEF Requeue, DelayExpires, LockLapses, JobLost
<1>. QED
  BY <1>1, <1>2, <1>3, <1>4

LEMMA RunsDownStep == TypeOK /\ [Next]_vars => RunsDown
<1>. SUFFICES ASSUME TypeOK, [Next]_vars PROVE RunsDown
  OBVIOUS
<1>0. /\ UNCHANGED job => \A m \in Messages : JobRunsDown(m)
      /\ UNCHANGED call => \A c \in Calls : CallRunsDown(c)
  BY DEF JobRunsDown, CallRunsDown
<1>1. ASSUME NEW p \in Procs, NEW client \in Clients, NEW S \in SUBSET Messages,
             \/ sendEmail(p, client, S) \/ sendEmailUnread(p, client, S)
             \/ \E kind, op : Request(kind, op, p, client, S)
      PROVE  RunsDown
  <2>1. UNCHANGED job
    BY <1>1 DEF sendEmail, sendEmailUnread, Request
  <2>2. \A c \in Calls : CallRunsDown(c)
    BY <1>1, OthersLeaveCalls
  <2>. QED
    BY <1>0, <2>1, <2>2 DEF RunsDown
<1>2. ASSUME NEW p \in Procs, NEW client \in Clients,
             \/ \E S \in SUBSET Messages :
                   findCancelMessages(p, client, S) \/ findPromoteMessages(p, client, S)
             \/ \E m \in Messages :
                   cancelMessage(p, client, m) \/ promoteMessage(p, client, m)
      PROVE  RunsDown
  <2>1. \E S \in SUBSET Messages : \E kind, op : Request(kind, op, p, client, S)
    BY <1>2 DEF findCancelMessages, findPromoteMessages, cancelMessage, promoteMessage
  <2>. QED
    BY <1>1, <2>1
<1>3. ASSUME NEW c \in Calls,
             Proceed(c) \/ SendUnanswered(c) \/ OperationFails(c) \/ ReadBackFails(c)
      PROVE  RunsDown
  BY <1>3, CallsRunJobsDown, CallsRunDown DEF RunsDown
<1>4. ASSUME NEW m \in Messages,
             \/ \E c \in Calls, p \in Procs : Take(c, p, m) \/ StalledTooOften(c, p, m)
             \/ \E p \in Procs : Requeue(p, m)
             \/ DelayExpires(m) \/ LockLapses(m) \/ JobLost(m)
      PROVE  RunsDown
  <2>1. \A n \in Messages : JobRunsDown(n)
    BY <1>4, QueueRunsJobsDown
  <2>2. \A d \in Calls : CallRunsDown(d)
    BY <1>4, OthersLeaveCalls
  <2>. QED
    BY <2>1, <2>2 DEF RunsDown
<1>5. ASSUME NEW p \in Procs, Crash(p) \/ Terminate(p) \/ Exit(p) \/ Restart(p)
      PROVE  RunsDown
  <2>1. CASE Crash(p) \/ Exit(p)
    BY <2>1, QueueRunsJobsDown, OthersLeaveCalls DEF RunsDown
  <2>2. CASE Terminate(p) \/ Restart(p)
    <3>1. UNCHANGED <<job, call>>
      BY <2>2 DEF Terminate, Restart
    <3>. QED
      BY <1>0, <3>1 DEF RunsDown
  <2>. QED
    BY <1>5, <2>1, <2>2
<1>6. CASE UNCHANGED vars
  BY <1>0, <1>6 DEF vars, RunsDown
<1>. QED
  BY <1>1, <1>2, <1>3, <1>4, <1>5, <1>6 DEF Next

\* No job and no operation goes round: whatever fails, stalls, lapses, rejects
\* or is promoted, and in whatever order, each has a bounded number of steps.
THEOREM NothingGoesRound == Spec => [][RunsDown]_vars
<1>1. TypeOK /\ [Next]_vars => [RunsDown]_vars
  BY RunsDownStep
<1>. QED
  BY <1>1, TypeCorrect, PTL DEF Spec

=============================================================================
