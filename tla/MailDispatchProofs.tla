------------------------- MODULE MailDispatchProofs -------------------------
(***************************************************************************)
(* Type correctness of MailDispatch, for any number of messages, clients,  *)
(* replicas, operations in progress, attempts and failures.                *)
(***************************************************************************)
EXTENDS MailDispatch, TLAPS

-----------------------------------------------------------------------------
(* The operators on jobs and rows return jobs and rows. *)

\* NoJob is a job.
LEMMA NoJobType == NoJob \in Job
BY QueueAssumption DEF NoJob, Job, QueueAssumption

\* Whatever the service or Bull does to a job leaves a job.
LEMMA JobOperators ==
    ASSUME NEW j \in Job
    PROVE  /\ \A delayed \in BOOLEAN : added(j, delayed) \in Job
           /\ promoted(j) \in Job
           /\ \A p \in Procs : taken(j, p) \in Job
           /\ afterFailure(j) \in Job
           /\ afterStall(j) \in Job
           /\ [j EXCEPT !.lock = NoProc] \in Job
<1>. USE NoJobType, QueueAssumption DEF Job, NoJob, QueueAssumption
<1>1. \A delayed \in BOOLEAN : added(j, delayed) \in Job
  BY DEF added
<1>2. promoted(j) \in Job
  BY DEF promoted
<1>3. \A p \in Procs : taken(j, p) \in Job
  BY DEF taken
<1>4. afterFailure(j) \in Job
  <2>1. CASE RetriesLeft(j)
    <3>1. j.attemptsMade + 1 \in 0..MaxAttempts
      BY <2>1 DEF RetriesLeft
    <3>. QED
      BY <2>1, <3>1 DEF afterFailure
  <2>2. CASE ~RetriesLeft(j)
    BY <2>2 DEF afterFailure
  <2>. QED
    BY <2>1, <2>2
<1>5. afterStall(j) \in Job
  <2>1. CASE j.stalls < MaxStalls
    <3>1. j.stalls + 1 \in 0..MaxStalls
      BY <2>1
    <3>. QED
      BY <2>1, <3>1 DEF afterStall
  <2>2. CASE ~(j.stalls < MaxStalls)
    BY <2>2 DEF afterStall
  <2>. QED
    BY <2>1, <2>2
<1>6. [j EXCEPT !.lock = NoProc] \in Job
  OBVIOUS
<1>. QED
  BY <1>1, <1>2, <1>3, <1>4, <1>5, <1>6

\* Every queue status has a business status.
LEMMA BusinessStatus ==
    \A q \in QueueState : queueToStatus(q) \in StatusState
BY DEF QueueState, StatusState, queueToStatus

\* The transactions of DataService leave a row.
LEMMA RowOperators ==
    ASSUME NEW r \in Row
    PROVE  /\ readMessage(r) \in Snapshot
           /\ \A seen \in Snapshot, q \in QueueState : updateStatus(r, seen, q) \in Row
           /\ updateMessageSendResult(r) \in Row
           /\ deleteMessageEmail(r) \in Row
<1>1. readMessage(r) \in Snapshot
  BY DEF readMessage, Snapshot, Row
<1>2. ASSUME NEW seen \in Snapshot, NEW q \in QueueState
      PROVE  updateStatus(r, seen, q) \in Row
  BY BusinessStatus DEF updateStatus, Row
<1>3. updateMessageSendResult(r) \in Row
  BY DEF updateMessageSendResult, Row
<1>4. deleteMessageEmail(r) \in Row
  BY DEF deleteMessageEmail, Row
<1>. QED
  BY <1>1, <1>2, <1>3, <1>4

-----------------------------------------------------------------------------
(* How a call begins and goes on. *)

CallsOK == call \in [Calls -> Call \cup {Idle}]

ModeOK == mode \in [Procs -> {"running", "shutdown", "down"}]

\* A call in progress has the fields of a call.
LEMMA Busy ==
    ASSUME CallsOK, NEW c \in Calls, call[c] # Idle
    PROVE  /\ call[c] \in Call
           /\ call[c].m \in Messages /\ call[c].proc \in Procs
           /\ call[c].by \in Clients /\ call[c].at \in Steps
<1>1. call[c] \in Call
  BY DEF CallsOK
<1>. QED
  BY <1>1 DEF Call

\* Goto leads a call to another step, or ends it.
LEMMA GotoType ==
    ASSUME CallsOK, NEW c \in Calls, call[c] # Idle,
           NEW step \in Steps \cup {"idle"}, Goto(c, step)
    PROVE  CallsOK'
<1>1. call[c] \in Call
  BY Busy
<1>2. step # "idle" => [call[c] EXCEPT !.at = step, !.seen = NoSnapshot] \in Call
  BY <1>1 DEF Call
<1>. QED
  BY <1>2 DEF Goto, CallsOK

\* A rejection leads the call to "fail" or ends it.
LEMMA RejectsType ==
    ASSUME CallsOK, ModeOK, NEW c \in Calls, call[c] # Idle, Rejects(c)
    PROVE  CallsOK' /\ ModeOK'
<1>1. PICK step \in {"fail", "idle"} : Goto(c, step)
  BY DEF Rejects
<1>2. CallsOK'
  BY <1>1, GotoType DEF Steps, WorkSteps
<1>3. ModeOK'
  BY Busy DEF Rejects, ModeOK
<1>. QED
  BY <1>2, <1>3

\* A slot that Start fills holds a call, whatever it starts.
LEMMA StartType ==
    ASSUME TypeOK,
           NEW kind \in {"send", "cancel", "bulkCancel", "promote", "bulkPromote"},
           NEW step \in Steps, NEW client \in Clients, NEW p \in Procs,
           NEW S \in SUBSET Messages, Start(kind, step, client, p, S)
    PROVE  CallsOK'
<1>0. PICK D \in SUBSET IdleCalls : \E carried \in Bijection(D, S) :
        call' = [c \in Calls |->
                    IF c \in D
                    THEN [at |-> step, kind |-> kind, m |-> carried[c],
                          by |-> client, proc |-> p, seen |-> NoSnapshot,
                          content |-> kind = "bulkPromote" /\ row[carried[c]].email,
                          drops |-> FALSE]
                    ELSE call[c]]
  BY DEF Start
<1>1. PICK carried \in Bijection(D, S) :
        call' = [c \in Calls |->
                    IF c \in D
                    THEN [at |-> step, kind |-> kind, m |-> carried[c],
                          by |-> client, proc |-> p, seen |-> NoSnapshot,
                          content |-> kind = "bulkPromote" /\ row[carried[c]].email,
                          drops |-> FALSE]
                    ELSE call[c]]
  BY <1>0
<1>2. \A c \in D : carried[c] \in Messages
  BY <1>1 DEF Bijection, Injection, Surjection, IsInjective
<1>3. \A c \in D : (kind = "bulkPromote" /\ row[carried[c]].email) \in BOOLEAN
  OBVIOUS
<1>4. \A c \in Calls : call'[c] \in Call \cup {Idle}
  BY <1>1, <1>2, <1>3 DEF TypeOK, Call
<1>. QED
  BY <1>1, <1>4 DEF CallsOK

\* Spending a bound leaves a count of each.
LEMMA SpendType ==
    ASSUME TypeOK, NEW what \in {"request", "fault", "lapse", "crash"}, Spend(what)
    PROVE  spent' \in [{"request", "fault", "lapse", "crash"} -> Nat]
BY DEF TypeOK, Spend

-----------------------------------------------------------------------------
(* Every action leaves every variable in its type. *)

\* An action that changes no more than call and mode, from a rejection or a
\* Goto, keeps the types.
LEMMA CallAndMode ==
    ASSUME TypeOK, CallsOK', ModeOK',
           UNCHANGED <<stored, row, job, inbox, asked, cut, spent>>
    PROVE  TypeOK'
BY DEF TypeOK, CallsOK, ModeOK

\* sendEmail and sendEmailUnread.
LEMMA SendEmailType ==
    ASSUME TypeOK, NEW p \in Procs, NEW client \in Clients, NEW S \in SUBSET Messages,
           sendEmail(p, client, S) \/ sendEmailUnread(p, client, S)
    PROVE  TypeOK'
<1>1. CASE sendEmail(p, client, S)
  <2>1. CallsOK'
    BY <1>1, StartType DEF sendEmail, Steps
  <2>. QED
    BY <1>1, <2>1 DEF sendEmail, TypeOK, CallsOK
<1>2. CASE sendEmailUnread(p, client, S)
  <2>1. spent' \in [{"request", "fault", "lapse", "crash"} -> Nat]
    BY <1>2, SpendType DEF sendEmailUnread
  <2>. QED
    BY <1>2, <2>1 DEF sendEmailUnread, TypeOK
<1>. QED
  BY <1>1, <1>2

\* The four requests.
LEMMA RequestType ==
    ASSUME TypeOK, NEW kind \in {"cancel", "bulkCancel", "promote", "bulkPromote"},
           NEW op \in {"cancel", "promote"}, NEW p \in Procs, NEW client \in Clients,
           NEW S \in SUBSET Messages, Request(kind, op, p, client, S)
    PROVE  TypeOK'
<1>1. CallsOK'
  BY StartType DEF Request, Steps
<1>2. spent' \in [{"request", "fault", "lapse", "crash"} -> Nat]
  BY SpendType DEF Request
<1>3. asked' \in [Messages -> SUBSET {"cancel", "promote"}]
  BY DEF Request, TypeOK
<1>. QED
  BY <1>1, <1>2, <1>3 DEF Request, TypeOK, CallsOK

\* What a call does when nothing goes wrong with it.
LEMMA ProceedType ==
    ASSUME TypeOK, NEW c \in Calls, Proceed(c)
    PROVE  TypeOK'
<1>. DEFINE k == call[c]
            m == call[c].m
<1>0. /\ CallsOK /\ ModeOK
      /\ k # Idle /\ k \in Call /\ m \in Messages /\ k.at \in Steps
      /\ k.proc \in Procs
      /\ job[m] \in Job /\ row[m] \in Row
  <2>1. CallsOK /\ ModeOK
    BY DEF TypeOK, CallsOK, ModeOK
  <2>2. k # Idle
    BY DEF Proceed, At, AtUpdate, Add, GetJob, GetState, Remove, Promote, Recover,
           ReadStatus, WriteStatus, Purge, Load, Send, SaveResult, Finish, Fail
  <2>3. k \in Call /\ m \in Messages /\ k.at \in Steps /\ k.proc \in Procs
    BY <2>1, <2>2, Busy
  <2>. QED
    BY <2>1, <2>2, <2>3 DEF TypeOK
<1>1. ASSUME NEW step \in Steps \cup {"idle"}, Goto(c, step)
      PROVE  CallsOK'
  BY <1>0, <1>1, GotoType
<1>2. ASSUME Rejects(c)
      PROVE  CallsOK' /\ ModeOK'
  BY <1>0, <1>2, RejectsType
<1>3. ASSUME UNCHANGED mode
      PROVE  ModeOK'
  BY <1>0, <1>3 DEF ModeOK
<1>4. ASSUME NEW j \in Job, job' = [job EXCEPT ![m] = j]
      PROVE  job' \in [Messages -> Job]
  BY <1>4 DEF TypeOK
<1>5. ASSUME NEW r \in Row, row' = [row EXCEPT ![m] = r]
      PROVE  row' \in [Messages -> Row]
  BY <1>5 DEF TypeOK
<1>6. CASE Add(c)
  <2>1. CallsOK'
    BY <1>1, <1>6 DEF Add, Steps, UpdateSteps
  <2>2. job' \in [Messages -> Job]
    BY <1>0, <1>4, <1>6, JobOperators DEF Add
  <2>. QED
    BY <1>6, <2>1, <2>2 DEF Add, TypeOK, CallsOK
<1>7. CASE GetJob(c)
  <2>1. CASE job[m].state # "none" /\ MayTouch(k)
    <3>1. DropsContent(job[m]) \in BOOLEAN
      BY DEF DropsContent
    <3>2. [k EXCEPT !.at = "getState", !.drops = DropsContent(job[m])] \in Call
      BY <1>0, <3>1 DEF Call, Steps
    <3>3. CallsOK'
      BY <1>0, <1>7, <2>1, <3>2 DEF GetJob, CallsOK
    <3>. QED
      BY <1>3, <1>7, <2>1, <3>3, CallAndMode DEF GetJob
  <2>2. CASE job[m].state # "none" /\ ~MayTouch(k)
    BY <1>2, <1>7, <2>2, CallAndMode DEF GetJob
  <2>3. CASE job[m].state = "none"
    <3>1. CallsOK'
      BY <1>1, <1>7, <2>3 DEF GetJob, Steps, UpdateSteps
    <3>. QED
      BY <1>3, <1>7, <2>3, <3>1, CallAndMode DEF GetJob
  <2>. QED
    BY <2>1, <2>2, <2>3
<1>8. CASE GetState(c)
  <2>1. CallsOK' /\ ModeOK'
    BY <1>1, <1>2, <1>3, <1>8 DEF GetState, Steps
  <2>. QED
    BY <1>8, <2>1, CallAndMode DEF GetState
<1>9. CASE Remove(c)
  <2>1. CallsOK' /\ ModeOK'
    BY <1>1, <1>2, <1>3, <1>9 DEF Remove, Steps, UpdateSteps
  <2>2. job' \in [Messages -> Job]
    BY <1>0, <1>4, <1>9, NoJobType DEF Remove, TypeOK
  <2>. QED
    BY <1>9, <2>1, <2>2 DEF Remove, TypeOK, CallsOK, ModeOK
<1>10. CASE Promote(c)
  <2>1. CallsOK' /\ ModeOK'
    BY <1>1, <1>2, <1>3, <1>10 DEF Promote, Steps, UpdateSteps
  <2>2. job' \in [Messages -> Job]
    BY <1>0, <1>4, <1>10, JobOperators DEF Promote, TypeOK
  <2>. QED
    BY <1>10, <2>1, <2>2 DEF Promote, TypeOK, CallsOK, ModeOK
<1>11. CASE Recover(c)
  <2>1. CallsOK'
    BY <1>1, <1>11 DEF Recover, Steps, UpdateSteps
  <2>. QED
    BY <1>3, <1>11, <2>1, CallAndMode DEF Recover
<1>12. CASE ReadStatus(c)
  <2>1. [k EXCEPT !.seen = readMessage(row[m])] \in Call
    BY <1>0, RowOperators DEF Call
  <2>2. CallsOK'
    BY <1>0, <1>12, <2>1 DEF ReadStatus, CallsOK
  <2>. QED
    BY <1>3, <1>12, <2>2, CallAndMode DEF ReadStatus
<1>13. CASE WriteStatus(c)
  <2>1. CallsOK'
    BY <1>1, <1>13 DEF WriteStatus, StepAfter, Steps, WorkSteps
  <2>2. row' \in [Messages -> Row]
    <3>1. k.seen \in Snapshot
      BY <1>0, <1>13 DEF WriteStatus, Call, NoSnapshot
    <3>2. StateRecordedAt[k.at] \in QueueState
      BY <1>13 DEF WriteStatus, AtUpdate, StateRecordedAt, UpdateSteps, QueueState
    <3>3. Recorded(k) \in Row
      BY <1>0, <3>1, <3>2, RowOperators DEF Recorded
    <3>. QED
      BY <1>5, <1>13, <3>3 DEF WriteStatus
  <2>. QED
    BY <1>13, <2>1, <2>2 DEF WriteStatus, TypeOK, CallsOK
<1>14. CASE Purge(c)
  <2>1. CallsOK'
    BY <1>1, <1>14 DEF Purge
  <2>2. row' \in [Messages -> Row]
    BY <1>0, <1>5, <1>14, RowOperators DEF Purge
  <2>. QED
    BY <1>14, <2>1, <2>2 DEF Purge, TypeOK, CallsOK
<1>15. CASE Load(c)
  <2>1. CallsOK' /\ ModeOK'
    BY <1>1, <1>2, <1>3, <1>15 DEF Load, Steps, WorkSteps
  <2>. QED
    BY <1>15, <2>1, CallAndMode DEF Load
<1>16. CASE Send(c)
  <2>1. CallsOK' /\ ModeOK'
    BY <1>1, <1>2, <1>3, <1>16 DEF Send, Steps, WorkSteps
  <2>2. inbox' \in [Messages -> Nat]
    BY <1>0, <1>16 DEF Send, Accept, TypeOK
  <2>. QED
    BY <1>16, <2>1, <2>2 DEF Send, TypeOK, CallsOK, ModeOK
<1>17. CASE SaveResult(c)
  <2>1. CallsOK'
    BY <1>1, <1>17 DEF SaveResult, Steps, WorkSteps
  <2>2. row' \in [Messages -> Row]
    BY <1>0, <1>5, <1>17, RowOperators DEF SaveResult
  <2>. QED
    BY <1>17, <2>1, <2>2 DEF SaveResult, TypeOK, CallsOK
<1>18. CASE Finish(c)
  <2>1. CallsOK'
    <3>1. CASE HoldsLock(k)
      <4>1. DropsContent(job[m]) \in BOOLEAN
        BY DEF DropsContent
      <4>2. [k EXCEPT !.at = "completed",
                      !.drops = DropsContent(job[m])] \in Call
        BY <1>0, <4>1 DEF Call, Steps, UpdateSteps
      <4>. QED
        BY <1>0, <1>18, <3>1, <4>2 DEF Finish, CallsOK
    <3>2. CASE ~HoldsLock(k)
      BY <1>1, <1>18, <3>2 DEF Finish
    <3>. QED
      BY <3>1, <3>2
  <2>2. job' \in [Messages -> Job]
    BY <1>0, <1>4, <1>18, NoJobType DEF Finish, TypeOK
  <2>. QED
    BY <1>18, <2>1, <2>2 DEF Finish, TypeOK, CallsOK
<1>19. CASE Fail(c)
  <2>1. CallsOK'
    BY <1>1, <1>19 DEF Fail, Steps, UpdateSteps
  <2>2. job' \in [Messages -> Job]
    BY <1>0, <1>4, <1>19, JobOperators DEF Fail, TypeOK
  <2>. QED
    BY <1>19, <2>1, <2>2 DEF Fail, TypeOK, CallsOK
<1>. QED
  BY <1>6, <1>7, <1>8, <1>9, <1>10, <1>11, <1>12, <1>13, <1>14, <1>15, <1>16,
     <1>17, <1>18, <1>19 DEF Proceed

\* What a call does when an operation fails.
LEMMA FailureType ==
    ASSUME TypeOK, NEW c \in Calls,
           SendUnanswered(c) \/ OperationFails(c) \/ ReadBackFails(c)
    PROVE  TypeOK'
<1>. DEFINE k == call[c]
            m == call[c].m
<1>1. CallsOK /\ ModeOK
  BY DEF TypeOK, CallsOK, ModeOK
<1>2. k # Idle
  BY DEF SendUnanswered, OperationFails, ReadBackFails, At
<1>3. Rejects(c)
  BY DEF SendUnanswered, OperationFails, ReadBackFails
<1>4. CallsOK' /\ ModeOK'
  BY <1>1, <1>2, <1>3, RejectsType
<1>5. spent' \in [{"request", "fault", "lapse", "crash"} -> Nat]
  BY SpendType DEF SendUnanswered, OperationFails, ReadBackFails
<1>6. k \in Call /\ m \in Messages /\ row[m] \in Row
  BY <1>1, <1>2, Busy DEF TypeOK
<1>7. CASE SendUnanswered(c)
  <2>1. inbox' \in [Messages -> Nat]
    BY <1>6, <1>7 DEF SendUnanswered, Accept, TypeOK
  <2>. QED
    BY <1>4, <1>5, <1>7, <2>1 DEF SendUnanswered, TypeOK, CallsOK, ModeOK
<1>8. CASE OperationFails(c)
  BY <1>4, <1>5, <1>8 DEF OperationFails, TypeOK, CallsOK, ModeOK
<1>9. CASE ReadBackFails(c)
  <2>0. ASSUME NEW r \in Row, row' = [row EXCEPT ![m] = r]
        PROVE  row' \in [Messages -> Row]
    BY <2>0 DEF TypeOK
  <2>1. ASSUME k.at \in UpdateSteps, k.seen.taken,
               row' = [row EXCEPT ![m] = Recorded(k)]
        PROVE  row' \in [Messages -> Row]
    <3>1. k.seen \in Snapshot
      BY <1>6, <2>1 DEF Call, NoSnapshot
    <3>2. StateRecordedAt[k.at] \in QueueState
      BY <2>1 DEF StateRecordedAt, UpdateSteps, QueueState
    <3>3. Recorded(k) \in Row
      BY <1>6, <3>1, <3>2, RowOperators DEF Recorded
    <3>. QED
      BY <2>1, <2>0, <3>3
  <2>2. ASSUME row' = [row EXCEPT ![m] = updateMessageSendResult(@)]
        PROVE  row' \in [Messages -> Row]
    <3>1. updateMessageSendResult(row[m]) \in Row
      BY <1>6, RowOperators
    <3>. QED
      BY <2>0, <2>2, <3>1
  <2>3. row' \in [Messages -> Row]
    BY <1>9, <2>1, <2>2 DEF ReadBackFails, TypeOK
  <2>. QED
    BY <1>4, <1>5, <1>9, <2>3 DEF ReadBackFails, TypeOK, CallsOK, ModeOK
<1>. QED
  BY <1>7, <1>8, <1>9

\* The call that Take or StalledTooOften puts in an idle slot.
LEMMA WorkCallType ==
    ASSUME TypeOK, NEW c \in Calls, NEW p \in Procs, NEW m \in Messages,
           NEW step \in Steps,
           call' = [call EXCEPT ![c] =
                      [at |-> step, kind |-> "work", m |-> m,
                       by |-> Owner[m], proc |-> p, seen |-> NoSnapshot,
                       content |-> FALSE, drops |-> FALSE]]
    PROVE  CallsOK'
BY DispatchAssumption DEF TypeOK, CallsOK, Call, DispatchAssumption

\* What Bull and Redis do to a job.
LEMMA QueueType ==
    ASSUME TypeOK, NEW m \in Messages,
           \/ \E c \in Calls, p \in Procs : Take(c, p, m) \/ StalledTooOften(c, p, m)
           \/ \E p \in Procs : Requeue(p, m)
           \/ DelayExpires(m) \/ LockLapses(m) \/ JobLost(m)
    PROVE  TypeOK'
<1>1. job[m] \in Job
  BY DEF TypeOK
<1>2. ASSUME NEW j \in Job, job' = [job EXCEPT ![m] = j]
      PROVE  job' \in [Messages -> Job]
  BY <1>2 DEF TypeOK
<1>3. ASSUME NEW c \in Calls, NEW p \in Procs, Take(c, p, m)
      PROVE  TypeOK'
  <2>1. CallsOK'
    BY <1>3, WorkCallType DEF Take, Steps, UpdateSteps
  <2>2. job' \in [Messages -> Job]
    BY <1>1, <1>2, <1>3, JobOperators DEF Take
  <2>. QED
    BY <1>3, <2>1, <2>2 DEF Take, TypeOK, CallsOK
<1>4. ASSUME NEW c \in Calls, NEW p \in Procs, StalledTooOften(c, p, m)
      PROVE  TypeOK'
  <2>1. CallsOK'
    BY <1>4, WorkCallType DEF StalledTooOften, Steps, UpdateSteps
  <2>2. job' \in [Messages -> Job]
    BY <1>1, <1>2, <1>4, JobOperators DEF StalledTooOften
  <2>. QED
    BY <1>4, <2>1, <2>2 DEF StalledTooOften, TypeOK, CallsOK
<1>5. ASSUME NEW p \in Procs, Requeue(p, m)
      PROVE  TypeOK'
  <2>1. job' \in [Messages -> Job]
    BY <1>1, <1>2, <1>5, JobOperators DEF Requeue
  <2>. QED
    BY <1>5, <2>1 DEF Requeue, TypeOK
<1>6. CASE DelayExpires(m)
  <2>1. job' \in [Messages -> Job]
    BY <1>1, <1>2, <1>6, JobOperators DEF DelayExpires
  <2>. QED
    BY <1>6, <2>1 DEF DelayExpires, TypeOK
<1>7. CASE LockLapses(m)
  <2>1. job' \in [Messages -> Job]
    BY <1>1, <1>2, <1>7, JobOperators DEF LockLapses
  <2>2. spent' \in [{"request", "fault", "lapse", "crash"} -> Nat]
    BY <1>7, SpendType DEF LockLapses
  <2>. QED
    BY <1>7, <2>1, <2>2 DEF LockLapses, TypeOK
<1>8. CASE JobLost(m)
  <2>1. job' \in [Messages -> Job]
    BY <1>2, <1>8, NoJobType DEF JobLost
  <2>2. spent' \in [{"request", "fault", "lapse", "crash"} -> Nat]
    BY <1>8, SpendType DEF JobLost
  <2>. QED
    BY <1>8, <2>1, <2>2 DEF JobLost, TypeOK
<1>. QED
  BY <1>3, <1>4, <1>5, <1>6, <1>7, <1>8

\* A dying process.
LEMMA DiesType ==
    ASSUME TypeOK, NEW p \in Procs, Dies(p)
    PROVE  /\ CallsOK' /\ ModeOK' /\ job' \in [Messages -> Job]
           /\ cut' \in [Messages -> SUBSET {"worker", "other"}]
<1>1. CallsOK'
  BY DEF Dies, TypeOK, CallsOK
<1>2. ModeOK'
  BY DEF Dies, TypeOK, ModeOK
<1>3. \A m \in Messages : [job[m] EXCEPT !.lock = NoProc] \in Job
  BY JobOperators DEF TypeOK
<1>4. job' \in [Messages -> Job]
  BY <1>3 DEF Dies, TypeOK
<1>5. cut' \in [Messages -> SUBSET {"worker", "other"}]
  BY DEF Dies, TypeOK
<1>. QED
  BY <1>1, <1>2, <1>4, <1>5

\* The end of a process and its return.
LEMMA ProcessType ==
    ASSUME TypeOK, NEW p \in Procs,
           Crash(p) \/ Terminate(p) \/ Exit(p) \/ Restart(p)
    PROVE  TypeOK'
<1>1. CASE Crash(p)
  <2>1. spent' \in [{"request", "fault", "lapse", "crash"} -> Nat]
    BY <1>1, SpendType DEF Crash
  <2>. QED
    BY <1>1, <2>1, DiesType DEF Crash, TypeOK, CallsOK, ModeOK
<1>2. CASE Terminate(p)
  <2>1. spent' \in [{"request", "fault", "lapse", "crash"} -> Nat]
    BY <1>2, SpendType DEF Terminate
  <2>. QED
    BY <1>2, <2>1 DEF Terminate, TypeOK
<1>3. CASE Exit(p)
  BY <1>3, DiesType DEF Exit, TypeOK, CallsOK, ModeOK
<1>4. CASE Restart(p)
  BY <1>4 DEF Restart, TypeOK
<1>. QED
  BY <1>1, <1>2, <1>3, <1>4

\* Every step of the system keeps the types.
LEMMA TypeStep == TypeOK /\ [Next]_vars => TypeOK'
<1>. SUFFICES ASSUME TypeOK, [Next]_vars
              PROVE  TypeOK'
  OBVIOUS
<1>1. ASSUME NEW p \in Procs, NEW client \in Clients, NEW S \in SUBSET Messages,
             sendEmail(p, client, S) \/ sendEmailUnread(p, client, S)
      PROVE  TypeOK'
  BY <1>1, SendEmailType
<1>2. ASSUME NEW p \in Procs, NEW client \in Clients, NEW S \in SUBSET Messages,
             findCancelMessages(p, client, S) \/ findPromoteMessages(p, client, S)
      PROVE  TypeOK'
  BY <1>2, RequestType DEF findCancelMessages, findPromoteMessages
<1>3. ASSUME NEW p \in Procs, NEW client \in Clients, NEW m \in Messages,
             cancelMessage(p, client, m) \/ promoteMessage(p, client, m)
      PROVE  TypeOK'
  <2>1. {m} \in SUBSET Messages
    OBVIOUS
  <2>. QED
    BY <1>3, <2>1, RequestType DEF cancelMessage, promoteMessage
<1>4. ASSUME NEW c \in Calls,
             Proceed(c) \/ SendUnanswered(c) \/ OperationFails(c) \/ ReadBackFails(c)
      PROVE  TypeOK'
  BY <1>4, ProceedType, FailureType
<1>5. ASSUME NEW c \in Calls, NEW p \in Procs, NEW m \in Messages,
             Take(c, p, m) \/ StalledTooOften(c, p, m)
      PROVE  TypeOK'
  BY <1>5, QueueType
<1>6. ASSUME NEW m \in Messages,
             \/ \E p \in Procs : Requeue(p, m)
             \/ DelayExpires(m) \/ LockLapses(m) \/ JobLost(m)
      PROVE  TypeOK'
  BY <1>6, QueueType
<1>7. ASSUME NEW p \in Procs, Crash(p) \/ Terminate(p) \/ Exit(p) \/ Restart(p)
      PROVE  TypeOK'
  BY <1>7, ProcessType
<1>8. CASE UNCHANGED vars
  BY <1>8 DEF vars, TypeOK
<1>. QED
  BY <1>1, <1>2, <1>3, <1>4, <1>5, <1>6, <1>7, <1>8 DEF Next

-----------------------------------------------------------------------------

\* TypeOK holds initially.
LEMMA TypeInit == Init => TypeOK
<1>1. NewMessage \in Row
  BY DEF NewMessage, Row, StatusState, QueueState
<1>. QED
  BY <1>1, NoJobType DEF Init, TypeOK, CallsOK

\* Every variable keeps its type: rows hold statuses the schema knows, jobs
\* never count more attempts than server.maxAttempts or more stalls than Bull
\* allows, operations are at a step of the code.
THEOREM TypeCorrect == Spec => []TypeOK
BY TypeInit, TypeStep, PTL DEF Spec

=============================================================================
