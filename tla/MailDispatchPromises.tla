------------------------ MODULE MailDispatchPromises ------------------------
(***************************************************************************)
(* The dispatch of messages keeps what MailDelivery promises their senders, *)
(* and serves no client what another one asked for: the proof that         *)
(* MailDispatch implements MailDelivery, and of OnlyTheOwner.              *)
(***************************************************************************)
EXTENDS MailDispatchRecords

\* What the owner of a message must have asked for to let a call act on it.
Purpose(k) == IF IsCancel(k) THEN "cancel" ELSE "promote"

\* A call is about a stored message; past the comparison of clients, which a
\* query makes in the database, the owner has asked for what it does.
Entitled(k) ==
    k # Idle =>
        /\ k.m \in stored
        /\ (k.at = "getJob" /\ (MayTouch(k) \/ k.kind = "bulkPromote")) =>
              Purpose(k) \in asked[k.m]
        /\ k.at = "getState" => Purpose(k) \in asked[k.m]
        /\ k.at \in {"remove", "removed"} => "cancel" \in asked[k.m]
        /\ k.at \in {"recover", "recovered", "promote", "promoted"} =>
              "promote" \in asked[k.m]

\* Nothing happens to a message before it is stored, and the queue records of
\* a cancellation and of a promotion were asked for.
Justified(m) ==
    /\ m \notin stored => row[m] = NewMessage /\ job[m].state = "none"
    /\ "removed" \in row[m].queueHistory => "cancel" \in asked[m]
    /\ "promoted" \in row[m].queueHistory => "promote" \in asked[m]

\* The inductive invariant behind OnlyTheOwner, and with RecordInv behind the
\* refinement.
PromiseInv ==
    /\ \A m \in Messages : Justified(m)
    /\ \A c \in Calls : Entitled(call[c])

-----------------------------------------------------------------------------
(* What was asked for stays asked for. *)

\* A step after which the messages are justified and the changed calls are
\* entitled keeps the invariant.
LEMMA PromiseKept ==
    ASSUME TypeOK, PromiseInv, stored \subseteq stored',
           \A m \in Messages : asked[m] \subseteq asked'[m] /\ Justified(m)',
           \A c \in Calls : call'[c] = call[c] \/ Entitled(call[c])'
    PROVE  PromiseInv'
<1>1. ASSUME NEW c \in Calls, call'[c] = call[c]
      PROVE  Entitled(call[c])'
  <2>1. CASE call[c] = Idle
    BY <1>1, <2>1 DEF Entitled
  <2>2. CASE call[c] # Idle
    <3>1. call[c].m \in Messages /\ Entitled(call[c])
      BY <2>2, Busy DEF TypeOK, CallsOK, PromiseInv
    <3>. QED
      BY <1>1, <2>2, <3>1 DEF Entitled, MayTouch, Purpose, IsCancel
  <2>. QED
    BY <2>1, <2>2
<1>. QED
  BY <1>1 DEF PromiseInv

\* The steps at which a call acts for the owner of its message.
OwnerSteps == {"getJob", "getState", "remove", "removed", "recover", "recovered",
               "promote", "promoted"}

\* Elsewhere it only has to be about a stored message.
Elsewhere(k) == k # Idle => k.at \notin OwnerSteps /\ k.m \in stored

\* Such a call is entitled.
LEMMA ElsewhereEntitled == \A k : Elsewhere(k) => Entitled(k)
BY DEF Elsewhere, OwnerSteps, Entitled

\* A step that leaves the rows and requests alone, gives no job to a message
\* that is not stored, and leads no call to an owner's step keeps the invariant.
LEMMA PlainStep ==
    ASSUME TypeOK, PromiseInv, UNCHANGED <<stored, row, asked>>,
           \A m \in Messages :
              job[m].state = "none" => (job'[m].state = "none" \/ m \in stored),
           \A c \in Calls : call'[c] = call[c] \/ Entitled(call[c])'
    PROVE  PromiseInv'
<1>1. \A m \in Messages : Justified(m)'
  BY DEF PromiseInv, Justified
<1>. QED
  BY <1>1, PromiseKept

\* Goto leads one call to the step.
LEMMA GotoStep ==
    ASSUME TypeOK, NEW c \in Calls, call[c] # Idle, NEW step, step # "idle",
           Goto(c, step)
    PROVE  /\ call'[c].at = step /\ call'[c].m = call[c].m
           /\ call'[c].kind = call[c].kind
           /\ \A d \in Calls : d # c => call'[d] = call[d]
<1>1. call[c] \in Call
  BY Busy DEF TypeOK, CallsOK
<1>2. call' = [call EXCEPT ![c] = [call[c] EXCEPT !.at = step, !.seen = NoSnapshot]]
  BY DEF Goto
<1>. QED
  BY <1>1, <1>2 DEF TypeOK, Call

\* Goto a step where the call is entitled to be.
LEMMA EntitledGoto ==
    ASSUME TypeOK, PromiseInv, UNCHANGED stored, NEW c \in Calls, call[c] # Idle,
           NEW step, Goto(c, step),
           step \notin {"getJob", "getState"},
           step \in {"remove", "removed"} => "cancel" \in asked'[call[c].m],
           step \in {"recover", "recovered", "promote", "promoted"} =>
              "promote" \in asked'[call[c].m]
    PROVE  \A d \in Calls : call'[d] = call[d] \/ Entitled(call[d])'
<1>1. CASE step = "idle"
  <2>1. \A d \in Calls : call'[d] = call[d] \/ call'[d] = Idle
    BY <1>1 DEF Goto, TypeOK
  <2>. QED
    BY <2>1 DEF Entitled
<1>2. CASE step # "idle"
  <2>1. /\ call'[c].at = step /\ call'[c].m = call[c].m
        /\ \A d \in Calls : d # c => call'[d] = call[d]
    BY <1>2, GotoStep
  <2>2. call[c].m \in stored
    BY DEF PromiseInv, Entitled
  <2>3. Entitled(call[c])'
    BY <2>1, <2>2 DEF Entitled
  <2>. QED
    BY <2>1, <2>3
<1>. QED
  BY <1>1, <1>2

\* A rejection.
LEMMA EntitledReject ==
    ASSUME TypeOK, PromiseInv, UNCHANGED stored, NEW c \in Calls, call[c] # Idle,
           Rejects(c)
    PROVE  \A d \in Calls : call'[d] = call[d] \/ Entitled(call[d])'
<1>1. PICK step \in {"fail", "idle"} : Goto(c, step)
  BY DEF Rejects
<1>. QED
  BY <1>1, EntitledGoto

\* What Start puts in the slots it fills.
LEMMA StartCalls ==
    ASSUME TypeOK, NEW kind, NEW step, NEW client, NEW p,
           NEW S \in SUBSET Messages, Start(kind, step, client, p, S)
    PROVE  \A d \in Calls :
              \/ call'[d] = call[d]
              \/ /\ call'[d].at = step /\ call'[d].kind = kind
                 /\ call'[d].by = client /\ call'[d].m \in S
<1>1. PICK D \in SUBSET IdleCalls : \E carried \in Bijection(D, S) :
        call' = [c \in Calls |->
                    IF c \in D
                    THEN [at |-> step, kind |-> kind, m |-> carried[c],
                          by |-> client, proc |-> p, seen |-> NoSnapshot,
                          content |-> kind = "bulkPromote" /\ row[carried[c]].email,
                          drops |-> FALSE]
                    ELSE call[c]]
  BY DEF Start
<1>2. PICK carried \in Bijection(D, S) :
        call' = [c \in Calls |->
                    IF c \in D
                    THEN [at |-> step, kind |-> kind, m |-> carried[c],
                          by |-> client, proc |-> p, seen |-> NoSnapshot,
                          content |-> kind = "bulkPromote" /\ row[carried[c]].email,
                          drops |-> FALSE]
                    ELSE call[c]]
  BY <1>1
<1>3. \A c \in D : carried[c] \in S
  BY DEF Bijection, Injection, Surjection, IsInjective
<1>. QED
  BY <1>2, <1>3

-----------------------------------------------------------------------------
(* Every step keeps the promises. *)

\* A new message is not yet cancelled or promoted.
LEMMA SendKeepsPromise ==
    ASSUME TypeOK, PromiseInv, NEW p \in Procs, NEW client \in Clients,
           NEW S \in SUBSET Messages,
           sendEmail(p, client, S) \/ sendEmailUnread(p, client, S)
    PROVE  PromiseInv'
<1>1. stored' = stored \cup S /\ UNCHANGED <<row, job, asked>>
  BY DEF sendEmail, sendEmailUnread
<1>2. \A m \in Messages : Justified(m)'
  BY <1>1 DEF PromiseInv, Justified
<1>3. \A d \in Calls : call'[d] = call[d] \/ Entitled(call[d])'
  <2>1. CASE sendEmail(p, client, S)
    <3>1. \A d \in Calls : \/ call'[d] = call[d]
                           \/ /\ call'[d].at = "add" /\ call'[d].m \in S
      BY <2>1, StartCalls DEF sendEmail
    <3>. QED
      BY <1>1, <3>1 DEF Entitled
  <2>2. CASE sendEmailUnread(p, client, S)
    BY <2>2 DEF sendEmailUnread
  <2>. QED
    BY <2>1, <2>2
<1>. QED
  BY <1>1, <1>2, <1>3, PromiseKept

\* A request is noted before anything is done for it.
LEMMA RequestKeepsPromise ==
    ASSUME TypeOK, PromiseInv, NEW p \in Procs, NEW client \in Clients,
           NEW S \in SUBSET Messages,
           NEW kind \in {"cancel", "bulkCancel", "promote", "bulkPromote"}, NEW op,
           op = IF kind \in {"cancel", "bulkCancel"} THEN "cancel" ELSE "promote",
           kind = "bulkPromote" => \A m \in S : Owner[m] = client,
           Request(kind, op, p, client, S)
    PROVE  PromiseInv'
<1>1. S \subseteq stored /\ UNCHANGED <<stored, row, job>>
  BY DEF Request
<1>2. \A m \in Messages : /\ asked[m] \subseteq asked'[m]
                          /\ m \in S /\ Owner[m] = client => op \in asked'[m]
  BY DEF Request
<1>3. \A m \in Messages : Justified(m)'
  BY <1>1, <1>2 DEF PromiseInv, Justified
<1>4. \A d \in Calls : \/ call'[d] = call[d]
                       \/ /\ call'[d].at = "getJob" /\ call'[d].kind = kind
                          /\ call'[d].by = client /\ call'[d].m \in S
  BY StartCalls DEF Request
<1>5. ASSUME NEW d \in Calls, call'[d].at = "getJob", call'[d].kind = kind,
             call'[d].by = client, call'[d].m \in S
      PROVE  Entitled(call[d])'
  <2>1. call'[d].m \in stored' /\ Purpose(call'[d]) = op
    BY <1>1, <1>5 DEF Purpose, IsCancel
  <2>2. MayTouch(call'[d]) \/ kind = "bulkPromote" => op \in asked'[call'[d].m]
    BY <1>2, <1>5 DEF MayTouch
  <2>. QED
    BY <1>5, <2>1, <2>2 DEF Entitled, MayTouch, Purpose, IsCancel
<1>. QED
  BY <1>1, <1>2, <1>3, <1>4, <1>5, PromiseKept

\* A status update that commits records what its call may.
LEMMA RecordKeepsJustified ==
    ASSUME TypeOK, PromiseInv, UNCHANGED <<stored, job, asked>>,
           NEW c \in Calls, call[c] # Idle, call[c].at \in UpdateSteps,
           row' = [row EXCEPT ![call[c].m] = Recorded(call[c])]
    PROVE  \A m \in Messages : Justified(m)'
<1>. DEFINE k == call[c]
            q == StateRecordedAt[k.at]
<1>1. k \in Call /\ k.m \in Messages /\ row[k.m] \in Row
  BY Busy DEF TypeOK, CallsOK
<1>2. Recorded(k).queueHistory = row[k.m].queueHistory \cup {q}
  BY <1>1 DEF Recorded, updateStatus, Row
<1>3. /\ q = "removed" => k.at = "removed"
      /\ q = "promoted" => k.at \in {"promoted", "recovered"}
  BY DEF StateRecordedAt, UpdateSteps
<1>4. Entitled(k) /\ Justified(k.m)
  BY <1>1 DEF PromiseInv
<1>5. /\ k.m \in stored
      /\ "removed" \in Recorded(k).queueHistory => "cancel" \in asked[k.m]
      /\ "promoted" \in Recorded(k).queueHistory => "promote" \in asked[k.m]
  BY <1>2, <1>3, <1>4 DEF Entitled, Justified
<1>6. \A m \in Messages : row'[m] = IF m = k.m THEN Recorded(k) ELSE row[m]
  BY <1>1 DEF TypeOK
<1>. QED
  BY <1>4, <1>5, <1>6 DEF PromiseInv, Justified

\* Saving the send result and dropping the email record no queue status.
LEMMA PatchKeepsJustified ==
    ASSUME TypeOK, PromiseInv, UNCHANGED <<stored, job, asked>>,
           NEW c \in Calls, call[c] # Idle,
           \/ row' = [row EXCEPT ![call[c].m] = updateMessageSendResult(@)]
           \/ row' = [row EXCEPT ![call[c].m] = deleteMessageEmail(@)]
    PROVE  \A m \in Messages : Justified(m)'
<1>. DEFINE k == call[c]
<1>1. k.m \in Messages /\ k.m \in stored /\ row[k.m] \in Row
  BY Busy DEF TypeOK, CallsOK, PromiseInv, Entitled
<1>2. /\ updateMessageSendResult(row[k.m]).queueHistory = row[k.m].queueHistory
      /\ deleteMessageEmail(row[k.m]).queueHistory = row[k.m].queueHistory
  BY <1>1 DEF updateMessageSendResult, deleteMessageEmail, Row
<1>3. \A m \in Messages : /\ row'[m].queueHistory = row[m].queueHistory
                          /\ m # k.m => row'[m] = row[m]
  BY <1>1, <1>2 DEF TypeOK
<1>. QED
  BY <1>1, <1>3 DEF PromiseInv, Justified

\* What a call does when nothing goes wrong with it.
LEMMA ProceedKeepsPromise ==
    ASSUME TypeOK, PromiseInv, NEW c \in Calls, Proceed(c)
    PROVE  PromiseInv'
<1>. DEFINE k == call[c]
            m == call[c].m
<1>1. /\ k # Idle /\ UNCHANGED <<stored, asked>>
  BY DEF Proceed, At, AtUpdate, Add, GetJob, GetState, Remove, Promote, Recover,
         ReadStatus, WriteStatus, Purge, Load, Send, SaveResult, Finish, Fail
<1>2. k \in Call /\ m \in Messages /\ m \in stored /\ Entitled(k)
  BY <1>1, Busy DEF TypeOK, CallsOK, PromiseInv, Entitled
<1>3. \A n \in Messages : asked[n] \subseteq asked'[n]
  BY <1>1
<1>4. ASSUME NEW step, Goto(c, step), step \notin OwnerSteps
      PROVE  \A d \in Calls : call'[d] = call[d] \/ Entitled(call[d])'
  BY <1>1, <1>4, EntitledGoto DEF OwnerSteps
<1>5. ASSUME NEW j, job' = [job EXCEPT ![m] = j]
      PROVE  \A n \in Messages :
                job[n].state = "none" => (job'[n].state = "none" \/ n \in stored)
  BY <1>2, <1>5 DEF TypeOK
<1>6. CASE Add(c)
  <2>1. PICK j : job' = [job EXCEPT ![m] = j]
    BY <1>6 DEF Add
  <2>2. \A d \in Calls : call'[d] = call[d] \/ Entitled(call[d])'
    BY <1>4, <1>6 DEF Add, OwnerSteps
  <2>. QED
    BY <1>1, <1>5, <1>6, <2>1, <2>2, PlainStep DEF Add
<1>7. CASE GetJob(c)
  <2>1. k.at = "getJob" /\ UNCHANGED <<row, job>>
    BY <1>7 DEF GetJob, At
  <2>2. MayTouch(k) \/ k.kind = "bulkPromote" => Purpose(k) \in asked[m]
    BY <1>1, <1>2, <2>1 DEF Entitled
  <2>3. CASE job[m].state # "none" /\ MayTouch(k)
    <3>1. call' = [call EXCEPT ![c].at = "getState",
                               ![c].drops = DropsContent(job[m])]
      BY <1>7, <2>3 DEF GetJob
    <3>2. /\ call'[c].m = m /\ call'[c].at = "getState" /\ call'[c].kind = k.kind
          /\ \A d \in Calls : d # c => call'[d] = call[d]
      BY <1>2, <3>1 DEF TypeOK, Call
    <3>3. Entitled(call[c])'
      BY <1>1, <1>2, <2>2, <2>3, <3>2 DEF Entitled, Purpose, IsCancel
    <3>. QED
      BY <1>1, <2>1, <3>2, <3>3, PlainStep
  <2>4. CASE job[m].state # "none" /\ ~MayTouch(k)
    BY <1>1, <1>7, <2>1, <2>4, EntitledReject, PlainStep DEF GetJob
  <2>5. CASE job[m].state = "none"
    <3>1. PICK step \in {"recover", "recovered", "idle"} :
             /\ Goto(c, step)
             /\ step # "idle" => "promote" \in asked[m]
      BY <1>7, <2>2, <2>5 DEF GetJob, Purpose, IsCancel
    <3>2. \A d \in Calls : call'[d] = call[d] \/ Entitled(call[d])'
      BY <1>1, <3>1, EntitledGoto
    <3>. QED
      BY <1>1, <2>1, <3>2, PlainStep
  <2>. QED
    BY <2>3, <2>4, <2>5
<1>8. CASE GetState(c)
  <2>1. Purpose(k) \in asked[m]
    BY <1>1, <1>2, <1>8 DEF GetState, At, Entitled
  <2>2. UNCHANGED <<row, job>>
    BY <1>8 DEF GetState
  <2>3. CASE job[m].state = "delayed"
    <3>1. PICK step \in {"remove", "promote"} :
             /\ Goto(c, step)
             /\ step = "remove" => "cancel" \in asked[m]
             /\ step = "promote" => "promote" \in asked[m]
      BY <1>8, <2>1, <2>3 DEF GetState, Purpose
    <3>2. \A d \in Calls : call'[d] = call[d] \/ Entitled(call[d])'
      BY <1>1, <3>1, EntitledGoto
    <3>. QED
      BY <1>1, <2>2, <3>2, PlainStep
  <2>4. CASE job[m].state # "delayed"
    BY <1>1, <1>8, <2>2, <2>4, EntitledReject, PlainStep DEF GetState
  <2>. QED
    BY <2>3, <2>4
<1>9. CASE Remove(c)
  <2>1. "cancel" \in asked[m] /\ UNCHANGED row
    BY <1>1, <1>2, <1>9 DEF Remove, At, Entitled
  <2>2. \A n \in Messages :
           job[n].state = "none" => (job'[n].state = "none" \/ n \in stored)
    BY <1>5, <1>9 DEF Remove
  <2>3. \A d \in Calls : call'[d] = call[d] \/ Entitled(call[d])'
    <3>1. CASE Goto(c, "removed")
      BY <1>1, <2>1, <3>1, EntitledGoto
    <3>2. CASE Rejects(c)
      BY <1>1, <3>2, EntitledReject
    <3>. QED
      BY <1>9, <3>1, <3>2 DEF Remove
  <2>. QED
    BY <1>1, <2>1, <2>2, <2>3, PlainStep
<1>10. CASE Promote(c)
  <2>1. "promote" \in asked[m] /\ UNCHANGED row
    BY <1>1, <1>2, <1>10 DEF Promote, At, Entitled
  <2>2. \A n \in Messages :
           job[n].state = "none" => (job'[n].state = "none" \/ n \in stored)
    BY <1>5, <1>10 DEF Promote
  <2>3. \A d \in Calls : call'[d] = call[d] \/ Entitled(call[d])'
    <3>1. CASE Goto(c, "promoted")
      BY <1>1, <2>1, <3>1, EntitledGoto
    <3>2. CASE Rejects(c)
      BY <1>1, <3>2, EntitledReject
    <3>. QED
      BY <1>10, <3>1, <3>2 DEF Promote
  <2>. QED
    BY <1>1, <2>1, <2>2, <2>3, PlainStep
<1>11. CASE Recover(c)
  <2>1. "promote" \in asked[m] /\ UNCHANGED <<row, job>>
    BY <1>1, <1>2, <1>11 DEF Recover, At, Entitled
  <2>2. PICK step \in {"recovered", "idle"} : Goto(c, step)
    BY <1>11 DEF Recover
  <2>3. \A d \in Calls : call'[d] = call[d] \/ Entitled(call[d])'
    BY <1>1, <2>1, <2>2, EntitledGoto
  <2>. QED
    BY <1>1, <2>1, <2>3, PlainStep
<1>12. CASE ReadStatus(c)
  <2>1. /\ call' = [call EXCEPT ![c].seen = readMessage(row[m])]
        /\ k.at \in UpdateSteps /\ UNCHANGED <<row, job>>
    BY <1>12 DEF ReadStatus, AtUpdate
  <2>2. /\ call'[c].m = m /\ call'[c].at = k.at /\ call'[c].kind = k.kind
        /\ \A d \in Calls : d # c => call'[d] = call[d]
    BY <1>2, <2>1 DEF TypeOK, Call
  <2>3. Entitled(call[c])'
    BY <1>1, <1>2, <2>1, <2>2 DEF Entitled, UpdateSteps
  <2>. QED
    BY <1>1, <2>1, <2>2, <2>3, PlainStep
<1>13. CASE WriteStatus(c)
  <2>1. /\ k.at \in UpdateSteps /\ UNCHANGED job
        /\ row' = [row EXCEPT ![m] = Recorded(k)]
        /\ Goto(c, StepAfter(k))
    BY <1>13 DEF WriteStatus, AtUpdate
  <2>2. \A n \in Messages : Justified(n)'
    BY <1>1, <2>1, RecordKeepsJustified
  <2>3. StepAfter(k) \notin OwnerSteps
    BY DEF StepAfter, OwnerSteps
  <2>4. \A d \in Calls : call'[d] = call[d] \/ Entitled(call[d])'
    BY <1>4, <2>1, <2>3
  <2>. QED
    BY <1>1, <1>3, <2>2, <2>4, PromiseKept
<1>14. CASE Purge(c) \/ SaveResult(c)
  <2>1. \A n \in Messages : Justified(n)'
    BY <1>1, <1>14, PatchKeepsJustified DEF Purge, SaveResult
  <2>2. \A d \in Calls : call'[d] = call[d] \/ Entitled(call[d])'
    BY <1>4, <1>14 DEF Purge, SaveResult, OwnerSteps
  <2>. QED
    BY <1>1, <1>3, <2>1, <2>2, PromiseKept
<1>15. CASE Load(c) \/ Send(c)
  <2>1. UNCHANGED <<row, job>>
    BY <1>15 DEF Load, Send
  <2>2. \/ Goto(c, "send") \/ Goto(c, "result") \/ Rejects(c)
    BY <1>15 DEF Load, Send
  <2>3. \A d \in Calls : call'[d] = call[d] \/ Entitled(call[d])'
    BY <1>1, <1>4, <2>2, EntitledReject DEF OwnerSteps
  <2>. QED
    BY <1>1, <2>1, <2>3, PlainStep
<1>16. CASE Finish(c)
  <2>1. CASE HoldsLock(k)
    <3>1. /\ call' = [call EXCEPT ![c].at = "completed",
                                  ![c].drops = DropsContent(job[m])]
          /\ job' = [job EXCEPT ![m] = NoJob] /\ UNCHANGED row
      BY <1>16, <2>1 DEF Finish
    <3>2. /\ call'[c].m = m /\ call'[c].at = "completed"
          /\ \A d \in Calls : d # c => call'[d] = call[d]
      BY <1>2, <3>1 DEF TypeOK, Call
    <3>3. Entitled(call[c])'
      BY <1>1, <1>2, <3>2 DEF Entitled
    <3>. QED
      BY <1>1, <1>5, <3>1, <3>2, <3>3, PlainStep
  <2>2. CASE ~HoldsLock(k)
    <3>1. \A d \in Calls : call'[d] = call[d] \/ Entitled(call[d])'
      BY <1>4, <1>16, <2>2 DEF Finish, OwnerSteps
    <3>. QED
      BY <1>1, <1>16, <2>2, <3>1, PlainStep DEF Finish
  <2>. QED
    BY <2>1, <2>2
<1>17. CASE Fail(c)
  <2>1. \A d \in Calls : call'[d] = call[d] \/ Entitled(call[d])'
    BY <1>4, <1>17 DEF Fail, OwnerSteps
  <2>2. \A n \in Messages :
           job[n].state = "none" => (job'[n].state = "none" \/ n \in stored)
    BY <1>5, <1>17 DEF Fail
  <2>. QED
    BY <1>1, <1>17, <2>1, <2>2, PlainStep DEF Fail
<1>. QED
  BY <1>6, <1>7, <1>8, <1>9, <1>10, <1>11, <1>12, <1>13, <1>14, <1>15, <1>16, <1>17
     DEF Proceed

\* What a call does when an operation fails.
LEMMA FailureKeepsPromise ==
    ASSUME TypeOK, PromiseInv, NEW c \in Calls,
           SendUnanswered(c) \/ OperationFails(c) \/ ReadBackFails(c)
    PROVE  PromiseInv'
<1>1. /\ call[c] # Idle /\ Rejects(c) /\ UNCHANGED <<stored, job, asked>>
  BY DEF SendUnanswered, OperationFails, ReadBackFails, At
<1>2. \A d \in Calls : call'[d] = call[d] \/ Entitled(call[d])'
  BY <1>1, EntitledReject
<1>3. CASE SendUnanswered(c) \/ OperationFails(c)
  BY <1>1, <1>2, <1>3, PlainStep DEF SendUnanswered, OperationFails
<1>4. CASE ReadBackFails(c)
  <2>1. \A m \in Messages : Justified(m)'
    BY <1>1, <1>4, RecordKeepsJustified, PatchKeepsJustified DEF ReadBackFails
  <2>2. \A m \in Messages : asked[m] \subseteq asked'[m]
    BY <1>1
  <2>. QED
    BY <1>1, <1>2, <2>1, <2>2, PromiseKept
<1>. QED
  BY <1>3, <1>4

\* The queue touches only jobs that are there, and those are of stored messages.
LEMMA QueueKeepsPromise ==
    ASSUME TypeOK, PromiseInv, NEW m \in Messages,
           \/ \E c \in Calls, p \in Procs : Take(c, p, m) \/ StalledTooOften(c, p, m)
           \/ \E p \in Procs : Requeue(p, m)
           \/ DelayExpires(m) \/ LockLapses(m) \/ JobLost(m)
    PROVE  PromiseInv'
<1>1. ASSUME NEW j, job' = [job EXCEPT ![m] = j],
             job[m].state # "none" \/ j.state = job[m].state
      PROVE  \A n \in Messages :
                job[n].state = "none" => (job'[n].state = "none" \/ n \in stored)
  BY <1>1 DEF TypeOK
<1>2. job[m].state # "none" => m \in stored
  BY DEF PromiseInv, Justified
<1>3. ASSUME NEW c \in Calls, NEW p \in Procs,
             Take(c, p, m) \/ StalledTooOften(c, p, m)
      PROVE  PromiseInv'
  <2>1. job[m].state # "none" /\ UNCHANGED <<stored, row, asked>>
    BY <1>3 DEF Take, StalledTooOften, Stalled
  <2>2. \A n \in Messages :
           job[n].state = "none" => (job'[n].state = "none" \/ n \in stored)
    BY <1>1, <1>3, <2>1 DEF Take, StalledTooOften
  <2>3. PICK step \in {"processing", "failed"} :
           call' = [call EXCEPT ![c] =
                      [at |-> step, kind |-> "work", m |-> m,
                       by |-> Owner[m], proc |-> p, seen |-> NoSnapshot,
                       content |-> FALSE, drops |-> FALSE]]
    BY <1>3 DEF Take, StalledTooOften
  <2>4. /\ call'[c].m = m /\ call'[c].at = step
        /\ \A d \in Calls : d # c => call'[d] = call[d]
    BY <2>3 DEF TypeOK
  <2>5. Entitled(call[c])'
    BY <1>2, <2>1, <2>4 DEF Entitled
  <2>. QED
    BY <2>1, <2>2, <2>4, <2>5, PlainStep
<1>4. ASSUME NEW p \in Procs, Requeue(p, m)
      PROVE  PromiseInv'
  <2>1. job[m].state # "none" /\ UNCHANGED <<stored, row, asked, call>>
    BY <1>4 DEF Requeue, Stalled
  <2>2. \A n \in Messages :
           job[n].state = "none" => (job'[n].state = "none" \/ n \in stored)
    BY <1>1, <1>4, <2>1 DEF Requeue
  <2>. QED
    BY <2>1, <2>2, PlainStep
<1>5. CASE DelayExpires(m)
  <2>1. job[m].state # "none" /\ UNCHANGED <<stored, row, asked, call>>
    BY <1>5 DEF DelayExpires
  <2>2. \A n \in Messages :
           job[n].state = "none" => (job'[n].state = "none" \/ n \in stored)
    BY <1>1, <1>5, <2>1 DEF DelayExpires
  <2>. QED
    BY <2>1, <2>2, PlainStep
<1>6. CASE LockLapses(m)
  <2>1. job[m] \in Job
    BY DEF TypeOK
  <2>2. [job[m] EXCEPT !.lock = NoProc].state = job[m].state
    BY <2>1 DEF Job
  <2>3. job' = [job EXCEPT ![m] = [job[m] EXCEPT !.lock = NoProc]]
    BY <1>6 DEF LockLapses
  <2>4. \A n \in Messages :
           job[n].state = "none" => (job'[n].state = "none" \/ n \in stored)
    BY <1>1, <2>2, <2>3
  <2>. QED
    BY <1>6, <2>4, PlainStep DEF LockLapses
<1>7. CASE JobLost(m)
  <2>1. \A n \in Messages :
           job[n].state = "none" => (job'[n].state = "none" \/ n \in stored)
    BY <1>7 DEF JobLost, NoJob, TypeOK
  <2>. QED
    BY <1>7, <2>1, PlainStep DEF JobLost
<1>. QED
  BY <1>3, <1>4, <1>5, <1>6, <1>7

\* A process that ends takes its calls with it.
LEMMA ProcessKeepsPromise ==
    ASSUME TypeOK, PromiseInv, NEW p \in Procs,
           Crash(p) \/ Terminate(p) \/ Exit(p) \/ Restart(p)
    PROVE  PromiseInv'
<1>1. UNCHANGED <<stored, row, asked>>
  BY DEF Crash, Terminate, Exit, Restart
<1>2. CASE Dies(p)
  <2>1. \A m \in Messages : job[m] \in Job
    BY DEF TypeOK
  <2>2. \A m \in Messages : job'[m].state = job[m].state
    BY <1>2, <2>1 DEF Dies, Job
  <2>3. \A d \in Calls : call'[d] = call[d] \/ call'[d] = Idle
    BY <1>2 DEF Dies
  <2>. QED
    BY <1>1, <2>2, <2>3, PlainStep DEF Entitled
<1>3. CASE UNCHANGED <<job, call>>
  BY <1>1, <1>3, PlainStep
<1>. QED
  BY <1>2, <1>3 DEF Crash, Terminate, Exit, Restart

\* Every step does.
LEMMA PromiseStep == TypeOK /\ PromiseInv /\ [Next]_vars => PromiseInv'
<1>. SUFFICES ASSUME TypeOK, PromiseInv, [Next]_vars
              PROVE  PromiseInv'
  OBVIOUS
<1>1. ASSUME NEW p \in Procs, NEW client \in Clients, NEW S \in SUBSET Messages,
             sendEmail(p, client, S) \/ sendEmailUnread(p, client, S)
      PROVE  PromiseInv'
  BY <1>1, SendKeepsPromise
<1>2. ASSUME NEW p \in Procs, NEW client \in Clients, NEW S \in SUBSET Messages,
             findCancelMessages(p, client, S) \/ findPromoteMessages(p, client, S)
      PROVE  PromiseInv'
  BY <1>2, RequestKeepsPromise DEF findCancelMessages, findPromoteMessages
<1>3. ASSUME NEW p \in Procs, NEW client \in Clients, NEW m \in Messages,
             cancelMessage(p, client, m) \/ promoteMessage(p, client, m)
      PROVE  PromiseInv'
  <2>1. {m} \in SUBSET Messages
    OBVIOUS
  <2>. QED
    BY <1>3, <2>1, RequestKeepsPromise DEF cancelMessage, promoteMessage
<1>4. ASSUME NEW c \in Calls,
             Proceed(c) \/ SendUnanswered(c) \/ OperationFails(c) \/ ReadBackFails(c)
      PROVE  PromiseInv'
  BY <1>4, ProceedKeepsPromise, FailureKeepsPromise
<1>5. ASSUME NEW c \in Calls, NEW p \in Procs, NEW m \in Messages,
             Take(c, p, m) \/ StalledTooOften(c, p, m)
      PROVE  PromiseInv'
  BY <1>5, QueueKeepsPromise
<1>6. ASSUME NEW m \in Messages,
             \/ \E p \in Procs : Requeue(p, m)
             \/ DelayExpires(m) \/ LockLapses(m) \/ JobLost(m)
      PROVE  PromiseInv'
  BY <1>6, QueueKeepsPromise
<1>7. ASSUME NEW p \in Procs, Crash(p) \/ Terminate(p) \/ Exit(p) \/ Restart(p)
      PROVE  PromiseInv'
  BY <1>7, ProcessKeepsPromise
<1>8. CASE UNCHANGED vars
  BY <1>8, PlainStep DEF vars
<1>. QED
  BY <1>1, <1>2, <1>3, <1>4, <1>5, <1>6, <1>7, <1>8 DEF Next

\* The invariant holds initially.
LEMMA PromiseInit == Init => PromiseInv
BY DEF Init, PromiseInv, Justified, Entitled, NewMessage, NoJob

\* Whatever operations in progress rely on, and every queue record of a
\* cancellation or a promotion, was asked for by the owner of the message.
THEOREM PromisesSound == Spec => []PromiseInv
<1>1. Spec => [](TypeOK /\ PromiseInv)
  BY TypeInit, TypeStep, PromiseInit, PromiseStep, PTL DEF Spec
<1>. QED
  BY <1>1, PTL

\* No client can cancel or promote what another client sent, however its
\* requests interleave with the queue and its failures.
THEOREM OwnerCorrect == Spec => []OnlyTheOwner
<1>1. TypeOK /\ PromiseInv => OnlyTheOwner
  BY DEF TypeOK, PromiseInv, Justified, OnlyTheOwner
<1>. QED
  BY <1>1, TypeCorrect, PromisesSound, PTL

-----------------------------------------------------------------------------
(* The refinement: which step of MailDelivery each step amounts to. *)

DeliveryStep == [Delivery!Next]_(Delivery!vars)

\* A step that changes neither rows nor requests stutters.
LEMMA Stutter == UNCHANGED <<stored, row, asked>> => DeliveryStep
BY DEF DeliveryStep, Delivery!vars

\* What happens to one message is a step.
LEMMA OneMessage ==
    ASSUME NEW m \in Messages,
           \/ Delivery!Deliver(m) \/ Delivery!Complete(m)
           \/ Delivery!Cancel(m) \/ Delivery!Discard(m)
    PROVE  DeliveryStep
BY DEF DeliveryStep, Delivery!Next

\* Storing messages accepts them: no row says anything of them before.
LEMMA SendDelivers ==
    ASSUME TypeOK, PromiseInv, NEW p \in Procs, NEW client \in Clients,
           NEW S \in SUBSET Messages,
           sendEmail(p, client, S) \/ sendEmailUnread(p, client, S)
    PROVE  DeliveryStep
<1>1. /\ S \cap stored = {} /\ stored' = stored \cup S
      /\ UNCHANGED <<row, asked>>
  BY DEF sendEmail, sendEmailUnread
<1>2. \A m \in S : row[m] = NewMessage
  BY <1>1 DEF PromiseInv, Justified
<1>3. \A m \in S : /\ row[m].email /\ ~row[m].sendResult
                   /\ row[m].statusHistory = {"accepted"}
  BY <1>2 DEF NewMessage
<1>4. Delivery!Accept(S)
  BY <1>1, <1>3 DEF Delivery!Accept
<1>. QED
  BY <1>4 DEF DeliveryStep, Delivery!Next

\* A request asks for the messages that are the client's.
LEMMA RequestDelivers ==
    ASSUME TypeOK, NEW p \in Procs, NEW client \in Clients,
           NEW S \in SUBSET Messages, NEW kind, NEW op \in {"cancel", "promote"},
           Request(kind, op, p, client, S)
    PROVE  DeliveryStep
<1>. DEFINE own == {m \in S : Owner[m] = client}
<1>1. /\ own \subseteq stored
      /\ asked' = [m \in Messages |->
                     IF m \in own THEN asked[m] \cup {op} ELSE asked[m]]
      /\ UNCHANGED <<stored, row>>
  BY DEF Request
<1>2. own \in SUBSET Messages
  OBVIOUS
<1>. HIDE DEF own
<1>3. Delivery!Ask(own, op)
  BY <1>1 DEF Delivery!Ask
<1>4. Delivery!Next
  BY <1>2, <1>3 DEF Delivery!Next
<1>. QED
  BY <1>4 DEF DeliveryStep

\* A status update that adds a business status to the history completes,
\* cancels or does nothing.
LEMMA StatusDelivers ==
    ASSUME TypeOK, UNCHANGED <<stored, asked>>, NEW m \in stored, NEW r, NEW b,
           row' = [row EXCEPT ![m] = r],
           r.email = row[m].email, r.sendResult = row[m].sendResult,
           r.statusHistory = row[m].statusHistory \cup {b},
           b = "completed" => row[m].sendResult,
           b = "cancelled" => "cancel" \in asked[m]
    PROVE  DeliveryStep
<1>1. m \in Messages /\ stored \subseteq Messages
  BY DEF TypeOK
<1>2. \A n \in stored : row'[n] = IF n = m THEN r ELSE row[n]
  BY <1>1 DEF TypeOK
<1>3. \A n \in stored : /\ row'[n].email = row[n].email
                        /\ row'[n].sendResult = row[n].sendResult
  BY <1>2
<1>4. {n \in stored : row'[n].email} = {n \in stored : row[n].email}
  BY <1>3
<1>5. {n \in stored : row'[n].sendResult} = {n \in stored : row[n].sendResult}
  BY <1>3
<1>6. \A s \in {"completed", "cancelled"} :
         {n \in stored : s \in row'[n].statusHistory}
            = {n \in stored : s \in row[n].statusHistory}
                 \cup (IF b = s THEN {m} ELSE {})
  BY <1>2
<1>7. CASE b = "completed"
  <2>1. Delivery!Complete(m)
    BY <1>4, <1>5, <1>6, <1>7 DEF Delivery!Complete
  <2>. QED
    BY <1>1, <2>1, OneMessage
<1>8. CASE b = "cancelled"
  <2>1. Delivery!Cancel(m)
    BY <1>4, <1>5, <1>6, <1>8 DEF Delivery!Cancel
  <2>. QED
    BY <1>1, <2>1, OneMessage
<1>9. CASE b \notin {"completed", "cancelled"}
  <2>1. UNCHANGED Delivery!vars
    BY <1>4, <1>5, <1>6, <1>9 DEF Delivery!vars
  <2>. QED
    BY <2>1 DEF DeliveryStep
<1>. QED
  BY <1>7, <1>8, <1>9

\* What a call writes when its status update commits.
LEMMA RecordDelivers ==
    ASSUME TypeOK, RecordInv, PromiseInv, UNCHANGED <<stored, asked>>,
           NEW c \in Calls, call[c] # Idle, call[c].at \in UpdateSteps,
           call[c].seen.taken,
           row' = [row EXCEPT ![call[c].m] = Recorded(call[c])]
    PROVE  DeliveryStep
<1>. DEFINE k == call[c]
            m == call[c].m
            q == StateRecordedAt[k.at]
            b == queueToStatus(q)
<1>1. /\ k \in Call /\ m \in Messages /\ m \in stored /\ row[m] \in Row
      /\ Entitled(k) /\ Knows(k)
  BY Busy DEF TypeOK, CallsOK, PromiseInv, RecordInv, Entitled
<1>2. k.seen \in Snapshot /\ k.seen.status \in row[m].statusHistory
  BY <1>1 DEF Call, NoSnapshot, Knows
<1>3. q \in QueueState
  BY DEF StateRecordedAt, UpdateSteps, QueueState
<1>4. b = "completed" => k.at = "completed"
  BY <1>3, CompletedOnly DEF StateRecordedAt, UpdateSteps
<1>5. b = "cancelled" => k.at = "removed"
  BY DEF StateRecordedAt, UpdateSteps, queueToStatus
<1>6. b = "completed" => row[m].sendResult
  BY <1>1, <1>4 DEF Knows
<1>7. b = "cancelled" => "cancel" \in asked[m]
  BY <1>1, <1>5 DEF Entitled
<1>8. Recorded(k) = updateStatus(row[m], k.seen, q)
  BY DEF Recorded
<1>. HIDE DEF q
<1>9. /\ Recorded(k).statusHistory = row[m].statusHistory \cup {b}
      /\ Recorded(k).email = row[m].email
      /\ Recorded(k).sendResult = row[m].sendResult
  BY <1>1, <1>2, <1>3, <1>8, UpdateAdds
<1>. HIDE DEF b
<1>. QED
  BY <1>1, <1>6, <1>7, <1>9, StatusDelivers

\* The mail server's receipt is delivered, an email is discarded after its
\* completion or cancellation.
LEMMA PatchDelivers ==
    ASSUME TypeOK, RecordInv, PromiseInv, UNCHANGED <<stored, asked>>,
           NEW c \in Calls, call[c] # Idle,
           \/ row' = [row EXCEPT ![call[c].m] = updateMessageSendResult(@)]
           \/ /\ call[c].at = "purge"
              /\ row' = [row EXCEPT ![call[c].m] = deleteMessageEmail(@)]
    PROVE  DeliveryStep
<1>1. PICK m \in Messages :
         /\ m = call[c].m /\ m \in stored /\ row[m] \in Row
         /\ stored \subseteq Messages
         /\ Knows(call[c])
  BY Busy DEF TypeOK, CallsOK, PromiseInv, RecordInv, Entitled
<1>2. CASE row' = [row EXCEPT ![m] = updateMessageSendResult(@)]
  <2>1. \A n \in stored :
           /\ row'[n].email = row[n].email
           /\ row'[n].statusHistory = row[n].statusHistory
           /\ row'[n].sendResult = (row[n].sendResult \/ n = m)
    BY <1>1, <1>2 DEF TypeOK, updateMessageSendResult, Row
  <2>2. Delivery!Deliver(m)
    BY <1>1, <2>1 DEF Delivery!Deliver
  <2>. QED
    BY <1>1, <2>2, OneMessage
<1>3. CASE /\ call[c].at = "purge"
           /\ row' = [row EXCEPT ![m] = deleteMessageEmail(@)]
  <2>1. \A n \in stored :
           /\ row'[n].email = (row[n].email /\ n # m)
           /\ row'[n].statusHistory = row[n].statusHistory
           /\ row'[n].sendResult = row[n].sendResult
    BY <1>1, <1>3 DEF TypeOK, deleteMessageEmail, Row
  <2>2. row[m].statusHistory \cap {"completed", "cancelled"} # {}
    BY <1>1, <1>3 DEF Knows
  <2>3. Delivery!Discard(m)
    BY <1>1, <2>1, <2>2 DEF Delivery!Discard
  <2>. QED
    BY <1>1, <2>3, OneMessage
<1>. QED
  BY <1>1, <1>2, <1>3

\* What a call does, with or without a failure.
LEMMA CallDelivers ==
    ASSUME TypeOK, RecordInv, PromiseInv, NEW c \in Calls,
           Proceed(c) \/ SendUnanswered(c) \/ OperationFails(c) \/ ReadBackFails(c)
    PROVE  DeliveryStep
<1>1. CASE WriteStatus(c)
  BY <1>1, RecordDelivers DEF WriteStatus, AtUpdate
<1>2. CASE Purge(c) \/ SaveResult(c)
  BY <1>2, PatchDelivers DEF Purge, SaveResult, At
<1>3. CASE ReadBackFails(c)
  BY <1>3, RecordDelivers, PatchDelivers DEF ReadBackFails
<1>4. CASE \/ Add(c) \/ GetJob(c) \/ GetState(c) \/ Remove(c) \/ Promote(c)
           \/ Recover(c) \/ ReadStatus(c) \/ Load(c) \/ Send(c) \/ Finish(c)
           \/ Fail(c) \/ SendUnanswered(c) \/ OperationFails(c)
  BY <1>4, Stutter DEF Add, GetJob, GetState, Remove, Promote, Recover, ReadStatus,
     Load, Send, Finish, Fail, SendUnanswered, OperationFails
<1>. QED
  BY <1>1, <1>2, <1>3, <1>4 DEF Proceed

\* Every step is one of MailDelivery's or none.
LEMMA StepDelivers == TypeOK /\ RecordInv /\ PromiseInv /\ [Next]_vars => DeliveryStep
<1>. SUFFICES ASSUME TypeOK, RecordInv, PromiseInv, [Next]_vars
              PROVE  DeliveryStep
  OBVIOUS
<1>1. ASSUME NEW p \in Procs, NEW client \in Clients, NEW S \in SUBSET Messages,
             \/ sendEmail(p, client, S) \/ sendEmailUnread(p, client, S)
             \/ findCancelMessages(p, client, S) \/ findPromoteMessages(p, client, S)
      PROVE  DeliveryStep
  BY <1>1, SendDelivers, RequestDelivers DEF findCancelMessages, findPromoteMessages
<1>2. ASSUME NEW p \in Procs, NEW client \in Clients, NEW m \in Messages,
             cancelMessage(p, client, m) \/ promoteMessage(p, client, m)
      PROVE  DeliveryStep
  <2>1. {m} \in SUBSET Messages
    OBVIOUS
  <2>. QED
    BY <1>2, <2>1, RequestDelivers DEF cancelMessage, promoteMessage
<1>3. ASSUME NEW c \in Calls, NEW p \in Procs, NEW m \in Messages,
             Take(c, p, m) \/ StalledTooOften(c, p, m)
      PROVE  DeliveryStep
  BY <1>3, Stutter DEF Take, StalledTooOften
<1>4. ASSUME NEW m \in Messages,
             \/ \E p \in Procs : Requeue(p, m)
             \/ DelayExpires(m) \/ LockLapses(m) \/ JobLost(m)
      PROVE  DeliveryStep
  BY <1>4, Stutter DEF Requeue, DelayExpires, LockLapses, JobLost
<1>5. ASSUME NEW p \in Procs, Crash(p) \/ Terminate(p) \/ Exit(p) \/ Restart(p)
      PROVE  DeliveryStep
  BY <1>5, Stutter DEF Crash, Terminate, Exit, Restart
<1>6. CASE UNCHANGED vars
  BY <1>6, Stutter DEF vars
<1>. QED
  BY <1>1, <1>2, <1>3, <1>4, <1>5, <1>6, CallDelivers DEF Next

\* Queue, workers, status updates, failures and crashes together keep what the
\* service promises the sender of a message.
THEOREM DispatchImplements == Spec => Implements
<1>1. Init => Delivery!Init
  BY DEF Init, Delivery!Init
<1>2. TypeOK /\ RecordInv /\ PromiseInv /\ [Next]_vars => [Delivery!Next]_(Delivery!vars)
  BY StepDelivers DEF DeliveryStep
<1>. QED
  BY <1>1, <1>2, TypeCorrect, RecordsSound, PromisesSound, PTL
     DEF Spec, Implements, Delivery!Spec

\* Each of those few steps keeps what a client may conclude, and erases nothing.
LEMMA DeliveryKeeps ==
    ASSUME stored \subseteq Messages, Delivery!Promised, [Delivery!Next]_(Delivery!vars)
    PROVE  Delivery!Promised' /\ [Delivery!ErasesNothing]_(Delivery!vars)
<1>. USE DEF Delivery!Promised, Delivery!ErasesNothing
<1>1. ASSUME NEW S \in SUBSET Messages, Delivery!Accept(S)
      PROVE  Delivery!Promised' /\ Delivery!ErasesNothing
  BY <1>1 DEF Delivery!Accept
<1>2. ASSUME NEW S \in SUBSET Messages, NEW op \in {"cancel", "promote"}, Delivery!Ask(S, op)
      PROVE  Delivery!Promised' /\ Delivery!ErasesNothing
  BY <1>2 DEF Delivery!Ask
<1>3. ASSUME NEW m \in Messages, Delivery!Deliver(m)
      PROVE  Delivery!Promised' /\ Delivery!ErasesNothing
  BY <1>3 DEF Delivery!Deliver
<1>4. ASSUME NEW m \in Messages, Delivery!Complete(m)
      PROVE  Delivery!Promised' /\ Delivery!ErasesNothing
  BY <1>4 DEF Delivery!Complete
<1>5. ASSUME NEW m \in Messages, Delivery!Cancel(m)
      PROVE  Delivery!Promised' /\ Delivery!ErasesNothing
  BY <1>5 DEF Delivery!Cancel
<1>6. ASSUME NEW m \in Messages, Delivery!Discard(m)
      PROVE  Delivery!Promised' /\ Delivery!ErasesNothing
  BY <1>6 DEF Delivery!Discard
<1>7. CASE UNCHANGED Delivery!vars
  BY <1>7 DEF Delivery!vars
<1>. QED
  BY <1>1, <1>2, <1>3, <1>4, <1>5, <1>6, <1>7 DEF Delivery!Next

\* What a client may conclude from the status history of a message at any time,
\* whatever races, failures and crashes wrote it, stays true: a completion means
\* a mail server's receipt, a cancellation the owner's request, neither of them
\* that the content is still held, and no entry is lost again.  It is not about
\* the message's status, which updateStatus may set back after a completion.
THEOREM ClientsConclude ==
    Spec => []Delivery!Promised /\ Delivery!NothingErased
<1>1. Delivery!Init => Delivery!Promised
  BY DEF Delivery!Init, Delivery!Promised
<1>2. TypeOK => stored \subseteq Messages
  BY DEF TypeOK
<1>3. TypeOK /\ Delivery!Promised /\ [Delivery!Next]_(Delivery!vars)
          => Delivery!Promised' /\ [Delivery!ErasesNothing]_(Delivery!vars)
  BY <1>2, DeliveryKeeps
<1>. QED
  BY <1>1, <1>3, TypeCorrect, DispatchImplements, PTL
     DEF Implements, Delivery!Spec, Delivery!NothingErased

=============================================================================
