---------------------------- MODULE MessageStore ----------------------------
(***************************************************************************)
(* A message as the Postgres tables hold it, and what each transaction of  *)
(* DataService (src/app/src/services/dataSvc.js) does to it.  The Message  *)
(* row gives status, email and sendResult; the Status and Queue rows that  *)
(* refer to it are its two histories, kept here as sets: no property asks  *)
(* how often a status was recorded.  Postgres runs the transactions at its *)
(* default isolation, READ COMMITTED, and none takes a row lock before it  *)
(* reads: a status update writes what an older read decided.               *)
(***************************************************************************)
EXTENDS MessageStates

\* email and sendResult are the columns' being non-null.
Row == [status: StatusState, email: BOOLEAN, sendResult: BOOLEAN,
        statusHistory: SUBSET StatusState, queueHistory: SUBSET QueueState]

\* What createMessage inserts; the three tables default their status column
\* to "accepted".
NewMessage == [status |-> "accepted", email |-> TRUE, sendResult |-> FALSE,
               statusHistory |-> {"accepted"}, queueHistory |-> {"accepted"}]

\* What updateStatus keeps of the row it read; NoSnapshot before it has.
Snapshot == [taken: {TRUE}, status: StatusState, sendResult: BOOLEAN]
NoSnapshot == [taken |-> FALSE]

readMessage(r) ==
    [taken |-> TRUE, status |-> r.status, sendResult |-> r.sendResult]

\* The callers that pass updateStatus a description: promotions give
\* 'Promotion requested' and onFailed the error's message.
HasDescription(q) == q \in {"failed", "promoted"}

\* The guard of the patch: once there is a send result, only COMPLETED.
MayPatch(seen, business) == ~seen.sendResult \/ business = "completed"

\* Mutated: the Status record is written only when the message is patched.
updateStatusUnreported(r, seen, q) ==
    LET business == queueToStatus(q)
        reported == HasDescription(q) \/ seen.status # business
        patched == reported /\ MayPatch(seen, business)
    IN  [r EXCEPT
           !.status = IF patched THEN business ELSE @,
           !.statusHistory = IF patched THEN @ \cup {business} ELSE @,
           !.queueHistory = @ \cup {q}]

\* The row after updateStatus commits q, having read seen.
updateStatus(r, seen, q) ==
    LET business == queueToStatus(q)
        reported == HasDescription(q) \/ seen.status # business
    IN  [r EXCEPT
           !.status = IF reported /\ MayPatch(seen, business) THEN business ELSE @,
           !.statusHistory = IF reported THEN @ \cup {business} ELSE @,
           !.queueHistory = @ \cup {q}]

updateMessageSendResult(r) == [r EXCEPT !.sendResult = TRUE]

deleteMessageEmail(r) == [r EXCEPT !.email = FALSE]

=============================================================================
