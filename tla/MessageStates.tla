--------------------------- MODULE MessageStates ---------------------------
(***************************************************************************)
(* The two vocabularies of the service (src/app/src/components/state.js):  *)
(* what happened to a message in the queue, and what its sender is told.   *)
(***************************************************************************)

\* The values of the Queue table's status column.
QueueState == {"accepted", "completed", "delivered", "errored", "enqueued",
               "failed", "processing", "promoted", "removed"}

\* The values of the Status table's and of a message's status column.
StatusState == {"accepted", "cancelled", "completed", "failed", "pending"}

\* The business status of a queue status: most queue states are of no
\* interest to the sender and read "pending".
queueToStatus(q) ==
    CASE q = "accepted"  -> "accepted"
      [] q = "completed" -> "completed"
      [] q = "failed"    -> "failed"
      [] q = "removed"   -> "cancelled"
      [] OTHER           -> "pending"

=============================================================================
