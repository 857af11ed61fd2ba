------------------------- MODULE MailDispatchClaims -------------------------
(***************************************************************************)
(* What the repository's documents, comments and tests say of the dispatch *)
(* of messages, where MailDispatch shows that the code does otherwise.     *)
(***************************************************************************)
EXTENDS MailDispatch

Undisturbed == spent["fault"] + spent["lapse"] + spent["crash"] = 0

\* "COMPLETED - Message job finished executing - terminal state"
\* (components/state.js): unless promoted, a completed message stays completed.
CompletedIsTerminal ==
    [][\A m \in stored :
          row[m].status = "completed" /\ "promote" \notin asked[m] =>
              row'[m].status = "completed"]_vars

\* "should return nothing when there is a UncancellableError"
\* (tests/integration/chesSvc.spec.js), and the catch around removeJob in
\* findCancelMessages: messages that cannot be cancelled are passed over, and
\* the replica goes on serving.
BulkCancelKeepsServing ==
    Undisturbed => \A p \in Procs : mode[p] = "running"

=============================================================================
