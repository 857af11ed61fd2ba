---------------------------- MODULE MailDelivery ----------------------------
(***************************************************************************)
(* What the service promises the client who sent a message, without queue, *)
(* workers, replicas or statuses: an accepted message keeps its content    *)
(* until it is either completed, which takes a mail server's receipt, or   *)
(* cancelled, which takes the client's request.  All of this is about what *)
(* the status history of a message has on record, which only grows; the    *)
(* status of a message, the entry written last, may go back from completed *)
(* to an earlier one, and nothing is promised of it here.  MailDispatch    *)
(* implements this.                                                        *)
(***************************************************************************)
CONSTANT Messages

VARIABLES
    accepted,   \* what clients were told to be on its way, or was stored
    held,       \* the content still in the service's hands
    receipts,   \* a mail server took it
    completed,  \* has a completion in its status history
    cancelled,  \* has a cancellation in its status history
    asked       \* what their owners requested: to cancel, to promote

vars == <<accepted, held, receipts, completed, cancelled, asked>>

Init ==
    /\ accepted = {}
    /\ held = {}
    /\ receipts = {}
    /\ completed = {}
    /\ cancelled = {}
    /\ asked = [m \in Messages |-> {}]

Accept(S) ==
    /\ S \cap accepted = {}
    /\ accepted' = accepted \cup S
    /\ held' = held \cup S
    /\ UNCHANGED <<receipts, completed, cancelled, asked>>

Ask(S, op) ==
    /\ S \subseteq accepted
    /\ asked' = [m \in Messages |-> IF m \in S THEN asked[m] \cup {op} ELSE asked[m]]
    /\ UNCHANGED <<accepted, held, receipts, completed, cancelled>>

Deliver(m) ==
    /\ m \in accepted
    /\ receipts' = receipts \cup {m}
    /\ UNCHANGED <<accepted, held, completed, cancelled, asked>>

Complete(m) ==
    /\ m \in receipts
    /\ completed' = completed \cup {m}
    /\ UNCHANGED <<accepted, held, receipts, cancelled, asked>>

Cancel(m) ==
    /\ m \in accepted
    /\ "cancel" \in asked[m]
    /\ cancelled' = cancelled \cup {m}
    /\ UNCHANGED <<accepted, held, receipts, completed, asked>>

Discard(m) ==
    /\ m \in completed \cup cancelled
    /\ held' = held \ {m}
    /\ UNCHANGED <<accepted, receipts, completed, cancelled, asked>>

Next ==
    \/ \E S \in SUBSET Messages :
          Accept(S) \/ Ask(S, "cancel") \/ Ask(S, "promote")
    \/ \E m \in Messages : Deliver(m) \/ Complete(m) \/ Cancel(m) \/ Discard(m)

Spec == Init /\ [][Next]_vars

\* What a client may conclude from a status history: the service has the content
\* of what it accepted and neither completed nor cancelled, it completed nothing
\* that no mail server took, and cancelled nothing unasked.
Promised ==
    /\ held \subseteq accepted /\ accepted \subseteq held \cup completed \cup cancelled
    /\ completed \subseteq receipts /\ receipts \subseteq accepted
    /\ \A m \in cancelled : m \in accepted /\ "cancel" \in asked[m]

\* And no later history lacks what an earlier one had, no receipt is lost, and
\* content that was let go of does not come back.
ErasesNothing ==
    /\ accepted \subseteq accepted' /\ receipts \subseteq receipts'
    /\ completed \subseteq completed' /\ cancelled \subseteq cancelled'
    /\ \A m \in accepted : /\ asked[m] \subseteq asked'[m]
                          /\ m \in held' => m \in held

NothingErased == [][ErasesNothing]_vars

=============================================================================
