--------------------------- MODULE MCMailDispatch ---------------------------
(***************************************************************************)
(* Small instances of MailDispatch for TLC.                                *)
(***************************************************************************)
EXTENDS MailDispatchClaims, TLC

CONSTANTS m1, m2, alice, bob

\* Every message is alice's; bob is a client who may try to touch it.
AliceOwns == [m \in Messages |-> alice]

\* Slots and replicas are interchangeable.  Messages and clients are not.
Symmetric == Permutations(Calls) \cup Permutations(Procs)

=============================================================================
