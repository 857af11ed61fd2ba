------------------------- MODULE MCMessageRequests -------------------------
(***************************************************************************)
(* A small instance of MessageRequests for TLC.                            *)
(***************************************************************************)
EXTENDS MessageRequests, TLC

\* Ids and clients are interchangeable.
Symmetric ==
    Permutations(Messages) \cup Permutations(Trxns) \cup Permutations(Clients)

=============================================================================
