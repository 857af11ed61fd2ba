--------------------------- MODULE RequestValues ---------------------------
(***************************************************************************)
(* What a field of a request may hold, as far as anything in the service   *)
(* tells values apart.                                                     *)
(***************************************************************************)

CONSTANTS
    Tags        \* tags that are not blank

\* A field that is not in the request, one that is the empty string, and one
\* that is truthy and of no use: of the wrong type, blank, no uuid.
Absent == [is |-> "absent"]
Empty == [is |-> "empty"]
Malformed == [is |-> "malformed"]

Text(X) == [is: {"text"}, x: X]
Id(X) == [is: {"id"}, x: X, upper: BOOLEAN]

\* JavaScript's truthiness.
truthy(v) == v \notin {Absent, Empty}

=============================================================================
