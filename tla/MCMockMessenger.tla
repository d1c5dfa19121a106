--------------------------- MODULE MCMockMessenger ---------------------------
(* An instance of MockMessenger for TLC. *)
EXTENDS MockMessenger, TLC

CONSTANTS a, b, i1, i2, i3, unknown

\* Two instances share node a, one has node b.
SharedNode == i1 :> a @@ i2 :> a @@ i3 :> b

\* Four messages: the second is malformed, the third for no configured node.
Targets == 0 :> a @@ 1 :> b @@ 2 :> unknown @@ 3 :> b
=============================================================================
