----------------------------- MODULE MCMessenger -----------------------------
(* Instances of Messenger for TLC. *)
EXTENDS Messenger, TLC

CONSTANTS a, b, i1, i2, i3

\* One instance per node.
TwoCallers == i1 :> a @@ i2 :> b

\* Two instances that share node identifier a, and one of node b.
SharedNode == i1 :> a @@ i2 :> a @@ i3 :> b

\* One instance.
OneCaller == i1 :> a
=============================================================================
