------------------------------ MODULE MCOutbound ------------------------------
(* Instances of Outbound for TLC. *)
EXTENDS Outbound, TLC

CONSTANTS p1, p2

\* How often each of two publishers calls Publish.
TwoAndOne == p1 :> 2 @@ p2 :> 1
=============================================================================
