------------------------------- MODULE MCApp -------------------------------
(* Instances of App for TLC. *)
EXTENDS App, TLC

CONSTANTS a, b, i1, i2

\* One instance.
OneInstance == i1 :> a

\* Two instances, each with a node of its own.
TwoInstances == i1 :> a @@ i2 :> b

\* Two instances that share a node identifier.
SharedNode == i1 :> a @@ i2 :> a

\* Bounds: how often the handler of each of two instances crashes, or a message
\* comes to it.
Once == i1 :> 1 @@ i2 :> 0
Twice == i1 :> 2 @@ i2 :> 0

\* The same for one instance.
OnceAlone == i1 :> 1
=============================================================================
