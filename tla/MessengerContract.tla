-------------------------- MODULE MessengerContract --------------------------
(***************************************************************************)
(* What a core.MessengerClient (internal/core/messenger.go) promises the   *)
(* node instances that subscribe through it, whatever carries the          *)
(* messages: which channel a subscriber gets, when that channel is closed, *)
(* and which messages reach it.  The MQTT messenger and the in-memory mock *)
(* are both shown to implement it.                                         *)
(***************************************************************************)
EXTENDS Integers, Sequences

CONSTANTS Nodes, Callers, NodeOf, NoChan, ChanCap

VARIABLES
  registry,   \* the channel registered for each node
  phase,      \* new, reading, removing (registration gone, close due), removed
  holds,      \* the channel a caller reads from, or has still to close
  shut,       \* closed channels
  inbox       \* messages buffered in each channel

cvars == <<registry, phase, holds, shut, inbox>>

ContractInit ==
  /\ registry = [n \in Nodes |-> NoChan]
  /\ phase = [i \in Callers |-> "new"]
  /\ holds = [i \in Callers |-> NoChan]
  /\ shut = {}
  /\ inbox = [c \in Callers |-> << >>]

\* A subscriber gets the node's registered channel, or registers its own.
Subscribes(i) ==
  /\ phase[i] = "new"
  /\ phase' = [phase EXCEPT ![i] = "reading"]
  /\ registry' = [registry EXCEPT ![NodeOf[i]] = IF @ = NoChan THEN i ELSE @]
  /\ holds' = [holds EXCEPT ![i] = registry'[NodeOf[i]]]
  /\ UNCHANGED <<shut, inbox>>

\* Leaving: the first subscriber of the node to leave takes the registration
\* away and owes the channel's close ...
Unregisters(i) ==
  /\ phase[i] = "reading"
  /\ registry[NodeOf[i]] # NoChan
  /\ phase' = [phase EXCEPT ![i] = "removing"]
  /\ holds' = [holds EXCEPT ![i] = registry[NodeOf[i]]]
  /\ registry' = [registry EXCEPT ![NodeOf[i]] = NoChan]
  /\ UNCHANGED <<shut, inbox>>

\* ... which follows; the channel is open until then.
Closes(i) ==
  /\ phase[i] = "removing"
  /\ holds[i] \notin shut
  /\ phase' = [phase EXCEPT ![i] = "removed"]
  /\ shut' = shut \cup {holds[i]}
  /\ holds' = [holds EXCEPT ![i] = NoChan]
  /\ UNCHANGED <<registry, inbox>>

\* Both at once, for a messenger with nothing to do in between.
UnregistersAndCloses(i) ==
  /\ phase[i] = "reading"
  /\ registry[NodeOf[i]] # NoChan
  /\ registry[NodeOf[i]] \notin shut
  /\ phase' = [phase EXCEPT ![i] = "removed"]
  /\ shut' = shut \cup {registry[NodeOf[i]]}
  /\ holds' = [holds EXCEPT ![i] = NoChan]
  /\ registry' = [registry EXCEPT ![NodeOf[i]] = NoChan]
  /\ UNCHANGED inbox

\* Another subscriber of the node has left before.
LeavesUnregistered(i) ==
  /\ phase[i] = "reading"
  /\ registry[NodeOf[i]] = NoChan
  /\ phase' = [phase EXCEPT ![i] = "removed"]
  /\ holds' = [holds EXCEPT ![i] = NoChan]
  /\ UNCHANGED <<registry, shut, inbox>>

\* A message of node n goes to an open channel made for n that has room.
Delivers(c) ==
  /\ phase[c] # "new"
  /\ c \notin shut
  /\ Len(inbox[c]) < ChanCap
  /\ inbox' = [inbox EXCEPT ![c] = Append(@, NodeOf[c])]
  /\ UNCHANGED <<registry, phase, holds, shut>>

Takes(i) ==
  /\ phase[i] = "reading"
  /\ inbox[holds[i]] # << >>
  /\ inbox' = [inbox EXCEPT ![holds[i]] = Tail(@)]
  /\ UNCHANGED <<registry, phase, holds, shut>>

ContractStep(i) ==
  \/ Subscribes(i) \/ Unregisters(i) \/ Closes(i) \/ UnregistersAndCloses(i)
  \/ LeavesUnregistered(i) \/ Delivers(i) \/ Takes(i)

ContractNext == \E i \in Callers : ContractStep(i)

\* A removal that has begun does close the channel.
ContractFairness == \A i \in Callers : WF_cvars(Closes(i))

ContractSpec == ContractInit /\ [][ContractNext]_cvars /\ ContractFairness

ContractSafety == ContractInit /\ [][ContractNext]_cvars
=============================================================================
