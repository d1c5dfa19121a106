---------------------------- MODULE MockMessenger ----------------------------
(***************************************************************************)
(* The in-memory messenger of mock mode (internal/sdk/mock_messenger.go)   *)
(* and the goroutine that injects the configured messages into it          *)
(* (StartMessageInjection, internal/sdk/sdk.go).  Every method of the mock *)
(* holds its mutex throughout and is one action.                           *)
(***************************************************************************)
EXTENDS Integers, Sequences

CONSTANTS
  Nodes, Callers, NodeOf, NoChan,
  ChanCap,      \* capacity of a subscription channel (32 in the code)
  NumMessages,  \* number of configured mock messages
  Target,       \* the node each is for; it need not be a configured one
  Malformed     \* those with a field value that does not parse as its type

ASSUME MockAssumption ==
  /\ NodeOf \in [Callers -> Nodes]
  /\ NoChan \notin Callers
  /\ ChanCap \in Nat \ {0}
  /\ NumMessages \in Nat \ {0}
  /\ DOMAIN Target = 0 .. NumMessages - 1
  /\ Malformed \subseteq 0 .. NumMessages - 1

VARIABLES
  subscribers,  \* the mock's map from nodes to channels
  callerPc,     \* the runLoop goroutines: new, reading, removed
  callerChan,   \* the channel each reads from
  closed,       \* closed channels
  queue,        \* buffered messages of each channel
  ctxDone,      \* the SDK context is cancelled
  injectorPc,   \* control state of the injecting goroutine
  idx           \* its index of the next message

callerVars == <<callerPc, callerChan>>
vars == <<subscribers, callerVars, closed, queue, ctxDone, injectorPc, idx>>

Init ==
  /\ subscribers = [n \in Nodes |-> NoChan]
  /\ callerPc = [i \in Callers |-> "new"]
  /\ callerChan = [i \in Callers |-> NoChan]
  /\ closed = {}
  /\ queue = [c \in Callers |-> << >>]
  /\ ctxDone = FALSE
  /\ injectorPc = "settle" /\ idx = 0

AddSubscriber(i) ==
  /\ callerPc[i] = "new"
  /\ callerPc' = [callerPc EXCEPT ![i] = "reading"]
  /\ subscribers' = [subscribers EXCEPT
                       ![NodeOf[i]] = IF @ = NoChan THEN i ELSE @]
  /\ callerChan' = [callerChan EXCEPT ![i] = subscribers'[NodeOf[i]]]
  /\ UNCHANGED <<closed, queue, ctxDone, injectorPc, idx>>

Leave(i) ==
  /\ callerPc[i] = "reading"
  /\ callerPc' = [callerPc EXCEPT ![i] = "removed"]
  /\ callerChan' = [callerChan EXCEPT ![i] = NoChan]

\* Mutant: the entry stays in the map.
RemoveSubscriberKeeps(i) ==
  /\ Leave(i)
  /\ subscribers[NodeOf[i]] # NoChan
  /\ closed' = closed \cup {subscribers[NodeOf[i]]}
  /\ UNCHANGED <<subscribers, queue, ctxDone, injectorPc, idx>>

\* RemoveSubscriber closes the channel and deletes the entry, if there is one.
RemoveSubscriber(i) ==
  LET n == NodeOf[i] IN
  /\ Leave(i)
  /\ subscribers[n] # NoChan
  /\ closed' = closed \cup {subscribers[n]}
  /\ subscribers' = [subscribers EXCEPT ![n] = NoChan]
  /\ UNCHANGED <<queue, ctxDone, injectorPc, idx>>

RemoveAbsent(i) ==
  /\ Leave(i)
  /\ subscribers[NodeOf[i]] = NoChan
  /\ UNCHANGED <<subscribers, closed, queue, ctxDone, injectorPc, idx>>

Receive(i) ==
  /\ callerPc[i] = "reading"
  /\ queue[callerChan[i]] # << >>
  /\ queue' = [queue EXCEPT ![callerChan[i]] = Tail(@)]
  /\ UNCHANGED <<subscribers, callerVars, closed, ctxDone, injectorPc, idx>>

-----------------------------------------------------------------------------
\* The injector lets half a second pass for the subscribers to register.
Settled ==
  /\ injectorPc = "settle"
  /\ injectorPc' = "tick"
  /\ UNCHANGED <<subscribers, callerVars, closed, queue, ctxDone, idx>>

\* injectNeoFlowMessage: what it refuses leaves every queue as it was.
InjectNeoFlowMessage(m) ==
  LET n == Target[m]
      c == IF n \in Nodes THEN subscribers[n] ELSE NoChan
  IN queue' = IF m \notin Malformed /\ c # NoChan /\ Len(queue[c]) < ChanCap
              THEN [queue EXCEPT ![c] = Append(@, n)]
              ELSE queue

\* Mutant: the index is not wrapped.
TickUnwrapped ==
  /\ injectorPc = "tick"
  /\ InjectNeoFlowMessage(idx)
  /\ idx' = idx + 1
  /\ UNCHANGED <<subscribers, callerVars, closed, ctxDone, injectorPc>>

\* Mutant: a message that fails is tried again.
TickRetries ==
  /\ injectorPc = "tick"
  /\ InjectNeoFlowMessage(idx)
  /\ idx' = IF queue' = queue THEN idx ELSE (idx + 1) % NumMessages
  /\ UNCHANGED <<subscribers, callerVars, closed, ctxDone, injectorPc>>

\* A tick injects the next message, and goes on to the one after it whether
\* that worked or not.
Tick ==
  /\ injectorPc = "tick"
  /\ InjectNeoFlowMessage(idx)
  /\ idx' = (idx + 1) % NumMessages
  /\ UNCHANGED <<subscribers, callerVars, closed, ctxDone, injectorPc>>

InjectorStops ==
  /\ injectorPc \in {"settle", "tick"}
  /\ ctxDone
  /\ injectorPc' = "stopped"
  /\ UNCHANGED <<subscribers, callerVars, closed, queue, ctxDone, idx>>

ContextDone ==
  /\ ~ctxDone
  /\ ctxDone' = TRUE
  /\ UNCHANGED <<subscribers, callerVars, closed, queue, injectorPc, idx>>

CallerStep(i) ==
  AddSubscriber(i) \/ RemoveSubscriber(i) \/ RemoveAbsent(i) \/ Receive(i)

Injector == Settled \/ Tick \/ InjectorStops

Next == Injector \/ ContextDone \/ \E i \in Callers : CallerStep(i)

\* The ticker ticks, and the select between it and the context is random.
Fairness == WF_vars(Injector) /\ SF_vars(InjectorStops)

Spec == Init /\ [][Next]_vars /\ Fairness

-----------------------------------------------------------------------------
(* Correctness.                                                            *)

\* Every variable has its type, and a reading caller has a channel.
TypeOK ==
  /\ subscribers \in [Nodes -> Callers \cup {NoChan}]
  /\ callerPc \in [Callers -> {"new", "reading", "removed"}]
  /\ callerChan \in [Callers -> Callers \cup {NoChan}]
  /\ \A i \in Callers : callerPc[i] = "reading" => callerChan[i] \in Callers
  /\ closed \subseteq Callers
  /\ queue \in [Callers -> Seq(Nodes)]
  /\ ctxDone \in BOOLEAN
  /\ injectorPc \in {"settle", "tick", "stopped"}
  /\ idx \in 0 .. NumMessages - 1

\* No configured message, malformed, for an unknown node or for a full channel,
\* keeps the others from their turn, until the SDK context ends, and with it the
\* injector.
EveryMessageHasItsTurn ==
  /\ \A m \in 0 .. NumMessages - 1 : []<>(idx = m \/ ctxDone)
  /\ ctxDone ~> injectorPc = "stopped"

Contract == INSTANCE MessengerContract WITH
  registry <- subscribers, phase <- callerPc, holds <- callerChan,
  shut <- closed, inbox <- queue

\* The mock keeps the promise of core.MessengerClient that the MQTT messenger
\* keeps, with both halves of a removal at once.
ImplementsContract == Contract!ContractSpec
=============================================================================
