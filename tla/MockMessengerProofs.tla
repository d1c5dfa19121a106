------------------------- MODULE MockMessengerProofs -------------------------
(***************************************************************************)
(* Type correctness of the in-memory messenger, what its channels hold,    *)
(* and that it implements the safety part of MessengerContract, for every  *)
(* value of the constants.  The contract's fairness has nothing to ask of  *)
(* the mock, which closes a channel in the step that forgets it; TLC       *)
(* checks it with the rest of ImplementsContract.                          *)
(***************************************************************************)
EXTENDS MockMessenger, TLAPS

USE MockAssumption

\* A registered channel is open, was made for the node by a call of
\* AddSubscriber, and so were the channels that have been closed.
ChannelInv ==
  /\ \A n \in Nodes :
       LET c == subscribers[n] IN
       c # NoChan => c \notin closed /\ callerPc[c] # "new" /\ NodeOf[c] = n
  /\ \A c \in closed : callerPc[c] # "new"

\* Every caller reads from a channel of its own node, and a channel buffers
\* nothing but its node's messages, as many as fit.
QueueInv ==
  /\ \A i \in Callers : callerPc[i] = "reading" => NodeOf[callerChan[i]] = NodeOf[i]
  /\ \A c \in Callers : /\ Len(queue[c]) <= ChanCap
                        /\ \A m \in 1 .. Len(queue[c]) : queue[c][m] = NodeOf[c]

IInv == TypeOK /\ ChannelInv /\ QueueInv

\* Everything is in place before the first subscriber.
LEMMA InitInv == Init => IInv
<1> SUFFICES ASSUME Init
             PROVE  IInv
  OBVIOUS
<1>1. TypeOK
  <2>1. queue \in [Callers -> Seq(Nodes)] /\ idx \in 0 .. NumMessages - 1
    BY DEF Init
  <2>2. ctxDone \in BOOLEAN
    BY DEF Init
  <2>3. QED
    BY <2>1, <2>2 DEF Init, TypeOK
<1>2. ChannelInv /\ QueueInv
  BY DEF Init, ChannelInv, QueueInv
<1>3. QED
  BY <1>1, <1>2 DEF IInv

\* What a tick does to the queues: nothing, or one message for a registered
\* channel of the message's node.
LEMMA InjectionEffect ==
  ASSUME IInv, NEW m, InjectNeoFlowMessage(m)
  PROVE  \/ queue' = queue
         \/ \E n \in Nodes :
              /\ subscribers[n] \in Callers /\ NodeOf[subscribers[n]] = n
              /\ Len(queue[subscribers[n]]) < ChanCap
              /\ queue' = [queue EXCEPT ![subscribers[n]] = Append(@, n)]
BY DEF InjectNeoFlowMessage, IInv, TypeOK, ChannelInv

\* A caller keeps the invariant as it subscribes.
LEMMA AddInv == ASSUME IInv, NEW i \in Callers, AddSubscriber(i)
                PROVE  IInv'
<1> DEFINE n == NodeOf[i]
           c == IF subscribers[n] = NoChan THEN i ELSE subscribers[n]
<1>0. /\ TypeOK /\ ChannelInv /\ QueueInv
      /\ n \in Nodes /\ callerPc[i] = "new"
  BY DEF AddSubscriber, IInv
<1>1. /\ c \in Callers /\ NodeOf[c] = n /\ c \notin closed
      /\ callerPc[c] # "new" \/ c = i
  BY <1>0 DEF TypeOK, ChannelInv
<1>2. /\ subscribers' = [subscribers EXCEPT ![n] = c]
      /\ callerPc' = [callerPc EXCEPT ![i] = "reading"]
      /\ callerChan' = [callerChan EXCEPT ![i] = c]
      /\ UNCHANGED <<closed, queue, ctxDone, injectorPc, idx>>
  <2>1. subscribers' = [subscribers EXCEPT ![n] = c]
    BY DEF AddSubscriber
  <2>2. subscribers'[n] = c
    BY <1>0, <2>1 DEF TypeOK
  <2>3. QED
    BY <2>1, <2>2 DEF AddSubscriber
<1> HIDE DEF c
<1>3. TypeOK'
  BY <1>0, <1>1, <1>2 DEF TypeOK
<1>4. ChannelInv'
  <2>1. ASSUME NEW d \in Callers, callerPc[d] # "new" \/ d = i
        PROVE  callerPc'[d] # "new"
    BY <1>0, <1>2, <2>1 DEF TypeOK
  <2>2. ASSUME NEW m \in Nodes, subscribers'[m] # NoChan
        PROVE  /\ subscribers'[m] \notin closed
               /\ callerPc'[subscribers'[m]] # "new"
               /\ NodeOf[subscribers'[m]] = m
    <3>1. CASE m = n
      BY <1>0, <1>1, <1>2, <2>1, <3>1 DEF TypeOK
    <3>2. CASE m # n
      BY <1>0, <1>2, <2>1, <2>2, <3>2 DEF TypeOK, ChannelInv
    <3>3. QED
      BY <3>1, <3>2
  <2>3. QED
    BY <1>0, <1>2, <2>1, <2>2 DEF TypeOK, ChannelInv
<1>5. QueueInv'
  BY <1>0, <1>1, <1>2 DEF TypeOK, QueueInv
<1>6. QED
  BY <1>3, <1>4, <1>5 DEF IInv

\* ... and as it leaves, whether the channel was still registered or not.
LEMMA LeaveInv ==
  ASSUME IInv, NEW i \in Callers, RemoveSubscriber(i) \/ RemoveAbsent(i)
  PROVE  IInv'
<1> DEFINE n == NodeOf[i]
<1>0. /\ TypeOK /\ ChannelInv /\ QueueInv
      /\ n \in Nodes /\ callerPc[i] = "reading"
      /\ callerPc' = [callerPc EXCEPT ![i] = "removed"]
      /\ callerChan' = [callerChan EXCEPT ![i] = NoChan]
      /\ UNCHANGED <<queue, ctxDone, injectorPc, idx>>
  BY DEF RemoveSubscriber, RemoveAbsent, Leave, IInv
<1>1. \/ /\ subscribers[n] \in Callers
         /\ closed' = closed \cup {subscribers[n]}
         /\ subscribers' = [subscribers EXCEPT ![n] = NoChan]
      \/ UNCHANGED <<closed, subscribers>>
  BY <1>0 DEF RemoveSubscriber, RemoveAbsent, TypeOK
<1>2. TypeOK'
  <2>1. /\ callerPc' \in [Callers -> {"new", "reading", "removed"}]
        /\ callerChan' \in [Callers -> Callers \cup {NoChan}]
        /\ \A j \in Callers : callerPc'[j] = "reading" => callerChan'[j] \in Callers
    BY <1>0 DEF TypeOK
  <2>2. /\ subscribers' \in [Nodes -> Callers \cup {NoChan}]
        /\ closed' \subseteq Callers
    BY <1>0, <1>1 DEF TypeOK
  <2>3. QED
    BY <1>0, <2>1, <2>2 DEF TypeOK
<1>3. ChannelInv'
  <2>1. \A d \in Callers : callerPc[d] # "new" => callerPc'[d] # "new"
    BY <1>0 DEF TypeOK
  <2>2. CASE UNCHANGED <<closed, subscribers>>
    BY <1>0, <2>1, <2>2 DEF TypeOK, ChannelInv
  <2>3. CASE ~UNCHANGED <<closed, subscribers>>
    <3>1. ASSUME NEW m \in Nodes, subscribers'[m] # NoChan
          PROVE  /\ subscribers'[m] \notin closed'
                 /\ callerPc'[subscribers'[m]] # "new"
                 /\ NodeOf[subscribers'[m]] = m
      <4>1. m # n /\ subscribers'[m] = subscribers[m]
        BY <1>0, <1>1, <2>3, <3>1 DEF TypeOK
      <4>2. QED
        BY <1>0, <1>1, <2>1, <2>3, <3>1, <4>1 DEF TypeOK, ChannelInv
    <3>2. \A c \in closed' : callerPc'[c] # "new"
      BY <1>0, <1>1, <2>1, <2>3 DEF TypeOK, ChannelInv
    <3>3. QED
      BY <3>1, <3>2 DEF ChannelInv
  <2>4. QED
    BY <2>2, <2>3
<1>4. QueueInv'
  BY <1>0 DEF TypeOK, QueueInv
<1>5. QED
  BY <1>2, <1>3, <1>4 DEF IInv

\* ... and as it takes a message.
LEMMA ReceiveInv == ASSUME IInv, NEW i \in Callers, Receive(i)
                    PROVE  IInv'
<1>1. /\ queue \in [Callers -> Seq(Nodes)]
      /\ callerChan[i] \in Callers
      /\ UNCHANGED <<subscribers, callerPc, callerChan, closed, ctxDone,
                     injectorPc, idx>>
  BY DEF Receive, IInv, TypeOK, callerVars
<1>2. DEFINE c == callerChan[i]
<1>3. /\ queue' = [queue EXCEPT ![c] = Tail(@)]
      /\ queue[c] \in Seq(Nodes) /\ queue[c] # << >>
  BY <1>1 DEF Receive
<1>4. /\ Tail(queue[c]) \in Seq(Nodes)
      /\ Len(Tail(queue[c])) = Len(queue[c]) - 1
      /\ \A m \in 1 .. Len(queue[c]) - 1 : Tail(queue[c])[m] = queue[c][m + 1]
  BY <1>3
<1>5. TypeOK'
  BY <1>1, <1>3, <1>4 DEF IInv, TypeOK
<1>6. ChannelInv'
  BY <1>1 DEF IInv, ChannelInv
<1>7. QueueInv'
  <2>1. ASSUME NEW d \in Callers, d # c
        PROVE  queue'[d] = queue[d]
    BY <1>1, <1>3, <2>1
  <2>2. queue'[c] = Tail(queue[c])
    BY <1>1, <1>3
  <2>3. ASSUME NEW d \in Callers
        PROVE  /\ Len(queue'[d]) <= ChanCap
               /\ \A m \in 1 .. Len(queue'[d]) : queue'[d][m] = NodeOf[d]
    <3>1. CASE d = c
      BY <1>3, <1>4, <2>2, <3>1 DEF IInv, QueueInv
    <3>2. CASE d # c
      BY <2>1, <3>2 DEF IInv, QueueInv
    <3>3. QED
      BY <3>1, <3>2
  <2>4. QED
    BY <1>1, <2>3 DEF IInv, QueueInv
<1>8. QED
  BY <1>5, <1>6, <1>7 DEF IInv

\* The injector keeps it: a full channel gets nothing more, and the index wraps.
LEMMA InjectorInv == ASSUME IInv, Injector
                     PROVE  IInv'
<1>1. CASE Settled \/ InjectorStops
  BY <1>1 DEF Settled, InjectorStops, callerVars, IInv, TypeOK, ChannelInv,
              QueueInv
<1>2. CASE Tick
  <2>1. /\ UNCHANGED <<subscribers, callerPc, callerChan, closed, ctxDone,
                       injectorPc>>
        /\ idx' \in 0 .. NumMessages - 1
    BY <1>2 DEF Tick, callerVars, IInv, TypeOK
  <2>2. CASE queue' = queue
    BY <2>1, <2>2 DEF IInv, TypeOK, ChannelInv, QueueInv
  <2>3. CASE queue' # queue
    <3>1. PICK n \in Nodes :
            /\ subscribers[n] \in Callers /\ NodeOf[subscribers[n]] = n
            /\ Len(queue[subscribers[n]]) < ChanCap
            /\ queue' = [queue EXCEPT ![subscribers[n]] = Append(@, n)]
      BY <1>2, <2>3, InjectionEffect DEF Tick
    <3>2. DEFINE c == subscribers[n]
    <3>3. queue \in [Callers -> Seq(Nodes)] /\ c \in Callers
      BY <3>1 DEF IInv, TypeOK
    <3>4. /\ queue'[c] = Append(queue[c], n) /\ queue[c] \in Seq(Nodes)
          /\ \A d \in Callers \ {c} : queue'[d] = queue[d]
      BY <3>1, <3>3
    <3>5. /\ Append(queue[c], n) \in Seq(Nodes)
          /\ Len(Append(queue[c], n)) = Len(queue[c]) + 1
          /\ Len(queue[c]) \in Nat
          /\ Append(queue[c], n)[Len(queue[c]) + 1] = n
          /\ \A m \in 1 .. Len(queue[c]) : Append(queue[c], n)[m] = queue[c][m]
      BY <3>4
    <3>6. TypeOK'
      BY <2>1, <3>1, <3>3, <3>5 DEF IInv, TypeOK
    <3>7. ChannelInv'
      BY <2>1 DEF IInv, ChannelInv
    <3>8. ASSUME NEW d \in Callers
          PROVE  /\ Len(queue'[d]) <= ChanCap
                 /\ \A m \in 1 .. Len(queue'[d]) : queue'[d][m] = NodeOf[d]
      <4>1. CASE d = c
        BY <3>1, <3>4, <3>5, <4>1 DEF IInv, QueueInv
      <4>2. CASE d # c
        BY <3>4, <4>2 DEF IInv, QueueInv
      <4>3. QED
        BY <4>1, <4>2
    <3>9. QED
      BY <2>1, <3>6, <3>7, <3>8 DEF IInv, QueueInv
  <2>4. QED
    BY <2>2, <2>3
<1>3. QED
  BY <1>1, <1>2 DEF Injector

\* Every step keeps it.
LEMMA StepInv == IInv /\ [Next]_vars => IInv'
<1> SUFFICES ASSUME IInv, [Next]_vars
             PROVE  IInv'
  OBVIOUS
<1>1. CASE UNCHANGED vars \/ ContextDone
  BY <1>1 DEF vars, callerVars, ContextDone, IInv, TypeOK, ChannelInv, QueueInv
<1>2. CASE Injector
  BY <1>2, InjectorInv
<1>3. CASE \E i \in Callers : CallerStep(i)
  BY <1>3, AddInv, LeaveInv, ReceiveInv DEF CallerStep
<1>4. QED
  BY <1>1, <1>2, <1>3 DEF Next

\* The strengthened invariant holds throughout.
LEMMA Invariant == Spec => []IInv
BY InitInv, StepInv, PTL DEF Spec

\* Every variable of the mock has its type; a reading caller has a channel and
\* the injector's index names a message of the configuration.
THEOREM MockTypeCorrect == Spec => []TypeOK
<1>1. IInv => TypeOK
  BY DEF IInv
<1>2. QED
  BY <1>1, Invariant, PTL

\* Whatever the configured messages and however the instances come and go, the
\* mock registers only open channels, each for the node it was made for; a
\* channel holds its own node's messages, at most its capacity of them, and an
\* instance never reads from another node's channel.
THEOREM MockChannels == Spec => [](ChannelInv /\ QueueInv)
<1>1. IInv => ChannelInv /\ QueueInv
  BY DEF IInv
<1>2. QED
  BY <1>1, Invariant, PTL

-----------------------------------------------------------------------------
(* The refinement.                                                         *)

\* A caller's step is one of the contract.
LEMMA MockRefinesCaller ==
  ASSUME IInv, NEW i \in Callers, CallerStep(i)
  PROVE  Contract!ContractStep(i)
<1>1. CASE AddSubscriber(i)
  BY <1>1 DEF AddSubscriber, Contract!Subscribes, Contract!ContractStep
<1>2. CASE RemoveSubscriber(i)
  BY <1>2 DEF RemoveSubscriber, Leave, IInv, ChannelInv,
              Contract!UnregistersAndCloses, Contract!ContractStep
<1>3. CASE RemoveAbsent(i)
  BY <1>3 DEF RemoveAbsent, Leave, Contract!LeavesUnregistered,
              Contract!ContractStep
<1>4. CASE Receive(i)
  BY <1>4 DEF Receive, callerVars, Contract!Takes, Contract!ContractStep
<1>5. QED
  BY <1>1, <1>2, <1>3, <1>4 DEF CallerStep

\* A tick delivers to an open channel of the message's node, or does nothing
\* that the contract knows of.
LEMMA MockRefinesTick ==
  ASSUME IInv, Tick
  PROVE  Contract!ContractNext \/ UNCHANGED Contract!cvars
<1>1. UNCHANGED <<subscribers, callerPc, callerChan, closed>>
  BY DEF Tick, callerVars
<1>2. CASE queue' = queue
  BY <1>1, <1>2 DEF Contract!cvars
<1>3. CASE queue' # queue
  <2>1. PICK n \in Nodes :
          /\ subscribers[n] \in Callers /\ NodeOf[subscribers[n]] = n
          /\ Len(queue[subscribers[n]]) < ChanCap
          /\ queue' = [queue EXCEPT ![subscribers[n]] = Append(@, n)]
    BY <1>3, InjectionEffect DEF Tick
  <2>2. Contract!Delivers(subscribers[n])
    BY <1>1, <2>1 DEF IInv, ChannelInv, Contract!Delivers
  <2>3. QED
    BY <2>1, <2>2 DEF Contract!ContractNext, Contract!ContractStep
<1>4. QED
  BY <1>2, <1>3

\* So every step of the mock is a step of the contract or a stutter.
LEMMA MockRefinesStep ==
  IInv /\ [Next]_vars => [Contract!ContractNext]_(Contract!cvars)
<1> SUFFICES ASSUME IInv, [Next]_vars
             PROVE  Contract!ContractNext \/ UNCHANGED Contract!cvars
  OBVIOUS
<1>1. CASE \E i \in Callers : CallerStep(i)
  BY <1>1, MockRefinesCaller DEF Contract!ContractNext
<1>2. CASE Tick
  BY <1>2, MockRefinesTick
<1>3. CASE Settled \/ InjectorStops \/ ContextDone \/ UNCHANGED vars
  BY <1>3 DEF Settled, InjectorStops, ContextDone, vars, callerVars,
              Contract!cvars
<1>4. QED
  BY <1>1, <1>2, <1>3 DEF Next, Injector

\* What node instances are promised of core.MessengerClient holds of the mock of
\* mock mode too: a handler tried out there meets the same channels, closed
\* under the same conditions, as with the MQTT messenger.
THEOREM MockRefinesContract == Spec => Contract!ContractSafety
<1>1. Init => Contract!ContractInit
  BY DEF Init, Contract!ContractInit
<1>2. QED
  BY <1>1, Invariant, MockRefinesStep, PTL DEF Spec, Contract!ContractSafety
=============================================================================
