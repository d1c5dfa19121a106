------------------------- MODULE MessengerRefinement -------------------------
(***************************************************************************)
(* The MQTT messenger implements the safety part of MessengerContract, for *)
(* every value of the constants.  That a removal which began does close    *)
(* its channel is liveness and is left to TLC.                             *)
(***************************************************************************)
EXTENDS MessengerProofs

USE NodeOfAssumption, NoChanAssumption
USE DEF Channels, Conns

\* The initial states are initial states of the contract.
LEMMA RefinesInit == Init => Contract!ContractInit
BY DEF Init, Contract!ContractInit, Phase, Removing

\* A step that touches nothing of the interface is a stutter of the contract.
LEMMA RefinesFrame ==
  ASSUME UNCHANGED <<desired, callerPc, callerChan, closed, queue>>
  PROVE  UNCHANGED Contract!cvars
BY DEF Contract!cvars, Phase, Removing

\* A caller that goes from one control state to another moves its own phase.
LEMMA PhaseMoves ==
  ASSUME TypeOK, NEW i \in Callers, NEW pc,
         callerPc' = [callerPc EXCEPT ![i] = pc]
  PROVE  /\ pc \in {"unsubscribe", "awaitUnsubscribe", "close"}
              => Phase' = [Phase EXCEPT ![i] = "removing"]
         /\ pc \notin {"unsubscribe", "awaitUnsubscribe", "close"}
              => Phase' = [Phase EXCEPT ![i] = pc]
BY DEF TypeOK, Phase, Removing

\* What a caller does in AddSubscriber and RemoveSubscriber is a step of the
\* contract, or none.
LEMMA RefinesCaller ==
  ASSUME IInv, NEW i \in Callers, CallerStep(i)
  PROVE  Contract!ContractNext \/ UNCHANGED Contract!cvars
<1>0. TypeOK /\ ChannelInv
  BY DEF IInv
<1>1. CASE AddSubscriber(i)
  <2>1. Phase[i] = "new"
    BY <1>1 DEF AddSubscriber, Phase, Removing
  <2>2. Phase' = [Phase EXCEPT ![i] = "reading"]
    BY <1>0, <1>1, PhaseMoves DEF AddSubscriber
  <2>3. Contract!Subscribes(i)
    BY <1>1, <2>1, <2>2
       DEF AddSubscriber, Contract!Subscribes, msgVars
  <2>4. QED
    BY <2>3 DEF Contract!ContractNext, Contract!ContractStep
<1>2. CASE Receive(i)
  <2>1. Phase[i] = "reading" /\ Phase' = Phase
    BY <1>2 DEF Receive, Phase, Removing, callerVars
  <2>2. Contract!Takes(i)
    BY <1>2, <2>1 DEF Receive, Contract!Takes, callerVars
  <2>3. QED
    BY <2>2 DEF Contract!ContractNext, Contract!ContractStep
<1>3. CASE RemoveAbsent(i)
  <2>1. Phase[i] = "reading"
    BY <1>3 DEF RemoveAbsent, Phase, Removing
  <2>2. Phase' = [Phase EXCEPT ![i] = "removed"]
    BY <1>0, <1>3, PhaseMoves DEF RemoveAbsent
  <2>3. Contract!LeavesUnregistered(i)
    BY <1>3, <2>1, <2>2
       DEF RemoveAbsent, Contract!LeavesUnregistered, msgVars
  <2>4. QED
    BY <2>3 DEF Contract!ContractNext, Contract!ContractStep
<1>4. CASE RemoveSubscriber(i)
  <2>1. Phase[i] = "reading"
    BY <1>4 DEF RemoveSubscriber, Phase, Removing
  <2>2. Phase' = [Phase EXCEPT ![i] = "removing"]
    BY <1>0, <1>4, PhaseMoves DEF RemoveSubscriber
  <2>3. Contract!Unregisters(i)
    BY <1>4, <2>1, <2>2
       DEF RemoveSubscriber, Contract!Unregisters, msgVars
  <2>4. QED
    BY <2>3 DEF Contract!ContractNext, Contract!ContractStep
<1>5. ASSUME \/ Unsubscribe(i) \/ UnsubscribeSkipped(i)
             \/ UnsubscribeReturns(i)
      PROVE  UNCHANGED Contract!cvars
  <2>1. /\ i \in Removing
        /\ \/ callerPc' = [callerPc EXCEPT ![i] = "awaitUnsubscribe"]
           \/ callerPc' = [callerPc EXCEPT ![i] = "close"]
    BY <1>5 DEF Unsubscribe, UnsubscribeSkipped, UnsubscribeReturns, Removing
  <2>2. Phase' = [Phase EXCEPT ![i] = "removing"]
    BY <1>0, <2>1, PhaseMoves
  <2>3. Phase[i] = "removing" /\ Phase = [j \in Callers |-> Phase[j]]
    BY <2>1 DEF Phase
  <2>4. Phase' = Phase
    BY <2>2, <2>3
  <2>5. QED
    BY <1>5, <2>4 DEF Unsubscribe, UnsubscribeSkipped, UnsubscribeReturns,
                      Contract!cvars, msgVars
<1>6. CASE CloseChannel(i)
  <2>1. Phase[i] = "removing" /\ callerChan[i] \notin closed
    BY <1>0, <1>6
       DEF CloseChannel, Phase, Removing, ChannelInv, CloseOnce
  <2>2. Phase' = [Phase EXCEPT ![i] = "removed"]
    BY <1>0, <1>6, PhaseMoves DEF CloseChannel
  <2>3. Contract!Closes(i)
    BY <1>6, <2>1, <2>2 DEF CloseChannel, Contract!Closes, msgVars
  <2>4. QED
    BY <2>3 DEF Contract!ContractNext, Contract!ContractStep
<1>7. QED
  BY <1>1, <1>2, <1>3, <1>4, <1>5, <1>6 DEF CallerStep, RemovalStep

\* The handler's send is a delivery, or nothing when the message is dropped.
LEMMA RefinesMessage ==
  ASSUME IInv, NEW n \in Nodes, HandleMessage(n)
  PROVE  Contract!ContractNext \/ UNCHANGED Contract!cvars
<1>1. UNCHANGED <<desired, callerPc, callerChan, closed>>
  BY DEF HandleMessage, callerVars
<1>2. CASE UNCHANGED queue
  BY <1>1, <1>2, RefinesFrame
<1>3. CASE ~UNCHANGED queue
  <2>1. /\ routes[n] # NoChan /\ routes[n] \notin closed
        /\ Len(queue[routes[n]]) < ChanCap
        /\ queue' = [queue EXCEPT ![routes[n]] = Append(@, n)]
    BY <1>3 DEF HandleMessage
  <2>2. MadeFor(routes[n], n)
    BY <2>1 DEF IInv, RouteInv, RouterInv
  <2>3. routes[n] \in Callers /\ NodeOf[routes[n]] = n
    BY <2>2 DEF MadeFor
  <2>4. Phase[routes[n]] # "new" /\ Phase' = Phase
    BY <1>1, <2>2, <2>3 DEF Phase, Removing, MadeFor
  <2>5. Contract!Delivers(routes[n])
    BY <1>1, <2>1, <2>3, <2>4 DEF Contract!Delivers
  <2>6. QED
    BY <2>3, <2>5 DEF Contract!ContractNext, Contract!ContractStep
<1>4. QED
  BY <1>2, <1>3

\* So is every other step of the messenger.
LEMMA RefinesStep ==
  IInv /\ [Next]_vars => [Contract!ContractNext]_(Contract!cvars)
<1> SUFFICES ASSUME IInv, [Next]_vars
             PROVE  Contract!ContractNext \/ UNCHANGED Contract!cvars
  OBVIOUS
<1>1. CASE \E i \in Callers : CallerStep(i)
  BY <1>1, RefinesCaller
<1>2. CASE \E n \in Nodes : HandleMessage(n)
  BY <1>2, RefinesMessage
<1>3. CASE /\ ~\E i \in Callers : CallerStep(i)
           /\ ~\E n \in Nodes : HandleMessage(n)
  <2>1. UNCHANGED <<desired, callerPc, callerChan, closed, queue>>
    BY <1>3 DEF Next, vars, callerVars, msgVars, Connect, ConnectionUp,
       LoseConnection, BrokerAnswers, CallbackStep, OnConnect,
       OnConnectionLost, CleanupAfterLoss, LoopStep, TaskSkips,
       TaskResubscribes, CloneMaps, Subscribe, SubscribeFails,
       SubscribeReturns, StoreActual, TimerFires, LoopExits, ContextDone,
       DisconnectStep, Disconnect, DisconnectClient, CleanupAfterDisconnect
  <2>2. QED
    BY <2>1, RefinesFrame
<1>4. QED
  BY <1>1, <1>2, <1>3

\* Whatever the interleaving of loops, callbacks, losses of the connection and
\* removals, an instance sees of the MQTT messenger only what the interface
\* core.MessengerClient promises.
THEOREM RefinesContract == Spec => ImplementsContract
<1>1. Init => Contract!ContractInit
  BY RefinesInit
<1>2. IInv /\ [Next]_vars => [Contract!ContractNext]_(Contract!cvars)
  BY RefinesStep
<1>3. QED
  BY <1>1, <1>2, Invariance, PTL
     DEF Spec, ImplementsContract, Contract!ContractSafety
=============================================================================
