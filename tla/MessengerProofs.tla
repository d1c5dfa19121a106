--------------------------- MODULE MessengerProofs ---------------------------
(***************************************************************************)
(* Theorems about the MQTT messenger, for every set of nodes and callers,  *)
(* every assignment of node identifiers to callers and every bound.        *)
(***************************************************************************)
EXTENDS Messenger, TLAPS

-----------------------------------------------------------------------------
(* The inductive invariant.                                                *)

\* Where a channel is known: registered for a node, cloned by a resubscribe
\* loop, captured by a route's handler, or about to be closed.
MadeFor(c, n) == c \in Channels /\ NodeOf[c] = n /\ callerPc[c] # "new"

\* The life of a channel: made by its caller's AddSubscriber, registered for
\* the caller's node, then due to be closed by exactly one caller, then closed.
ChannelInv ==
  /\ \A n \in Nodes : desired[n] # NoChan => MadeFor(desired[n], n)
  /\ \A i \in Removing : /\ MadeFor(callerChan[i], NodeOf[i])
                         /\ desired[NodeOf[i]] # callerChan[i]
  /\ \A c \in closed : callerPc[c] # "new"
  /\ RegisteredOpen
  /\ CloseOnce

\* What the loops and the router remember of the map of channels.
TodoInv ==
  \A k \in Conns : \A entry \in loopTodo[k] : MadeFor(entry[2], entry[1])

RouterInv == \A n \in Nodes : routes[n] # NoChan => MadeFor(routes[n], n)

RouteInv == TodoInv /\ RouterInv /\ Isolation

IInv == TypeOK /\ ChannelInv /\ RouteInv
-----------------------------------------------------------------------------
USE NodeOfAssumption, NoChanAssumption, ChanCapAssumption, RefusableAssumption,
    BoundsAssumption
USE DEF Channels, Conns

\* Failing the tokens of a dropped connection keeps both token maps typed.
LEMMA FailTokensType ==
  ASSUME TypeOK, FailTokens
  PROVE  /\ loopToken' \in [Conns -> {"none", "wait", "ok", "error"}]
         /\ callerToken' \in [Callers -> {"none", "wait", "ok", "error"}]
<1>1. /\ loopToken \in [Conns -> {"none", "wait", "ok", "error"}]
      /\ callerToken \in [Callers -> {"none", "wait", "ok", "error"}]
  BY DEF TypeOK
<1>2. loopToken' \in [Conns -> {"none", "wait", "ok", "error"}]
  BY <1>1 DEF FailTokens
<1>3. callerToken' \in [Callers -> {"none", "wait", "ok", "error"}]
  BY <1>1 DEF FailTokens
<1>4. QED
  BY <1>2, <1>3

\* TypeOK holds initially and every step keeps it.
LEMMA TypeInit == Init => TypeOK
<1> SUFFICES ASSUME Init PROVE TypeOK
  OBVIOUS
<1>1. wire \in Seq(Packets) /\ queue \in [Channels -> Seq(Nodes)]
  BY DEF Init
<1>2. /\ 0 \in 0 .. MaxConns /\ 0 \in 0 .. MaxMsgs
  OBVIOUS
<1>3. /\ loopTodo \in [Conns -> SUBSET (Nodes \X Channels)]
      /\ loopActual \in [Conns -> SUBSET Nodes]
      /\ loopNode \in [Conns -> SUBSET Nodes]
  BY DEF Init
<1>4. /\ routes \in [Nodes -> Channels \cup {NoChan}]
      /\ desired \in [Nodes -> Channels \cup {NoChan}]
      /\ callerChan \in [Callers -> Channels \cup {NoChan}]
  BY DEF Init
<1>5. \A i \in Callers : callerPc[i] = "new"
  BY DEF Init
<1>6. /\ loopPc \in [Conns -> {"none", "task", "clone", "range", "await",
                              "select", "done"}]
      /\ loopCtx \in [Conns -> 0 .. MaxConns]
      /\ loopToken \in [Conns -> {"none", "wait", "ok", "error"}]
      /\ callerPc \in [Callers -> {"new", "reading", "unsubscribe",
                                  "awaitUnsubscribe", "close", "removed"}]
      /\ callerToken \in [Callers -> {"none", "wait", "ok", "error"}]
  BY <1>2 DEF Init
<1>7. /\ link \in {"new", "connecting", "up", "reconnecting", "closed"}
      /\ epoch \in 0 .. MaxConns /\ (link = "up" => epoch > 0)
      /\ brokerSubs \subseteq Nodes /\ refused \subseteq Nodes
      /\ connectCallbacks \subseteq Conns
      /\ lostCallbacks \subseteq Conns /\ lostCleanups \subseteq Conns
      /\ actual \subseteq Nodes
      /\ resubscribeCtx \in 0 .. MaxConns /\ cancelResubscribe \in BOOLEAN
      /\ cancelled \subseteq 0 .. MaxConns /\ sdkDone \in BOOLEAN
      /\ closed \subseteq Channels
      /\ disconnectPc \in {"idle", "paho", "cleanup", "done"}
      /\ sent \in 0 .. MaxMsgs
  BY <1>2 DEF Init
<1>8. \A i \in Callers : callerPc[i] = "reading" \/ i \in Removing
                        => callerChan[i] \in Channels
  BY <1>5 DEF Removing
<1>9. QED
  BY <1>1, <1>3, <1>4, <1>6, <1>7, <1>8 DEF TypeOK

\* ... and every step keeps them so.
LEMMA TypeStep == TypeOK /\ [Next]_vars => TypeOK'
<1> SUFFICES ASSUME TypeOK, [Next]_vars PROVE TypeOK'
  OBVIOUS
<1>0. FailTokens
        => /\ loopToken' \in [Conns -> {"none", "wait", "ok", "error"}]
           /\ callerToken' \in [Callers -> {"none", "wait", "ok", "error"}]
  BY FailTokensType
<1> USE DEF TypeOK, Removing, linkVars, brokerVars, ctxVars, loopVars,
            callerVars, msgVars
<1>1. CASE Connect
  BY <1>1 DEF Connect
<1>2. CASE ConnectionUp
  BY <1>2 DEF ConnectionUp
<1>3. CASE LoseConnection
  BY <1>0, <1>3 DEF LoseConnection, DropConnection
<1>4. ASSUME NEW k \in Conns, CallbackStep(k) PROVE TypeOK'
  <2>1. CASE OnConnect(k)
    BY <2>1 DEF OnConnect
  <2>2. CASE OnConnectionLost(k)
    BY <2>2 DEF OnConnectionLost
  <2>3. CASE CleanupAfterLoss(k)
    BY <2>3 DEF CleanupAfterLoss
  <2>4. QED
    BY <1>4, <2>1, <2>2, <2>3 DEF CallbackStep
<1>5. ASSUME NEW k \in Conns, LoopStep(k) PROVE TypeOK'
  <2>1. CASE TaskSkips(k)
    BY <2>1 DEF TaskSkips, EnterSelect
  <2>2. CASE TaskResubscribes(k)
    BY <2>2 DEF TaskResubscribes
  <2>3. CASE CloneMaps(k)
    <3>1. {<<n, desired[n]>> : n \in Registered \ actual}
            \in SUBSET (Nodes \X Channels)
      BY DEF Registered
    <3>2. loopTodo' \in [Conns -> SUBSET (Nodes \X Channels)]
      BY <2>3, <3>1 DEF CloneMaps
    <3>3. QED
      BY <2>3, <3>2 DEF CloneMaps
  <2>4. CASE Subscribe(k)
    <3>1. PICK entry \in loopTodo[k] :
            /\ loopTodo' = [loopTodo EXCEPT ![k] = @ \ {entry}]
            /\ loopNode' = [loopNode EXCEPT ![k] = {entry[1]}]
            /\ routes' = [routes EXCEPT ![entry[1]] = entry[2]]
            /\ wire' = Append(wire, [op |-> "sub", node |-> entry[1],
                                     by |-> k])
      BY <2>4 DEF Subscribe
    <3>2. entry[1] \in Nodes /\ entry[2] \in Channels
      BY <3>1
    <3>3. wire' \in Seq(Packets)
      BY <3>1, <3>2 DEF Packets
    <3>4. /\ loopTodo' \in [Conns -> SUBSET (Nodes \X Channels)]
          /\ loopNode' \in [Conns -> SUBSET Nodes]
          /\ routes' \in [Nodes -> Channels \cup {NoChan}]
      BY <3>1, <3>2
    <3>5. /\ loopToken' \in [Conns -> {"none", "wait", "ok", "error"}]
          /\ loopPc' \in [Conns -> {"none", "task", "clone", "range", "await",
                                   "select", "done"}]
      BY <2>4 DEF Subscribe
    <3>6. QED
      BY <2>4, <3>3, <3>4, <3>5 DEF Subscribe
  <2>5. CASE SubscribeFails(k)
    BY <2>5 DEF SubscribeFails
  <2>6. CASE SubscribeReturns(k)
    BY <2>6 DEF SubscribeReturns
  <2>7. CASE StoreActual(k)
    BY <2>7 DEF StoreActual, EnterSelect
  <2>8. CASE TimerFires(k)
    BY <2>8 DEF TimerFires
  <2>9. CASE LoopExits(k)
    BY <2>9 DEF LoopExits
  <2>10. QED
    BY <1>5, <2>1, <2>2, <2>3, <2>4, <2>5, <2>6, <2>7, <2>8, <2>9
       DEF LoopStep
<1>6. ASSUME NEW i \in Callers, CallerStep(i) PROVE TypeOK'
  <2>1. CASE AddSubscriber(i)
    BY <2>1 DEF AddSubscriber
  <2>2. CASE Receive(i)
    <3>1. /\ callerChan[i] \in Channels
          /\ queue[callerChan[i]] \in Seq(Nodes) /\ queue[callerChan[i]] # << >>
      BY <2>2 DEF Receive
    <3>2. Tail(queue[callerChan[i]]) \in Seq(Nodes)
      BY <3>1
    <3>3. queue' \in [Channels -> Seq(Nodes)]
      BY <2>2, <3>2 DEF Receive
    <3>4. QED
      BY <2>2, <3>3 DEF Receive
  <2>3. CASE RemoveAbsent(i)
    BY <2>3 DEF RemoveAbsent
  <2>4. CASE RemoveSubscriber(i)
    BY <2>4 DEF RemoveSubscriber
  <2>5. CASE Unsubscribe(i)
    <3>1. wire' \in Seq(Packets)
      BY <2>5 DEF Unsubscribe, Packets
    <3>2. QED
      BY <2>5, <3>1 DEF Unsubscribe
  <2>6. CASE UnsubscribeSkipped(i)
    BY <2>6 DEF UnsubscribeSkipped
  <2>7. CASE UnsubscribeReturns(i)
    BY <2>7 DEF UnsubscribeReturns
  <2>8. CASE CloseChannel(i)
    BY <2>8 DEF CloseChannel
  <2>9. QED
    BY <1>6, <2>1, <2>2, <2>3, <2>4, <2>5, <2>6, <2>7, <2>8
       DEF CallerStep, RemovalStep
<1>7. CASE BrokerAnswers
  <2>1. wire # << >> /\ wire' = Tail(wire)
    BY <1>7 DEF BrokerAnswers, Granted, Refused, Unsubscribed
  <2>2. Head(wire) \in Packets /\ wire' \in Seq(Packets)
    BY <2>1
  <2>3. CASE Granted
    BY <1>7, <2>2, <2>3 DEF BrokerAnswers, Granted, Packets
  <2>4. CASE Refused
    BY <1>7, <2>2, <2>4 DEF BrokerAnswers, Refused, Packets
  <2>5. CASE Unsubscribed
    BY <1>7, <2>2, <2>5 DEF BrokerAnswers, Unsubscribed, Packets
  <2>6. QED
    BY <1>7, <2>3, <2>4, <2>5 DEF BrokerAnswers
<1>8. ASSUME NEW n \in Nodes, HandleMessage(n) PROVE TypeOK'
  BY <1>8 DEF HandleMessage
<1>9. CASE ContextDone
  BY <1>9 DEF ContextDone
<1>10. CASE Disconnect
  BY <1>10 DEF Disconnect
<1>11. CASE DisconnectClient
  BY <1>0, <1>11 DEF DisconnectClient, DropConnection
<1>12. CASE CleanupAfterDisconnect
  BY <1>12 DEF CleanupAfterDisconnect
<1>13. CASE UNCHANGED vars
  BY <1>13 DEF vars
<1>14. QED
  BY <1>1, <1>2, <1>3, <1>4, <1>5, <1>6, <1>7, <1>8, <1>9, <1>10, <1>11,
     <1>12, <1>13 DEF Next, DisconnectStep

\* Every variable of the messenger keeps its type: no goroutine, whatever the
\* interleaving, reaches RemoveSubscriber's close or a receive without holding
\* a channel.
THEOREM TypeCorrect == Spec => []TypeOK
<1>1. Init => TypeOK
  BY TypeInit
<1>2. TypeOK /\ [Next]_vars => TypeOK'
  BY TypeStep
<1>3. QED
  BY <1>1, <1>2, PTL DEF Spec

-----------------------------------------------------------------------------
(* Channels are closed once, and never while registered.                   *)

\* No channel is registered, held or closed at first.
LEMMA ChannelInit == Init => ChannelInv
BY DEF Init, ChannelInv, MadeFor, Removing, RegisteredOpen, CloseOnce

\* A step that leaves the map of channels, the callers and the closed channels
\* alone keeps ChannelInv.
LEMMA ChannelFrame ==
  ASSUME ChannelInv, UNCHANGED <<desired, callerPc, callerChan, closed>>
  PROVE  ChannelInv'
BY DEF ChannelInv, MadeFor, Removing, RegisteredOpen, CloseOnce

\* A caller whose node is not registered any more leaves no trace.
LEMMA ChannelAbsent ==
  ASSUME TypeOK, ChannelInv, NEW i \in Callers, RemoveAbsent(i)
  PROVE  ChannelInv'
<1>1. /\ \A j \in Callers : callerPc[j] # "new" => callerPc'[j] # "new"
      /\ \A j \in Removing' : /\ j \in Removing
                               /\ callerChan'[j] = callerChan[j]
      /\ UNCHANGED <<desired, closed>>
  BY DEF RemoveAbsent, Removing, TypeOK
<1>2. closed \subseteq Callers
  BY DEF TypeOK
<1>3. (/\ \A n \in Nodes : desired[n] # NoChan => MadeFor(desired[n], n)
       /\ \A c \in closed : callerPc[c] # "new"
       /\ RegisteredOpen)'
  BY <1>1, <1>2 DEF ChannelInv, RegisteredOpen, MadeFor
<1>4. (\A j \in Removing : /\ MadeFor(callerChan[j], NodeOf[j])
                           /\ desired[NodeOf[j]] # callerChan[j])'
  BY <1>1 DEF ChannelInv, MadeFor
<1>5. CloseOnce'
  BY <1>1 DEF ChannelInv, CloseOnce
<1>6. QED
  BY <1>3, <1>4, <1>5 DEF ChannelInv

\* The caller that unregisters its node's channel takes charge of closing it.
LEMMA ChannelRemoved ==
  ASSUME TypeOK, ChannelInv, NEW i \in Callers, RemoveSubscriber(i)
  PROVE  ChannelInv'
<1> DEFINE n == NodeOf[i]
<1>1. /\ n \in Nodes /\ desired[n] # NoChan
      /\ MadeFor(desired[n], n) /\ desired[n] \notin closed
      /\ \A j \in Callers : NodeOf[j] \in Nodes
  BY DEF RemoveSubscriber, ChannelInv, RegisteredOpen
<1>2. /\ \A j \in Callers : callerPc[j] # "new" => callerPc'[j] # "new"
      /\ i \notin Removing
      /\ \A j \in Removing' : j = i \/ j \in Removing
      /\ UNCHANGED closed
  BY DEF RemoveSubscriber, Removing, TypeOK
<1>3. /\ callerChan'[i] = desired[n]
      /\ \A j \in Callers : j # i => callerChan'[j] = callerChan[j]
      /\ \A m \in Nodes : desired'[m] = IF m = n THEN NoChan ELSE desired[m]
  BY DEF RemoveSubscriber, TypeOK
<1> HIDE DEF n
<1>4. closed \subseteq Callers /\ NoChan \notin closed
  BY DEF TypeOK
<1>5. (/\ \A m \in Nodes : desired[m] # NoChan => MadeFor(desired[m], m)
       /\ \A c \in closed : callerPc[c] # "new"
       /\ RegisteredOpen)'
  BY <1>2, <1>3, <1>4 DEF ChannelInv, RegisteredOpen, MadeFor
<1>6. ASSUME NEW j \in Removing'
      PROVE  (/\ MadeFor(callerChan[j], NodeOf[j])
              /\ desired[NodeOf[j]] # callerChan[j])'
  <2>1. CASE j = i
    <3>1. NodeOf[j] = n /\ callerChan'[j] = desired[n]
      BY <1>3, <2>1 DEF n
    <3>2. desired[n] \in Callers /\ callerPc'[desired[n]] # "new"
          /\ NodeOf[desired[n]] = n
      BY <1>1, <1>2 DEF MadeFor
    <3>3. desired'[n] # desired[n]
      BY <1>1, <1>3
    <3>4. QED
      BY <3>1, <3>2, <3>3 DEF MadeFor
  <2>2. CASE j # i
    <3>1. /\ j \in Callers /\ callerChan'[j] = callerChan[j]
          /\ MadeFor(callerChan[j], NodeOf[j])
          /\ desired[NodeOf[j]] # callerChan[j]
      BY <1>2, <1>3, <2>2 DEF ChannelInv, Removing
    <3>2. callerChan[j] \in Callers /\ callerPc'[callerChan[j]] # "new"
          /\ NodeOf[callerChan[j]] = NodeOf[j]
      BY <1>2, <3>1 DEF MadeFor
    <3>3. desired'[NodeOf[j]] # callerChan[j]
      BY <1>1, <1>3, <3>1, <3>2
    <3>4. QED
      BY <3>1, <3>2, <3>3 DEF MadeFor
  <2>3. QED
    BY <2>1, <2>2
<1>7. ASSUME NEW j \in Removing
      PROVE  j \in Callers /\ callerChan[j] # desired[n]
  BY <1>1 DEF ChannelInv, MadeFor, Removing
<1>8. CloseOnce'
  BY <1>1, <1>2, <1>3, <1>7 DEF ChannelInv, CloseOnce, Removing
<1>9. QED
  BY <1>5, <1>6, <1>8 DEF ChannelInv

\* The callers' own steps: adding, leaving, unsubscribing and closing.
LEMMA ChannelCaller ==
  ASSUME TypeOK, ChannelInv, NEW i \in Callers, CallerStep(i)
  PROVE  ChannelInv'
<1>3. CASE RemoveAbsent(i)
  BY <1>3, ChannelAbsent
<1>4. CASE RemoveSubscriber(i)
  BY <1>4, ChannelRemoved
<1> USE DEF TypeOK, ChannelInv, MadeFor, Removing, RegisteredOpen, CloseOnce
<1>1. CASE AddSubscriber(i)
  BY <1>1 DEF AddSubscriber
<1>2. CASE Receive(i)
  BY <1>2, ChannelFrame DEF Receive, callerVars
<1>5. CASE Unsubscribe(i)
  BY <1>5 DEF Unsubscribe
<1>6. CASE UnsubscribeSkipped(i)
  BY <1>6 DEF UnsubscribeSkipped
<1>7. CASE UnsubscribeReturns(i)
  BY <1>7 DEF UnsubscribeReturns
<1>8. CASE CloseChannel(i)
  BY <1>8 DEF CloseChannel
<1>9. QED
  BY <1>1, <1>2, <1>3, <1>4, <1>5, <1>6, <1>7, <1>8
     DEF CallerStep, RemovalStep

\* Registering, unregistering and closing keep every registered channel open and
\* every removal in charge of a channel of its own.
LEMMA ChannelStep == TypeOK /\ ChannelInv /\ [Next]_vars => ChannelInv'
<1> SUFFICES ASSUME TypeOK, ChannelInv, [Next]_vars PROVE ChannelInv'
  OBVIOUS
<1>1. CASE \E i \in Callers : CallerStep(i)
  BY <1>1, ChannelCaller
<1>2. CASE Connect \/ ConnectionUp \/ LoseConnection \/ BrokerAnswers
  BY <1>2, ChannelFrame
     DEF Connect, ConnectionUp, LoseConnection, BrokerAnswers, callerVars
<1>3. CASE \E k \in Conns : CallbackStep(k) \/ LoopStep(k)
  BY <1>3, ChannelFrame
     DEF CallbackStep, OnConnect, OnConnectionLost, CleanupAfterLoss, LoopStep,
         TaskSkips, TaskResubscribes, CloneMaps, Subscribe, SubscribeFails,
         SubscribeReturns, StoreActual, TimerFires, LoopExits, callerVars
<1>4. CASE \/ \E n \in Nodes : HandleMessage(n)
           \/ ContextDone \/ DisconnectStep
  BY <1>4, ChannelFrame
     DEF HandleMessage, ContextDone, DisconnectStep, Disconnect,
         DisconnectClient, CleanupAfterDisconnect, callerVars
<1>5. CASE UNCHANGED vars
  BY <1>5, ChannelFrame DEF vars, callerVars
<1>6. QED
  BY <1>1, <1>2, <1>3, <1>4, <1>5 DEF Next

\* AddSubscriber never hands out a closed channel.
THEOREM RegisteredChannelsOpen == Spec => []RegisteredOpen
<1>1. Init => TypeOK /\ ChannelInv
  BY TypeInit, ChannelInit
<1>2. (TypeOK /\ ChannelInv) /\ [Next]_vars => (TypeOK /\ ChannelInv)'
  BY TypeStep, ChannelStep
<1>3. TypeOK /\ ChannelInv => RegisteredOpen
  BY DEF ChannelInv
<1>4. QED
  BY <1>1, <1>2, <1>3, PTL DEF Spec

\* No interleaving of RemoveSubscriber calls closes a channel twice, however
\* many instances share a node identifier.
THEOREM ChannelsClosedOnce == Spec => []CloseOnce
<1>1. Init => TypeOK /\ ChannelInv
  BY TypeInit, ChannelInit
<1>2. (TypeOK /\ ChannelInv) /\ [Next]_vars => (TypeOK /\ ChannelInv)'
  BY TypeStep, ChannelStep
<1>3. TypeOK /\ ChannelInv => CloseOnce
  BY DEF ChannelInv
<1>4. QED
  BY <1>1, <1>2, <1>3, PTL DEF Spec

-----------------------------------------------------------------------------
(* Messages stay with their node.                                          *)

\* No message is under way at first.
LEMMA RouteInit == Init => RouteInv
BY DEF Init, RouteInv, TodoInv, RouterInv, Isolation, MadeFor

\* Callers only grow the set of channels made, and only shorten queues.
LEMMA MadeForStable ==
  ASSUME TypeOK, [Next]_vars, NEW c, NEW n, MadeFor(c, n)
  PROVE  MadeFor(c, n)'
<1> USE DEF TypeOK, MadeFor
<1>1. CASE \E i \in Callers : CallerStep(i)
  BY <1>1 DEF CallerStep, RemovalStep, AddSubscriber, Receive, RemoveAbsent,
              RemoveSubscriber, Unsubscribe, UnsubscribeSkipped,
              UnsubscribeReturns, CloseChannel, callerVars
<1>2. CASE ~\E i \in Callers : CallerStep(i)
  <2>1. UNCHANGED callerPc
    BY <1>2 DEF Next, vars, callerVars, Connect, ConnectionUp, LoseConnection,
       BrokerAnswers, CallbackStep, OnConnect, OnConnectionLost,
       CleanupAfterLoss, LoopStep, TaskSkips, TaskResubscribes, CloneMaps,
       Subscribe, SubscribeFails, SubscribeReturns, StoreActual, TimerFires,
       LoopExits, HandleMessage, ContextDone, DisconnectStep, Disconnect,
       DisconnectClient, CleanupAfterDisconnect
  <2>2. QED
    BY <2>1
<1>3. QED
  BY <1>1, <1>2

\* Every queue changes by losing its head or by gaining a message of its node.
LEMMA IsolationFrame ==
  ASSUME Isolation, UNCHANGED queue
  PROVE  Isolation'
BY DEF Isolation

\* A message that enters a channel is one of the node the channel was made for.
LEMMA IsolationStep == TypeOK /\ RouteInv /\ [Next]_vars => Isolation'
<1> SUFFICES ASSUME TypeOK, RouteInv, [Next]_vars PROVE Isolation'
  OBVIOUS
<1>0. Isolation
  BY DEF RouteInv
<1>1. ASSUME NEW i \in Callers, Receive(i) PROVE Isolation'
  <2>1. /\ callerChan[i] \in Channels
        /\ queue[callerChan[i]] \in Seq(Nodes) /\ queue[callerChan[i]] # << >>
        /\ queue' = [queue EXCEPT ![callerChan[i]] = Tail(@)]
        /\ queue \in [Channels -> Seq(Nodes)]
    BY <1>1 DEF Receive, TypeOK
  <2>2. ASSUME NEW c \in Channels, NEW m \in 1 .. Len(queue'[c])
        PROVE  queue'[c][m] = NodeOf[c]
    <3>1. CASE c # callerChan[i]
      BY <1>0, <2>1, <2>2, <3>1 DEF Isolation
    <3>2. CASE c = callerChan[i]
      <4>1. queue'[c] = Tail(queue[c])
        BY <2>1, <3>2
      <4>2. m + 1 \in 1 .. Len(queue[c]) /\ queue'[c][m] = queue[c][m + 1]
        BY <2>1, <2>2, <3>2, <4>1
      <4>3. QED
        BY <1>0, <4>2 DEF Isolation
    <3>3. QED
      BY <3>1, <3>2
  <2>3. QED
    BY <2>2 DEF Isolation
<1>2. ASSUME NEW n \in Nodes, HandleMessage(n) PROVE Isolation'
  <2>1. CASE queue' = queue
    BY <1>0, <2>1, IsolationFrame
  <2>2. CASE queue' # queue
    <3>1. PICK c \in Channels : /\ c = routes[n] /\ MadeFor(c, n)
                               /\ queue' = [queue EXCEPT ![c] = Append(@, n)]
      BY <1>2, <2>2 DEF HandleMessage, RouteInv, RouterInv, MadeFor
    <3>2. queue \in [Channels -> Seq(Nodes)] /\ NodeOf[c] = n
      BY <3>1 DEF TypeOK, MadeFor
    <3>3. ASSUME NEW d \in Channels, NEW m \in 1 .. Len(queue'[d])
          PROVE  queue'[d][m] = NodeOf[d]
      <4>1. CASE d # c
        BY <1>0, <3>1, <3>2, <3>3, <4>1 DEF Isolation
      <4>2. CASE d = c
        <5>1. queue[c] \in Seq(Nodes) /\ queue'[c] = Append(queue[c], n)
          BY <3>1, <3>2
        <5>2. m \in 1 .. Len(queue[c]) + 1
          BY <3>3, <4>2, <5>1
        <5>3. CASE m = Len(queue[c]) + 1
          BY <3>2, <4>2, <5>1, <5>3
        <5>4. CASE m # Len(queue[c]) + 1
          <6>1. m \in 1 .. Len(queue[c]) /\ queue'[c][m] = queue[c][m]
            BY <5>1, <5>2, <5>4
          <6>2. QED
            BY <1>0, <4>2, <6>1 DEF Isolation
        <5>5. QED
          BY <5>3, <5>4
      <4>3. QED
        BY <4>1, <4>2
    <3>4. QED
      BY <3>3 DEF Isolation
  <2>3. QED
    BY <2>1, <2>2
<1>3. CASE /\ ~\E i \in Callers : Receive(i)
           /\ ~\E n \in Nodes : HandleMessage(n)
  <2>1. UNCHANGED queue
    BY <1>3 DEF Next, vars, msgVars, Connect, ConnectionUp, LoseConnection,
       BrokerAnswers, CallbackStep, OnConnect, OnConnectionLost,
       CleanupAfterLoss, LoopStep, TaskSkips, TaskResubscribes, CloneMaps,
       Subscribe, SubscribeFails, SubscribeReturns, StoreActual, TimerFires,
       LoopExits, CallerStep, RemovalStep, AddSubscriber, RemoveAbsent,
       RemoveSubscriber, Unsubscribe, UnsubscribeSkipped, UnsubscribeReturns,
       CloseChannel, ContextDone, DisconnectStep, Disconnect,
       DisconnectClient, CleanupAfterDisconnect
  <2>2. QED
    BY <1>0, <2>1, IsolationFrame
<1>4. QED
  BY <1>1, <1>2, <1>3

\* A route or a clone made from the map of channels pairs a node with a channel
\* made for it.
LEMMA RouteStep ==
  TypeOK /\ ChannelInv /\ RouteInv /\ [Next]_vars => RouteInv'
<1> SUFFICES ASSUME TypeOK, ChannelInv, RouteInv, [Next]_vars PROVE RouteInv'
  OBVIOUS
<1>0. TodoInv /\ RouterInv
  BY DEF RouteInv
<1>a. \A c, n : MadeFor(c, n) => MadeFor(c, n)'
  BY MadeForStable
<1>b. /\ loopTodo \in [Conns -> SUBSET (Nodes \X Channels)]
      /\ routes \in [Nodes -> Channels \cup {NoChan}]
  BY DEF TypeOK
<1>1. ASSUME NEW k \in Conns, CloneMaps(k) PROVE TodoInv' /\ RouterInv'
  <2>1. \A entry \in {<<n, desired[n]>> : n \in Registered \ actual} :
          MadeFor(entry[2], entry[1])
    BY DEF ChannelInv, Registered
  <2>2. /\ loopTodo' = [loopTodo EXCEPT
                          ![k] = {<<n, desired[n]>> : n \in Registered \ actual}]
        /\ routes' = routes
    BY <1>1 DEF CloneMaps
  <2>3. \A j \in Conns : \A entry \in loopTodo'[j] : MadeFor(entry[2], entry[1])
    BY <1>0, <1>b, <2>1, <2>2 DEF TodoInv
  <2>4. QED
    BY <1>0, <1>a, <2>2, <2>3 DEF TodoInv, RouterInv
<1>2. ASSUME NEW k \in Conns, Subscribe(k) PROVE TodoInv' /\ RouterInv'
  <2>1. PICK entry \in loopTodo[k] :
          /\ loopTodo' = [loopTodo EXCEPT ![k] = @ \ {entry}]
          /\ routes' = [routes EXCEPT ![entry[1]] = entry[2]]
    BY <1>2 DEF Subscribe
  <2>2. MadeFor(entry[2], entry[1])
    BY <1>0, <2>1 DEF TodoInv
  <2>3. \A j \in Conns : loopTodo'[j] \subseteq loopTodo[j]
    BY <1>b, <2>1
  <2>4. \A n \in Nodes : routes'[n] # NoChan => MadeFor(routes'[n], n)
    BY <1>0, <1>b, <2>1, <2>2 DEF RouterInv
  <2>5. QED
    BY <1>0, <1>a, <2>3, <2>4 DEF TodoInv, RouterInv
<1>3. ASSUME ~\E k \in Conns : CloneMaps(k) \/ Subscribe(k)
      PROVE  TodoInv' /\ RouterInv'
  <2>1. \A j \in Conns : loopTodo'[j] \subseteq loopTodo[j]
    <3>1. CASE UNCHANGED loopTodo
      BY <3>1
    <3>2. ASSUME NEW k \in Conns, SubscribeFails(k) \/ StoreActual(k)
          PROVE  \A j \in Conns : loopTodo'[j] \subseteq loopTodo[j]
      BY <1>b, <3>2 DEF SubscribeFails, StoreActual
    <3>3. CASE ~\E k \in Conns : SubscribeFails(k) \/ StoreActual(k)
      <4>1. UNCHANGED loopTodo
        BY <1>3, <3>3 DEF Next, vars, loopVars, Connect, ConnectionUp,
           LoseConnection, BrokerAnswers, CallbackStep, OnConnect,
           OnConnectionLost, CleanupAfterLoss, LoopStep, TaskSkips,
           TaskResubscribes, SubscribeReturns, TimerFires, LoopExits,
           HandleMessage, CallerStep, RemovalStep, AddSubscriber, Receive,
           RemoveAbsent, RemoveSubscriber, Unsubscribe, UnsubscribeSkipped,
           UnsubscribeReturns, CloseChannel, ContextDone, DisconnectStep,
           Disconnect, DisconnectClient, CleanupAfterDisconnect
      <4>2. QED
        BY <4>1
    <3>4. QED
      BY <3>2, <3>3
  <2>2. \A n \in Nodes : routes'[n] \in {routes[n], NoChan}
    <3>1. ASSUME NEW i \in Callers, Unsubscribe(i)
          PROVE  \A n \in Nodes : routes'[n] \in {routes[n], NoChan}
      BY <1>b, <3>1 DEF Unsubscribe
    <3>2. CASE ~\E i \in Callers : Unsubscribe(i)
      <4>1. UNCHANGED routes
        BY <1>3, <3>2 DEF Next, vars, Connect, ConnectionUp,
           LoseConnection, BrokerAnswers, CallbackStep, OnConnect,
           OnConnectionLost, CleanupAfterLoss, LoopStep, TaskSkips,
           TaskResubscribes, SubscribeFails, SubscribeReturns, StoreActual,
           TimerFires, LoopExits, HandleMessage, CallerStep, RemovalStep,
           AddSubscriber, Receive, RemoveAbsent, RemoveSubscriber,
           UnsubscribeSkipped, UnsubscribeReturns, CloseChannel, ContextDone,
           DisconnectStep, Disconnect, DisconnectClient,
           CleanupAfterDisconnect
      <4>2. QED
        BY <4>1
    <3>3. QED
      BY <3>1, <3>2
  <2>3. TodoInv'
    BY <1>0, <1>a, <2>1 DEF TodoInv, MadeFor
  <2>4. RouterInv'
    BY <1>0, <1>a, <2>2 DEF RouterInv, MadeFor
  <2>5. QED
    BY <2>3, <2>4
<1>4. TodoInv' /\ RouterInv'
  BY <1>1, <1>2, <1>3
<1>5. Isolation'
  BY IsolationStep
<1>6. QED
  BY <1>4, <1>5 DEF RouteInv

\* The invariant is inductive.
LEMMA IInvInit == Init => IInv
BY TypeInit, ChannelInit, RouteInit DEF IInv

\* ... and every step keeps it.
LEMMA IInvStep == IInv /\ [Next]_vars => IInv'
BY TypeStep, ChannelStep, RouteStep DEF IInv

\* The inductive invariant holds in every reachable state of the messenger.
THEOREM Invariance == Spec => []IInv
BY IInvInit, IInvStep, PTL DEF Spec

\* No message ever reaches the channel of another node: not through a handler
\* installed from a stale clone, not after the node left and came back.
THEOREM MessagesIsolated == Spec => []Isolation
<1>1. IInv => Isolation
  BY DEF IInv, RouteInv
<1>2. QED
  BY Invariance, <1>1, PTL
=============================================================================
