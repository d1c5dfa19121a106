----------------------- MODULE MessengerHonestyProofs -----------------------
(***************************************************************************)
(* On the first connection, before any instance leaves, the `actual` map   *)
(* of the MQTT messenger lists what the broker has answered, and nothing   *)
(* else.  The proof follows the book through the one loop that runs by     *)
(* then: its two clones, the packet it has under way, and the token it     *)
(* waits for.  The second part holds on every connection: whoever waits    *)
(* for a token has a packet under way.                                     *)
(***************************************************************************)
EXTENDS MessengerProofs

USE NodeOfAssumption, NoChanAssumption, ChanCapAssumption, RefusableAssumption,
    BoundsAssumption
USE DEF Channels, Conns

FirstConnection == epoch = 1 /\ link = "up" /\ ~RemovalStarted

\* The broker has granted or refused the node's subscription, and its route is
\* the channel registered for it.
Answered(n) ==
  /\ n \in brokerSubs \cup refused
  /\ desired[n] # NoChan /\ routes[n] = desired[n]

\* A loop starts once, after its connection came up; before the first there is
\* nothing to book.
LoopsInv ==
  /\ connectCallbacks \subseteq 1 .. epoch
  /\ \A k \in Conns :
       /\ loopPc[k] # "none" => k <= epoch /\ k \notin connectCallbacks
       /\ loopPc[k] = "none" => loopTodo[k] = {} /\ loopActual[k] = {}
  /\ epoch = 0 => wire = << >> /\ actual = {}

\* The loop awaits the SUBACK for n, which is still to come or has been given.
Awaits(n) ==
  /\ loopNode[1] = {n} /\ desired[n] # NoChan /\ routes[n] = desired[n]
  /\ \/ /\ loopToken[1] = "wait"
        /\ wire = << [op |-> "sub", node |-> n, by |-> 1] >>
     \/ /\ loopToken[1] \in {"ok", "error"} /\ wire = << >>
        /\ loopToken[1] = "ok" => n \in brokerSubs \cup refused

\* What the book, the loop's clones of it and the network agree on.
BookInv ==
  /\ \A n \in actual \cup loopActual[1] : Answered(n)
  /\ \A entry \in loopTodo[1] : desired[entry[1]] = entry[2]
  /\ loopPc[1] # "await" => wire = << >>
  /\ loopPc[1] = "await" => \E n \in Nodes : Awaits(n)

HonestInv == LoopsInv /\ (FirstConnection => BookInv)

-----------------------------------------------------------------------------
(* The loops.                                                              *)

\* No loop at first.
LEMMA LoopsInit == Init => LoopsInv
BY DEF Init, LoopsInv

\* Every step keeps LoopsInv: a loop step belongs to a loop that was started.
LEMMA LoopsStep == TypeOK /\ LoopsInv /\ [Next]_vars => LoopsInv'
<1> SUFFICES ASSUME TypeOK, LoopsInv, [Next]_vars
             PROVE  LoopsInv'
  OBVIOUS
<1>0. /\ epoch \in 0 .. MaxConns /\ (link = "up" => epoch > 0)
      /\ loopPc \in [Conns -> {"none", "task", "clone", "range", "await",
                               "select", "done"}]
      /\ loopTodo \in [Conns -> SUBSET (Nodes \X Channels)]
      /\ loopActual \in [Conns -> SUBSET Nodes]
  BY DEF TypeOK
<1>1. CASE ConnectionUp
  BY <1>0, <1>1 DEF ConnectionUp, LoopsInv, brokerVars, loopVars
<1>2. ASSUME NEW k \in Conns, CallbackStep(k)
      PROVE  LoopsInv'
  <2>1. CASE OnConnect(k)
    BY <1>0, <2>1 DEF OnConnect, LoopsInv, brokerVars
  <2>2. CASE OnConnectionLost(k) \/ CleanupAfterLoss(k)
    BY <2>2 DEF OnConnectionLost, CleanupAfterLoss, LoopsInv, brokerVars,
                loopVars, linkVars
  <2>3. QED
    BY <1>2, <2>1, <2>2 DEF CallbackStep
<1>3. ASSUME NEW k \in Conns, LoopStep(k)
      PROVE  LoopsInv'
  <2>1. loopPc[k] # "none" /\ epoch > 0
    BY <1>0, <1>3 DEF LoopsInv, LoopStep, TaskSkips, TaskResubscribes,
       CloneMaps, Subscribe, SubscribeFails, SubscribeReturns, StoreActual,
       TimerFires, LoopExits
  <2>2. /\ UNCHANGED <<epoch, connectCallbacks>>
        /\ \A j \in Conns :
             IF j = k THEN loopPc'[j] # "none"
             ELSE /\ loopPc'[j] = loopPc[j] /\ loopTodo'[j] = loopTodo[j]
                  /\ loopActual'[j] = loopActual[j]
    BY <1>0, <1>3, <2>1 DEF LoopStep, TaskSkips, TaskResubscribes, EnterSelect,
       CloneMaps, Subscribe, SubscribeFails, SubscribeReturns, StoreActual,
       TimerFires, LoopExits, linkVars
  <2>3. QED
    BY <2>1, <2>2 DEF LoopsInv
<1>4. ASSUME NEW i \in Callers, CallerStep(i)
      PROVE  LoopsInv'
  <2>1. UNCHANGED <<epoch, connectCallbacks, loopPc, loopTodo, loopActual>>
    BY <1>4 DEF CallerStep, RemovalStep, AddSubscriber, Receive, RemoveAbsent,
       RemoveSubscriber, Unsubscribe, UnsubscribeSkipped, UnsubscribeReturns,
       CloseChannel, linkVars, loopVars
  <2>2. epoch = 0 => wire' = wire /\ actual' \subseteq actual
    BY <1>0, <1>4 DEF CallerStep, RemovalStep, AddSubscriber, Receive,
       RemoveAbsent, RemoveSubscriber, Unsubscribe, UnsubscribeSkipped,
       UnsubscribeReturns, CloseChannel, brokerVars
  <2>3. QED
    BY <2>1, <2>2 DEF LoopsInv
<1>5. CASE BrokerAnswers
  BY <1>0, <1>5 DEF BrokerAnswers, LoopsInv, linkVars
<1>6. CASE LoseConnection \/ DisconnectClient
  BY <1>6 DEF LoseConnection, DisconnectClient, DropConnection, LoopsInv,
              ctxVars
<1>7. CASE \/ Connect \/ ContextDone \/ Disconnect \/ CleanupAfterDisconnect
           \/ \E n \in Nodes : HandleMessage(n)
           \/ UNCHANGED vars
  BY <1>7 DEF Connect, ContextDone, Disconnect, CleanupAfterDisconnect,
              HandleMessage, vars, LoopsInv, linkVars, brokerVars, loopVars
<1>8. QED
  BY <1>1, <1>2, <1>3, <1>4, <1>5, <1>6, <1>7 DEF Next, DisconnectStep

-----------------------------------------------------------------------------
(* The first connection.                                                   *)

\* Nothing but ConnectionUp begins it, and a caller in it does nothing but
\* subscribe and receive.
LEMMA FirstConnectionStep ==
  ASSUME TypeOK, [Next]_vars, FirstConnection', ~ConnectionUp
  PROVE  /\ FirstConnection
         /\ ~LoseConnection /\ ~DisconnectClient
         /\ \A i \in Callers :
              CallerStep(i) => AddSubscriber(i) \/ Receive(i)
<1>1. link = "up" /\ epoch = 1 /\ ~LoseConnection /\ ~DisconnectClient
  BY DEF FirstConnection, Next, vars, linkVars, Connect, LoseConnection,
     DropConnection, BrokerAnswers, CallbackStep, OnConnect, OnConnectionLost,
     CleanupAfterLoss, LoopStep, TaskSkips, TaskResubscribes, CloneMaps,
     Subscribe, SubscribeFails, SubscribeReturns, StoreActual, TimerFires,
     LoopExits, HandleMessage, CallerStep, RemovalStep, AddSubscriber, Receive,
     RemoveAbsent, RemoveSubscriber, Unsubscribe, UnsubscribeSkipped,
     UnsubscribeReturns, CloseChannel, ContextDone, DisconnectStep, Disconnect,
     DisconnectClient, CleanupAfterDisconnect
<1>2. ASSUME NEW i \in Callers, CallerStep(i)
      PROVE  AddSubscriber(i) \/ Receive(i)
  <2>1. ASSUME RemoveAbsent(i) \/ RemoveSubscriber(i) \/ RemovalStep(i)
        PROVE  RemovalStarted'
    BY <2>1 DEF RemoveAbsent, RemoveSubscriber, RemovalStep, Unsubscribe,
       UnsubscribeSkipped, UnsubscribeReturns, CloseChannel, RemovalStarted,
       Removing, TypeOK
  <2>2. QED
    BY <1>2, <2>1 DEF CallerStep, FirstConnection
<1>3. ~RemovalStarted
  <2>1. CASE \E i \in Callers : AddSubscriber(i) \/ Receive(i)
    BY <2>1 DEF AddSubscriber, Receive, FirstConnection, RemovalStarted,
                Removing, TypeOK, callerVars
  <2>2. CASE ~\E i \in Callers : CallerStep(i)
    <3>1. UNCHANGED callerPc
      BY <2>2 DEF Next, vars, callerVars, Connect, ConnectionUp,
         LoseConnection, BrokerAnswers, CallbackStep, OnConnect,
         OnConnectionLost, CleanupAfterLoss, LoopStep, TaskSkips,
         TaskResubscribes, CloneMaps, Subscribe, SubscribeFails,
         SubscribeReturns, StoreActual, TimerFires, LoopExits, HandleMessage,
         ContextDone, DisconnectStep, Disconnect, DisconnectClient,
         CleanupAfterDisconnect
    <3>2. QED
      BY <3>1 DEF FirstConnection, RemovalStarted, Removing
  <2>3. QED
    BY <1>2, <2>1, <2>2
<1>4. QED
  BY <1>1, <1>2, <1>3 DEF FirstConnection

\* A step that leaves the map of channels, the router, the broker and the loop
\* alone keeps the book, also when it empties it.
LEMMA BookFrame ==
  ASSUME BookInv, actual' \subseteq actual,
         UNCHANGED <<brokerVars, routes, desired, loopVars>>
  PROVE  BookInv'
BY DEF BookInv, Answered, Awaits, loopVars, brokerVars

\* The one loop's steps keep the book.
LEMMA BookLoop ==
  ASSUME TypeOK, LoopsInv, BookInv, FirstConnection, NEW k \in Conns, LoopStep(k)
  PROVE  BookInv'
<1>0. k = 1 /\ 1 \in Conns
  BY DEF LoopsInv, FirstConnection, LoopStep, TaskSkips, TaskResubscribes,
     CloneMaps, Subscribe, SubscribeFails, SubscribeReturns, StoreActual,
     TimerFires, LoopExits
<1>t. /\ loopPc \in [Conns -> {"none", "task", "clone", "range", "await",
                               "select", "done"}]
      /\ loopTodo \in [Conns -> SUBSET (Nodes \X Channels)]
      /\ loopActual \in [Conns -> SUBSET Nodes]
      /\ loopNode \in [Conns -> SUBSET Nodes]
      /\ loopToken \in [Conns -> {"none", "wait", "ok", "error"}]
      /\ routes \in [Nodes -> Channels \cup {NoChan}]
      /\ desired \in [Nodes -> Channels \cup {NoChan}]
      /\ actual \subseteq Nodes
      /\ link = "up"
  BY DEF TypeOK, FirstConnection
<1>1. CASE TaskSkips(1) \/ TaskResubscribes(1) \/ TimerFires(1) \/ LoopExits(1)
  <2>1. /\ loopPc[1] # "await" /\ loopPc'[1] # "await"
        /\ UNCHANGED <<actual, wire, brokerSubs, refused, routes, desired,
                       loopTodo, loopActual>>
    BY <1>0, <1>t, <1>1 DEF TaskSkips, TaskResubscribes, TimerFires, LoopExits,
       EnterSelect, brokerVars
  <2>2. QED
    BY <2>1 DEF BookInv, Answered
<1>2. CASE CloneMaps(1)
  <2>1. /\ loopPc[1] = "clone" /\ loopPc'[1] = "range"
        /\ loopTodo'[1] = {<<n, desired[n]>> : n \in Registered \ actual}
        /\ loopActual'[1] = actual
        /\ UNCHANGED <<actual, wire, brokerSubs, refused, routes, desired>>
    BY <1>0, <1>t, <1>2 DEF CloneMaps, brokerVars
  <2>2. \A entry \in loopTodo'[1] : desired[entry[1]] = entry[2]
    BY <2>1
  <2>3. QED
    BY <2>1, <2>2 DEF BookInv, Answered
<1>3. CASE Subscribe(1)
  <2>1. PICK entry \in loopTodo[1] :
          /\ loopTodo' = [loopTodo EXCEPT ![1] = @ \ {entry}]
          /\ loopNode' = [loopNode EXCEPT ![1] = {entry[1]}]
          /\ routes' = [routes EXCEPT ![entry[1]] = entry[2]]
          /\ wire' = Append(wire, [op |-> "sub", node |-> entry[1], by |-> 1])
    BY <1>3 DEF Subscribe
  <2>2. /\ entry[1] \in Nodes /\ entry[2] \in Channels
        /\ desired[entry[1]] = entry[2]
    BY <1>0, <1>t, <2>1 DEF BookInv
  <2>3. /\ loopPc[1] = "range" /\ loopPc'[1] = "await"
        /\ loopToken'[1] = "wait"
        /\ UNCHANGED <<actual, brokerSubs, refused, desired, loopActual>>
    BY <1>0, <1>t, <1>3 DEF Subscribe
  <2>4. wire' = << [op |-> "sub", node |-> entry[1], by |-> 1] >>
    BY <2>1, <2>3 DEF BookInv
  <2>5. /\ loopNode'[1] = {entry[1]}
        /\ loopTodo'[1] \subseteq loopTodo[1]
        /\ \A n \in Nodes :
             routes'[n] = IF n = entry[1] THEN desired[n] ELSE routes[n]
    BY <1>0, <1>t, <2>1, <2>2
  <2>6. Awaits(entry[1])'
    BY <2>2, <2>3, <2>4, <2>5 DEF Awaits
  <2>7. \A n \in actual' \cup loopActual'[1] : Answered(n)'
    BY <1>0, <1>t, <2>3, <2>5 DEF BookInv, Answered
  <2>8. QED
    BY <2>2, <2>3, <2>5, <2>6, <2>7 DEF BookInv
<1>4. CASE SubscribeReturns(1)
  <2>1. loopPc[1] = "await" /\ loopToken[1] # "wait"
    BY <1>4 DEF SubscribeReturns
  <2>2. PICK n \in Nodes : Awaits(n)
    BY <2>1 DEF BookInv
  <2>3. /\ wire = << >> /\ loopNode[1] = {n}
        /\ loopToken[1] = "ok" => Answered(n)
    BY <2>1, <2>2 DEF Awaits, Answered
  <2>4. /\ loopPc'[1] = "range"
        /\ loopActual'[1] = IF loopToken[1] = "ok"
                            THEN loopActual[1] \cup loopNode[1]
                            ELSE loopActual[1]
        /\ UNCHANGED <<actual, wire, brokerSubs, refused, routes, desired,
                       loopTodo>>
    BY <1>0, <1>t, <1>4 DEF SubscribeReturns, brokerVars
  <2>5. QED
    BY <2>3, <2>4 DEF BookInv, Answered
<1>5. CASE StoreActual(1)
  <2>1. /\ loopPc[1] = "range" /\ loopPc'[1] = "select"
        /\ actual' = loopActual[1] /\ loopActual'[1] = {} /\ loopTodo'[1] = {}
        /\ UNCHANGED <<wire, brokerSubs, refused, routes, desired>>
    BY <1>0, <1>t, <1>5 DEF StoreActual, EnterSelect, brokerVars
  <2>2. QED
    BY <2>1 DEF BookInv, Answered
<1>6. ~SubscribeFails(1)
  BY <1>t DEF SubscribeFails
<1>7. QED
  BY <1>0, <1>1, <1>2, <1>3, <1>4, <1>5, <1>6 DEF LoopStep

\* The broker's answer is the one to the only packet under way.
LEMMA BookBroker ==
  ASSUME TypeOK, BookInv, FirstConnection, BrokerAnswers
  PROVE  BookInv'
<1>1. wire # << >> /\ wire' = Tail(wire)
  BY DEF BrokerAnswers, Granted, Refused, Unsubscribed
<1>2. loopPc[1] = "await" /\ 1 \in Conns
  BY <1>1 DEF BookInv
<1>3. PICK n \in Nodes : Awaits(n)
  BY <1>2 DEF BookInv
<1>4. /\ loopToken[1] = "wait" /\ loopNode[1] = {n}
      /\ wire = << [op |-> "sub", node |-> n, by |-> 1] >>
      /\ desired[n] # NoChan /\ routes[n] = desired[n]
  BY <1>1, <1>3 DEF Awaits
<1>5. /\ Head(wire).op = "sub" /\ Head(wire).node = n /\ Head(wire).by = 1
      /\ wire' = << >>
  BY <1>1, <1>4
<1>6. /\ UNCHANGED <<loopPc, loopNode, loopTodo, loopActual, actual, routes,
                     desired>>
      /\ loopToken \in [Conns -> {"none", "wait", "ok", "error"}]
  BY DEF BrokerAnswers, TypeOK
<1>7. /\ loopToken'[1] = "ok"
      /\ (brokerSubs \cup refused)' = brokerSubs \cup refused \cup {n}
  BY <1>2, <1>5, <1>6 DEF BrokerAnswers, Granted, Refused, Unsubscribed
<1>8. Awaits(n)'
  BY <1>4, <1>5, <1>6, <1>7 DEF Awaits
<1>9. QED
  BY <1>2, <1>5, <1>6, <1>7, <1>8 DEF BookInv, Answered

\* A subscriber that joins registers a channel where there was none.
LEMMA BookAdds ==
  ASSUME TypeOK, BookInv, NEW i \in Callers, AddSubscriber(i)
  PROVE  BookInv'
<1>1. /\ \A n \in Nodes : desired[n] # NoChan => desired'[n] = desired[n]
      /\ UNCHANGED <<actual, wire, brokerSubs, refused, routes, loopVars>>
  BY DEF AddSubscriber, TypeOK, brokerVars
<1>2. /\ actual \cup loopActual[1] \subseteq Nodes
      /\ loopTodo[1] \subseteq Nodes \X Channels
  BY DEF TypeOK
<1>3. \A n \in actual \cup loopActual[1] : Answered(n)'
  BY <1>1, <1>2 DEF BookInv, Answered
<1>4. \A entry \in loopTodo[1] : desired'[entry[1]] = entry[2]
  BY <1>1, <1>2 DEF BookInv
<1>5. \A n \in Nodes : Awaits(n) => Awaits(n)'
  BY <1>1 DEF Awaits, loopVars
<1>6. QED
  BY <1>1, <1>3, <1>4, <1>5 DEF BookInv, loopVars

\* The first connection begins with an empty book.
LEMMA BookBegins ==
  ASSUME TypeOK, LoopsInv, ConnectionUp, FirstConnection'
  PROVE  BookInv'
<1>1. epoch = 0
  BY DEF ConnectionUp, FirstConnection, TypeOK
<1>2. /\ 1 \in Conns /\ loopPc[1] = "none" /\ loopTodo[1] = {}
      /\ loopActual[1] = {} /\ wire = << >> /\ actual = {}
  BY <1>1 DEF LoopsInv
<1>3. UNCHANGED <<actual, wire, loopVars>>
  BY DEF ConnectionUp, brokerVars
<1>4. QED
  BY <1>2, <1>3 DEF BookInv, loopVars

\* Every step within the first connection keeps the book.
LEMMA HonestStep == TypeOK /\ HonestInv /\ [Next]_vars => HonestInv'
<1> SUFFICES ASSUME TypeOK, HonestInv, [Next]_vars
             PROVE  HonestInv'
  OBVIOUS
<1>1. LoopsInv /\ LoopsInv'
  BY LoopsStep DEF HonestInv
<1>2. ASSUME FirstConnection', ~ConnectionUp
      PROVE  BookInv'
  <2>1. /\ FirstConnection /\ BookInv
        /\ ~LoseConnection /\ ~DisconnectClient
        /\ \A i \in Callers : CallerStep(i) => AddSubscriber(i) \/ Receive(i)
    BY <1>2, FirstConnectionStep DEF HonestInv
  <2>2. ASSUME NEW k \in Conns, CallbackStep(k)
        PROVE  BookInv'
    <3>1. CASE OnConnect(k)
      <4>1. k = 1 /\ 1 \in Conns /\ loopPc[1] = "none"
        BY <1>1, <2>1, <3>1 DEF OnConnect, LoopsInv, FirstConnection
      <4>2. /\ loopPc'[1] = "task"
            /\ UNCHANGED <<actual, wire, brokerSubs, refused, routes, desired,
                           loopTodo, loopActual>>
        BY <3>1, <4>1 DEF OnConnect, TypeOK, brokerVars
      <4>3. QED
        BY <2>1, <4>1, <4>2 DEF BookInv, Answered
    <3>2. CASE OnConnectionLost(k) \/ CleanupAfterLoss(k)
      BY <2>1, <3>2, BookFrame DEF OnConnectionLost, CleanupAfterLoss, brokerVars
    <3>3. QED
      BY <2>2, <3>1, <3>2 DEF CallbackStep
  <2>3. ASSUME NEW k \in Conns, LoopStep(k)
        PROVE  BookInv'
    BY <1>1, <2>1, <2>3, BookLoop
  <2>4. ASSUME NEW i \in Callers, CallerStep(i)
        PROVE  BookInv'
    <3>1. CASE AddSubscriber(i)
      BY <2>1, <3>1, BookAdds
    <3>2. CASE Receive(i)
      BY <2>1, <3>2, BookFrame DEF Receive, brokerVars
    <3>3. QED
      BY <2>1, <2>4, <3>1, <3>2
  <2>5. CASE BrokerAnswers
    BY <2>1, <2>5, BookBroker
  <2>6. CASE \/ Connect \/ ContextDone \/ Disconnect \/ CleanupAfterDisconnect
             \/ \E n \in Nodes : HandleMessage(n)
             \/ UNCHANGED vars
    BY <2>1, <2>6, BookFrame
       DEF Connect, ContextDone, Disconnect, CleanupAfterDisconnect,
           HandleMessage, vars, brokerVars
  <2>7. QED
    BY <1>2, <2>1, <2>2, <2>3, <2>4, <2>5, <2>6 DEF Next, DisconnectStep
<1>3. FirstConnection' => BookInv'
  BY <1>1, <1>2, BookBegins
<1>4. QED
  BY <1>1, <1>3 DEF HonestInv

\* A node that `actual` lists on the first connection, before any instance has
\* left, is routed to its registered channel and has the broker's answer: no
\* request that failed or is still under way, and no stale clone, enters the
\* book by then.
THEOREM FirstConnectionIsBooked == Spec => []BookedWasAnswered
<1>1. Init => HonestInv
  BY LoopsInit DEF Init, HonestInv, FirstConnection
<1>2. TypeOK /\ HonestInv => BookedWasAnswered
  BY DEF TypeOK, HonestInv, BookInv, Answered, FirstConnection,
         BookedWasAnswered
<1>3. QED
  BY <1>1, <1>2, HonestStep, TypeCorrect, PTL DEF Spec

-----------------------------------------------------------------------------
(* Nobody waits for an answer that nobody will send.                       *)

LoopAsks(k, p) == wire[p].op = "sub" /\ wire[p].by = k

CallerAsks(i, p) == wire[p].op = "unsub" /\ wire[p].by = i

\* A packet is under way on an open connection only, and its asker waits.
PacketInv ==
  /\ link # "up" => wire = << >>
  /\ \A p \in 1 .. Len(wire) :
       /\ wire[p].op = "sub" => /\ loopToken[wire[p].by] = "wait"
                                /\ wire[p].node \in loopNode[wire[p].by]
       /\ wire[p].op = "unsub" => callerToken[wire[p].by] = "wait"

\* No asker has two packets under way: an answer is the answer to the one
\* request its token stands for.
OneAnswerEach ==
  \A p, q \in 1 .. Len(wire) :
    wire[p].op = wire[q].op /\ wire[p].by = wire[q].by => p = q

\* Whoever waits has a packet under way, and whoever does not wait has none.
WaitersInv ==
  /\ \A k \in Conns :
       /\ loopToken[k] # "none" <=> loopPc[k] = "await"
       /\ loopToken[k] = "wait" => \E p \in 1 .. Len(wire) : LoopAsks(k, p)
  /\ \A i \in Callers :
       /\ callerToken[i] # "none" <=> callerPc[i] = "awaitUnsubscribe"
       /\ callerToken[i] = "wait" => \E p \in 1 .. Len(wire) : CallerAsks(i, p)

AnswersInv == PacketInv /\ OneAnswerEach /\ WaitersInv

\* Nobody waits and nothing is under way before the first connection.
LEMMA AnswersInit == Init => AnswersInv
BY DEF Init, AnswersInv, PacketInv, OneAnswerEach, WaitersInv

\* A step that touches neither packets nor tokens, nor drops the connection,
\* and neither begins nor ends a wait.
LEMMA AnswersFrame ==
  ASSUME AnswersInv,
         UNCHANGED <<wire, loopToken, loopNode, callerToken>>,
         link' # "up" => link # "up",
         \A k \in Conns : loopPc'[k] = "await" <=> loopPc[k] = "await",
         \A i \in Callers : callerPc'[i] = "awaitUnsubscribe"
                              <=> callerPc[i] = "awaitUnsubscribe"
  PROVE  AnswersInv'
BY DEF AnswersInv, PacketInv, OneAnswerEach, WaitersInv, LoopAsks, CallerAsks

\* The end of a connection takes the packets and answers every waiter.
LEMMA AnswersDropped ==
  ASSUME TypeOK, AnswersInv, wire' = << >>, FailTokens,
         UNCHANGED <<loopPc, callerPc>>
  PROVE  AnswersInv'
<1>1. /\ \A k \in Conns : /\ loopToken'[k] # "wait"
                          /\ loopToken'[k] = "none" <=> loopToken[k] = "none"
      /\ \A i \in Callers : /\ callerToken'[i] # "wait"
                            /\ callerToken'[i] = "none"
                                 <=> callerToken[i] = "none"
  BY DEF FailTokens
<1>2. PacketInv' /\ OneAnswerEach'
  BY DEF PacketInv, OneAnswerEach
<1>3. WaitersInv'
  BY <1>1 DEF AnswersInv, WaitersInv
<1>4. QED
  BY <1>2, <1>3 DEF AnswersInv

\* Of a packet joining the others, at the end.
LEMMA AppendedPacket ==
  ASSUME TypeOK, NEW packet, wire' = Append(wire, packet)
  PROVE  /\ Len(wire) \in Nat /\ Len(wire') = Len(wire) + 1
         /\ wire'[Len(wire')] = packet
         /\ \A p \in 1 .. Len(wire) : p \in 1 .. Len(wire') /\ wire'[p] = wire[p]
         /\ \A p \in 1 .. Len(wire') : p \in 1 .. Len(wire) \/ p = Len(wire')
BY DEF TypeOK

\* Subscribe's packet is the only one of a loop that had none under way.
LEMMA AnswersSubscribe ==
  ASSUME TypeOK, AnswersInv, NEW k \in Conns, Subscribe(k)
  PROVE  AnswersInv'
<1>1. PICK entry \in loopTodo[k] :
        /\ loopNode' = [loopNode EXCEPT ![k] = {entry[1]}]
        /\ wire' = Append(wire, [op |-> "sub", node |-> entry[1], by |-> k])
  BY DEF Subscribe
<1> DEFINE packet == [op |-> "sub", node |-> entry[1], by |-> k]
<1>2. /\ packet.op = "sub" /\ packet.node = entry[1] /\ packet.by = k
      /\ wire' = Append(wire, packet)
  BY <1>1
<1> HIDE DEF packet
<1>3. /\ Len(wire) \in Nat /\ Len(wire') = Len(wire) + 1
      /\ wire'[Len(wire')] = packet
      /\ \A p \in 1 .. Len(wire) : p \in 1 .. Len(wire') /\ wire'[p] = wire[p]
      /\ \A p \in 1 .. Len(wire') : p \in 1 .. Len(wire) \/ p = Len(wire')
  BY <1>2, AppendedPacket
<1>4. /\ loopPc[k] = "range" /\ link = "up" /\ link' = "up"
      /\ UNCHANGED <<callerPc, callerToken>>
      /\ \A j \in Conns :
           IF j = k THEN /\ loopToken'[j] = "wait" /\ loopPc'[j] = "await"
                         /\ loopNode'[j] = {entry[1]}
           ELSE /\ loopToken'[j] = loopToken[j] /\ loopPc'[j] = loopPc[j]
                /\ loopNode'[j] = loopNode[j]
  BY <1>1 DEF Subscribe, TypeOK, linkVars, callerVars
<1>5. loopToken[k] = "none"
  BY <1>4 DEF AnswersInv, WaitersInv
<1>6. \A p \in 1 .. Len(wire) :
        wire[p].op = "sub" => wire[p].by \in Conns /\ wire[p].by # k
  BY <1>5 DEF AnswersInv, PacketInv, TypeOK, Packets
<1>7. PacketInv'
  BY <1>2, <1>3, <1>4, <1>6 DEF AnswersInv, PacketInv
<1>8. OneAnswerEach'
  BY <1>2, <1>3, <1>6 DEF AnswersInv, OneAnswerEach
<1>9. Len(wire') \in 1 .. Len(wire')
  BY <1>3
<1>10. WaitersInv'
  BY <1>2, <1>3, <1>4, <1>9 DEF AnswersInv, WaitersInv, LoopAsks, CallerAsks
<1>11. QED
  BY <1>7, <1>8, <1>10 DEF AnswersInv

\* Unsubscribe's packet is the only one of a caller that had none under way.
LEMMA AnswersUnsubscribe ==
  ASSUME TypeOK, AnswersInv, NEW i \in Callers, Unsubscribe(i)
  PROVE  AnswersInv'
<1> DEFINE packet == [op |-> "unsub", node |-> NodeOf[i], by |-> i]
<1>2. /\ packet.op = "unsub" /\ packet.by = i
      /\ wire' = Append(wire, packet)
  BY DEF Unsubscribe
<1> HIDE DEF packet
<1>3. /\ Len(wire) \in Nat /\ Len(wire') = Len(wire) + 1
      /\ wire'[Len(wire')] = packet
      /\ \A p \in 1 .. Len(wire) : p \in 1 .. Len(wire') /\ wire'[p] = wire[p]
      /\ \A p \in 1 .. Len(wire') : p \in 1 .. Len(wire) \/ p = Len(wire')
  BY <1>2, AppendedPacket
<1>4. /\ callerPc[i] = "unsubscribe" /\ link = "up" /\ link' = "up"
      /\ UNCHANGED <<loopPc, loopToken, loopNode>>
      /\ \A j \in Callers :
           IF j = i THEN /\ callerToken'[j] = "wait"
                         /\ callerPc'[j] = "awaitUnsubscribe"
           ELSE callerToken'[j] = callerToken[j] /\ callerPc'[j] = callerPc[j]
  BY DEF Unsubscribe, TypeOK, linkVars, loopVars
<1>5. callerToken[i] = "none"
  BY <1>4 DEF AnswersInv, WaitersInv
<1>6. \A p \in 1 .. Len(wire) :
        wire[p].op = "unsub" => wire[p].by \in Callers /\ wire[p].by # i
  BY <1>5 DEF AnswersInv, PacketInv, TypeOK, Packets
<1>7. PacketInv'
  BY <1>2, <1>3, <1>4, <1>6 DEF AnswersInv, PacketInv
<1>8. OneAnswerEach'
  BY <1>2, <1>3, <1>6 DEF AnswersInv, OneAnswerEach
<1>9. Len(wire') \in 1 .. Len(wire')
  BY <1>3
<1>10. WaitersInv'
  BY <1>2, <1>3, <1>4, <1>9 DEF AnswersInv, WaitersInv, LoopAsks, CallerAsks
<1>11. QED
  BY <1>7, <1>8, <1>10 DEF AnswersInv

\* An answer takes the first packet and ends its asker's wait, nobody else's.
LEMMA AnswersBroker ==
  ASSUME TypeOK, AnswersInv, BrokerAnswers
  PROVE  AnswersInv'
<1>1. /\ wire # << >> /\ wire \in Seq(Packets) /\ wire' = Tail(wire)
      /\ link = "up" /\ link' = "up"
      /\ UNCHANGED <<loopPc, loopNode, callerPc>>
  BY DEF BrokerAnswers, Granted, Refused, Unsubscribed, TypeOK, linkVars
<1>2. /\ Len(wire) \in Nat \ {0} /\ Len(wire') = Len(wire) - 1
      /\ Head(wire) = wire[1] /\ wire[1] \in Packets
      /\ \A p \in 1 .. Len(wire') : /\ p + 1 \in 1 .. Len(wire) /\ p + 1 # 1
                                    /\ wire'[p] = wire[p + 1]
      /\ \A p \in 1 .. Len(wire) : \/ p = 1
                                   \/ /\ p - 1 \in 1 .. Len(wire')
                                      /\ wire'[p - 1] = wire[p]
  BY <1>1
<1> DEFINE asker == wire[1].by
<1>3. \/ /\ wire[1].op = "sub" /\ asker \in Conns
         /\ loopToken'[asker] \in {"ok", "error"}
         /\ \A k \in Conns : k # asker => loopToken'[k] = loopToken[k]
         /\ callerToken' = callerToken
      \/ /\ wire[1].op = "unsub" /\ asker \in Callers
         /\ callerToken'[asker] = "ok"
         /\ \A i \in Callers : i # asker => callerToken'[i] = callerToken[i]
         /\ loopToken' = loopToken
  <2>1. /\ loopToken \in [Conns -> {"none", "wait", "ok", "error"}]
        /\ callerToken \in [Callers -> {"none", "wait", "ok", "error"}]
    BY DEF TypeOK
  <2>2. /\ wire[1].op = "sub" => asker \in Conns
        /\ wire[1].op = "unsub" => asker \in Callers
    BY <1>2 DEF Packets
  <2> HIDE DEF asker
  <2>3. CASE Granted \/ Refused
    <3>1. /\ wire[1].op = "sub"
          /\ loopToken' = [loopToken EXCEPT ![asker] = "ok"]
          /\ callerToken' = callerToken
      BY <1>2, <2>3 DEF Granted, Refused, asker
    <3>2. QED
      BY <2>1, <2>2, <3>1
  <2>4. CASE Unsubscribed
    <3>1. /\ wire[1].op = "unsub"
          /\ callerToken' = [callerToken EXCEPT ![asker] = "ok"]
          /\ loopToken' = loopToken
      BY <1>2, <2>4 DEF Unsubscribed, asker
    <3>2. QED
      BY <2>1, <2>2, <3>1
  <2>5. QED
    BY <2>3, <2>4 DEF BrokerAnswers
<1>4. /\ 1 \in 1 .. Len(wire)
      /\ wire[1].op = "sub" => loopToken[asker] = "wait"
      /\ wire[1].op = "unsub" => callerToken[asker] = "wait"
  BY <1>2 DEF AnswersInv, PacketInv
<1>5. \A p \in 1 .. Len(wire) : p # 1 /\ wire[p].op = wire[1].op
                                  => wire[p].by # asker
  BY <1>4 DEF AnswersInv, OneAnswerEach
<1>6. \A p \in 1 .. Len(wire) :
        \/ wire[p].op = "sub" /\ wire[p].by \in Conns
        \/ wire[p].op = "unsub" /\ wire[p].by \in Callers
  <2>1. \A p \in 1 .. Len(wire) : wire[p] \in Packets
    BY <1>1
  <2>2. QED
    BY <2>1 DEF Packets
<1> HIDE DEF asker
<1>7. PacketInv'
  BY <1>1, <1>2, <1>3, <1>5, <1>6 DEF AnswersInv, PacketInv
<1>8. OneAnswerEach'
  <2> SUFFICES ASSUME NEW p \in 1 .. Len(wire'), NEW q \in 1 .. Len(wire'),
                      wire'[p].op = wire'[q].op, wire'[p].by = wire'[q].by
               PROVE  p = q
    BY DEF OneAnswerEach
  <2>1. /\ p + 1 \in 1 .. Len(wire) /\ wire'[p] = wire[p + 1]
        /\ q + 1 \in 1 .. Len(wire) /\ wire'[q] = wire[q + 1]
    BY <1>2
  <2>2. wire[p + 1].op = wire[q + 1].op /\ wire[p + 1].by = wire[q + 1].by
    BY <2>1
  <2>3. p + 1 = q + 1
    BY <2>1, <2>2 DEF AnswersInv, OneAnswerEach
  <2>4. QED
    BY <2>3
<1>9. ASSUME NEW k \in Conns
      PROVE  /\ loopToken'[k] # "none" <=> loopPc'[k] = "await"
             /\ loopToken'[k] = "wait" => \E p \in 1 .. Len(wire') : LoopAsks(k, p)'
  <2>1. loopToken'[k] # "none" <=> loopToken[k] # "none"
    BY <1>3, <1>4
  <2>2. ASSUME loopToken'[k] = "wait"
        PROVE  \E p \in 1 .. Len(wire') : LoopAsks(k, p)'
    <3>1. loopToken[k] = "wait" /\ ~(wire[1].op = "sub" /\ wire[1].by = k)
      BY <1>3, <2>2 DEF asker
    <3>2. PICK p \in 1 .. Len(wire) : LoopAsks(k, p)
      BY <3>1 DEF AnswersInv, WaitersInv
    <3>3. p # 1
      BY <3>1, <3>2 DEF LoopAsks
    <3>4. QED
      BY <1>2, <3>2, <3>3 DEF LoopAsks
  <2>3. QED
    BY <1>1, <2>1, <2>2 DEF AnswersInv, WaitersInv
<1>10. ASSUME NEW i \in Callers
       PROVE  /\ callerToken'[i] # "none" <=> callerPc'[i] = "awaitUnsubscribe"
              /\ callerToken'[i] = "wait"
                   => \E p \in 1 .. Len(wire') : CallerAsks(i, p)'
  <2>1. callerToken'[i] # "none" <=> callerToken[i] # "none"
    BY <1>3, <1>4
  <2>2. ASSUME callerToken'[i] = "wait"
        PROVE  \E p \in 1 .. Len(wire') : CallerAsks(i, p)'
    <3>1. callerToken[i] = "wait" /\ ~(wire[1].op = "unsub" /\ wire[1].by = i)
      BY <1>3, <2>2 DEF asker
    <3>2. PICK p \in 1 .. Len(wire) : CallerAsks(i, p)
      BY <3>1 DEF AnswersInv, WaitersInv
    <3>3. p # 1
      BY <3>1, <3>2 DEF CallerAsks
    <3>4. QED
      BY <1>2, <3>2, <3>3 DEF CallerAsks
  <2>3. QED
    BY <1>1, <2>1, <2>2 DEF AnswersInv, WaitersInv
<1>11. WaitersInv'
  BY <1>9, <1>10 DEF WaitersInv
<1>12. QED
  BY <1>7, <1>8, <1>11 DEF AnswersInv

\* token.Wait() returns: a wait ends after its packet is gone.
LEMMA AnswersReturn ==
  ASSUME TypeOK, AnswersInv,
         \/ \E k \in Conns : SubscribeReturns(k)
         \/ \E i \in Callers : UnsubscribeReturns(i)
  PROVE  AnswersInv'
<1>1. ASSUME NEW k \in Conns, SubscribeReturns(k)
      PROVE  AnswersInv'
  <2>1. /\ loopPc[k] = "await" /\ loopToken[k] # "wait"
        /\ UNCHANGED <<wire, link, callerPc, callerToken>>
        /\ \A j \in Conns :
             IF j = k THEN loopToken'[j] = "none" /\ loopPc'[j] = "range"
             ELSE /\ loopToken'[j] = loopToken[j] /\ loopPc'[j] = loopPc[j]
                  /\ loopNode'[j] = loopNode[j]
    BY <1>1 DEF SubscribeReturns, TypeOK, linkVars, brokerVars, callerVars
  <2>2. \A p \in 1 .. Len(wire) :
          wire[p].op = "sub" => wire[p].by \in Conns /\ wire[p].by # k
    BY <2>1 DEF AnswersInv, PacketInv, TypeOK, Packets
  <2>3. QED
    BY <2>1, <2>2 DEF AnswersInv, PacketInv, OneAnswerEach, WaitersInv,
                      LoopAsks, CallerAsks
<1>2. ASSUME NEW i \in Callers, UnsubscribeReturns(i)
      PROVE  AnswersInv'
  <2>1. /\ callerPc[i] = "awaitUnsubscribe" /\ callerToken[i] # "wait"
        /\ UNCHANGED <<wire, link, loopPc, loopToken, loopNode>>
        /\ \A j \in Callers :
             IF j = i THEN callerToken'[j] = "none" /\ callerPc'[j] = "close"
             ELSE callerToken'[j] = callerToken[j] /\ callerPc'[j] = callerPc[j]
    BY <1>2 DEF UnsubscribeReturns, TypeOK, linkVars, brokerVars, loopVars
  <2>2. \A p \in 1 .. Len(wire) :
          wire[p].op = "unsub" => wire[p].by \in Callers /\ wire[p].by # i
    BY <2>1 DEF AnswersInv, PacketInv, TypeOK, Packets
  <2>3. QED
    BY <2>1, <2>2 DEF AnswersInv, PacketInv, OneAnswerEach, WaitersInv,
                      LoopAsks, CallerAsks
<1>3. QED
  BY <1>1, <1>2

\* Every step keeps waits and answers matched.
LEMMA AnswersStep ==
  TypeOK /\ LoopsInv /\ AnswersInv /\ [Next]_vars => AnswersInv'
<1> SUFFICES ASSUME TypeOK, LoopsInv, AnswersInv, [Next]_vars
             PROVE  AnswersInv'
  OBVIOUS
<1>1. CASE LoseConnection \/ DisconnectClient
  <2>1. /\ wire' = << >> /\ FailTokens /\ UNCHANGED <<loopPc, callerPc>>
    BY <1>1 DEF LoseConnection, DisconnectClient, DropConnection
  <2>2. QED
    BY <2>1, AnswersDropped
<1>2. ASSUME NEW k \in Conns, CallbackStep(k)
      PROVE  AnswersInv'
  <2>1. CASE OnConnect(k)
    <3>1. loopPc[k] = "none"
      BY <2>1 DEF OnConnect, LoopsInv
    <3>2. QED
      BY <2>1, <3>1, AnswersFrame DEF OnConnect, TypeOK, brokerVars, callerVars
  <2>2. CASE OnConnectionLost(k) \/ CleanupAfterLoss(k)
    BY <2>2, AnswersFrame DEF OnConnectionLost, CleanupAfterLoss, brokerVars,
                              linkVars, loopVars, callerVars
  <2>3. QED
    BY <1>2, <2>1, <2>2 DEF CallbackStep
<1>3. ASSUME NEW k \in Conns, LoopStep(k)
      PROVE  AnswersInv'
  <2>1. CASE Subscribe(k)
    BY <2>1, AnswersSubscribe
  <2>2. CASE SubscribeReturns(k)
    BY <2>2, AnswersReturn
  <2>3. ASSUME TaskSkips(k) \/ TaskResubscribes(k) \/ CloneMaps(k)
               \/ SubscribeFails(k) \/ TimerFires(k) \/ LoopExits(k)
        PROVE  AnswersInv'
    BY <2>3, AnswersFrame DEF TaskSkips, TaskResubscribes, CloneMaps,
       SubscribeFails, TimerFires, LoopExits, EnterSelect, TypeOK,
       brokerVars, linkVars, callerVars
  <2>4. CASE StoreActual(k)
    BY <2>4, AnswersFrame DEF StoreActual, EnterSelect, TypeOK, brokerVars,
                              linkVars, callerVars
  <2>5. QED
    BY <1>3, <2>1, <2>2, <2>3, <2>4 DEF LoopStep
<1>4. ASSUME NEW i \in Callers, CallerStep(i)
      PROVE  AnswersInv'
  <2>1. CASE Unsubscribe(i)
    BY <2>1, AnswersUnsubscribe
  <2>2. CASE UnsubscribeReturns(i)
    BY <2>2, AnswersReturn
  <2>3. CASE AddSubscriber(i) \/ Receive(i) \/ RemoveAbsent(i)
             \/ RemoveSubscriber(i) \/ UnsubscribeSkipped(i) \/ CloseChannel(i)
    BY <2>3, AnswersFrame DEF AddSubscriber, Receive, RemoveAbsent,
       RemoveSubscriber, UnsubscribeSkipped, CloseChannel, TypeOK,
       brokerVars, linkVars, loopVars, callerVars
  <2>4. QED
    BY <1>4, <2>1, <2>2, <2>3 DEF CallerStep, RemovalStep
<1>5. CASE BrokerAnswers
  BY <1>5, AnswersBroker
<1>6. CASE \/ Connect \/ ConnectionUp \/ ContextDone \/ Disconnect
           \/ CleanupAfterDisconnect \/ \E n \in Nodes : HandleMessage(n)
           \/ UNCHANGED vars
  BY <1>6, AnswersFrame DEF Connect, ConnectionUp, ContextDone, Disconnect,
     CleanupAfterDisconnect, HandleMessage, vars, brokerVars, linkVars,
     loopVars, callerVars
<1>7. QED
  BY <1>1, <1>2, <1>3, <1>4, <1>5, <1>6 DEF Next, DisconnectStep

\* A goroutine waits for nothing but an answer that is due: its connection is
\* open, its one packet is under way, and a loop's packet names the node whose
\* entry the loop is about to book.
WaitsAreAnswerable ==
  /\ \A k \in Conns :
       loopPc[k] = "await" /\ loopToken[k] = "wait"
         => /\ link = "up"
            /\ \E p \in 1 .. Len(wire) :
                 /\ LoopAsks(k, p) /\ wire[p].node \in loopNode[k]
                 /\ \A q \in 1 .. Len(wire) : LoopAsks(k, q) => q = p
  /\ \A i \in Callers :
       callerPc[i] = "awaitUnsubscribe" /\ callerToken[i] = "wait"
         => /\ link = "up"
            /\ \E p \in 1 .. Len(wire) :
                 /\ CallerAsks(i, p)
                 /\ \A q \in 1 .. Len(wire) : CallerAsks(i, q) => q = p

\* No resubscribe loop and no RemoveSubscriber is ever left waiting in
\* token.Wait(), which has no timeout, for an answer nobody will send: the
\* safety half of RemovalEnds and LoopsEnd.
THEOREM NobodyWaitsInVain == Spec => []WaitsAreAnswerable
<1>1. TypeOK /\ AnswersInv => WaitsAreAnswerable
  <2> SUFFICES ASSUME TypeOK, AnswersInv
               PROVE  WaitsAreAnswerable
    OBVIOUS
  <2>1. /\ link # "up" => Len(wire) = 0
        /\ Len(wire) \in Nat
    BY DEF AnswersInv, PacketInv, TypeOK
  <2>2. ASSUME NEW k \in Conns, loopToken[k] = "wait"
        PROVE  /\ link = "up"
               /\ \E p \in 1 .. Len(wire) :
                    /\ LoopAsks(k, p) /\ wire[p].node \in loopNode[k]
                    /\ \A q \in 1 .. Len(wire) : LoopAsks(k, q) => q = p
    <3>1. PICK p \in 1 .. Len(wire) : LoopAsks(k, p)
      BY <2>2 DEF AnswersInv, WaitersInv
    <3>2. wire[p].node \in loopNode[k]
      BY <3>1 DEF AnswersInv, PacketInv, LoopAsks
    <3>3. \A q \in 1 .. Len(wire) : LoopAsks(k, q) => q = p
      BY <3>1 DEF AnswersInv, OneAnswerEach, LoopAsks
    <3>4. QED
      BY <2>1, <3>1, <3>2, <3>3
  <2>3. ASSUME NEW i \in Callers, callerToken[i] = "wait"
        PROVE  /\ link = "up"
               /\ \E p \in 1 .. Len(wire) :
                    /\ CallerAsks(i, p)
                    /\ \A q \in 1 .. Len(wire) : CallerAsks(i, q) => q = p
    <3>1. PICK p \in 1 .. Len(wire) : CallerAsks(i, p)
      BY <2>3 DEF AnswersInv, WaitersInv
    <3>2. \A q \in 1 .. Len(wire) : CallerAsks(i, q) => q = p
      BY <3>1 DEF AnswersInv, OneAnswerEach, CallerAsks
    <3>3. QED
      BY <2>1, <3>1, <3>2
  <2>4. QED
    BY <2>2, <2>3 DEF WaitsAreAnswerable
<1>2. QED
  BY <1>1, LoopsInit, LoopsStep, AnswersInit, AnswersStep, TypeCorrect,
     PTL DEF Spec
=============================================================================
