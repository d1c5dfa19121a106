------------------------------ MODULE Messenger ------------------------------
(***************************************************************************)
(* The MQTT messenger of the SDK (internal/messenger/client.go): the       *)
(* subscription bookkeeping (desired, actual), the resubscribe loop that   *)
(* reconciles the two, the connect and connection-lost callbacks that      *)
(* start and stop the loop, AddSubscriber, RemoveSubscriber, Disconnect    *)
(* and the message handler.                                                *)
(*                                                                         *)
(* Every stretch of code that holds client.mutex is one action; between    *)
(* two such stretches, and around every network call, other goroutines     *)
(* run.  The paho client and the broker are not in the repository: they    *)
(* are modelled from how client.go configures them (automatic reconnect,   *)
(* connect retry, clean session), and marked external.                     *)
(***************************************************************************)
EXTENDS Integers, Sequences, FiniteSets

CONSTANTS
  Nodes,         \* node identifiers of the configuration
  Callers,       \* the runLoop goroutines, one per node instance
  NodeOf,        \* the node identifier each caller serves; two may share one
  NoChan,        \* "no channel": a nil map entry
  ChanCap,       \* capacity of a subscription channel (32 in the code)
  Refusable,     \* nodes whose subscription the broker may refuse
  MaxConns,      \* bound: connections ever established
  MaxMsgs,       \* bound: messages the broker delivers
  MaxSignals,    \* bound: termination signals, 0 or 1
  Leavers        \* bound: the callers that may leave

ASSUME NodeOfAssumption == NodeOf \in [Callers -> Nodes]
ASSUME NoChanAssumption == NoChan \notin Callers
ASSUME ChanCapAssumption == ChanCap \in Nat \ {0}
ASSUME RefusableAssumption == Refusable \subseteq Nodes
ASSUME BoundsAssumption == /\ MaxConns \in Nat \ {0}
                           /\ MaxMsgs \in Nat
                           /\ MaxSignals \in {0, 1}
                           /\ Leavers \subseteq Callers

\* AddSubscriber makes at most one channel per call and a caller calls it
\* once, so a channel is named after the caller whose call made it.
Channels == Callers

\* Connections are numbered; connection k's onConnect creates context k and
\* loop k.  0 is the nil context.
Conns == 1 .. MaxConns

VARIABLES
  link,               \* paho connection status
  epoch,              \* connections established so far
  wire,               \* SUBSCRIBE and UNSUBSCRIBE packets not yet answered
  brokerSubs,         \* nodes whose input topic the broker has subscribed
  refused,            \* nodes whose last SUBSCRIBE the broker refused
  routes,             \* paho router: the channel of a node's topic handler
  connectCallbacks,   \* connections whose onConnect goroutine has not run
  lostCallbacks,      \* connections whose onConnectionLost has not run
  lostCleanups,       \* connections whose onConnectionLost is before cleanup
  desired,            \* subscriptionManager.desired
  actual,             \* subscriptionManager.actual
  resubscribeCtx,     \* client.resubscribeCtx
  cancelResubscribe,  \* client.cancelResubscribe is not nil
  cancelled,          \* contexts cancelled by their own cancel function
  sdkDone,            \* sdk.Context(), their parent, is cancelled
  loopPc,             \* control state of each resubscribe loop
  loopCtx,            \* the context the loop's select waits on (else 0)
  loopTodo,           \* desiredClone entries still to subscribe
  loopActual,         \* actualClone
  loopNode,           \* the entry whose Subscribe token is awaited
  loopToken,          \* that token
  callerPc,           \* control state of each caller
  callerChan,         \* channel a caller reads from, or is about to close
  callerToken,        \* the Unsubscribe token a caller awaits
  closed,             \* closed channels
  queue,              \* buffered messages of each channel
  disconnectPc,       \* control state of Disconnect
  sent                \* counter for MaxMsgs

linkVars   == <<link, epoch, connectCallbacks, lostCallbacks>>
brokerVars == <<wire, brokerSubs, refused>>
ctxVars    == <<resubscribeCtx, cancelResubscribe, cancelled>>
loopVars   == <<loopPc, loopCtx, loopTodo, loopActual, loopNode, loopToken>>
callerVars == <<callerPc, callerChan, callerToken, closed>>
msgVars    == <<queue, sent>>

vars == <<linkVars, brokerVars, routes, lostCleanups, desired, actual, ctxVars,
          sdkDone, loopVars, callerVars, msgVars, disconnectPc>>

-----------------------------------------------------------------------------
(* What client.go asks of paho.                                            *)

\* mqtt.Client.IsConnected: also true while paho retries to connect.
IsConnected == link \in {"connecting", "up", "reconnecting"}

\* A message of the network: what is asked, for which node, on whose behalf.
Packets == [op : {"sub"}, node : Nodes, by : Conns]
             \cup [op : {"unsub"}, node : Nodes, by : Callers]

\* The tokens of a connection that ends complete with an error.
FailTokens ==
  /\ loopToken' = [k \in Conns |-> IF loopToken[k] = "wait" THEN "error"
                                                            ELSE loopToken[k]]
  /\ callerToken' = [i \in Callers |-> IF callerToken[i] = "wait"
                                       THEN "error" ELSE callerToken[i]]

\* What the end of a connection does to paho's and the broker's state: with a
\* clean session the broker keeps nothing of it.  Routes survive.
DropConnection(status) ==
  /\ link' = status
  /\ wire' = << >>
  /\ brokerSubs' = {} /\ refused' = {}
  /\ FailTokens

Registered == {n \in Nodes : desired[n] # NoChan}

\* Mutant: contexts derived from context.Background().
CtxDoneDetached(c) == c \in cancelled

CtxDone(c) == sdkDone \/ c \in cancelled

-----------------------------------------------------------------------------
Init ==
  /\ link = "new" /\ epoch = 0
  /\ wire = << >> /\ brokerSubs = {} /\ refused = {}
  /\ routes = [n \in Nodes |-> NoChan]
  /\ connectCallbacks = {} /\ lostCallbacks = {} /\ lostCleanups = {}
  /\ desired = [n \in Nodes |-> NoChan] /\ actual = {}
  /\ resubscribeCtx = 0 /\ cancelResubscribe = FALSE /\ cancelled = {}
  /\ sdkDone = FALSE
  /\ loopPc = [k \in Conns |-> "none"]
  /\ loopCtx = [k \in Conns |-> 0]
  /\ loopTodo = [k \in Conns |-> {}]
  /\ loopActual = [k \in Conns |-> {}]
  /\ loopNode = [k \in Conns |-> {}]
  /\ loopToken = [k \in Conns |-> "none"]
  /\ callerPc = [i \in Callers |-> "new"]
  /\ callerChan = [i \in Callers |-> NoChan]
  /\ callerToken = [i \in Callers |-> "none"]
  /\ closed = {}
  /\ queue = [c \in Channels |-> << >>]
  /\ disconnectPc = "idle"
  /\ sent = 0

-----------------------------------------------------------------------------
(* The connection.                                                         *)

\* connect(): creates the paho client and calls its Connect, which retries
\* until it succeeds.  sdk.Run calls it once.
Connect ==
  /\ link = "new"
  /\ link' = "connecting"
  /\ UNCHANGED <<epoch, connectCallbacks, lostCallbacks, brokerVars, routes,
                 lostCleanups, desired, actual, ctxVars, sdkDone, loopVars,
                 callerVars, msgVars, disconnectPc>>

\* A connection is established and paho starts `go OnConnect(client)`.
ConnectionUp ==
  /\ link \in {"connecting", "reconnecting"}
  /\ epoch < MaxConns
  /\ link' = "up"
  /\ epoch' = epoch + 1
  /\ connectCallbacks' = connectCallbacks \cup {epoch + 1}
  /\ UNCHANGED <<lostCallbacks, brokerVars, routes, lostCleanups, desired,
                 actual, ctxVars, sdkDone, loopVars, callerVars, msgVars,
                 disconnectPc>>

\* The connection is lost: paho starts to reconnect at once and, as a goroutine
\* of its own, OnConnectionLost.
LoseConnection ==
  /\ link = "up"
  /\ epoch < MaxConns
  /\ DropConnection("reconnecting")
  /\ lostCallbacks' = lostCallbacks \cup {epoch}
  /\ UNCHANGED <<epoch, connectCallbacks, routes, lostCleanups,
                 desired, actual, ctxVars, sdkDone, loopPc, loopCtx, loopTodo,
                 loopActual, loopNode, callerPc, callerChan, closed, msgVars,
                 disconnectPc>>

\* onConnect -> startResubscribeLoop: cancels the context in force, replaces it
\* by one of its own and starts a loop.
OnConnect(k) ==
  /\ k \in connectCallbacks
  /\ connectCallbacks' = connectCallbacks \ {k}
  /\ cancelled' = IF cancelResubscribe THEN cancelled \cup {resubscribeCtx}
                                       ELSE cancelled
  /\ resubscribeCtx' = k
  /\ cancelResubscribe' = TRUE
  /\ loopPc' = [loopPc EXCEPT ![k] = "task"]
  /\ UNCHANGED <<link, epoch, lostCallbacks, brokerVars, routes, lostCleanups,
                 desired, actual, sdkDone, loopCtx, loopTodo, loopActual,
                 loopNode, loopToken, callerVars, msgVars, disconnectPc>>

\* onConnectionLost, first critical section: cancel whatever loop is current.
OnConnectionLost(k) ==
  /\ k \in lostCallbacks
  /\ lostCallbacks' = lostCallbacks \ {k}
  /\ lostCleanups' = lostCleanups \cup {k}
  /\ cancelled' = IF cancelResubscribe THEN cancelled \cup {resubscribeCtx}
                                       ELSE cancelled
  /\ cancelResubscribe' = FALSE
  /\ UNCHANGED <<link, epoch, connectCallbacks, brokerVars, routes, desired,
                 actual, resubscribeCtx, sdkDone, loopVars, callerVars,
                 msgVars, disconnectPc>>

\* onConnectionLost, second critical section: cleanup().
CleanupAfterLoss(k) ==
  /\ k \in lostCleanups
  /\ lostCleanups' = lostCleanups \ {k}
  /\ actual' = {}
  /\ UNCHANGED <<linkVars, brokerVars, routes, desired, ctxVars, sdkDone,
                 loopVars, callerVars, msgVars, disconnectPc>>

-----------------------------------------------------------------------------
(* The resubscribe loop of connection k.                                   *)

\* The select statement reads client.resubscribeCtx when it is entered.
EnterSelect(k) ==
  /\ loopPc' = [loopPc EXCEPT ![k] = "select"]
  /\ loopCtx' = [loopCtx EXCEPT ![k] = resubscribeCtx]

\* Mutant: one booked node is enough to skip the round.
TaskSkipsEarly(k) ==
  /\ loopPc[k] = "task"
  /\ ~IsConnected \/ Registered = {} \/ actual # {}
  /\ EnterSelect(k)
  /\ UNCHANGED <<linkVars, brokerVars, routes, lostCleanups, desired, actual,
                 ctxVars, sdkDone, loopTodo, loopActual, loopNode, loopToken,
                 callerVars, msgVars, disconnectPc>>

\* task(): snapshot of the two counts.  Equal counts, or no client, end it.
TaskSkips(k) ==
  /\ loopPc[k] = "task"
  /\ ~IsConnected \/ Cardinality(Registered) = Cardinality(actual)
  /\ EnterSelect(k)
  /\ UNCHANGED <<linkVars, brokerVars, routes, lostCleanups, desired, actual,
                 ctxVars, sdkDone, loopTodo, loopActual, loopNode, loopToken,
                 callerVars, msgVars, disconnectPc>>

TaskResubscribes(k) ==
  /\ loopPc[k] = "task"
  /\ IsConnected /\ Cardinality(Registered) # Cardinality(actual)
  /\ loopPc' = [loopPc EXCEPT ![k] = "clone"]
  /\ UNCHANGED <<linkVars, brokerVars, routes, lostCleanups, desired, actual,
                 ctxVars, sdkDone, loopCtx, loopTodo, loopActual, loopNode,
                 loopToken, callerVars, msgVars, disconnectPc>>

\* Mutant: the difference taken the wrong way round.
CloneMapsSwapped(k) ==
  /\ loopPc[k] = "clone"
  /\ loopPc' = [loopPc EXCEPT ![k] = "range"]
  /\ loopTodo' = [loopTodo EXCEPT
                    ![k] = {<<n, desired[n]>> : n \in actual \ Registered}]
  /\ loopActual' = [loopActual EXCEPT ![k] = actual]
  /\ UNCHANGED <<linkVars, brokerVars, routes, lostCleanups, desired, actual,
                 ctxVars, sdkDone, loopCtx, loopNode, loopToken, callerVars,
                 msgVars, disconnectPc>>

\* resubscribeAll(): clone both maps under the lock.
CloneMaps(k) ==
  /\ loopPc[k] = "clone"
  /\ loopPc' = [loopPc EXCEPT ![k] = "range"]
  /\ loopTodo' = [loopTodo EXCEPT
                    ![k] = {<<n, desired[n]>> : n \in Registered \ actual}]
  /\ loopActual' = [loopActual EXCEPT ![k] = actual]
  /\ UNCHANGED <<linkVars, brokerVars, routes, lostCleanups, desired, actual,
                 ctxVars, sdkDone, loopCtx, loopNode, loopToken, callerVars,
                 msgVars, disconnectPc>>

\* Mutant: the handler closure captures whatever entry the range is at.
SubscribeCapturesAny(k) ==
  /\ loopPc[k] = "range"
  /\ link = "up"
  /\ \E entry, captured \in loopTodo[k] :
       /\ loopTodo' = [loopTodo EXCEPT ![k] = @ \ {entry}]
       /\ loopNode' = [loopNode EXCEPT ![k] = {entry[1]}]
       /\ routes' = [routes EXCEPT ![entry[1]] = captured[2]]
       /\ wire' = Append(wire, [op |-> "sub", node |-> entry[1], by |-> k])
  /\ loopToken' = [loopToken EXCEPT ![k] = "wait"]
  /\ loopPc' = [loopPc EXCEPT ![k] = "await"]
  /\ UNCHANGED <<linkVars, brokerSubs, refused, lostCleanups, desired,
                 actual, ctxVars, sdkDone, loopCtx, loopActual, callerVars,
                 msgVars, disconnectPc>>

\* Mutant: the node is booked without waiting for the token.
SubscribeUnwaited(k) ==
  /\ loopPc[k] = "range"
  /\ link = "up"
  /\ \E entry \in loopTodo[k] :
       /\ loopTodo' = [loopTodo EXCEPT ![k] = @ \ {entry}]
       /\ loopActual' = [loopActual EXCEPT ![k] = @ \cup {entry[1]}]
       /\ routes' = [routes EXCEPT ![entry[1]] = entry[2]]
       /\ wire' = Append(wire, [op |-> "sub", node |-> entry[1], by |-> k])
  /\ UNCHANGED <<linkVars, brokerSubs, refused, lostCleanups, desired,
                 actual, ctxVars, sdkDone, loopPc, loopCtx, loopNode, loopToken,
                 callerVars, msgVars, disconnectPc>>

\* One round of the range loop on an open connection: Subscribe installs the
\* handler's route and sends the packet; the goroutine waits for the token.
Subscribe(k) ==
  /\ loopPc[k] = "range"
  /\ link = "up"
  /\ \E entry \in loopTodo[k] :
       /\ loopTodo' = [loopTodo EXCEPT ![k] = @ \ {entry}]
       /\ loopNode' = [loopNode EXCEPT ![k] = {entry[1]}]
       /\ routes' = [routes EXCEPT ![entry[1]] = entry[2]]
       /\ wire' = Append(wire, [op |-> "sub", node |-> entry[1], by |-> k])
  /\ loopToken' = [loopToken EXCEPT ![k] = "wait"]
  /\ loopPc' = [loopPc EXCEPT ![k] = "await"]
  /\ UNCHANGED <<linkVars, brokerSubs, refused, lostCleanups, desired,
                 actual, ctxVars, sdkDone, loopCtx, loopActual, callerVars,
                 msgVars, disconnectPc>>

\* The same round while paho reconnects: the token fails at once; continue.
SubscribeFails(k) ==
  /\ loopPc[k] = "range"
  /\ link = "reconnecting"
  /\ \E entry \in loopTodo[k] :
       loopTodo' = [loopTodo EXCEPT ![k] = @ \ {entry}]
  /\ UNCHANGED <<linkVars, brokerVars, routes, lostCleanups, desired, actual,
                 ctxVars, sdkDone, loopPc, loopCtx, loopActual, loopNode,
                 loopToken, callerVars, msgVars, disconnectPc>>

\* token.Wait() returns: a subscription whose token has no error enters
\* actualClone, granted or not.
SubscribeReturns(k) ==
  /\ loopPc[k] = "await"
  /\ loopToken[k] # "wait"
  /\ loopActual' = [loopActual EXCEPT
                      ![k] = IF loopToken[k] = "ok" THEN @ \cup loopNode[k]
                                                    ELSE @]
  /\ loopNode' = [loopNode EXCEPT ![k] = {}]
  /\ loopToken' = [loopToken EXCEPT ![k] = "none"]
  /\ loopPc' = [loopPc EXCEPT ![k] = "range"]
  /\ UNCHANGED <<linkVars, brokerVars, routes, lostCleanups, desired, actual,
                 ctxVars, sdkDone, loopCtx, loopTodo, callerVars, msgVars,
                 disconnectPc>>

\* The range loop ends, or breaks on a disconnected client, and resubscribeAll
\* writes its clone over subscriptionManager.actual.
StoreActual(k) ==
  /\ loopPc[k] = "range"
  /\ loopTodo[k] = {} \/ ~IsConnected
  /\ actual' = loopActual[k]
  /\ loopTodo' = [loopTodo EXCEPT ![k] = {}]
  /\ loopActual' = [loopActual EXCEPT ![k] = {}]
  /\ EnterSelect(k)
  /\ UNCHANGED <<linkVars, brokerVars, routes, lostCleanups, desired, ctxVars,
                 sdkDone, loopNode, loopToken, callerVars, msgVars,
                 disconnectPc>>

\* The timer case of the select; Go may take it although the context is done.
TimerFires(k) ==
  /\ loopPc[k] = "select"
  /\ loopPc' = [loopPc EXCEPT ![k] = "task"]
  /\ loopCtx' = [loopCtx EXCEPT ![k] = 0]
  /\ UNCHANGED <<linkVars, brokerVars, routes, lostCleanups, desired, actual,
                 ctxVars, sdkDone, loopTodo, loopActual, loopNode,
                 loopToken, callerVars, msgVars, disconnectPc>>

LoopExits(k) ==
  /\ loopPc[k] = "select"
  /\ CtxDone(loopCtx[k])
  /\ loopPc' = [loopPc EXCEPT ![k] = "done"]
  /\ loopCtx' = [loopCtx EXCEPT ![k] = 0]
  /\ UNCHANGED <<linkVars, brokerVars, routes, lostCleanups, desired, actual,
                 ctxVars, sdkDone, loopTodo, loopActual, loopNode,
                 loopToken, callerVars, msgVars, disconnectPc>>

-----------------------------------------------------------------------------
(* Subscribers.  Caller i is a runLoop goroutine; it starts once Connect   *)
(* has returned.                                                           *)

\* Mutant: always a new channel.
AddSubscriberAnew(i) ==
  LET n == NodeOf[i] IN
  /\ callerPc[i] = "new"
  /\ epoch > 0
  /\ callerPc' = [callerPc EXCEPT ![i] = "reading"]
  /\ desired' = [desired EXCEPT ![n] = i]
  /\ callerChan' = [callerChan EXCEPT ![i] = i]
  /\ UNCHANGED <<linkVars, brokerVars, routes, lostCleanups, actual, ctxVars,
                 sdkDone, loopVars, callerToken, closed, msgVars, disconnectPc>>

\* AddSubscriber: the channel already registered for the node, or a new one.
AddSubscriber(i) ==
  LET n == NodeOf[i] IN
  /\ callerPc[i] = "new"
  /\ epoch > 0
  /\ callerPc' = [callerPc EXCEPT ![i] = "reading"]
  /\ desired' = [desired EXCEPT ![n] = IF @ = NoChan THEN i ELSE @]
  /\ callerChan' = [callerChan EXCEPT ![i] = desired'[n]]
  /\ UNCHANGED <<linkVars, brokerVars, routes, lostCleanups, actual, ctxVars,
                 sdkDone, loopVars, callerToken, closed, msgVars, disconnectPc>>

\* RemoveSubscriber of a node that is not registered (any more).
RemoveAbsent(i) ==
  /\ i \in Leavers /\ callerPc[i] = "reading"
  /\ desired[NodeOf[i]] = NoChan
  /\ callerPc' = [callerPc EXCEPT ![i] = "removed"]
  /\ callerChan' = [callerChan EXCEPT ![i] = NoChan]
  /\ UNCHANGED <<linkVars, brokerVars, routes, lostCleanups, desired, actual,
                 ctxVars, sdkDone, loopVars, callerToken, closed, msgVars,
                 disconnectPc>>

\* Mutant: the entry is kept until some later time.
RemoveSubscriberKeeps(i) ==
  /\ i \in Leavers /\ callerPc[i] = "reading"
  /\ desired[NodeOf[i]] # NoChan
  /\ callerPc' = [callerPc EXCEPT ![i] = "unsubscribe"]
  /\ callerChan' = [callerChan EXCEPT ![i] = desired[NodeOf[i]]]
  /\ actual' = actual \ {NodeOf[i]}
  /\ UNCHANGED <<linkVars, brokerVars, routes, lostCleanups, desired, ctxVars,
                 sdkDone, loopVars, callerToken, closed, msgVars, disconnectPc>>

\* Mutant: without looking whether the node is registered.
RemoveSubscriberBlindly(i) ==
  /\ i \in Leavers /\ callerPc[i] = "reading"
  /\ callerPc' = [callerPc EXCEPT ![i] = "unsubscribe"]
  /\ callerChan' = [callerChan EXCEPT ![i] = desired[NodeOf[i]]]
  /\ desired' = [desired EXCEPT ![NodeOf[i]] = NoChan]
  /\ actual' = actual \ {NodeOf[i]}
  /\ UNCHANGED <<linkVars, brokerVars, routes, lostCleanups, ctxVars, sdkDone,
                 loopVars, callerToken, closed, msgVars, disconnectPc>>

\* RemoveSubscriber: forget the node, under the lock.
RemoveSubscriber(i) ==
  LET n == NodeOf[i] IN
  /\ i \in Leavers /\ callerPc[i] = "reading"
  /\ desired[n] # NoChan
  /\ callerPc' = [callerPc EXCEPT ![i] = "unsubscribe"]
  /\ callerChan' = [callerChan EXCEPT ![i] = desired[n]]
  /\ desired' = [desired EXCEPT ![n] = NoChan]
  /\ actual' = actual \ {n}
  /\ UNCHANGED <<linkVars, brokerVars, routes, lostCleanups, ctxVars, sdkDone,
                 loopVars, callerToken, closed, msgVars, disconnectPc>>

\* ... Unsubscribe on an open connection; paho drops the route.
Unsubscribe(i) ==
  LET n == NodeOf[i] IN
  /\ callerPc[i] = "unsubscribe"
  /\ link = "up"
  /\ callerPc' = [callerPc EXCEPT ![i] = "awaitUnsubscribe"]
  /\ callerToken' = [callerToken EXCEPT ![i] = "wait"]
  /\ routes' = [routes EXCEPT ![n] = NoChan]
  /\ wire' = Append(wire, [op |-> "unsub", node |-> n, by |-> i])
  /\ UNCHANGED <<linkVars, brokerSubs, refused, lostCleanups, desired,
                 actual, ctxVars, sdkDone, loopVars, callerChan, closed, msgVars,
                 disconnectPc>>

\* ... no client to ask, or a token that fails at once while reconnecting.
UnsubscribeSkipped(i) ==
  /\ callerPc[i] = "unsubscribe"
  /\ link # "up"
  /\ callerPc' = [callerPc EXCEPT ![i] = "close"]
  /\ UNCHANGED <<linkVars, brokerVars, routes, lostCleanups, desired, actual,
                 ctxVars, sdkDone, loopVars, callerChan, callerToken, closed,
                 msgVars, disconnectPc>>

\* Mutant: an error returns before the close.
UnsubscribeGivesUp(i) ==
  /\ callerPc[i] = "awaitUnsubscribe"
  /\ callerToken[i] # "wait"
  /\ callerPc' = [callerPc EXCEPT
                    ![i] = IF callerToken[i] = "ok" THEN "close" ELSE "removed"]
  /\ callerToken' = [callerToken EXCEPT ![i] = "none"]
  /\ UNCHANGED <<linkVars, brokerVars, routes, lostCleanups, desired, actual,
                 ctxVars, sdkDone, loopVars, callerChan, closed, msgVars,
                 disconnectPc>>

\* ... token.Wait() returns; an error is only logged.
UnsubscribeReturns(i) ==
  /\ callerPc[i] = "awaitUnsubscribe"
  /\ callerToken[i] # "wait"
  /\ callerPc' = [callerPc EXCEPT ![i] = "close"]
  /\ callerToken' = [callerToken EXCEPT ![i] = "none"]
  /\ UNCHANGED <<linkVars, brokerVars, routes, lostCleanups, desired, actual,
                 ctxVars, sdkDone, loopVars, callerChan, closed, msgVars,
                 disconnectPc>>

\* ... close(ch), outside the lock.
CloseChannel(i) ==
  /\ callerPc[i] = "close"
  /\ closed' = closed \cup {callerChan[i]}
  /\ callerPc' = [callerPc EXCEPT ![i] = "removed"]
  /\ callerChan' = [callerChan EXCEPT ![i] = NoChan]
  /\ UNCHANGED <<linkVars, brokerVars, routes, lostCleanups, desired, actual,
                 ctxVars, sdkDone, loopVars, callerToken, msgVars,
                 disconnectPc>>

\* The caller takes the next buffered message.
Receive(i) ==
  /\ callerPc[i] = "reading"
  /\ queue[callerChan[i]] # << >>
  /\ queue' = [queue EXCEPT ![callerChan[i]] = Tail(@)]
  /\ UNCHANGED <<linkVars, brokerVars, routes, lostCleanups, desired, actual,
                 ctxVars, sdkDone, loopVars, callerVars, sent, disconnectPc>>

-----------------------------------------------------------------------------
(* The broker, and the handler createMessageHandler builds.                *)

\* The broker answers requests in the order they were sent.
Granted ==
  /\ wire # << >> /\ Head(wire).op = "sub"
  /\ brokerSubs' = brokerSubs \cup {Head(wire).node}
  /\ refused' = refused \ {Head(wire).node}
  /\ loopToken' = [loopToken EXCEPT ![Head(wire).by] = "ok"]
  /\ UNCHANGED callerToken

\* A SUBACK with return code 0x80.  paho notes the code in the token's Result()
\* and completes the token; its Error(), all that client.go asks for, is nil.
Refused ==
  /\ wire # << >> /\ Head(wire).op = "sub"
  /\ Head(wire).node \in Refusable
  /\ refused' = refused \cup {Head(wire).node}
  /\ loopToken' = [loopToken EXCEPT ![Head(wire).by] = "ok"]
  /\ UNCHANGED <<callerToken, brokerSubs>>

Unsubscribed ==
  /\ wire # << >> /\ Head(wire).op = "unsub"
  /\ brokerSubs' = brokerSubs \ {Head(wire).node}
  /\ callerToken' = [callerToken EXCEPT ![Head(wire).by] = "ok"]
  /\ UNCHANGED <<loopToken, refused>>

BrokerAnswers ==
  /\ link = "up"
  /\ Granted \/ Refused \/ Unsubscribed
  /\ wire' = Tail(wire)
  /\ UNCHANGED <<linkVars, routes, lostCleanups, desired, actual, ctxVars,
                 sdkDone, loopPc, loopCtx, loopTodo, loopActual, loopNode,
                 callerPc, callerChan, closed, msgVars, disconnectPc>>

\* A message on a subscribed topic reaches the route's handler.  A send to a
\* closed channel panics and is recovered, a full channel drops the message.
HandleMessage(n) ==
  LET c == routes[n] IN
  /\ link = "up" /\ n \in brokerSubs
  /\ sent < MaxMsgs
  /\ sent' = sent + 1
  /\ queue' = IF c # NoChan /\ c \notin closed /\ Len(queue[c]) < ChanCap
              THEN [queue EXCEPT ![c] = Append(@, n)]
              ELSE queue
  /\ UNCHANGED <<linkVars, brokerVars, routes, lostCleanups, desired, actual,
                 ctxVars, sdkDone, loopVars, callerVars, disconnectPc>>

-----------------------------------------------------------------------------
(* Shutdown.                                                               *)

\* A termination signal cancels sdk.Context(), and with it every context
\* derived from it.
ContextDone ==
  /\ ~sdkDone /\ MaxSignals > 0
  /\ sdkDone' = TRUE
  /\ UNCHANGED <<linkVars, brokerVars, routes, lostCleanups, desired, actual,
                 ctxVars, loopVars, callerVars, msgVars, disconnectPc>>

\* Disconnect, called by sdk.Run once the context is done: take the cancel
\* function under the lock and call it.
Disconnect ==
  /\ disconnectPc = "idle"
  /\ sdkDone /\ epoch > 0
  /\ cancelled' = IF cancelResubscribe THEN cancelled \cup {resubscribeCtx}
                                       ELSE cancelled
  /\ cancelResubscribe' = FALSE
  /\ disconnectPc' = "paho"
  /\ UNCHANGED <<linkVars, brokerVars, routes, lostCleanups, desired, actual,
                 resubscribeCtx, sdkDone, loopVars, callerVars, msgVars>>

\* ... the paho client's own Disconnect, which calls no OnConnectionLost.
DisconnectClient ==
  /\ disconnectPc = "paho"
  /\ disconnectPc' = "cleanup"
  /\ DropConnection("closed")
  /\ UNCHANGED <<epoch, connectCallbacks, lostCallbacks, routes,
                 lostCleanups, desired, actual, ctxVars, sdkDone, loopPc,
                 loopCtx, loopTodo, loopActual, loopNode, callerPc, callerChan,
                 closed, msgVars>>

\* ... and cleanup().
CleanupAfterDisconnect ==
  /\ disconnectPc = "cleanup"
  /\ disconnectPc' = "done"
  /\ actual' = {}
  /\ UNCHANGED <<linkVars, brokerVars, routes, lostCleanups, desired, ctxVars,
                 sdkDone, loopVars, callerVars, msgVars>>

-----------------------------------------------------------------------------
LoopStep(k) ==
  \/ TaskSkips(k) \/ TaskResubscribes(k) \/ CloneMaps(k)
  \/ Subscribe(k) \/ SubscribeFails(k) \/ SubscribeReturns(k)
  \/ StoreActual(k) \/ TimerFires(k) \/ LoopExits(k)

RemovalStep(i) ==
  \/ Unsubscribe(i) \/ UnsubscribeSkipped(i) \/ UnsubscribeReturns(i)
  \/ CloseChannel(i)

CallerStep(i) ==
  \/ AddSubscriber(i) \/ Receive(i)
  \/ RemoveAbsent(i) \/ RemoveSubscriber(i) \/ RemovalStep(i)

CallbackStep(k) ==
  OnConnect(k) \/ OnConnectionLost(k) \/ CleanupAfterLoss(k)

DisconnectStep == Disconnect \/ DisconnectClient \/ CleanupAfterDisconnect

Next ==
  \/ Connect \/ ConnectionUp \/ LoseConnection
  \/ \E k \in Conns : CallbackStep(k) \/ LoopStep(k)
  \/ \E i \in Callers : CallerStep(i)
  \/ BrokerAnswers
  \/ \E n \in Nodes : HandleMessage(n)
  \/ ContextDone \/ DisconnectStep

(***************************************************************************)
(* Goroutines that can run do run, the broker answers, paho reconnects     *)
(* and the timer fires.  Go picks among ready select cases at random, so a *)
(* loop whose context is done does not take the timer case forever: strong *)
(* fairness for LoopExits.  Nothing is assumed of signals, losses, new     *)
(* subscribers, removals or messages.                                      *)
(***************************************************************************)
Fairness ==
  /\ WF_vars(Connect) /\ WF_vars(ConnectionUp) /\ WF_vars(BrokerAnswers)
  /\ \A k \in Conns : /\ WF_vars(OnConnect(k))
                      /\ WF_vars(OnConnectionLost(k))
                      /\ WF_vars(CleanupAfterLoss(k))
                      /\ WF_vars(LoopStep(k)) /\ SF_vars(LoopExits(k))
  /\ \A i \in Callers : WF_vars(RemovalStep(i))
  /\ WF_vars(DisconnectStep)

Spec == Init /\ [][Next]_vars /\ Fairness

-----------------------------------------------------------------------------
(* Correctness.                                                            *)

Removing == {i \in Callers : callerPc[i] \in {"unsubscribe",
                                              "awaitUnsubscribe", "close"}}

\* Every variable has its type; an open connection has a number, and a caller
\* that reads or removes has a channel.
TypeOK ==
  /\ link \in {"new", "connecting", "up", "reconnecting", "closed"}
  /\ epoch \in 0 .. MaxConns /\ (link = "up" => epoch > 0)
  /\ wire \in Seq(Packets)
  /\ brokerSubs \subseteq Nodes /\ refused \subseteq Nodes
  /\ routes \in [Nodes -> Channels \cup {NoChan}]
  /\ connectCallbacks \subseteq Conns
  /\ lostCallbacks \subseteq Conns /\ lostCleanups \subseteq Conns
  /\ desired \in [Nodes -> Channels \cup {NoChan}]
  /\ actual \subseteq Nodes
  /\ resubscribeCtx \in 0 .. MaxConns /\ cancelResubscribe \in BOOLEAN
  /\ cancelled \subseteq 0 .. MaxConns /\ sdkDone \in BOOLEAN
  /\ loopPc \in [Conns -> {"none", "task", "clone", "range", "await",
                           "select", "done"}]
  /\ loopCtx \in [Conns -> 0 .. MaxConns]
  /\ loopTodo \in [Conns -> SUBSET (Nodes \X Channels)]
  /\ loopActual \in [Conns -> SUBSET Nodes]
  /\ loopNode \in [Conns -> SUBSET Nodes]
  /\ loopToken \in [Conns -> {"none", "wait", "ok", "error"}]
  /\ callerPc \in [Callers -> {"new", "reading", "unsubscribe",
                               "awaitUnsubscribe", "close", "removed"}]
  /\ callerChan \in [Callers -> Channels \cup {NoChan}]
  /\ \A i \in Callers : callerPc[i] = "reading" \/ i \in Removing
                           => callerChan[i] \in Channels
  /\ callerToken \in [Callers -> {"none", "wait", "ok", "error"}]
  /\ closed \subseteq Channels
  /\ queue \in [Channels -> Seq(Nodes)]
  /\ disconnectPc \in {"idle", "paho", "cleanup", "done"}
  /\ sent \in 0 .. MaxMsgs

\* A channel AddSubscriber can hand out is open: RemoveSubscriber forgets the
\* channel under the lock well before it closes it outside the lock.
RegisteredOpen == \A n \in Nodes : desired[n] \notin closed

\* A close never hits a closed channel, which would panic in a goroutine that
\* nothing recovers: of several instances with one node identifier, only one
\* gets the channel to close.
CloseOnce ==
  \A i \in Removing :
    /\ callerChan[i] \notin closed
    /\ \A j \in Removing : callerChan[i] = callerChan[j] => i = j

\* No message ends up in another node's channel, whichever loop installed the
\* route and however long ago it cloned the map of channels.
Isolation ==
  \A c \in Channels : \A m \in 1 .. Len(queue[c]) : queue[c][m] = NodeOf[c]

Subscribed(n) == link = "up" /\ n \in brokerSubs /\ routes[n] = desired[n]

RemovalStarted == \E i \in Callers : i \in Removing \/ callerPc[i] = "removed"

\* On the first connection, before any node leaves, a node in `actual` is one
\* whose SUBSCRIBE the broker has answered, and its messages are routed to the
\* channel registered for it.  Whether the answer was a grant is not booked.
BookedWasAnswered ==
  epoch = 1 /\ link = "up" /\ ~RemovalStarted
     => \A n \in actual : /\ n \in brokerSubs \cup refused
                          /\ desired[n] # NoChan /\ routes[n] = desired[n]

\* A registered node gets its subscription unless the broker refuses it, it and
\* not a sibling, or a removal, a loss of the connection or the shutdown
\* intervenes.
ServedUnlessRefused ==
  \A n \in Nodes :
    desired[n] # NoChan
      ~> \/ Subscribed(n) \/ n \in refused
         \/ RemovalStarted \/ epoch > 1 \/ link # "up" \/ sdkDone

\* A node that stays registered on an open connection and stays deaf does so
\* for one of three reasons, each a flaw of the bookkeeping and not of timing:
\* no loop runs, `actual` claims the node, or only the two counts agree.
Deaf(n) == link = "up" /\ desired[n] # NoChan /\ ~Subscribed(n)

LoopRuns == \E k \in Conns : loopPc[k] \notin {"none", "done"}

DeafHasACause ==
  \A n \in Nodes :
    <>[]Deaf(n) => <>[]( \/ ~LoopRuns
                        \/ n \in actual
                        \/ Cardinality(Registered) = Cardinality(actual) )

\* RemoveSubscriber always gets to close its channel, also when the connection
\* goes away while it waits for the UNSUBACK.
RemovalEnds ==
  \A i \in Callers, c \in Channels :
    i \in Removing /\ callerChan[i] = c ~> c \in closed

\* After the SDK context is done every resubscribe loop ends, also one whose
\* start was still to come or which waits for a SUBACK.
LoopsEnd == sdkDone ~> [](~LoopRuns)

\* The steps of RemoveSubscriber between its critical section and the close are
\* one phase to the interface's user.
Phase == [i \in Callers |-> IF i \in Removing THEN "removing" ELSE callerPc[i]]

Contract == INSTANCE MessengerContract WITH
  registry <- desired,
  phase <- Phase,
  holds <- callerChan,
  shut <- closed,
  inbox <- queue

\* The messenger keeps the promise of core.MessengerClient to the instances: one
\* channel per node, closed once and after its registration is gone, holding
\* its node's messages only.  The contract's fairness, that a removal which began
\* does close its channel, is RemovalEnds.
ImplementsContract == Contract!ContractSafety

-----------------------------------------------------------------------------
(* What the repository's documents say and the code does not keep.         *)

\* client.go, onConnect: the loop is restarted on every (re)connect "so
\* subscriptions recover after auto-reconnect".
RecoversAfterReconnect ==
  \A n \in Nodes :
    epoch > 1 /\ desired[n] # NoChan
      ~> Subscribed(n) \/ RemovalStarted \/ link # "up" \/ sdkDone

\* client.go, task of the resubscribe loop: where the two counts agree, "All
\* nodes are already subscribed".
EqualCountsMeanSubscribed ==
  [][\A k \in Conns :
       TaskSkips(k) /\ link = "up" => Registered \subseteq brokerSubs]_vars

\* developer-guide: ctx.Stop() "ends this node only: sibling nodes of the same
\* app keep running".  A sibling that stays registered is served eventually.
StopSparesSiblings ==
  \A n \in Nodes :
    desired[n] # NoChan
      ~> Subscribed(n) \/ desired[n] = NoChan \/ link # "up" \/ sdkDone
=============================================================================
