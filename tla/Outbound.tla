------------------------------- MODULE Outbound -------------------------------
(***************************************************************************)
(* What a handler publishes: Instance.Publish with the error reports it    *)
(* makes on the way (internal/node/instance.go), Messenger.Publish, which  *)
(* both end in (internal/messenger/client.go), and the Disconnect at the   *)
(* end of sdk.Run (internal/sdk/sdk.go), which does not wait for handlers. *)
(*                                                                         *)
(* The n-th call of publisher p makes message <<p, n>>.  Paho and the      *)
(* broker are external: a QoS 2 message is stored, sent on, and sent again *)
(* after a reconnect until the broker has confirmed it; with a clean       *)
(* session the broker does not recognise the second one.                   *)
(***************************************************************************)
EXTENDS Integers, Sequences, FiniteSets

CONSTANTS
  Publishers,   \* goroutines that run handlers
  MessageIds,   \* messages paho can have under way (65535)
  MaxCalls,     \* bound: calls of each publisher
  MaxBad,       \* bound: fields of one call that cannot be converted
  MaxLosses     \* bound: losses of the connection

ASSUME OutboundAssumption ==
  /\ MessageIds \in Nat \ {0}
  /\ MaxCalls \in [Publishers -> Nat]
  /\ MaxBad \in Nat /\ MaxLosses \in Nat

Calls(p) == 1 .. MaxCalls[p]

Messages == UNION {{p} \X Calls(p) : p \in Publishers}

VARIABLES
  link,      \* paho connection status; handlers start after the first connect
  rootDone,  \* sdk.Context() is cancelled
  losses,    \* counter for MaxLosses
  pc,        \* where a publisher is in Publish; "idle" outside
  bad,       \* fields of the call still to fail their conversion
  payload,   \* what Messenger.Publish is called for
  token,     \* the token it waits for
  outcome,   \* what the publisher's calls have returned, one after the other
  stage,     \* paho: how far a message has come; "none" is not handed over
  arrived    \* the broker: the calls of p whose message it took in, in order

callVars == <<pc, bad, payload, token, outcome>>
vars     == <<link, rootDone, losses, callVars, stage, arrived>>

Results == {"nil", "notConnected", "timedOut", "failed", "noIds"}
Stages  == {"none", "stored", "wire", "taken", "released", "done"}

\* The call publisher p is in.
Call(p) == Len(outcome[p]) + 1

Took(p, n) == \E k \in 1 .. Len(arrived[p]) : arrived[p][k] = n

Returned(p, n, result) == n <= Len(outcome[p]) /\ outcome[p][n] = result

UnderWay == {m \in Messages : stage[m] \notin {"none", "done"}}

Init ==
  /\ link = "up" /\ rootDone = FALSE /\ losses = 0
  /\ pc = [p \in Publishers |-> "idle"]
  /\ bad = [p \in Publishers |-> 0]
  /\ payload = [p \in Publishers |-> "data"]
  /\ token = [p \in Publishers |-> "none"]
  /\ outcome = [p \in Publishers |-> << >>]
  /\ stage = [m \in Messages |-> "none"]
  /\ arrived = [p \in Publishers |-> << >>]

-----------------------------------------------------------------------------
(* Instance.Publish                                                        *)

Goes(p, from, to) ==
  /\ pc[p] = from
  /\ pc' = [pc EXCEPT ![p] = to]

\* (A handle the node does not have is an error at once, and changes nothing.)
Publish(p) ==
  /\ Call(p) \in Calls(p)
  /\ Goes(p, "idle", "convert")
  /\ \E k \in 0 .. MaxBad : bad' = [bad EXCEPT ![p] = k]
  /\ UNCHANGED <<link, rootDone, losses, payload, token, outcome, stage, arrived>>

\* Mutant: a report too many.
FieldFailsAlways(p) ==
  /\ Goes(p, "convert", "check")
  /\ bad' = [bad EXCEPT ![p] = @ - 1]
  /\ payload' = [payload EXCEPT ![p] = "report"]
  /\ UNCHANGED <<link, rootDone, losses, token, outcome, stage, arrived>>

\* A field that cannot be converted goes out as null and is reported on the
\* spot: ReportError -> PublishNodeError -> Messenger.Publish with QoS 0.
FieldFails(p) ==
  /\ bad[p] > 0
  /\ Goes(p, "convert", "check")
  /\ bad' = [bad EXCEPT ![p] = @ - 1]
  /\ payload' = [payload EXCEPT ![p] = "report"]
  /\ UNCHANGED <<link, rootDone, losses, token, outcome, stage, arrived>>

\* After the last field: typed values always encode, Messenger.Publish, QoS 2.
FieldsDone(p) ==
  /\ bad[p] = 0
  /\ Goes(p, "convert", "check")
  /\ payload' = [payload EXCEPT ![p] = "data"]
  /\ UNCHANGED <<link, rootDone, losses, bad, token, outcome, stage, arrived>>

\* Mutant: a report that fails is the result of the call.
MessengerReturnsFirst(p, result) ==
  /\ token' = [token EXCEPT ![p] = "none"]
  /\ IF payload[p] = "report" /\ result = "nil"
     THEN pc' = [pc EXCEPT ![p] = "convert"] /\ UNCHANGED outcome
     ELSE /\ pc' = [pc EXCEPT ![p] = "idle"]
          /\ outcome' = [outcome EXCEPT ![p] = Append(@, result)]
  /\ UNCHANGED <<link, rootDone, losses, bad, payload>>

\* Messenger.Publish returns to ReportError, which only logs an error, and
\* Publish goes on; or its result is that of Publish.
MessengerReturns(p, result) ==
  /\ token' = [token EXCEPT ![p] = "none"]
  /\ IF payload[p] = "report"
     THEN pc' = [pc EXCEPT ![p] = "convert"] /\ UNCHANGED outcome
     ELSE /\ pc' = [pc EXCEPT ![p] = "idle"]
          /\ outcome' = [outcome EXCEPT ![p] = Append(@, result)]
  /\ UNCHANGED <<link, rootDone, losses, bad, payload>>

-----------------------------------------------------------------------------
(* Messenger.Publish                                                       *)

\* Mutant: IsConnectionOpen.
IsConnectedOpen == link = "up"

\* mqtt.Client.IsConnected: also true while paho reconnects.
IsConnected == link # "closed"

NotConnected(p) ==
  /\ pc[p] = "check" /\ ~IsConnected
  /\ MessengerReturns(p, "notConnected")
  /\ UNCHANGED <<stage, arrived>>

\* Between the check and the call the connection may be lost or closed.
Connected(p) ==
  /\ IsConnected
  /\ Goes(p, "check", "send")
  /\ UNCHANGED <<link, rootDone, losses, bad, payload, token, outcome, stage, arrived>>

SetToken(p, t) == token' = [token EXCEPT ![p] = t]

\* paho's Publish with QoS 0: nothing is stored, and while paho reconnects the
\* message is dropped and its token complete.
SendReport(p) ==
  /\ payload[p] = "report"
  /\ Goes(p, "send", "await")
  /\ SetToken(p, [closed |-> "failed", reconnecting |-> "ok", up |-> "wait"][link])
  /\ UNCHANGED <<link, rootDone, losses, bad, payload, outcome, stage, arrived>>

\* Mutant: QoS 0 for data as well (a message that gets lost).
SendDataOnce(p) ==
  /\ payload[p] = "data"
  /\ Goes(p, "send", "await")
  /\ SetToken(p, [closed |-> "failed", reconnecting |-> "ok", up |-> "ok"][link])
  /\ UNCHANGED <<link, rootDone, losses, bad, payload, outcome, stage, arrived>>

\* ... with QoS 2: the message gets an identifier and is stored, and goes out
\* now or after the reconnect.
SendData(p) ==
  /\ payload[p] = "data"
  /\ Goes(p, "send", "await")
  /\ IF link = "closed" \/ Cardinality(UnderWay) >= MessageIds
     THEN /\ SetToken(p, IF link = "closed" THEN "failed" ELSE "noIds")
          /\ UNCHANGED stage
     ELSE /\ SetToken(p, "wait")
          /\ stage' = [stage EXCEPT ![<<p, Call(p)>>] = IF link = "up" THEN "wire" ELSE "stored"]
  /\ UNCHANGED <<link, rootDone, losses, bad, payload, outcome, arrived>>

\* Mutant: the connection is looked at once more.
TokenCompletesRechecked(p) ==
  /\ pc[p] = "await" /\ token[p] # "wait"
  /\ MessengerReturns(p, IF link # "up" THEN "notConnected"
                         ELSE IF token[p] = "ok" THEN "nil" ELSE token[p])
  /\ UNCHANGED <<stage, arrived>>

\* WaitTimeout sees the token complete, with or without an error.
TokenCompletes(p) ==
  /\ pc[p] = "await" /\ token[p] # "wait"
  /\ MessengerReturns(p, IF token[p] = "ok" THEN "nil" ELSE token[p])
  /\ UNCHANGED <<stage, arrived>>

\* Mutant: Wait, which only the token ends.
TimesOutNever(p) == TokenCompletes(p)

\* Mutant: a timeout is only logged.
TimesOutQuietly(p) ==
  /\ pc[p] = "await" /\ token[p] = "wait"
  /\ MessengerReturns(p, "nil")
  /\ UNCHANGED <<stage, arrived>>

\* ... or its five seconds are over; paho keeps the message.
TimesOut(p) ==
  /\ pc[p] = "await" /\ token[p] = "wait"
  /\ MessengerReturns(p, "timedOut")
  /\ UNCHANGED <<stage, arrived>>

-----------------------------------------------------------------------------
(* Paho and the broker.                                                    *)

Moves(p, n, from, to) ==
  /\ link = "up" /\ stage[<<p, n>>] = from
  /\ stage' = [stage EXCEPT ![<<p, n>>] = to]
  /\ UNCHANGED <<link, rootDone, losses, pc, bad, payload, outcome>>

\* After a reconnect paho sends what it has stored, in no particular order and
\* while new calls already go out.
Resumes(p, n) == Moves(p, n, "stored", "wire") /\ UNCHANGED <<token, arrived>>

\* The broker takes the message in and sends PUBREC ...
BrokerTakes(p, n) ==
  /\ Moves(p, n, "wire", "taken")
  /\ arrived' = [arrived EXCEPT ![p] = Append(@, n)]
  /\ UNCHANGED token

\* ... which has paho store a PUBREL instead of the message ...
Received(p, n) == Moves(p, n, "taken", "released") /\ UNCHANGED <<token, arrived>>

\* ... and the PUBCOMP completes the token, if somebody still waits for it.
Completed(p, n) ==
  /\ Moves(p, n, "released", "done")
  /\ token' = IF pc[p] = "await" /\ payload[p] = "data" /\ n = Call(p)
              THEN [token EXCEPT ![p] = "ok"] ELSE token
  /\ UNCHANGED arrived

\* The report is on the wire, which is all that its token says.
ReportWritten(p) ==
  /\ link = "up"
  /\ pc[p] = "await" /\ payload[p] = "report" /\ token[p] = "wait"
  /\ SetToken(p, "ok")
  /\ UNCHANGED <<link, rootDone, losses, pc, bad, payload, outcome, stage, arrived>>

\* What paho has no PUBREC for it keeps and will send again; the tokens of
\* publishes stay as they are.
LoseConnection ==
  /\ link = "up" /\ losses < MaxLosses
  /\ link' = "reconnecting"
  /\ losses' = losses + 1
  /\ stage' = [m \in Messages |-> IF stage[m] \in {"wire", "taken"} THEN "stored"
                                                                ELSE stage[m]]
  /\ UNCHANGED <<rootDone, callVars, arrived>>

Reconnect ==
  /\ link = "reconnecting"
  /\ link' = "up"
  /\ UNCHANGED <<rootDone, losses, callVars, stage, arrived>>

-----------------------------------------------------------------------------
\* A termination signal cancels the context.
Signal ==
  /\ ~rootDone
  /\ rootDone' = TRUE
  /\ UNCHANGED <<link, losses, callVars, stage, arrived>>

\* The deferred Disconnect of sdk.Run, whatever the handlers are doing: paho
\* fails the tokens that are pending.
Disconnect ==
  /\ rootDone /\ link # "closed"
  /\ link' = "closed"
  /\ token' = [p \in Publishers |-> IF token[p] = "wait" THEN "failed" ELSE token[p]]
  /\ UNCHANGED <<rootDone, losses, pc, bad, payload, outcome, stage, arrived>>

MessengerStep(p) ==
  \/ NotConnected(p) \/ Connected(p) \/ SendReport(p) \/ SendData(p)
  \/ TokenCompletes(p) \/ TimesOut(p)

CallStep(p) == FieldFails(p) \/ FieldsDone(p) \/ MessengerStep(p)

NetworkStep(p, n) ==
  Resumes(p, n) \/ BrokerTakes(p, n) \/ Received(p, n) \/ Completed(p, n)

Next ==
  \/ \E p \in Publishers :
       Publish(p) \/ CallStep(p) \/ ReportWritten(p)
  \/ \E p \in Publishers : \E n \in Calls(p) : NetworkStep(p, n)
  \/ LoseConnection \/ Reconnect \/ Signal \/ Disconnect

\* A goroutine in Publish runs when it can, and its timer fires.  Packets are
\* answered as long as the connection stays up; that it comes up again after a
\* loss, that handlers publish and that a signal comes is not assumed.
Fairness ==
  /\ \A p \in Publishers : WF_vars(CallStep(p))
  /\ \A p \in Publishers : \A n \in Calls(p) : WF_vars(NetworkStep(p, n))

Spec == Init /\ [][Next]_vars /\ Fairness

-----------------------------------------------------------------------------
(* Correctness.                                                            *)

\* Every variable has its type.
TypeOK ==
  /\ link \in {"up", "reconnecting", "closed"} /\ rootDone \in BOOLEAN
  /\ losses \in 0 .. MaxLosses
  /\ pc \in [Publishers -> {"idle", "convert", "check", "send", "await"}]
  /\ bad \in [Publishers -> 0 .. MaxBad]
  /\ payload \in [Publishers -> {"report", "data"}]
  /\ token \in [Publishers -> {"none", "wait", "ok", "failed", "noIds"}]
  /\ outcome \in [Publishers -> Seq(Results)]
  /\ \A p \in Publishers : /\ Len(outcome[p]) <= MaxCalls[p]
                           /\ pc[p] # "idle" => Call(p) \in Calls(p)
                           /\ arrived[p] \in Seq(Calls(p))
  /\ stage \in [Messages -> Stages]
  /\ arrived \in [Publishers -> Seq(Nat)]

\* Publish returns nil only for data that the broker has taken in, also when
\* the connection was lost, or closed, while the call waited.
NilMeansTaken ==
  \A p \in Publishers : \A n \in Calls(p) : Returned(p, n, "nil") => Took(p, n)

\* "Not connected" says that the broker has not seen the data and never will,
\* as does a lack of identifiers: repeating the call makes no duplicate.
RefusedNeverArrives ==
  \A p \in Publishers : \A n \in Calls(p) :
    Returned(p, n, "notConnected") \/ Returned(p, n, "noIds") => ~Took(p, n)

\* Publish fails for the connection's sake only when the app shuts down: an
\* outage shows as a timeout, and as nil if it was short enough.
FailsOnlyAtShutdown ==
  \A p \in Publishers : \A n \in Calls(p) :
    Returned(p, n, "notConnected") \/ Returned(p, n, "failed") => rootDone

\* Of the calls that have returned, those that timed out are the only ones
\* whose data can still be on its way: only they hold paho's identifiers, and
\* after any other result a caller knows what has arrived.
OnlyTimeoutsLinger ==
  link # "closed" =>
    \A m \in UnderWay : m[2] < Call(m[1]) => Returned(m[1], m[2], "timedOut")

\* Data that is confirmed is never overtaken: when an earlier call's data comes
\* in after, or once more after, that of a later call of the same handler, the
\* earlier call did not return nil.
ConfirmedInOrder ==
  \A p \in Publishers : \A j, k \in 1 .. Len(arrived[p]) :
    j < k /\ arrived[p][k] < arrived[p][j] => ~Returned(p, arrived[p][k], "nil")

\* Publish returns, however many of its fields fail and are reported, also when
\* the connection is gone for good and when the app shuts down meanwhile.
CallsReturn == \A p \in Publishers : pc[p] # "idle" ~> pc[p] = "idle"

\* A timeout is no refusal: if the connection stays up in the end, the data of
\* every call that timed out does arrive.
TimedOutArrives ==
  <>[](link = "up") =>
    \A p \in Publishers : \A n \in Calls(p) :
      Returned(p, n, "timedOut") ~> Took(p, n)
=============================================================================
