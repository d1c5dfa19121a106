---------------------------- MODULE NodeInstance ----------------------------
(***************************************************************************)
(* The node instances of an app (internal/node/instance.go): each runs the *)
(* runLoop goroutine, which moves messages from the subscription channel   *)
(* to the handler's channel and sends heartbeats, and the supervisor,      *)
(* which runs the application's handler and restarts it after a crash.     *)
(* The messenger is the one of MessengerContract; what a publish does on   *)
(* the wire is left out, that it takes time is not.                        *)
(***************************************************************************)
EXTENDS MessengerContract

CONSTANTS
  MessageCap,      \* capacity of messageChan (4096 in the code)
  InitialBackoff,  \* 1 second
  MaxBackoff,      \* 30 seconds
  MaxCrashes,      \* bound: crashes of each handler
  MaxDelivered     \* bound: messages delivered to each subscription channel

ASSUME MessageCapAssumption == MessageCap \in Nat \ {0}
ASSUME BackoffAssumption == /\ InitialBackoff \in Nat \ {0}
                            /\ MaxBackoff \in Nat
                            /\ InitialBackoff <= MaxBackoff
ASSUME NodeBoundsAssumption == /\ MaxCrashes \in [Callers -> Nat]
                               /\ MaxDelivered \in [Callers -> Nat]
ASSUME CallersAssumption == /\ NodeOf \in [Callers -> Nodes]
                            /\ NoChan \notin Callers

VARIABLES
  rootDone,        \* sdk.Context() is cancelled
  stopped,         \* instances whose own context their Stop has cancelled
  runPc,           \* control state of runLoop
  messages,        \* messageChan: the messages the handler has still to read
  messagesClosed,  \* instances whose messageChan is closed
  superPc,         \* control state of superviseHandler
  backoff,         \* its local variable, in seconds
  crashes,         \* counter for MaxCrashes
  delivered        \* counter for MaxDelivered

runVars    == <<runPc, messagesClosed>>
superVars  == <<superPc, backoff, crashes>>
ctxVars    == <<rootDone, stopped>>
nodeVars   == <<ctxVars, runVars, messages, superVars, delivered>>
nvars      == <<cvars, nodeVars>>

\* instance.ctx.Err() # nil: cancelled itself, or with its parent.
CtxDone(i) == rootDone \/ i \in stopped

NodeInit ==
  /\ ContractInit
  /\ rootDone = FALSE /\ stopped = {}
  /\ runPc = [i \in Callers |-> "idle"]
  /\ messages = [i \in Callers |-> 0]
  /\ messagesClosed = {}
  /\ superPc = [i \in Callers |-> "idle"]
  /\ backoff = [i \in Callers |-> InitialBackoff]
  /\ crashes = [i \in Callers |-> 0]
  /\ delivered = [i \in Callers |-> 0]

\* Run: go runLoop(), then superviseHandler.
Run(i) ==
  /\ superPc[i] = "idle"
  /\ superPc' = [superPc EXCEPT ![i] = "check"]
  /\ runPc' = [runPc EXCEPT ![i] = "start"]
  /\ UNCHANGED <<cvars, ctxVars, messages, messagesClosed, backoff, crashes,
                 delivered>>

-----------------------------------------------------------------------------
(* runLoop                                                                 *)

RunGoesTo(i, from, to) ==
  /\ runPc[i] = from
  /\ runPc' = [runPc EXCEPT ![i] = to]

\* AddSubscriber, on entry.
LoopSubscribes(i) ==
  /\ RunGoesTo(i, "start", "select")
  /\ Subscribes(i)
  /\ UNCHANGED <<ctxVars, messages, messagesClosed, superVars, delivered>>

\* The ticker's case: the heartbeat's publish takes the loop away from its
\* channels until it returns.
HeartbeatStarts(i) ==
  /\ RunGoesTo(i, "select", "publish")
  /\ UNCHANGED <<cvars, ctxVars, messages, messagesClosed, superVars,
                 delivered>>

\* A publish, of a heartbeat or of an error report, returns.
PublishReturns(i) ==
  /\ RunGoesTo(i, "publish", "select")
  /\ UNCHANGED <<cvars, ctxVars, messages, messagesClosed, superVars,
                 delivered>>

\* A payload that is no NeoFlow message, or whose data segment is no CBOR map,
\* is reported and dropped.
LoopRejects(i) ==
  /\ RunGoesTo(i, "select", "publish")
  /\ Takes(i)
  /\ UNCHANGED <<ctxVars, messages, messagesClosed, superVars, delivered>>

\* A good message goes to the handler's channel if that has room ...
LoopForwards(i) ==
  /\ runPc[i] = "select"
  /\ Takes(i)
  /\ messages[i] < MessageCap
  /\ messages' = [messages EXCEPT ![i] = @ + 1]
  /\ UNCHANGED <<ctxVars, runVars, superVars, delivered>>

\* ... is dropped and reported when the channel is full and the context alive ...
LoopDrops(i) ==
  /\ RunGoesTo(i, "select", "publish")
  /\ Takes(i)
  /\ messages[i] = MessageCap /\ ~CtxDone(i)
  /\ UNCHANGED <<ctxVars, messages, messagesClosed, superVars, delivered>>

\* ... and is lost when the inner select notices the end of the context.  That
\* case only logs: the loop goes on.
LoopLoses(i) ==
  /\ runPc[i] = "select"
  /\ Takes(i)
  /\ CtxDone(i)
  /\ UNCHANGED <<ctxVars, runVars, messages, superVars, delivered>>

\* The subscription channel is closed and drained, or the context is done.
LoopSeesClosed(i) ==
  /\ RunGoesTo(i, "select", "close")
  /\ holds[i] \in shut /\ inbox[holds[i]] = << >>
  /\ UNCHANGED <<cvars, ctxVars, messages, messagesClosed, superVars,
                 delivered>>

\* Mutant: one context for all instances.
LoopSeesAnyDone(i) ==
  /\ RunGoesTo(i, "select", "close")
  /\ rootDone \/ stopped # {}
  /\ UNCHANGED <<cvars, ctxVars, messages, messagesClosed, superVars,
                 delivered>>

LoopSeesDone(i) ==
  /\ RunGoesTo(i, "select", "close")
  /\ CtxDone(i)
  /\ UNCHANGED <<cvars, ctxVars, messages, messagesClosed, superVars,
                 delivered>>

\* The deferred function: close messageChan, then RemoveSubscriber.
LoopClosesMessages(i) ==
  /\ RunGoesTo(i, "close", "unregister")
  /\ messagesClosed' = messagesClosed \cup {i}
  /\ UNCHANGED <<cvars, ctxVars, messages, superVars, delivered>>

\* Mutant: the registrations of every node go.
LoopUnregistersAll(i) ==
  /\ RunGoesTo(i, "unregister", "closing")
  /\ phase' = [phase EXCEPT ![i] = "removing"]
  /\ registry' = [n \in Nodes |-> NoChan]
  /\ UNCHANGED <<holds, shut, inbox, ctxVars, messages, messagesClosed,
                 superVars, delivered>>

\* Mutant: waits for a registration another instance has removed.
LoopUnregistersOwnOnly(i) ==
  /\ RunGoesTo(i, "unregister", "closing") /\ Unregisters(i)
  /\ UNCHANGED <<ctxVars, messages, messagesClosed, superVars, delivered>>

LoopUnregisters(i) ==
  /\ \/ RunGoesTo(i, "unregister", "closing") /\ Unregisters(i)
     \/ RunGoesTo(i, "unregister", "gone") /\ LeavesUnregistered(i)
  /\ UNCHANGED <<ctxVars, messages, messagesClosed, superVars, delivered>>

LoopEnds(i) ==
  /\ RunGoesTo(i, "closing", "gone")
  /\ Closes(i)
  /\ UNCHANGED <<ctxVars, messages, messagesClosed, superVars, delivered>>

-----------------------------------------------------------------------------
(* superviseHandler and the handler it runs.                               *)

SuperGoesTo(i, from, to) ==
  /\ superPc[i] = from
  /\ superPc' = [superPc EXCEPT ![i] = to]

\* Mutant: gives up at the highest backoff.
SupervisorGivesUp(i) ==
  /\ SuperGoesTo(i, "check",
                 IF CtxDone(i) \/ (crashes[i] > 0 /\ backoff[i] = MaxBackoff)
                 THEN "returned" ELSE "call")
  /\ UNCHANGED <<cvars, ctxVars, runVars, messages, backoff, crashes,
                 delivered>>

\* The top of the for loop: return, or go on to call the handler.
SupervisorChecks(i) ==
  /\ SuperGoesTo(i, "check", IF CtxDone(i) THEN "returned" ELSE "call")
  /\ UNCHANGED <<cvars, ctxVars, runVars, messages, backoff, crashes,
                 delivered>>

\* runHandlerOnce calls the handler; the context may be done by now.
HandlerStarts(i) ==
  /\ SuperGoesTo(i, "call", "handling")
  /\ UNCHANGED <<cvars, ctxVars, runVars, messages, backoff, crashes,
                 delivered>>

\* The handler reads a message, also after messageChan was closed.
HandlerReads(i) ==
  /\ superPc[i] = "handling"
  /\ messages[i] > 0
  /\ messages' = [messages EXCEPT ![i] = @ - 1]
  /\ UNCHANGED <<cvars, ctxVars, runVars, superVars, delivered>>

\* The handler calls NodeEnv.Stop.
HandlerStops(i) ==
  /\ superPc[i] = "handling"
  /\ i \notin stopped
  /\ stopped' = stopped \cup {i}
  /\ UNCHANGED <<cvars, rootDone, runVars, messages, superVars, delivered>>

\* A crash: a run longer than the reset threshold restores the first backoff.
Crash(i) ==
  /\ crashes[i] < MaxCrashes[i]
  /\ SuperGoesTo(i, "handling", "report")
  /\ crashes' = [crashes EXCEPT ![i] = @ + 1]
  /\ \E longRun \in BOOLEAN :
       backoff' = IF longRun THEN [backoff EXCEPT ![i] = InitialBackoff]
                             ELSE backoff
  /\ UNCHANGED <<cvars, ctxVars, runVars, messages, delivered>>

\* A panic is a crash, and so is a return while the context is alive.
HandlerPanics(i) == Crash(i)

\* Mutant: every return of the handler ends its supervisor.
HandlerReturnsForGood(i) ==
  /\ SuperGoesTo(i, "handling", "returned")
  /\ UNCHANGED <<cvars, ctxVars, runVars, messages, backoff, crashes,
                 delivered>>

HandlerReturns(i) ==
  \/ ~CtxDone(i) /\ Crash(i)
  \/ /\ CtxDone(i)
     /\ SuperGoesTo(i, "handling", "returned")
     /\ UNCHANGED <<cvars, ctxVars, runVars, messages, backoff, crashes,
                    delivered>>

\* ReportError, then the select between the context and the backoff timer.
CrashReported(i) ==
  /\ SuperGoesTo(i, "report", "backoff")
  /\ UNCHANGED <<cvars, ctxVars, runVars, messages, backoff, crashes,
                 delivered>>

BackoffCancelled(i) ==
  /\ CtxDone(i)
  /\ SuperGoesTo(i, "backoff", "returned")
  /\ UNCHANGED <<cvars, ctxVars, runVars, messages, backoff, crashes,
                 delivered>>

\* Mutant: the backoff is not capped.
BackoffDoubles(i) ==
  /\ SuperGoesTo(i, "backoff", "check")
  /\ backoff' = [backoff EXCEPT ![i] = 2 * @]
  /\ UNCHANGED <<cvars, ctxVars, runVars, messages, crashes, delivered>>

BackoffElapses(i) ==
  /\ SuperGoesTo(i, "backoff", "check")
  /\ backoff' = [backoff EXCEPT ![i] = IF 2 * @ < MaxBackoff THEN 2 * @
                                                             ELSE MaxBackoff]
  /\ UNCHANGED <<cvars, ctxVars, runVars, messages, crashes, delivered>>

-----------------------------------------------------------------------------
\* The messenger delivers into a subscription channel.
MessageArrives(c) ==
  /\ delivered[c] < MaxDelivered[c]
  /\ Delivers(c)
  /\ delivered' = [delivered EXCEPT ![c] = @ + 1]
  /\ UNCHANGED <<ctxVars, runVars, messages, superVars>>

LoopStep(i) ==
  \/ LoopSubscribes(i) \/ HeartbeatStarts(i) \/ PublishReturns(i)
  \/ LoopRejects(i) \/ LoopForwards(i) \/ LoopDrops(i) \/ LoopLoses(i)
  \/ LoopSeesClosed(i) \/ LoopSeesDone(i)
  \/ LoopClosesMessages(i) \/ LoopUnregisters(i) \/ LoopEnds(i)

HandlerStep(i) ==
  HandlerReads(i) \/ HandlerStops(i) \/ HandlerPanics(i) \/ HandlerReturns(i)

SupervisorStep(i) ==
  \/ SupervisorChecks(i) \/ HandlerStarts(i)
  \/ CrashReported(i) \/ BackoffCancelled(i) \/ BackoffElapses(i)

InstanceStep(i) ==
  LoopStep(i) \/ HandlerStep(i) \/ SupervisorStep(i) \/ MessageArrives(i)

(***************************************************************************)
(* The goroutines of an instance run when they can.  The two selects of    *)
(* runLoop choose at random among what is ready, so neither heartbeats nor *)
(* messages keep the loop from noticing the end of its context for ever    *)
(* (strong fairness of LoopSeesDone and LoopSeesClosed).  A handler keeps  *)
(* the developer guide's rule and returns once its channel is closed.      *)
(***************************************************************************)
InstanceFairness(i) ==
  /\ WF_nvars(LoopStep(i))
  /\ SF_nvars(LoopSeesDone(i)) /\ SF_nvars(LoopSeesClosed(i))
  /\ WF_nvars(SupervisorStep(i))
  /\ WF_nvars(i \in messagesClosed /\ HandlerReturns(i))

-----------------------------------------------------------------------------
(* Correctness.                                                            *)

\* The variables of the messenger have their types.
ContractTypeOK ==
  /\ registry \in [Nodes -> Callers \cup {NoChan}]
  /\ phase \in [Callers -> {"new", "reading", "removing", "removed"}]
  /\ holds \in [Callers -> Callers \cup {NoChan}]
  /\ \A i \in Callers : phase[i] \in {"reading", "removing"}
                           => holds[i] \in Callers
  /\ shut \subseteq Callers
  /\ inbox \in [Callers -> Seq(Nodes)]

\* Every variable has its type; the handler's channel keeps to its capacity
\* and the backoff to its range.
NodeTypeOK ==
  /\ ContractTypeOK
  /\ rootDone \in BOOLEAN /\ stopped \subseteq Callers
  /\ runPc \in [Callers -> {"idle", "start", "select", "publish", "close",
                            "unregister", "closing", "gone"}]
  /\ messages \in [Callers -> 0 .. MessageCap]
  /\ messagesClosed \subseteq Callers
  /\ superPc \in [Callers -> {"idle", "check", "call", "handling", "report",
                              "backoff", "returned"}]
  /\ backoff \in [Callers -> InitialBackoff .. MaxBackoff]
  /\ crashes \in [Callers -> Nat]
  /\ delivered \in [Callers -> Nat]

DistinctNodes == \A i, j \in Callers : NodeOf[i] = NodeOf[j] => i = j

Listening(i) == runPc[i] \in {"select", "publish"}

\* Where node identifiers are distinct, an instance that listens and whose
\* context is alive keeps its subscription: its channel is registered, open,
\* and so is the handler's, whatever its siblings do.
AliveIsServed ==
  DistinctNodes =>
    \A i \in Callers :
      Listening(i) /\ ~CtxDone(i)
        => /\ registry[NodeOf[i]] = holds[i] /\ holds[i] \notin shut
           /\ i \notin messagesClosed

\* Messages(): the handler's channel "is closed when the node shuts down", and
\* not before; a handler that returns on its closed channel is not restarted
\* into a crash loop.
ClosedOnlyWhenDone ==
  DistinctNodes => \A i \in messagesClosed : CtxDone(i)

\* A stopped instance winds down completely, also under a flood of messages and
\* with its handler crashing: the handler's channel is closed, the subscription
\* is gone and its channel closed, the supervisor has returned.  (What is done
\* and what has wound down stays so: one formula speaks of all instances.)
StopEndsInstance ==
  []<>(\A i \in Callers :
         runPc[i] # "idle" /\ CtxDone(i)
           => /\ runPc[i] = "gone" /\ superPc[i] = "returned"
              /\ i \in messagesClosed /\ phase[i] = "removed")

\* A handler that crashed runs again unless its context ends first.
CrashedHandlerRestarts ==
  \A i \in Callers :
    superPc[i] = "report" ~> superPc[i] = "handling" \/ CtxDone(i)

\* A supervisor that has returned never calls the handler again, and it returns
\* only when the context is done: no node is left without a handler.
ReturnedIsFinal ==
  [][ \A i \in Callers :
        /\ superPc[i] = "returned" => superPc'[i] = "returned"
        /\ superPc'[i] = "returned" => CtxDone(i) ]_nvars
=============================================================================
