------------------------------ MODULE AppProofs ------------------------------
(***************************************************************************)
(* Theorems about the life cycle of an app and of its node instances, for  *)
(* every finite set of instances and every capacity, backoff and bound.    *)
(***************************************************************************)
EXTENDS App, FiniteSetTheorems, TLAPS

USE MessageCapAssumption, BackoffAssumption, NodeBoundsAssumption,
    CallersAssumption, FiniteAssumption

-----------------------------------------------------------------------------
(* Types.                                                                  *)

\* The initial state is typed.
LEMMA TypeInit == Init => TypeOK
<1> SUFFICES ASSUME Init PROVE TypeOK
  OBVIOUS
<1> USE DEF Init, NodeInit, ContractInit
<1>1. ContractTypeOK
  <2>1. inbox \in [Callers -> Seq(Nodes)]
    OBVIOUS
  <2>2. \A i \in Callers : phase[i] = "new"
    OBVIOUS
  <2>3. QED
    BY <2>1, <2>2 DEF ContractTypeOK
<1>2. /\ backoff \in [Callers -> InitialBackoff .. MaxBackoff]
      /\ messages \in [Callers -> 0 .. MessageCap]
      /\ crashes \in [Callers -> Nat]
      /\ delivered \in [Callers -> Nat]
  OBVIOUS
<1>3. /\ rootDone \in BOOLEAN /\ stopped \subseteq Callers
      /\ messagesClosed \subseteq Callers
      /\ runPc \in [Callers -> {"idle", "start", "select", "publish", "close",
                                "unregister", "closing", "gone"}]
      /\ superPc \in [Callers -> {"idle", "check", "call", "handling", "report",
                                  "backoff", "returned"}]
  OBVIOUS
<1>4. NodeTypeOK
  BY <1>1, <1>2, <1>3 DEF NodeTypeOK
<1>5. /\ mainPc = "initialize" /\ connected = FALSE /\ waiting = 0
      /\ toStart = Callers /\ finished = {}
  OBVIOUS
<1> HIDE DEF Init, NodeInit, ContractInit
<1>6. connected \in BOOLEAN
  BY <1>5, Zenon
<1>7. waiting \in Int /\ toStart \subseteq Callers /\ finished \subseteq Callers
  BY <1>5
<1>8. QED
  BY <1>4, <1>5, <1>6, <1>7, Zenon DEF TypeOK

\* Every step of the messenger keeps its variables typed.
LEMMA ContractType ==
  ASSUME ContractTypeOK, NEW i \in Callers, ContractStep(i)
  PROVE  ContractTypeOK'
<1> USE DEF ContractTypeOK
<1>1. CASE Subscribes(i)
  <2>1. registry[NodeOf[i]] \in Callers \cup {NoChan}
    OBVIOUS
  <2>2. registry'[NodeOf[i]] \in Callers
    BY <1>1, <2>1 DEF Subscribes
  <2>3. registry' \in [Nodes -> Callers \cup {NoChan}]
    BY <1>1 DEF Subscribes
  <2>4. QED
    BY <1>1, <2>2, <2>3 DEF Subscribes
<1>2. CASE Unregisters(i)
  <2>1. registry[NodeOf[i]] \in Callers
    BY <1>2 DEF Unregisters
  <2>2. QED
    BY <1>2, <2>1 DEF Unregisters
<1>3. CASE Closes(i)
  BY <1>3 DEF Closes
<1>4. CASE UnregistersAndCloses(i)
  <2>1. registry[NodeOf[i]] \in Callers
    BY <1>4 DEF UnregistersAndCloses
  <2>2. QED
    BY <1>4, <2>1 DEF UnregistersAndCloses
<1>5. CASE LeavesUnregistered(i)
  BY <1>5 DEF LeavesUnregistered
<1>6. CASE Delivers(i)
  <2>1. Append(inbox[i], NodeOf[i]) \in Seq(Nodes)
    OBVIOUS
  <2>2. QED
    BY <1>6, <2>1 DEF Delivers
<1>7. CASE Takes(i)
  <2>1. holds[i] \in Callers
    BY <1>7 DEF Takes
  <2>2. Tail(inbox[holds[i]]) \in Seq(Nodes)
    BY <1>7, <2>1 DEF Takes
  <2>3. inbox' \in [Callers -> Seq(Nodes)]
    BY <1>7, <2>1, <2>2 DEF Takes
  <2>4. QED
    BY <1>7, <2>3 DEF Takes
<1>8. QED
  BY <1>1, <1>2, <1>3, <1>4, <1>5, <1>6, <1>7 DEF ContractStep

\* runLoop moves the messenger by one of the messenger's own steps.
LEMMA LoopMovesMessenger ==
  ASSUME NEW i \in Callers, LoopStep(i)
  PROVE  ContractStep(i) \/ UNCHANGED cvars
BY DEF LoopStep, LoopSubscribes, HeartbeatStarts, PublishReturns, LoopRejects,
       LoopForwards, LoopDrops, LoopLoses, LoopSeesClosed, LoopSeesDone,
       LoopClosesMessages, LoopUnregisters, LoopEnds, ContractStep, cvars

\* A step that leaves the messenger alone leaves its type alone.
LEMMA ContractStutter ==
  ASSUME ContractTypeOK, UNCHANGED cvars PROVE ContractTypeOK'
BY DEF ContractTypeOK, cvars

\* Every step of runLoop keeps the variables typed.
LEMMA LoopType ==
  ASSUME NodeTypeOK, NEW i \in Callers, LoopStep(i)
  PROVE  NodeTypeOK'
<1>1. ContractTypeOK'
  BY LoopMovesMessenger, ContractType, ContractStutter DEF NodeTypeOK
<1> USE DEF NodeTypeOK, RunGoesTo, ctxVars, superVars, runVars
<1> USE <1>1
<1>2. CASE LoopSubscribes(i)
  BY <1>2 DEF LoopSubscribes
<1>3. CASE HeartbeatStarts(i) \/ PublishReturns(i)
  BY <1>3 DEF HeartbeatStarts, PublishReturns
<1>4. CASE LoopRejects(i) \/ LoopDrops(i) \/ LoopLoses(i)
  BY <1>4 DEF LoopRejects, LoopDrops, LoopLoses
<1>5. CASE LoopForwards(i)
  BY <1>5 DEF LoopForwards
<1>6. CASE LoopSeesClosed(i) \/ LoopSeesDone(i)
  BY <1>6 DEF LoopSeesClosed, LoopSeesDone
<1>7. CASE LoopClosesMessages(i)
  BY <1>7 DEF LoopClosesMessages
<1>8. CASE LoopUnregisters(i)
  BY <1>8 DEF LoopUnregisters
<1>9. CASE LoopEnds(i)
  BY <1>9 DEF LoopEnds
<1>10. QED
  BY <1>2, <1>3, <1>4, <1>5, <1>6, <1>7, <1>8, <1>9 DEF LoopStep

\* Every step of the handler, its supervisor and the messenger does, too.
LEMMA InstanceType ==
  ASSUME NodeTypeOK, NEW i \in Callers, InstanceStep(i)
  PROVE  NodeTypeOK'
<1>1. CASE LoopStep(i)
  BY <1>1, LoopType
<1>2. CASE MessageArrives(i)
  <2>1. ContractTypeOK'
    BY <1>2, ContractType DEF MessageArrives, ContractStep, NodeTypeOK
  <2>2. delivered' \in [Callers -> Nat]
    BY <1>2 DEF MessageArrives, NodeTypeOK
  <2>3. QED
    BY <1>2, <2>1, <2>2
       DEF MessageArrives, NodeTypeOK, ctxVars, runVars, superVars
<1>3. ASSUME UNCHANGED cvars PROVE NodeTypeOK => ContractTypeOK'
  BY <1>3, ContractStutter DEF NodeTypeOK
<1> USE DEF NodeTypeOK, SuperGoesTo, ctxVars, superVars, runVars
<1>4. CASE HandlerReads(i)
  BY <1>3, <1>4 DEF HandlerReads
<1>5. CASE HandlerStops(i)
  BY <1>3, <1>5 DEF HandlerStops
<1>6. ASSUME Crash(i) PROVE NodeTypeOK'
  <2>1. crashes' \in [Callers -> Nat]
    BY <1>6 DEF Crash
  <2>2. backoff' \in [Callers -> InitialBackoff .. MaxBackoff]
    BY <1>6 DEF Crash
  <2>3. QED
    BY <1>3, <1>6, <2>1, <2>2 DEF Crash
<1>7. CASE HandlerPanics(i) \/ HandlerReturns(i)
  BY <1>3, <1>6, <1>7 DEF HandlerPanics, HandlerReturns
<1>8. CASE SupervisorChecks(i) \/ HandlerStarts(i)
  BY <1>3, <1>8 DEF SupervisorChecks, HandlerStarts
<1>9. CASE CrashReported(i) \/ BackoffCancelled(i)
  BY <1>3, <1>9 DEF CrashReported, BackoffCancelled
<1>10. CASE BackoffElapses(i)
  <2>1. backoff' \in [Callers -> InitialBackoff .. MaxBackoff]
    BY <1>10 DEF BackoffElapses
  <2>2. QED
    BY <1>3, <1>10, <2>1 DEF BackoffElapses
<1>11. QED
  BY <1>1, <1>2, <1>4, <1>5, <1>7, <1>8, <1>9, <1>10
     DEF InstanceStep, HandlerStep, SupervisorStep

\* Every step of the main goroutine does, too.
LEMMA MainType ==
  ASSUME TypeOK, MainStep
  PROVE  TypeOK'
<1> USE DEF TypeOK, MainGoesTo
<1>1. ASSUME UNCHANGED nvars PROVE NodeTypeOK'
  BY <1>1 DEF NodeTypeOK, ContractTypeOK, nvars, cvars, nodeVars, ctxVars,
              runVars, superVars
<1>2. CASE Initialize \/ ConnectFails \/ ConnectReturns
  BY <1>1, <1>2 DEF Initialize, ConnectFails, ConnectReturns
<1>3. ASSUME NEW i \in Callers, StartInstance(i) PROVE TypeOK'
  <2>1. NodeTypeOK'
    BY <1>3, ContractStutter
       DEF StartInstance, Run, NodeTypeOK, ctxVars
  <2>2. QED
    BY <1>3, <2>1 DEF StartInstance
<1>4. CASE AllStarted \/ ContextEnds \/ Disconnects \/ RunReturns
  BY <1>1, <1>4 DEF AllStarted, ContextEnds, Disconnects, RunReturns
<1>5. QED
  BY <1>2, <1>3, <1>4 DEF MainStep

\* Every step keeps the variables typed.
LEMMA TypeStep == TypeOK /\ [Next]_avars => TypeOK'
<1> SUFFICES ASSUME TypeOK, [Next]_avars PROVE TypeOK'
  OBVIOUS
<1>1. CASE MainStep
  BY <1>1, MainType
<1>2. CASE Signal
  BY <1>2, ContractStutter
     DEF Signal, TypeOK, NodeTypeOK, runVars, superVars, mainVars
<1>3. ASSUME NEW i \in Callers, InstanceDone(i) PROVE TypeOK'
  <2>1. NodeTypeOK'
    BY <1>3 DEF InstanceDone, TypeOK, NodeTypeOK, ContractTypeOK, nvars, cvars,
                nodeVars, ctxVars, runVars, superVars
  <2>2. QED
    BY <1>3, <2>1 DEF InstanceDone, TypeOK
<1>4. ASSUME NEW i \in Callers, InstanceStep(i), UNCHANGED mainVars PROVE TypeOK'
  BY <1>4, InstanceType DEF TypeOK, mainVars
<1>5. CASE UNCHANGED avars
  BY <1>5 DEF TypeOK, NodeTypeOK, ContractTypeOK, avars, nvars, cvars, nodeVars,
              ctxVars, runVars, superVars, mainVars
<1>6. QED
  BY <1>1, <1>2, <1>3, <1>4, <1>5 DEF Next

\* Types hold in every reachable state, whatever the instances, capacities and
\* bounds: the handler's channel keeps to its capacity and the backoff between
\* its first value and its cap.
THEOREM TypeCorrect == Spec => []TypeOK
BY TypeInit, TypeStep, PTL DEF Spec

-----------------------------------------------------------------------------
(* An instance keeps its own channel.                                      *)

\* Where node identifiers are distinct, where runLoop stands says what the
\* messenger holds for the instance, and runLoop leaves its select only when
\* the context is done.
Track(i) ==
  /\ superPc[i] = "idle" => runPc[i] = "idle"
  /\ phase[i] = "new" <=> runPc[i] \in {"idle", "start"}
  /\ phase[i] = "reading"
       <=> runPc[i] \in {"select", "publish", "close", "unregister"}
  /\ phase[i] = "removing" <=> runPc[i] = "closing"
  /\ i \in messagesClosed <=> runPc[i] \in {"unregister", "closing", "gone"}
  /\ runPc[i] \in {"close", "unregister", "closing", "gone"} => CtxDone(i)
  /\ registry[NodeOf[i]] = IF phase[i] = "reading" THEN i ELSE NoChan
  /\ phase[i] \in {"reading", "removing"} => holds[i] = i
  /\ i \in shut => phase[i] = "removed"

Tracked == \A i \in Callers : Track(i)

\* No instance has a channel at first.
LEMMA TrackedInit == Init => Tracked
BY DEF Init, NodeInit, ContractInit, Tracked, Track, CtxDone

\* What an instance does to the messenger leaves the other instances' nodes,
\* channels and phases alone.
LEMMA OthersTracked ==
  ASSUME NodeTypeOK, Tracked, DistinctNodes,
         NEW i \in Callers, InstanceStep(i),
         NEW j \in Callers, j # i
  PROVE  Track(j)'
<1>1. NodeOf[j] # NodeOf[i] /\ NodeOf[i] \in Nodes /\ NodeOf[j] \in Nodes
  BY DEF DistinctNodes
<1>2. Track(i) /\ Track(j)
  BY DEF Tracked
<1>3. ASSUME ContractStep(i) \/ UNCHANGED cvars
      PROVE  /\ phase'[j] = phase[j] /\ holds'[j] = holds[j]
             /\ registry'[NodeOf[j]] = registry[NodeOf[j]]
             /\ j \in shut' <=> j \in shut
  <2> USE DEF NodeTypeOK, ContractTypeOK
  <2>1. CASE Subscribes(i)
    BY <1>1, <2>1 DEF Subscribes
  <2>2. CASE Unregisters(i)
    BY <1>1, <2>2 DEF Unregisters
  <2>3. CASE Closes(i)
    <3>1. holds[i] = i
      BY <1>2, <2>3 DEF Track, Closes
    <3>2. QED
      BY <3>1, <2>3 DEF Closes
  <2>4. CASE UnregistersAndCloses(i)
    <3>1. registry[NodeOf[i]] = i
      BY <1>2, <2>4 DEF Track, UnregistersAndCloses
    <3>2. QED
      BY <1>1, <3>1, <2>4 DEF UnregistersAndCloses
  <2>5. CASE LeavesUnregistered(i)
    BY <1>1, <2>5 DEF LeavesUnregistered
  <2>6. CASE Delivers(i) \/ Takes(i) \/ UNCHANGED cvars
    BY <2>6 DEF Delivers, Takes, cvars
  <2>7. QED
    BY <1>3, <2>1, <2>2, <2>3, <2>4, <2>5, <2>6 DEF ContractStep
<1>4. /\ ContractStep(i) \/ UNCHANGED cvars
      /\ runPc'[j] = runPc[j] /\ superPc'[j] = superPc[j]
      /\ j \in messagesClosed' <=> j \in messagesClosed
      /\ CtxDone(j)' <=> CtxDone(j)
  <2> USE DEF NodeTypeOK, ctxVars, runVars, superVars, CtxDone
  <2>1. CASE LoopStep(i)
    <3>1. UNCHANGED <<rootDone, stopped, superPc>>
      BY <2>1 DEF LoopStep, LoopSubscribes, HeartbeatStarts, PublishReturns,
                  LoopRejects, LoopForwards, LoopDrops, LoopLoses,
                  LoopSeesClosed, LoopSeesDone, LoopClosesMessages,
                  LoopUnregisters, LoopEnds
    <3>2. runPc'[j] = runPc[j]
      BY <2>1 DEF LoopStep, LoopSubscribes, HeartbeatStarts, PublishReturns,
                  LoopRejects, LoopForwards, LoopDrops, LoopLoses,
                  LoopSeesClosed, LoopSeesDone, LoopClosesMessages,
                  LoopUnregisters, LoopEnds, RunGoesTo
    <3>3. messagesClosed' = messagesClosed \/ messagesClosed' = messagesClosed \cup {i}
      BY <2>1 DEF LoopStep, LoopSubscribes, HeartbeatStarts, PublishReturns,
                  LoopRejects, LoopForwards, LoopDrops, LoopLoses,
                  LoopSeesClosed, LoopSeesDone, LoopClosesMessages,
                  LoopUnregisters, LoopEnds
    <3>4. QED
      BY <2>1, <3>1, <3>2, <3>3, LoopMovesMessenger
  <2>2. CASE MessageArrives(i)
    BY <2>2 DEF MessageArrives, ContractStep
  <2>3. CASE HandlerStep(i)
    BY <2>3 DEF HandlerStep, HandlerReads, HandlerStops, HandlerPanics,
                HandlerReturns, Crash, SuperGoesTo
  <2>4. CASE SupervisorStep(i)
    BY <2>4 DEF SupervisorStep, SupervisorChecks, HandlerStarts, CrashReported,
                BackoffCancelled, BackoffElapses, SuperGoesTo
  <2>5. QED
    BY <2>1, <2>2, <2>3, <2>4 DEF InstanceStep
<1>5. QED
  BY <1>2, <1>3, <1>4 DEF Track

\* An instance's own steps keep track of it.
LEMMA SelfTracked ==
  ASSUME NodeTypeOK, Tracked, DistinctNodes,
         NEW i \in Callers, InstanceStep(i)
  PROVE  Track(i)'
<1>1. Track(i) /\ NodeOf[i] \in Nodes /\ i # NoChan
  BY DEF Tracked
<1> USE DEF NodeTypeOK, ContractTypeOK, CtxDone, ctxVars, runVars, superVars
<1>2. CASE LoopStep(i)
  <2> USE DEF RunGoesTo
  <2>1. CASE LoopSubscribes(i)
    <3>1. registry'[NodeOf[i]] = i /\ phase'[i] = "reading"
      BY <1>1, <2>1 DEF LoopSubscribes, Subscribes, Track
    <3>2. holds'[i] = i /\ shut' = shut /\ runPc'[i] = "select"
      BY <3>1, <2>1 DEF LoopSubscribes, Subscribes
    <3>3. superPc' = superPc /\ messagesClosed' = messagesClosed
      BY <2>1 DEF LoopSubscribes
    <3>4. runPc[i] = "start" /\ phase[i] = "new"
      BY <1>1, <2>1 DEF LoopSubscribes, Track
    <3>5. QED
      BY <1>1, <3>1, <3>2, <3>3, <3>4 DEF Track
  <2>2. CASE HeartbeatStarts(i) \/ PublishReturns(i)
    BY <1>1, <2>2 DEF HeartbeatStarts, PublishReturns, cvars, Track
  <2>3. CASE LoopRejects(i)
    BY <1>1, <2>3 DEF LoopRejects, Takes, Track
  <2>4. CASE LoopForwards(i)
    BY <1>1, <2>4 DEF LoopForwards, Takes, Track
  <2>5. CASE LoopDrops(i)
    BY <1>1, <2>5 DEF LoopDrops, Takes, Track
  <2>6. CASE LoopLoses(i)
    BY <1>1, <2>6 DEF LoopLoses, Takes, Track
  <2>7. ~LoopSeesClosed(i)
    BY <1>1 DEF LoopSeesClosed, Track
  <2>8. CASE LoopSeesDone(i)
    BY <1>1, <2>8 DEF LoopSeesDone, cvars, Track
  <2>9. CASE LoopClosesMessages(i)
    BY <1>1, <2>9 DEF LoopClosesMessages, cvars, Track
  <2>10. CASE LoopUnregisters(i)
    <3>1. runPc[i] = "unregister" /\ phase[i] = "reading"
      BY <1>1, <2>10 DEF LoopUnregisters, Track
    <3>2. registry[NodeOf[i]] = i
      BY <1>1, <3>1 DEF Track
    <3>3. Unregisters(i) /\ runPc' = [runPc EXCEPT ![i] = "closing"]
      BY <1>1, <2>10, <3>2 DEF LoopUnregisters, LeavesUnregistered
    <3>4. /\ phase'[i] = "removing" /\ holds'[i] = i /\ shut' = shut
          /\ registry'[NodeOf[i]] = NoChan /\ runPc'[i] = "closing"
      BY <1>1, <3>2, <3>3 DEF Unregisters
    <3>5. UNCHANGED <<superPc, messagesClosed, rootDone, stopped>>
      BY <2>10 DEF LoopUnregisters
    <3>6. QED
      BY <1>1, <3>1, <3>4, <3>5 DEF Track
  <2>11. CASE LoopEnds(i)
    BY <1>1, <2>11 DEF LoopEnds, Closes, Track
  <2>12. QED
    BY <1>2, <2>1, <2>2, <2>3, <2>4, <2>5, <2>6, <2>7, <2>8, <2>9, <2>10, <2>11
       DEF LoopStep
<1>3. CASE MessageArrives(i)
  BY <1>1, <1>3 DEF MessageArrives, Delivers, Track
<1> USE DEF cvars, SuperGoesTo
<1>4. CASE HandlerReads(i)
  BY <1>1, <1>4 DEF HandlerReads, Track
<1>5. CASE HandlerStops(i)
  BY <1>1, <1>5 DEF HandlerStops, Track
<1>6. CASE HandlerPanics(i) \/ HandlerReturns(i)
  BY <1>1, <1>6 DEF HandlerPanics, HandlerReturns, Crash, Track
<1>7. CASE SupervisorStep(i)
  BY <1>1, <1>7 DEF SupervisorStep, SupervisorChecks, HandlerStarts,
                    CrashReported, BackoffCancelled, BackoffElapses, Track
<1>8. QED
  BY <1>2, <1>3, <1>4, <1>5, <1>6, <1>7 DEF InstanceStep, HandlerStep

\* The context, once done, stays done, and nothing else of what Track looks at
\* is the main goroutine's but the start of an instance.
LEMMA TrackedStep ==
  ASSUME TypeOK, Tracked, DistinctNodes, [Next]_avars
  PROVE  Tracked'
<1> USE DEF TypeOK
<1>1. ASSUME UNCHANGED <<cvars, runVars, superPc>>,
             \A i \in Callers : CtxDone(i) => CtxDone(i)'
      PROVE  Tracked'
  BY <1>1 DEF Tracked, Track, cvars, runVars
<1>2. ASSUME UNCHANGED nvars PROVE Tracked'
  BY <1>1, <1>2 DEF nvars, nodeVars, superVars, ctxVars, CtxDone
<1>3. ASSUME NEW i \in Callers, StartInstance(i) PROVE Tracked'
  <2>1. /\ superPc[i] = "idle" /\ superPc' = [superPc EXCEPT ![i] = "check"]
        /\ runPc' = [runPc EXCEPT ![i] = "start"]
        /\ UNCHANGED <<registry, phase, holds, shut, messagesClosed, rootDone,
                       stopped>>
    BY <1>3 DEF StartInstance, Run, cvars, ctxVars
  <2>2. runPc[i] = "idle"
    BY <2>1 DEF Tracked, Track
  <2>3. ASSUME NEW j \in Callers PROVE Track(j)'
    BY <2>1, <2>2 DEF Tracked, Track, CtxDone, NodeTypeOK
  <2>4. QED
    BY <2>3 DEF Tracked
<1>4. CASE MainStep
  BY <1>2, <1>3, <1>4
     DEF MainStep, Initialize, ConnectFails, ConnectReturns,
         AllStarted, ContextEnds, Disconnects, RunReturns
<1>5. CASE Signal
  BY <1>1, <1>5 DEF Signal, superVars, CtxDone
<1>6. ASSUME NEW i \in Callers, InstanceDone(i) PROVE Tracked'
  BY <1>2, <1>6 DEF InstanceDone
<1>7. ASSUME NEW i \in Callers, InstanceStep(i) PROVE Tracked'
  <2>1. ASSUME NEW j \in Callers PROVE Track(j)'
    BY <1>7, SelfTracked, OthersTracked
  <2>2. QED
    BY <2>1 DEF Tracked
<1>8. CASE UNCHANGED avars
  BY <1>2, <1>8 DEF avars
<1>9. QED
  BY <1>4, <1>5, <1>6, <1>7, <1>8 DEF Next

\* Every instance is tracked in every reachable state, if at all: node
\* identifiers never change.
LEMMA TrackedInvariant == Spec => [](TypeOK /\ (DistinctNodes => Tracked))
<1> DEFINE Inv == TypeOK /\ (DistinctNodes => Tracked)
<1>1. Init => Inv
  BY TypeInit, TrackedInit
<1>2. Inv /\ [Next]_avars => Inv'
  BY TypeStep, TrackedStep DEF DistinctNodes
<1>3. QED
  BY <1>1, <1>2, PTL DEF Spec

\* Where node identifiers are distinct, an instance that listens and whose
\* context is alive has its subscription and the handler's channel open,
\* whatever its siblings and the main goroutine do.
THEOREM ServedWhileAlive == Spec => []AliveIsServed
<1>1. TypeOK /\ (DistinctNodes => Tracked) => AliveIsServed
  <2> SUFFICES ASSUME TypeOK, Tracked, DistinctNodes,
                      NEW i \in Callers, Listening(i), ~CtxDone(i)
               PROVE  /\ registry[NodeOf[i]] = holds[i] /\ holds[i] \notin shut
                      /\ i \notin messagesClosed
    BY DEF AliveIsServed
  <2>1. Track(i) /\ phase[i] = "reading" /\ i \notin messagesClosed
    BY DEF Tracked, Track, Listening
  <2>2. QED
    BY <2>1 DEF Track
<1>2. QED
  BY <1>1, TrackedInvariant, PTL

\* Where node identifiers are distinct, the handler's channel is closed only
\* once the instance's context is done.
THEOREM ClosedWhenDone == Spec => []ClosedOnlyWhenDone
<1>1. TypeOK /\ (DistinctNodes => Tracked) => ClosedOnlyWhenDone
  BY DEF ClosedOnlyWhenDone, Tracked, Track, TypeOK, NodeTypeOK
<1>2. QED
  BY <1>1, TrackedInvariant, PTL

-----------------------------------------------------------------------------
(* The wait for the handlers.                                              *)

Started == {i \in Callers : superPc[i] # "idle"}

\* app.wg counts the supervisors that have been started and have not finished;
\* supervisors are started after Connect only, and the main goroutine goes on
\* from there only when the root context is done.
Counted ==
  /\ waiting = Cardinality(Started \ finished)
  /\ \A i \in finished : superPc[i] = "returned"
  /\ mainPc = "returned" => waiting = 0
  /\ Started # {} => mainPc \in {"start", "running", "disconnect", "wait",
                                 "returned"}
  /\ Started # {} /\ mainPc \in {"disconnect", "wait", "returned"} => rootDone
  /\ mainPc \in {"start", "running"} => connected

\* Nothing has been started at first.
LEMMA CountedInit == Init => Counted
<1> SUFFICES ASSUME Init PROVE Counted
  OBVIOUS
<1>1. Started = {} /\ waiting = 0 /\ finished = {} /\ mainPc = "initialize"
  BY DEF Init, NodeInit, Started
<1>2. Cardinality(Started \ finished) = 0
  BY <1>1, FS_EmptySet
<1>3. QED
  BY <1>1, <1>2 DEF Counted

\* An instance's own steps start no supervisor, and revive none.
LEMMA InstanceKeepsStarted ==
  ASSUME NodeTypeOK, NEW i \in Callers, InstanceStep(i)
  PROVE  /\ Started' = Started /\ rootDone' = rootDone
         /\ \A j \in Callers : superPc[j] = "returned" => superPc'[j] = "returned"
<1> USE DEF NodeTypeOK, ctxVars, superVars, SuperGoesTo
<1>1. CASE LoopStep(i)
  <2>1. UNCHANGED <<rootDone, superPc>>
    BY <1>1 DEF LoopStep, LoopSubscribes, HeartbeatStarts, PublishReturns,
                LoopRejects, LoopForwards, LoopDrops, LoopLoses, LoopSeesClosed,
                LoopSeesDone, LoopClosesMessages, LoopUnregisters, LoopEnds
  <2>2. QED
    BY <2>1 DEF Started
<1>2. CASE MessageArrives(i)
  BY <1>2 DEF MessageArrives, Started
<1>3. CASE HandlerStep(i)
  BY <1>3 DEF HandlerStep, HandlerReads, HandlerStops, HandlerPanics,
              HandlerReturns, Crash, Started
<1>4. CASE SupervisorStep(i)
  BY <1>4 DEF SupervisorStep, SupervisorChecks, HandlerStarts, CrashReported,
              BackoffCancelled, BackoffElapses, Started
<1>5. QED
  BY <1>1, <1>2, <1>3, <1>4 DEF InstanceStep

\* Every step keeps the count right.
LEMMA CountedStep ==
  ASSUME TypeOK, Counted, [Next]_avars
  PROVE  Counted'
<1> USE DEF TypeOK
<1>1. IsFiniteSet(Started \ finished)
  BY FS_Subset DEF Started
<1>2. ASSUME UNCHANGED nvars
      PROVE  Started' = Started /\ superPc' = superPc /\ rootDone' = rootDone
  BY <1>2 DEF nvars, nodeVars, superVars, ctxVars, Started
<1>3. CASE Initialize \/ ConnectFails \/ ConnectReturns \/ AllStarted
           \/ ContextEnds \/ Disconnects \/ RunReturns
  <2>1. /\ UNCHANGED <<nvars, waiting, finished>>
        /\ \/ mainPc \in {"initialize", "connect"}
              /\ mainPc' \in {"connect", "failed", "wait"}
           \/ mainPc = "connect" /\ mainPc' = "start" /\ connected'
           \/ /\ mainPc = "start" /\ mainPc' = "running"
              /\ UNCHANGED connected
           \/ mainPc = "running" /\ mainPc' = "disconnect" /\ rootDone
           \/ mainPc = "disconnect" /\ mainPc' = "wait"
           \/ mainPc = "wait" /\ mainPc' = "returned" /\ waiting = 0
    BY <1>3 DEF Initialize, ConnectFails, ConnectReturns, AllStarted,
                ContextEnds, Disconnects, RunReturns, MainGoesTo
  <2>2. QED
    BY <1>2, <2>1 DEF Counted
<1>4. ASSUME NEW i \in Callers, StartInstance(i) PROVE Counted'
  <2>1. /\ superPc[i] = "idle" /\ superPc' = [superPc EXCEPT ![i] = "check"]
        /\ waiting' = waiting + 1 /\ mainPc = "start"
        /\ UNCHANGED <<mainPc, connected, finished, rootDone>>
    BY <1>4 DEF StartInstance, Run, ctxVars
  <2>2. i \notin Started /\ i \notin finished
    BY <2>1 DEF Counted, Started
  <2>3. Started' = Started \cup {i}
    BY <2>1 DEF Started, NodeTypeOK
  <2>4. (Started \ finished)' = (Started \ finished) \cup {i}
    BY <2>1, <2>2, <2>3
  <2>5. Cardinality((Started \ finished)') = Cardinality(Started \ finished) + 1
    BY <1>1, <2>2, <2>4, FS_AddElement
  <2>6. \A j \in finished : superPc'[j] = "returned"
    BY <2>1, <2>2 DEF Counted, NodeTypeOK
  <2>7. QED
    BY <2>1, <2>5, <2>6 DEF Counted
<1>5. CASE Signal
  <2>1. UNCHANGED <<superPc, waiting, finished, mainPc, connected>> /\ rootDone'
    BY <1>5, Zenon DEF Signal, superVars, mainVars
  <2>2. Started' = Started
    BY <2>1 DEF Started
  <2>3. QED
    BY <2>1, <2>2 DEF Counted
<1>6. ASSUME NEW i \in Callers, InstanceDone(i) PROVE Counted'
  <2>1. /\ superPc[i] = "returned" /\ i \notin finished
        /\ finished' = finished \cup {i} /\ waiting' = waiting - 1
        /\ UNCHANGED <<nvars, mainPc, connected>>
    BY <1>6 DEF InstanceDone
  <2>2. i \in Started \ finished
    BY <2>1 DEF Started
  <2>3. (Started \ finished)' = (Started \ finished) \ {i}
    BY <1>2, <2>1
  <2>4. Cardinality((Started \ finished)') = Cardinality(Started \ finished) - 1
    <3>1. Cardinality((Started \ finished) \ {i}) = Cardinality(Started \ finished) - 1
      BY <1>1, <2>2, FS_RemoveElement
    <3>2. QED
      BY <2>3, <3>1
  <2>5. mainPc # "returned"
    <3>1. Cardinality(Started \ finished) # 0
      BY <1>1, <2>2, FS_EmptySet
    <3>2. QED
      BY <3>1 DEF Counted
  <2>6. QED
    BY <1>2, <2>1, <2>4, <2>5 DEF Counted
<1>7. ASSUME NEW i \in Callers, InstanceStep(i), UNCHANGED mainVars
      PROVE  Counted'
  BY <1>7, InstanceKeepsStarted DEF Counted, mainVars
<1>8. CASE UNCHANGED avars
  BY <1>2, <1>8 DEF avars, mainVars, Counted
<1>9. QED
  BY <1>3, <1>4, <1>5, <1>6, <1>7, <1>8 DEF Next, MainStep

\* The count is right in every reachable state.
LEMMA CountedInvariant == Spec => [](TypeOK /\ Counted)
<1>1. TypeOK /\ Counted /\ [Next]_avars => (TypeOK /\ Counted)'
  BY TypeStep, CountedStep
<1>2. QED
  BY <1>1, TypeInit, CountedInit, PTL DEF Spec

\* Handlers run between the return of Connect and the return of App.Run: Run
\* does not return before every handler has, and starts none when it failed.
THEOREM NoHandlerOutlivesRun == Spec => []HandlersWithinRun
<1>1. TypeOK /\ Counted => HandlersWithinRun
  <2> SUFFICES ASSUME TypeOK, Counted, NEW i \in Callers,
                      superPc[i] \notin {"idle", "returned"}
               PROVE  /\ mainPc \in {"start", "running", "disconnect", "wait"}
                      /\ connected \/ rootDone
    BY DEF HandlersWithinRun
  <2>1. i \in Started \ finished
    BY DEF Started, Counted
  <2>2. IsFiniteSet(Started \ finished)
    BY FS_Subset DEF Started, TypeOK
  <2>3. waiting # 0
    BY <2>1, <2>2, FS_EmptySet DEF Counted
  <2>4. QED
    BY <2>1, <2>3 DEF Counted
<1>2. QED
  BY <1>1, CountedInvariant, PTL

\* Run returns, once it has started handlers, only after a signal: no handler's
\* return, panic or Stop ends the app.
THEOREM RunEndsBySignal == Spec => []OnlySignalsEndRun
<1>1. TypeOK /\ Counted => OnlySignalsEndRun
  BY DEF OnlySignalsEndRun, Counted, Started
<1>2. QED
  BY <1>1, CountedInvariant, PTL

-----------------------------------------------------------------------------
(* Supervisors.                                                            *)

\* A supervisor that has returned had its context done.
ReturnedDone == \A i \in Callers : superPc[i] = "returned" => CtxDone(i)

\* A context that is done stays done.
LEMMA ContextStaysDone ==
  ASSUME [Next]_avars, NEW i, CtxDone(i)
  PROVE  CtxDone(i)'
<1>1. /\ rootDone' = rootDone \/ rootDone' = TRUE
      /\ stopped \subseteq stopped'
  <2>1. CASE MainStep \/ UNCHANGED avars \/ \E j \in Callers : InstanceDone(j)
    BY <2>1 DEF MainStep, Initialize, ConnectFails, ConnectReturns, AllStarted,
                ContextEnds, Disconnects, RunReturns, StartInstance, Run, InstanceDone,
                avars, nvars, nodeVars, ctxVars
  <2>2. CASE Signal
    BY <2>2, Zenon DEF Signal
  <2>3. ASSUME NEW j \in Callers, InstanceStep(j)
        PROVE  rootDone' = rootDone /\ stopped \subseteq stopped'
    <3>1. CASE LoopStep(j)
      BY <3>1 DEF LoopStep, LoopSubscribes, HeartbeatStarts, PublishReturns,
                  LoopRejects, LoopForwards, LoopDrops, LoopLoses, LoopSeesClosed,
                  LoopSeesDone, LoopClosesMessages, LoopUnregisters, LoopEnds, ctxVars
    <3>2. CASE HandlerStep(j)
      BY <3>2 DEF HandlerStep, HandlerReads, HandlerStops, HandlerPanics,
                  HandlerReturns, Crash, ctxVars
    <3>3. CASE SupervisorStep(j) \/ MessageArrives(j)
      BY <3>3 DEF SupervisorStep, SupervisorChecks, HandlerStarts, CrashReported,
                  BackoffCancelled, BackoffElapses, MessageArrives, ctxVars
    <3>4. QED
      BY <2>3, <3>1, <3>2, <3>3 DEF InstanceStep
  <2>4. QED
    BY <2>1, <2>2, <2>3 DEF Next
<1>2. CASE rootDone
  <2>1. rootDone'
    BY <1>1, <1>2, Zenon
  <2>2. QED
    BY <2>1, Zenon DEF CtxDone
<1>3. CASE i \in stopped
  <2>1. i \in stopped'
    BY <1>1, <1>3
  <2>2. QED
    BY <2>1, Zenon DEF CtxDone
<1>4. QED
  BY <1>2, <1>3, Zenon DEF CtxDone

\* A supervisor returns only when its own context is done, and for good.
LEMMA SupervisorReturns ==
  ASSUME TypeOK, ReturnedDone, [Next]_avars, NEW i \in Callers
  PROVE  /\ superPc[i] = "returned" => superPc'[i] = "returned"
         /\ superPc'[i] = "returned" => CtxDone(i)
<1> USE DEF TypeOK, NodeTypeOK, ReturnedDone
<1>1. CASE superPc' = superPc
  BY <1>1
<1>2. ASSUME NEW j \in Callers, StartInstance(j)
      PROVE  /\ superPc[j] = "idle" /\ superPc' = [superPc EXCEPT ![j] = "check"]
  BY <1>2 DEF StartInstance, Run
<1>3. ASSUME NEW j \in Callers, InstanceStep(j), superPc' # superPc
      PROVE  /\ superPc[j] # "returned"
             /\ \E to : /\ superPc' = [superPc EXCEPT ![j] = to]
                        /\ to = "returned" => CtxDone(j)
  <2>1. CASE LoopStep(j) \/ MessageArrives(j)
    BY <1>3, <2>1 DEF LoopStep, LoopSubscribes, HeartbeatStarts, PublishReturns,
                LoopRejects, LoopForwards, LoopDrops, LoopLoses, LoopSeesClosed,
                LoopSeesDone, LoopClosesMessages, LoopUnregisters, LoopEnds,
                MessageArrives, superVars
  <2>2. CASE HandlerStep(j)
    BY <1>3, <2>2 DEF HandlerStep, HandlerReads, HandlerStops, HandlerPanics,
                HandlerReturns, Crash, SuperGoesTo, superVars
  <2>3. CASE SupervisorStep(j)
    BY <2>3 DEF SupervisorStep, SupervisorChecks, HandlerStarts, CrashReported,
                BackoffCancelled, BackoffElapses, SuperGoesTo
  <2>4. QED
    BY <1>3, <2>1, <2>2, <2>3 DEF InstanceStep
<1>4. \/ superPc' = superPc
      \/ \E j \in Callers : StartInstance(j)
      \/ \E j \in Callers : InstanceStep(j)
  BY DEF Next, MainStep, Initialize, ConnectFails, ConnectReturns, AllStarted,
         ContextEnds, Disconnects, RunReturns, InstanceDone, Signal, avars, nvars,
         nodeVars, superVars
<1>5. QED
  BY <1>1, <1>2, <1>3, <1>4

\* Its context done, a supervisor that has returned keeps it done.
LEMMA ReturnedInvariant == Spec => [](TypeOK /\ ReturnedDone)
<1>1. Init => ReturnedDone
  BY DEF Init, NodeInit, ReturnedDone
<1>2. TypeOK /\ ReturnedDone /\ [Next]_avars => (TypeOK /\ ReturnedDone)'
  <2> SUFFICES ASSUME TypeOK, ReturnedDone, [Next]_avars
               PROVE  ReturnedDone'
    BY TypeStep
  <2>1. ASSUME NEW i \in Callers, superPc'[i] = "returned"
        PROVE  CtxDone(i)'
    BY <2>1, SupervisorReturns, ContextStaysDone
  <2>2. QED
    BY <2>1 DEF ReturnedDone
<1>3. QED
  BY <1>1, <1>2, TypeInit, PTL DEF Spec

\* A supervisor that has returned never calls the handler again, and it returns
\* only when the context is done: no node is left without a handler, whatever the
\* handlers, their crashes and the other instances do.
THEOREM SupervisorsReturnForGood == Spec => ReturnedIsFinal
<1>1. TypeOK /\ ReturnedDone /\ [Next]_avars =>
        [\A i \in Callers :
           /\ superPc[i] = "returned" => superPc'[i] = "returned"
           /\ superPc'[i] = "returned" => CtxDone(i)]_nvars
  BY SupervisorReturns
<1>2. QED
  BY <1>1, ReturnedInvariant, PTL DEF Spec, ReturnedIsFinal
=============================================================================
