-------------------------------- MODULE App --------------------------------
(***************************************************************************)
(* The life cycle of a NeoEdgeX app: App.Run (neoedgex/app.go) and the     *)
(* sdk.Run it calls (internal/sdk/sdk.go) on the main goroutine, composed  *)
(* with the node instances they start.                                     *)
(***************************************************************************)
EXTENDS NodeInstance, FiniteSets

ASSUME FiniteAssumption == IsFiniteSet(Callers)

VARIABLES
  mainPc,      \* control state of the main goroutine
  connected,   \* messenger.Connect has succeeded and Disconnect not been called
  toStart,     \* node configurations the callback has not come to
  waiting,     \* app.wg: supervisors counted and not finished
  finished     \* supervisors whose deferred wg.Done has run

mainVars == <<mainPc, connected, toStart, waiting, finished>>
avars    == <<nvars, mainVars>>

MainGoesTo(from, to) ==
  /\ mainPc = from
  /\ mainPc' = to

Init ==
  /\ NodeInit
  /\ mainPc = "initialize"
  /\ connected = FALSE
  /\ toStart = Callers
  /\ waiting = 0
  /\ finished = {}

-----------------------------------------------------------------------------
(* The main goroutine.                                                     *)

\* sdk.Initialize: from here on the signals cancel the context instead of
\* ending the process.  A configuration that cannot be read ends Run.
Initialize ==
  /\ \/ MainGoesTo("initialize", "connect")
     \/ MainGoesTo("initialize", "failed")
  /\ UNCHANGED <<nvars, connected, toStart, waiting, finished>>

\* A configured host that is no host leaves paho without a server to try, the
\* one case in which messenger.Connect returns an error.
ConnectFails ==
  /\ MainGoesTo("connect", "wait")
  /\ UNCHANGED <<nvars, connected, toStart, waiting, finished>>

\* messenger.Connect waits for paho's token, which completes when the broker
\* has been reached, at whatever time, and not when the context is done.
ConnectReturns ==
  /\ MainGoesTo("connect", "start")
  /\ connected' = TRUE
  /\ UNCHANGED <<nvars, toStart, waiting, finished>>

\* Mutant: no wg.Add(1).
StartInstanceUncounted(i) ==
  /\ mainPc = "start" /\ i \in toStart
  /\ toStart' = toStart \ {i}
  /\ Run(i)
  /\ UNCHANGED <<mainPc, connected, waiting, finished>>

\* The callback's loop over the node configurations: wg.Add(1) and a goroutine
\* for the instance.  (NewInstance rejects only a nil SDK, which it never gets.)
StartInstance(i) ==
  /\ mainPc = "start" /\ i \in toStart
  /\ toStart' = toStart \ {i}
  /\ waiting' = waiting + 1
  /\ Run(i)
  /\ UNCHANGED <<mainPc, connected, finished>>

\* The callback returns and sdk.Run blocks on the context.
AllStarted ==
  /\ toStart = {}
  /\ MainGoesTo("start", "running")
  /\ UNCHANGED <<nvars, connected, toStart, waiting, finished>>

\* Mutant: NodeEnv.Stop cancels the SDK's context.
ContextEndsWithNode ==
  /\ rootDone \/ stopped # {}
  /\ MainGoesTo("running", "disconnect")
  /\ UNCHANGED <<nvars, connected, toStart, waiting, finished>>

ContextEnds ==
  /\ rootDone
  /\ MainGoesTo("running", "disconnect")
  /\ UNCHANGED <<nvars, connected, toStart, waiting, finished>>

\* The deferred messenger.Disconnect, while the instances wind down.
Disconnects ==
  /\ MainGoesTo("disconnect", "wait")
  /\ connected' = FALSE
  /\ UNCHANGED <<nvars, toStart, waiting, finished>>

\* app.wg.Wait, then App.Run returns.
RunReturns ==
  /\ waiting = 0
  /\ MainGoesTo("wait", "returned")
  /\ UNCHANGED <<nvars, connected, toStart, waiting, finished>>

-----------------------------------------------------------------------------
\* Mutant: wg.Done is missed after a crash.
InstanceDoneUncrashed(i) ==
  /\ superPc[i] = "returned" /\ i \notin finished
  /\ finished' = finished \cup {i}
  /\ waiting' = IF crashes[i] = 0 THEN waiting - 1 ELSE waiting
  /\ UNCHANGED <<nvars, mainPc, connected, toStart>>

\* The goroutine of an instance ends with its supervisor.
InstanceDone(i) ==
  /\ superPc[i] = "returned" /\ i \notin finished
  /\ finished' = finished \cup {i}
  /\ waiting' = waiting - 1
  /\ UNCHANGED <<nvars, mainPc, connected, toStart>>

\* SIGTERM, SIGINT or SIGQUIT, which initialize has redirected.
Signal ==
  /\ mainPc \notin {"initialize", "failed"}
  /\ ~rootDone
  /\ rootDone' = TRUE
  /\ UNCHANGED <<cvars, stopped, runVars, messages, superVars, delivered,
                 mainVars>>

MainStep ==
  \/ Initialize \/ ConnectFails \/ ConnectReturns
  \/ AllStarted \/ ContextEnds \/ Disconnects \/ RunReturns
  \/ \E i \in Callers : StartInstance(i)

Next ==
  \/ MainStep
  \/ Signal
  \/ \E i \in Callers : InstanceDone(i)
  \/ \E i \in Callers : InstanceStep(i) /\ UNCHANGED mainVars

\* Once the process is past Connect the main goroutine goes on when it can;
\* Connect returns only if a broker answers, which nothing guarantees.
Fairness ==
  /\ WF_avars(MainStep /\ mainPc # "connect")
  /\ \A i \in Callers : WF_avars(InstanceDone(i))
  /\ \A i \in Callers : InstanceFairness(i)

Spec == Init /\ [][Next]_avars /\ Fairness

-----------------------------------------------------------------------------
(* Correctness.                                                            *)

\* Every variable of the main goroutine has its type.
TypeOK ==
  /\ NodeTypeOK
  /\ mainPc \in {"initialize", "connect", "start", "running", "disconnect",
                 "wait", "returned", "failed"}
  /\ connected \in BOOLEAN
  /\ toStart \subseteq Callers
  /\ waiting \in Int
  /\ finished \subseteq Callers

\* Handlers run only between the return of Connect and the return of App.Run,
\* which "blocks until every handler has exited": no goroutine is counted too
\* late for the wait, and none counted twice or left out.  Until the context is
\* done they run with the messenger connected, so that what they publish on
\* startup "happens only after the connection is fully established".
HandlersWithinRun ==
  \A i \in Callers :
    superPc[i] \notin {"idle", "returned"}
      => /\ mainPc \in {"start", "running", "disconnect", "wait"}
         /\ connected \/ rootDone

\* NodeEnv.Stop ends a node, never the app: Run returns from its wait for the
\* handlers only after a signal, unless Connect failed and none was started.
OnlySignalsEndRun ==
  mainPc = "returned" /\ (\E i \in Callers : superPc[i] # "idle") => rootDone

\* Once the connection has been established a signal ends the process, whatever
\* the handlers and their supervisors are doing.
ShutdownCompletes ==
  rootDone /\ mainPc \in {"start", "running", "disconnect", "wait"}
    ~> mainPc = "returned"

-----------------------------------------------------------------------------
(* What the repository's documents say and the code does not keep.         *)

\* App.Run "blocks until the process receives SIGTERM, SIGINT or SIGQUIT and
\* every handler has exited": a signal ends it also while it still connects.
SignalEndsRun == rootDone ~> mainPc = "returned"
=============================================================================
