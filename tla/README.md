# A TLA+ model of the NeoEdgeX application SDK

This directory models the runtime of the NeoEdgeX v4 app SDK (Go): the life
cycle of an app, the node instances it runs, the MQTT messenger they subscribe
through and the in-memory messenger of mock mode. TLC checks the models on
small instances; TLAPS proves the main safety properties for every value of the
constants. All source paths below are relative to `src/`.

## 1. The system

An application calls `App.Run` (`neoedgex/app.go`) with a handler function. Run
reads the configuration, connects a messenger and starts one *node instance* per
node configuration. Each instance moves messages from a subscription channel to
the handler, sends heartbeats, and restarts the handler when it crashes. A
signal, or the handler's own `NodeEnv.Stop`, winds things down.

    App.Run -> sdk.Run -> messenger.Connect            main goroutine
       |           \-> callback: for each node { wg.Add; go instance.Run }
       |                     |
       |                     +-- runLoop        --AddSubscriber/RemoveSubscriber--> messenger
       |                     |      | messageChan                        ^ resubscribe loop,
       |                     +-- superviseHandler -> handler             | paho callbacks
       \-- wg.Wait                                                      broker

| component | source | state | operations | what makes it correct |
|---|---|---|---|---|
| MQTT messenger | `internal/messenger/client.go`, `subscription.go` | `desired` (node to channel), `actual` (nodes believed subscribed), the resubscribe context and its cancel function; in paho: connection, routes, tokens | `Connect`, `Disconnect`, `AddSubscriber`, `RemoveSubscriber`, `Publish`, `onConnect`, `onConnectionLost`, resubscribe loop, message handler | a channel is closed once and never handed out closed; a message reaches only its node's channel; registered nodes get subscribed; loops and removals end; the result of `Publish` says where the data is |
| Messenger contract | `internal/core/messenger.go` | channels and registrations | `AddSubscriber`, `RemoveSubscriber` | what node instances rely on |
| Mock messenger | `internal/sdk/mock_messenger.go`, `internal/sdk/sdk.go` (injector) | map of channels, index of the next message | the same interface, `injectNeoFlowMessage`, the ticking goroutine | no send on a closed channel; no configured message starves |
| Node instance | `internal/node/instance.go` | context, `messageChan`, the supervisor's backoff | `Run`, `runLoop`, `superviseHandler`, `Publish`, `ReportError`, `Stop` | stops completely, restarts after crashes, independent of siblings |
| App and SDK | `neoedgex/app.go`, `internal/sdk/sdk.go`, `internal/core/sdk.go` | root context, wait group | `Run`, `Initialize`, signal handling | handlers run only inside `Run`; only a signal ends it; a signal does end it |
| Value conversion | `neoedgex/contract/convert.go`, `values.go`, `format.go`, `type.go` | none (pure) | `ConvertToTypedValue`, `ConvertAnyValue`, `ConvertValueByType` | an integer is exact or refused; a value survives being stringified and parsed |
| Message decoding | `neoedgex/contract/message.go` | the decode plan (pure) | `ToMap`, `ToStruct` | the result depends on value and schemas only, not on the route of decoding; the two agree; undefined stays undefined |
| Contract data types | `neoedgex/contract/{node,error,status,logger}.go`, `neoedgex/types.go` | records | none | - |
| Mock configuration | `neoedgex/mock/config.go` | none | reads one file | - |
| Test doubles | `neoedgex/testutil` | recorded calls | used by applications' tests | a test's message is what a node would have sent |
| Loggers, template | `internal/logger`, `template` | none | output, example programs | - |

### What is hard here

The messenger is where most of the hard behaviour is. paho runs `OnConnect` and
`OnConnectionLost` as goroutines, so the lost callback of one connection may run
after the connect callback of the next. The resubscribe loop clones both maps,
releases the lock, waits for the network once per node and then stores the clone
over whatever has happened meanwhile. `RemoveSubscriber` forgets a node under
the lock and closes its channel after a network call outside of it. The loop's
select reads a field that another goroutine replaces. The instance's two nested
selects choose at random, and one of their context cases only logs. Handlers
panic, return early and stop themselves at any point of all this.

What a handler publishes goes through a check of the connection, a call to paho
and a wait of at most five seconds. The connection may go between any two of
these, paho keeps what it could not deliver and sends it again in no particular
order, and at shutdown the main goroutine disconnects without waiting for
handlers. What the result of `Publish` then says of the data is the question of
module `Outbound`.

On the data path the hard part is numeric. There are eleven schema types, more Go
kinds, and three widths of floats on the wire, and a value may be decoded directly,
or read in its natural type and converted, or converted from a float32. Whether
these routes agree depends on rounding at the edges of each width.
PROJECT.json lists these hazards at their lines, with the properties about them.

## 2. The modules

| module | models | notes |
|---|---|---|
| `MessengerContract` | `core.MessengerClient` | abstract: what a subscriber gets and when its channel is closed |
| `Messenger` | `internal/messenger` | detailed; `ImplementsContract` is its refinement |
| `MockMessenger` | `internal/sdk/mock_messenger.go`, `StartMessageInjection` | `ImplementsContract` likewise |
| `NodeInstance` | `internal/node/instance.go` | EXTENDS `MessengerContract`: instances run on any messenger that keeps the contract |
| `App` | `neoedgex/app.go`, `internal/sdk/sdk.go` | EXTENDS `NodeInstance`: the main goroutine composed with the instances |
| `Conversion` | `convert.go`, `values.go`, `format.go`, `type.go` | pure operators, one per function |
| `Outbound` | `Instance.Publish`, `ReportError`, `PublishNodeError`, `Client.Publish`, the `Disconnect` at the end of `sdk.Run` | publishers against paho, the broker and the shutdown |
| `DataPath` | `contract/message.go`, the values in `Instance.Publish`, `injectNeoFlowMessage` and `testutil.NewMessage` | EXTENDS `Conversion`: one field from a publisher to `ToMap` and `ToStruct` |
| `MessengerProofs`, `MessengerHonestyProofs`, `MessengerRefinement`, `MockMessengerProofs`, `AppProofs`, `OutboundProofs`, `DataPathProofs`, `DataPathFieldProofs` | | theorems only |
| `MCMessenger`, `MCMockMessenger`, `MCApp`, `MCOutbound`, `MCDataPath` | | values of `NodeOf`, of the mock messages, of the bounds of each actor, and of the numbers for TLC |

The composition goes through the contract: `NodeInstance` performs the contract's
steps (`Subscribes`, `Takes`, `Unregisters`, `Closes`) as parts of its own, and
the two messengers are shown to perform only such steps. Hence what holds of
instances on the contract holds of instances on either messenger, as far as
safety is concerned and for the one liveness promise the contract makes (a
removal that began does close its channel).

### Correspondence, messenger

Every stretch of code under `client.mutex` is one action; what lies between two of
them, in particular every `token.Wait()`, is a point where all other goroutines
may run.

* `desired` is the map of `subscriptionManager.desired`, with `NoChan` for an
  absent key; `actual` is the key set of `subscriptionManager.actual` (its values
  are never read). A channel is named after the `AddSubscriber` call that made
  it, which is the caller's only one.
* Connection `k` starts context `k` and resubscribe loop `k` (`OnConnect`).
  `resubscribeCtx`, `cancelResubscribe` are the fields of the same name,
  `cancelled` the contexts cancelled so far. `loopPc[k]` walks through `task`,
  `clone` (the lock is about to be taken in `resubscribeAll`), `range`, `await`
  (`token.Wait`), back to `range`, and `select`; `loopTodo`, `loopActual` are the
  two clones, `loopCtx` the context the select has read.
* `TaskSkips` compares the two counts as `task()` does, not the sets.
* `RemoveSubscriber`, `Unsubscribe` (or `UnsubscribeSkipped`),
  `UnsubscribeReturns` and `CloseChannel` are the four stretches of one call.
* `Disconnect`, `DisconnectClient` and `CleanupAfterDisconnect` likewise.
* External, modelled from how `client.go` configures it: paho's connection status,
  its goroutines for callbacks, its router and its tokens; the broker, which with
  a clean session forgets subscriptions when a connection ends and answers in
  order. A token fails when its connection goes. Calls made while paho
  reconnects fail at once. A SUBACK that refuses a subscription completes the
  token without an error: paho leaves the return code to the token's `Result()`,
  which `client.go` does not look at. `refused` holds the nodes so answered;
  `Refusable` names the nodes whose subscription the broker may refuse, each time
  it is asked.

### Correspondence, instances and app

* `runPc[i]` is where `runLoop` is: its outer select, a publish (heartbeat or error
  report, during which it reads no channel), or the deferred clean-up (`close`
  messageChan, `unregister`, `closing` the subscription channel). The forward
  into `messageChan` is `LoopForwards`, `LoopDrops` or `LoopLoses` according to the
  case the inner select takes. Rejected payloads are `LoopRejects`.
* `superPc[i]` is where `superviseHandler` is. A panic and an early return are the
  same `Crash`. `backoff` is the local variable, in seconds.
* `messages` counts what is buffered in `messageChan`; contents are irrelevant here.
* `mainPc` is the main goroutine; `waiting` the wait group's counter.
  `ConnectReturns` is not fair: `messenger.Connect` waits for paho's token, and with
  `ConnectRetry` that completes only when a broker answers.
* `runLoop` is not in the wait group. `Run` may return, and the process end, before
  it has unregistered. The models let the goroutines go on after `Run` returned;
  safety is not affected by ending them earlier.

### Correspondence, outbound path

* `pc[p]` is where a publisher is: `convert` is the loop over the output fields,
  `check` the call of `IsConnected`, `send` the call of paho's `Publish`, `await`
  `WaitTimeout`. A handler has one call at a time; several goroutines of one
  handler are several publishers.
* `payload[p]` is what `Messenger.Publish` was called for: the `data` (QoS 2) or the
  `report` of a field that cannot be converted (QoS 0). `bad[p]` counts the fields
  of the call still to fail. Only the data's result is the call's (`outcome`);
  that of a report is logged. Heartbeats and a handler's own `ReportError` are
  reports of their own, without a call around them: nothing waits for them here.
* `TimesOut` may happen at any moment of the wait; time is not modelled.
* External, from how `client.go` uses them: `stage[<<p, n>>]` is how far the n-th
  message of p has come in paho's QoS 2 exchange (stored, on the wire, PUBREC under
  way, PUBREL, done). With paho's default options, which the code leaves alone,
  `IsConnected` also holds while it reconnects, a reconnect sends again what is
  stored in no fixed order, beside new calls, a report made meanwhile is dropped
  with its token complete, and the broker, whose session is clean, takes a repeated
  message for a new one. `arrived` records what it took in. The 250 ms that paho
  waits in `Disconnect` are one step.
* Left out: a handle the node does not have is an error at once that changes
  nothing; the encoding of typed values cannot fail.

### Correspondence, data path

* A Go value is a record of its kind (`int16`, `float32`, `string`, ...), its form and
  its number; a wire value likewise, with the CBOR head for a kind. Numbers are
  integers in units of 1/`Unit`, so that 0.25 or 25.34 is a number and
  "is integral" means "is a multiple of `Unit`".
* The widths of integers (`MinOf`, `MaxOf`) and the floats (`Singles`, `Doubles`, their
  rounding and their shortest decimals) are constants with named assumptions. IEEE's
  formats satisfy them; so do the small formats of `MCDataPath`. They are, as is
  `strconv`, external to the repository.
* `WellFormed` says which values a Go kind can hold, `WireFormed` which a CBOR head can
  carry. CBOR reaches below the smallest int64, where the codec delivers a `big.Int`
  that the natural domain refuses: the head `bigint`.
* A string is abstracted to what `strconv` and the base64 decoder make of it. Only
  strings of the form `base64` decode as raw; that "1234" happens to be base64 too is
  left out.
* The codec is `fxamacker/cbor` with its default options, external: integers and
  floats keep their width, NaN and Inf go out as half-precision floats, a value
  decodes into any variable whose range holds it, a float into no integer.
* `Build` is `testutil.NewMessage` and `MockNodeEnv.NewMessage`, which put the test's
  Go values on the wire without an output schema; the type comes from the test
  (or `Undeclared`) in `Receive`, as from an input schema. The panics on malformed
  literals are left out, and so are values of Go kinds that only the codec knows how to
  encode (`time.Time`, structs).
* `Publish` treats each key of a message by itself, and so do `ToMap` and
  `ToStruct`; the model has one key. `target` are the struct's fields that share the key, in
  order, so that an error leaves earlier fields written (`RejectField`).
* An operator that returns `Error` is a function that returns an error; `Nil` is the
  undefined value that `ToMap` delivers, `Untouched` a field that was skipped.

Definitions with the comment "Mutant:" are deliberately wrong variants of the
definition they precede. Nothing uses them; each stands for a plausible bug that
one of the properties catches when it takes the definition's place.

## 3. What TLC checks

All safety properties are invariants or action properties, all liveness
properties temporal formulas under the fairness of section 4. Deadlock checking
is off in every run: an app that was stopped, or a connection budget that is used
up, ends the behaviour legitimately. That the system does not get stuck where it
should not is what the liveness properties say.

| run | instance | properties |
|---|---|---|
| `messenger_siblings` | three instances, two of one node, which may leave; one connection, refusals of both nodes, two messages | `TypeOK`, `RegisteredOpen`, `CloseOnce`, `Isolation`, `BookedWasAnswered`, `ImplementsContract`, `ServedUnlessRefused`, `DeafHasACause` |
| `messenger_shutdown` | one node, two connections, refusals, a signal at any point, it may leave | `RemovalEnds`, `LoopsEnd`, `DeafHasACause` |
| `messenger_reconnect` | one node, two connections | `RecoversAfterReconnect`: **violated** |
| `messenger_refused` | one node, one connection, refusals | `EqualCountsMeanSubscribed`: **violated** |
| `messenger_stop` | two nodes, one connection, one leaves | `StopSparesSiblings`: **violated** |
| `mock_messenger` | three instances, two of one node; four messages, one malformed and one for no node | `TypeOK`, `EveryMessageHasItsTurn`, `ImplementsContract` |
| `app_instance` | two instances of one node; one crashes and gets a message, both may stop, a signal at any point | `StopEndsInstance`, `ReturnedIsFinal`, `ShutdownCompletes` |
| `app_siblings` | two instances of two nodes; one crashes, with a backoff of 2 capped at 3, and gets two messages for a queue of one; both may stop | `TypeOK`, `AliveIsServed`, `ClosedOnlyWhenDone`, `HandlersWithinRun`, `OnlySignalsEndRun`, `CrashedHandlerRestarts` |
| `app_signal` | one instance | `SignalEndsRun`: **violated** |
| `outbound` | two publishers with two calls and one, a field that fails, two losses, two identifiers, a signal at any point | `TypeOK`, `NilMeansTaken`, `RefusedNeverArrives`, `FailsOnlyAtShutdown`, `OnlyTimeoutsLinger`, `ConfirmedInOrder`, `CallsReturn`, `TimedOutArrives` |
| `data_path` | 34 Go values, as published and as built by a test, 11 mock strings, 28 foreign wire values; every pair of output and input schema type; two struct fields | `TypeOK`, `IntegersExact`, `FieldRoundTrip`, `DoubleMatchesDisplay`, `PathIndependence`, `FiniteStructAgrees`, `NoSilentTruncation`, `UndefinedUntouched`, `TestsSeeProduction` |
| `data_nan` | the same, one struct field | `StructReceivesWhatMapDelivers`: **violated** |

### What the properties say

*Messenger.* `RegisteredOpen`: `AddSubscriber` never hands out a channel that is
closed. `CloseOnce`: no two removals close the same channel. `Isolation`: whatever
route an old loop installed, a channel holds only messages of its node.
`BookedWasAnswered`: on the first connection, before any removal, a node in
`actual` is routed to its current channel and has the broker's answer, though
not always a grant. `ServedUnlessRefused`: while nobody leaves and the connection
holds, only the refusal of its own subscription keeps a registered node from it.
`DeafHasACause`: a node that stays registered and deaf on an open connection does
so because no loop runs, or `actual` claims it, or the counts agree while the sets
do not. This delimits the three messenger findings below: there is no fourth way.
`RemovalEnds`, `LoopsEnd`: removals close their channel and loops end.
`ImplementsContract`: every step is one that `MessengerContract` allows; the contract's
fairness is `RemovalEnds`. The mock's `ImplementsContract` contains both.

*Instances and app.* `AliveIsServed`, `ClosedOnlyWhenDone`: with distinct node
identifiers, no sibling's stop or crash takes a subscription or the handler's
channel from a live instance. `StopEndsInstance`: a stop winds everything down
although the inner select's context case only logs. `CrashedHandlerRestarts`,
`ReturnedIsFinal`: the supervisor neither gives up nor returns early.
`HandlersWithinRun`, `OnlySignalsEndRun`, `ShutdownCompletes`: the main goroutine.

*Mock.* `EveryMessageHasItsTurn`: until the context is done the injector comes to every
message again, whether or not the ones before could be injected, and then it ends.
`ImplementsContract` also says that the injector never sends into a closed
channel, which nothing would recover there: registered channels are open in the contract.

*Outbound.* Four properties say what each result of `Publish` is worth.
`NilMeansTaken`: nil means that the broker has the data. `RefusedNeverArrives`: after
"not connected" it never will, so a caller may repeat the call. `OnlyTimeoutsLinger`: while the
connection is not closed for good, a timeout is the only result that leaves the data's
fate open, and the only thing that holds an identifier of paho's after its call.
(Once the shutdown has closed it, a call that fails leaves it open too.) `TimedOutArrives`: and then the data
does arrive, if the connection comes to stay: whoever repeats such a call sends
twice. `FailsOnlyAtShutdown`: an outage alone never makes `Publish` fail otherwise.
`ConfirmedInOrder`: resends do not overtake confirmed data. `CallsReturn`: no outage and no shutdown holds a
handler in `Publish`.

*Data path.* `IntegersExact`: to an integer type a number is truncated and otherwise
exact, or refused, and refused only out of range, also where a float meets the
bounds of int64 and uint64 as doubles. `FieldRoundTrip`: stringified and parsed, a
value is what it was. `DoubleMatchesDisplay`: a float32 of 25.34 becomes the double
25.34. `PathIndependence`: between two nodes of the SDK the delivered value is the
composition of the two conversions, whatever the wire form and the route of
decoding. `FiniteStructAgrees`: `ToStruct` agrees with `ToMap` on all but NaN and Inf,
which delimits the last finding. `NoSilentTruncation`: a conflicting declaration
never receives a truncated value. `UndefinedUntouched`: null, undefined
and absent fields. `TestsSeeProduction`: what a unit test puts together is what a node
would have sent, and a key without a schema keeps its number.

### Findings

* `messenger_reconnect`. `onConnect`'s comment (`internal/messenger/client.go:58`) says
  the loop is restarted "so subscriptions recover after auto-reconnect". They do
  not always: a loop still waiting for a SUBACK when the connection drops later
  stores its clone of `actual` over the map `cleanup()` has emptied, and a late
  `onConnectionLost` cancels the loop of the *new* connection.
* `messenger_stop`. The guide (`docs/developer-guide.en.md:966`) says `ctx.Stop()` "ends
  this node only". A node removed while `resubscribeAll` waits comes back into
  `actual`; one stale entry then balances one missing subscription, the counts agree,
  and a sibling that came later is never subscribed.
* `messenger_refused`. Where the two counts agree, "All nodes are already subscribed"
  (`internal/messenger/client.go:242`). A broker may refuse a subscription (return code
  0x80 in its SUBACK); paho then completes the token with a nil `Error()`, the only thing
  `resubscribeAll` looks at (294). The node is logged as subscribed, enters `actual`, and the
  timer never asks again. What paho does here is knowledge of that library, which is
  not part of the repository.
* `app_signal`. `Run` "blocks until the process receives SIGTERM, SIGINT or SIGQUIT"
  (`neoedgex/app.go:114-116`). While `Connect` waits for a broker the signal only
  cancels a context nobody looks at.
* `data_nan`. A struct field of its key's schema type "receives exactly what ToMap
  delivers for that key" (`neoedgex/contract/message.go:209-211`). A NaN or Inf sent
  in double precision under a `float` key is refused by the conversion, so `ToMap`
  delivers nil; the direct decode that `ToStruct` then falls back on takes it, and the
  float32 field receives NaN without an error.

Three smaller divergences were met while reading and have no run. The doc of
`NewPortFieldDataWithAny` (`neoedgex/contract/values.go:57-58`) says that 25.34 becomes
`"2.534e+01"`; the code writes `"25.34"`. `ToStruct`'s doc says that an `any` field
which cannot be decoded "is left nil" (`message.go:233`); the code skips it, so in a
struct that is used again it keeps its old value; `FiniteStructAgrees` shows that this
happens only where `ToMap` delivers nil. testutil encodes a test's values "exactly as the
sending node's Publish encodes it" (`neoedgex/testutil/message.go:177`), but NaN and
Inf, which `Publish` replaces by null, it lets through; `TestsSeeProduction` excludes them.

### Bounds, and why they are enough

`MaxConns` = 2 gives one reconnect: two callbacks of different connections to be
reordered, two loops to overlap. A third connection adds a third loop but no new
pair. `MaxMsgs` and `ChanCap` let a channel be empty, partly full (`mock_messenger`)
and full. `Refusable` names the nodes whose SUBSCRIBE the broker may refuse; a refusal
is not counted, since after it the node is booked and not asked for again before the next
connection or its own removal. `Leavers` names the instances
that may leave. The messenger's two passing runs divide the work: several nodes on
one connection, where `desired` and `actual` can have one size and differ, and one node over
two, where callbacks and loops overlap; `DeafHasACause` is checked in both. That
`Isolation` survives the loops of two connections is shown by its theorem alone. `NodeOf` is chosen per run: one instance per node, or two
instances of one node, where registrations are shared. `MaxCrashes` and
`MaxDelivered` are bounds for each instance: in `app_siblings` one handler crashes
and its queue overflows while the other is at any point of its life, and 2 doubled
meets the cap of 3; in `app_instance` the one instance that crashes also loses its
channel to the other. A second crash would repeat the supervisor's loop from
another value of the backoff, whose range `TypeCorrect` proves for every bound.
In `outbound` the two calls of one publisher can overtake each other and wait for
the identifiers that a timed-out call and the other publisher hold; with two losses
a message is sent three times, and one of them can hit a call begun after the
first. A third publisher or call adds no new pair. No symmetry is used: the instances are small
and liveness is checked with it off.

In `MCDataPath` int8 to int64 have 2 to 6 bits, so that every bound of one width is an
ordinary value of the next. Singles hold every 16-bit and doubles every 32-bit
integer, neither holds the largest 64-bit ones (`RoundsUpAssumption`), and both have
fractions whose shortest decimals have fewer digits than they: the features of IEEE's
formats on which the code relies. The values lie at and next to the bounds.
`NumFields` = 2 lets a second field fail after a first was written.

## 4. Fairness

* A goroutine that can run does so (weak fairness of each loop, removal, callback,
  supervisor, injector step).
* Go's `select` picks uniformly among ready cases, so a ready context case is not
  passed over for ever: strong fairness of `LoopExits` (messenger),
  `LoopSeesDone`, `LoopSeesClosed` (instance) and `InjectorStops` (mock).
* paho reconnects and the broker answers (weak fairness) in `Messenger`; in `Outbound`
  packets are answered while the connection is up, but that it comes up again is
  not assumed: `TimedOutArrives` has it as its condition. A goroutine in `Publish`
  runs, and its timer fires. Nothing is assumed about losses, messages, signals, new subscribers or the beginning of a
  removal, nor whether the broker's answer is a grant or a refusal.
* `Connect` of the app is *not* fair, see above.
* A handler returns once its channel is closed, as the developer guide demands of it;
  before that it may do anything, for ever.

## 5. What is proved

For all values of the constants, under the modules' named assumptions. The
capacities, bounds, sets of nodes and callers are arbitrary (the app's callers
finite).

| theorem | property | argument |
|---|---|---|
| `MessengerProofs!TypeCorrect` | `TypeOK` | inductive |
| `MessengerProofs!RegisteredChannelsOpen`, `ChannelsClosedOnce` | `RegisteredOpen`, `CloseOnce` | `ChannelInv` |
| `MessengerProofs!MessagesIsolated` | `Isolation` | `RouteInv` |
| `MessengerProofs!Invariance` | | `IInv` = `TypeOK`, `ChannelInv`, `RouteInv` |
| `MessengerRefinement!RefinesContract` | `ImplementsContract` | each step maps to a contract step or a stutter, given `IInv` |
| `MessengerHonestyProofs!FirstConnectionIsBooked` | `BookedWasAnswered` | `HonestInv` = `LoopsInv`, `BookInv` while the first connection lasts |
| `MessengerHonestyProofs!NobodyWaitsInVain` | its own, `WaitsAreAnswerable` | `AnswersInv` = `PacketInv`, `OneAnswerEach`, `WaitersInv`, with `LoopsInv` |
| `MockMessengerProofs!MockTypeCorrect`, `MockChannels` | `TypeOK` (mock) | `IInv` = `TypeOK`, `ChannelInv`, `QueueInv` |
| `MockMessengerProofs!MockRefinesContract` | safety half of the mock's `ImplementsContract` | each step maps to a contract step or a stutter, given `IInv` |
| `AppProofs!TypeCorrect` | `TypeOK` | inductive; `ContractType` once for the messenger's part |
| `AppProofs!ServedWhileAlive`, `ClosedWhenDone` | `AliveIsServed`, `ClosedOnlyWhenDone` | `Tracked` |
| `AppProofs!NoHandlerOutlivesRun`, `RunEndsBySignal` | `HandlersWithinRun`, `OnlySignalsEndRun` | `Counted` |
| `AppProofs!SupervisorsReturnForGood` | `ReturnedIsFinal` | `ReturnedDone`, `ContextStaysDone` |
| `OutboundProofs!TypeCorrect` | `TypeOK` | inductive, part of `IInv` |
| `OutboundProofs!ConfirmedArrived`, `RefusedIsFinal`, `OnlyShutdownFails` | `NilMeansTaken`, `RefusedNeverArrives`, `FailsOnlyAtShutdown` | `ResultHonest`, `StageHonest`, `ClosedWhenDone` |
| `OutboundProofs!ResultsAreFinal` | `OnlyTimeoutsLinger` | `ResultHonest`, `NotYetHandedOver` |
| `OutboundProofs!ConfirmedStaysInOrder` | `ConfirmedInOrder` | `NotYetHandedOver`, `StageHonest` |
| `DataPathProofs!IntegersAreExact` | `IntegersExact` | `BoundsExact`, `CastExact` |
| `DataPathFieldProofs!FieldTypeCorrect` | `TypeOK` (data path) | `FieldInv`; `ConvertFormed`, `SchemaFormed`, `StructFieldFormed` |
| `DataPathFieldProofs!FieldsRoundTrip`, `DoublesMatchDisplay` | `FieldRoundTrip`, `DoubleMatchesDisplay` | `Reparses`, `DisplayedDouble` |
| `DataPathFieldProofs!PathsAreIndependent`, `TestsSeeWhatNodesSend` | `PathIndependence`, `TestsSeeProduction` | `FieldConverts`, `PathOf`, `OwnType` |
| `DataPathFieldProofs!FiniteStructsAgree`, `NothingTruncatedSilently`, `UndefinedNeverTouches` | `FiniteStructAgrees`, `NoSilentTruncation`, `UndefinedUntouched` | `StructAgreement`, `IntegerStruct`, `StructOf` |

*Why the strengthenings.* `RegisteredOpen` and `CloseOnce` are not inductive:
whether a channel may be closed depends on who else holds it. `ChannelInv` adds
that a channel in some removal's charge is registered nowhere, that registered
channels were made for their node, and that a channel not made yet is neither
registered nor closed. `Isolation` depends on the routes, these on the clones old
loops still carry: `RouteInv` says that every pair in a clone and every route
lead from a node to a channel made for that node, and that being made for a node
is stable. `Tracked` ties each instance's place in `runLoop` to its phase at the
messenger and, with distinct nodes, its registration to its own channel.
`Counted` says that the wait group equals the number of instances started and not
finished; with it `RunReturns` cannot fire while a supervisor is alive.

*The first connection.* That `actual` lists only what was answered depends on the clones
the first loop carries and on the answer it waits for. `BookInv` says that every node in
`actual` or in the loop's clone is answered and routed, that the pairs still to subscribe
are those of `desired`, and that while the loop waits either its SUBSCRIBE is the only
packet under way or its token is complete, without an error only if the broker has
granted or refused the subscription. `LoopsInv` says that no other loop exists: a loop starts with its
connection's `onConnect`.

*The waits.* `token.Wait()` has no timeout, so a loop or a `RemoveSubscriber` whose
answer nobody owes would wait forever, and with it the shutdown. `AnswersInv` matches
waits with packets, on every connection: a packet under way belongs to a waiting asker
(and names the node the loop will book), no asker has two, and whoever waits has one;
without an open connection there is none, because losing or closing it fails every
token. `WaitersInv` alone is not inductive: an answer must be known to leave the other
askers' packets in place (`OneAnswerEach`), and a new wait must be known to begin with
no packet of an earlier one (`PacketInv`). That a loop starts without a token is
`LoopsInv`. No run states this property by itself: a wait that is never answered
violates `RemovalEnds` or `LoopsEnd`, which `messenger_shutdown` checks.

*The mock.* The contract closes a channel once and delivers only to open ones.
The mock needs `ChannelInv` for that (a registered channel is open and was made for
the node) and `QueueInv` (channels hold their node's messages and keep to their
capacity); the injector's end, a goroutine the contract does not know, is a stutter.
The contract's liveness half, that a removal that began closes its channel, is
without content for the mock, which does both in one step; TLC checks it.

*The outbound path.* What a result says of the data is not inductive either: that nil is
right depends on the token, the token's on the stage, the stage's on what the broker
took in. `TokenHonest` says that a token is complete without an error only when the
exchange is done, and failed only once the connection is closed; `StageHonest` ties
the stages to `arrived`; `ResultHonest` says the same of calls that have returned;
`NotYetHandedOver` that paho knows nothing of a call's data before the call hands it
over. That last one is why confirmed data cannot be overtaken: a later call's data
reaches paho only after the earlier call returned, and a call that returned nil is done.

*Exact integers.* `IntegersAreExact` needs only that what was published is one of the
handler's values (`Published`); the rest is arithmetic. `TruncIntegral`: truncation
gives a multiple of `Unit`. `NextIntegral`: between two neighbouring multiples there
is none, hence the exclusive bound `MaxOf + Unit` of the 64-bit types refuses
exactly what is above `MaxOf` (`BoundsExact`). `CastExact`: in range, Go's wrapping
conversion changes nothing (`SmallRemainder`). It holds for every width and every
floating-point format in which the largest 64-bit integers round up.

*The data path.* `FieldInv` says what the state of a field is made of: the wire is what
`PublishedField` or `Encode` made of the value (`PublishedInv`, `BuiltInv`) and in any
case well-formed, `mapped` is `ToMap` of the wire under the input type, and every field of
`target`, and the refused one, is `StructField` of the same two. None of the properties
is inductive without it, because each relates what was delivered to what was sent two
or three steps before. With it, every property is one of the operators:

* `ConvertFormed`, `DecodeFormed`, `SchemaFormed`: whatever is converted or decoded has the
  type's Go kind, lies in its range, and is finite if it was converted.
* `Reparses`: the shortest decimal of a float lies within the range `ParseFloat` accepts
  and rounds back to the float. `DisplayedDouble` needs in addition that widening a
  float32 goes through that decimal, as `convertToFloat` does.
* `FieldConverts`, the heart of the matter: for a typed value u, decoding `Encode(u)` as a
  type gives `ConvertToTypedValue(u, type)`. `IntegerDecodes`, `SingleDecodes`,
  `DoubleDecodes` and `PlainDecodes` go through the pairs. An integer comes back as int64
  or uint64 and not in its own kind, a single as a float64: neither may matter. That a
  single in double precision fits a float32 again, and that no integer overflows one,
  is `MagnitudeAssumption`.
* `StructAgreement`: where the wire's head matches the field, `ToStruct` leaves the work to
  the codec, else it tries the schema first and falls back on the codec. For finite values
  the fallback succeeds nowhere where the schema failed; NaN and Inf are where it does.
* `OwnType`: publishing a value under `GetDataType` of its kind is encoding it.

What is assumed of floating point, each about IEEE's formats and none about the code:
singles are doubles, and 0 and 1 among them; rounding keeps what is representable;
the largest int64 and uint64 round up as doubles; the shortest decimal of a float
parses back to it, without a range error; no single exceeds `math.MaxFloat32`;
truncating a double gives a double; the integers of 64 bits are far from the
end of either format. Of integers: every kind lies between the smallest int64 and the
largest uint64, and each kind that is no schema type (int8, int, uint8, uint) within the
type `GetDataType` names. TLC evaluates all of them on `MCDataPath`'s formats.

The inductive invariants were checked by TLC on the runs' instances before they were
proved.

Only model-checked: everything temporal (liveness under fairness is out of this
prover's reach). That leaves `DeafHasACause`, `RemovalEnds`, `LoopsEnd`,
`ServedUnlessRefused`, `EveryMessageHasItsTurn`, `StopEndsInstance`,
`ShutdownCompletes`, `CrashedHandlerRestarts`, `CallsReturn`, `TimedOutArrives`, and the
fairness half of the mock's `ImplementsContract`. Every invariant of a passing run is a
theorem. The five runs that expect a violation are TLC's alone.

## 6. What is not modelled, and the plan

Not modelled: the exit of the process, after which no goroutine goes on, so that no run
tells whether an instance's `RemoveSubscriber` got through after `Run` returned; logging, the formats of topics and envelopes, configuration parsing,
the loggers, the templates, which are example programs, and the recordings of
`MockNodeEnv`. The matching of struct fields by tags and pointer fields change no
value. A struct that is used for a second message is not modelled: `FiniteStructAgrees`
tells which fields keep what they held. Not covered by a property: of two instances
with one node identifier, the first to leave can end the other's subscription at the
broker; the code promises nothing for such a configuration.

Plan, most important first:

1. *(done)* contract, MQTT messenger, mock, instances, app; their safety proofs.
2. *(done)* value conversion and message decoding, from publisher to struct field; the
   theorem that integer conversions are exact.
3. *(done)* the outbound path: timeouts against late answers, losses and resends, the
   shutdown under a publish; its safety proofs.
4. *(done)* proofs of the data path, the mock's refinement and the first connection.
5. The safety core of the liveness properties, what one that has not ended is waiting
   for: *(done)* for the messenger's loops and removals; left for the instances' stop
   and for the outbound calls.
