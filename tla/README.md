# A TLA+ model of esb-core-server

esb-core-server is a service bus on an Akka cluster, wired by Spring. Nodes
with the roles core, provider, consumer, monitor and server form one cluster;
consumers call the services of providers through cluster routers; core nodes
watch the membership; monitor nodes collect call statistics, call failures and
membership news. This directory holds TLA+ modules of its core, TLC
configurations that check them on small instances, and TLAPS proofs.

All paths below are relative to `esb-common/src/main/java/org/esb/` unless they
begin with `src/`.

## 1. Inventory

| Component | State | Operations | Interaction | What is hard | What makes it correct |
|---|---|---|---|---|---|
| Node start (`akka/AkkaEsbSystem`) | ActorSystem, monitor of `thread`, special actors | `start`, `close`, onMemberUp callback | Spring thread, actor thread, the `Thread` object itself | `wait` without a condition; a `Thread` that notifies when it ends | start returns exactly when the node is a member |
| Provider pool (`rpc/RpcServerActor`, `rpc/RpcProviderActor`) | mailboxes, counters, timers, suspensions | CallMethod, CallCount, restart | calls from consumers, reports to the monitor client, supervision by Akka | overlapping failures, restart loses the counter and leaks timers | each call at most once, each failure handled once, counts add up |
| RPC call (`rpc/RpcBeanProxy`, `consumer/ConsumerFactoryBean.getRemoteActor`) | promise of an ask, waiting thread | `invoke`, two timeouts, timeout handler | cluster router, network, pools, monitor | two timers of 5 s race with each other and the answer; losses, crashes | an outcome is final; an answer means executed once; every invoke ends |
| Registration (`protocol/*`, `provider/*`, `consumer/*`, `rpc/*Protocol`) | protocol maps, RpcServerActor's children, JAX-RS resources | `provide`, `consume`, `start` | Spring thread tells RpcServerActor asynchronously | errors half way; failures of RpcServerActor nobody hears of | a provided service has a pool and is served |
| Service centre, monitor centre (`core/*`, `monitor/*`, `akka/AkkaSeed`) | `seeds`, mailboxes, subscriptions | MemberUp, UnreachableMember, MemberRemoved, publish | cluster events, publish/subscribe, a direct snapshot | subscriptions spread late; a live set is serialised; members flap | news in order, no departure missed, seeds = members |
| Application servers (`server/*`) | an actor per server bean, schedules | RUN, restart hooks | Spring thread, scheduler | RUN sent from the constructor; RUN before `init` | a run for every RUN asked for, one actor per class, hooks in order |
| TCP sockets (`server/socket/*`) | an actor, a handler per connection, one listener | Connected, Received, ConnectionClosed, CommandFailed, writes of any thread | Akka IO, the peers, the application | one unsynchronised listener for all connections; restarts; nothing reconnects | answers go to the connection they belong to; handlers end with their connection |
| Serial port (`server/serialport/*`) | the port's owner, streams, an array per event | `preStart`, `start`, `write`, `serialEvent` | actor of the bean, event thread of the driver | bytes arrive during the read loop; a restart while the port is open | bytes are received once, in order; a restart can write |
| Conversions (`util/HexUtil`) | none | hex, unicode, check code | | widths at the boundaries | round trips |
| HTTP dispatch (`http/*`) | handlers by port | add, service (remove is never called) | servlet container | | the handler of the port |
| Monitor admin (`src/esb-monitor-admin`) | a session attribute | login, pages | | | |

`PROJECT.json` lists every part under `components` and, under `hazards`, what
is hard to test, at its line.

## 2. Modules

| Module | Models |
|---|---|
| `NodeStart` | `AkkaEsbSystem.start` and `close` on all nodes |
| `ProviderPool` | the pools of RpcProviderActors, their supervision and statistics |
| `CallMeter` | abstract: what the call statistics promise |
| `RpcBus` | extends `ProviderPool`: proxies, router, network, crashes |
| `RemoteCall` | abstract: what a caller may rely on |
| `ProtocolRegistry` | the Spring boot of consumers and providers, RpcServerActor |
| `ClusterMonitor` | CoreServerActor, MonitorClientActor, MonitorCoreActor |
| `ServerLifecycle` | ServerFactoryBean, ServerActor and the hooks of a BaseServer |
| `TcpSocket` | SocketServer, SocketClient, SocketTcpActor, SocketTcpHandler, SocketTcpLisenter |
| `SerialPort` | SerialportServer, SerialportListener |
| `HexCodec` | HexUtil |
| `*_proofs` | the theorems about the module they are named after, one for each of the above but the abstract ones; those about `ProviderPool`, which `RpcBus` extends, are in `RpcBus_proofs` |
| `MC*` | instances for TLC (`ProviderPool`, `RpcBus`, `TcpSocket` and `SerialPort` need none: their cfg files give the constants) |

A definition named `X_Something` below a "Mutant" comment is a plausible bug of
the definition `X`; it is used by no specification. `PROJECT.json` says which
property catches it.

### NodeStart

`main[n]` is where the Spring thread is in `start()`, one value per statement
that other threads can tell apart; `owner[n]` the Java monitor of the field
`thread`; `callback[n]` the onMemberUp Runnable; `helper[n]` the `Thread`
object, which is started (line 56), has nothing to run, and whose termination
does `notifyAll` on its own monitor (JVM, external). `SpecialActors` is
`startSpecialActor`; on a node whose `roles` is null it throws after the monitor
client was created. Joining is Akka's: the first seed joins itself, every other
node through a seed that is up. `woken` and `early` are history.

### ProviderPool and CallMeter

One pool per provider node for one service. A routee takes the head of its
mailbox when it is idle, not suspended and has no system message
(`Ready`). `BeginCall` is the first statement of the handler (the count),
`AnswerCall` and `FailCall` its two ends; `FailCall` covers a null argument or
unknown method ("reject", the service is not entered), an exception of the
service ("throw") and a null or void result, which `tell` refuses ("null").
`ReportCounts` is the CallCount handler with copy, clear and tell.

The supervision is Akka 2.3's, as the code configures it: a pool router
escalates, RpcServerActor restarts the router, the router restarts all routees.
Failures that come while the router is suspended wait. A restart runs the
constructor: empty `counter`, one more timer. `MaxMail` bounds how many messages
may be in a mailbox for a timer to fire; routing is bounded by `Calls`.

`CallMeter` has the three things that may happen to the statistics: one call
counted, all pending reported, all pending lost by a crash. `ProviderPool`
implements it under `pending <- counter` (`RouteesMeter`).

### RpcBus and RemoteCall

`phase`, `promise` and `result` are of a call: the waiting thread, the promise
of the ask, what `invoke` returned. `AskTimeout` and `AwaitTimeout` are the two
timers; `Interrupted` is an InterruptedException of `Await.result`, which `invoke`
does not catch. The handler is any: null (DefaultTimeOutHandler), a value, an exception;
a null is reported to the monitor (`events`). `requests` is the network towards
providers, `replied`/`answered` the one back; messages may be lost and nodes may
crash if `Lossy`. `routees` is what the cluster router knows; it lags behind
`up`.

`Resolves` deserves a word. The router sends to `/user/<interface>`
(`ConsumerFactoryBean:65`), the pool is a child of an anonymous RpcServerActor
(`DefaultProtocol:25`), so its path is `/user/$a/<interface>`: **as the code is,
`Resolves = {}`**, and run `rpc_address` shows that no request arrives. The
other runs set `Resolves` to providers where the two paths agree, to check the
rest of the protocol, which would otherwise be unreachable; `rpc_bus` has one
provider of each kind.

`RemoteCall` is what is left of it for a caller: the service runs a call at most
once, at any time after it was begun, also after the caller has given up; the
call ends once, with the answer only if the service has run. `RpcBus` implements
it (`KeepsRemoteCall`) with `runs <- executed` and the state of a call read off
`phase` and `result`.

A call is `Spent` when no running provider has it or will get it. `FailsOver`
states what `src/README.md:41` says ("If the call fails, it will select another
address to call"), for a call that has reached its provider and failed there
while the router knows another that runs; run `rpc_failover` finds it violated.
Nothing sends a call again (`TimeOutHandler.tryTimes` has no caller), which is
the theorem `NeverSentAgainHolds`.

### ProtocolRegistry

The Spring thread goes through the consumers (`Consume`), then the beans
(`ProvideDefault`, one `ProvideNamed` or `ProvideFails` per protocol name), then
`StartProtocols`. Which beans there are, and what the package scan finds, is
chosen in `Init`. RpcServerActor runs beside it (`CreatePool`); `told` is history. An exception
ends the boot. One that comes while beans are created is a BeansException, and
Spring destroys the beans, `AkkaEsbSystem.close` included (`CloseContext`); the
IllegalStateException of an interface that is registered twice is not, and leaves
the actor system running.
Which service CXF serves at an address is not modelled.

### ClusterMonitor

One core. Cluster events arrive in its mailbox in order; it announces them to
its MonitorClientActor, which publishes to the monitors its mediator knows.
A seed is a pair of a node and an object identity, because `AkkaSeed` has no
`equals`: `seeds.remove(new AkkaSeed(..))` is `seeds \ {NewSeed(n)}` with a fresh
identity. `SerialiseAll` takes the content of the live set at serialisation
time, or loses the event if the core may be adding at that moment. With
`auto-down = on` an unreachable member is removed unless it comes back first
(`MaxReturns` bounds how often a node comes back, in this way or by a new
start). Events and lists may be lost. `listed` is what a monitor has printed of a
NodeSeedAllEvent, `unlisted` remembers that one came before its MonitorCoreActor
or was lost: the core sends it once. `life` in events is history: no message of the
code has it. Two things are assumed of the cluster: the core starts while no
member is unreachable, and a member is unreachable before it is removed. The
second also covers a node that starts again at its old address: its former life
ends by way of unreachable and removed before the new one is let in.

### ServerLifecycle

The Spring thread creates an actor per bean (`CreateActor`), then calls
`setActor` and `init`; the actor runs beside it from the start. `AskForRun` is
the constructor of ServerActor: a RUN to itself, or a timer, at every
construction, and no timer is ever cancelled but by the end of the actor.
`Restart` is one action, with the order of the calls inside: preRestart of the
bean, super.preRestart (postStop of the bean), the constructor, postRestart of
the bean, super.postRestart (preStart of the bean); `PreRestart` and
`PostRestart` say how each leaves the bean, and any of the hooks in `Throwing`
may throw. An exception of a RUN restarts the actor (the user guardian's default
strategy), one in a constructor, preStart or postRestart stops it. "run" stands
for preRun, run and postRun together. `completed` and `failures` are history:
they count the RUNs that ended well and, for periodic servers, those that did
not. A periodic server that has failed k times has k + 1 schedules, which
`RunsConserved` says exactly. An actor has the name of its bean's class, so that
the second bean of a class ends the boot unless the first actor has stopped
(`OneOfAClass`). `MaxFires` bounds the timers of a periodic server.

### TcpSocket

One bean, server or client (chosen in `Init`, as is whether the application's
`getSocketLisenter` makes a new listener at every call). `offers` are the
Connected messages in the mailbox of SocketTcpActor. That branch of its
`onReceive` is two steps, for other threads read the listener in between:
`OnConnected` marks the listener ready (or its `setConnected` throws, as a missing
listener does), and the actor is "accepting"; `CreateHandler` creates a handler (its
constructor runs later and by itself: `Construct`), registers it, and in a client
tells it Connected and remembers it by `become` (`link`). A connection whose Register
comes too late is "expired"; its handler is never told anything. From the
Register on Akka IO tells only the handler: the branches Received and
ConnectionClosed of `connected(..)` are not reached, so the actor of a client
does not hear of the end of its connection. `handleActor` is neither volatile
nor locked; `seen` holds the values another thread may read in `write(data)`,
the first null among them for ever. `ReadyWindow` speaks of the field itself.
A handler that fails is restarted, which sets `handleActor` to the handler. An
actor that fails starts again in `onReceive`, without `init`; its handlers are
stopped, unless preRestart of the bean throws (`ServerActor:73`): then they are
restarted after it and keep the listener they have, which is not the actor's any
more if the bean makes a new one (`detached`). A write that an open connection
cannot do is answered by CommandFailed (`bounced`): a connected client drops it,
one that was restarted meanwhile stops. Bounds: `MaxSent`, `MaxPushes`,
`MaxThrows`.

### SerialPort

Bytes are numbered. The actor calls `preStart` at every start and restart, which
puts a new listener into the field (`current`); `StartListener` is `start` with
all it swallows. Nothing closes the port, so the listener that opened it stays
its `owner` and stays the one that the driver calls. The event thread goes
through `BeginEvent` (an array as long as what is available), `ReadAgain` (one
turn of the loop: `read` fills the array from its front), `EndEvent` (`receive`
with the whole array) or `EventFails`; bytes arrive in between. The driver calls
serialEvent in the thread that notices the bytes, with at least one available,
and goes on to the next event also when the application's `receive` has thrown an
unchecked exception. Both are assumptions about the driver.
Bounds: `MaxBytes`, `MaxInstances` (calls of preStart), `MaxErrors`.

### HexCodec

The methods of HexUtil as operators over bytes (-128..127) and code units
(0..65535), with Java's own conversions modelled by what they do. The state is
an input that grows by one byte or one code unit; the properties compare the
conversions with each other. `str.getBytes` and `new String(bytes)` use the
charset of the platform: they are modelled for ASCII.

## 3. Runs

Passing runs:

| Run | Instance | Shows |
|---|---|---|
| `node_start` | core (seed), provider+monitor, a node with null roles | hanging has one cause, early return has one cause, a start that waits in time returns |
| `pool` | 1 provider, 2 routees, 1 method, 3 calls, all failure kinds, mailbox bound 1 for the timers | overlapping failures, at-most-once, counts that add up and are reported or lost by a restart, every call leaves; refinement of `CallMeter` |
| `rpc_bus` | 2 providers (one at the path of the router, one not) with a routee each, 2 calls, crashes, losses, interrupts, failing calls | an answer means exactly once; outcomes are final; every invoke ends; refinement of `RemoteCall` |
| `registry` | contexts of up to 4 out of 7 beans: shared interface, unknown protocol, malformed, "default"; interfaces scanned twice | a registration is lost only if an interface is provided twice; one RpcServerActor for all, one REST server for all |
| `monitor` | 1 monitor, 1 worker that flaps or returns, losses | seeds cover the members, a monitor is listed all of them unless the list is early or lost, news in order, a departure reaches every known subscriber |
| `servers` | any of 4 beans: each kind, two classes that occur twice, one UDP; every hook may throw; a periodic timer fires twice | one RUN for a server that is not periodic, one more schedule per failure for one that is; one live actor per class; hooks in order; every server gets to run |
| `tcp` | server or client, listener shared or new, 2 connections, 2 data each, 1 write of the application, 2 exceptions, of hooks, RUNs and listeners | answers go to their sender in order; when write(data) reaches a connection; the window of isReady; a client that lost its connection is cut off; handlers end |
| `serial` | 5 bytes, 3 calls of preStart, 1 IOException, the port free, foreign or missing | no byte is doubled, and one is lost only inside serialEvent; a quiet line is received intact; a restarted bean does not write; every byte leaves |
| `hex` | all arrays of up to 2 bytes, all texts of up to 3 out of 13 boundary code units | which conversions are inverse, and for exactly which inputs they are not |

Two routees and three calls are enough for the supervision: a routee that did
nothing wrong, two failures that overlap, and a call queued behind a failing
one. The pool size is 2 in the code, as in `pool`; the theorems hold for every
size. Two calls and two providers are enough for the bus: calls interact only
through a routee, which is why `rpc_bus` has one routee per pool, so that both
calls meet. Its handlers return null or throw; a handler that returns a value
differs from null only in that nothing is reported. The seven beans have one of
each kind that ProtocolFactory and RpcServerActor tell apart, and four of them
make two interfaces that are provided twice. A monitor needs one node to report
on, and a second life or a flap of it for news to be out of order. Two
connections are what a shared listener can confuse. Five bytes make an array of
two that is read over by fewer, by as many and by more bytes; three listeners
are one that holds the port and two in a row that do not get it. The code units
are the ones on both sides of every width and every comparison in HexUtil.

Runs that find a disagreement between the code and what the repository says
(each is a finding in `PROJECT.json`, with the line it contradicts):

| Run | What happens |
|---|---|
| `node_hang` | the callback notifies before `start()` waits; the node is up and its start never returns |
| `rpc_address` | requests are sent to a path where no actor is |
| `rpc_failover` | a call that failed at one provider returns without an answer, with another provider up and known to the router |

A fourth finding is about a property that holds: `SeedsCoverMembers` survives a
node that is unreachable for a moment only because `seeds.remove` removes
nothing; so nodes that left stay among the seeds for ever.

Other behaviours a user may not expect hold in the model and are said by the
properties of passing runs: `start()` may return before the node is a member,
woken by the end of the `Thread` object (`ReturnHasCause`); every restart of a
routee or of a periodic server leaves one more timer running, with which
`CountsConserved` has to live and which `RunsConserved` counts; a second provider of an
interface makes RpcServerActor restart and stop all pools it has created
(`LostOnlyByDuplicate`, `PoolUnlessDuplicate`).

Deadlock checking is off where the system may stop: a node that was closed or
hangs, a boot that ended, calls that are all done with no timer to fire, a
cluster with no more changes, a socket or a port with no more traffic, an input
of full length.

### Fairness

Weak fairness only, of: each thread of a node and each actor that has something
to do (the JVM and Akka's dispatcher run it), Akka's scheduler (timers fire), the
return of a service method (`RouteeStep`; a service that never returns blocks its
routee, which the code does not guard against), the two timers of a call, and
the delivery of messages where a liveness property needs it (`ClusterMonitor`;
`RpcBus` assumes none). In `SerialPort` it is the event thread of the driver, in
`TcpSocket` the actor and the handlers; when peers send and close is left open.
In `ClusterMonitor` an unreachable member that does not come back is removed, for
auto-down is on; when nodes start and fail is left open.

## 4. Proofs

Checked by TLAPS for every value of the constants, from the assumptions named in
the modules (`PoolAssumption`, `BusAssumption`, `SeedsAssumption`,
`RolesAssumption`, `RegistryAssumption`, `ClusterAssumption`,
`ServerAssumption`, `SocketAssumption`, `PortAssumption`, `CodecAssumption`). They give the
constants their types and keep the values that stand for "none" apart from the
others; `ClusterAssumption` also says that there are finitely many nodes, which
the initial order of the core's events needs. The type invariants of
`NodeStart`, `ProviderPool`, `ServerLifecycle` and `SerialPort` are proved and
not run again.

Every safety invariant and every action property that a run checks has a
theorem, and so have both refinements. Almost none
is inductive as it stands; what each proof adds is in the paragraphs below. In
all of them one lemma per action shows that the action keeps the invariant,
lemmas about single sequences carry the data, and the theorem of a property
follows from the invariant alone.

`RpcBus_proofs`, the pools. `OneRestartPerFailure` speaks of settled pools only and is
not inductive. The invariant `PoolInv` says what holds in between:
`Balanced` (suspensions of a routee, applied or on their way, equal the restarts
on their way, plus its own failure waiting at the router, plus one if the router
is suspended; and a routee that executes has no failure waiting) and
`RestartsDue` (restarts done, on their way, and due at the router add up to the
failed calls of the pool). `Balanced` is also what keeps `suspended` from
going below zero, so that even the type invariant needs it. Theorems:
`PoolTypeCorrect`, `OneRestartPerFailureHolds`, `CountsConservedHolds` and the
refinement `RouteesImplementMeter`; the last two go through the lemma
`MeterStep`, which classifies every step by what it does to the statistics.
`AtMostOnce` needs `CallInv`: a call is in one place of one mailbox or executed
by one routee (`OnePlace`), and one that is still in a pool was not executed
before (`NotYetRun`). Theorem: `AtMostOnceHolds`.

`RpcBus_proofs`, the bus. The pools of the bus step as those of `ProviderPool` do, so
`PoolInv` and `CallInv` are lifted by their lemmas. `BusInv` adds that a call is
sent by its invoke and once, and that a call with a request on its way has
reached no pool (`SentOnce`: otherwise `DeliverRequest` could route it again), and that
a promise is answered only for a call that was executed (`AnswerWasRun`). Theorems:
`BusTypeCorrect`, the refinement `BusImplementsRemoteCall`, and
`NeverSentAgainHolds`, an action property stated with its proof, which follows a
call that is absent from all pools of running providers.

`ProtocolRegistry_proofs`. `LostOnlyByDuplicate` needs to know why
RpcServerActor can fail: an interface that it was told at most once is in its
mailbox or has a pool, not both (`ToldOnce`), so that only an interface told
twice makes `actorOf` throw (`FailsByDuplicate`). `OneServerForAll` needs that
the default protocol and its actor come together (`ServerWithProtocol`) and that
no bean is left when the REST server is created (`RestComplete`). Theorems:
`RegistryTypeCorrect`, `LostOnlyByDuplicateHolds`, `OneServerForAllHolds`.

`ClusterMonitor_proofs`. `ClusterInv` has two halves. `SeedInv`: every seed is
numbered below the next one, so that `seeds.remove` removes nothing
(`SeedsFresh`); a member has a seed or its MemberUp is in the mailbox of the core
(`MembersSeeded`); every list on its way, and the one a monitor has printed,
covers the seeds older than a seed of that monitor, and a monitor without such a
list has one outstanding or has missed it (`ListsCover`). `NewsFlow`: events are
given an age (two per life of a node), and along the way of an event (printed by
the monitor, on the wire, in the client's mailbox, in the core's mailbox, yet to
be) the ages of one node do not decrease, within a mailbox and from one to the
next. A step of any actor moves an event from the front of one to the end of
another, or drops it. Theorems: `ClusterTypeCorrect`, `SeedsCoverMembersHolds`,
`MonitorKnowsEldersHolds`, and from `NewsFlow` the action property
`NewsInOrderHolds`.

`TcpSocket_proofs`. `SocketInv` adds to the types: only a client is told
Connected, becomes connected and hands out its connection (`ClientOnly`); the
connection that the listener holds is one whose handler was greeted
(`HeldByGreeted`); a client has one connection (`OneConnection`); and for each
connection, what was written and what is in the mailbox of its handler are its
own data in the order of their numbers, the written ones first
(`AnswerBooks`). Theorems: `SocketTypeCorrect`, `AnswersToSenderHolds`,
`ConnectionHeldHolds`, `ReadyWindowHolds`, `ClientStaysCutOffHolds`.

`NodeStart_proofs`. `StartInv` adds to the type invariant: a callback that has
run was early or has woken `start()` (`DoneWakes`), and a `start()` that goes on
was woken by one of the two notifiers (`WokenByOne`). Theorems:
`HangOnlyByLostNotifyHolds` and `ReturnHasCauseHolds`.

`ServerLifecycle_proofs`. `RunsConserved` and `RunWhileStarted` are not inductive:
`ServerInv` adds that nothing was asked for before there is an instance
(`NothingBefore`), and that the bean of every instance is started, idle ones
too (`AliveStarted`). Theorems: `RunsConservedHolds`, `OneOfAClassHolds`,
`RunWhileStartedHolds`, `StartsAlternateHolds`.

`SerialPort_proofs`. `LockedOutAfterRestart` is not inductive, and neither is the
type invariant: `PortInv` adds that the streams belong to the listener that holds
the port (`StreamsOfOwner`), and that the array of an event is either untouched,
with enough bytes on the line to fill it, or full (`ArrayFills`), so that `read`
never leaves a place of it empty. Theorems: `PortTypeCorrect`,
`LockedOutAfterRestartHolds`. `BytesInv` says where each byte is: the line holds
those that came last, in order (`LineNumbered`), and every earlier one is in
exactly one of the array, `received`, `overwritten` and `dropped`
(`BytesPlaced`); on a line that has been quiet, the array is untouched and as
long as the line, or holds all that was on it, which is what follows the bytes
received (`QuietBooks`). Theorems: `BytesConservedHolds`, `QuietLineIntactHolds`.

`HexCodec_proofs`. The invariant `CodecInv` says only that the inputs are
sequences of bytes and of code units; what there is to prove is about the
operators, for arrays and texts of every length, and needs induction over data.
The induction theorems of the library take an operator as a parameter; here
induction is stated with sets (`NatInd`, `SeqInd`) and proved from the least
element that a well-founded order gives (`WFMin`). From it follow that the
recursive functions behind `Join` and `getCheckCode` exist and are unique, and so
their recursion equations. A text of pieces of the same length has each of its
pieces at its multiple of that length, which gives the layout of hexadecimal text
with and without separators; facts about single bytes (digits and their
values, halves, bits) do the rest of `HexRoundTrip` and `AsciiRoundTrip`. For
`CheckCodeIsParity` the parity of each bit is carried along the array: the
exclusive or adds bits without carry. For `UnicodeRoundTrip` the escapes of a text
are *whole* (all of six chars), *cut* (only the last one, which is shorter) or
*broken* (a short one that is followed by another, so that six chars from its
start hold something that is no digit), and one
more code unit leads from each of the three to one of them (`EscapesShape`).
Theorems: `CodecInvHolds`, `HexRoundTripHolds`, `AsciiRoundTripHolds`,
`UnicodeRoundTripHolds`, `CheckCodeIsParityHolds`.

Only model-checked: all liveness properties (`WaiterReturns`, `EveryCallLeaves`,
`ReportedOrRestarted`, `EveryInvokeEnds`, `PoolUnlessDuplicate`,
`DepartureReported`, `EveryServerRuns`, `HandlersEnd`, `EveryByteLeaves`):
liveness under fairness and ENABLED are beyond the prover.

## 5. Not modelled

A monitor whose subscription has not spread when a departure is published does
not hear of it, and a message lost by the network is not sent again;
`DepartureReported` says so by what it excludes.

What CXF serves at the second address when one ServerFactoryBean is created
twice (`rpc/webservice/WebServiceProtocol.java:53`) depends on the internals of
CXF.

HTTP dispatch is a static map from ports to handlers with one put and one get:
`ServletHttpBinder` and `ServletHttpServer` have no users in the repository,
`removeHttpHandler` no caller, and `UndertowServer` and `UndertowTest` are
demonstrations, so that no sequence of operations is there to be modelled.

The JavaScript of the repository is no part of the bus: it is third-party
(Chart.js, jquery.sparkline, easy-pie-chart, nicescroll and others) or the page
scripts of the theme of the monitor admin pages, a second time under `target/`
as build output. Nothing of it is modelled; the system is written in Java.

Left out, too: the monitor admin web application (view controllers), examples,
records of settings, string building for URLs, JMS stubs, `WebServiceProtocol3`
(unused), the internals of CXF, Undertow and Spring, the wording of logs. What a
server bean's `run` does when it comes before `setActor` and `init` is the
application's. An interrupt of the Spring thread
in `start()` and a core that starts while a member is unreachable are not
modelled.

## 6. Plan

The modules are complete as far as the code allows: every component with state
and operations of its own is modelled, and every safety property of a run has
a theorem. What is left is to state the safety half of the liveness arguments as
theorems: what keeps `EveryByteLeaves` and `EveryCallLeaves` from being lost for
good is that the step they wait for stays possible, which is an invariant without
ENABLED when its guard is written out.
