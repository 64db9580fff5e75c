------------------------------- MODULE RpcBus ------------------------------
(***************************************************************************)
(* The default RPC protocol from end to end: the proxies of the consumers  *)
(* (RpcBeanProxy), the cluster router they send through                    *)
(* (ConsumerFactoryBean.getRemoteActor), the network, and the provider     *)
(* pools of ProviderPool.                                                  *)
(*                                                                         *)
(* A call is asked of the router with a timeout of 5 seconds, and the      *)
(* calling thread awaits the answer for 5 seconds as well: two timers that *)
(* race with each other and with the answer. A timeout hands over to the   *)
(* TimeOutHandler; a null result, which only the handler can produce, is   *)
(* reported to the monitor as ConsumerCallFailureEvent.                    *)
(*                                                                         *)
(* The router sends to the path /user/<interface> of a provider node. The  *)
(* constant Resolves holds the providers where that path names the pool.   *)
(* DefaultProtocol creates RpcServerActor without a name, so that the pool *)
(* is at /user/$a/<interface>, and with the code as it is Resolves is {};  *)
(* runs with another value say what the protocol does once the two paths   *)
(* agree.                                                                  *)
(***************************************************************************)
EXTENDS ProviderPool

CONSTANTS Resolves,    \* providers whose pool is at the path of the router
          Handlers,    \* what the TimeOutHandler may do: see HandlerKind
          Lossy        \* whether nodes crash and messages are lost

\* DefaultTimeOutHandler returns null; an application's handler may also
\* return a value of its own or throw.
HandlerKind == {"null", "value", "throw"}

ASSUME BusAssumption ==
  /\ Resolves \subseteq Providers
  /\ Handlers \subseteq HandlerKind
  /\ Lossy \in BOOLEAN

VARIABLES
  phase,      \* of a call: "idle", "waiting", "returned", "thrown"
  promise,    \* of a call: "open", "answered", "expired"
  result,     \* what the proxy returned: "none", "answer", "null", "value"
  requests,   \* CallMethods on their way to a provider
  answered,   \* calls whose answer the network has delivered or lost
  events,     \* ConsumerCallFailureEvents sent to the monitor, per call
  up,         \* provider nodes that run
  routees     \* provider nodes the consumers' router sends to

busVars == <<phase, promise, result, requests, answered, events, up, routees>>
vars == <<poolVars, busVars>>

Request == Calls \X Providers \X Methods

TypeOK ==
  /\ PoolTypeOK
  /\ phase \in [Calls -> {"idle", "waiting", "returned", "thrown"}]
  /\ promise \in [Calls -> {"open", "answered", "expired"}]
  /\ result \in [Calls -> {"none", "answer", "null", "value"}]
  /\ requests \subseteq Request
  /\ answered \subseteq Calls
  /\ events \in [Calls -> Nat]
  /\ up \subseteq Providers
  /\ routees \subseteq Providers

Init ==
  /\ PoolInit
  /\ phase = [c \in Calls |-> "idle"]
  /\ promise = [c \in Calls |-> "open"]
  /\ result = [c \in Calls |-> "none"]
  /\ requests = {}
  /\ answered = {}
  /\ events = [c \in Calls |-> 0]
  /\ up = Providers
  /\ routees = {}

-----------------------------------------------------------------------------
(* The consumer's proxy.                                                   *)

\* invoke: the ask is sent once, to one of the routees; without a routee it
\* is a dead letter.
Invoke(c, m) ==
  /\ phase[c] = "idle"
  /\ phase' = [phase EXCEPT ![c] = "waiting"]
  /\ \/ /\ routees = {}
        /\ UNCHANGED requests
     \/ \E p \in routees : requests' = requests \cup {<<c, p, m>>}
  /\ UNCHANGED <<promise, result, answered, events, up, routees>>
  /\ UNCHANGED poolVars

\* The timer of the ask fails the future with an AskTimeoutException.
AskTimeout(c) ==
  /\ phase[c] # "idle"
  /\ promise[c] = "open"
  /\ promise' = [promise EXCEPT ![c] = "expired"]
  /\ UNCHANGED <<phase, result, requests, answered, events, up, routees>>
  /\ UNCHANGED poolVars

\* Await.result returns the answer. It is never null: a provider cannot
\* send null.
AwaitAnswer(c) ==
  /\ phase[c] = "waiting"
  /\ promise[c] = "answered"
  /\ phase' = [phase EXCEPT ![c] = "returned"]
  /\ result' = [result EXCEPT ![c] = "answer"]
  /\ UNCHANGED <<promise, requests, answered, events, up, routees>>
  /\ UNCHANGED poolVars

\* The calling thread is interrupted: Await.result throws an
\* InterruptedException, which invoke does not catch.
Interrupted(c) ==
  /\ phase[c] = "waiting"
  /\ phase' = [phase EXCEPT ![c] = "thrown"]
  /\ UNCHANGED <<promise, result, requests, answered, events, up, routees>>
  /\ UNCHANGED poolVars

\* A null of the handler is reported as ConsumerCallFailureEvent.
ReportFailure(c, h) ==
  events' = [events EXCEPT ![c] = IF h = "null" THEN @ + 1 ELSE @]

\* Mutant: an exception of the handler is returned instead of thrown.
AwaitTimeout_ReturnsThrowable(c) ==
  /\ phase[c] = "waiting"
  /\ promise[c] \in {"open", "expired"}
  /\ \E h \in Handlers :
       /\ phase' = [phase EXCEPT ![c] = "returned"]
       /\ result' = [result EXCEPT ![c] = h]
       /\ ReportFailure(c, h)
  /\ UNCHANGED <<promise, requests, answered, up, routees>>
  /\ UNCHANGED poolVars

\* Mutant: the timeout is caught and the thread awaits again.
AwaitTimeout_WaitAgain(c) ==
  /\ phase[c] = "waiting"
  /\ promise[c] \in {"open", "expired"}
  /\ UNCHANGED vars

\* Await.result throws a TimeoutException: its own, while the ask is still
\* open, or that of the ask. The handler decides how invoke ends; a null is
\* reported to the monitor.
AwaitTimeout(c) ==
  /\ phase[c] = "waiting"
  /\ promise[c] \in {"open", "expired"}
  /\ \E h \in Handlers :
       /\ phase' = [phase EXCEPT ![c] =
                      IF h = "throw" THEN "thrown" ELSE "returned"]
       /\ result' = [result EXCEPT ![c] = IF h = "throw" THEN @ ELSE h]
       /\ ReportFailure(c, h)
  /\ UNCHANGED <<promise, requests, answered, up, routees>>
  /\ UNCHANGED poolVars

-----------------------------------------------------------------------------
(* The network and the cluster (Akka).                                     *)

\* A request reaches a running node: the path names the pool, or nothing.
DeliverRequest(q) ==
  /\ q \in requests
  /\ q[2] \in up
  /\ requests' = requests \ {q}
  /\ \/ /\ q[2] \in Resolves
        /\ Route(q[2], q[1], q[3])
     \/ /\ q[2] \notin Resolves
        /\ UNCHANGED poolVars
  /\ UNCHANGED <<phase, promise, result, answered, events, up, routees>>

\* Mutant: an answer is taken for the result whenever it comes.
DeliverAnswer_Late(c) ==
  /\ replied[c] > 0
  /\ c \notin answered
  /\ answered' = answered \cup {c}
  /\ promise' = [promise EXCEPT ![c] = "answered"]
  /\ result' = [result EXCEPT ![c] = "answer"]
  /\ UNCHANGED <<phase, requests, events, up, routees>>
  /\ UNCHANGED poolVars

\* An answer reaches the promise of its ask; if that is completed already,
\* it is a dead letter.
DeliverAnswer(c) ==
  /\ replied[c] > 0
  /\ c \notin answered
  /\ answered' = answered \cup {c}
  /\ promise' = [promise EXCEPT ![c] = IF @ = "open" THEN "answered" ELSE @]
  /\ UNCHANGED <<phase, result, requests, events, up, routees>>
  /\ UNCHANGED poolVars

\* Remoting delivers a message at most once.
Lose ==
  /\ Lossy
  /\ \/ \E q \in requests : requests' = requests \ {q} /\ UNCHANGED answered
     \/ \E c \in Calls \ answered :
          replied[c] > 0 /\ answered' = answered \cup {c} /\ UNCHANGED requests
  /\ UNCHANGED <<phase, promise, result, events, up, routees>>
  /\ UNCHANGED poolVars

\* A provider node dies; its pool does nothing any more.
Crash(p) ==
  /\ Lossy
  /\ p \in up
  /\ up' = up \ {p}
  /\ UNCHANGED <<phase, promise, result, requests, answered, events, routees>>
  /\ UNCHANGED poolVars

\* The router hears of members: of a provider that is up, and later of one
\* that is gone.
AddRoutee(p) ==
  /\ p \in up \ routees
  /\ routees' = routees \cup {p}
  /\ UNCHANGED <<phase, promise, result, requests, answered, events, up>>
  /\ UNCHANGED poolVars

RemoveRoutee(p) ==
  /\ p \in routees \ up
  /\ routees' = routees \ {p}
  /\ UNCHANGED <<phase, promise, result, requests, answered, events, up>>
  /\ UNCHANGED poolVars

\* The pools of the nodes that run.
ProviderStep ==
  /\ \/ \E r \in up \X Slots : RouteeStep(r) \/ Tick(r)
     \/ \E p \in up : RouterStep(p)
  /\ UNCHANGED busVars

-----------------------------------------------------------------------------
ProxyStep(c) == AwaitAnswer(c) \/ AwaitTimeout(c)

Next ==
  \/ \E c \in Calls, m \in Methods : Invoke(c, m)
  \/ \E c \in Calls :
       ProxyStep(c) \/ Interrupted(c) \/ AskTimeout(c) \/ DeliverAnswer(c)
  \/ \E q \in requests : DeliverRequest(q)
  \/ \E p \in Providers : Crash(p) \/ AddRoutee(p) \/ RemoveRoutee(p)
  \/ Lose
  \/ ProviderStep

\* Both timers of a call fire, and the thread that awaits gets on.
Fairness == \A c \in Calls : WF_vars(ProxyStep(c)) /\ WF_vars(AskTimeout(c))

Spec == Init /\ [][Next]_vars /\ Fairness

-----------------------------------------------------------------------------
(* Properties.                                                             *)

\* The caller's view of a call.
StateOf(c) == CASE phase[c] = "idle"     -> "idle"
                [] phase[c] = "waiting"  -> "pending"
                [] result[c] = "answer"  -> "answered"
                [] OTHER                 -> "failed"

RC == INSTANCE RemoteCall WITH state <- [c \in Calls |-> StateOf(c)],
                               runs <- executed

\* The proxy, the router, the network and the pools together keep what
\* RemoteCall promises: nothing that happens after a timeout (a late answer,
\* a late timer, a failed routee, a restart) runs a call a second time or
\* changes how it ended, and an answer means that the service has run once.
KeepsRemoteCall == RC!Spec

\* A call was made, and no provider that runs has it or will get it, nor is
\* an answer to it on its way: it was lost, its provider failed or is gone
\* with it, or it has been dealt with.
InMail(r, c) == \E k \in DOMAIN mailbox[r] :
  mailbox[r][k].type = "CallMethod" /\ mailbox[r][k].call = c
Spent(c) ==
  /\ phase[c] # "idle"
  /\ \A q \in requests : q[1] = c => q[2] \notin up
  /\ \A r \in up \X Slots : running[r] # c /\ ~InMail(r, c)
  /\ replied[c] > 0 => c \in answered

\* invoke always ends, whatever is lost, crashed or never answered.
EveryInvokeEnds == \A c \in Calls :
  phase[c] = "waiting" ~> phase[c] \in {"returned", "thrown"}

\* The README: the consumer's router groups the providers of a service, and
\* a service has one address in the whole architecture: a request that
\* arrives at a running provider finds the service there.
RequestsReachService ==
  [][\A q \in requests : DeliverRequest(q) => q[1] \in arrived']_vars

\* The README (src/README.md:41, and the same in Chinese at 160): "If the
\* call fails, it will select another address to call." So a call that has
\* reached a provider and failed there does not return without an answer
\* while the router knows two providers that run, of which one at least is
\* another address.
FailsOver == [][\A c \in Calls :
  ( /\ phase[c] = "waiting" /\ promise[c] # "answered"
    /\ c \in arrived /\ Spent(c)
    /\ \E p, q \in routees \cap up : p # q )
  => phase'[c] # "returned"]_vars
=============================================================================
