---------------------------- MODULE ProviderPool ---------------------------
(***************************************************************************)
(* The provider side of the default RPC protocol: on every provider node,  *)
(* the pool of RpcProviderActors that RpcServerActor creates for one       *)
(* service interface, its supervision and its call statistics.             *)
(*                                                                         *)
(* A call is routed to one routee of the pool, in turn. The routee counts  *)
(* it, looks the method up, runs it and answers; every 10 seconds a timer  *)
(* makes it report its counts to the monitor client. Nothing in onReceive  *)
(* is caught: an argument that is null, a method that is not found, an     *)
(* exception of the service, and an answer that is null (a void method)    *)
(* all fail the routee. Akka then does the following (external):           *)
(*   - the routee is suspended and its failure sent to the router;         *)
(*   - the router of a pool escalates: it is suspended, its other routees  *)
(*     are told to suspend, and RpcServerActor restarts it;                *)
(*   - the restarted router keeps its routees and restarts every one.      *)
(* A restart runs the constructor again: the counter starts empty, and one *)
(* more timer is scheduled, for no one cancels the ones of the instances   *)
(* before. The message that failed is not handled again.                   *)
(***************************************************************************)
EXTENDS Integers, Sequences, FiniteSets

CONSTANTS
  Providers,   \* the nodes that provide the service
  PoolSize,    \* routees of a pool: 2 in RpcServerActor
  Methods,     \* the methods of the service interface
  Calls,       \* the calls that are made (one identity each)
  Failing,     \* the ways a call may fail, a subset of FailureKind
  MaxMail,     \* bound: a timer fires if fewer messages are in the mailbox
  NoCall

\* "reject": null argument or no such method, the service is not entered;
\* "throw": the service throws; "null": it returns null, or is void.
FailureKind == {"reject", "throw", "null"}

ASSUME PoolAssumption ==
  /\ PoolSize \in Nat \ {0}
  /\ MaxMail \in Nat
  /\ NoCall \notin Calls
  /\ Failing \subseteq FailureKind

Slots == 0 .. PoolSize - 1
Routees == Providers \X Slots
RouteesOf(p) == {p} \X Slots

\* RpcEvent.CallMethod, with the caller that waits for the answer as the
\* call's identity, and RpcEvent.CallCount.
CallMethod(c, m) == [type |-> "CallMethod", call |-> c, method |-> m]
CallCount == [type |-> "CallCount"]
Message == [type : {"CallMethod"}, call : Calls, method : Methods]
             \cup {CallCount}

\* The system messages of a routee are two counters: it processes all of
\* them before it takes up another user message, so that their order makes
\* no difference to it.
VARIABLES
  arrived,    \* the calls that have reached a pool
  next,       \* the router's round robin position, per provider
  router,     \* "running" or, after it escalated, "suspended"
  failures,   \* the routees whose failure the router has yet to process
  mailbox,    \* user messages of a routee
  suspends,   \* Suspend messages a routee has yet to process
  recreates,  \* Recreate messages a routee has yet to process
  suspended,  \* suspensions of a routee's mailbox that were not resumed
  running,    \* the call a routee is executing, or NoCall
  counter,    \* the field `counter` of the current instance of a routee
  timers,     \* schedules that send CallCount to a routee
  replied,    \* answers sent, per call
  executed,   \* history: executions of the service method, per call
  handled,    \* history: calls a routee took up, per method
  reported,   \* what a routee reported to the monitor, per method
  restarts,   \* history: how often a routee was restarted
  failed      \* history: failed calls of a pool

poolVars == <<arrived, next, router, failures, mailbox, suspends, recreates,
              suspended, running, counter, timers, replied, executed,
              handled, reported, restarts, failed>>

Zero == [m \in Methods |-> 0]

PoolTypeOK ==
  /\ arrived \subseteq Calls
  /\ next \in [Providers -> Slots]
  /\ router \in [Providers -> {"running", "suspended"}]
  /\ failures \in [Providers -> SUBSET Routees]
  /\ mailbox \in [Routees -> Seq(Message)]
  /\ suspends \in [Routees -> Nat]
  /\ recreates \in [Routees -> Nat]
  /\ suspended \in [Routees -> Nat]
  /\ running \in [Routees -> Calls \cup {NoCall}]
  /\ counter \in [Routees -> [Methods -> Nat]]
  /\ timers \in [Routees -> Nat]
  /\ replied \in [Calls -> Nat]
  /\ executed \in [Calls -> Nat]
  /\ handled \in [Routees -> [Methods -> Nat]]
  /\ reported \in [Routees -> [Methods -> Nat]]
  /\ restarts \in [Routees -> Nat]
  /\ failed \in [Providers -> Nat]

PoolInit ==
  /\ arrived = {}
  /\ next = [p \in Providers |-> 0]
  /\ router = [p \in Providers |-> "running"]
  /\ failures = [p \in Providers |-> {}]
  /\ mailbox = [r \in Routees |-> <<>>]
  /\ suspends = [r \in Routees |-> 0]
  /\ recreates = [r \in Routees |-> 0]
  /\ suspended = [r \in Routees |-> 0]
  /\ running = [r \in Routees |-> NoCall]
  /\ counter = [r \in Routees |-> Zero]
  /\ timers = [r \in Routees |-> 1]
  /\ replied = [c \in Calls |-> 0]
  /\ executed = [c \in Calls |-> 0]
  /\ handled = [r \in Routees |-> Zero]
  /\ reported = [r \in Routees |-> Zero]
  /\ restarts = [r \in Routees |-> 0]
  /\ failed = [p \in Providers |-> 0]

-----------------------------------------------------------------------------
(* Delivery.                                                               *)

\* A CallMethod that reaches the pool is put into the mailbox of the next
\* routee, suspended or not.
Route(p, c, m) ==
  /\ arrived' = arrived \cup {c}
  /\ mailbox' = [mailbox EXCEPT ![<<p, next[p]>>] =
                   Append(@, CallMethod(c, m))]
  /\ next' = [next EXCEPT ![p] = (@ + 1) % PoolSize]
  /\ UNCHANGED <<router, failures, suspends, recreates, suspended, running,
                 counter, timers, replied, executed, handled, reported,
                 restarts, failed>>

\* One of the timers of a routee fires.
Tick(r) ==
  /\ timers[r] > 0
  /\ Len(mailbox[r]) < MaxMail
  /\ mailbox' = [mailbox EXCEPT ![r] = Append(@, CallCount)]
  /\ UNCHANGED <<arrived, next, router, failures, suspends, recreates,
                 suspended, running, counter, timers, replied, executed,
                 handled, reported, restarts, failed>>

-----------------------------------------------------------------------------
(* RpcProviderActor.onReceive.                                             *)

\* A routee takes up a user message when it executes none, is not
\* suspended and has no system message to process first.
Ready(r) ==
  /\ running[r] = NoCall
  /\ suspended[r] = 0
  /\ suspends[r] = 0
  /\ recreates[r] = 0
  /\ mailbox[r] # <<>>

\* Mutant: `counter` is static, one map for all routees.
BeginCall_SharedCounter(r) ==
  /\ Ready(r)
  /\ Head(mailbox[r]).type = "CallMethod"
  /\ LET m == Head(mailbox[r]).method
     IN /\ counter' = [q \in Routees |-> [counter[q] EXCEPT ![m] = @ + 1]]
        /\ handled' = [handled EXCEPT ![r][m] = @ + 1]
  /\ running' = [running EXCEPT ![r] = Head(mailbox[r]).call]
  /\ mailbox' = [mailbox EXCEPT ![r] = Tail(@)]
  /\ UNCHANGED <<arrived, next, router, failures, suspends, recreates,
                 suspended, timers, replied, executed, reported, restarts,
                 failed>>

\* CallMethod, its first statement: the call is counted. The rest of the
\* handler runs the service, which may take its time.
BeginCall(r) ==
  /\ Ready(r)
  /\ Head(mailbox[r]).type = "CallMethod"
  /\ LET m == Head(mailbox[r]).method
     IN /\ counter' = [counter EXCEPT ![r][m] = @ + 1]
        /\ handled' = [handled EXCEPT ![r][m] = @ + 1]
  /\ running' = [running EXCEPT ![r] = Head(mailbox[r]).call]
  /\ mailbox' = [mailbox EXCEPT ![r] = Tail(@)]
  /\ UNCHANGED <<arrived, next, router, failures, suspends, recreates,
                 suspended, timers, replied, executed, reported, restarts,
                 failed>>

\* The method returns a value, which is sent to the caller.
AnswerCall(r) ==
  /\ running[r] # NoCall
  /\ executed' = [executed EXCEPT ![running[r]] = @ + 1]
  /\ replied' = [replied EXCEPT ![running[r]] = @ + 1]
  /\ running' = [running EXCEPT ![r] = NoCall]
  /\ UNCHANGED <<arrived, next, router, failures, mailbox, suspends,
                 recreates, suspended, counter, timers, handled, reported,
                 restarts, failed>>

\* Mutant: preRestart sends the failed message to the routee again.
FailCall_Resend(r, kind) ==
  /\ running[r] # NoCall
  /\ executed' = [executed EXCEPT ![running[r]] =
                    IF kind = "reject" THEN @ ELSE @ + 1]
  /\ running' = [running EXCEPT ![r] = NoCall]
  /\ mailbox' = [mailbox EXCEPT ![r] =
                   LET m == CHOOSE m \in Methods : TRUE
                   IN Append(@, CallMethod(running[r], m))]
  /\ suspended' = [suspended EXCEPT ![r] = @ + 1]
  /\ failures' = [failures EXCEPT ![r[1]] = @ \cup {r}]
  /\ failed' = [failed EXCEPT ![r[1]] = @ + 1]
  /\ UNCHANGED <<arrived, next, router, suspends, recreates, counter, timers,
                 replied, handled, reported, restarts>>

\* onReceive ends with an exception: the arguments or the method do not
\* fit, the service throws, or tell refuses its null result. The caller gets
\* no answer; the routee is suspended and the router is told.
FailCall(r, kind) ==
  /\ running[r] # NoCall
  /\ executed' = [executed EXCEPT ![running[r]] =
                    IF kind = "reject" THEN @ ELSE @ + 1]
  /\ running' = [running EXCEPT ![r] = NoCall]
  /\ suspended' = [suspended EXCEPT ![r] = @ + 1]
  /\ failures' = [failures EXCEPT ![r[1]] = @ \cup {r}]
  /\ failed' = [failed EXCEPT ![r[1]] = @ + 1]
  /\ UNCHANGED <<arrived, next, router, mailbox, suspends, recreates, counter,
                 timers, replied, handled, reported, restarts>>

\* Mutant: counter.clear() is missing.
ReportCounts_NotCleared(r) ==
  /\ Ready(r)
  /\ Head(mailbox[r]).type = "CallCount"
  /\ reported' = [reported EXCEPT ![r] =
                    [m \in Methods |-> @[m] + counter[r][m]]]
  /\ mailbox' = [mailbox EXCEPT ![r] = Tail(@)]
  /\ UNCHANGED <<arrived, next, router, failures, suspends, recreates,
                 suspended, running, counter, timers, replied, executed,
                 handled, restarts, failed>>

\* Mutant: counter.clear() comes before the copy.
ReportCounts_ClearFirst(r) ==
  /\ Ready(r)
  /\ Head(mailbox[r]).type = "CallCount"
  /\ counter' = [counter EXCEPT ![r] = Zero]
  /\ mailbox' = [mailbox EXCEPT ![r] = Tail(@)]
  /\ UNCHANGED <<arrived, next, router, failures, suspends, recreates,
                 suspended, running, timers, replied, executed, handled,
                 reported, restarts, failed>>

\* CallCount: the counts are copied, the counter is cleared, and the copy
\* is sent to the monitor client as ProviderBeCalledCount.
ReportCounts(r) ==
  /\ Ready(r)
  /\ Head(mailbox[r]).type = "CallCount"
  /\ reported' = [reported EXCEPT ![r] =
                    [m \in Methods |-> @[m] + counter[r][m]]]
  /\ counter' = [counter EXCEPT ![r] = Zero]
  /\ mailbox' = [mailbox EXCEPT ![r] = Tail(@)]
  /\ UNCHANGED <<arrived, next, router, failures, suspends, recreates,
                 suspended, running, timers, replied, executed, handled,
                 restarts, failed>>

-----------------------------------------------------------------------------
(* Supervision.                                                            *)

\* Mutant: one escalation stands for all failures known at that time.
Escalate_Merged(p, r) ==
  /\ router[p] = "running"
  /\ r \in failures[p]
  /\ router' = [router EXCEPT ![p] = "suspended"]
  /\ failures' = [failures EXCEPT ![p] = {}]
  /\ suspends' = [q \in Routees |->
                    IF q \in RouteesOf(p) \ {r} THEN suspends[q] + 1
                    ELSE suspends[q]]
  /\ UNCHANGED <<arrived, next, mailbox, recreates, suspended, running,
                 counter, timers, replied, executed, handled, reported,
                 restarts, failed>>

\* The router processes the failure of routee r: it escalates it to
\* RpcServerActor, and suspends itself and every routee but r. While it is
\* suspended, other failures wait.
Escalate(p, r) ==
  /\ router[p] = "running"
  /\ r \in failures[p]
  /\ router' = [router EXCEPT ![p] = "suspended"]
  /\ failures' = [failures EXCEPT ![p] = @ \ {r}]
  /\ suspends' = [q \in Routees |->
                    IF q \in RouteesOf(p) \ {r} THEN suspends[q] + 1
                    ELSE suspends[q]]
  /\ UNCHANGED <<arrived, next, mailbox, recreates, suspended, running,
                 counter, timers, replied, executed, handled, reported,
                 restarts, failed>>

\* RpcServerActor, by the default supervision strategy, restarts the router,
\* which restarts all its routees.
RestartRouter(p) ==
  /\ router[p] = "suspended"
  /\ router' = [router EXCEPT ![p] = "running"]
  /\ recreates' = [q \in Routees |->
                     IF q \in RouteesOf(p) THEN recreates[q] + 1
                     ELSE recreates[q]]
  /\ UNCHANGED <<arrived, next, failures, mailbox, suspends, suspended,
                 running, counter, timers, replied, executed, handled,
                 reported, restarts, failed>>

SuspendRoutee(r) ==
  /\ running[r] = NoCall
  /\ suspends[r] > 0
  /\ suspends' = [suspends EXCEPT ![r] = @ - 1]
  /\ suspended' = [suspended EXCEPT ![r] = @ + 1]
  /\ UNCHANGED <<arrived, next, router, failures, mailbox, recreates, running,
                 counter, timers, replied, executed, handled, reported,
                 restarts, failed>>

\* A new RpcProviderActor replaces the instance of the routee: its counter
\* is empty and its constructor schedules CallCount once more. One
\* suspension of the mailbox is resumed, the messages in it are kept.
RestartRoutee(r) ==
  /\ running[r] = NoCall
  /\ suspends[r] = 0
  /\ recreates[r] > 0
  /\ recreates' = [recreates EXCEPT ![r] = @ - 1]
  /\ suspended' = [suspended EXCEPT ![r] = @ - 1]
  /\ counter' = [counter EXCEPT ![r] = Zero]
  /\ timers' = [timers EXCEPT ![r] = @ + 1]
  /\ restarts' = [restarts EXCEPT ![r] = @ + 1]
  /\ UNCHANGED <<arrived, next, router, failures, mailbox, suspends, running,
                 replied, executed, handled, reported, failed>>

-----------------------------------------------------------------------------
RouteeStep(r) ==
  \/ BeginCall(r) \/ AnswerCall(r) \/ (\E kind \in Failing : FailCall(r, kind))
  \/ ReportCounts(r) \/ SuspendRoutee(r) \/ RestartRoutee(r)

RouterStep(p) == RestartRouter(p) \/ \E r \in RouteesOf(p) : Escalate(p, r)

\* What the pools do by themselves, and what any caller may do to them.
PoolStep ==
  \/ \E r \in Routees : RouteeStep(r) \/ Tick(r)
  \/ \E p \in Providers : RouterStep(p)

\* A call reaches a pool at most once: the caller sends it once, and Akka
\* does not repeat a message.
Arrive == \E p \in Providers, c \in Calls, m \in Methods :
  c \notin arrived /\ Route(p, c, m)

PoolNext == PoolStep \/ Arrive

\* Akka's dispatcher runs every actor that has something to do, a method
\* of the service ends, and the scheduler fires.
PoolFairness ==
  /\ \A r \in Routees : WF_poolVars(RouteeStep(r)) /\ WF_poolVars(Tick(r))
  /\ \A p \in Providers : WF_poolVars(RouterStep(p))

PoolSpec == PoolInit /\ [][PoolNext]_poolVars /\ PoolFairness

-----------------------------------------------------------------------------
(* Properties.                                                             *)

\* The statistics never count a call twice, and an instance that was never
\* restarted owes the monitor exactly the calls it took up since its last
\* report: copying and clearing `counter` in one CallCount handler loses
\* nothing, whatever arrives around it.
CountsConserved == \A r \in Routees, m \in Methods :
  /\ reported[r][m] + counter[r][m] <= handled[r][m]
  /\ restarts[r] = 0 => reported[r][m] + counter[r][m] = handled[r][m]

\* The supervision of a pool has nothing left to do.
Settled(p) ==
  /\ router[p] = "running"
  /\ failures[p] = {}
  /\ \A r \in RouteesOf(p) : suspends[r] = 0 /\ recreates[r] = 0

\* However failures of the routees of a pool overlap, each one restarts
\* every routee of that pool exactly once (the routees that did nothing
\* wrong too), and once that is done no routee is left suspended.
OneRestartPerFailure == \A p \in Providers : Settled(p) =>
  \A r \in RouteesOf(p) : restarts[r] = failed[p] /\ suspended[r] = 0

\* A call is executed at most once and answered only if it was executed: a
\* restart drops the message that failed and keeps the ones behind it.
AtMostOnce == \A c \in Calls :
  /\ replied[c] <= executed[c] /\ executed[c] <= 1
  /\ executed[c] = 1 => c \in arrived

\* A call is in a mailbox or being executed.
InPool(c) == \E r \in Routees :
  \/ running[r] = c
  \/ \E i \in 1 .. Len(mailbox[r]) : /\ mailbox[r][i].type = "CallMethod"
                                     /\ mailbox[r][i].call = c

\* No call stays in a pool for ever: a routee that fails is resumed, and
\* calls queued behind the failing one are still served.
EveryCallLeaves == \A c \in Calls : InPool(c) ~> ~InPool(c)

\* A call that is counted is reported to the monitor sooner or later,
\* unless a restart of the routee drops the count.
ReportedOrRestarted ==
  \A r \in Routees, m \in Methods, k \in 1 .. Cardinality(Calls) :
    handled[r][m] = k ~> (reported[r][m] >= k \/ restarts[r] > 0)

\* The counters of the routees seen as CallMeter.
Meter == INSTANCE CallMeter WITH Meters <- Routees, pending <- counter

\* The routees implement CallMeter: a step of a routee counts one call,
\* reports all that is pending, drops it by a restart, or does none of it;
\* no step of one routee touches the counts of another.
RouteesMeter == Meter!Spec
=============================================================================
