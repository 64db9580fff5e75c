----------------------------- MODULE NodeStart -----------------------------
(***************************************************************************)
(* The start of the nodes of a cluster: AkkaEsbSystem.start() and close(). *)
(*                                                                         *)
(* Three threads of a node touch the Java monitor of the field `thread`:   *)
(* the Spring thread that runs start() ("main"), the actor thread that     *)
(* runs the onMemberUp callback, and the thread object itself, an empty    *)
(* java.lang.Thread whose termination performs notifyAll on its monitor.   *)
(* start() returns when main leaves the wait set: there is no flag, so a   *)
(* notification that nobody waits for is lost.                             *)
(*                                                                         *)
(* Joining the cluster is done by Akka (external): the first seed node     *)
(* joins itself, every other node joins through a seed that is up.         *)
(***************************************************************************)
EXTENDS Integers, FiniteSets

CONSTANTS Nodes,        \* the nodes of the deployment
          Seeds,        \* seedNodes of the configuration, the same on each
          FirstSeed,    \* the seed node that may join itself
          RolesOf,      \* the `roles` property of a node
          NullRoles     \* the nodes where that property was never set

Role == {"core", "provider", "monitor", "consumer", "server"}

ASSUME SeedsAssumption == Seeds \subseteq Nodes /\ FirstSeed \in Seeds
ASSUME RolesAssumption == /\ RolesOf \in [Nodes -> SUBSET Role]
                          /\ NullRoles \subseteq Nodes

VARIABLES
  main,      \* where the Spring thread of a node is in start()
  helper,    \* the state of the Thread object `thread`
  callback,  \* the onMemberUp Runnable
  owner,     \* who holds the monitor of `thread`
  member,    \* the node's membership, as the cluster gossip has it
  actors,    \* the actors startSpecialActor created
  woken,     \* history: who took main out of the wait set
  early      \* history: the callback notified while main was not waiting

vars == <<main, helper, callback, owner, member, actors, woken, early>>

MainState == {"new", "thread_started", "system_created", "actors_started",
              "registered", "locked", "waiting", "notified", "returned",
              "failed", "closed"}

TypeOK ==
  /\ main \in [Nodes -> MainState]
  /\ helper \in [Nodes -> {"new", "running", "terminated"}]
  /\ callback \in [Nodes -> {"none", "registered", "locked", "done",
                           "cancelled"}]
  /\ owner \in [Nodes -> {"nobody", "main", "callback"}]
  /\ member \in [Nodes -> {"none", "joining", "up", "removed"}]
  /\ actors \in [Nodes -> SUBSET {"monitorClient", "esbCore", "monitorCore"}]
  /\ woken \in [Nodes -> {"nobody", "callback", "helper"}]
  /\ early \in [Nodes -> BOOLEAN]

Init ==
  /\ main = [n \in Nodes |-> "new"]
  /\ helper = [n \in Nodes |-> "new"]
  /\ callback = [n \in Nodes |-> "none"]
  /\ owner = [n \in Nodes |-> "nobody"]
  /\ member = [n \in Nodes |-> "none"]
  /\ actors = [n \in Nodes |-> {}]
  /\ woken = [n \in Nodes |-> "nobody"]
  /\ early = [n \in Nodes |-> FALSE]

-----------------------------------------------------------------------------
(* The Spring thread.                                                      *)

\* start(), its first statement: thread.start().
StartThread(n) ==
  /\ main[n] = "new"
  /\ main' = [main EXCEPT ![n] = "thread_started"]
  /\ helper' = [helper EXCEPT ![n] = "running"]
  /\ UNCHANGED <<callback, owner, member, actors, woken, early>>

\* The configuration is assembled and the ActorSystem is created; from here
\* the cluster extension tries to join the seed nodes by itself.
CreateSystem(n) ==
  /\ main[n] = "thread_started"
  /\ main' = [main EXCEPT ![n] = "system_created"]
  /\ UNCHANGED <<helper, callback, owner, member, actors, woken, early>>

\* hasRole(role): roles.indexOf throws on a null `roles`.
HasRole(n, role) == role \in RolesOf[n]

\* The actors startSpecialActor creates; a core node gets no monitorCore.
SpecialActors(n) ==
  {"monitorClient"} \cup
    (IF HasRole(n, "core") THEN {"esbCore"}
     ELSE IF HasRole(n, "monitor") THEN {"monitorCore"} ELSE {})

\* startSpecialActor(): with a null `roles` the monitor client exists
\* already when hasRole throws, and start() throws with it.
StartSpecialActor(n) ==
  /\ main[n] = "system_created"
  /\ \/ /\ n \notin NullRoles
        /\ main' = [main EXCEPT ![n] = "actors_started"]
        /\ actors' = [actors EXCEPT ![n] = SpecialActors(n)]
     \/ /\ n \in NullRoles
        /\ main' = [main EXCEPT ![n] = "failed"]
        /\ actors' = [actors EXCEPT ![n] = {"monitorClient"}]
  /\ UNCHANGED <<helper, callback, owner, member, woken, early>>

RegisterOnMemberUp(n) ==
  /\ main[n] = "actors_started"
  /\ main' = [main EXCEPT ![n] = "registered"]
  /\ callback' = [callback EXCEPT ![n] = "registered"]
  /\ UNCHANGED <<helper, owner, member, actors, woken, early>>

\* synchronized (thread) {
EnterWaitBlock(n) ==
  /\ main[n] = "registered"
  /\ owner[n] = "nobody"
  /\ main' = [main EXCEPT ![n] = "locked"]
  /\ owner' = [owner EXCEPT ![n] = "main"]
  /\ UNCHANGED <<helper, callback, member, actors, woken, early>>

\* Mutant: wait with a timeout, which ends without a notification.
Wait_Timed(n) ==
  /\ main[n] = "locked"
  /\ main' = [main EXCEPT ![n] = "notified"]
  /\ owner' = [owner EXCEPT ![n] = "nobody"]
  /\ UNCHANGED <<helper, callback, member, actors, woken, early>>

\* thread.wait() without a condition: main joins the wait set and lets go
\* of the monitor, whatever has happened before.
Wait(n) ==
  /\ main[n] = "locked"
  /\ main' = [main EXCEPT ![n] = "waiting"]
  /\ owner' = [owner EXCEPT ![n] = "nobody"]
  /\ UNCHANGED <<helper, callback, member, actors, woken, early>>

\* wait() returns once the monitor is free again; the block and start() end.
ReturnFromStart(n) ==
  /\ main[n] = "notified"
  /\ owner[n] = "nobody"
  /\ main' = [main EXCEPT ![n] = "returned"]
  /\ UNCHANGED <<helper, callback, owner, member, actors, woken, early>>

\* close(), the destroy-method of the Spring bean. The cluster extension is
\* shut down, and a listener that has not run its callback never will.
Close(n) ==
  /\ main[n] = "returned"
  /\ main' = [main EXCEPT ![n] = "closed"]
  /\ member' = [member EXCEPT ![n] = "removed"]
  /\ actors' = [actors EXCEPT ![n] = {}]
  /\ callback' = [callback EXCEPT ![n] =
                    IF @ = "registered" THEN "cancelled" ELSE @]
  /\ UNCHANGED <<helper, owner, woken, early>>

-----------------------------------------------------------------------------
(* The callback and the thread object.                                     *)

\* The one waiter of the monitor, if there is one, leaves the wait set.
WakeMain(n, who) ==
  IF main[n] = "waiting"
  THEN /\ main' = [main EXCEPT ![n] = "notified"]
       /\ woken' = [woken EXCEPT ![n] = who]
  ELSE UNCHANGED <<main, woken>>

\* Cluster.registerOnMemberUp runs the Runnable once the node itself is up;
\* run() enters synchronized (thread).
EnterCallback(n) ==
  /\ callback[n] = "registered"
  /\ member[n] = "up"
  /\ owner[n] = "nobody"
  /\ callback' = [callback EXCEPT ![n] = "locked"]
  /\ owner' = [owner EXCEPT ![n] = "callback"]
  /\ UNCHANGED <<main, helper, member, actors, woken, early>>

\* Mutant: the callback logs and forgets to notify.
Notify_Dropped(n) ==
  /\ callback[n] = "locked"
  /\ callback' = [callback EXCEPT ![n] = "done"]
  /\ owner' = [owner EXCEPT ![n] = "nobody"]
  /\ early' = [early EXCEPT ![n] = main[n] # "waiting"]
  /\ UNCHANGED <<main, helper, member, actors, woken>>

\* thread.notify() and the end of the block.
Notify(n) ==
  /\ callback[n] = "locked"
  /\ callback' = [callback EXCEPT ![n] = "done"]
  /\ owner' = [owner EXCEPT ![n] = "nobody"]
  /\ early' = [early EXCEPT ![n] = main[n] # "waiting"]
  /\ WakeMain(n, "callback")
  /\ UNCHANGED <<helper, member, actors>>

\* The Thread object has nothing to run; the JVM takes its monitor when it
\* terminates and notifies all its waiters.
TerminateThread(n) ==
  /\ helper[n] = "running"
  /\ owner[n] = "nobody"
  /\ helper' = [helper EXCEPT ![n] = "terminated"]
  /\ WakeMain(n, "helper")
  /\ UNCHANGED <<callback, owner, member, actors, early>>

-----------------------------------------------------------------------------
(* The cluster (Akka).                                                     *)

\* An ActorSystem that is running, and not shut down, joins.
Join(n) ==
  /\ main[n] \notin {"new", "thread_started", "closed"}
  /\ member[n] = "none"
  /\ n = FirstSeed \/ \E s \in Seeds \ {n} : member[s] = "up"
  /\ member' = [member EXCEPT ![n] = "joining"]
  /\ UNCHANGED <<main, helper, callback, owner, actors, woken, early>>

\* The leader moves a joining member to up.
MemberUp(n) ==
  /\ member[n] = "joining"
  /\ member' = [member EXCEPT ![n] = "up"]
  /\ UNCHANGED <<main, helper, callback, owner, actors, woken, early>>

-----------------------------------------------------------------------------
StartStep(n) ==
  \/ StartThread(n) \/ CreateSystem(n) \/ StartSpecialActor(n)
  \/ RegisterOnMemberUp(n) \/ EnterWaitBlock(n) \/ Wait(n)
  \/ ReturnFromStart(n)

CallbackStep(n) == EnterCallback(n) \/ Notify(n)

ClusterStep(n) == Join(n) \/ MemberUp(n)

Next == \E n \in Nodes :
  \/ StartStep(n) \/ Close(n) \/ CallbackStep(n) \/ TerminateThread(n)
  \/ ClusterStep(n)

\* Every thread the JVM runs makes progress, an actor runs the callback it
\* was given, and the cluster converges. A thread that competes for the
\* monitor of `thread` gets it: each of its other users holds it once only.
Fairness == \A n \in Nodes :
  /\ WF_vars(StartStep(n)) /\ WF_vars(CallbackStep(n))
  /\ WF_vars(TerminateThread(n)) /\ WF_vars(ClusterStep(n))

Spec == Init /\ [][Next]_vars /\ Fairness

-----------------------------------------------------------------------------
(* Properties.                                                             *)

\* A node that is up, whose callback has run and whose thread object is
\* gone, and which still sits in thread.wait(), got there in one way only:
\* the callback notified before start() waited. No other schedule of the
\* three threads blocks start() for ever.
HangOnlyByLostNotify == \A n \in Nodes :
  (main[n] = "waiting" /\ callback[n] = "done") => early[n]

\* start() that returned although the callback never notified it was woken
\* by the termination of the Thread object it waits on, and by nothing else.
ReturnHasCause == \A n \in Nodes :
  (main[n] = "returned" /\ callback[n] # "done") => woken[n] = "helper"

\* start() that waits before its callback has run does return when the node
\* is up: the notification cannot be missed any more.
WaiterReturns == \A n \in Nodes :
  (main[n] = "waiting" /\ callback[n] # "done" /\ member[n] = "up")
    ~> (main[n] \in {"returned", "closed"})

\* What the documentation says of a start: the node joins and then goes on
\* to register its services, so start() of a node that is up returns.
UpNodeStarts == \A n \in Nodes :
  member[n] = "up" ~> (main[n] \in {"returned", "closed", "failed"})
=============================================================================
