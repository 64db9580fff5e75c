--------------------------- MODULE ClusterMonitor --------------------------
(***************************************************************************)
(* How the monitor centres learn who is in the cluster: CoreServerActor of *)
(* a core node turns cluster events into NodeSeedJionEvent and             *)
(* NodeSeedLeaveEvent, MonitorClientActor of that node publishes them, and *)
(* the MonitorCoreActors that the publishing mediator knows of print them. *)
(* A monitor that comes up is also sent all seeds, by a NodeSeedAllEvent   *)
(* that holds the live set `seeds`: what it carries is what the set holds  *)
(* when the remoting serialises it.                                        *)
(*                                                                         *)
(* AkkaSeed has no equals: seeds.remove(new AkkaSeed(member)) looks for an *)
(* object that was never added. A seed is modelled as an object, a node    *)
(* with an identity of its own.                                            *)
(*                                                                         *)
(* Membership and publish/subscribe are Akka's (external). With auto-down  *)
(* on, a member that is unreachable is removed soon, but may come back     *)
(* before; ReachableMember is not among the events the core subscribes to. *)
(***************************************************************************)
EXTENDS Naturals, Sequences, SequencesExt

CONSTANTS Monitors,    \* nodes with the role monitor (and not core)
          Workers,     \* all other nodes
          MaxReturns   \* bound: how often a node comes back, reachable
                       \* again or restarted

Nodes == Monitors \cup Workers

ASSUME ClusterAssumption ==
  /\ IsFiniteSet(Nodes)
  /\ Monitors \cap Workers = {}
  /\ MaxReturns \in [Nodes -> Nat]

VARIABLES
  status,      \* of a node: "off", "booting", "up" or "unreachable"
  lives,       \* history: how often a node has started
  returns,     \* history: how often a node has come back
  centre,      \* monitors whose MonitorCoreActor exists
  subscribed,  \* monitors the core node's mediator knows as subscribers
  core,        \* whether CoreServerActor runs
  inbox,       \* its mailbox: cluster events
  seeds,       \* its field `seeds`
  made,        \* how many AkkaSeed objects it has created
  client,      \* the mailbox of its MonitorClientActor
  pending,     \* NodeSeedAllEvents not serialised yet
  snapshots,   \* NodeSeedAllEvents on their way
  wire,        \* published events on their way to a monitor
  news,        \* the last published event a monitor printed of a node
  lost,        \* history: monitors that a published event was lost to
  listed,      \* the nodes a monitor printed of a NodeSeedAllEvent
  unlisted     \* history: monitors that no NodeSeedAllEvent reached

coreVars == <<inbox, seeds, made, client, pending>>
listVars == <<listed, unlisted>>
vars == <<status, lives, returns, centre, subscribed, core, coreVars,
          snapshots, wire, news, lost, listVars>>

\* An event of the life of a node. The life is history: no message has it.
Event(kinds) == [kind : kinds, node : Nodes, life : Nat \ {0}]
ClusterEvent == Event({"up", "unreachable", "removed"})
SeedEvent == Event({"join", "leave"})
NoNews == [kind |-> "none", life |-> 0]

TypeOK ==
  /\ status \in [Nodes -> {"off", "booting", "up", "unreachable"}]
  /\ lives \in [Nodes -> Nat]
  /\ returns \in [Nodes -> Nat]
  /\ centre \subseteq Monitors
  /\ subscribed \subseteq centre
  /\ core \in BOOLEAN
  /\ inbox \in Seq(ClusterEvent)
  /\ made \in Nat
  /\ seeds \subseteq Nodes \X (0 .. made)
  /\ client \in Seq(SeedEvent)
  /\ pending \subseteq Monitors
  /\ snapshots \subseteq [to : Monitors, nodes : SUBSET Nodes]
  /\ wire \in [Monitors -> Seq(SeedEvent)]
  /\ \A m \in Monitors, n \in Nodes :
       news[m][n] \in [kind : {"join", "leave"}, life : Nat \ {0}]
                        \cup {NoNews}
  /\ lost \subseteq Monitors
  /\ listed \in [Monitors -> SUBSET Nodes]
  /\ unlisted \subseteq Monitors

Init ==
  /\ status = [n \in Nodes |-> "off"]
  /\ lives = [n \in Nodes |-> 0]
  /\ returns = [n \in Nodes |-> 0]
  /\ centre = {}
  /\ subscribed = {}
  /\ core = FALSE
  /\ inbox = <<>>
  /\ seeds = {}
  /\ made = 0
  /\ client = <<>>
  /\ pending = {}
  /\ snapshots = {}
  /\ wire = [m \in Monitors |-> <<>>]
  /\ news = [m \in Monitors |-> [n \in Nodes |-> NoNews]]
  /\ lost = {}
  /\ listed = [m \in Monitors |-> {}]
  /\ unlisted = {}

-----------------------------------------------------------------------------
(* The cluster and the nodes (Akka, and AkkaEsbSystem.start: see           *)
(* NodeStart).                                                             *)

\* The cluster tells the core actor, once that has subscribed.
Tell(kind, n) ==
  inbox' = IF core
           THEN Append(inbox, [kind |-> kind, node |-> n, life |-> lives[n]])
           ELSE inbox

Return(n) ==
  /\ returns[n] < MaxReturns[n]
  /\ returns' = [returns EXCEPT ![n] = @ + 1]

\* A node starts its ActorSystem and begins to join, for the first time or
\* after it was removed.
Boot(n) ==
  /\ status[n] = "off"
  /\ \/ lives[n] = 0 /\ UNCHANGED returns
     \/ lives[n] > 0 /\ Return(n)
  /\ status' = [status EXCEPT ![n] = "booting"]
  /\ lives' = [lives EXCEPT ![n] = @ + 1]
  /\ UNCHANGED <<centre, subscribed, core, coreVars, snapshots, wire,
                 news, lost, listVars>>

MemberUp(n) ==
  /\ status[n] = "booting"
  /\ status' = [status EXCEPT ![n] = "up"]
  /\ Tell("up", n)
  /\ UNCHANGED <<lives, returns, centre, subscribed, core, seeds, made,
                 client, pending, snapshots, wire, news, lost, listVars>>

Unreachable(n) ==
  /\ status[n] = "up"
  /\ status' = [status EXCEPT ![n] = "unreachable"]
  /\ Tell("unreachable", n)
  /\ UNCHANGED <<lives, returns, centre, subscribed, core, seeds, made,
                 client, pending, snapshots, wire, news, lost, listVars>>

Reachable(n) ==
  /\ status[n] = "unreachable"
  /\ Return(n)
  /\ status' = [status EXCEPT ![n] = "up"]
  /\ UNCHANGED <<lives, centre, subscribed, core, coreVars, snapshots, wire,
                 news, lost, listVars>>

\* auto-down: the member is removed for good. What a monitor had printed
\* and what was on its way to it is gone with it. A node that starts again
\* at its old address is not let in before its former life was unreachable
\* and removed.
MemberRemoved(n) ==
  /\ status[n] = "unreachable"
  /\ status' = [status EXCEPT ![n] = "off"]
  /\ Tell("removed", n)
  /\ centre' = centre \ {n}
  /\ subscribed' = subscribed \ {n}
  /\ wire' = [m \in Monitors |-> IF m = n THEN <<>> ELSE wire[m]]
  /\ news' = [m \in Monitors |->
                IF m = n THEN [x \in Nodes |-> NoNews] ELSE news[m]]
  /\ lost' = lost \ {n}
  /\ listed' = [m \in Monitors |-> IF m = n THEN {} ELSE listed[m]]
  /\ unlisted' = unlisted \ {n}
  /\ UNCHANGED <<lives, returns, core, seeds, made, client, pending,
                 snapshots>>

\* The constructor of MonitorCoreActor subscribes at the local mediator...
StartMonitorCore(m) ==
  /\ status[m] \in {"booting", "up"}
  /\ m \notin centre
  /\ centre' = centre \cup {m}
  /\ UNCHANGED <<status, lives, returns, subscribed, core, coreVars,
                 snapshots, wire, news, lost, listVars>>

\* ... and the mediators gossip: sooner or later the core's one knows.
GossipSubscription(m) ==
  /\ status[m] = "up"
  /\ m \in centre \ subscribed
  /\ subscribed' = subscribed \cup {m}
  /\ UNCHANGED <<status, lives, returns, centre, core, coreVars, snapshots,
                 wire, news, lost, listVars>>

-----------------------------------------------------------------------------
(* CoreServerActor.                                                        *)

\* preStart subscribes, with the initial state as events. The core starts
\* first: no member is unreachable yet.
StartCore ==
  /\ ~core
  /\ \A n \in Nodes : status[n] # "unreachable"
  /\ core' = TRUE
  /\ \E order \in SetToSeqs({n \in Nodes : status[n] = "up"}) :
       inbox' = [i \in DOMAIN order |-> [kind |-> "up", node |-> order[i],
                                         life |-> lives[order[i]]]]
  /\ UNCHANGED <<status, lives, returns, centre, subscribed, seeds, made,
                 client, pending, snapshots, wire, news, lost, listVars>>

\* Mutant: AkkaSeed has an equals on its address.
NewSeed_ByAddress(n) == <<n, 0>>

\* Mutant: AkkaSeed forgets to copy the address of the member.
NewSeed_NoAddress(n) == <<"null", made>>

\* new AkkaSeed(member): equal to itself only.
NewSeed(n) == <<n, made>>

\* What the core tells its MonitorClientActor.
Announce(kind, e) ==
  client' = Append(client, [kind |-> kind, node |-> e.node, life |-> e.life])

\* onReceive, MemberUp: the seed is kept and announced, and a monitor is
\* sent the set of all seeds.
ReceiveUp ==
  /\ inbox # <<>>
  /\ LET e == Head(inbox) IN
       /\ e.kind = "up"
       /\ seeds' = seeds \cup {NewSeed(e.node)}
       /\ made' = made + 1
       /\ Announce("join", e)
       /\ pending' = pending \cup ({e.node} \cap Monitors)
  /\ inbox' = Tail(inbox)
  /\ UNCHANGED <<status, lives, returns, centre, subscribed, core, snapshots,
                 wire, news, lost, listVars>>

\* Mutant: the second announcement of a departure is dropped.
ReceiveLeave_Once ==
  /\ inbox # <<>>
  /\ LET e == Head(inbox) IN
       /\ e.kind \in {"unreachable", "removed"}
       /\ seeds' = seeds \ {NewSeed(e.node)}
       /\ made' = made + 1
       /\ IF e.kind = "unreachable" THEN Announce("leave", e)
          ELSE UNCHANGED client
  /\ inbox' = Tail(inbox)
  /\ UNCHANGED <<status, lives, returns, centre, subscribed, core, pending,
                 snapshots, wire, news, lost, listVars>>

\* onReceive, UnreachableMember and MemberRemoved: the same for both, so
\* that a departure is announced twice.
ReceiveLeave ==
  /\ inbox # <<>>
  /\ LET e == Head(inbox) IN
       /\ e.kind \in {"unreachable", "removed"}
       /\ seeds' = seeds \ {NewSeed(e.node)}
       /\ made' = made + 1
       /\ Announce("leave", e)
  /\ inbox' = Tail(inbox)
  /\ UNCHANGED <<status, lives, returns, centre, subscribed, core, pending,
                 snapshots, wire, news, lost, listVars>>

-----------------------------------------------------------------------------
(* MonitorClientActor, the network and MonitorCoreActor.                   *)

\* Mutant: the client publishes what came last first.
Publish_LastFirst ==
  /\ client # <<>>
  /\ client' = Front(client)
  /\ wire' = [m \in Monitors |->
                IF m \in subscribed THEN Append(wire[m], Last(client))
                ELSE wire[m]]
  /\ UNCHANGED <<status, lives, returns, centre, subscribed, core, inbox,
                 seeds, made, pending, snapshots, news, lost, listVars>>

\* onReceive: the event is published, to the subscribers known here and now.
Publish ==
  /\ client # <<>>
  /\ client' = Tail(client)
  /\ wire' = [m \in Monitors |->
                IF m \in subscribed THEN Append(wire[m], Head(client))
                ELSE wire[m]]
  /\ UNCHANGED <<status, lives, returns, centre, subscribed, core, inbox,
                 seeds, made, pending, snapshots, news, lost, listVars>>

\* Mutant: the event is made of the new seed instead of all.
AllSeeds_Own(m) == {m}

\* What a NodeSeedAllEvent for m holds.
AllSeeds(m) == {s[1] : s \in seeds}

\* The remoting serialises a NodeSeedAllEvent. It reads the set the core
\* actor may be adding to: then the read may fail, and the event is lost.
SerialiseAll(m) ==
  /\ m \in pending
  /\ pending' = pending \ {m}
  /\ \/ /\ snapshots' =
             snapshots \cup {[to |-> m, nodes |-> AllSeeds(m)]}
        /\ UNCHANGED unlisted
     \/ /\ inbox # <<>>
        /\ Head(inbox).kind = "up"
        /\ unlisted' = unlisted \cup {m}
        /\ UNCHANGED snapshots
  /\ UNCHANGED <<status, lives, returns, centre, subscribed, core, inbox,
                 seeds, made, client, wire, news, lost, listed>>

\* MonitorCoreActor prints the seeds. Before it is created, or after the
\* node is gone, the event is a dead letter; the remoting may lose it, too.
ReceiveAll(a) ==
  /\ a \in snapshots
  /\ snapshots' = snapshots \ {a}
  /\ \/ /\ a.to \in centre
        /\ listed' = [listed EXCEPT ![a.to] = @ \cup a.nodes]
        /\ UNCHANGED unlisted
     \/ /\ unlisted' = unlisted \cup {a.to}
        /\ UNCHANGED listed
  /\ UNCHANGED <<status, lives, returns, centre, subscribed, core, coreVars,
                 wire, news, lost>>

\* MonitorCoreActor prints a join or a leave.
ReceiveNews(m) ==
  /\ wire[m] # <<>>
  /\ LET e == Head(wire[m]) IN
       news' = [news EXCEPT ![m][e.node] = [kind |-> e.kind, life |-> e.life]]
  /\ wire' = [wire EXCEPT ![m] = Tail(@)]
  /\ UNCHANGED <<status, lives, returns, centre, subscribed, core, coreVars,
                 snapshots, lost, listVars>>

\* Remoting may lose what is on its way.
Lose(m) ==
  /\ wire[m] # <<>>
  /\ wire' = [wire EXCEPT ![m] = Tail(@)]
  /\ lost' = lost \cup {m}
  /\ UNCHANGED <<status, lives, returns, centre, subscribed, core, coreVars,
                 snapshots, news, listVars>>

-----------------------------------------------------------------------------
CoreStep == ReceiveUp \/ ReceiveLeave
MemberStep(n) ==
  Boot(n) \/ MemberUp(n) \/ Unreachable(n) \/ Reachable(n) \/ MemberRemoved(n)

Next ==
  \/ StartCore \/ CoreStep \/ Publish
  \/ \E n \in Nodes : MemberStep(n)
  \/ \E m \in Monitors :
       \/ StartMonitorCore(m) \/ GossipSubscription(m) \/ SerialiseAll(m)
       \/ ReceiveNews(m) \/ Lose(m)
  \/ \E a \in snapshots : ReceiveAll(a)

\* Actors process their mailboxes, remoting delivers, mediators gossip, and
\* a member that stays unreachable is removed (auto-down is on). Nothing is
\* assumed of when nodes start, leave and come back.
Fairness ==
  /\ \A n \in Nodes : WF_vars(MemberRemoved(n))
  /\ WF_vars(StartCore) /\ WF_vars(CoreStep) /\ WF_vars(Publish)
  /\ \A m \in Monitors :
       /\ WF_vars(ReceiveNews(m)) /\ WF_vars(SerialiseAll(m))
       /\ WF_vars(StartMonitorCore(m)) /\ WF_vars(GossipSubscription(m))

Spec == Init /\ [][Next]_vars /\ Fairness

-----------------------------------------------------------------------------
(* Properties.                                                             *)

\* Once the core has seen all events, every member is among its seeds,
\* also one that was unreachable for a while and came back without a word
\* to the core; and a NodeSeedAllEvent has at least the monitor it is for,
\* though it is serialised later. (It holds because seeds.remove removes
\* nothing.)
SeedsCoverMembers ==
  /\ (core /\ inbox = <<>>) =>
       \A n \in Nodes : status[n] = "up" => \E s \in seeds : s[1] = n
  /\ \A a \in snapshots : a.to \in a.nodes

\* The core has yet to send, or the remoting to deliver, a list to m.
ListOutstanding(m) ==
  \/ m \in pending
  \/ \E a \in snapshots : a.to = m
  \/ \E k \in DOMAIN inbox : inbox[k].kind = "up" /\ inbox[k].node = m

\* A monitor that is up has been listed itself and every node that the core
\* saw join before it, however late the list was made, unless the list came
\* before its MonitorCoreActor or was lost. (The core sends a list once: a
\* monitor that missed it is never told who was there.)
MonitorKnowsElders == \A m \in Monitors :
  (core /\ status[m] = "up" /\ ~ListOutstanding(m) /\ m \notin unlisted) =>
    \E own \in seeds :
      /\ own[1] = m
      /\ \A s \in seeds : s[2] <= own[2] => s[1] \in listed[m]

Rank(v) == 2 * v.life + (IF v.kind = "leave" THEN 1 ELSE 0)

\* What a monitor prints of a node never goes back in time, whatever is
\* lost: no join after the leave of the same life, nothing of an earlier
\* life after a later one. (A monitor that was removed starts anew.)
NewsInOrder == [][\A m \in Monitors, n \in Nodes :
  m \in centre' => Rank(news'[m][n]) >= Rank(news[m][n])]_vars

\* A monitor has printed the departure of life l of node n.
Printed(m, n, l) ==
  news[m][n].life > l \/ (news[m][n].life = l /\ news[m][n].kind = "leave")

\* A node that is unreachable and does not come back is reported to every
\* monitor the core's mediator knows by then, unless that monitor leaves too
\* or the network loses an event to it. The second announcement, of the
\* removal, is needed for it: the first one may have been published before
\* the mediator knew of the monitor.
DepartureReported ==
  \A m \in Monitors, n \in Nodes : \A l \in 1 .. MaxReturns[n] + 1 :
    (core /\ status[n] = "unreachable" /\ lives[n] = l /\ m \in subscribed)
      ~> \/ Printed(m, n, l)
         \/ status[n] = "up" /\ lives[n] = l
         \/ m \notin subscribed \/ m \in lost
=============================================================================
