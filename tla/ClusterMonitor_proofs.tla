----------------------- MODULE ClusterMonitor_proofs ----------------------
(***************************************************************************)
(* Proofs about ClusterMonitor, for any finite number of nodes, however    *)
(* often they come back.                                                   *)
(***************************************************************************)
EXTENDS ClusterMonitor, SequenceTheorems, FiniteSetTheorems, TLAPS

-----------------------------------------------------------------------------
(* The inductive invariant.                                                *)

News == [kind : {"join", "leave"}, life : Nat \ {0}] \cup {NoNews}

\* The types, with that of `news` itself.
Types == TypeOK /\ news \in [Monitors -> [Nodes -> News]]

\* A node that is not off has started.
Alive == \A n \in Nodes : status[n] # "off" => lives[n] > 0

\* Nothing is told before the core runs.
QuietBeforeCore == ~core =>
  /\ inbox = <<>> /\ client = <<>>
  /\ \A m \in Monitors : /\ wire[m] = <<>>
                         /\ \A n \in Nodes : news[m][n] = NoNews

\* A seed is numbered below what was created: the next one is new, so that
\* seeds.remove(new AkkaSeed(..)) removes nothing.
SeedsFresh == \A s \in seeds : s[2] < made

\* Seeds S have one of node n; mailbox s has an event that n is up.
Seeded(S, n) == \E s \in S : s[1] = n
UpIn(s, n) == \E k \in 1 .. Len(s) : s[k].kind = "up" /\ s[k].node = n

\* The core has a seed of every member, or is yet to see that it is up.
Member(n) == status[n] \in {"up", "unreachable"}
MembersSeeded == core =>
  \A n \in Nodes : Member(n) => Seeded(seeds, n) \/ UpIn(inbox, n)

\* N holds m and all nodes with a seed in S older than some seed of m.
Covers(S, N, m) == \E own \in S :
  own[1] = m /\ \A s \in S : s[2] <= own[2] => s[1] \in N

\* ListOutstanding, and its use: a list is outstanding for a monitor, or the
\* monitor was given one, or missed it.
Outstanding(m) == m \in pending \/ (\E a \in snapshots : a.to = m) \/ UpIn(inbox, m)
Informed(m) == Outstanding(m) \/ m \in unlisted \/ Covers(seeds, listed[m], m)
ListsCover ==
  /\ \A m \in pending : Seeded(seeds, m)
  /\ \A a \in snapshots : Covers(seeds, a.nodes, a.to)
  /\ core => \A m \in Monitors : Member(m) => Informed(m)

SeedInv == SeedsFresh /\ MembersSeeded /\ ListsCover

\* The age of an event, of the cluster or of a seed, and of what a monitor
\* has printed: a departure comes after the arrival, a life after another.
Age(e) == 2 * e.life + (IF e.kind \in {"up", "join", "none"} THEN 0 ELSE 1)

\* What s has of node n is at most, or at least, a.
UpTo(s, n, a) == \A i \in 1 .. Len(s) : s[i].node = n => Age(s[i]) <= a
From(s, n, a) == \A i \in 1 .. Len(s) : s[i].node = n => a <= Age(s[i])

\* What s has of a node does not go back in time, and is not after t.
Sorted(s) == \A i \in 1 .. Len(s), j \in 1 .. Len(s) :
  i < j /\ s[i].node = s[j].node => Age(s[i]) <= Age(s[j])
Before(s, t) == \A i \in 1 .. Len(s), j \in 1 .. Len(t) :
  s[i].node = t[j].node => Age(s[i]) <= Age(t[j])

\* The way of an event to a monitor, from what was printed of each node (the
\* ages p) over wire w, client c and inbox b to the present (the ages z).
Flow(p, w, c, b, z) ==
  /\ Sorted(w) /\ Sorted(c) /\ Sorted(b)
  /\ Before(w, c) /\ Before(w, b) /\ Before(c, b)
  /\ \A n \in Nodes :
       /\ From(w, n, p[n]) /\ From(c, n, p[n]) /\ From(b, n, p[n])
       /\ UpTo(w, n, z[n]) /\ UpTo(c, n, z[n]) /\ UpTo(b, n, z[n])
       /\ p[n] <= z[n]

\* The age of what a monitor has printed, and of the latest event there can
\* be of a node: one that boots has had no event of its present life.
PrintedAge(m) == [n \in Nodes |-> Age(news[m][n])]
Present == [n \in Nodes |->
  IF status[n] = "booting" THEN 2 * lives[n] - 1 ELSE 2 * lives[n] + 1]

NewsFlow == \A m \in Monitors :
  Flow(PrintedAge(m), wire[m], client, inbox, Present)

ClusterInv == Types /\ Alive /\ QuietBeforeCore /\ SeedInv /\ NewsFlow

-----------------------------------------------------------------------------
(* The way of an event.                                                    *)

AnyEvent == ClusterEvent \cup SeedEvent

\* An age is a number.
LEMMA AgeType ==
  ASSUME NEW e \in AnyEvent
  PROVE  Age(e) \in Nat /\ e.node \in Nodes
BY DEF AnyEvent, ClusterEvent, SeedEvent, Event, Age

\* The elements of a sequence of events that is longer by one.
LEMMA AppendEvent ==
  ASSUME NEW s \in Seq(AnyEvent), NEW e \in AnyEvent
  PROVE  /\ Append(s, e) \in Seq(AnyEvent)
         /\ Len(s) \in Nat /\ Len(Append(s, e)) = Len(s) + 1
         /\ \A i \in 1 .. Len(Append(s, e)) :
              \/ i \in 1 .. Len(s) /\ Append(s, e)[i] = s[i]
              \/ i = Len(s) + 1 /\ Append(s, e)[i] = e
BY AppendProperties, LenProperties

\* The elements of a sequence of events without the first one.
LEMMA TailEvent ==
  ASSUME NEW s \in Seq(AnyEvent), s # << >>
  PROVE  /\ Tail(s) \in Seq(AnyEvent) /\ Head(s) \in AnyEvent
         /\ 1 \in 1 .. Len(s) /\ Head(s) = s[1]
         /\ \A i \in 1 .. Len(Tail(s)) :
              i + 1 \in 1 .. Len(s) /\ Tail(s)[i] = s[i + 1]
BY HeadTailProperties, LenProperties, EmptySeq

\* What is at most, or at least, a, after an event came or was taken.
LEMMA UpToAppend ==
  ASSUME NEW s \in Seq(AnyEvent), NEW e \in AnyEvent, NEW n, NEW a,
         UpTo(s, n, a), e.node = n => Age(e) <= a
  PROVE  UpTo(Append(s, e), n, a)
BY AppendEvent DEF UpTo

LEMMA FromAppend ==
  ASSUME NEW s \in Seq(AnyEvent), NEW e \in AnyEvent, NEW n, NEW a,
         From(s, n, a), e.node = n => a <= Age(e)
  PROVE  From(Append(s, e), n, a)
BY AppendEvent DEF From

LEMMA TailBounds ==
  ASSUME NEW s \in Seq(AnyEvent), s # << >>, NEW n, NEW a
  PROVE  /\ UpTo(s, n, a) => UpTo(Tail(s), n, a)
         /\ From(s, n, a) => From(Tail(s), n, a)
BY TailEvent DEF UpTo, From

\* Order is kept by an event that is not before the others...
LEMMA SortedAppend ==
  ASSUME NEW s \in Seq(AnyEvent), NEW e \in AnyEvent,
         Sorted(s), UpTo(s, e.node, Age(e))
  PROVE  Sorted(Append(s, e))
BY AppendEvent DEF Sorted, UpTo

LEMMA BeforeAppend ==
  ASSUME NEW s \in Seq(AnyEvent), NEW t \in Seq(AnyEvent),
         NEW e \in AnyEvent, Before(s, t)
  PROVE  /\ UpTo(s, e.node, Age(e)) => Before(s, Append(t, e))
         /\ From(t, e.node, Age(e)) => Before(Append(s, e), t)
BY AppendEvent DEF Before, UpTo, From

\* ... and by taking the first one, which is not after the others.
LEMMA SortedTail ==
  ASSUME NEW s \in Seq(AnyEvent), s # << >>, Sorted(s)
  PROVE  Sorted(Tail(s)) /\ From(Tail(s), Head(s).node, Age(Head(s)))
<1>1. Sorted(Tail(s))
  BY TailEvent DEF Sorted
<1>2. From(Tail(s), Head(s).node, Age(Head(s)))
  BY TailEvent DEF Sorted, From
<1>. QED
  BY <1>1, <1>2

LEMMA BeforeTail ==
  ASSUME NEW s \in Seq(AnyEvent), NEW t \in Seq(AnyEvent), Before(s, t)
  PROVE  /\ s # << >> => /\ Before(Tail(s), t)
                         /\ From(t, Head(s).node, Age(Head(s)))
         /\ t # << >> => /\ Before(s, Tail(t))
                         /\ UpTo(s, Head(t).node, Age(Head(t)))
<1>1. ASSUME s # << >>
      PROVE  Before(Tail(s), t) /\ From(t, Head(s).node, Age(Head(s)))
  BY <1>1, TailEvent DEF Before, From
<1>2. ASSUME t # << >>
      PROVE  Before(s, Tail(t)) /\ UpTo(s, Head(t).node, Age(Head(t)))
  BY <1>2, TailEvent DEF Before, UpTo
<1>. QED
  BY <1>1, <1>2

\* Nothing is before, after or out of order in an empty sequence.
LEMMA NoEvents ==
  /\ Sorted(<< >>)
  /\ \A s : Before(<< >>, s) /\ Before(s, << >>)
  /\ \A n, a : UpTo(<< >>, n, a) /\ From(<< >>, n, a)
BY DEF Sorted, Before, UpTo, From

Ages == [Nodes -> Int]

\* The cluster tells the core of node e.node, which moves the present on.
LEMMA FlowTell ==
  ASSUME NEW p \in Ages, NEW z \in Ages, NEW y \in Ages,
         NEW w \in Seq(AnyEvent), NEW c \in Seq(AnyEvent),
         NEW b \in Seq(AnyEvent), NEW e \in AnyEvent,
         Flow(p, w, c, b, z), \A n \in Nodes : z[n] <= y[n],
         z[e.node] <= Age(e), Age(e) <= y[e.node]
  PROVE  Flow(p, w, c, Append(b, e), y)
<1>1. Age(e) \in Nat /\ e.node \in Nodes
  BY AgeType
<1>2. ASSUME NEW s \in Seq(AnyEvent), NEW n \in Nodes, UpTo(s, n, z[n])
      PROVE  UpTo(s, n, y[n]) /\ (n = e.node => UpTo(s, n, Age(e)))
  <2>1. ASSUME NEW i \in 1 .. Len(s) PROVE Age(s[i]) \in Nat
    BY ElementOfSeq, AgeType
  <2>2. z[n] \in Int /\ y[n] \in Int /\ z[n] <= y[n]
    BY DEF Ages
  <2>3. UpTo(s, n, y[n])
    BY <1>2, <2>1, <2>2 DEF UpTo
  <2>4. ASSUME n = e.node PROVE UpTo(s, n, Age(e))
    <3>1. z[n] <= Age(e) /\ Age(e) \in Int
      BY <1>1, <2>4
    <3>. QED
      BY <1>2, <2>1, <2>2, <3>1 DEF UpTo
  <2>. QED
    BY <2>3, <2>4
<1>3. /\ UpTo(w, e.node, Age(e)) /\ UpTo(c, e.node, Age(e))
      /\ UpTo(b, e.node, Age(e))
  BY <1>1, <1>2 DEF Flow
<1>4. Sorted(Append(b, e)) /\ Before(w, Append(b, e)) /\ Before(c, Append(b, e))
  BY <1>3, SortedAppend, BeforeAppend DEF Flow
<1>5. ASSUME NEW n \in Nodes
      PROVE  /\ From(Append(b, e), n, p[n]) /\ UpTo(Append(b, e), n, y[n])
             /\ UpTo(w, n, y[n]) /\ UpTo(c, n, y[n]) /\ p[n] <= y[n]
  <2>1. p[n] <= z[n] /\ z[n] <= y[n] /\ p[n] \in Int /\ z[n] \in Int /\ y[n] \in Int
    BY <1>5 DEF Flow, Ages
  <2>2. From(Append(b, e), n, p[n])
    BY <1>1, <2>1, FromAppend DEF Flow
  <2>3. UpTo(b, n, y[n])
    BY <1>2 DEF Flow
  <2>4. UpTo(Append(b, e), n, y[n])
    BY <1>1, <2>3, UpToAppend
  <2>5. UpTo(w, n, y[n]) /\ UpTo(c, n, y[n])
    BY <1>2 DEF Flow
  <2>. QED
    BY <2>1, <2>2, <2>4, <2>5
<1>. QED
  BY <1>4, <1>5 DEF Flow

\* The core passes on the head of its mailbox, as an event of the same age.
LEMMA FlowAnnounce ==
  ASSUME NEW p \in Ages, NEW z \in Ages,
         NEW w \in Seq(AnyEvent), NEW c \in Seq(AnyEvent),
         NEW b \in Seq(AnyEvent), NEW e \in AnyEvent,
         Flow(p, w, c, b, z), b # << >>,
         e.node = Head(b).node, Age(e) = Age(Head(b))
  PROVE  Flow(p, w, Append(c, e), Tail(b), z)
<1>1. e.node \in Nodes
  BY AgeType
<1>2. Tail(b) \in Seq(AnyEvent) /\ Sorted(Tail(b)) /\ From(Tail(b), e.node, Age(e))
  BY SortedTail, TailEvent DEF Flow
<1>3. Before(w, Tail(b)) /\ UpTo(w, e.node, Age(e))
  BY BeforeTail DEF Flow
<1>4. Before(c, Tail(b)) /\ UpTo(c, e.node, Age(e))
  BY BeforeTail DEF Flow
<1>5. Sorted(Append(c, e)) /\ Before(w, Append(c, e))
  BY <1>3, <1>4, SortedAppend, BeforeAppend DEF Flow
<1>6. Before(Append(c, e), Tail(b))
  BY <1>2, <1>4, BeforeAppend
<1>7. ASSUME NEW n \in Nodes
      PROVE  /\ From(Append(c, e), n, p[n]) /\ UpTo(Append(c, e), n, z[n])
             /\ From(Tail(b), n, p[n]) /\ UpTo(Tail(b), n, z[n])
  <2>1. From(b, n, p[n]) /\ UpTo(b, n, z[n])
    BY DEF Flow
  <2>2. From(c, n, p[n]) /\ UpTo(c, n, z[n])
    BY DEF Flow
  <2>3. e.node = n => p[n] <= Age(e) /\ Age(e) <= z[n]
    BY <2>1, TailEvent DEF From, UpTo
  <2>4. From(Append(c, e), n, p[n]) /\ UpTo(Append(c, e), n, z[n])
    BY <2>2, <2>3, FromAppend, UpToAppend
  <2>. QED
    BY <2>1, <2>4, TailBounds
<1>. QED
  BY <1>2, <1>3, <1>5, <1>6, <1>7 DEF Flow

\* The client publishes its head, to a monitor that has subscribed or not.
LEMMA FlowPublish ==
  ASSUME NEW p \in Ages, NEW z \in Ages,
         NEW w \in Seq(AnyEvent), NEW c \in Seq(AnyEvent),
         NEW b \in Seq(AnyEvent), Flow(p, w, c, b, z), c # << >>
  PROVE  /\ Flow(p, w, Tail(c), b, z)
         /\ Flow(p, Append(w, Head(c)), Tail(c), b, z)
<1> DEFINE e == Head(c)
<1>1. e \in AnyEvent /\ Tail(c) \in Seq(AnyEvent)
  BY TailEvent
<1>2. Sorted(Tail(c)) /\ From(Tail(c), e.node, Age(e))
  BY SortedTail DEF Flow
<1>3. Before(w, Tail(c)) /\ UpTo(w, e.node, Age(e))
  BY BeforeTail DEF Flow
<1>4. Before(Tail(c), b) /\ From(b, e.node, Age(e))
  BY BeforeTail DEF Flow
<1>5. \A n \in Nodes : From(Tail(c), n, p[n]) /\ UpTo(Tail(c), n, z[n])
  BY TailBounds DEF Flow
<1>6. \A n \in Nodes : e.node = n => p[n] <= Age(e) /\ Age(e) <= z[n]
  BY TailEvent DEF Flow, From, UpTo
<1> HIDE DEF e
<1>7. Flow(p, w, Tail(c), b, z)
  BY <1>2, <1>3, <1>4, <1>5 DEF Flow
<1>8. Sorted(Append(w, e))
  BY <1>1, <1>3, SortedAppend DEF Flow
<1>9. Before(Append(w, e), Tail(c)) /\ Before(Append(w, e), b)
  BY <1>1, <1>2, <1>3, <1>4, BeforeAppend DEF Flow
<1>10. ASSUME NEW n \in Nodes
       PROVE  From(Append(w, e), n, p[n]) /\ UpTo(Append(w, e), n, z[n])
  BY <1>1, <1>6, FromAppend, UpToAppend DEF Flow
<1>11. Flow(p, Append(w, e), Tail(c), b, z)
  BY <1>7, <1>8, <1>9, <1>10 DEF Flow
<1>. QED
  BY <1>7, <1>11 DEF e

\* A monitor prints the head of the wire, or the network loses it. What is
\* printed is not older than what was printed of that node before.
LEMMA FlowNews ==
  ASSUME NEW p \in Ages, NEW z \in Ages,
         NEW w \in Seq(AnyEvent), NEW c \in Seq(AnyEvent),
         NEW b \in Seq(AnyEvent), Flow(p, w, c, b, z), w # << >>,
         NEW q \in Ages,
         \A n \in Nodes : q[n] = IF n = Head(w).node THEN Age(Head(w)) ELSE p[n]
  PROVE  /\ Flow(p, Tail(w), c, b, z)
         /\ Flow(q, Tail(w), c, b, z)
         /\ \A n \in Nodes : p[n] <= q[n]
<1> DEFINE e == Head(w)
<1>1. e \in AnyEvent /\ Tail(w) \in Seq(AnyEvent)
  BY TailEvent
<1>2. Sorted(Tail(w)) /\ From(Tail(w), e.node, Age(e))
  BY SortedTail DEF Flow
<1>3. Before(Tail(w), c) /\ From(c, e.node, Age(e))
  BY BeforeTail DEF Flow
<1>4. Before(Tail(w), b) /\ From(b, e.node, Age(e))
  BY BeforeTail DEF Flow
<1>5. \A n \in Nodes : From(Tail(w), n, p[n]) /\ UpTo(Tail(w), n, z[n])
  BY TailBounds DEF Flow
<1>6. \A n \in Nodes : e.node = n => p[n] <= Age(e) /\ Age(e) <= z[n]
  BY TailEvent DEF Flow, From, UpTo
<1>7. \A n \in Nodes : q[n] = IF n = e.node THEN Age(e) ELSE p[n]
  OBVIOUS
<1> HIDE DEF e
<1>8. Flow(p, Tail(w), c, b, z)
  BY <1>2, <1>3, <1>4, <1>5 DEF Flow
<1>9. ASSUME NEW n \in Nodes
      PROVE  /\ From(Tail(w), n, q[n]) /\ From(c, n, q[n]) /\ From(b, n, q[n])
             /\ q[n] <= z[n] /\ p[n] <= q[n]
  <2>1. CASE n = e.node
    BY <1>2, <1>3, <1>4, <1>6, <1>7, <2>1
  <2>2. CASE n # e.node
    BY <1>5, <1>7, <2>2 DEF Flow, Ages
  <2>. QED
    BY <2>1, <2>2
<1>. QED
  BY <1>8, <1>9 DEF Flow

\* A monitor is removed, or another event moves the present on.
LEMMA FlowLater ==
  ASSUME NEW p \in Ages, NEW z \in Ages, NEW y \in Ages,
         NEW w \in Seq(AnyEvent), NEW c \in Seq(AnyEvent),
         NEW b \in Seq(AnyEvent), Flow(p, w, c, b, z),
         \A n \in Nodes : z[n] <= y[n]
  PROVE  Flow(p, w, c, b, y)
<1>1. ASSUME NEW s \in Seq(AnyEvent), NEW n \in Nodes, UpTo(s, n, z[n])
      PROVE  UpTo(s, n, y[n])
  <2>1. ASSUME NEW i \in 1 .. Len(s) PROVE Age(s[i]) \in Nat
    BY ElementOfSeq, AgeType
  <2>. QED
    BY <1>1, <2>1 DEF UpTo, Ages
<1>2. ASSUME NEW n \in Nodes
      PROVE  /\ UpTo(w, n, y[n]) /\ UpTo(c, n, y[n]) /\ UpTo(b, n, y[n])
             /\ p[n] <= y[n]
  BY <1>1 DEF Flow, Ages
<1>. QED
  BY <1>2 DEF Flow

LEMMA FlowForgotten ==
  ASSUME NEW p \in Ages, NEW z \in Ages, NEW q \in Ages,
         NEW w \in Seq(AnyEvent), NEW c \in Seq(AnyEvent),
         NEW b \in Seq(AnyEvent), Flow(p, w, c, b, z),
         \A n \in Nodes : q[n] = 0 /\ 0 <= z[n]
  PROVE  Flow(q, << >>, c, b, z)
<1>1. ASSUME NEW s \in Seq(AnyEvent), NEW n \in Nodes
      PROVE  From(s, n, q[n])
  <2>1. ASSUME NEW i \in 1 .. Len(s) PROVE Age(s[i]) \in Nat
    BY ElementOfSeq, AgeType
  <2>. QED
    BY <2>1 DEF From
<1>. QED
  BY <1>1, NoEvents DEF Flow

-----------------------------------------------------------------------------
(* Types.                                                                  *)

LEMMA InitTypes == Init => Types /\ Alive
<1> SUFFICES ASSUME Init PROVE Types /\ Alive
  OBVIOUS
<1>1. news \in [Monitors -> [Nodes -> News]]
  BY DEF Init, News
<1>2. /\ << >> \in Seq(ClusterEvent) /\ << >> \in Seq(SeedEvent)
      /\ wire \in [Monitors -> Seq(SeedEvent)]
  BY DEF Init
<1>3. core \in BOOLEAN
  BY Zenon DEF Init
<1>4. TypeOK
  BY <1>1, <1>2, <1>3 DEF Init, TypeOK, News
<1>. QED
  BY <1>1, <1>4 DEF Types, Alive, Init

\* What a monitor has printed of a node is a piece of news.
LEMMA NewsType ==
  ASSUME NEW f \in [Monitors -> [Nodes -> News]], NEW m \in Monitors, NEW n \in Nodes
  PROVE  f[m][n] \in [kind : {"join", "leave"}, life : Nat \ {0}] \cup {NoNews}
BY DEF News

\* The cluster tells the core of a node that has started.
LEMMA TellType ==
  ASSUME Types, Alive, NEW n \in Nodes, status[n] # "off",
         NEW kind \in {"up", "unreachable", "removed"}, Tell(kind, n)
  PROVE  inbox' \in Seq(ClusterEvent)
<1> DEFINE e == [kind |-> kind, node |-> n, life |-> lives[n]]
<1>1. e \in ClusterEvent
  BY DEF Types, TypeOK, Alive, ClusterEvent, Event
<1>2. inbox \in Seq(ClusterEvent)
  BY DEF Types, TypeOK
<1>3. inbox' = Append(inbox, e) \/ inbox' = inbox
  BY DEF Tell
<1> HIDE DEF e
<1>. QED
  BY <1>1, <1>2, <1>3, AppendProperties

\* Steps of the cluster.
LEMMA MemberTypes ==
  ASSUME Types, Alive, NEW n \in Nodes, MemberStep(n)
  PROVE  Types' /\ Alive'
<1>1. CASE Boot(n)
  <2>1. returns' \in [Nodes -> Nat]
    BY <1>1 DEF Types, TypeOK, Boot, Return
  <2>2. lives' \in [Nodes -> Nat]
    BY <1>1 DEF Types, TypeOK, Boot
  <2>3. status' \in [Nodes -> {"off", "booting", "up", "unreachable"}]
    BY <1>1 DEF Types, TypeOK, Boot
  <2>4. Types'
    BY <1>1, <2>1, <2>2, <2>3 DEF Types, TypeOK, Boot, coreVars, listVars
  <2>5. Alive'
    BY <1>1 DEF Types, TypeOK, Alive, Boot
  <2>. QED
    BY <2>4, <2>5
<1>2. CASE MemberUp(n) \/ Unreachable(n)
  <2>1. inbox' \in Seq(ClusterEvent)
    BY <1>2, TellType DEF MemberUp, Unreachable
  <2>2. status' \in [Nodes -> {"off", "booting", "up", "unreachable"}]
    BY <1>2 DEF Types, TypeOK, MemberUp, Unreachable
  <2>3. Types'
    BY <1>2, <2>1, <2>2 DEF Types, TypeOK, MemberUp, Unreachable, listVars
  <2>4. Alive'
    BY <1>2 DEF Types, TypeOK, Alive, MemberUp, Unreachable
  <2>. QED
    BY <2>3, <2>4
<1>3. CASE Reachable(n)
  <2>1. returns' \in [Nodes -> Nat]
    BY <1>3 DEF Types, TypeOK, Reachable, Return
  <2>2. status' \in [Nodes -> {"off", "booting", "up", "unreachable"}]
    BY <1>3 DEF Types, TypeOK, Reachable
  <2>3. Types'
    BY <1>3, <2>1, <2>2 DEF Types, TypeOK, Reachable, coreVars, listVars
  <2>4. Alive'
    BY <1>3 DEF Types, TypeOK, Alive, Reachable
  <2>. QED
    BY <2>3, <2>4
<1>4. CASE MemberRemoved(n)
  <2>1. inbox' \in Seq(ClusterEvent)
    BY <1>4, TellType DEF MemberRemoved
  <2>2. status' \in [Nodes -> {"off", "booting", "up", "unreachable"}]
    BY <1>4 DEF Types, TypeOK, MemberRemoved
  <2>3. wire' \in [Monitors -> Seq(SeedEvent)] /\ listed' \in [Monitors -> SUBSET Nodes]
    BY <1>4 DEF Types, TypeOK, MemberRemoved
  <2>4. news' \in [Monitors -> [Nodes -> News]]
    BY <1>4 DEF Types, MemberRemoved, News
  <2>5. Types'
    BY <1>4, <2>1, <2>2, <2>3, <2>4, NewsType DEF Types, TypeOK, MemberRemoved
  <2>6. Alive'
    BY <1>4 DEF Types, TypeOK, Alive, MemberRemoved
  <2>. QED
    BY <2>5, <2>6
<1>. QED
  BY <1>1, <1>2, <1>3, <1>4 DEF MemberStep

\* The nodes that are up, in the order in which the core is told of them:
\* each is there, and once.
LEMMA InitialState ==
  ASSUME NEW S \in SUBSET Nodes, NEW order \in SetToSeqs(S)
  PROVE  /\ order \in Seq(S) /\ DOMAIN order = 1 .. Len(order)
         /\ \A i \in 1 .. Len(order), j \in 1 .. Len(order) :
              order[i] = order[j] => i = j
         /\ \A n \in S : \E i \in 1 .. Len(order) : order[i] = n
<1> DEFINE N == Cardinality(S)
           D == 1 .. N
<1>1. IsFiniteSet(S) /\ N \in Nat
  BY ClusterAssumption, FS_Subset, FS_CardinalityType
<1>2. /\ order \in [D -> S]
      /\ \A i \in D, j \in D : i # j => order[i] # order[j]
  BY DEF SetToSeqs
<1>3. order \in Seq(S) /\ Len(order) = N /\ DOMAIN order = 1 .. Len(order)
  BY <1>1, <1>2, LenProperties, SeqDef
<1>4. order \in Injection(D, S)
  BY <1>2 DEF Injection, IsInjective
<1>5. Cardinality(D) = Cardinality(S)
  BY <1>1, FS_Interval
<1>6. order \in Surjection(D, S)
  BY <1>1, <1>4, <1>5, FS_Injection
<1>7. \A n \in S : \E i \in D : order[i] = n
  BY <1>6 DEF Surjection
<1>. QED
  BY <1>2, <1>3, <1>7

\* The core starts: what it is told first.
LEMMA FirstInbox ==
  ASSUME Types, Alive, StartCore
  PROVE  /\ inbox' \in Seq(ClusterEvent)
         /\ \A i \in 1 .. Len(inbox') :
              /\ inbox'[i].kind = "up" /\ status[inbox'[i].node] = "up"
              /\ inbox'[i].life = lives[inbox'[i].node]
         /\ \A i \in 1 .. Len(inbox'), j \in 1 .. Len(inbox') :
              inbox'[i].node = inbox'[j].node => i = j
         /\ \A n \in Nodes : status[n] = "up" =>
              \E i \in 1 .. Len(inbox') : inbox'[i].node = n
<1> DEFINE S == {n \in Nodes : status[n] = "up"}
           E(n) == [kind |-> "up", node |-> n, life |-> lives[n]]
<1>1. PICK order \in SetToSeqs(S) : inbox' = [i \in DOMAIN order |-> E(order[i])]
  BY DEF StartCore
<1>2. /\ order \in Seq(S) /\ DOMAIN order = 1 .. Len(order)
      /\ \A i \in 1 .. Len(order), j \in 1 .. Len(order) :
           order[i] = order[j] => i = j
      /\ \A n \in S : \E i \in 1 .. Len(order) : order[i] = n
  BY InitialState
<1>3. Len(order) \in Nat /\ \A i \in 1 .. Len(order) : order[i] \in S
  BY <1>2, LenProperties, ElementOfSeq
<1>4. ASSUME NEW n \in S PROVE E(n) \in ClusterEvent
  <2>1. n \in Nodes /\ lives[n] \in Nat /\ lives[n] > 0
    BY DEF Types, TypeOK, Alive
  <2>. QED
    BY <2>1 DEF ClusterEvent, Event
<1>5. \A n \in S : E(n).kind = "up" /\ E(n).node = n /\ E(n).life = lives[n]
  OBVIOUS
<1>6. \A n \in S : n \in Nodes /\ status[n] = "up"
  OBVIOUS
<1>7. \A n \in Nodes : status[n] = "up" => n \in S
  OBVIOUS
<1> HIDE DEF E, S
<1>8. inbox' \in [1 .. Len(order) -> ClusterEvent]
  BY <1>1, <1>2, <1>3, <1>4
<1>9. inbox' \in Seq(ClusterEvent)
  BY <1>3, <1>8, SeqDef
<1>10. Len(inbox') = Len(order)
  BY <1>3, <1>8, <1>9, LenProperties
<1>11. \A i \in 1 .. Len(order) : inbox'[i] = E(order[i])
  BY <1>1, <1>2
<1>12. \A i \in 1 .. Len(order) :
         inbox'[i].kind = "up" /\ inbox'[i].node = order[i]
         /\ inbox'[i].life = lives[order[i]] /\ status[order[i]] = "up"
  BY <1>3, <1>5, <1>6, <1>11
<1>. QED
  BY <1>2, <1>7, <1>9, <1>10, <1>12

\* Steps of the core and its client.
LEMMA CoreTypes ==
  ASSUME Types, Alive, StartCore \/ ReceiveUp \/ ReceiveLeave \/ Publish
  PROVE  Types' /\ Alive'
<1>1. CASE StartCore
  <2>1. inbox' \in Seq(ClusterEvent)
    BY <1>1, FirstInbox
  <2>2. core' \in BOOLEAN
    BY <1>1, Zenon DEF StartCore
  <2>. QED
    BY <1>1, <2>1, <2>2 DEF Types, TypeOK, Alive, StartCore, listVars
<1>2. CASE ReceiveUp \/ ReceiveLeave
  <2> DEFINE e == Head(inbox)
  <2>1. inbox \in Seq(ClusterEvent) /\ inbox # << >>
    BY <1>2 DEF Types, TypeOK, ReceiveUp, ReceiveLeave
  <2>2. e \in ClusterEvent /\ Tail(inbox) \in Seq(ClusterEvent)
    BY <2>1, HeadTailProperties
  <2>3. e.node \in Nodes /\ e.life \in Nat \ {0}
    BY <2>2 DEF ClusterEvent, Event
  <2>4. inbox' = Tail(inbox) /\ made' = made + 1
    BY <1>2 DEF ReceiveUp, ReceiveLeave
  <2>5. /\ seeds' = seeds \cup {<<e.node, made>>} \/ seeds' = seeds \ {<<e.node, made>>}
        /\ pending' = pending \cup ({e.node} \cap Monitors) \/ pending' = pending
    BY <1>2 DEF ReceiveUp, ReceiveLeave, NewSeed
  <2>6. PICK k \in {"join", "leave"} :
          client' = Append(client, [kind |-> k, node |-> e.node, life |-> e.life])
    BY <1>2 DEF ReceiveUp, ReceiveLeave, Announce
  <2>7. [kind |-> k, node |-> e.node, life |-> e.life] \in SeedEvent
    BY <2>3 DEF SeedEvent, Event
  <2> HIDE DEF e
  <2>8. client' \in Seq(SeedEvent)
    BY <2>6, <2>7, AppendProperties DEF Types, TypeOK
  <2>9. made' \in Nat /\ seeds' \subseteq Nodes \X (0 .. made')
    <3>1. made \in Nat /\ seeds \subseteq Nodes \X (0 .. made)
      BY DEF Types, TypeOK
    <3>2. 0 .. made \subseteq 0 .. made' /\ made \in 0 .. made' /\ made' \in Nat
      BY <2>4, <3>1
    <3>. QED
      BY <2>3, <2>5, <3>1, <3>2
  <2>10. pending' \subseteq Monitors
    BY <2>5 DEF Types, TypeOK
  <2>. QED
    BY <1>2, <2>2, <2>4, <2>8, <2>9, <2>10
    DEF Types, TypeOK, Alive, ReceiveUp, ReceiveLeave, listVars
<1>3. CASE Publish
  <2>1. client \in Seq(SeedEvent) /\ client # << >>
    BY <1>3 DEF Types, TypeOK, Publish
  <2>2. Head(client) \in SeedEvent /\ client' \in Seq(SeedEvent)
    BY <1>3, <2>1, HeadTailProperties DEF Publish
  <2>3. ASSUME NEW m \in Monitors
        PROVE  (IF m \in subscribed THEN Append(wire[m], Head(client)) ELSE wire[m])
                 \in Seq(SeedEvent)
    BY <2>2, AppendProperties DEF Types, TypeOK
  <2>4. wire' \in [Monitors -> Seq(SeedEvent)]
    BY <1>3, <2>3 DEF Publish
  <2>. QED
    BY <1>3, <2>2, <2>4 DEF Types, TypeOK, Alive, Publish, listVars
<1>. QED
  BY <1>1, <1>2, <1>3

\* Steps of a monitor and of the network.
LEMMA MonitorTypes ==
  ASSUME Types, Alive, NEW m \in Monitors,
         \/ StartMonitorCore(m) \/ GossipSubscription(m) \/ SerialiseAll(m)
         \/ ReceiveNews(m) \/ Lose(m)
  PROVE  Types' /\ Alive'
<1>1. CASE StartMonitorCore(m) \/ GossipSubscription(m)
  BY <1>1 DEF Types, TypeOK, Alive, StartMonitorCore, GossipSubscription,
     coreVars, listVars
<1>2. CASE SerialiseAll(m)
  <2>1. AllSeeds(m) \subseteq Nodes
    BY DEF Types, TypeOK, AllSeeds
  <2>2. [to |-> m, nodes |-> AllSeeds(m)] \in [to : Monitors, nodes : SUBSET Nodes]
    BY <2>1
  <2>3. snapshots' \subseteq [to : Monitors, nodes : SUBSET Nodes]
    BY <1>2, <2>2 DEF Types, TypeOK, SerialiseAll
  <2>4. pending' \subseteq Monitors /\ unlisted' \subseteq Monitors
    BY <1>2 DEF Types, TypeOK, SerialiseAll
  <2>. QED
    BY <1>2, <2>3, <2>4 DEF Types, TypeOK, Alive, SerialiseAll
<1>3. CASE ReceiveNews(m)
  <2> DEFINE e == Head(wire[m])
  <2>1. wire[m] \in Seq(SeedEvent) /\ wire[m] # << >>
    BY <1>3 DEF Types, TypeOK, ReceiveNews
  <2>2. e \in SeedEvent /\ Tail(wire[m]) \in Seq(SeedEvent)
    BY <2>1, HeadTailProperties
  <2>3. e.node \in Nodes /\ [kind |-> e.kind, life |-> e.life] \in News
    BY <2>2 DEF SeedEvent, Event, News
  <2>4. /\ news' = [news EXCEPT ![m][e.node] = [kind |-> e.kind, life |-> e.life]]
        /\ wire' = [wire EXCEPT ![m] = Tail(@)]
    BY <1>3 DEF ReceiveNews
  <2> HIDE DEF e
  <2>5. news' \in [Monitors -> [Nodes -> News]]
    BY <2>3, <2>4 DEF Types
  <2>6. wire' \in [Monitors -> Seq(SeedEvent)]
    BY <2>2, <2>4 DEF Types, TypeOK
  <2>. QED
    BY <1>3, <2>5, <2>6, NewsType
    DEF Types, TypeOK, Alive, ReceiveNews, coreVars, listVars
<1>4. CASE Lose(m)
  <2>1. wire[m] \in Seq(SeedEvent) /\ wire[m] # << >>
    BY <1>4 DEF Types, TypeOK, Lose
  <2>2. Tail(wire[m]) \in Seq(SeedEvent)
    BY <2>1, HeadTailProperties
  <2>3. wire' \in [Monitors -> Seq(SeedEvent)]
    BY <1>4, <2>2 DEF Types, TypeOK, Lose
  <2>. QED
    BY <1>4, <2>3 DEF Types, TypeOK, Alive, Lose, coreVars, listVars
<1>. QED
  BY <1>1, <1>2, <1>3, <1>4

LEMMA ReceiveAllTypes ==
  ASSUME Types, Alive, NEW a \in snapshots, ReceiveAll(a)
  PROVE  Types' /\ Alive'
<1>1. a \in [to : Monitors, nodes : SUBSET Nodes]
  BY DEF Types, TypeOK
<1>2. a.to \in Monitors /\ a.nodes \in SUBSET Nodes
  BY <1>1
<1>3. listed' \in [Monitors -> SUBSET Nodes] /\ unlisted' \subseteq Monitors
  <2>1. listed \in [Monitors -> SUBSET Nodes] /\ unlisted \subseteq Monitors
    BY DEF Types, TypeOK
  <2>2. \/ listed' = [listed EXCEPT ![a.to] = @ \cup a.nodes] /\ unlisted' = unlisted
        \/ listed' = listed /\ unlisted' = unlisted \cup {a.to}
    BY DEF ReceiveAll
  <2>3. listed[a.to] \cup a.nodes \in SUBSET Nodes
    BY <1>2, <2>1
  <2>. QED
    BY <1>2, <2>1, <2>2, <2>3
<1>. QED
  BY <1>3 DEF Types, TypeOK, Alive, ReceiveAll, coreVars

LEMMA StepTypes ==
  ASSUME Types, Alive, Next
  PROVE  Types' /\ Alive'
BY MemberTypes, CoreTypes, MonitorTypes, ReceiveAllTypes DEF Next, CoreStep

\* Before the core runs there is nothing to print.
LEMMA StepQuiet ==
  ASSUME Types, QuietBeforeCore, Next
  PROVE  QuietBeforeCore'
<1> SUFFICES ASSUME ~core'
             PROVE  /\ inbox' = <<>> /\ client' = <<>>
                    /\ \A m \in Monitors : /\ wire'[m] = <<>>
                                           /\ \A n \in Nodes : news'[m][n] = NoNews
  BY DEF QuietBeforeCore
<1>1. ~StartCore
  BY DEF StartCore
<1>2. core' = core
  BY <1>1 DEF Next, CoreStep, MemberStep, Boot, MemberUp, Unreachable, Reachable,
     MemberRemoved, StartMonitorCore, GossipSubscription, SerialiseAll,
     ReceiveNews, Lose, ReceiveAll, ReceiveUp, ReceiveLeave, Publish
<1>3. ~core /\ inbox = <<>> /\ client = <<>>
      /\ \A m \in Monitors : /\ wire[m] = <<>>
                             /\ \A n \in Nodes : news[m][n] = NoNews
  BY <1>2 DEF QuietBeforeCore
<1>4. CASE \E n \in Nodes : MemberRemoved(n)
  BY <1>3, <1>4 DEF MemberRemoved, Tell
<1>5. CASE \E n \in Nodes : MemberStep(n) /\ ~MemberRemoved(n)
  BY <1>3, <1>5 DEF MemberStep, Boot, MemberUp, Unreachable, Reachable, Tell, coreVars
<1>6. CASE \/ \E m \in Monitors : \/ StartMonitorCore(m) \/ GossipSubscription(m)
                                   \/ SerialiseAll(m)
           \/ \E a \in snapshots : ReceiveAll(a)
  BY <1>3, <1>6 DEF StartMonitorCore, GossipSubscription, SerialiseAll,
     ReceiveAll, coreVars
<1>7. /\ ~CoreStep /\ ~Publish
      /\ \A m \in Monitors : ~ReceiveNews(m) /\ ~Lose(m)
  BY <1>3 DEF CoreStep, ReceiveUp, ReceiveLeave, Publish, ReceiveNews, Lose
<1>. QED
  BY <1>1, <1>4, <1>5, <1>6, <1>7 DEF Next

-----------------------------------------------------------------------------
(* Seeds and lists.                                                        *)

\* The mailboxes are sequences of events.
LEMMA Mailboxes ==
  ASSUME Types
  PROVE  /\ inbox \in Seq(AnyEvent) /\ client \in Seq(AnyEvent)
         /\ \A m \in Monitors : wire[m] \in Seq(AnyEvent)
<1>1. ClusterEvent \subseteq AnyEvent /\ SeedEvent \subseteq AnyEvent
  BY DEF AnyEvent
<1>2. /\ inbox \in Seq(ClusterEvent) /\ client \in Seq(SeedEvent)
      /\ \A m \in Monitors : wire[m] \in Seq(SeedEvent)
  BY DEF Types, TypeOK
<1>. QED
  BY <1>1, <1>2, SeqMonotonic

\* An event that a node is up, after another came or the first was taken.
LEMMA UpInAppend ==
  ASSUME NEW s \in Seq(AnyEvent), NEW e \in AnyEvent, NEW n
  PROVE  /\ UpIn(s, n) => UpIn(Append(s, e), n)
         /\ e.kind = "up" /\ e.node = n => UpIn(Append(s, e), n)
<1>1. /\ Len(s) \in Nat /\ Len(Append(s, e)) = Len(s) + 1
      /\ Append(s, e)[Len(s) + 1] = e
      /\ \A i \in 1 .. Len(s) : Append(s, e)[i] = s[i]
  BY AppendProperties, LenProperties
<1>2. Len(s) + 1 \in 1 .. Len(Append(s, e))
      /\ \A i \in 1 .. Len(s) : i \in 1 .. Len(Append(s, e))
  BY <1>1
<1>. QED
  BY <1>1, <1>2 DEF UpIn

LEMMA UpInTail ==
  ASSUME NEW s \in Seq(AnyEvent), s # << >>, NEW n, UpIn(s, n)
  PROVE  UpIn(Tail(s), n) \/ (Head(s).kind = "up" /\ Head(s).node = n)
<1>1. /\ Len(s) \in Nat \ {0} /\ Len(Tail(s)) = Len(s) - 1 /\ Head(s) = s[1]
      /\ \A k \in 1 .. Len(Tail(s)) : Tail(s)[k] = s[k + 1]
  BY HeadTailProperties, LenProperties, EmptySeq
<1>2. \A k \in 1 .. Len(s) :
        k = 1 \/ (k - 1 \in 1 .. Len(Tail(s)) /\ Tail(s)[k - 1] = s[k])
  BY <1>1
<1>. QED
  BY <1>1, <1>2 DEF UpIn

\* A list that covers m goes on doing so when a newer seed is made, and if
\* it becomes longer; the list of all seeds covers any node that has one.
LEMMA CoversGrows ==
  ASSUME NEW S \in SUBSET (Nodes \X Nat), NEW k \in Nat, NEW x, NEW N, NEW m,
         \A s \in S : s[2] < k, Covers(S, N, m)
  PROVE  Covers(S \cup {<<x, k>>}, N, m)
<1>1. PICK own \in S : own[1] = m /\ \A s \in S : s[2] <= own[2] => s[1] \in N
  BY DEF Covers
<1>2. own[2] \in Nat /\ own[2] < k /\ <<x, k>>[2] = k
  OBVIOUS
<1>3. ~(<<x, k>>[2] <= own[2])
  BY <1>2
<1>. QED
  BY <1>1, <1>3 DEF Covers

LEMMA CoversMore ==
  ASSUME NEW S, NEW N, NEW M, N \subseteq M, NEW m, Covers(S, N, m)
  PROVE  Covers(S, M, m)
BY DEF Covers

LEMMA CoversAll ==
  ASSUME NEW S, NEW m, Seeded(S, m)
  PROVE  Covers(S, {s[1] : s \in S}, m)
BY DEF Covers, Seeded

\* Steps that leave the seeds and the lists alone.
LEMMA SeedsAlone ==
  ASSUME Types, SeedInv, core' = core,
         UNCHANGED <<seeds, made, pending, snapshots, listed, unlisted>>,
         \A n \in Nodes : UpIn(inbox, n) => UpIn(inbox', n),
         \A n \in Nodes : core /\ Member(n)' => Member(n) \/ UpIn(inbox', n)
  PROVE  SeedInv'
<1>1. SeedsFresh'
  BY DEF SeedInv, SeedsFresh
<1>2. MembersSeeded'
  BY DEF SeedInv, MembersSeeded
<1>3. ASSUME core, NEW m \in Monitors, Member(m)' PROVE Informed(m)'
  <2>1. m \in Nodes
    BY DEF Nodes
  <2>2. CASE Member(m)
    <3>1. Informed(m)
      BY <1>3, <2>2 DEF SeedInv, ListsCover
    <3>. QED
      BY <2>1, <3>1 DEF Informed, Outstanding
  <2>3. CASE UpIn(inbox', m)
    BY <2>3 DEF Informed, Outstanding
  <2>. QED
    BY <1>3, <2>1, <2>2, <2>3
<1>4. ListsCover'
  BY <1>3 DEF SeedInv, ListsCover
<1>. QED
  BY <1>1, <1>2, <1>4 DEF SeedInv

\* The cluster tells the core of a node.
LEMMA TellUp ==
  ASSUME Types, Alive, NEW n \in Nodes, status[n] # "off",
         NEW kind \in {"up", "unreachable", "removed"}, Tell(kind, n)
  PROVE  /\ \A x \in Nodes : UpIn(inbox, x) => UpIn(inbox', x)
         /\ core /\ kind = "up" => UpIn(inbox', n)
<1> DEFINE e == [kind |-> kind, node |-> n, life |-> lives[n]]
<1>1. e \in AnyEvent
  <2>1. lives[n] \in Nat /\ lives[n] > 0
    BY DEF Types, TypeOK, Alive
  <2>. QED
    BY <2>1 DEF AnyEvent, ClusterEvent, Event
<1>2. inbox \in Seq(AnyEvent)
  BY Mailboxes
<1>3. (core /\ inbox' = Append(inbox, e)) \/ (~core /\ inbox' = inbox)
  BY DEF Tell
<1>4. e.kind = kind /\ e.node = n
  OBVIOUS
<1> HIDE DEF e
<1>5. CASE core /\ inbox' = Append(inbox, e)
  BY <1>1, <1>2, <1>4, <1>5, UpInAppend
<1>6. CASE ~core /\ inbox' = inbox
  BY <1>6
<1>. QED
  BY <1>3, <1>5, <1>6

LEMMA MemberSeeds ==
  ASSUME Types, Alive, SeedInv, NEW n \in Nodes, MemberStep(n)
  PROVE  SeedInv'
<1>1. CASE Boot(n) \/ Reachable(n)
  <2>1. \A x \in Nodes : Member(x)' => Member(x)
    BY <1>1 DEF Types, TypeOK, Boot, Reachable, Member
  <2>2. /\ core' = core /\ inbox' = inbox
        /\ UNCHANGED <<seeds, made, pending, snapshots, listed, unlisted>>
    BY <1>1 DEF Boot, Reachable, coreVars, listVars
  <2>. QED
    BY <2>1, <2>2, SeedsAlone
<1>2. CASE MemberUp(n) \/ Unreachable(n)
  <2>1. /\ \A x \in Nodes : UpIn(inbox, x) => UpIn(inbox', x)
        /\ core /\ status[n] = "booting" => UpIn(inbox', n)
    BY <1>2, TellUp DEF MemberUp, Unreachable
  <2>2. \A x \in Nodes : core /\ Member(x)' => Member(x) \/ UpIn(inbox', x)
    BY <1>2, <2>1 DEF Types, TypeOK, MemberUp, Unreachable, Member
  <2>3. /\ core' = core
        /\ UNCHANGED <<seeds, made, pending, snapshots, listed, unlisted>>
    BY <1>2 DEF MemberUp, Unreachable, listVars
  <2>. QED
    BY <2>1, <2>2, <2>3, SeedsAlone
<1>3. CASE MemberRemoved(n)
  <2>1. \A x \in Nodes : UpIn(inbox, x) => UpIn(inbox', x)
    BY <1>3, TellUp DEF MemberRemoved
  <2>2. \A x \in Nodes : Member(x)' => Member(x) /\ x # n
    BY <1>3 DEF Types, TypeOK, MemberRemoved, Member
  <2>3. core' = core /\ UNCHANGED <<seeds, made, pending, snapshots>>
    BY <1>3 DEF MemberRemoved
  <2>4. SeedsFresh' /\ MembersSeeded'
    BY <2>1, <2>2, <2>3 DEF SeedInv, SeedsFresh, MembersSeeded
  <2>5. ASSUME core, NEW m \in Monitors, Member(m)' PROVE Informed(m)'
    <3>1. m \in Nodes /\ Member(m) /\ m # n
      BY <2>2, <2>5 DEF Nodes
    <3>2. Informed(m)
      BY <2>5, <3>1 DEF SeedInv, ListsCover
    <3>3. listed'[m] = listed[m] /\ (m \in unlisted => m \in unlisted')
      BY <1>3, <3>1 DEF MemberRemoved
    <3>. QED
      BY <2>1, <2>3, <3>1, <3>2, <3>3 DEF Informed, Outstanding
  <2>6. ListsCover'
    BY <2>3, <2>5 DEF SeedInv, ListsCover
  <2>. QED
    BY <2>4, <2>6 DEF SeedInv
<1>. QED
  BY <1>1, <1>2, <1>3 DEF MemberStep

\* The core starts: every member is in its mailbox.
LEMMA StartSeeds ==
  ASSUME Types, Alive, SeedInv, StartCore
  PROVE  SeedInv'
<1>1. UNCHANGED <<status, seeds, made, pending, snapshots>>
  BY DEF StartCore
<1>2. \A n \in Nodes : Member(n)' => UpIn(inbox', n)
  BY <1>1, FirstInbox DEF StartCore, Member, UpIn
<1>3. Monitors \subseteq Nodes
  BY DEF Nodes
<1>4. MembersSeeded'
  BY <1>2 DEF MembersSeeded
<1>5. \A m \in Monitors : Member(m)' => Informed(m)'
  BY <1>2, <1>3 DEF Informed, Outstanding
<1>6. ListsCover'
  BY <1>1, <1>5 DEF SeedInv, ListsCover
<1>7. SeedsFresh'
  BY <1>1 DEF SeedInv, SeedsFresh
<1>. QED
  BY <1>4, <1>6, <1>7 DEF SeedInv

\* A member is up: it has a seed now, and a monitor is to be sent a list.
LEMMA ReceiveUpSeeds ==
  ASSUME Types, SeedInv, ReceiveUp
  PROVE  SeedInv'
<1> DEFINE e == Head(inbox)
<1>1. /\ inbox # << >> /\ e.kind = "up" /\ inbox' = Tail(inbox)
      /\ seeds' = seeds \cup {<<e.node, made>>} /\ made' = made + 1
      /\ pending' = pending \cup ({e.node} \cap Monitors)
      /\ UNCHANGED <<status, core, snapshots, listed, unlisted>>
  BY DEF ReceiveUp, NewSeed, listVars
<1>2. inbox \in Seq(AnyEvent)
  BY Mailboxes
<1>3. \A n \in Nodes : UpIn(inbox, n) => UpIn(inbox', n) \/ n = e.node
  BY <1>1, <1>2, UpInTail
<1>4. made \in Nat /\ seeds \in SUBSET (Nodes \X Nat)
  BY DEF Types, TypeOK
<1>5. \A s \in seeds : s[2] < made
  BY DEF SeedInv, SeedsFresh
<1> HIDE DEF e
<1>6. <<e.node, made>>[1] = e.node /\ <<e.node, made>>[2] = made
  OBVIOUS
<1>7. SeedsFresh'
  <2>1. ASSUME NEW s \in seeds' PROVE s[2] < made'
    <3>1. CASE s \in seeds
      <4>1. s[2] \in Nat /\ s[2] < made
        BY <1>4, <1>5, <3>1
      <4>. QED
        BY <1>1, <1>4, <4>1
    <3>2. CASE s = <<e.node, made>>
      BY <1>1, <1>4, <1>6, <3>2
    <3>. QED
      BY <1>1, <2>1, <3>1, <3>2
  <2>. QED
    BY <2>1 DEF SeedsFresh
<1>8. Seeded(seeds', e.node) /\ \A n : Seeded(seeds, n) => Seeded(seeds', n)
  BY <1>1, <1>6 DEF Seeded
<1>9. MembersSeeded'
  BY <1>1, <1>3, <1>8 DEF SeedInv, MembersSeeded, Member
<1>10. ASSUME NEW N, NEW m, Covers(seeds, N, m) PROVE Covers(seeds', N, m)
  BY <1>1, <1>4, <1>5, <1>10, CoversGrows
<1>11. \A m \in pending' : Seeded(seeds', m)
  BY <1>1, <1>8 DEF SeedInv, ListsCover
<1>12. \A a \in snapshots' : Covers(seeds', a.nodes, a.to)
  BY <1>1, <1>10 DEF SeedInv, ListsCover
<1>13. ASSUME core, NEW m \in Monitors, Member(m) PROVE Informed(m)'
  <2>1. Informed(m) /\ m \in Nodes
    BY <1>13 DEF SeedInv, ListsCover, Nodes
  <2>2. CASE Covers(seeds, listed[m], m)
    BY <1>1, <1>10, <2>2 DEF Informed
  <2>3. CASE m \in unlisted
    BY <1>1, <2>3 DEF Informed
  <2>4. CASE Outstanding(m)
    BY <1>1, <1>3, <2>1, <2>4 DEF Informed, Outstanding
  <2>. QED
    BY <2>1, <2>2, <2>3, <2>4 DEF Informed
<1>14. ListsCover'
  BY <1>1, <1>11, <1>12, <1>13 DEF ListsCover, Member
<1>. QED
  BY <1>7, <1>9, <1>14 DEF SeedInv

\* A member has left: its seed is not found among the seeds, for the one
\* that is looked for is new.
LEMMA ReceiveLeaveSeeds ==
  ASSUME Types, SeedInv, ReceiveLeave
  PROVE  SeedInv'
<1> DEFINE e == Head(inbox)
<1>1. /\ inbox # << >> /\ e.kind # "up" /\ inbox' = Tail(inbox)
      /\ seeds' = seeds \ {<<e.node, made>>} /\ made' = made + 1
      /\ UNCHANGED <<status, core, pending, snapshots, listed, unlisted>>
  BY DEF ReceiveLeave, NewSeed, listVars
<1>2. inbox \in Seq(AnyEvent)
  BY Mailboxes
<1>3. \A n \in Nodes : UpIn(inbox, n) => UpIn(inbox', n)
  BY <1>1, <1>2, UpInTail
<1>4. made \in Nat /\ \A s \in seeds : s[2] \in Nat /\ s[2] < made
  BY DEF Types, TypeOK, SeedInv, SeedsFresh
<1> HIDE DEF e
<1>5. <<e.node, made>> \notin seeds
  <2>1. <<e.node, made>>[2] = made
    OBVIOUS
  <2>. QED
    BY <1>4, <2>1
<1>6. seeds' = seeds
  BY <1>1, <1>5
<1>7. SeedsFresh'
  BY <1>1, <1>4, <1>6 DEF SeedsFresh
<1>8. MembersSeeded'
  BY <1>1, <1>3, <1>6 DEF SeedInv, MembersSeeded, Member
<1>9. \A m \in Monitors : Informed(m) => Informed(m)'
  BY <1>1, <1>3, <1>6 DEF Informed, Outstanding, Nodes
<1>10. ListsCover'
  BY <1>1, <1>6, <1>9 DEF SeedInv, ListsCover, Member
<1>. QED
  BY <1>7, <1>8, <1>10 DEF SeedInv

\* A list is serialised, with all seeds there are by then, or is lost.
LEMMA SerialiseSeeds ==
  ASSUME Types, SeedInv, NEW m \in Monitors, SerialiseAll(m)
  PROVE  SeedInv'
<1>1. /\ m \in pending /\ pending' = pending \ {m}
      /\ UNCHANGED <<status, core, inbox, seeds, made, listed>>
      /\ unlisted \subseteq unlisted' /\ snapshots \subseteq snapshots'
  BY DEF SerialiseAll
<1>2. \/ snapshots' = snapshots \cup {[to |-> m, nodes |-> AllSeeds(m)]}
      \/ snapshots' = snapshots /\ m \in unlisted'
  BY DEF SerialiseAll
<1>3. Covers(seeds, AllSeeds(m), m)
  BY <1>1, CoversAll DEF SeedInv, ListsCover, AllSeeds
<1>4. \A a \in snapshots' : Covers(seeds', a.nodes, a.to)
  BY <1>1, <1>2, <1>3 DEF SeedInv, ListsCover
<1>5. Outstanding(m)' \/ m \in unlisted'
  <2>1. [to |-> m, nodes |-> AllSeeds(m)].to = m
    OBVIOUS
  <2>. QED
    BY <1>2, <2>1 DEF Outstanding
<1>6. \A x \in Monitors : Informed(x) => Informed(x)'
  BY <1>1, <1>5 DEF Informed, Outstanding
<1>7. ListsCover'
  BY <1>1, <1>4, <1>6 DEF SeedInv, ListsCover, Member
<1>8. SeedsFresh' /\ MembersSeeded'
  BY <1>1 DEF SeedInv, SeedsFresh, MembersSeeded, Member
<1>. QED
  BY <1>7, <1>8 DEF SeedInv

\* A list comes to a monitor, or is a dead letter.
LEMMA ReceiveAllSeeds ==
  ASSUME Types, SeedInv, NEW a \in snapshots, ReceiveAll(a)
  PROVE  SeedInv'
<1>1. /\ snapshots' = snapshots \ {a}
      /\ UNCHANGED <<status, core, inbox, seeds, made, pending>>
  BY DEF ReceiveAll, coreVars
<1>2. a \in [to : Monitors, nodes : SUBSET Nodes] /\ a.to \in Monitors
  BY DEF Types, TypeOK
<1>3. /\ unlisted \subseteq unlisted'
      /\ \A x \in Monitors : listed[x] \subseteq listed'[x]
      /\ a.to \in unlisted' \/ a.nodes \subseteq listed'[a.to]
  <2>1. listed \in [Monitors -> SUBSET Nodes]
    BY DEF Types, TypeOK
  <2>2. \/ listed' = [listed EXCEPT ![a.to] = @ \cup a.nodes] /\ unlisted' = unlisted
        \/ listed' = listed /\ unlisted' = unlisted \cup {a.to}
    BY DEF ReceiveAll
  <2>. QED
    BY <1>2, <2>1, <2>2
<1>4. Covers(seeds, a.nodes, a.to)
  BY DEF SeedInv, ListsCover
<1>5. Informed(a.to)'
  <2>1. CASE a.to \in unlisted'
    BY <2>1 DEF Informed
  <2>2. CASE a.nodes \subseteq listed'[a.to]
    <3>1. Covers(seeds, listed'[a.to], a.to)
      BY <1>4, <2>2, CoversMore
    <3>. QED
      BY <1>1, <3>1 DEF Informed
  <2>. QED
    BY <1>3, <2>1, <2>2
<1>6. ASSUME NEW m \in Monitors, Informed(m), m # a.to PROVE Informed(m)'
  <2>1. CASE Covers(seeds, listed[m], m)
    <3>1. Covers(seeds, listed'[m], m)
      BY <1>3, <2>1, CoversMore
    <3>. QED
      BY <1>1, <3>1 DEF Informed
  <2>2. CASE Outstanding(m) \/ m \in unlisted
    BY <1>1, <1>3, <1>6, <2>2 DEF Informed, Outstanding
  <2>. QED
    BY <1>6, <2>1, <2>2 DEF Informed
<1>7. ListsCover'
  BY <1>1, <1>5, <1>6 DEF SeedInv, ListsCover, Member
<1>8. SeedsFresh' /\ MembersSeeded'
  BY <1>1 DEF SeedInv, SeedsFresh, MembersSeeded, Member
<1>. QED
  BY <1>7, <1>8 DEF SeedInv

LEMMA StepSeeds ==
  ASSUME Types, Alive, SeedInv, Next
  PROVE  SeedInv'
<1>1. CASE \/ Publish
           \/ \E m \in Monitors : \/ StartMonitorCore(m) \/ GossipSubscription(m)
                                   \/ ReceiveNews(m) \/ Lose(m)
  <2>1. UNCHANGED <<status, core, inbox, seeds, made, pending, snapshots,
                    listed, unlisted>>
    BY <1>1 DEF Publish, StartMonitorCore, GossipSubscription, ReceiveNews,
       Lose, coreVars, listVars
  <2>. QED
    BY <2>1, SeedsAlone DEF Member
<1>. QED
  BY <1>1, MemberSeeds, StartSeeds, ReceiveUpSeeds, ReceiveLeaveSeeds,
     SerialiseSeeds, ReceiveAllSeeds DEF Next, CoreStep

-----------------------------------------------------------------------------
(* What monitors print.                                                    *)

\* The ages of the two ends of the way.
LEMMA AgesType ==
  ASSUME Types, Types'
  PROVE  /\ Present \in Ages /\ Present' \in Ages
         /\ \A m \in Monitors : PrintedAge(m) \in Ages /\ PrintedAge(m)' \in Ages
<1>1. \A v \in News : Age(v) \in Int
  BY DEF News, NoNews, Age
<1>2. ASSUME NEW m \in Monitors PROVE PrintedAge(m) \in Ages /\ PrintedAge(m)' \in Ages
  BY <1>1, <1>2 DEF Types, PrintedAge, Ages
<1>3. lives \in [Nodes -> Nat] /\ lives' \in [Nodes -> Nat]
  BY DEF Types, TypeOK
<1>4. Present \in Ages /\ Present' \in Ages
  BY <1>3 DEF Present, Ages
<1>. QED
  BY <1>2, <1>4

\* Nothing is printed of a node, and it was there already.
LEMMA NoNewsAge == Age(NoNews) = 0
BY DEF Age, NoNews

\* Steps that tell, announce, publish and print nothing.
LEMMA FlowAlone ==
  ASSUME NewsFlow, UNCHANGED <<status, lives, inbox, client, wire, news>>
  PROVE  NewsFlow'
BY DEF NewsFlow, PrintedAge, Present

\* Steps of the cluster that do not end a monitor.
LEMMA MemberFlow ==
  ASSUME Types, Types', Alive, NewsFlow, NEW n \in Nodes, MemberStep(n),
         ~MemberRemoved(n)
  PROVE  NewsFlow'
<1> SUFFICES ASSUME NEW m \in Monitors
             PROVE  Flow(PrintedAge(m)', wire'[m], client', inbox', Present')
  BY DEF NewsFlow
<1>1. Flow(PrintedAge(m), wire[m], client, inbox, Present)
  BY DEF NewsFlow
<1>2. /\ wire[m] \in Seq(AnyEvent) /\ client \in Seq(AnyEvent)
      /\ inbox \in Seq(AnyEvent)
      /\ PrintedAge(m) \in Ages /\ Present \in Ages /\ Present' \in Ages
  BY Mailboxes, AgesType
<1>3. UNCHANGED <<wire, client, news>> /\ PrintedAge(m)' = PrintedAge(m)
  BY DEF MemberStep, Boot, MemberUp, Unreachable, Reachable, coreVars, PrintedAge
<1>4. \A x \in Nodes : x # n => Present'[x] = Present[x]
  BY DEF MemberStep, Boot, MemberUp, Unreachable, Reachable, Present, Types, TypeOK
<1>5. lives[n] \in Nat
  BY DEF Types, TypeOK
<1>6. CASE Boot(n) \/ Reachable(n)
  <2>1. inbox' = inbox
    BY <1>6 DEF Boot, Reachable, coreVars
  <2>2. Present[n] <= Present'[n]
    <3>1. CASE Boot(n)
      <4>1. /\ status[n] = "off" /\ status'[n] = "booting"
            /\ lives'[n] = lives[n] + 1
        BY <3>1 DEF Boot, Types, TypeOK
      <4>2. Present[n] = 2 * lives[n] + 1 /\ Present'[n] = 2 * lives'[n] - 1
        BY <4>1 DEF Present
      <4>. QED
        BY <1>5, <4>1, <4>2
    <3>2. CASE Reachable(n)
      BY <1>5, <3>2 DEF Reachable, Present, Types, TypeOK
    <3>. QED
      BY <1>6, <3>1, <3>2
  <2>3. \A x \in Nodes : Present[x] <= Present'[x]
    <3>1. ASSUME NEW x \in Nodes PROVE Present[x] <= Present'[x]
      <4>1. Present[x] \in Int
        BY <1>2 DEF Ages
      <4>2. CASE x = n
        BY <4>2, <2>2
      <4>3. CASE x # n
        BY <1>4, <4>1, <4>3
      <4>. QED
        BY <4>2, <4>3
    <3>. QED
      BY <3>1
  <2>. QED
    BY <1>1, <1>2, <1>3, <2>1, <2>3, FlowLater
<1>7. CASE MemberUp(n) \/ Unreachable(n)
  <2>1. PICK k \in {"up", "unreachable"} :
          Tell(k, n) /\ (k = "up" <=> status[n] = "booting")
    BY <1>7 DEF MemberUp, Unreachable
  <2> DEFINE e == [kind |-> k, node |-> n, life |-> lives[n]]
  <2>2. lives' = lives /\ status[n] # "off" /\ status'[n] # "booting"
    BY <1>7 DEF MemberUp, Unreachable, Types, TypeOK
  <2>3. e \in AnyEvent /\ e.node = n
    BY <2>2 DEF Types, TypeOK, Alive, AnyEvent, ClusterEvent, Event
  <2>4. Present[n] <= Age(e) /\ Age(e) <= Present'[n] /\ Present[n] <= Present'[n]
    BY <1>5, <2>1, <2>2 DEF Present, Age
  <2>5. inbox' = Append(inbox, e) \/ inbox' = inbox
    BY <2>1 DEF Tell
  <2> HIDE DEF e
  <2>6. \A x \in Nodes : Present[x] <= Present'[x]
    <3>1. ASSUME NEW x \in Nodes PROVE Present[x] <= Present'[x]
      <4>1. Present[x] \in Int
        BY <1>2 DEF Ages
      <4>2. CASE x = n
        BY <4>2, <2>4
      <4>3. CASE x # n
        BY <1>4, <4>1, <4>3
      <4>. QED
        BY <4>2, <4>3
    <3>. QED
      BY <3>1
  <2>7. Flow(PrintedAge(m), wire[m], client, Append(inbox, e), Present')
    BY <1>1, <1>2, <2>3, <2>4, <2>6, FlowTell
  <2>8. Flow(PrintedAge(m), wire[m], client, inbox, Present')
    BY <1>1, <1>2, <2>6, FlowLater
  <2>. QED
    BY <1>3, <2>5, <2>7, <2>8
<1>. QED
  BY <1>6, <1>7 DEF MemberStep

\* A member is removed, and if it is a monitor it forgets what it printed.
LEMMA RemovedFlow ==
  ASSUME Types, Types', Alive, NewsFlow, NEW n \in Nodes, MemberRemoved(n)
  PROVE  NewsFlow'
<1> SUFFICES ASSUME NEW m \in Monitors
             PROVE  Flow(PrintedAge(m)', wire'[m], client', inbox', Present')
  BY DEF NewsFlow
<1>1. Flow(PrintedAge(m), wire[m], client, inbox, Present)
  BY DEF NewsFlow
<1>2. /\ wire[m] \in Seq(AnyEvent) /\ client \in Seq(AnyEvent)
      /\ inbox \in Seq(AnyEvent)
      /\ PrintedAge(m) \in Ages /\ Present \in Ages /\ Present' \in Ages
      /\ PrintedAge(m)' \in Ages
  BY Mailboxes, AgesType
<1>3. Tell("removed", n) /\ status[n] = "unreachable" /\ client' = client
  BY DEF MemberRemoved
<1>4. Present' = Present
  BY DEF MemberRemoved, Present, Types, TypeOK
<1>5. \A x \in Nodes : 0 <= Present[x]
  <2>1. ASSUME NEW x \in Nodes PROVE 0 <= Present[x]
    <3>1. lives[x] \in Nat /\ (status[x] = "booting" => lives[x] > 0)
      BY DEF Types, TypeOK, Alive
    <3>. QED
      BY <3>1 DEF Present
  <2>. QED
    BY <2>1
<1> DEFINE e == [kind |-> "removed", node |-> n, life |-> lives[n]]
<1>6. e \in AnyEvent /\ e.node = n /\ Age(e) = Present[n]
  <2>1. lives[n] \in Nat \ {0}
    <3>1. status[n] # "off"
      BY <1>3
    <3>2. lives[n] \in Nat
      BY DEF Types, TypeOK
    <3>3. lives[n] > 0
      BY <3>1 DEF Alive
    <3>. QED
      BY <3>2, <3>3
  <2>2. e \in AnyEvent /\ e.node = n
    BY <2>1 DEF AnyEvent, ClusterEvent, Event
  <2>3. Age(e) = 2 * lives[n] + 1
    <3>1. e.life = lives[n] /\ e.kind = "removed"
      OBVIOUS
    <3>. QED
      BY <3>1 DEF Age
  <2>4. Present[n] = 2 * lives[n] + 1
    BY <1>3 DEF Present
  <2>. QED
    BY <2>2, <2>3, <2>4
<1>7. inbox' = Append(inbox, e) \/ inbox' = inbox
  BY <1>3 DEF Tell
<1> HIDE DEF e
<1>8. \A x \in Nodes : Present[x] <= Present[x]
  BY <1>2 DEF Ages
<1>9. Present[n] <= Age(e) /\ Age(e) <= Present[n]
  BY <1>6, <1>8
<1>10. Flow(PrintedAge(m), wire[m], client, Append(inbox, e), Present)
  BY <1>1, <1>2, <1>6, <1>8, <1>9, FlowTell
<1>11. Flow(PrintedAge(m), wire[m], client', inbox', Present') /\ inbox' \in Seq(AnyEvent)
  BY <1>1, <1>2, <1>3, <1>4, <1>6, <1>7, <1>10, AppendEvent
<1>12. CASE m = n
  <2>1. wire'[m] = << >> /\ news'[m] = [x \in Nodes |-> NoNews]
    BY <1>12 DEF MemberRemoved
  <2>2. \A x \in Nodes : PrintedAge(m)'[x] = 0
    BY <2>1, NoNewsAge DEF PrintedAge
  <2>. QED
    BY <1>2, <1>3, <1>4, <1>5, <1>11, <2>1, <2>2, FlowForgotten
<1>13. CASE m # n
  <2>1. wire'[m] = wire[m] /\ news'[m] = news[m]
    BY <1>13 DEF MemberRemoved
  <2>2. PrintedAge(m)' = PrintedAge(m)
    BY <2>1 DEF PrintedAge
  <2>. QED
    BY <1>11, <2>1, <2>2
<1>. QED
  BY <1>12, <1>13

\* The core starts: nothing is on its way yet, and nothing was printed.
LEMMA StartFlow ==
  ASSUME Types, Types', Alive, QuietBeforeCore, StartCore
  PROVE  NewsFlow'
<1> SUFFICES ASSUME NEW m \in Monitors
             PROVE  Flow(PrintedAge(m)', wire'[m], client', inbox', Present')
  BY DEF NewsFlow
<1>1. /\ wire'[m] = << >> /\ client' = << >>
      /\ \A n \in Nodes : news'[m][n] = NoNews
      /\ status' = status /\ lives' = lives
  BY DEF StartCore, QuietBeforeCore
<1>2. \A n \in Nodes : PrintedAge(m)'[n] = 0
  BY <1>1, NoNewsAge DEF PrintedAge
<1>3. ASSUME NEW i \in 1 .. Len(inbox')
      PROVE  0 <= Age(inbox'[i]) /\ Age(inbox'[i]) <= Present'[inbox'[i].node]
  <2>1. inbox'[i] \in ClusterEvent
    BY FirstInbox, ElementOfSeq
  <2>2. inbox'[i].node \in Nodes /\ inbox'[i].life \in Nat
    BY <2>1 DEF ClusterEvent, Event
  <2>3. /\ inbox'[i].kind = "up" /\ status[inbox'[i].node] = "up"
        /\ inbox'[i].life = lives[inbox'[i].node]
    BY FirstInbox
  <2>. QED
    BY <1>1, <2>2, <2>3 DEF Age, Present
<1>4. Sorted(inbox')
  BY FirstInbox DEF Sorted
<1>5. ASSUME NEW n \in Nodes
      PROVE  From(inbox', n, PrintedAge(m)'[n]) /\ UpTo(inbox', n, Present'[n])
  BY <1>2, <1>3 DEF From, UpTo
<1>6. ASSUME NEW n \in Nodes PROVE PrintedAge(m)'[n] <= Present'[n]
  <2>1. lives[n] \in Nat /\ (status[n] = "booting" => lives[n] > 0)
    BY DEF Types, TypeOK, Alive
  <2>2. 0 <= Present'[n]
    BY <1>1, <2>1 DEF Present
  <2>. QED
    BY <1>2, <2>2
<1>. QED
  BY <1>1, <1>4, <1>5, <1>6, NoEvents DEF Flow

\* The core passes an event on: a seed event is as old as the cluster event.
LEMMA AnnounceFlow ==
  ASSUME Types, Types', NewsFlow, CoreStep
  PROVE  NewsFlow'
<1> SUFFICES ASSUME NEW m \in Monitors
             PROVE  Flow(PrintedAge(m)', wire'[m], client', inbox', Present')
  BY DEF NewsFlow
<1>1. Flow(PrintedAge(m), wire[m], client, inbox, Present)
  BY DEF NewsFlow
<1>2. /\ wire[m] \in Seq(AnyEvent) /\ client \in Seq(AnyEvent)
      /\ inbox \in Seq(AnyEvent)
      /\ PrintedAge(m) \in Ages /\ Present \in Ages
  BY Mailboxes, AgesType
<1>3. /\ inbox # << >> /\ inbox' = Tail(inbox)
      /\ UNCHANGED <<wire, news, status, lives>>
  BY DEF CoreStep, ReceiveUp, ReceiveLeave
<1>4. PrintedAge(m)' = PrintedAge(m) /\ Present' = Present
  BY <1>3 DEF PrintedAge, Present
<1> DEFINE h == Head(inbox)
<1>5. PICK k \in {"join", "leave"} :
        /\ client' = Append(client, [kind |-> k, node |-> h.node, life |-> h.life])
        /\ k = "join" <=> h.kind = "up"
        /\ k = "leave" <=> h.kind \in {"unreachable", "removed"}
  BY DEF CoreStep, ReceiveUp, ReceiveLeave, Announce
<1> DEFINE e == [kind |-> k, node |-> h.node, life |-> h.life]
<1>6. h \in ClusterEvent
  BY <1>3, HeadTailProperties DEF Types, TypeOK
<1>7. e \in AnyEvent /\ e.node = h.node /\ e.life = h.life /\ e.kind = k
  BY <1>6 DEF AnyEvent, ClusterEvent, SeedEvent, Event
<1>8. client' = Append(client, e)
  BY <1>5
<1> HIDE DEF e, h
<1>9. Age(e) = Age(h)
  <2>1. CASE k = "join"
    BY <1>5, <1>7, <2>1 DEF Age
  <2>2. CASE k = "leave"
    BY <1>5, <1>7, <2>2 DEF Age
  <2>. QED
    BY <2>1, <2>2
<1>10. Flow(PrintedAge(m), wire[m], Append(client, e), Tail(inbox), Present)
  BY <1>1, <1>2, <1>3, <1>7, <1>9, FlowAnnounce DEF h
<1>. QED
  BY <1>3, <1>4, <1>8, <1>10

\* The client publishes an event.
LEMMA PublishFlow ==
  ASSUME Types, Types', NewsFlow, Publish
  PROVE  NewsFlow'
<1> SUFFICES ASSUME NEW m \in Monitors
             PROVE  Flow(PrintedAge(m)', wire'[m], client', inbox', Present')
  BY DEF NewsFlow
<1>1. Flow(PrintedAge(m), wire[m], client, inbox, Present)
  BY DEF NewsFlow
<1>2. /\ wire[m] \in Seq(AnyEvent) /\ client \in Seq(AnyEvent)
      /\ inbox \in Seq(AnyEvent)
      /\ PrintedAge(m) \in Ages /\ Present \in Ages
  BY Mailboxes, AgesType
<1>3. /\ client # << >> /\ client' = Tail(client) /\ inbox' = inbox
      /\ wire'[m] = wire[m] \/ wire'[m] = Append(wire[m], Head(client))
      /\ UNCHANGED <<news, status, lives>>
  BY DEF Publish
<1>4. PrintedAge(m)' = PrintedAge(m) /\ Present' = Present
  BY <1>3 DEF PrintedAge, Present
<1>. QED
  BY <1>1, <1>2, <1>3, <1>4, FlowPublish

\* A monitor prints an event, or the network loses it. What is printed of a
\* node does not become older.
LEMMA PrintFlow ==
  ASSUME Types, Types', NewsFlow, NEW m \in Monitors, ReceiveNews(m) \/ Lose(m)
  PROVE  /\ NewsFlow'
         /\ \A x \in Monitors, n \in Nodes : Age(news[x][n]) <= Age(news'[x][n])
<1>1. ASSUME NEW x \in Monitors
      PROVE  /\ Flow(PrintedAge(x)', wire'[x], client', inbox', Present')
             /\ \A n \in Nodes : PrintedAge(x)[n] <= PrintedAge(x)'[n]
  <2>1. Flow(PrintedAge(x), wire[x], client, inbox, Present)
    BY DEF NewsFlow
  <2>2. /\ wire[x] \in Seq(AnyEvent) /\ client \in Seq(AnyEvent)
        /\ inbox \in Seq(AnyEvent)
        /\ PrintedAge(x) \in Ages /\ Present \in Ages /\ PrintedAge(x)' \in Ages
    BY Mailboxes, AgesType
  <2>3. /\ UNCHANGED <<client, inbox, status, lives>> /\ Present' = Present
        /\ wire[m] # << >> /\ wire' = [wire EXCEPT ![m] = Tail(@)]
    BY DEF ReceiveNews, Lose, coreVars, Present
  <2>4. \A n \in Nodes : PrintedAge(x)[n] <= PrintedAge(x)[n]
    BY <2>2 DEF Ages
  <2>5. wire'[x] = IF x = m THEN Tail(wire[x]) ELSE wire[x]
    BY <2>3 DEF Types, TypeOK
  <2>6. CASE x # m
    <3>1. news'[x] = news[x]
      BY <2>6 DEF ReceiveNews, Lose, Types
    <3>2. PrintedAge(x)' = PrintedAge(x)
      BY <3>1 DEF PrintedAge
    <3>. QED
      BY <2>1, <2>3, <2>4, <2>5, <2>6, <3>2
  <2>7. CASE x = m /\ Lose(m)
    <3>1. PrintedAge(x)' = PrintedAge(x)
      BY <2>7 DEF Lose, PrintedAge
    <3> DEFINE q == [PrintedAge(x) EXCEPT ![Head(wire[x]).node] = Age(Head(wire[x]))]
    <3>2. Age(Head(wire[x])) \in Int
      BY <2>2, <2>3, <2>7, TailEvent, AgeType
    <3>3. q \in Ages /\ \A n \in Nodes : q[n] =
            IF n = Head(wire[x]).node THEN Age(Head(wire[x])) ELSE PrintedAge(x)[n]
      BY <2>2, <3>2 DEF Ages
    <3> HIDE DEF q
    <3>4. Flow(PrintedAge(x), Tail(wire[x]), client, inbox, Present)
      BY <2>1, <2>2, <2>3, <2>7, <3>3, FlowNews
    <3>. QED
      BY <2>3, <2>4, <2>5, <2>7, <3>1, <3>4
  <2>8. CASE x = m /\ ReceiveNews(m)
    <3> DEFINE e == Head(wire[m])
    <3>1. e \in SeedEvent
      BY <2>3, HeadTailProperties DEF Types, TypeOK
    <3>2. e.node \in Nodes /\ e.kind \in {"join", "leave"} /\ e.life \in Nat
      BY <3>1 DEF SeedEvent, Event
    <3>3. news' = [news EXCEPT ![m][e.node] = [kind |-> e.kind, life |-> e.life]]
      BY <2>8 DEF ReceiveNews
    <3> HIDE DEF e
    <3>4. \A n \in Nodes : news'[m][n] =
            IF n = e.node THEN [kind |-> e.kind, life |-> e.life] ELSE news[m][n]
      BY <3>2, <3>3 DEF Types
    <3>5. Age([kind |-> e.kind, life |-> e.life]) = Age(e)
      BY DEF Age
    <3>6. \A n \in Nodes : PrintedAge(x)'[n] =
            IF n = Head(wire[x]).node THEN Age(Head(wire[x])) ELSE PrintedAge(x)[n]
      BY <2>8, <3>4, <3>5 DEF PrintedAge, e
    <3>7. /\ Flow(PrintedAge(x)', Tail(wire[x]), client, inbox, Present)
          /\ \A n \in Nodes : PrintedAge(x)[n] <= PrintedAge(x)'[n]
      BY <2>1, <2>2, <2>3, <2>8, <3>6, FlowNews
    <3>. QED
      BY <2>3, <2>5, <2>8, <3>7
  <2>. QED
    BY <2>6, <2>7, <2>8
<1>2. NewsFlow'
  BY <1>1 DEF NewsFlow
<1>. QED
  BY <1>1, <1>2 DEF PrintedAge

LEMMA StepFlow ==
  ASSUME Types, Types', Alive, QuietBeforeCore, NewsFlow, Next
  PROVE  NewsFlow'
<1>1. CASE \/ \E m \in Monitors : \/ StartMonitorCore(m) \/ GossipSubscription(m)
                                   \/ SerialiseAll(m)
           \/ \E a \in snapshots : ReceiveAll(a)
  <2>1. UNCHANGED <<status, lives, inbox, client, wire, news>>
    BY <1>1 DEF StartMonitorCore, GossipSubscription, SerialiseAll, ReceiveAll,
       coreVars
  <2>. QED
    BY <2>1, FlowAlone
<1>2. CASE \E n \in Nodes : MemberStep(n)
  BY <1>2, MemberFlow, RemovedFlow
<1>. QED
  BY <1>1, <1>2, StartFlow, AnnounceFlow, PublishFlow, PrintFlow DEF Next

-----------------------------------------------------------------------------
(* Theorems.                                                               *)

LEMMA ClusterInitInv == Init => ClusterInv
<1> SUFFICES ASSUME Init PROVE ClusterInv
  OBVIOUS
<1>1. Types /\ Alive
  BY InitTypes
<1>2. QuietBeforeCore
  BY DEF Init, QuietBeforeCore
<1>3. SeedInv
  BY DEF Init, SeedInv, SeedsFresh, MembersSeeded, ListsCover
<1>4. NewsFlow
  <2> SUFFICES ASSUME NEW m \in Monitors
               PROVE  Flow(PrintedAge(m), wire[m], client, inbox, Present)
    BY DEF NewsFlow
  <2>1. wire[m] = << >> /\ client = << >> /\ inbox = << >>
    BY DEF Init
  <2>2. \A n \in Nodes : PrintedAge(m)[n] = 0 /\ Present[n] = 1
    BY NoNewsAge DEF Init, PrintedAge, Present
  <2>. QED
    BY <2>1, <2>2, NoEvents DEF Flow
<1>. QED
  BY <1>1, <1>2, <1>3, <1>4 DEF ClusterInv

\* ClusterInv holds in every reachable state of the cluster.
THEOREM ClusterInvariant == Spec => []ClusterInv
<1>1. ClusterInv /\ [Next]_vars => ClusterInv'
  <2> SUFFICES ASSUME ClusterInv, [Next]_vars PROVE ClusterInv'
    OBVIOUS
  <2>1. CASE Next
    <3>1. Types' /\ Alive'
      BY <2>1, StepTypes DEF ClusterInv
    <3>2. QuietBeforeCore' /\ SeedInv'
      BY <2>1, StepQuiet, StepSeeds DEF ClusterInv
    <3>3. NewsFlow'
      BY <2>1, <3>1, StepFlow DEF ClusterInv
    <3>. QED
      BY <3>1, <3>2, <3>3 DEF ClusterInv
  <2>2. CASE UNCHANGED vars
    <3>1. Types' /\ Alive' /\ QuietBeforeCore'
      BY <2>2 DEF vars, coreVars, listVars, ClusterInv, Types, TypeOK, Alive,
         QuietBeforeCore
    <3>2. SeedInv'
      BY <2>2, SeedsAlone DEF vars, coreVars, listVars, ClusterInv, Member
    <3>3. NewsFlow'
      BY <2>2, FlowAlone DEF vars, coreVars, ClusterInv
    <3>. QED
      BY <3>1, <3>2, <3>3 DEF ClusterInv
  <2>. QED
    BY <2>1, <2>2
<1>. QED
  BY <1>1, ClusterInitInv, PTL DEF Spec

\* The types hold for any finite set of nodes.
THEOREM ClusterTypeCorrect == Spec => []TypeOK
<1>1. ClusterInv => TypeOK
  BY DEF ClusterInv, Types
<1>. QED
  BY <1>1, ClusterInvariant, PTL

\* A core that has seen all events has a seed of every member, for
\* seeds.remove never finds what it is to remove; and the list for a monitor
\* holds that monitor.
THEOREM SeedsCoverMembersHolds == Spec => []SeedsCoverMembers
<1>1. ClusterInv => SeedsCoverMembers
  <2> SUFFICES ASSUME ClusterInv PROVE SeedsCoverMembers
    OBVIOUS
  <2>1. ASSUME core, inbox = <<>>, NEW n \in Nodes, status[n] = "up"
        PROVE  \E s \in seeds : s[1] = n
    <3>1. ~UpIn(inbox, n)
      BY <2>1 DEF UpIn
    <3>. QED
      BY <2>1, <3>1 DEF ClusterInv, SeedInv, MembersSeeded, Member, Seeded
  <2>2. ASSUME NEW a \in snapshots PROVE a.to \in a.nodes
    <3>1. PICK own \in seeds : own[1] = a.to
            /\ \A s \in seeds : s[2] <= own[2] => s[1] \in a.nodes
      BY DEF ClusterInv, SeedInv, ListsCover, Covers
    <3>2. own[2] \in Nat
      BY DEF ClusterInv, Types, TypeOK
    <3>. QED
      BY <3>1, <3>2
  <2>. QED
    BY <2>1, <2>2 DEF SeedsCoverMembers
<1>. QED
  BY <1>1, ClusterInvariant, PTL

\* A monitor that is up, whose list is not outstanding and that missed none,
\* was listed itself and all nodes that the core saw join before it.
THEOREM MonitorKnowsEldersHolds == Spec => []MonitorKnowsElders
<1>1. ClusterInv => MonitorKnowsElders
  <2> SUFFICES ASSUME ClusterInv, NEW m \in Monitors, core, status[m] = "up",
                      ~ListOutstanding(m), m \notin unlisted
               PROVE  \E own \in seeds :
                        /\ own[1] = m
                        /\ \A s \in seeds : s[2] <= own[2] => s[1] \in listed[m]
    BY DEF MonitorKnowsElders
  <2>1. DOMAIN inbox = 1 .. Len(inbox)
    BY LenProperties DEF ClusterInv, Types, TypeOK
  <2>2. ~Outstanding(m)
    BY <2>1 DEF ListOutstanding, Outstanding, UpIn
  <2>3. Informed(m)
    BY DEF ClusterInv, SeedInv, ListsCover, Member
  <2>. QED
    BY <2>2, <2>3 DEF Informed, Covers
<1>. QED
  BY <1>1, ClusterInvariant, PTL

\* Age and Rank agree on what a monitor prints.
LEMMA AgeIsRank ==
  ASSUME NEW v \in News
  PROVE  Rank(v) = Age(v) /\ Age(v) \in Nat
<1>1. CASE v = NoNews
  BY <1>1 DEF NoNews, Rank, Age
<1>2. CASE v \in [kind : {"join", "leave"}, life : Nat \ {0}]
  BY <1>2 DEF Rank, Age
<1>. QED
  BY <1>1, <1>2 DEF News

\* What a monitor prints of a node never goes back in time, whatever the
\* network loses, and however often nodes and monitors come and go.
THEOREM NewsInOrderHolds == Spec => NewsInOrder
<1>1. ClusterInv /\ ClusterInv' /\ [Next]_vars =>
        [\A m \in Monitors, n \in Nodes :
           m \in centre' => Rank(news'[m][n]) >= Rank(news[m][n])]_vars
  <2> SUFFICES ASSUME ClusterInv, ClusterInv', Next,
                      NEW m \in Monitors, NEW n \in Nodes, m \in centre'
               PROVE  Rank(news'[m][n]) >= Rank(news[m][n])
    OBVIOUS
  <2>1. /\ Rank(news[m][n]) = Age(news[m][n]) /\ Age(news[m][n]) \in Nat
        /\ Rank(news'[m][n]) = Age(news'[m][n]) /\ Age(news'[m][n]) \in Nat
    <3>1. news[m][n] \in News /\ news'[m][n] \in News
      BY DEF ClusterInv, Types
    <3>. QED
      BY <3>1, AgeIsRank
  <2>2. CASE \E x \in Monitors : ReceiveNews(x)
    <3>1. Age(news[m][n]) <= Age(news'[m][n])
      BY <2>2, PrintFlow DEF ClusterInv
    <3>. QED
      BY <2>1, <3>1
  <2>3. CASE ~\E x \in Monitors : ReceiveNews(x)
    <3>1. news'[m] = news[m]
      BY <2>3 DEF Next, CoreStep, MemberStep, Boot, MemberUp, Unreachable,
         Reachable, MemberRemoved, StartCore, StartMonitorCore,
         GossipSubscription, SerialiseAll, Lose, ReceiveAll, ReceiveUp,
         ReceiveLeave, Publish
    <3>. QED
      BY <2>1, <3>1
  <2>. QED
    BY <2>2, <2>3
<1>. QED
  BY <1>1, ClusterInvariant, PTL DEF Spec, NewsInOrder
=============================================================================
