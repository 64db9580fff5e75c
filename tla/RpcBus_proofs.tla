--------------------------- MODULE RpcBus_proofs ---------------------------
(***************************************************************************)
(* Proofs about ProviderPool, for every set of providers, every pool size, *)
(* every set of methods and of calls; and about RpcBus, which extends it:  *)
(* the invariant of the pools lifted to the bus, what a caller may rely    *)
(* on, and that a call gets one chance, for every set of paths that        *)
(* resolve, a network that loses messages and nodes that crash.            *)
(***************************************************************************)
EXTENDS RpcBus, FiniteSetTheorems, SequenceTheorems, TLAPS

-----------------------------------------------------------------------------
(* The pools: the specification PoolSpec.                                  *)

\* 1 if a failure of r itself waits at the router; 1 if router p has
\* escalated and waits for its restart.
Waiting(r) == IF r \in failures[r[1]] THEN 1 ELSE 0
Escalated(p) == IF router[p] = "suspended" THEN 1 ELSE 0

\* The books of the supervision. A suspension of a routee, applied or on its
\* way, is matched by a restart on its way, by a failure of its own that the
\* router has not seen, or by the router's being suspended; and a routee
\* that executes a call has no failure on the way. Without this, a restart
\* could find a routee that is not suspended.
Balanced == \A r \in Routees :
  /\ suspended[r] + suspends[r] =
       recreates[r] + Waiting(r) + Escalated(r[1])
  /\ running[r] # NoCall => r \notin failures[r[1]]

\* Every failed call of a pool has restarted a routee, or its restart is on
\* its way, or waits at the router.
RestartsDue == \A r \in Routees :
  restarts[r] + recreates[r] + Escalated(r[1])
    + Cardinality(failures[r[1]]) = failed[r[1]]

FailuresFinite == \A p \in Providers : IsFiniteSet(failures[p])

\* The inductive invariant of the supervision.
PoolInv == PoolTypeOK /\ FailuresFinite /\ Balanced /\ RestartsDue

-----------------------------------------------------------------------------
(* Facts about the state space.                                            *)

\* A message of type CallMethod carries a call and a method.
LEMMA CallFields ==
  ASSUME NEW x \in Message, x.type = "CallMethod"
  PROVE  x.call \in Calls /\ x.method \in Methods
BY DEF Message, CallCount

\* The next round robin position is a slot, for the pool is not empty.
LEMMA NextSlot ==
  ASSUME NEW s \in Slots
  PROVE  (s + 1) % PoolSize \in Slots
BY PoolAssumption DEF Slots

\* A routee is the pair of its provider and a slot.
LEMMA RouteeShape ==
  ASSUME NEW r \in Routees
  PROVE  r[1] \in Providers /\ r \in RouteesOf(r[1])
BY DEF Routees, RouteesOf

\* A routee of the pool of p is a routee, and its provider is p.
LEMMA RouteesOfIn ==
  ASSUME NEW p \in Providers, NEW r \in RouteesOf(p)
  PROVE  r \in Routees /\ r[1] = p
BY DEF Routees, RouteesOf

\* The routees of other pools are not among those of p.
LEMMA OtherPool ==
  ASSUME NEW p \in Providers, NEW r \in Routees, r[1] # p
  PROVE  r \notin RouteesOf(p)
BY DEF Routees, RouteesOf

\* Counting one call of a routee keeps a table of counts one.
LEMMA BumpType ==
  ASSUME NEW f \in [Routees -> [Methods -> Nat]], NEW r \in Routees,
         NEW m \in Methods
  PROVE  [f EXCEPT ![r][m] = @ + 1] \in [Routees -> [Methods -> Nat]]
<1>1. [f[r] EXCEPT ![m] = @ + 1] \in [Methods -> Nat]
  OBVIOUS
<1>. QED
  BY <1>1

-----------------------------------------------------------------------------
(* The type invariant and the books of the supervision.                    *)

\* A pool that RpcServerActor has just created satisfies the invariant.
LEMMA PoolInitInv == PoolInit => PoolInv
<1> SUFFICES ASSUME PoolInit PROVE PoolInv
  OBVIOUS
<1>1. PoolTypeOK
  <2>1. 0 \in Slots
    BY PoolAssumption DEF Slots
  <2>2. \A r \in Routees : mailbox[r] \in Seq(Message)
    BY EmptySeq DEF PoolInit
  <2>. QED
    BY <2>1, <2>2 DEF PoolInit, PoolTypeOK, Zero
<1>2. FailuresFinite
  BY FS_EmptySet DEF PoolInit, FailuresFinite
<1>3. Balanced
  BY RouteeShape DEF PoolInit, Balanced, Waiting, Escalated
<1>4. RestartsDue
  BY RouteeShape, FS_EmptySet DEF PoolInit, RestartsDue, Escalated
<1>. QED
  BY <1>1, <1>2, <1>3, <1>4 DEF PoolInv

\* Steps that leave the supervision alone keep its books.
LEMMA BooksKept ==
  ASSUME FailuresFinite, Balanced, RestartsDue,
         UNCHANGED <<router, failures, suspends, recreates, suspended,
                     restarts, failed>>,
         \A r \in Routees : running'[r] # NoCall => r \notin failures[r[1]]
  PROVE  FailuresFinite' /\ Balanced' /\ RestartsDue'
<1>1. FailuresFinite'
  BY DEF FailuresFinite
<1>2. Balanced'
  BY DEF Balanced, Waiting, Escalated
<1>3. RestartsDue'
  BY DEF RestartsDue, Escalated
<1>. QED
  BY <1>1, <1>2, <1>3

\* Routing a call moves the round robin position and nothing else of the
\* supervision.
LEMMA RouteInv ==
  ASSUME PoolInv, NEW p \in Providers, NEW c \in Calls, NEW m \in Methods,
         Route(p, c, m)
  PROVE  PoolInv'
<1>1. <<p, next[p]>> \in Routees /\ CallMethod(c, m) \in Message
  BY DEF PoolInv, PoolTypeOK, Routees, Message, CallMethod
<1>2. Append(mailbox[<<p, next[p]>>], CallMethod(c, m)) \in Seq(Message)
  BY <1>1, AppendProperties DEF PoolInv, PoolTypeOK
<1>3. (next[p] + 1) % PoolSize \in Slots
  BY NextSlot DEF PoolInv, PoolTypeOK
<1>4. PoolTypeOK'
  BY <1>1, <1>2, <1>3 DEF PoolInv, PoolTypeOK, Route
<1>5. FailuresFinite' /\ Balanced' /\ RestartsDue'
  BY BooksKept DEF PoolInv, Balanced, Route
<1>. QED
  BY <1>4, <1>5 DEF PoolInv

\* A timer that fires adds a message to a mailbox.
LEMMA TickInv ==
  ASSUME PoolInv, NEW r \in Routees, Tick(r)
  PROVE  PoolInv'
<1>1. Append(mailbox[r], CallCount) \in Seq(Message)
  BY AppendProperties DEF PoolInv, PoolTypeOK, Message
<1>2. PoolTypeOK'
  BY <1>1 DEF PoolInv, PoolTypeOK, Tick
<1>3. FailuresFinite' /\ Balanced' /\ RestartsDue'
  BY BooksKept DEF PoolInv, Balanced, Tick
<1>. QED
  BY <1>2, <1>3 DEF PoolInv

\* A routee that is ready has no failure on its way: its books are empty.
LEMMA BeginCallInv ==
  ASSUME PoolInv, NEW r \in Routees, BeginCall(r)
  PROVE  PoolInv'
<1> DEFINE x == Head(mailbox[r])
<1>1. x \in Message /\ Tail(mailbox[r]) \in Seq(Message)
  BY HeadTailProperties DEF PoolInv, PoolTypeOK, BeginCall, Ready
<1>2. x.call \in Calls /\ x.method \in Methods
  BY <1>1, CallFields DEF BeginCall
<1>3. PoolTypeOK'
  <2>1. counter' \in [Routees -> [Methods -> Nat]]
    BY <1>2, BumpType DEF PoolInv, PoolTypeOK, BeginCall
  <2>2. handled' \in [Routees -> [Methods -> Nat]]
    BY <1>2, BumpType DEF PoolInv, PoolTypeOK, BeginCall
  <2>3. running' \in [Routees -> Calls \cup {NoCall}]
    BY <1>2 DEF PoolInv, PoolTypeOK, BeginCall
  <2>4. mailbox' \in [Routees -> Seq(Message)]
    BY <1>1 DEF PoolInv, PoolTypeOK, BeginCall
  <2>5. UNCHANGED <<arrived, next, router, failures, suspends, recreates,
                    suspended, timers, replied, executed, reported, restarts,
                    failed>>
    BY DEF BeginCall
  <2>. QED
    BY <2>1, <2>2, <2>3, <2>4, <2>5 DEF PoolInv, PoolTypeOK
<1>4. r \notin failures[r[1]]
  <2>1. 0 + 0 = 0 + Waiting(r) + Escalated(r[1])
    BY DEF PoolInv, Balanced, BeginCall, Ready
  <2>. QED
    BY <2>1 DEF Waiting, Escalated
<1>5. ASSUME NEW q \in Routees, running'[q] # NoCall
      PROVE  q \notin failures[q[1]]
  <2>1. CASE q = r
    BY <1>4, <2>1
  <2>2. CASE q # r
    <3>1. running'[q] = running[q]
      BY <2>2 DEF PoolInv, PoolTypeOK, BeginCall
    <3>. QED
      BY <1>5, <3>1 DEF PoolInv, Balanced
  <2>. QED
    BY <2>1, <2>2
<1>6. FailuresFinite' /\ Balanced' /\ RestartsDue'
  <2>1. UNCHANGED <<router, failures, suspends, recreates, suspended, restarts,
                    failed>>
    BY DEF BeginCall
  <2>. QED
    BY <1>5, <2>1, BooksKept DEF PoolInv
<1>. QED
  BY <1>3, <1>6 DEF PoolInv

\* A routee that answers is idle again, its books are as they were.
LEMMA AnswerCallInv ==
  ASSUME PoolInv, NEW r \in Routees, AnswerCall(r)
  PROVE  PoolInv'
<1>1. running[r] \in Calls
  BY DEF PoolInv, PoolTypeOK, AnswerCall
<1>2. PoolTypeOK'
  <2>1. executed' \in [Calls -> Nat] /\ replied' \in [Calls -> Nat]
    BY <1>1 DEF PoolInv, PoolTypeOK, AnswerCall
  <2>2. running' \in [Routees -> Calls \cup {NoCall}]
    BY DEF PoolInv, PoolTypeOK, AnswerCall
  <2>. QED
    BY <2>1, <2>2 DEF PoolInv, PoolTypeOK, AnswerCall
<1>3. \A q \in Routees : running'[q] # NoCall => q \notin failures[q[1]]
  BY DEF PoolInv, PoolTypeOK, Balanced, AnswerCall
<1>4. FailuresFinite' /\ Balanced' /\ RestartsDue'
  BY <1>3, BooksKept DEF PoolInv, AnswerCall
<1>. QED
  BY <1>2, <1>4 DEF PoolInv

\* A report empties the counter and leaves the supervision alone.
LEMMA ReportCountsInv ==
  ASSUME PoolInv, NEW r \in Routees, ReportCounts(r)
  PROVE  PoolInv'
<1>1. Tail(mailbox[r]) \in Seq(Message)
  BY HeadTailProperties DEF PoolInv, PoolTypeOK, ReportCounts, Ready
<1>2. PoolTypeOK'
  <2>1. [m \in Methods |-> reported[r][m] + counter[r][m]] \in [Methods -> Nat]
    BY DEF PoolInv, PoolTypeOK
  <2>2. reported' \in [Routees -> [Methods -> Nat]]
    BY <2>1 DEF PoolInv, PoolTypeOK, ReportCounts
  <2>3. counter' \in [Routees -> [Methods -> Nat]]
    BY DEF PoolInv, PoolTypeOK, ReportCounts, Zero
  <2>4. mailbox' \in [Routees -> Seq(Message)]
    BY <1>1 DEF PoolInv, PoolTypeOK, ReportCounts
  <2>. QED
    BY <2>2, <2>3, <2>4 DEF PoolInv, PoolTypeOK, ReportCounts
<1>3. FailuresFinite' /\ Balanced' /\ RestartsDue'
  BY BooksKept DEF PoolInv, Balanced, ReportCounts
<1>. QED
  BY <1>2, <1>3 DEF PoolInv

\* The routee was executing, so that its failure is a new one: the failures
\* that wait at the router grow by one, as the failed calls do.
LEMMA FailCallInv ==
  ASSUME PoolInv, NEW r \in Routees, NEW kind \in Failing, FailCall(r, kind)
  PROVE  PoolInv'
<1>1. running[r] \in Calls /\ r[1] \in Providers /\ r \notin failures[r[1]]
  BY RouteeShape DEF PoolInv, PoolTypeOK, Balanced, FailCall
<1>2. PoolTypeOK'
  <2>1. failures' \in [Providers -> SUBSET Routees]
    BY <1>1 DEF PoolInv, PoolTypeOK, FailCall
  <2>2. executed' \in [Calls -> Nat]
    BY <1>1 DEF PoolInv, PoolTypeOK, FailCall
  <2>3. failed' \in [Providers -> Nat] /\ suspended' \in [Routees -> Nat]
    BY <1>1 DEF PoolInv, PoolTypeOK, FailCall
  <2>. QED
    BY <2>1, <2>2, <2>3 DEF PoolInv, PoolTypeOK, FailCall
<1>3. \A p \in Providers : failures'[p] =
        IF p = r[1] THEN failures[p] \cup {r} ELSE failures[p]
  BY DEF PoolInv, PoolTypeOK, FailCall
<1>4. /\ FailuresFinite'
      /\ Cardinality(failures'[r[1]]) = Cardinality(failures[r[1]]) + 1
  <2>1. /\ IsFiniteSet(failures[r[1]] \cup {r})
        /\ Cardinality(failures[r[1]] \cup {r}) = Cardinality(failures[r[1]]) + 1
    <3>1. IsFiniteSet(failures[r[1]])
      BY <1>1 DEF PoolInv, FailuresFinite
    <3>. QED
      BY <1>1, <3>1, FS_AddElement
  <2>2. failures'[r[1]] = failures[r[1]] \cup {r}
    BY <1>1, <1>3
  <2>3. \A p \in Providers : IsFiniteSet(failures'[p])
    BY <1>3, <2>1, <2>2 DEF PoolInv, FailuresFinite
  <2>. QED
    BY <2>1, <2>2, <2>3 DEF FailuresFinite
<1>5. Balanced'
  <2> SUFFICES ASSUME NEW q \in Routees
               PROVE  /\ suspended'[q] + suspends'[q] =
                           recreates'[q] + Waiting(q)' + Escalated(q[1])'
                      /\ running'[q] # NoCall => q \notin failures'[q[1]]
    BY DEF Balanced
  <2>1. Escalated(q[1])' = Escalated(q[1]) /\ Escalated(q[1]) \in Nat
    BY DEF FailCall, Escalated
  <2>2. CASE q = r
    <3>1. Waiting(q) = 0 /\ Waiting(q)' = 1
      BY <1>1, <1>3, <2>2 DEF Waiting
    <3>2. /\ suspended'[q] = suspended[q] + 1 /\ running'[q] = NoCall
          /\ suspends' = suspends /\ recreates' = recreates
      BY <2>2 DEF PoolInv, PoolTypeOK, FailCall
    <3>3. /\ suspended[q] \in Nat /\ suspends[q] \in Nat /\ recreates[q] \in Nat
          /\ suspended[q] + suspends[q] =
               recreates[q] + Waiting(q) + Escalated(q[1])
      BY DEF PoolInv, PoolTypeOK, Balanced
    <3>. QED
      BY <2>1, <3>1, <3>2, <3>3
  <2>3. CASE q # r
    <3>1. q \in failures'[q[1]] <=> q \in failures[q[1]]
      BY <1>3, <2>3, RouteeShape
    <3>2. Waiting(q)' = Waiting(q)
      BY <3>1 DEF Waiting
    <3>. QED
      BY <2>1, <2>3, <3>1, <3>2 DEF PoolInv, PoolTypeOK, Balanced, FailCall
  <2>. QED
    BY <2>2, <2>3
<1>6. RestartsDue'
  <2> SUFFICES ASSUME NEW q \in Routees
               PROVE  restarts'[q] + recreates'[q] + Escalated(q[1])'
                        + Cardinality(failures'[q[1]]) = failed'[q[1]]
    BY DEF RestartsDue
  <2>1. Escalated(q[1])' = Escalated(q[1]) /\ Escalated(q[1]) \in Nat
    BY DEF FailCall, Escalated
  <2>2. q[1] \in Providers /\ Cardinality(failures[q[1]]) \in Nat
    BY RouteeShape, FS_CardinalityType DEF PoolInv, FailuresFinite
  <2>3. restarts[q] + recreates[q] + Escalated(q[1])
          + Cardinality(failures[q[1]]) = failed[q[1]]
    BY DEF PoolInv, RestartsDue
  <2>4. /\ restarts'[q] = restarts[q] /\ restarts[q] \in Nat
        /\ recreates'[q] = recreates[q] /\ recreates[q] \in Nat
        /\ failed[q[1]] \in Nat
        /\ failed'[q[1]] = IF q[1] = r[1] THEN failed[q[1]] + 1 ELSE failed[q[1]]
    BY <2>2 DEF PoolInv, PoolTypeOK, FailCall
  <2>5. Cardinality(failures'[q[1]]) =
          IF q[1] = r[1] THEN Cardinality(failures[q[1]]) + 1
          ELSE Cardinality(failures[q[1]])
    BY <1>3, <1>4, <2>2
  <2>. QED
    BY <2>1, <2>2, <2>3, <2>4, <2>5
<1>. QED
  BY <1>2, <1>4, <1>5, <1>6 DEF PoolInv

\* The failure of r moves from the queue into the state of the router; every
\* other routee of the pool gets one Suspend for the restart to come.
LEMMA EscalateInv ==
  ASSUME PoolInv, NEW p \in Providers, NEW r \in RouteesOf(p), Escalate(p, r)
  PROVE  PoolInv'
<1>1. r \in Routees /\ r[1] = p
  BY RouteesOfIn
<1>2. PoolTypeOK'
  <2>1. router' \in [Providers -> {"running", "suspended"}]
    BY DEF PoolInv, PoolTypeOK, Escalate
  <2>2. failures' \in [Providers -> SUBSET Routees]
    BY DEF PoolInv, PoolTypeOK, Escalate
  <2>3. suspends' \in [Routees -> Nat]
    BY DEF PoolInv, PoolTypeOK, Escalate
  <2>. QED
    BY <2>1, <2>2, <2>3 DEF PoolInv, PoolTypeOK, Escalate
<1>3. \A o \in Providers : failures'[o] =
        IF o = p THEN failures[o] \ {r} ELSE failures[o]
  BY DEF PoolInv, PoolTypeOK, Escalate
<1>4. /\ FailuresFinite'
      /\ Cardinality(failures'[p]) = Cardinality(failures[p]) - 1
  <2>1. /\ IsFiniteSet(failures[p] \ {r})
        /\ Cardinality(failures[p] \ {r}) = Cardinality(failures[p]) - 1
    <3>1. IsFiniteSet(failures[p]) /\ r \in failures[p]
      BY DEF PoolInv, FailuresFinite, Escalate
    <3>. QED
      BY <3>1, FS_RemoveElement
  <2>2. failures'[p] = failures[p] \ {r}
    BY <1>3
  <2>3. \A o \in Providers : IsFiniteSet(failures'[o])
    BY <1>3, <2>1, <2>2 DEF PoolInv, FailuresFinite
  <2>. QED
    BY <2>1, <2>2, <2>3 DEF FailuresFinite
<1>5. /\ Escalated(p) = 0 /\ Escalated(p)' = 1
      /\ \A o \in Providers \ {p} : Escalated(o)' = Escalated(o)
  BY DEF PoolInv, PoolTypeOK, Escalate, Escalated
<1>6. Balanced'
  <2> SUFFICES ASSUME NEW q \in Routees
               PROVE  /\ suspended'[q] + suspends'[q] =
                           recreates'[q] + Waiting(q)' + Escalated(q[1])'
                      /\ running'[q] # NoCall => q \notin failures'[q[1]]
    BY DEF Balanced
  <2>1. /\ suspended[q] \in Nat /\ suspends[q] \in Nat /\ recreates[q] \in Nat
        /\ suspended'[q] = suspended[q] /\ recreates'[q] = recreates[q]
        /\ running'[q] = running[q]
        /\ suspends'[q] = IF q \in RouteesOf(p) \ {r} THEN suspends[q] + 1
                          ELSE suspends[q]
    BY DEF PoolInv, PoolTypeOK, Escalate
  <2>2. /\ suspended[q] + suspends[q] =
             recreates[q] + Waiting(q) + Escalated(q[1])
        /\ running[q] # NoCall => q \notin failures[q[1]]
    BY DEF PoolInv, Balanced
  <2>3. q[1] \in Providers /\ q \in RouteesOf(q[1])
    BY RouteeShape
  <2>4. CASE q = r
    <3>1. Waiting(q) = 1 /\ Waiting(q)' = 0
      BY <1>1, <1>3, <2>4 DEF Waiting, Escalate
    <3>. QED
      BY <1>1, <1>3, <1>5, <2>1, <2>2, <2>4, <3>1
  <2>5. CASE q # r /\ q[1] = p
    <3>1. q \in failures'[q[1]] <=> q \in failures[q[1]]
      BY <1>3, <2>5
    <3>2. Waiting(q)' = Waiting(q) /\ Waiting(q) \in Nat
      BY <3>1 DEF Waiting
    <3>. QED
      BY <1>5, <2>1, <2>2, <2>3, <2>5, <3>1, <3>2
  <2>6. CASE q[1] # p
    <3>1. failures'[q[1]] = failures[q[1]] /\ q \notin RouteesOf(p)
      BY <1>3, <2>3, <2>6, OtherPool
    <3>2. Waiting(q)' = Waiting(q)
      BY <3>1 DEF Waiting
    <3>. QED
      BY <1>5, <2>1, <2>2, <2>3, <2>6, <3>1, <3>2
  <2>. QED
    BY <2>4, <2>5, <2>6
<1>7. RestartsDue'
  <2> SUFFICES ASSUME NEW q \in Routees
               PROVE  restarts'[q] + recreates'[q] + Escalated(q[1])'
                        + Cardinality(failures'[q[1]]) = failed'[q[1]]
    BY DEF RestartsDue
  <2>1. q[1] \in Providers /\ Cardinality(failures[q[1]]) \in Nat
    BY RouteeShape, FS_CardinalityType DEF PoolInv, FailuresFinite
  <2>2. restarts[q] + recreates[q] + Escalated(q[1])
          + Cardinality(failures[q[1]]) = failed[q[1]]
    BY DEF PoolInv, RestartsDue
  <2>3. /\ restarts'[q] = restarts[q] /\ restarts[q] \in Nat
        /\ recreates'[q] = recreates[q] /\ recreates[q] \in Nat
        /\ failed'[q[1]] = failed[q[1]]
    BY DEF PoolInv, PoolTypeOK, Escalate
  <2>4. CASE q[1] = p
    BY <1>4, <1>5, <2>1, <2>2, <2>3, <2>4
  <2>5. CASE q[1] # p
    BY <1>3, <1>5, <2>1, <2>2, <2>3, <2>5
  <2>. QED
    BY <2>4, <2>5
<1>. QED
  BY <1>2, <1>4, <1>6, <1>7 DEF PoolInv

\* The escalated failure becomes one Recreate for every routee of the pool.
LEMMA RestartRouterInv ==
  ASSUME PoolInv, NEW p \in Providers, RestartRouter(p)
  PROVE  PoolInv'
<1>1. PoolTypeOK'
  <2>1. router' \in [Providers -> {"running", "suspended"}]
    BY DEF PoolInv, PoolTypeOK, RestartRouter
  <2>2. recreates' \in [Routees -> Nat]
    BY DEF PoolInv, PoolTypeOK, RestartRouter
  <2>. QED
    BY <2>1, <2>2 DEF PoolInv, PoolTypeOK, RestartRouter
<1>2. FailuresFinite'
  BY DEF PoolInv, FailuresFinite, RestartRouter
<1>3. /\ Escalated(p) = 1 /\ Escalated(p)' = 0
      /\ \A o \in Providers \ {p} : Escalated(o)' = Escalated(o)
  BY DEF PoolInv, PoolTypeOK, RestartRouter, Escalated
<1>4. \A q \in Routees :
        /\ recreates[q] \in Nat
        /\ recreates'[q] + Escalated(q[1])' = recreates[q] + Escalated(q[1])
        /\ recreates'[q] \in Nat
        /\ Escalated(q[1]) \in Nat /\ Escalated(q[1])' \in Nat
  <2> SUFFICES ASSUME NEW q \in Routees
               PROVE  /\ recreates[q] \in Nat
                      /\ recreates'[q] + Escalated(q[1])' =
                           recreates[q] + Escalated(q[1])
                      /\ recreates'[q] \in Nat
                      /\ Escalated(q[1]) \in Nat /\ Escalated(q[1])' \in Nat
    OBVIOUS
  <2>1. recreates'[q] = IF q \in RouteesOf(p) THEN recreates[q] + 1
                        ELSE recreates[q]
    BY DEF RestartRouter
  <2>2. q \in RouteesOf(p) <=> q[1] = p
    BY RouteeShape, OtherPool
  <2>3. recreates[q] \in Nat /\ recreates'[q] \in Nat
    BY <1>1 DEF PoolInv, PoolTypeOK
  <2>4. Escalated(q[1]) \in Nat /\ Escalated(q[1])' \in Nat
    BY DEF Escalated
  <2>. QED
    BY <1>3, <2>1, <2>2, <2>3, <2>4, RouteeShape
<1>5. Balanced'
  <2> SUFFICES ASSUME NEW q \in Routees
               PROVE  /\ suspended'[q] + suspends'[q] =
                           recreates'[q] + Waiting(q)' + Escalated(q[1])'
                      /\ running'[q] # NoCall => q \notin failures'[q[1]]
    BY DEF Balanced
  <2>1. /\ suspended[q] + suspends[q] =
             recreates[q] + Waiting(q) + Escalated(q[1])
        /\ running[q] # NoCall => q \notin failures[q[1]]
    BY DEF PoolInv, Balanced
  <2>2. Waiting(q)' = Waiting(q) /\ Waiting(q) \in Nat
    BY DEF Waiting, RestartRouter
  <2>3. /\ suspended'[q] = suspended[q] /\ suspends'[q] = suspends[q]
        /\ running'[q] = running[q] /\ failures' = failures
    BY DEF RestartRouter
  <2>4. recreates'[q] + Waiting(q)' + Escalated(q[1])' =
          recreates[q] + Waiting(q) + Escalated(q[1])
    BY <1>4, <2>2
  <2>. QED
    BY <2>1, <2>3, <2>4
<1>6. RestartsDue'
  <2> SUFFICES ASSUME NEW q \in Routees
               PROVE  restarts'[q] + recreates'[q] + Escalated(q[1])'
                        + Cardinality(failures'[q[1]]) = failed'[q[1]]
    BY DEF RestartsDue
  <2>1. Cardinality(failures[q[1]]) \in Nat
    BY RouteeShape, FS_CardinalityType DEF PoolInv, FailuresFinite
  <2>2. restarts[q] + recreates[q] + Escalated(q[1])
          + Cardinality(failures[q[1]]) = failed[q[1]]
    BY DEF PoolInv, RestartsDue
  <2>3. restarts[q] \in Nat /\ restarts' = restarts /\ failed' = failed
        /\ failures' = failures
    BY DEF PoolInv, PoolTypeOK, RestartRouter
  <2>. QED
    BY <1>4, <2>1, <2>2, <2>3
<1>. QED
  BY <1>1, <1>2, <1>5, <1>6 DEF PoolInv

\* A Suspend that is processed becomes a suspension.
LEMMA SuspendRouteeInv ==
  ASSUME PoolInv, NEW r \in Routees, SuspendRoutee(r)
  PROVE  PoolInv'
<1>1. PoolTypeOK'
  <2>1. suspends' \in [Routees -> Nat] /\ suspended' \in [Routees -> Nat]
    BY DEF PoolInv, PoolTypeOK, SuspendRoutee
  <2>. QED
    BY <2>1 DEF PoolInv, PoolTypeOK, SuspendRoutee
<1>2. FailuresFinite' /\ RestartsDue'
  BY DEF PoolInv, FailuresFinite, RestartsDue, Escalated, SuspendRoutee
<1>3. Balanced'
  <2> SUFFICES ASSUME NEW q \in Routees
               PROVE  /\ suspended'[q] + suspends'[q] =
                           recreates'[q] + Waiting(q)' + Escalated(q[1])'
                      /\ running'[q] # NoCall => q \notin failures'[q[1]]
    BY DEF Balanced
  <2>1. Waiting(q)' = Waiting(q) /\ Escalated(q[1])' = Escalated(q[1])
    BY DEF Waiting, Escalated, SuspendRoutee
  <2>2. suspended'[q] + suspends'[q] = suspended[q] + suspends[q]
    BY DEF PoolInv, PoolTypeOK, SuspendRoutee
  <2>. QED
    BY <2>1, <2>2 DEF PoolInv, Balanced, SuspendRoutee
<1>. QED
  BY <1>1, <1>2, <1>3 DEF PoolInv

\* By the books, a routee that restarts is suspended: the resumption is not
\* one too many.
LEMMA RestartRouteeInv ==
  ASSUME PoolInv, NEW r \in Routees, RestartRoutee(r)
  PROVE  PoolInv'
<1>1. suspended[r] \in Nat /\ suspended[r] > 0
  <2>1. suspended[r] + 0 = recreates[r] + Waiting(r) + Escalated(r[1])
    BY DEF PoolInv, Balanced, RestartRoutee
  <2>2. Waiting(r) \in Nat /\ Escalated(r[1]) \in Nat
    BY DEF Waiting, Escalated
  <2>. QED
    BY <2>1, <2>2 DEF PoolInv, PoolTypeOK, RestartRoutee
<1>2. PoolTypeOK'
  <2>1. suspended' \in [Routees -> Nat] /\ recreates' \in [Routees -> Nat]
    BY <1>1 DEF PoolInv, PoolTypeOK, RestartRoutee
  <2>2. timers' \in [Routees -> Nat] /\ restarts' \in [Routees -> Nat]
    BY DEF PoolInv, PoolTypeOK, RestartRoutee
  <2>3. counter' \in [Routees -> [Methods -> Nat]]
    BY DEF PoolInv, PoolTypeOK, RestartRoutee, Zero
  <2>. QED
    BY <2>1, <2>2, <2>3 DEF PoolInv, PoolTypeOK, RestartRoutee
<1>3. FailuresFinite'
  BY DEF PoolInv, FailuresFinite, RestartRoutee
<1>4. \A q \in Routees :
        Waiting(q)' = Waiting(q) /\ Escalated(q[1])' = Escalated(q[1])
        /\ Waiting(q) \in Nat /\ Escalated(q[1]) \in Nat
  BY DEF Waiting, Escalated, RestartRoutee
<1>5. Balanced'
  <2> SUFFICES ASSUME NEW q \in Routees
               PROVE  /\ suspended'[q] + suspends'[q] =
                           recreates'[q] + Waiting(q)' + Escalated(q[1])'
                      /\ running'[q] # NoCall => q \notin failures'[q[1]]
    BY DEF Balanced
  <2>1. /\ suspended[q] + suspends[q] =
             recreates[q] + Waiting(q) + Escalated(q[1])
        /\ running[q] # NoCall => q \notin failures[q[1]]
    BY DEF PoolInv, Balanced
  <2>2. /\ suspended[q] \in Nat /\ suspends[q] \in Nat /\ recreates[q] \in Nat
        /\ suspends'[q] = suspends[q] /\ running' = running
        /\ failures' = failures
        /\ suspended'[q] = IF q = r THEN suspended[q] - 1 ELSE suspended[q]
        /\ recreates'[q] = IF q = r THEN recreates[q] - 1 ELSE recreates[q]
    BY DEF PoolInv, PoolTypeOK, RestartRoutee
  <2>. QED
    BY <1>4, <2>1, <2>2
<1>6. RestartsDue'
  <2> SUFFICES ASSUME NEW q \in Routees
               PROVE  restarts'[q] + recreates'[q] + Escalated(q[1])'
                        + Cardinality(failures'[q[1]]) = failed'[q[1]]
    BY DEF RestartsDue
  <2>1. /\ restarts[q] + recreates[q] + Escalated(q[1])
             + Cardinality(failures[q[1]]) = failed[q[1]]
        /\ Cardinality(failures[q[1]]) \in Nat
    BY RouteeShape, FS_CardinalityType
    DEF PoolInv, FailuresFinite, RestartsDue
  <2>2. /\ restarts[q] \in Nat /\ recreates[q] \in Nat
        /\ failures' = failures /\ failed' = failed
        /\ restarts'[q] = IF q = r THEN restarts[q] + 1 ELSE restarts[q]
        /\ recreates'[q] = IF q = r THEN recreates[q] - 1 ELSE recreates[q]
    BY DEF PoolInv, PoolTypeOK, RestartRoutee
  <2>. QED
    BY <1>4, <2>1, <2>2
<1>. QED
  BY <1>2, <1>3, <1>5, <1>6 DEF PoolInv

\* Every step of the pools keeps the invariant.
LEMMA PoolNextInv == PoolInv /\ [PoolNext]_poolVars => PoolInv'
<1> SUFFICES ASSUME PoolInv, [PoolNext]_poolVars PROVE PoolInv'
  OBVIOUS
<1>1. ASSUME NEW r \in Routees, RouteeStep(r) PROVE PoolInv'
  BY <1>1, BeginCallInv, AnswerCallInv, FailCallInv, ReportCountsInv,
     SuspendRouteeInv, RestartRouteeInv DEF RouteeStep
<1>2. ASSUME NEW r \in Routees, Tick(r) PROVE PoolInv'
  BY <1>2, TickInv
<1>3. ASSUME NEW p \in Providers, RouterStep(p) PROVE PoolInv'
  BY <1>3, EscalateInv, RestartRouterInv DEF RouterStep
<1>4. CASE Arrive
  BY <1>4, RouteInv DEF Arrive
<1>5. CASE UNCHANGED poolVars
  <2>1. PoolTypeOK'
    BY <1>5 DEF PoolInv, PoolTypeOK, poolVars
  <2>2. FailuresFinite' /\ Balanced' /\ RestartsDue'
    BY <1>5, BooksKept DEF PoolInv, Balanced, poolVars
  <2>. QED
    BY <2>1, <2>2 DEF PoolInv
<1>. QED
  BY <1>1, <1>2, <1>3, <1>4, <1>5 DEF PoolNext, PoolStep

\* PoolInv holds in every reachable state of the pools.
THEOREM PoolInvariant == PoolSpec => []PoolInv
BY PoolInitInv, PoolNextInv, PTL DEF PoolSpec

\* The pools of RpcServerActor are type correct. The content is in next,
\* that stays a slot of the pool, and in suspended, that no restart makes
\* negative.
THEOREM PoolTypeCorrect == PoolSpec => []PoolTypeOK
<1>1. PoolInv => PoolTypeOK
  BY DEF PoolInv
<1>. QED
  BY <1>1, PoolInvariant, PTL

\* A failure of any routee restarts every routee of its pool exactly once,
\* however many routees fail and however their failures overlap, and leaves
\* none suspended.
THEOREM OneRestartPerFailureHolds == PoolSpec => []OneRestartPerFailure
<1>1. PoolInv => OneRestartPerFailure
  <2> SUFFICES ASSUME PoolInv, NEW p \in Providers, Settled(p),
                      NEW r \in RouteesOf(p)
               PROVE  restarts[r] = failed[p] /\ suspended[r] = 0
    BY DEF OneRestartPerFailure
  <2>1. r \in Routees /\ r[1] = p
    BY RouteesOfIn
  <2>2. suspends[r] = 0 /\ recreates[r] = 0 /\ failures[p] = {}
    BY DEF Settled
  <2>3. Waiting(r) = 0 /\ Escalated(p) = 0 /\ Cardinality(failures[p]) = 0
    BY <2>1, <2>2, FS_EmptySet DEF Waiting, Escalated, Settled
  <2>4. suspended[r] \in Nat /\ restarts[r] \in Nat
    BY <2>1 DEF PoolInv, PoolTypeOK
  <2>5. suspended[r] + 0 = 0 + 0 + 0
    BY <2>1, <2>2, <2>3 DEF PoolInv, Balanced
  <2>6. restarts[r] + 0 + 0 + 0 = failed[p]
    BY <2>1, <2>2, <2>3 DEF PoolInv, RestartsDue
  <2>. QED
    BY <2>4, <2>5, <2>6
<1>. QED
  BY <1>1, PoolInvariant, PTL

-----------------------------------------------------------------------------
(* The call statistics.                                                    *)

\* A step of the pools, seen through the statistics: one call is counted,
\* all that is pending is reported, a restart drops it, or nothing happens.
LEMMA MeterStep ==
  ASSUME PoolTypeOK, [PoolNext]_poolVars
  PROVE  \/ \E r \in Routees, m \in Methods :
              Meter!Count(r, m) /\ restarts' = restarts
         \/ \E r \in Routees : Meter!Report(r) /\ restarts' = restarts
         \/ \E r \in Routees :
              Meter!Crash(r) /\ restarts' = [restarts EXCEPT ![r] = @ + 1]
         \/ UNCHANGED <<handled, counter, reported, restarts>>
<1>1. ASSUME NEW r \in Routees, BeginCall(r)
      PROVE  \E m \in Methods : Meter!Count(r, m) /\ restarts' = restarts
  <2>1. Head(mailbox[r]) \in Message
    BY <1>1, HeadTailProperties DEF PoolTypeOK, BeginCall, Ready
  <2>2. Head(mailbox[r]).method \in Methods
    BY <1>1, <2>1, CallFields DEF BeginCall
  <2>. QED
    BY <1>1, <2>2 DEF BeginCall, Meter!Count
<1>2. ASSUME NEW r \in Routees, ReportCounts(r)
      PROVE  Meter!Report(r) /\ restarts' = restarts
  BY <1>2 DEF ReportCounts, Meter!Report, Meter!None, Zero
<1>3. ASSUME NEW r \in Routees, RestartRoutee(r)
      PROVE  Meter!Crash(r) /\ restarts' = [restarts EXCEPT ![r] = @ + 1]
  BY <1>3 DEF RestartRoutee, Meter!Crash, Meter!None, Zero
<1>4. ASSUME NEW r \in Routees,
             \/ AnswerCall(r) \/ SuspendRoutee(r) \/ Tick(r)
             \/ \E kind \in Failing : FailCall(r, kind)
      PROVE  UNCHANGED <<handled, counter, reported, restarts>>
  BY <1>4 DEF AnswerCall, SuspendRoutee, Tick, FailCall
<1>5. ASSUME NEW p \in Providers, RouterStep(p)
      PROVE  UNCHANGED <<handled, counter, reported, restarts>>
  BY <1>5 DEF RouterStep, Escalate, RestartRouter
<1>6. Arrive => UNCHANGED <<handled, counter, reported, restarts>>
  BY DEF Arrive, Route
<1>7. UNCHANGED poolVars => UNCHANGED <<handled, counter, reported, restarts>>
  BY DEF poolVars
<1>. QED
  BY <1>1, <1>2, <1>3, <1>4, <1>5, <1>6, <1>7
  DEF PoolNext, PoolStep, RouteeStep

\* The routees of all pools implement the abstract call meter.
THEOREM RouteesImplementMeter == PoolSpec => RouteesMeter
<1>1. PoolInit => Meter!Init
  BY DEF PoolInit, Meter!Init, Meter!None, Zero
<1>2. PoolTypeOK /\ [PoolNext]_poolVars => [Meter!Next]_Meter!meter
  BY MeterStep DEF Meter!Next, Meter!meter
<1>. QED
  BY <1>1, <1>2, PoolTypeCorrect, PTL DEF PoolSpec, RouteesMeter, Meter!Spec

\* No call is counted twice, and what an instance that was never restarted
\* has reported and still holds is exactly what it took up.
THEOREM CountsConservedHolds == PoolSpec => []CountsConserved
<1>1. PoolInit => CountsConserved
  BY DEF PoolInit, CountsConserved, Zero
<1>2. PoolTypeOK /\ CountsConserved /\ [PoolNext]_poolVars => CountsConserved'
  <2> SUFFICES ASSUME PoolTypeOK, CountsConserved, [PoolNext]_poolVars,
                      NEW q \in Routees, NEW n \in Methods
               PROVE  /\ reported'[q][n] + counter'[q][n] <= handled'[q][n]
                      /\ restarts'[q] = 0 =>
                           reported'[q][n] + counter'[q][n] = handled'[q][n]
    BY DEF CountsConserved
  <2>1. /\ reported[q][n] \in Nat /\ counter[q][n] \in Nat
        /\ handled[q][n] \in Nat /\ restarts[q] \in Nat
    BY DEF PoolTypeOK
  <2>2. /\ reported[q][n] + counter[q][n] <= handled[q][n]
        /\ restarts[q] = 0 => reported[q][n] + counter[q][n] = handled[q][n]
    BY DEF CountsConserved
  <2>3. ASSUME NEW r \in Routees, NEW m \in Methods, Meter!Count(r, m),
               restarts' = restarts
        PROVE  /\ reported'[q][n] + counter'[q][n] <= handled'[q][n]
               /\ restarts'[q] = 0 =>
                    reported'[q][n] + counter'[q][n] = handled'[q][n]
    <3>1. /\ reported'[q][n] = reported[q][n]
          /\ counter'[q][n] = IF q = r /\ n = m THEN counter[q][n] + 1
                              ELSE counter[q][n]
          /\ handled'[q][n] = IF q = r /\ n = m THEN handled[q][n] + 1
                              ELSE handled[q][n]
      BY <2>3 DEF PoolTypeOK, Meter!Count
    <3>. QED
      BY <2>1, <2>2, <2>3, <3>1
  <2>4. ASSUME NEW r \in Routees, Meter!Report(r), restarts' = restarts
        PROVE  /\ reported'[q][n] + counter'[q][n] <= handled'[q][n]
               /\ restarts'[q] = 0 =>
                    reported'[q][n] + counter'[q][n] = handled'[q][n]
    <3>1. /\ handled'[q][n] = handled[q][n]
          /\ reported'[q][n] = IF q = r THEN reported[q][n] + counter[q][n]
                               ELSE reported[q][n]
          /\ counter'[q][n] = IF q = r THEN 0 ELSE counter[q][n]
      BY <2>4 DEF PoolTypeOK, Meter!Report, Meter!None
    <3>. QED
      BY <2>1, <2>2, <2>4, <3>1
  <2>5. ASSUME NEW r \in Routees, Meter!Crash(r),
               restarts' = [restarts EXCEPT ![r] = @ + 1]
        PROVE  /\ reported'[q][n] + counter'[q][n] <= handled'[q][n]
               /\ restarts'[q] = 0 =>
                    reported'[q][n] + counter'[q][n] = handled'[q][n]
    <3>1. /\ handled'[q][n] = handled[q][n] /\ reported'[q][n] = reported[q][n]
          /\ counter'[q][n] = IF q = r THEN 0 ELSE counter[q][n]
          /\ restarts'[q] = IF q = r THEN restarts[q] + 1 ELSE restarts[q]
      BY <2>5 DEF PoolTypeOK, Meter!Crash, Meter!None
    <3>. QED
      BY <2>1, <2>2, <3>1
  <2>6. CASE UNCHANGED <<handled, counter, reported, restarts>>
    BY <2>2, <2>6
  <2>. QED
    BY <2>3, <2>4, <2>5, <2>6, MeterStep
<1>. QED
  BY <1>1, <1>2, PoolTypeCorrect, PTL DEF PoolSpec
-----------------------------------------------------------------------------
(* Where a call is: in a mailbox, being executed, or done with.            *)

\* Message i of mailbox s is call c.
Holds(s, i, c) ==
  i \in 1 .. Len(s) /\ s[i].type = "CallMethod" /\ s[i].call = c

\* A call is in one place of one mailbox, or executed by one routee.
OnePlace == \A c \in Calls, r \in Routees, q \in Routees :
  /\ \A i \in Nat, j \in Nat :
       Holds(mailbox[r], i, c) /\ Holds(mailbox[q], j, c) => r = q /\ i = j
  /\ \A i \in Nat : Holds(mailbox[r], i, c) => running[q] # c
  /\ running[r] = c /\ running[q] = c => r = q

\* A call that is still in a pool has arrived and was not executed before.
Unspent(c) == c \in arrived /\ executed[c] = 0 /\ replied[c] = 0
NotYetRun == \A c \in Calls, r \in Routees :
  /\ \A i \in Nat : Holds(mailbox[r], i, c) => Unspent(c)
  /\ running[r] = c => Unspent(c)

\* The inductive invariant of the calls.
CallInv == OnePlace /\ NotYetRun /\ AtMostOnce

\* What a mailbox holds after a message was added.
LEMMA HoldsAppend ==
  ASSUME NEW s \in Seq(Message), NEW x \in Message, NEW c \in Calls,
         NEW i \in Nat, Holds(Append(s, x), i, c)
  PROVE  \/ Holds(s, i, c)
         \/ i = Len(s) + 1 /\ x.type = "CallMethod" /\ x.call = c
BY AppendProperties, LenProperties DEF Holds

\* What a mailbox holds after its head was taken.
LEMMA HoldsTail ==
  ASSUME NEW s \in Seq(Message), s # << >>, NEW c \in Calls, NEW i \in Nat,
         Holds(Tail(s), i, c)
  PROVE  Holds(s, i + 1, c) /\ i > 0
BY HeadTailProperties, LenProperties DEF Holds

\* The head of a mailbox, if it is a call, is held in the first place.
LEMMA HoldsHead ==
  ASSUME NEW s \in Seq(Message), s # << >>, Head(s).type = "CallMethod"
  PROVE  Holds(s, 1, Head(s).call)
BY EmptySeq, LenProperties DEF Holds

\* A new pool holds no call.
LEMMA CallInitInv == PoolInit => CallInv
<1> SUFFICES ASSUME PoolInit PROVE CallInv
  OBVIOUS
<1>1. \A r \in Routees, c \in Calls, i \in Nat : ~Holds(mailbox[r], i, c)
  BY EmptySeq DEF PoolInit, Holds
<1>2. \A r \in Routees, c \in Calls : running[r] # c
  BY PoolAssumption DEF PoolInit
<1>. QED
  BY <1>1, <1>2 DEF PoolInit, CallInv, OnePlace, NotYetRun, AtMostOnce

\* Steps after which the mailboxes hold what they held before, at most moved
\* up by one, keep the calls where they are.
LEMMA CallsKept ==
  ASSUME CallInv, UNCHANGED <<arrived, running, executed, replied>>,
         NEW r \in Routees, NEW k \in {0, 1},
         \A q \in Routees, c \in Calls, i \in Nat : Holds(mailbox'[q], i, c) =>
           Holds(mailbox[q], IF q = r THEN i + k ELSE i, c)
  PROVE  CallInv'
<1>1. OnePlace'
  BY DEF CallInv, OnePlace
<1>2. NotYetRun'
  BY DEF CallInv, NotYetRun, Unspent
<1>3. AtMostOnce'
  BY DEF CallInv, AtMostOnce
<1>. QED
  BY <1>1, <1>2, <1>3 DEF CallInv

\* A call that arrives for the first time is nowhere yet.
LEMMA RouteCalls ==
  ASSUME PoolTypeOK, CallInv, NEW p \in Providers, NEW c \in Calls,
         NEW m \in Methods, c \notin arrived, Route(p, c, m)
  PROVE  CallInv'
<1> DEFINE t == <<p, next[p]>>
<1>1. t \in Routees /\ CallMethod(c, m) \in Message /\ mailbox[t] \in Seq(Message)
  BY DEF PoolTypeOK, Routees, Message, CallMethod
<1>2. ASSUME NEW q \in Routees, NEW d \in Calls, NEW i \in Nat,
             Holds(mailbox'[q], i, d)
      PROVE  \/ Holds(mailbox[q], i, d) /\ d # c
             \/ q = t /\ d = c /\ i = Len(mailbox[t]) + 1
  <2>1. Holds(mailbox[q], i, d) => d # c
    BY DEF CallInv, NotYetRun, Unspent
  <2>2. CASE q = t
    <3>1. mailbox'[q] = Append(mailbox[t], CallMethod(c, m))
      BY <1>1, <2>2 DEF PoolTypeOK, Route
    <3>2. CallMethod(c, m).call = c
      BY DEF CallMethod
    <3>. QED
      BY <1>1, <1>2, <2>1, <2>2, <3>1, <3>2, HoldsAppend
  <2>3. CASE q # t
    BY <1>2, <2>1, <2>3 DEF PoolTypeOK, Route
  <2>. QED
    BY <2>2, <2>3
<1>3. \A q \in Routees : running'[q] = running[q] /\ running[q] # c
  BY DEF Route, CallInv, NotYetRun, Unspent
<1>4. executed[c] = 0 /\ replied[c] = 0
  <2>1. executed[c] \in Nat /\ replied[c] \in Nat
    BY DEF PoolTypeOK
  <2>2. replied[c] <= executed[c] /\ executed[c] <= 1 /\ executed[c] # 1
    BY DEF CallInv, AtMostOnce
  <2>. QED
    BY <2>1, <2>2
<1>5. OnePlace'
  <2> SUFFICES ASSUME NEW d \in Calls, NEW u \in Routees, NEW v \in Routees
               PROVE  /\ \A i \in Nat, j \in Nat :
                           Holds(mailbox'[u], i, d) /\ Holds(mailbox'[v], j, d)
                             => u = v /\ i = j
                      /\ \A i \in Nat : Holds(mailbox'[u], i, d) => running'[v] # d
                      /\ running'[u] = d /\ running'[v] = d => u = v
    BY DEF OnePlace
  <2>1. /\ \A i \in Nat, j \in Nat :
             Holds(mailbox[u], i, d) /\ Holds(mailbox[v], j, d) => u = v /\ i = j
        /\ \A i \in Nat : Holds(mailbox[u], i, d) => running[v] # d
        /\ running[u] = d /\ running[v] = d => u = v
    BY DEF CallInv, OnePlace
  <2>2. ASSUME NEW i \in Nat, NEW j \in Nat,
               Holds(mailbox'[u], i, d), Holds(mailbox'[v], j, d)
        PROVE  u = v /\ i = j
    BY <1>2, <2>1, <2>2
  <2>3. ASSUME NEW i \in Nat, Holds(mailbox'[u], i, d) PROVE running'[v] # d
    BY <1>2, <1>3, <2>1, <2>3
  <2>4. running'[u] = d /\ running'[v] = d => u = v
    BY <1>3, <2>1
  <2>. QED
    BY <2>2, <2>3, <2>4
<1>6. NotYetRun'
  BY <1>2, <1>3, <1>4 DEF CallInv, NotYetRun, Unspent, Route
<1>7. AtMostOnce'
  BY DEF CallInv, AtMostOnce, Route
<1>. QED
  BY <1>5, <1>6, <1>7 DEF CallInv

\* A call that a routee takes up leaves its mailbox.
LEMMA BeginCallCalls ==
  ASSUME PoolTypeOK, CallInv, NEW r \in Routees, BeginCall(r)
  PROVE  CallInv'
<1> DEFINE x == Head(mailbox[r])
<1>1. mailbox[r] \in Seq(Message) /\ mailbox[r] # << >> /\ x.type = "CallMethod"
  BY DEF PoolTypeOK, BeginCall, Ready
<1>2. x.call \in Calls /\ Holds(mailbox[r], 1, x.call)
  BY <1>1, HoldsHead, HeadTailProperties, CallFields
<1>3. ASSUME NEW q \in Routees, NEW d \in Calls, NEW i \in Nat,
             Holds(mailbox'[q], i, d)
      PROVE  /\ Holds(mailbox[q], IF q = r THEN i + 1 ELSE i, d)
             /\ d # x.call
  <2>1. CASE q = r
    <3>1. mailbox'[q] = Tail(mailbox[r])
      BY <2>1 DEF PoolTypeOK, BeginCall
    <3>2. Holds(mailbox[r], i + 1, d) /\ i > 0
      BY <1>1, <1>3, <3>1, HoldsTail
    <3>. QED
      BY <1>2, <2>1, <3>2 DEF CallInv, OnePlace
  <2>2. CASE q # r
    <3>1. mailbox'[q] = mailbox[q]
      BY <2>2 DEF PoolTypeOK, BeginCall
    <3>. QED
      BY <1>2, <1>3, <2>2, <3>1 DEF CallInv, OnePlace
  <2>. QED
    BY <2>1, <2>2
<1>4. \A q \in Routees : /\ running'[q] = IF q = r THEN x.call ELSE running[q]
                         /\ running[q] # x.call
  BY <1>2 DEF PoolTypeOK, CallInv, OnePlace, BeginCall
<1>5. OnePlace'
  <2> SUFFICES ASSUME NEW d \in Calls, NEW u \in Routees, NEW v \in Routees
               PROVE  /\ \A i \in Nat, j \in Nat :
                           Holds(mailbox'[u], i, d) /\ Holds(mailbox'[v], j, d)
                             => u = v /\ i = j
                      /\ \A i \in Nat : Holds(mailbox'[u], i, d) => running'[v] # d
                      /\ running'[u] = d /\ running'[v] = d => u = v
    BY DEF OnePlace
  <2>1. /\ \A i \in Nat, j \in Nat :
             Holds(mailbox[u], i, d) /\ Holds(mailbox[v], j, d) => u = v /\ i = j
        /\ \A i \in Nat : Holds(mailbox[u], i, d) => running[v] # d
        /\ running[u] = d /\ running[v] = d => u = v
    BY DEF CallInv, OnePlace
  <2>2. ASSUME NEW i \in Nat, NEW j \in Nat,
               Holds(mailbox'[u], i, d), Holds(mailbox'[v], j, d)
        PROVE  u = v /\ i = j
    BY <1>3, <2>1, <2>2
  <2>3. ASSUME NEW i \in Nat, Holds(mailbox'[u], i, d) PROVE running'[v] # d
    BY <1>3, <1>4, <2>1, <2>3
  <2>4. running'[u] = d /\ running'[v] = d => u = v
    BY <1>4, <2>1
  <2>. QED
    BY <2>2, <2>3, <2>4
<1>6. NotYetRun'
  <2>1. Unspent(x.call) /\ UNCHANGED <<arrived, executed, replied>>
    BY <1>2 DEF CallInv, NotYetRun, BeginCall
  <2>2. \A q \in Routees, d \in Calls, i \in Nat :
          Holds(mailbox'[q], i, d) => Unspent(d)
    BY <1>3 DEF CallInv, NotYetRun
  <2>3. \A q \in Routees, d \in Calls : running'[q] = d => Unspent(d)
    BY <1>4, <2>1 DEF CallInv, NotYetRun
  <2>. QED
    BY <2>1, <2>2, <2>3 DEF NotYetRun, Unspent
<1>7. AtMostOnce'
  BY DEF CallInv, AtMostOnce, BeginCall
<1>. QED
  BY <1>5, <1>6, <1>7 DEF CallInv

\* A call whose execution ends is nowhere in a pool any more.
LEMMA EndCallCalls ==
  ASSUME PoolTypeOK, CallInv, NEW r \in Routees,
         AnswerCall(r) \/ \E kind \in Failing : FailCall(r, kind)
  PROVE  CallInv'
<1> DEFINE c == running[r]
<1>1. c \in Calls /\ Unspent(c)
  BY DEF PoolTypeOK, CallInv, NotYetRun, AnswerCall, FailCall
<1>2. /\ \A q \in Routees : running'[q] = IF q = r THEN NoCall ELSE running[q]
      /\ mailbox' = mailbox /\ arrived' = arrived
      /\ \A d \in Calls \ {c} : executed'[d] = executed[d] /\ replied'[d] = replied[d]
      /\ executed'[c] \in {0, 1} /\ replied'[c] \in {0, executed'[c]}
  BY <1>1 DEF PoolTypeOK, AnswerCall, FailCall, Unspent
<1>3. /\ \A q \in Routees \ {r} : running[q] # c
      /\ \A q \in Routees, i \in Nat : ~Holds(mailbox[q], i, c)
  BY <1>1 DEF CallInv, OnePlace
<1>4. OnePlace'
  BY <1>2, PoolAssumption DEF CallInv, OnePlace
<1>5. NotYetRun'
  BY <1>1, <1>2, <1>3, PoolAssumption DEF CallInv, NotYetRun, Unspent
<1>6. AtMostOnce'
  BY <1>1, <1>2 DEF CallInv, AtMostOnce, Unspent
<1>. QED
  BY <1>4, <1>5, <1>6 DEF CallInv

\* Reports, timers and the supervision neither add, drop nor double a call.
LEMMA OtherCalls ==
  ASSUME PoolTypeOK, CallInv, NEW r \in Routees,
         Tick(r) \/ ReportCounts(r) \/ SuspendRoutee(r) \/ RestartRoutee(r)
  PROVE  CallInv'
<1>1. UNCHANGED <<arrived, running, executed, replied>>
  BY DEF Tick, ReportCounts, SuspendRoutee, RestartRoutee
<1>2. CASE Tick(r)
  <2>1. mailbox[r] \in Seq(Message) /\ CallCount \in Message
    BY DEF PoolTypeOK, Message
  <2>2. CallCount.type # "CallMethod"
    BY DEF CallCount
  <2>3. ASSUME NEW q \in Routees, NEW c \in Calls, NEW i \in Nat,
               Holds(mailbox'[q], i, c)
        PROVE  Holds(mailbox[q], i, c)
    <3>1. mailbox'[q] = IF q = r THEN Append(mailbox[r], CallCount)
                        ELSE mailbox[q]
      BY <1>2 DEF PoolTypeOK, Tick
    <3>. QED
      BY <2>1, <2>2, <2>3, <3>1, HoldsAppend
  <2>4. \A q \in Routees, c \in Calls, i \in Nat : Holds(mailbox'[q], i, c) =>
          Holds(mailbox[q], IF q = r THEN i + 0 ELSE i, c)
    BY <2>3
  <2>. QED
    BY <1>1, <2>4, CallsKept
<1>3. CASE ReportCounts(r)
  <2>1. mailbox[r] \in Seq(Message) /\ mailbox[r] # << >>
    BY <1>3 DEF PoolTypeOK, ReportCounts, Ready
  <2>2. ASSUME NEW q \in Routees, NEW c \in Calls, NEW i \in Nat,
               Holds(mailbox'[q], i, c)
        PROVE  Holds(mailbox[q], IF q = r THEN i + 1 ELSE i, c)
    <3>1. mailbox'[q] = IF q = r THEN Tail(mailbox[r]) ELSE mailbox[q]
      BY <1>3 DEF PoolTypeOK, ReportCounts
    <3>. QED
      BY <2>1, <2>2, <3>1, HoldsTail
  <2>. QED
    BY <1>1, <2>2, CallsKept
<1>4. CASE SuspendRoutee(r) \/ RestartRoutee(r)
  <2>1. mailbox' = mailbox
    BY <1>4 DEF SuspendRoutee, RestartRoutee
  <2>2. \A q \in Routees, c \in Calls, i \in Nat : Holds(mailbox'[q], i, c) =>
          Holds(mailbox[q], IF q = r THEN i + 0 ELSE i, c)
    BY <2>1
  <2>. QED
    BY <1>1, <2>2, CallsKept
<1>. QED
  BY <1>2, <1>3, <1>4

\* So does every step of the pools by themselves.
LEMMA PoolStepCalls ==
  ASSUME PoolTypeOK, CallInv, PoolStep \/ UNCHANGED poolVars
  PROVE  CallInv'
<1>1. ASSUME UNCHANGED <<arrived, mailbox, running, executed, replied>>
      PROVE  CallInv'
  <2>1. OnePlace'
    BY <1>1 DEF CallInv, OnePlace
  <2>2. NotYetRun'
    BY <1>1 DEF CallInv, NotYetRun, Unspent
  <2>. QED
    BY <1>1, <2>1, <2>2 DEF CallInv, AtMostOnce
<1>2. ASSUME NEW p \in Providers, RouterStep(p) PROVE CallInv'
  BY <1>1, <1>2 DEF RouterStep, Escalate, RestartRouter
<1>3. ASSUME NEW r \in Routees, RouteeStep(r) \/ Tick(r) PROVE CallInv'
  BY <1>3, BeginCallCalls, EndCallCalls, OtherCalls DEF RouteeStep
<1>4. CASE UNCHANGED poolVars
  BY <1>1, <1>4 DEF poolVars
<1>. QED
  BY <1>2, <1>3, <1>4 DEF PoolStep

\* No call is executed twice or answered without having been executed, for
\* any number of routees and calls, whatever fails and is restarted.
THEOREM AtMostOnceHolds == PoolSpec => []AtMostOnce
<1>1. PoolTypeOK /\ CallInv /\ [PoolNext]_poolVars => CallInv'
  BY PoolStepCalls, RouteCalls DEF PoolNext, Arrive
<1>2. CallInv => AtMostOnce
  BY DEF CallInv
<1>. QED
  BY <1>1, <1>2, CallInitInv, PoolTypeCorrect, PTL DEF PoolSpec

-----------------------------------------------------------------------------
(* The bus.                                                                *)

\* The types of what the bus adds to the pools.
BusTypeOK ==
  /\ phase \in [Calls -> {"idle", "waiting", "returned", "thrown"}]
  /\ promise \in [Calls -> {"open", "answered", "expired"}]
  /\ result \in [Calls -> {"none", "answer", "null", "value"}]
  /\ requests \subseteq Request
  /\ answered \subseteq Calls
  /\ events \in [Calls -> Nat]
  /\ up \subseteq Providers
  /\ routees \subseteq Providers

\* A call is sent by its invoke and once: while its request is on its way it
\* has reached no pool, and there is no other request of it.
SentOnce ==
  /\ \A q \in requests : q[1] \notin arrived /\ phase[q[1]] # "idle"
  /\ \A q \in requests, s \in requests : q[1] = s[1] => q = s
  /\ \A c \in arrived : phase[c] # "idle"

\* Only a call that was executed has an answer, and a call that was not
\* ended has no result.
AnswerWasRun == \A c \in Calls :
  /\ promise[c] = "answered" => executed[c] = 1
  /\ phase[c] \in {"idle", "waiting"} => result[c] = "none"

\* The inductive invariant: the books of the supervision and the places of
\* the calls in the pools, and what the bus adds to them.
BusInv == PoolInv /\ CallInv /\ BusTypeOK /\ SentOnce /\ AnswerWasRun

-----------------------------------------------------------------------------
(* What the pools may do to a call.                                        *)

\* The pools of the nodes that run are some of the pools.
LEMMA ProviderStepIsPoolStep ==
  ASSUME BusTypeOK, ProviderStep
  PROVE  PoolStep
<1>1. up \X Slots \subseteq Routees
  BY DEF BusTypeOK, Routees
<1>. QED
  BY <1>1 DEF ProviderStep, PoolStep, BusTypeOK

\* Pools bring no call with them, and they execute a call that they hold and
\* that was not executed before.
LEMMA PoolStepRuns ==
  ASSUME PoolTypeOK, CallInv, PoolStep
  PROVE  /\ arrived' = arrived
         /\ \/ executed' = executed
            \/ \E c \in Calls : /\ Unspent(c)
                                /\ executed' = [executed EXCEPT ![c] = 1]
<1>1. ASSUME NEW r \in Routees,
             AnswerCall(r) \/ \E kind \in Failing : FailCall(r, kind)
      PROVE  /\ arrived' = arrived
             /\ \/ executed' = executed
                \/ \E c \in Calls : /\ Unspent(c)
                                    /\ executed' = [executed EXCEPT ![c] = 1]
  <2>1. running[r] \in Calls /\ Unspent(running[r])
    BY <1>1 DEF PoolTypeOK, CallInv, NotYetRun, AnswerCall, FailCall
  <2>2. executed[running[r]] = 0
    BY <2>1 DEF Unspent
  <2>3. executed' \in {executed, [executed EXCEPT ![running[r]] = 1]}
    BY <1>1, <2>1, <2>2 DEF PoolTypeOK, AnswerCall, FailCall
  <2>4. arrived' = arrived
    BY <1>1 DEF AnswerCall, FailCall
  <2>. QED
    BY <2>1, <2>3, <2>4
<1>2. ASSUME NEW r \in Routees,
             \/ BeginCall(r) \/ ReportCounts(r) \/ SuspendRoutee(r)
             \/ RestartRoutee(r) \/ Tick(r)
      PROVE  arrived' = arrived /\ executed' = executed
  BY <1>2 DEF BeginCall, ReportCounts, SuspendRoutee, RestartRoutee, Tick
<1>3. ASSUME NEW p \in Providers, RouterStep(p)
      PROVE  arrived' = arrived /\ executed' = executed
  BY <1>3 DEF RouterStep, Escalate, RestartRouter
<1>. QED
  BY <1>1, <1>2, <1>3 DEF PoolStep, RouteeStep

-----------------------------------------------------------------------------
(* The invariant of the bus.                                               *)

\* At the start no call was made.
LEMMA BusInitInv == Init => BusInv
<1> SUFFICES ASSUME Init PROVE BusInv
  OBVIOUS
<1>1. PoolInv /\ CallInv
  BY PoolInitInv, CallInitInv DEF Init
<1>2. BusTypeOK
  BY DEF Init, BusTypeOK
<1>3. SentOnce /\ AnswerWasRun
  BY DEF Init, PoolInit, SentOnce, AnswerWasRun
<1>. QED
  BY <1>1, <1>2, <1>3 DEF BusInv

\* A step that leaves the pools alone keeps their invariants.
LEMMA PoolsKept ==
  ASSUME BusInv, UNCHANGED poolVars
  PROVE  PoolInv' /\ CallInv'
BY PoolNextInv, PoolStepCalls DEF BusInv, PoolInv

\* invoke sends a call that was not made before.
LEMMA InvokeInv ==
  ASSUME BusInv, NEW c \in Calls, NEW m \in Methods, Invoke(c, m)
  PROVE  BusInv'
<1>1. PoolInv' /\ CallInv'
  BY PoolsKept DEF Invoke
<1>2. \/ requests' = requests
      \/ \E p \in Providers : requests' = requests \cup {<<c, p, m>>}
  BY DEF BusInv, BusTypeOK, Invoke
<1>3. BusTypeOK'
  BY <1>2 DEF BusInv, BusTypeOK, Invoke, Request
<1>4. c \notin arrived /\ \A q \in requests : q[1] # c
  BY DEF BusInv, SentOnce, Invoke
<1>5. arrived' = arrived /\ executed' = executed
  BY DEF Invoke, poolVars
<1>6. \A d \in Calls : phase'[d] = IF d = c THEN "waiting" ELSE phase[d]
  BY DEF BusInv, BusTypeOK, Invoke
<1>7. SentOnce'
  <2>1. \A q \in requests' : q \in requests \/ q[1] = c
    BY <1>2
  <2>2. \A q \in requests', s \in requests' : q[1] = s[1] => q = s
    BY <1>2, <1>4 DEF BusInv, SentOnce
  <2>3. \A q \in requests' : q[1] \in Calls
    BY <1>3 DEF BusTypeOK, Request
  <2>4. \A d \in arrived : d \in Calls
    BY DEF BusInv, PoolInv, PoolTypeOK
  <2>. QED
    BY <1>4, <1>5, <1>6, <2>1, <2>2, <2>3, <2>4 DEF BusInv, SentOnce
<1>8. AnswerWasRun'
  BY <1>5, <1>6 DEF BusInv, AnswerWasRun, Invoke
<1>. QED
  BY <1>1, <1>3, <1>7, <1>8 DEF BusInv

\* The calls in the proxies: an invoke that is over stays over.
LEMMA ProxyInv ==
  ASSUME BusInv, NEW c \in Calls,
         ProxyStep(c) \/ Interrupted(c) \/ AskTimeout(c)
  PROVE  BusInv'
<1>1. PoolInv' /\ CallInv'
  BY PoolsKept DEF ProxyStep, AwaitAnswer, AwaitTimeout, Interrupted, AskTimeout
<1>2. BusTypeOK'
  <2>1. CASE AwaitAnswer(c) \/ Interrupted(c) \/ AskTimeout(c)
    BY <2>1 DEF BusInv, BusTypeOK, AwaitAnswer, Interrupted, AskTimeout
  <2>2. CASE AwaitTimeout(c)
    <3>1. PICK h \in Handlers :
            /\ phase' = [phase EXCEPT ![c] =
                           IF h = "throw" THEN "thrown" ELSE "returned"]
            /\ result' = [result EXCEPT ![c] = IF h = "throw" THEN @ ELSE h]
            /\ events' = [events EXCEPT ![c] = IF h = "null" THEN @ + 1 ELSE @]
      BY <2>2 DEF AwaitTimeout, ReportFailure
    <3>2. h \in {"null", "value", "throw"}
      BY BusAssumption DEF HandlerKind
    <3>3. events' \in [Calls -> Nat]
      BY <3>1 DEF BusInv, BusTypeOK
    <3>. QED
      BY <2>2, <3>1, <3>2, <3>3 DEF BusInv, BusTypeOK, AwaitTimeout
  <2>. QED
    BY <2>1, <2>2 DEF ProxyStep
<1>3. /\ arrived' = arrived /\ executed' = executed /\ requests' = requests
      /\ \A d \in Calls : phase[d] # "idle" => phase'[d] # "idle"
      /\ \A d \in Calls : phase'[d] \in {"idle", "waiting"} =>
           phase'[d] = phase[d] /\ result'[d] = result[d]
      /\ \A d \in Calls : promise'[d] = "answered" => promise[d] = "answered"
  BY DEF BusInv, BusTypeOK, ProxyStep, AwaitAnswer, AwaitTimeout, Interrupted,
     AskTimeout, poolVars
<1>4. SentOnce'
  <2>1. \A q \in requests : q[1] \in Calls
    BY DEF BusInv, BusTypeOK, Request
  <2>2. \A d \in arrived : d \in Calls
    BY DEF BusInv, PoolInv, PoolTypeOK
  <2>. QED
    BY <1>3, <2>1, <2>2 DEF BusInv, SentOnce
<1>5. AnswerWasRun'
  BY <1>3 DEF BusInv, AnswerWasRun
<1>. QED
  BY <1>1, <1>2, <1>4, <1>5 DEF BusInv

\* A request that is delivered leaves the network and reaches a pool for the
\* first time, or nobody.
LEMMA DeliverRequestInv ==
  ASSUME BusInv, NEW q \in requests, DeliverRequest(q)
  PROVE  BusInv'
<1>1. q[1] \in Calls /\ q[2] \in Providers /\ q[3] \in Methods
  BY DEF BusInv, BusTypeOK, Request
<1>2. q[1] \notin arrived
  BY DEF BusInv, SentOnce
<1>3. BusTypeOK'
  BY DEF BusInv, BusTypeOK, DeliverRequest
<1>4. CASE Route(q[2], q[1], q[3])
  <2>1. PoolInv' /\ CallInv'
    BY <1>1, <1>2, <1>4, RouteInv, RouteCalls DEF BusInv, PoolInv
  <2>2. /\ arrived' = arrived \cup {q[1]} /\ executed' = executed
        /\ requests' = requests \ {q} /\ phase' = phase
        /\ promise' = promise /\ result' = result
    BY <1>4 DEF Route, DeliverRequest
  <2>3. SentOnce'
    BY <2>2 DEF BusInv, SentOnce
  <2>4. AnswerWasRun'
    BY <2>2 DEF BusInv, AnswerWasRun
  <2>. QED
    BY <1>3, <2>1, <2>3, <2>4 DEF BusInv
<1>5. CASE UNCHANGED poolVars
  <2>1. PoolInv' /\ CallInv'
    BY <1>5, PoolsKept
  <2>2. /\ arrived' = arrived /\ executed' = executed
        /\ requests' = requests \ {q} /\ phase' = phase
        /\ promise' = promise /\ result' = result
    BY <1>5 DEF poolVars, DeliverRequest
  <2>3. SentOnce' /\ AnswerWasRun'
    BY <2>2 DEF BusInv, SentOnce, AnswerWasRun
  <2>. QED
    BY <1>3, <2>1, <2>3 DEF BusInv
<1>. QED
  BY <1>4, <1>5 DEF DeliverRequest

\* An answer that arrives was sent by a routee that has executed the call.
LEMMA DeliverAnswerInv ==
  ASSUME BusInv, NEW c \in Calls, DeliverAnswer(c)
  PROVE  BusInv'
<1>1. PoolInv' /\ CallInv'
  BY PoolsKept DEF DeliverAnswer
<1>2. BusTypeOK'
  BY DEF BusInv, BusTypeOK, DeliverAnswer
<1>3. executed[c] = 1
  <2>1. replied[c] \in Nat /\ executed[c] \in Nat
    BY DEF BusInv, PoolInv, PoolTypeOK
  <2>2. replied[c] <= executed[c] /\ executed[c] <= 1 /\ replied[c] > 0
    BY DEF BusInv, CallInv, AtMostOnce, DeliverAnswer
  <2>. QED
    BY <2>1, <2>2
<1>4. /\ arrived' = arrived /\ executed' = executed /\ requests' = requests
      /\ phase' = phase /\ result' = result
      /\ \A d \in Calls \ {c} : promise'[d] = promise[d]
  BY DEF BusInv, BusTypeOK, DeliverAnswer, poolVars
<1>5. SentOnce' /\ AnswerWasRun'
  BY <1>3, <1>4 DEF BusInv, SentOnce, AnswerWasRun
<1>. QED
  BY <1>1, <1>2, <1>5 DEF BusInv

\* Losses, crashes and news of members touch no call.
LEMMA NetworkInv ==
  ASSUME BusInv,
         \/ Lose
         \/ \E p \in Providers : Crash(p) \/ AddRoutee(p) \/ RemoveRoutee(p)
  PROVE  BusInv'
<1>1. UNCHANGED poolVars /\ UNCHANGED <<phase, promise, result, events>>
  BY DEF Lose, Crash, AddRoutee, RemoveRoutee
<1>2. PoolInv' /\ CallInv'
  BY <1>1, PoolsKept
<1>3. /\ requests' \subseteq requests /\ answered' \subseteq Calls
      /\ up' \subseteq Providers /\ routees' \subseteq Providers
  BY DEF BusInv, BusTypeOK, Lose, Crash, AddRoutee, RemoveRoutee
<1>4. BusTypeOK'
  BY <1>1, <1>3 DEF BusInv, BusTypeOK
<1>5. arrived' = arrived /\ executed' = executed
  BY <1>1 DEF poolVars
<1>6. SentOnce' /\ AnswerWasRun'
  BY <1>1, <1>3, <1>5 DEF BusInv, SentOnce, AnswerWasRun
<1>. QED
  BY <1>2, <1>4, <1>6 DEF BusInv

\* The pools execute only what has arrived.
LEMMA ProviderStepInv ==
  ASSUME BusInv, ProviderStep
  PROVE  BusInv'
<1>1. PoolStep
  BY ProviderStepIsPoolStep DEF BusInv
<1>2. PoolInv' /\ CallInv'
  BY <1>1, PoolNextInv, PoolStepCalls DEF BusInv, PoolInv, PoolNext
<1>3. UNCHANGED busVars
  BY DEF ProviderStep
<1>4. BusTypeOK'
  BY <1>3 DEF BusInv, BusTypeOK, busVars
<1>5. /\ arrived' = arrived
      /\ \/ executed' = executed
         \/ \E c \in Calls : Unspent(c) /\ executed' = [executed EXCEPT ![c] = 1]
  BY <1>1, PoolStepRuns DEF BusInv, PoolInv
<1>6. \A d \in Calls : executed[d] = 1 => executed'[d] = 1
  BY <1>5 DEF BusInv, PoolInv, PoolTypeOK
<1>7. SentOnce' /\ AnswerWasRun'
  BY <1>3, <1>5, <1>6 DEF BusInv, SentOnce, AnswerWasRun, busVars
<1>. QED
  BY <1>2, <1>4, <1>7 DEF BusInv

\* Every step of the bus keeps the invariant.
LEMMA BusNextInv == BusInv /\ [Next]_vars => BusInv'
<1> SUFFICES ASSUME BusInv, [Next]_vars PROVE BusInv'
  OBVIOUS
<1>1. CASE UNCHANGED vars
  <2>1. UNCHANGED poolVars /\ UNCHANGED busVars
    BY <1>1 DEF vars
  <2>2. PoolInv' /\ CallInv'
    BY <2>1, PoolsKept
  <2>3. BusTypeOK' /\ SentOnce' /\ AnswerWasRun'
    BY <2>1 DEF BusInv, BusTypeOK, SentOnce, AnswerWasRun, busVars, poolVars
  <2>. QED
    BY <2>2, <2>3 DEF BusInv
<1>2. CASE Next
  BY <1>2, InvokeInv, ProxyInv, DeliverRequestInv, DeliverAnswerInv,
     NetworkInv, ProviderStepInv DEF Next
<1>. QED
  BY <1>1, <1>2

\* BusInv holds in every reachable state of the bus.
THEOREM BusInvariant == Spec => []BusInv
BY BusInitInv, BusNextInv, PTL DEF Spec

\* The bus is type correct; for its pools that includes that no restart makes
\* `suspended` negative.
THEOREM BusTypeCorrect == Spec => []TypeOK
<1>1. BusInv => TypeOK
  BY DEF BusInv, PoolInv, BusTypeOK, TypeOK
<1>. QED
  BY <1>1, BusInvariant, PTL
-----------------------------------------------------------------------------
(* What a caller may rely on.                                              *)

\* A step that leaves phase, result and executed alone is no step of
\* RemoteCall.
LEMMA CallerSeesNothing ==
  ASSUME UNCHANGED <<phase, result, executed>>
  PROVE  UNCHANGED RC!vars
BY DEF RC!vars, StateOf

\* Every step of the bus is a step of RemoteCall or nothing to the caller.
LEMMA RemoteCallStep ==
  ASSUME BusInv, [Next]_vars
  PROVE  [RC!Next]_RC!vars
<1> DEFINE st == [c \in Calls |-> StateOf(c)]
<1>1. ASSUME NEW c \in Calls, NEW m \in Methods, Invoke(c, m)
      PROVE  RC!Begin(c)
  <2>1. /\ phase[c] = "idle" /\ phase' = [phase EXCEPT ![c] = "waiting"]
        /\ result' = result /\ executed' = executed
    BY <1>1 DEF Invoke, poolVars
  <2>2. /\ phase'[c] = "waiting" /\ result[c] = "none" /\ result'[c] = "none"
        /\ \A d \in Calls \ {c} : phase'[d] = phase[d] /\ result'[d] = result[d]
    BY <2>1 DEF BusInv, BusTypeOK, AnswerWasRun
  <2>3. /\ StateOf(c) = "idle" /\ StateOf(c)' = "pending"
        /\ \A d \in Calls \ {c} : StateOf(d)' = StateOf(d)
    BY <2>1, <2>2 DEF StateOf
  <2>4. st[c] = "idle" /\ st' = [st EXCEPT ![c] = "pending"]
    BY <2>3
  <2>. QED
    BY <2>1, <2>4 DEF RC!Begin
<1>2. ASSUME NEW c \in Calls, AwaitAnswer(c)
      PROVE  RC!Answer(c)
  <2>1. /\ phase[c] = "waiting" /\ promise[c] = "answered"
        /\ phase' = [phase EXCEPT ![c] = "returned"]
        /\ result' = [result EXCEPT ![c] = "answer"] /\ executed' = executed
    BY <1>2 DEF AwaitAnswer, poolVars
  <2>2. /\ phase'[c] = "returned" /\ result[c] = "none" /\ result'[c] = "answer"
        /\ \A d \in Calls \ {c} : phase'[d] = phase[d] /\ result'[d] = result[d]
    BY <2>1 DEF BusInv, BusTypeOK, AnswerWasRun
  <2>3. /\ StateOf(c) = "pending" /\ StateOf(c)' = "answered"
        /\ \A d \in Calls \ {c} : StateOf(d)' = StateOf(d)
    BY <2>1, <2>2 DEF StateOf
  <2>4. st[c] = "pending" /\ st' = [st EXCEPT ![c] = "answered"]
    BY <2>3
  <2>5. executed[c] = 1
    BY <2>1 DEF BusInv, AnswerWasRun
  <2>. QED
    BY <2>1, <2>4, <2>5 DEF RC!Answer
<1>3. ASSUME NEW c \in Calls, AwaitTimeout(c)
      PROVE  RC!GiveUp(c)
  <2>1. PICK h \in Handlers :
          /\ phase' = [phase EXCEPT ![c] =
                         IF h = "throw" THEN "thrown" ELSE "returned"]
          /\ result' = [result EXCEPT ![c] = IF h = "throw" THEN @ ELSE h]
    BY <1>3 DEF AwaitTimeout
  <2>2. h # "answer" /\ phase[c] = "waiting" /\ result[c] = "none"
    BY <1>3, BusAssumption
    DEF HandlerKind, AwaitTimeout, BusInv, BusTypeOK, AnswerWasRun
  <2>3. st[c] = "pending"
    BY <2>2 DEF StateOf
  <2>4. /\ phase'[c] \in {"thrown", "returned"} /\ result'[c] # "answer"
        /\ \A d \in Calls \ {c} : phase'[d] = phase[d] /\ result'[d] = result[d]
    BY <2>1, <2>2 DEF BusInv, BusTypeOK
  <2>5. /\ StateOf(c)' = "failed"
        /\ \A d \in Calls \ {c} : StateOf(d)' = StateOf(d)
    BY <2>4 DEF StateOf
  <2>6. st' = [st EXCEPT ![c] = "failed"]
    BY <2>5
  <2>7. executed' = executed
    BY <1>3 DEF AwaitTimeout, poolVars
  <2>. QED
    BY <2>3, <2>6, <2>7 DEF RC!GiveUp
<1>9. ASSUME NEW c \in Calls, Interrupted(c)
      PROVE  RC!GiveUp(c)
  <2>1. /\ phase[c] = "waiting" /\ phase' = [phase EXCEPT ![c] = "thrown"]
        /\ result' = result /\ executed' = executed
    BY <1>9 DEF Interrupted, poolVars
  <2>2. /\ phase'[c] = "thrown" /\ result'[c] = "none"
        /\ \A d \in Calls \ {c} : phase'[d] = phase[d] /\ result'[d] = result[d]
    BY <2>1 DEF BusInv, BusTypeOK, AnswerWasRun
  <2>3. /\ StateOf(c) = "pending" /\ StateOf(c)' = "failed"
        /\ \A d \in Calls \ {c} : StateOf(d)' = StateOf(d)
    BY <2>1, <2>2 DEF StateOf
  <2>4. st[c] = "pending" /\ st' = [st EXCEPT ![c] = "failed"]
    BY <2>3
  <2>. QED
    BY <2>1, <2>4 DEF RC!GiveUp
<1>4. ASSUME ProviderStep
      PROVE  (\E c \in Calls : RC!Run(c)) \/ UNCHANGED RC!vars
  <2>1. UNCHANGED <<phase, result>>
    BY <1>4 DEF ProviderStep, busVars
  <2>2. \/ executed' = executed
        \/ \E c \in Calls : Unspent(c) /\ executed' = [executed EXCEPT ![c] = 1]
    BY <1>4, ProviderStepIsPoolStep, PoolStepRuns DEF BusInv, PoolInv
  <2>3. ASSUME NEW c \in Calls, Unspent(c), executed' = [executed EXCEPT ![c] = 1]
        PROVE  RC!Run(c)
    <3>1. executed[c] = 0 /\ phase[c] # "idle"
      BY <2>3 DEF Unspent, BusInv, SentOnce
    <3>2. st[c] # "idle"
      BY <3>1 DEF StateOf
    <3>3. st' = st
      BY <2>1 DEF StateOf
    <3>. QED
      BY <2>3, <3>1, <3>2, <3>3 DEF RC!Run
  <2>. QED
    BY <2>1, <2>2, <2>3, CallerSeesNothing
<1>5. ASSUME NEW c \in Calls, AskTimeout(c) \/ DeliverAnswer(c)
      PROVE  UNCHANGED RC!vars
  BY <1>5, CallerSeesNothing DEF AskTimeout, DeliverAnswer, poolVars
<1>6. ASSUME NEW q \in requests, DeliverRequest(q)
      PROVE  UNCHANGED RC!vars
  BY <1>6, CallerSeesNothing DEF DeliverRequest, Route, poolVars
<1>7. ASSUME \/ Lose
             \/ \E p \in Providers : Crash(p) \/ AddRoutee(p) \/ RemoveRoutee(p)
      PROVE  UNCHANGED RC!vars
  BY <1>7, CallerSeesNothing DEF Lose, Crash, AddRoutee, RemoveRoutee, poolVars
<1>8. CASE UNCHANGED vars
  BY <1>8, CallerSeesNothing DEF vars, poolVars, busVars
<1>. QED
  BY <1>1, <1>2, <1>3, <1>4, <1>5, <1>6, <1>7, <1>8, <1>9
  DEF Next, ProxyStep, RC!Next

\* The bus implements RemoteCall: whatever is lost, crashes, fails, restarts
\* or comes late, a call runs at most once, ends once, and ends with an answer
\* only if it has run.
THEOREM BusImplementsRemoteCall == Spec => KeepsRemoteCall
<1>1. Init => RC!Init
  BY DEF Init, PoolInit, RC!Init, StateOf
<1>2. BusInv /\ [Next]_vars => [RC!Next]_RC!vars
  BY RemoteCallStep
<1>. QED
  BY <1>1, <1>2, BusInvariant, PTL DEF Spec, KeepsRemoteCall, RC!Spec

-----------------------------------------------------------------------------
(* No second chance.                                                       *)

\* A call gets one chance: once no running provider has it or will get it,
\* nothing (not the proxy, not the router, not a restart) sends it again,
\* executes it or answers it, whichever other providers are up.
NeverSentAgain == [][\A c \in Calls : Spent(c) =>
  /\ Spent(c)'
  /\ executed'[c] = executed[c]
  /\ promise[c] # "answered" => promise'[c] # "answered"]_vars

\* Routee r neither executes call c nor has it in its mailbox.
Absent(r, c) == running[r] # c /\ \A i \in Nat : ~Holds(mailbox[r], i, c)

\* A call is in a mailbox if some place of it holds the call.
LEMMA HoldsSomewhere ==
  ASSUME NEW s \in Seq(Message), NEW c
  PROVE  (\E k \in DOMAIN s : s[k].type = "CallMethod" /\ s[k].call = c)
           <=> \E i \in Nat : Holds(s, i, c)
<1>1. DOMAIN s = 1 .. Len(s) /\ Len(s) \in Nat
  BY LenProperties
<1>. QED
  BY <1>1 DEF Holds

\* No step of the pools puts a call into a mailbox that did not hold it.
LEMMA NothingAppears ==
  ASSUME PoolTypeOK, PoolStep, NEW q \in Routees, NEW c \in Calls,
         NEW i \in Nat, Holds(mailbox'[q], i, c)
  PROVE  \E j \in Nat : Holds(mailbox[q], j, c)
<1>1. ASSUME NEW r \in Routees, Tick(r)
      PROVE  Holds(mailbox[q], i, c)
  <2>1. mailbox[r] \in Seq(Message) /\ CallCount \in Message
    BY DEF PoolTypeOK, Message
  <2>2. CallCount.type # "CallMethod"
    BY DEF CallCount
  <2>3. mailbox'[q] = IF q = r THEN Append(mailbox[r], CallCount) ELSE mailbox[q]
    BY <1>1 DEF PoolTypeOK, Tick
  <2>. QED
    BY <2>1, <2>2, <2>3, HoldsAppend
<1>2. ASSUME NEW r \in Routees, BeginCall(r) \/ ReportCounts(r)
      PROVE  \E j \in Nat : Holds(mailbox[q], j, c)
  <2>1. mailbox[r] \in Seq(Message) /\ mailbox[r] # << >>
    BY <1>2 DEF PoolTypeOK, BeginCall, ReportCounts, Ready
  <2>2. mailbox'[q] = IF q = r THEN Tail(mailbox[r]) ELSE mailbox[q]
    BY <1>2 DEF PoolTypeOK, BeginCall, ReportCounts
  <2>3. Holds(mailbox[q], i + 1, c) \/ Holds(mailbox[q], i, c)
    BY <2>1, <2>2, HoldsTail
  <2>. QED
    BY <2>3
<1>3. ASSUME NEW r \in Routees,
             \/ AnswerCall(r) \/ SuspendRoutee(r) \/ RestartRoutee(r)
             \/ \E kind \in Failing : FailCall(r, kind)
      PROVE  mailbox' = mailbox
  BY <1>3 DEF AnswerCall, FailCall, SuspendRoutee, RestartRoutee
<1>4. ASSUME NEW p \in Providers, RouterStep(p)
      PROVE  mailbox' = mailbox
  BY <1>4 DEF RouterStep, Escalate, RestartRouter
<1>. QED
  BY <1>1, <1>2, <1>3, <1>4 DEF PoolStep, RouteeStep

\* A call that is absent from a routee stays absent, whichever routee or
\* router takes a step.
LEMMA AbsentStays ==
  ASSUME PoolTypeOK, PoolStep, NEW q \in Routees, NEW c \in Calls, Absent(q, c)
  PROVE  Absent(q, c)'
<1>1. ASSUME NEW r \in Routees,
             AnswerCall(r) \/ \E kind \in Failing : FailCall(r, kind)
      PROVE  running'[q] # c
  BY <1>1, PoolAssumption DEF PoolTypeOK, Absent, AnswerCall, FailCall
<1>2. ASSUME NEW r \in Routees, BeginCall(r)
      PROVE  running'[q] # c
  <2>1. Holds(mailbox[r], 1, Head(mailbox[r]).call)
    BY <1>2, HoldsHead DEF PoolTypeOK, BeginCall, Ready
  <2>2. r = q => Head(mailbox[r]).call # c
    BY <2>1 DEF Absent
  <2>. QED
    BY <1>2, <2>2 DEF PoolTypeOK, Absent, BeginCall
<1>3. ASSUME NEW r \in Routees,
             \/ ReportCounts(r) \/ SuspendRoutee(r) \/ RestartRoutee(r)
             \/ Tick(r)
      PROVE  running' = running
  BY <1>3 DEF ReportCounts, SuspendRoutee, RestartRoutee, Tick
<1>4. ASSUME NEW p \in Providers, RouterStep(p)
      PROVE  running' = running
  BY <1>4 DEF RouterStep, Escalate, RestartRouter
<1>5. running'[q] # c
  BY <1>1, <1>2, <1>3, <1>4 DEF PoolStep, RouteeStep, Absent
<1>6. \A i \in Nat : ~Holds(mailbox'[q], i, c)
  BY NothingAppears DEF Absent
<1>. QED
  BY <1>5, <1>6 DEF Absent

\* A routee neither executes nor answers a call that it does not have.
LEMMA AbsentNotRun ==
  ASSUME PoolTypeOK, NEW r \in Routees, RouteeStep(r) \/ Tick(r),
         NEW c \in Calls, Absent(r, c)
  PROVE  executed'[c] = executed[c] /\ replied'[c] = replied[c]
<1>1. CASE AnswerCall(r) \/ \E kind \in Failing : FailCall(r, kind)
  <2>1. running[r] \in Calls /\ running[r] # c
    BY <1>1 DEF PoolTypeOK, Absent, AnswerCall, FailCall
  <2>2. executed'[c] = executed[c]
    BY <1>1, <2>1 DEF PoolTypeOK, AnswerCall, FailCall
  <2>3. replied'[c] = replied[c]
    BY <1>1, <2>1 DEF PoolTypeOK, AnswerCall, FailCall
  <2>. QED
    BY <2>2, <2>3
<1>2. CASE \/ BeginCall(r) \/ ReportCounts(r) \/ SuspendRoutee(r)
           \/ RestartRoutee(r) \/ Tick(r)
  BY <1>2 DEF BeginCall, ReportCounts, SuspendRoutee, RestartRoutee, Tick
<1>. QED
  BY <1>1, <1>2 DEF RouteeStep

\* Routing another call leaves an absent call absent.
LEMMA AbsentRoute ==
  ASSUME PoolTypeOK, NEW p \in Providers, NEW d \in Calls, NEW m \in Methods,
         Route(p, d, m), NEW q \in Routees, NEW c \in Calls, c # d, Absent(q, c)
  PROVE  Absent(q, c)'
<1> DEFINE t == <<p, next[p]>>
<1>1. t \in Routees /\ CallMethod(d, m) \in Message /\ mailbox[t] \in Seq(Message)
  BY DEF PoolTypeOK, Routees, Message, CallMethod
<1>2. ASSUME NEW i \in Nat PROVE ~Holds(mailbox'[q], i, c)
  <2>1. mailbox'[q] = IF q = t THEN Append(mailbox[t], CallMethod(d, m))
                      ELSE mailbox[q]
    BY <1>1 DEF PoolTypeOK, Route
  <2>2. CallMethod(d, m).call = d
    BY DEF CallMethod
  <2>. QED
    BY <1>1, <2>1, <2>2, HoldsAppend DEF Absent
<1>3. running' = running
  BY DEF Route
<1>. QED
  BY <1>2, <1>3 DEF Absent

\* Spent, said with Absent.
SpentAbsent(c) ==
  /\ phase[c] # "idle"
  /\ \A q \in requests : q[1] = c => q[2] \notin up
  /\ \A r \in Routees : r[1] \in up => Absent(r, c)
  /\ replied[c] > 0 => c \in answered

LEMMA SpentMeansAbsent ==
  ASSUME PoolTypeOK, up \subseteq Providers, NEW c \in Calls
  PROVE  Spent(c) <=> SpentAbsent(c)
<1>1. \A r \in Routees : InMail(r, c) <=> \E i \in Nat : Holds(mailbox[r], i, c)
  BY HoldsSomewhere DEF PoolTypeOK, InMail
<1>2. up \X Slots = {r \in Routees : r[1] \in up}
  BY DEF Routees
<1>3. (\A r \in up \X Slots : running[r] # c /\ ~InMail(r, c))
        <=> \A r \in Routees : r[1] \in up => Absent(r, c)
  BY <1>1, <1>2 DEF Absent
<1>. QED
  BY <1>3 DEF Spent, SpentAbsent

\* What makes a spent call stay so: no step sends it, brings it to a pool,
\* executes it or delivers an answer to it.
LEMMA SpentStep ==
  ASSUME BusInv, Next, NEW c \in Calls, SpentAbsent(c)
  PROVE  /\ SpentAbsent(c)'
         /\ executed'[c] = executed[c]
         /\ promise[c] # "answered" => promise'[c] # "answered"
<1>1. UNCHANGED poolVars =>
        /\ \A r \in Routees : Absent(r, c) => Absent(r, c)'
        /\ executed'[c] = executed[c] /\ replied'[c] = replied[c]
  BY DEF Absent, poolVars
<1>2. ASSUME NEW d \in Calls, NEW m \in Methods, Invoke(d, m)
      PROVE  /\ phase'[c] # "idle"
             /\ \A q \in requests' : q \in requests \/ q[1] # c
             /\ UNCHANGED <<promise, answered, up>> /\ UNCHANGED poolVars
  BY <1>2 DEF SpentAbsent, Invoke, BusInv, BusTypeOK
<1>3. ASSUME NEW d \in Calls,
             ProxyStep(d) \/ Interrupted(d) \/ AskTimeout(d) \/ DeliverAnswer(d)
      PROVE  /\ phase'[c] # "idle" /\ UNCHANGED <<requests, up>>
             /\ c \in answered => c \in answered'
             /\ promise[c] # "answered" => promise'[c] # "answered"
             /\ UNCHANGED poolVars
  BY <1>3 DEF SpentAbsent, ProxyStep, AwaitAnswer, AwaitTimeout, Interrupted,
     AskTimeout, DeliverAnswer, BusInv, BusTypeOK
<1>4. ASSUME NEW q \in requests, DeliverRequest(q)
      PROVE  /\ \A r \in Routees : Absent(r, c) => Absent(r, c)'
             /\ executed'[c] = executed[c]
             /\ replied'[c] = replied[c] /\ requests' \subseteq requests
             /\ UNCHANGED <<phase, promise, answered, up>>
  <2>1. q[1] \in Calls /\ q[2] \in Providers /\ q[3] \in Methods /\ q[1] # c
    BY <1>4 DEF SpentAbsent, DeliverRequest, BusInv, BusTypeOK, Request
  <2>2. CASE UNCHANGED poolVars
    BY <1>1, <1>4, <2>2 DEF DeliverRequest
  <2>3. CASE Route(q[2], q[1], q[3])
    BY <1>4, <2>1, <2>3, AbsentRoute DEF DeliverRequest, Route, BusInv, PoolInv
  <2>. QED
    BY <1>4, <2>2, <2>3 DEF DeliverRequest
<1>5. ASSUME \/ Lose
             \/ \E p \in Providers : Crash(p) \/ AddRoutee(p) \/ RemoveRoutee(p)
      PROVE  /\ requests' \subseteq requests /\ answered \subseteq answered'
             /\ up' \subseteq up
             /\ UNCHANGED <<phase, promise>> /\ UNCHANGED poolVars
  BY <1>5 DEF Lose, Crash, AddRoutee, RemoveRoutee
<1>6. ASSUME ProviderStep
      PROVE  /\ \A r \in Routees : Absent(r, c) => Absent(r, c)'
             /\ executed'[c] = executed[c] /\ replied'[c] = replied[c]
             /\ UNCHANGED <<phase, promise, requests, answered, up>>
  <2>1. \A r \in Routees : Absent(r, c) => Absent(r, c)'
    BY <1>6, ProviderStepIsPoolStep, AbsentStays DEF BusInv, PoolInv
  <2>2. ASSUME NEW r \in up \X Slots, RouteeStep(r) \/ Tick(r)
        PROVE  executed'[c] = executed[c] /\ replied'[c] = replied[c]
    <3>1. r \in Routees /\ r[1] \in up
      BY DEF Routees, BusInv, BusTypeOK
    <3>. QED
      BY <2>2, <3>1, AbsentNotRun DEF SpentAbsent, BusInv, PoolInv
  <2>3. ASSUME NEW p \in up, RouterStep(p)
        PROVE  executed' = executed /\ replied' = replied
    BY <2>3 DEF RouterStep, Escalate, RestartRouter
  <2>. QED
    BY <1>6, <2>1, <2>2, <2>3 DEF ProviderStep, busVars
<1>7. /\ phase'[c] # "idle" /\ up' \subseteq up
      /\ \A q \in requests' : q \in requests \/ q[1] # c
      /\ \A r \in Routees : Absent(r, c) => Absent(r, c)'
      /\ c \in answered => c \in answered'
      /\ executed'[c] = executed[c] /\ replied'[c] = replied[c]
      /\ promise[c] # "answered" => promise'[c] # "answered"
  BY <1>1, <1>2, <1>3, <1>4, <1>5, <1>6 DEF Next, SpentAbsent
<1>. QED
  BY <1>7 DEF SpentAbsent

\* A call that was lost, or whose provider has failed or crashed, is never
\* sent, executed or answered again, by any proxy, router or restart, for any
\* number of providers: FailsOver is violated on every instance that has two.
THEOREM NeverSentAgainHolds == Spec => NeverSentAgain
<1>1. ASSUME BusInv, BusInv', [Next]_vars
      PROVE  [\A c \in Calls : Spent(c) =>
                /\ Spent(c)'
                /\ executed'[c] = executed[c]
                /\ promise[c] # "answered" => promise'[c] # "answered"]_vars
  <2> SUFFICES ASSUME Next, NEW c \in Calls, Spent(c)
               PROVE  /\ Spent(c)'
                      /\ executed'[c] = executed[c]
                      /\ promise[c] # "answered" => promise'[c] # "answered"
    BY <1>1
  <2>1. SpentAbsent(c)
    BY <1>1, SpentMeansAbsent DEF BusInv, BusTypeOK, PoolInv
  <2>2. /\ SpentAbsent(c)' /\ executed'[c] = executed[c]
        /\ promise[c] # "answered" => promise'[c] # "answered"
    BY <1>1, <2>1, SpentStep
  <2>3. PoolTypeOK' /\ up' \subseteq Providers
    BY <1>1 DEF BusInv, BusTypeOK, PoolInv
  <2>4. \A r \in Routees : InMail(r, c)' <=> \E i \in Nat : Holds(mailbox'[r], i, c)
    BY <2>3, HoldsSomewhere DEF PoolTypeOK, InMail
  <2>5. up' \X Slots = {r \in Routees : r[1] \in up'}
    BY <2>3 DEF Routees
  <2>6. \A r \in up' \X Slots : running'[r] # c /\ ~InMail(r, c)'
    BY <2>2, <2>4, <2>5 DEF SpentAbsent, Absent
  <2>7. Spent(c)'
    BY <2>2, <2>6 DEF Spent, SpentAbsent
  <2>. QED
    BY <2>2, <2>7
<1>. QED
  BY <1>1, BusInvariant, PTL DEF Spec, NeverSentAgain
=============================================================================
