-------------------------- MODULE NodeStart_proofs -------------------------
(***************************************************************************)
(* Proofs about NodeStart, for every set of nodes and every configuration. *)
(***************************************************************************)
EXTENDS NodeStart, TLAPS

\* Where the Spring thread is after it was taken out of the wait set.
Awake == {"notified", "returned", "closed"}

\* A callback that has run either came too early or has woken start().
DoneWakes == \A n \in Nodes :
  callback[n] = "done" => (early[n] \/ main[n] \in Awake)

\* start() that goes on was woken by one of the two notifiers.
WokenByOne == \A n \in Nodes :
  main[n] \in {"notified", "returned"} =>
    (woken[n] = "helper" \/ callback[n] = "done")

\* The inductive invariant of the start.
StartInv == TypeOK /\ DoneWakes /\ WokenByOne

\* Before any thread of a node has run, the invariant holds.
LEMMA StartInitInv == Init => StartInv
BY DEF Init, StartInv, TypeOK, DoneWakes, WokenByOne, MainState

\* startSpecialActor creates no other actors than the three it names.
LEMMA ActorsType ==
  ASSUME NEW n \in Nodes
  PROVE  SpecialActors(n) \subseteq {"monitorClient", "esbCore", "monitorCore"}
BY DEF SpecialActors

\* Each step of the Spring thread but the last two moves it from one state
\* before the wait to the next one.
LEMMA StartStepInv ==
  ASSUME StartInv, NEW n \in Nodes, StartStep(n)
  PROVE  StartInv'
<1>1. CASE StartThread(n)
  BY <1>1 DEF StartInv, TypeOK, DoneWakes, WokenByOne, MainState, Awake,
              StartThread
<1>2. CASE CreateSystem(n)
  BY <1>2 DEF StartInv, TypeOK, DoneWakes, WokenByOne, MainState, Awake,
              CreateSystem
<1>3. CASE StartSpecialActor(n)
  <2>1. TypeOK'
    BY <1>3, ActorsType DEF StartInv, TypeOK, MainState, StartSpecialActor
  <2>2. DoneWakes' /\ WokenByOne'
    BY <1>3 DEF StartInv, TypeOK, DoneWakes, WokenByOne, Awake,
                StartSpecialActor
  <2>. QED
    BY <2>1, <2>2 DEF StartInv
<1>4. CASE RegisterOnMemberUp(n)
  BY <1>4 DEF StartInv, TypeOK, DoneWakes, WokenByOne, MainState, Awake,
              RegisterOnMemberUp
<1>5. CASE EnterWaitBlock(n)
  BY <1>5 DEF StartInv, TypeOK, DoneWakes, WokenByOne, MainState, Awake,
              EnterWaitBlock
<1>6. CASE Wait(n)
  BY <1>6 DEF StartInv, TypeOK, DoneWakes, WokenByOne, MainState, Awake, Wait
<1>7. CASE ReturnFromStart(n)
  BY <1>7 DEF StartInv, TypeOK, DoneWakes, WokenByOne, MainState, Awake,
              ReturnFromStart
<1>. QED
  BY <1>1, <1>2, <1>3, <1>4, <1>5, <1>6, <1>7 DEF StartStep

\* close() cancels a callback that has not run, and forgets none that has.
LEMMA CloseInv ==
  ASSUME StartInv, NEW n \in Nodes, Close(n)
  PROVE  StartInv'
BY DEF StartInv, TypeOK, DoneWakes, WokenByOne, MainState, Awake, Close

\* The notification of the callback wakes start() or is marked as too early.
LEMMA CallbackStepInv ==
  ASSUME StartInv, NEW n \in Nodes, CallbackStep(n)
  PROVE  StartInv'
<1>1. CASE EnterCallback(n)
  BY <1>1 DEF StartInv, TypeOK, DoneWakes, WokenByOne, MainState, Awake,
              EnterCallback
<1>2. CASE Notify(n)
  <2>1. CASE main[n] = "waiting"
    <3>1. TypeOK'
      BY <1>2, <2>1 DEF StartInv, TypeOK, MainState, Notify, WakeMain
    <3>2. DoneWakes'
      BY <1>2, <2>1 DEF StartInv, TypeOK, DoneWakes, Awake, Notify, WakeMain
    <3>3. WokenByOne'
      BY <1>2, <2>1 DEF StartInv, TypeOK, WokenByOne, Notify, WakeMain
    <3>. QED
      BY <3>1, <3>2, <3>3 DEF StartInv
  <2>2. CASE main[n] # "waiting"
    <3>1. TypeOK'
      BY <1>2, <2>2 DEF StartInv, TypeOK, MainState, Notify, WakeMain
    <3>2. DoneWakes'
      <4>1. early'[n] = TRUE /\ main' = main
        BY <1>2, <2>2 DEF StartInv, TypeOK, Notify, WakeMain
      <4>2. \A k \in Nodes : k # n =>
              early'[k] = early[k] /\ callback'[k] = callback[k]
        BY <1>2 DEF StartInv, TypeOK, Notify
      <4>. QED
        BY <4>1, <4>2 DEF StartInv, DoneWakes
    <3>3. WokenByOne'
      BY <1>2, <2>2 DEF StartInv, TypeOK, WokenByOne, Notify, WakeMain
    <3>. QED
      BY <3>1, <3>2, <3>3 DEF StartInv
  <2>. QED
    BY <2>1, <2>2
<1>. QED
  BY <1>1, <1>2 DEF CallbackStep

\* The end of the Thread object wakes start() only if it waits.
LEMMA TerminateThreadInv ==
  ASSUME StartInv, NEW n \in Nodes, TerminateThread(n)
  PROVE  StartInv'
BY DEF StartInv, TypeOK, DoneWakes, WokenByOne, MainState, Awake,
       TerminateThread, WakeMain

\* Membership changes touch neither the threads nor their monitor.
LEMMA ClusterStepInv ==
  ASSUME StartInv, NEW n \in Nodes, ClusterStep(n)
  PROVE  StartInv'
BY DEF StartInv, TypeOK, DoneWakes, WokenByOne, MainState, Awake,
       ClusterStep, Join, MemberUp

\* Every step of every node keeps the invariant of the start.
LEMMA StartNextInv == StartInv /\ [Next]_vars => StartInv'
<1> SUFFICES ASSUME StartInv, [Next]_vars PROVE StartInv'
  OBVIOUS
<1>1. CASE Next
  BY <1>1, StartStepInv, CloseInv, CallbackStepInv, TerminateThreadInv,
     ClusterStepInv DEF Next
<1>2. CASE UNCHANGED vars
  BY <1>2 DEF StartInv, TypeOK, DoneWakes, WokenByOne, vars
<1>. QED
  BY <1>1, <1>2

\* StartInv holds in every reachable state of the nodes.
THEOREM StartInvariant == Spec => []StartInv
BY StartInitInv, StartNextInv, PTL DEF Spec

\* start() of a node whose callback has run sits in wait() only if the
\* callback notified before it waited: for every number of nodes, the lost
\* notification is the only way to hang there.
THEOREM HangOnlyByLostNotifyHolds == Spec => []HangOnlyByLostNotify
<1>1. StartInv => HangOnlyByLostNotify
  BY DEF StartInv, DoneWakes, Awake, HangOnlyByLostNotify
<1>. QED
  BY <1>1, StartInvariant, PTL

\* start() that returned without its callback was woken by the end of the
\* Thread object it waits on.
THEOREM ReturnHasCauseHolds == Spec => []ReturnHasCause
<1>1. StartInv => ReturnHasCause
  BY DEF StartInv, WokenByOne, ReturnHasCause
<1>. QED
  BY <1>1, StartInvariant, PTL
=============================================================================
