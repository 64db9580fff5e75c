----------------------- MODULE ServerLifecycle_proofs ----------------------
(***************************************************************************)
(* Proofs about ServerLifecycle, for every set of servers, whichever hooks *)
(* throw.                                                                  *)
(***************************************************************************)
EXTENDS ServerLifecycle, TLAPS

\* Before there is an instance, no RUN was asked for; and a bean that the
\* factory has yet to go through has no actor, not even a stopped one.
NothingBefore ==
  /\ \A s \in todo : cell[s] = "none"
  /\ \A s \in Servers : cell[s] \in {"none", "creating"} =>
       /\ mailbox[s] = 0 /\ timers[s] = 0 /\ fired[s] = 0
       /\ completed[s] = 0 /\ failures[s] = 0

\* An instance means a started bean. RunWhileStarted says so of a running
\* one only, which says nothing of the idle actor that takes up a RUN.
AliveStarted == \A s \in Servers : Alive(s) => life[s] = "started"

\* The inductive invariant of the servers.
ServerInv ==
  /\ TypeOK /\ NothingBefore /\ RunsConserved
  /\ AliveStarted /\ StartsAlternate /\ OneOfAClass

\* A context that has not begun to start has no actors.
LEMMA ServerInitInv == Init => ServerInv
BY DEF Init, ServerInv, TypeOK, NothingBefore, RunsConserved, AliveStarted,
       StartsAlternate, OneOfAClass, Alive, Cell

\* A step that touches no actor and no bean, and forgets none that is still
\* to be created, keeps the invariant if it keeps the types.
LEMMA FrameInv ==
  ASSUME ServerInv, TypeOK', todo' \subseteq todo,
         UNCHANGED <<cell, mailbox, timers, fired, completed, failures>>,
         UNCHANGED <<life, threw, twice>>
  PROVE  ServerInv'
<1>1. NothingBefore'
  BY DEF ServerInv, TypeOK, NothingBefore
<1>2. RunsConserved'
  BY DEF ServerInv, RunsConserved, Alive, Runs, One
<1>3. AliveStarted' /\ StartsAlternate' /\ OneOfAClass'
  BY DEF ServerInv, AliveStarted, Alive, StartsAlternate, OneOfAClass
<1>. QED
  BY <1>1, <1>2, <1>3 DEF ServerInv

\* A step of an actor that is there already keeps the names apart.
LEMMA NamesKept ==
  ASSUME ServerInv, NEW s \in Servers, cell[s] \notin {"none", "stopped"},
         NEW k \in Cell, cell' = [cell EXCEPT ![s] = k]
  PROVE  OneOfAClass'
BY DEF ServerInv, TypeOK, OneOfAClass

\* The Spring thread creates actors and asks for no RUN.
LEMMA SpringStepInv ==
  ASSUME ServerInv, SpringStep
  PROVE  ServerInv'
<1>1. ASSUME NEW s \in Servers, CreateActor(s)
      PROVE  ServerInv'
  <2>1. cell[s] = "none" /\ cell' = [cell EXCEPT ![s] = "creating"]
    BY <1>1 DEF CreateActor, ServerInv, NothingBefore
  <2>2. TypeOK'
    BY <1>1 DEF ServerInv, TypeOK, Cell, CreateActor, queueVars, doneVars,
       beanVars
  <2>3. NothingBefore'
    BY <1>1, <2>1 DEF ServerInv, TypeOK, NothingBefore, CreateActor, queueVars,
       doneVars
  <2>4. RunsConserved' /\ AliveStarted' /\ StartsAlternate'
    BY <1>1, <2>1 DEF ServerInv, TypeOK, RunsConserved, AliveStarted,
       StartsAlternate, Alive, Runs, One, CreateActor, queueVars, doneVars,
       beanVars
  <2>5. OneOfAClass'
    BY <1>1, <2>1 DEF ServerInv, TypeOK, OneOfAClass, CreateActor, NameTaken
  <2>. QED
    BY <2>2, <2>3, <2>4, <2>5 DEF ServerInv
<1>2. ASSUME \/ \E s \in Servers : RefuseServer(s)
             \/ SetActor \/ InitServer \/ ServersDone \/ Close
      PROVE  ServerInv'
  <2>1. /\ UNCHANGED <<todo, cell>>
        /\ UNCHANGED doneVars
        /\ UNCHANGED queueVars
        /\ UNCHANGED beanVars
    BY <1>2 DEF RefuseServer, SetActor, InitServer, ServersDone, Close
  <2>2. TypeOK'
    BY <1>2, <2>1 DEF ServerInv, TypeOK, queueVars, doneVars, beanVars,
       RefuseServer, SetActor, InitServer, ServersDone, Close
  <2>. QED
    BY <2>1, <2>2, FrameInv DEF queueVars, doneVars, beanVars
<1>. QED
  BY <1>1, <1>2 DEF SpringStep

\* Stopping an actor takes its server out of what the invariant speaks of.
LEMMA StopInv ==
  ASSUME ServerInv, NEW s \in Servers, s \notin todo, StopActor(s),
         cell[s] \notin {"none", "stopped"},
         UNCHANGED <<todo, fired, completed, failures>>,
         NEW v \in {"new", "started", "stopped"},
         life' = [life EXCEPT ![s] = v]
  PROVE  NothingBefore' /\ RunsConserved' /\ AliveStarted' /\ OneOfAClass'
<1>1. NothingBefore' /\ RunsConserved' /\ AliveStarted'
  BY DEF ServerInv, TypeOK, NothingBefore, RunsConserved, AliveStarted, Alive,
         Runs, One, StopActor
<1>2. OneOfAClass'
  BY NamesKept DEF StopActor, Cell
<1>. QED
  BY <1>1, <1>2

\* An actor that has taken no RUN yet, or whose last one has failed, asks
\* for one and is idle.
LEMMA AskInv ==
  ASSUME ServerInv, NEW s \in Servers, s \notin todo, AskForRun(s),
         UNCHANGED <<todo, fired, completed, failures>>,
         cell[s] \in {"creating", "failed"},
         cell' = [cell EXCEPT ![s] = "idle"],
         life' = [life EXCEPT ![s] = "started"]
  PROVE  NothingBefore' /\ RunsConserved' /\ AliveStarted' /\ OneOfAClass'
<1>1. /\ mailbox[s] \in Nat /\ timers[s] \in Nat /\ fired[s] \in Nat
      /\ completed[s] \in Nat /\ failures[s] \in Nat /\ KindOf[s] \in Kind
  BY ServerAssumption DEF ServerInv, TypeOK
<1>2. NothingBefore' /\ AliveStarted'
  BY DEF ServerInv, TypeOK, NothingBefore, AliveStarted, Alive, AskForRun
<1>3. ASSUME NEW q \in Servers, Alive(q)'
      PROVE  \/ KindOf[q] # "periodic" /\ Runs(q)' = 1
             \/ /\ KindOf[q] = "periodic"
                /\ timers'[q] + One(cell'[q] = "failed") = 1 + failures'[q]
                /\ fired'[q] = mailbox'[q] + completed'[q] + failures'[q]
                                + One(cell'[q] = "running")
  <2>1. CASE q # s
    BY <1>3, <2>1 DEF ServerInv, TypeOK, RunsConserved, Alive, Runs, One,
       AskForRun
  <2>2. CASE q = s
    BY <1>1, <2>2, ServerAssumption DEF ServerInv, TypeOK, NothingBefore,
       RunsConserved, Alive, Runs, One, AskForRun, Kind
  <2>. QED
    BY <2>1, <2>2
<1>4. OneOfAClass'
  BY NamesKept DEF Cell
<1>. QED
  BY <1>2, <1>3, <1>4 DEF RunsConserved, One

\* The actor of a server moves its RUN about, but keeps it.
LEMMA ActorStepInv ==
  ASSUME ServerInv, NEW s \in Servers, ActorStep(s)
  PROVE  ServerInv'
<1>0. s \notin todo
  BY DEF ServerInv, NothingBefore, ActorStep, Construct, BeginRun, EndRun,
         FailRun, Restart, Terminate
<1>1. CASE Construct(s)
  <2>1. TypeOK'
    BY <1>1 DEF ServerInv, TypeOK, Cell, Construct, AskForRun, StopActor,
       springVars, doneVars
  <2>2. StartsAlternate'
    BY <1>1 DEF ServerInv, StartsAlternate, Construct
  <2>3. CASE /\ AskForRun(s)
             /\ cell' = [cell EXCEPT ![s] = "idle"]
             /\ life' = [life EXCEPT ![s] = "started"]
    BY <1>0, <1>1, <2>1, <2>2, <2>3, AskInv
       DEF ServerInv, Construct, springVars, doneVars
  <2>4. CASE StopActor(s) /\ UNCHANGED life
    <3>1. life[s] \in {"new", "started", "stopped"}
          /\ life' = [life EXCEPT ![s] = life[s]]
      BY <2>4 DEF ServerInv, TypeOK
    <3>. QED
      BY <1>0, <1>1, <2>1, <2>2, <2>4, <3>1, StopInv
         DEF ServerInv, Construct, springVars, doneVars
  <2>. QED
    BY <1>1, <2>3, <2>4 DEF Construct
<1>2. CASE BeginRun(s)
  <2>1. TypeOK'
    BY <1>2 DEF ServerInv, TypeOK, Cell, BeginRun, springVars, doneVars,
       beanVars
  <2>2. NothingBefore'
    BY <1>2 DEF ServerInv, TypeOK, NothingBefore, BeginRun, springVars, doneVars
  <2>3. RunsConserved'
    BY <1>2 DEF ServerInv, TypeOK, RunsConserved, Alive, Runs, One, BeginRun,
       doneVars
  <2>4. AliveStarted' /\ StartsAlternate'
    BY <1>2 DEF ServerInv, TypeOK, AliveStarted, StartsAlternate, Alive,
       BeginRun, beanVars
  <2>5. OneOfAClass'
    BY <1>2, NamesKept DEF BeginRun, Cell
  <2>. QED
    BY <2>1, <2>2, <2>3, <2>4, <2>5 DEF ServerInv
<1>3. CASE EndRun(s)
  <2>1. TypeOK'
    BY <1>3 DEF ServerInv, TypeOK, Cell, EndRun, springVars, beanVars,
       queueVars
  <2>2. NothingBefore'
    BY <1>3 DEF ServerInv, TypeOK, NothingBefore, EndRun, springVars, queueVars
  <2>3. RunsConserved'
    BY <1>3 DEF ServerInv, TypeOK, RunsConserved, Alive, Runs, One,
       EndRun, queueVars
  <2>4. AliveStarted' /\ StartsAlternate'
    BY <1>3 DEF ServerInv, TypeOK, AliveStarted, StartsAlternate, Alive,
       EndRun, beanVars
  <2>5. OneOfAClass'
    BY <1>3, NamesKept DEF EndRun, Cell
  <2>. QED
    BY <2>1, <2>2, <2>3, <2>4, <2>5 DEF ServerInv
<1>4. CASE FailRun(s)
  <2>1. TypeOK'
    BY <1>4 DEF ServerInv, TypeOK, Cell, FailRun, springVars, beanVars,
       queueVars
  <2>2. NothingBefore'
    BY <1>4 DEF ServerInv, TypeOK, NothingBefore, FailRun, springVars,
       queueVars
  <2>3. RunsConserved'
    BY <1>4 DEF ServerInv, TypeOK, RunsConserved, Alive, Runs, One,
       FailRun, queueVars
  <2>4. AliveStarted' /\ StartsAlternate'
    BY <1>4 DEF ServerInv, TypeOK, AliveStarted, StartsAlternate, Alive,
       FailRun, beanVars
  <2>5. OneOfAClass'
    BY <1>4, NamesKept DEF FailRun, Cell
  <2>. QED
    BY <2>1, <2>2, <2>3, <2>4, <2>5 DEF ServerInv
<1>5. CASE Restart(s)
  <2>1. PICK fails \in BOOLEAN :
          /\ threw' = IF fails THEN threw \cup {s} ELSE threw
          /\ \/ /\ AskForRun(s)
                /\ cell' = [cell EXCEPT ![s] = "idle"]
                /\ PostRestart(s, PreRestart(s, fails))
             \/ /\ PreStart(s, PreRestart(s, fails))
                /\ StopActor(s)
                /\ life' = [life EXCEPT ![s] = "stopped"]
             \/ /\ StopActor(s)
                /\ life' = [life EXCEPT ![s] = "stopped"]
                /\ UNCHANGED twice
    BY <1>5 DEF Restart
  <2>2. StartsAlternate'
    BY <2>1 DEF ServerInv, StartsAlternate, PostRestart, PreStart, PreRestart
  <2>3. TypeOK'
    BY <1>5, <2>1 DEF ServerInv, TypeOK, Cell, Restart, PostRestart, PreStart,
       PreRestart, AskForRun, StopActor, springVars, doneVars
  <2>4. CASE /\ AskForRun(s)
             /\ cell' = [cell EXCEPT ![s] = "idle"]
             /\ PostRestart(s, PreRestart(s, fails))
    BY <1>0, <1>5, <2>2, <2>3, <2>4, AskInv
       DEF ServerInv, Restart, PostRestart, springVars, doneVars
  <2>5. CASE StopActor(s) /\ life' = [life EXCEPT ![s] = "stopped"]
    BY <1>0, <1>5, <2>2, <2>3, <2>5, StopInv
       DEF ServerInv, Restart, springVars, doneVars
  <2>. QED
    BY <2>1, <2>4, <2>5
<1>6. CASE Terminate(s)
  <2>1. TypeOK' /\ StartsAlternate'
    BY <1>6 DEF ServerInv, TypeOK, Cell, StartsAlternate, Terminate,
       StopActor, springVars, doneVars
  <2>2. PICK v \in {"new", "started", "stopped"} :
          life' = [life EXCEPT ![s] = v]
    BY <1>6 DEF ServerInv, TypeOK, Terminate
  <2>. QED
    BY <1>0, <1>6, <2>1, <2>2, StopInv
       DEF ServerInv, Terminate, springVars, doneVars
<1>. QED
  BY <1>1, <1>2, <1>3, <1>4, <1>5, <1>6 DEF ActorStep

\* The scheduler turns a delayed server's timer into its RUN, and sends one
\* more to a periodic server.
LEMMA FireInv ==
  ASSUME ServerInv, NEW s \in Servers, Fire(s)
  PROVE  ServerInv'
<1>1. TypeOK'
  BY DEF ServerInv, TypeOK, Fire, springVars, doneVars, beanVars
<1>2. NothingBefore'
  BY DEF ServerInv, TypeOK, NothingBefore, Fire, springVars, doneVars
<1>3. RunsConserved'
  <2>1. ASSUME NEW q \in Servers, q # s
        PROVE  /\ mailbox'[q] = mailbox[q] /\ timers'[q] = timers[q]
               /\ fired'[q] = fired[q]
    BY <2>1 DEF ServerInv, TypeOK, Fire
  <2>2. /\ mailbox[s] \in Nat /\ timers[s] \in Nat /\ fired[s] \in Nat
        /\ completed[s] \in Nat /\ failures[s] \in Nat
    BY DEF ServerInv, TypeOK
  <2>3. /\ mailbox'[s] = mailbox[s] + 1
        /\ \/ /\ KindOf[s] # "periodic"
              /\ timers'[s] = timers[s] - 1
           \/ /\ KindOf[s] = "periodic"
              /\ timers'[s] = timers[s] /\ fired'[s] = fired[s] + 1
    BY DEF ServerInv, TypeOK, Fire
  <2>4. UNCHANGED <<cell, completed, failures>>
    BY DEF Fire, doneVars
  <2>5. ASSUME NEW q \in Servers, q # s, Alive(q)'
        PROVE  \/ KindOf[q] # "periodic" /\ Runs(q)' = 1
               \/ /\ KindOf[q] = "periodic"
                  /\ timers'[q] + One(cell'[q] = "failed") = 1 + failures'[q]
                  /\ fired'[q] = mailbox'[q] + completed'[q] + failures'[q]
                                  + One(cell'[q] = "running")
    BY <2>1, <2>4, <2>5 DEF ServerInv, RunsConserved, Alive, Runs, One
  <2>6. ASSUME Alive(s)'
        PROVE  \/ KindOf[s] # "periodic" /\ Runs(s)' = 1
               \/ /\ KindOf[s] = "periodic"
                  /\ timers'[s] + One(cell'[s] = "failed") = 1 + failures'[s]
                  /\ fired'[s] = mailbox'[s] + completed'[s] + failures'[s]
                                  + One(cell'[s] = "running")
    BY <2>2, <2>3, <2>4, <2>6 DEF ServerInv, RunsConserved, Alive, Runs, One
  <2>. QED
    BY <2>5, <2>6 DEF RunsConserved, One
<1>4. AliveStarted' /\ StartsAlternate' /\ OneOfAClass'
  BY DEF ServerInv, AliveStarted, StartsAlternate, OneOfAClass, Alive, Fire,
         beanVars
<1>. QED
  BY <1>1, <1>2, <1>3, <1>4 DEF ServerInv

\* ServerInv is an invariant of the application servers.
THEOREM ServerInvariant == Spec => []ServerInv
<1>1. Init => ServerInv
  BY ServerInitInv
<1>2. ServerInv /\ [Next]_vars => ServerInv'
  <2>1. ServerInv /\ Next => ServerInv'
    BY SpringStepInv, ActorStepInv, FireInv DEF Next
  <2>2. ServerInv /\ UNCHANGED vars => ServerInv'
    <3>. SUFFICES ASSUME ServerInv, UNCHANGED vars
                  PROVE  ServerInv'
      OBVIOUS
    <3>1. TypeOK'
      BY DEF ServerInv, TypeOK, vars, springVars, queueVars, doneVars,
         beanVars
    <3>. QED
      BY <3>1, FrameInv DEF vars, springVars, queueVars, doneVars,
         beanVars
  <2>. QED
    BY <2>1, <2>2
<1>. QED
  BY <1>1, <1>2, PTL DEF Spec

\* However often servers fail and are restarted, a server that is not
\* periodic completes its RUN once at most and still has it otherwise; one
\* that is periodic has a schedule more for every failure, and each RUN these
\* have sent is queued, being run, completed or failed.
THEOREM RunsConservedHolds == Spec => []RunsConserved
BY ServerInvariant, PTL DEF ServerInv

\* Whichever hooks throw, run is called between preStart and postStop only.
THEOREM RunWhileStartedHolds == Spec => []RunWhileStarted
<1>1. ServerInv => RunWhileStarted
  BY DEF ServerInv, AliveStarted, Alive, RunWhileStarted
<1>. QED
  BY <1>1, ServerInvariant, PTL

\* A bean is told to start while started only after its preRestart has thrown.
THEOREM StartsAlternateHolds == Spec => []StartsAlternate
BY ServerInvariant, PTL DEF ServerInv

\* Of two beans of one class at most one has an actor that is not stopped,
\* in whatever order the Spring thread and the actors take their steps.
THEOREM OneOfAClassHolds == Spec => []OneOfAClass
BY ServerInvariant, PTL DEF ServerInv
=============================================================================
