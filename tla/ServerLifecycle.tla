--------------------------- MODULE ServerLifecycle --------------------------
(***************************************************************************)
(* The application servers of a node: ServerFactoryBean creates an actor   *)
(* for every @Server bean, on the Spring thread; the actor (ServerActor)   *)
(* sends itself a RUN, or has the scheduler send it, and calls the bean.   *)
(*                                                                         *)
(* One bean outlives all the ServerActor instances that call it: a hook of *)
(* the bean that throws restarts the actor (Akka's user guardian), whose   *)
(* constructor asks for a RUN again. When an instance is created or        *)
(* restarted, an exception stops the actor for good.                       *)
(***************************************************************************)
EXTENDS Naturals

CONSTANTS
  Servers,     \* beans with a @Server annotation: a context has some of them
  KindOf,      \* of a bean: see Kind
  ClassOf,     \* its class, whose name is the name of the actor
  Unsupported, \* beans of a socket type that is not TCP
  Throwing,    \* hooks that may throw: see Hook
  MaxFires,    \* bound: how often the timers of a periodic server fire
  NoServer

\* Not Schedulable; Schedulable without a period; with one.
Kind == {"plain", "delayed", "periodic"}

\* The methods of a bean that a ServerActor or the factory calls. "run"
\* stands for preRun, run and postRun. A postStop that throws is logged.
Hook == {"init", "preStart", "run", "preRestart", "postRestart"}

ASSUME ServerAssumption ==
  /\ KindOf \in [Servers -> Kind]
  /\ Unsupported \subseteq Servers
  /\ Throwing \subseteq Hook
  /\ MaxFires \in Nat
  /\ NoServer \notin Servers

VARIABLES
  boot,        \* the Spring context: "starting", "started", "failed", "closed"
  todo,        \* beans ServerFactoryBean has yet to go through
  bean,        \* the bean whose actor was created last, or NoServer
  hasActor,    \* beans whose setActor was called
  cell,        \* of the actor of a bean: see Cell
  mailbox,     \* how many RUNs are in its mailbox
  timers,      \* how many timers send it a RUN
  fired,       \* how often the timers of a periodic server have fired
  completed,   \* how many RUNs a server has completed
  life,        \* the bean was told to start, to stop, or neither
  failures,    \* history: how many RUNs of a periodic server have failed
  threw,       \* history: beans whose preRestart has thrown
  twice        \* history: beans told to start when they were not stopped

springVars == <<boot, todo, bean, hasActor>>
beanVars == <<life, threw, twice>>
queueVars == <<mailbox, timers, fired>>
doneVars == <<completed, failures>>
vars == <<springVars, cell, queueVars, doneVars, beanVars>>

Cell == {"none", "creating", "idle", "running", "failed", "stopped"}

TypeOK ==
  /\ boot \in {"starting", "started", "failed", "closed"}
  /\ todo \subseteq Servers
  /\ bean \in Servers \cup {NoServer}
  /\ hasActor \subseteq Servers
  /\ cell \in [Servers -> Cell]
  /\ mailbox \in [Servers -> Nat]
  /\ timers \in [Servers -> Nat]
  /\ fired \in [Servers -> Nat]
  /\ completed \in [Servers -> Nat]
  /\ failures \in [Servers -> Nat]
  /\ life \in [Servers -> {"new", "started", "stopped"}]
  /\ threw \subseteq Servers
  /\ twice \subseteq Servers

Init ==
  /\ boot = "starting"
  /\ todo \in SUBSET Servers
  /\ bean = NoServer
  /\ hasActor = {}
  /\ cell = [s \in Servers |-> "none"]
  /\ mailbox = [s \in Servers |-> 0]
  /\ timers = [s \in Servers |-> 0]
  /\ fired = [s \in Servers |-> 0]
  /\ completed = [s \in Servers |-> 0]
  /\ failures = [s \in Servers |-> 0]
  /\ life = [s \in Servers |-> "new"]
  /\ threw = {}
  /\ twice = {}

-----------------------------------------------------------------------------
(* The Spring thread: setApplicationContext of ServerFactoryBean.          *)

\* Mutant: the actors are named after the beans, not after their classes.
NameTaken_ByBean(s) == cell[s] \notin {"none", "stopped"}

\* A name is taken until the actor that has it is stopped.
NameTaken(s) == \E q \in Servers :
  ClassOf[q] = ClassOf[s] /\ cell[q] \notin {"none", "stopped"}

CreateActor(s) ==
  /\ boot = "starting"
  /\ bean = NoServer
  /\ s \in todo \ Unsupported
  /\ ~NameTaken(s)
  /\ todo' = todo \ {s}
  /\ bean' = s
  /\ cell' = [cell EXCEPT ![s] = "creating"]
  /\ UNCHANGED <<boot, hasActor>>
  /\ UNCHANGED doneVars
  /\ UNCHANGED queueVars
  /\ UNCHANGED beanVars

\* getActorClass throws for UDP, actorOf for a name that is taken.
RefuseServer(s) ==
  /\ boot = "starting"
  /\ bean = NoServer
  /\ s \in todo
  /\ s \in Unsupported \/ NameTaken(s)
  /\ boot' = "failed"
  /\ UNCHANGED <<todo, bean, hasActor, cell>>
  /\ UNCHANGED doneVars
  /\ UNCHANGED queueVars
  /\ UNCHANGED beanVars

\* The actor may be running by now.
SetActor ==
  /\ boot = "starting"
  /\ bean # NoServer
  /\ bean \notin hasActor
  /\ hasActor' = hasActor \cup {bean}
  /\ UNCHANGED <<boot, todo, bean, cell>>
  /\ UNCHANGED doneVars
  /\ UNCHANGED queueVars
  /\ UNCHANGED beanVars

InitServer ==
  /\ boot = "starting"
  /\ bean \in hasActor
  /\ \/ bean' = NoServer /\ UNCHANGED boot
     \/ "init" \in Throwing /\ boot' = "failed" /\ UNCHANGED bean
  /\ UNCHANGED <<todo, hasActor, cell>>
  /\ UNCHANGED doneVars
  /\ UNCHANGED queueVars
  /\ UNCHANGED beanVars

ServersDone ==
  /\ boot = "starting"
  /\ bean = NoServer
  /\ todo = {}
  /\ boot' = "started"
  /\ UNCHANGED <<todo, bean, hasActor, cell>>
  /\ UNCHANGED doneVars
  /\ UNCHANGED queueVars
  /\ UNCHANGED beanVars

\* AkkaEsbSystem.close, when the context is closed or has failed: the actor
\* system begins to stop its actors.
Close ==
  /\ boot \in {"started", "failed"}
  /\ boot' = "closed"
  /\ UNCHANGED <<todo, bean, hasActor, cell>>
  /\ UNCHANGED doneVars
  /\ UNCHANGED queueVars
  /\ UNCHANGED beanVars

-----------------------------------------------------------------------------
(* ServerActor.                                                            *)

\* Mutant: a Schedulable sends itself a RUN as well.
AskForRun_Both(s) ==
  /\ mailbox' = [mailbox EXCEPT ![s] = @ + 1]
  /\ timers' = [timers EXCEPT ![s] = IF KindOf[s] = "plain" THEN @ ELSE @ + 1]

\* Mutant: a server that is not periodic asks for nothing.
AskForRun_PeriodicOnly(s) ==
  /\ timers' = [timers EXCEPT ![s] =
                  IF KindOf[s] = "periodic" THEN @ + 1 ELSE @]
  /\ UNCHANGED mailbox

\* The constructor: a RUN to itself, or a timer. The timers that an earlier
\* instance has started are not cancelled.
AskForRun(s) ==
  \/ /\ KindOf[s] = "plain"
     /\ mailbox' = [mailbox EXCEPT ![s] = @ + 1]
     /\ UNCHANGED timers
  \/ /\ KindOf[s] # "plain"
     /\ timers' = [timers EXCEPT ![s] = @ + 1]
     /\ UNCHANGED mailbox

\* What is in the mailbox of a stopped actor is dropped, and its timers end
\* when they fire.
StopActor(s) ==
  /\ cell' = [cell EXCEPT ![s] = "stopped"]
  /\ mailbox' = [mailbox EXCEPT ![s] = 0]
  /\ timers' = [timers EXCEPT ![s] = 0]

\* The first instance: constructor, then preStart of the bean.
Construct(s) ==
  /\ cell[s] = "creating"
  /\ \/ /\ AskForRun(s)
        /\ cell' = [cell EXCEPT ![s] = "idle"]
        /\ life' = [life EXCEPT ![s] = "started"]
     \/ /\ "preStart" \in Throwing
        /\ StopActor(s)
        /\ UNCHANGED life
  /\ UNCHANGED <<fired, threw, twice>>
  /\ UNCHANGED doneVars
  /\ UNCHANGED springVars

\* The scheduler sends a RUN.
Fire(s) ==
  /\ timers[s] > 0
  /\ mailbox' = [mailbox EXCEPT ![s] = @ + 1]
  /\ \/ /\ KindOf[s] = "delayed"
        /\ timers' = [timers EXCEPT ![s] = @ - 1]
        /\ UNCHANGED fired
     \/ /\ KindOf[s] = "periodic"
        /\ fired[s] < MaxFires
        /\ fired' = [fired EXCEPT ![s] = @ + 1]
        /\ UNCHANGED timers
  /\ UNCHANGED cell
  /\ UNCHANGED doneVars
  /\ UNCHANGED springVars
  /\ UNCHANGED beanVars

\* onReceive of a RUN: preRun, run and postRun of the bean.
BeginRun(s) ==
  /\ cell[s] = "idle"
  /\ mailbox[s] > 0
  /\ mailbox' = [mailbox EXCEPT ![s] = @ - 1]
  /\ cell' = [cell EXCEPT ![s] = "running"]
  /\ UNCHANGED <<timers, fired>>
  /\ UNCHANGED doneVars
  /\ UNCHANGED springVars
  /\ UNCHANGED beanVars

EndRun(s) ==
  /\ cell[s] = "running"
  /\ cell' = [cell EXCEPT ![s] = "idle"]
  /\ completed' = [completed EXCEPT ![s] = @ + 1]
  /\ UNCHANGED failures
  /\ UNCHANGED queueVars
  /\ UNCHANGED springVars
  /\ UNCHANGED beanVars

\* The RUN is gone; the mailbox is suspended until the restart.
FailRun(s) ==
  /\ cell[s] = "running"
  /\ "run" \in Throwing
  /\ cell' = [cell EXCEPT ![s] = "failed"]
  /\ failures' = [failures EXCEPT ![s] =
                    IF KindOf[s] = "periodic" THEN @ + 1 ELSE @]
  /\ UNCHANGED completed
  /\ UNCHANGED queueVars
  /\ UNCHANGED springVars
  /\ UNCHANGED beanVars

\* Mutant: preRestart does not call super.preRestart.
PreRestart_NoSuper(s, fails) == life[s]

\* How preRestart leaves the bean: preRestart of the bean, then
\* super.preRestart, which calls postStop. If the first throws, the second is
\* not called.
PreRestart(s, fails) == IF fails THEN life[s] ELSE "stopped"

\* preStart of a bean that the old instance has left in state b.
PreStart(s, b) == twice' = IF b = "started" THEN twice \cup {s} ELSE twice

\* Mutant: postRestart does not call super.postRestart.
PostRestart_NoSuper(s, b) ==
  /\ life' = [life EXCEPT ![s] = b]
  /\ UNCHANGED twice

\* postRestart of the bean, then super.postRestart, which calls preStart.
PostRestart(s, b) ==
  /\ PreStart(s, b)
  /\ life' = [life EXCEPT ![s] = "started"]

\* A restart: preRestart of the old instance, the constructor and postRestart
\* of the new one. If preStart or postRestart of the bean throws, the actor
\* is stopped, with its postStop.
Restart(s) ==
  /\ cell[s] = "failed"
  /\ \E fails \in BOOLEAN :
       /\ fails => "preRestart" \in Throwing
       /\ threw' = IF fails THEN threw \cup {s} ELSE threw
       /\ \/ /\ AskForRun(s)
             /\ cell' = [cell EXCEPT ![s] = "idle"]
             /\ PostRestart(s, PreRestart(s, fails))
          \/ /\ "preStart" \in Throwing
             /\ PreStart(s, PreRestart(s, fails))
             /\ StopActor(s)
             /\ life' = [life EXCEPT ![s] = "stopped"]
          \/ /\ "postRestart" \in Throwing
             /\ StopActor(s)
             /\ life' = [life EXCEPT ![s] = "stopped"]
             /\ UNCHANGED twice
  /\ UNCHANGED fired
  /\ UNCHANGED doneVars
  /\ UNCHANGED springVars

\* The actor system shuts down: an actor ends its message and stops. Without
\* an instance there is no postStop.
Terminate(s) ==
  /\ boot = "closed"
  /\ cell[s] \in {"creating", "idle", "failed"}
  /\ StopActor(s)
  /\ life' = [life EXCEPT ![s] = IF cell[s] = "creating" THEN @ ELSE "stopped"]
  /\ UNCHANGED <<fired, threw, twice>>
  /\ UNCHANGED doneVars
  /\ UNCHANGED springVars

-----------------------------------------------------------------------------
SpringStep ==
  \/ \E s \in Servers : CreateActor(s) \/ RefuseServer(s)
  \/ SetActor \/ InitServer \/ ServersDone \/ Close

ActorStep(s) ==
  \/ Construct(s) \/ BeginRun(s) \/ EndRun(s) \/ FailRun(s)
  \/ Restart(s) \/ Terminate(s)

Next == SpringStep \/ \E s \in Servers : ActorStep(s) \/ Fire(s)

\* The dispatcher runs the actors, and the scheduler its timers. A bean's
\* run is assumed to return.
Fairness == \A s \in Servers : WF_vars(ActorStep(s)) /\ WF_vars(Fire(s))

Spec == Init /\ [][Next]_vars /\ Fairness

-----------------------------------------------------------------------------
(* Properties.                                                             *)

One(b) == IF b THEN 1 ELSE 0

\* The RUNs of a server that is not periodic, wherever they are, the failed
\* one that a restart will ask for again included.
Runs(s) == completed[s] + mailbox[s] + timers[s]
             + One(cell[s] \in {"running", "failed"})

Alive(s) == cell[s] \in {"idle", "running", "failed"}

\* What failures and restarts do to the RUNs. A server that is not periodic
\* is either done with its RUN for good or has exactly one to come. The
\* schedule of a periodic one is not cancelled and every restart starts one
\* more: after k failures, k + 1 schedules (one less until the restart) send
\* a RUN each in every period. Of what they have sent nothing is lost or
\* doubled: every RUN is queued, being run, completed or failed.
RunsConserved == \A s \in Servers : Alive(s) =>
  \/ /\ KindOf[s] # "periodic"
     /\ Runs(s) = 1
  \/ /\ KindOf[s] = "periodic"
     /\ timers[s] + One(cell[s] = "failed") = 1 + failures[s]
     /\ fired[s] = mailbox[s] + completed[s] + failures[s]
                     + One(cell[s] = "running")

\* The name of an actor is that of the class. So of two beans of one class
\* at most one has an actor that is not stopped: a context with both of them
\* starts only if the actor of the first has stopped by the time
\* ServerFactoryBean comes to the second, and then without that server.
OneOfAClass == \A s, q \in Servers :
  ( /\ s # q /\ ClassOf[s] = ClassOf[q]
    /\ cell[s] # "none" /\ cell[q] # "none" )
  => "stopped" \in {cell[s], cell[q]}

\* A server's run is called between preStart and postStop of the bean only,
\* also by the instances after a restart, and whichever hook has thrown.
RunWhileStarted == \A s \in Servers :
  cell[s] = "running" => life[s] = "started"

\* A bean is told to start while it is started only after its preRestart
\* has thrown: otherwise every preStart but the first follows a postStop.
StartsAlternate == twice \subseteq threw

\* A server whose actor was created gets to run, unless the actor is
\* stopped: a RUN that comes before init, or a failure, does not lose it.
EveryServerRuns == \A s \in Servers :
  cell[s] = "creating" ~> cell[s] \in {"running", "stopped"}
=============================================================================
