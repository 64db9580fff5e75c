-------------------------- MODULE ProtocolRegistry -------------------------
(***************************************************************************)
(* How the services of a node are registered: the Spring thread runs       *)
(* ConsumerFactoryBean.postProcessBeanFactory and then                     *)
(* ProviderFactoryBean.setApplicationContext, which go through             *)
(* ProtocolFactory to the protocols; the default protocol hands a provider *)
(* over to RpcServerActor by a message, and RpcServerActor creates a pool  *)
(* of actors for it, named after the service interface.                    *)
(*                                                                         *)
(* The Spring thread never learns what RpcServerActor made of a provider.  *)
(* An interface that is provided twice makes RpcServerActor fail on the    *)
(* name; its restart stops all the pools it has created before (Akka's     *)
(* default preRestart), and nobody provides them again.                    *)
(***************************************************************************)
EXTENDS Naturals, Sequences

CONSTANTS
  Interfaces,    \* the service interfaces, by name
  ScanResults,   \* what scanPackages may find, one item per occurrence
  Beans,         \* beans with a @Provider annotation
  Contexts,      \* which of them a Spring context may have
  InterfaceOf,   \* interfaces[0] of a bean
  ProtocolsOf,   \* the protocol() names of its annotation, in order
  Malformed,     \* beans without an interface or behind a proxy class
  NoBean

\* ProtocolFactory.initialise: the protocols there are besides the default.
Known == {"webservice", "restful"}
Protocol == Known \cup {"default"}

ASSUME RegistryAssumption ==
  /\ ScanResults \subseteq Seq(Interfaces)
  /\ Contexts \subseteq SUBSET Beans
  /\ InterfaceOf \in [Beans -> Interfaces]
  /\ ProtocolsOf \in [Beans -> Seq(STRING)]
  /\ Malformed \subseteq Beans
  /\ NoBean \notin Beans

VARIABLES
  boot,         \* where the Spring thread is
  scan,         \* interfaces ConsumerFactoryBean has yet to go through
  todo,         \* beans ProviderFactoryBean has yet to go through
  bean,         \* the bean in ProtocolFactory.provide, or NoBean
  names,        \* the protocol names it has yet to go through
  singletons,   \* interfaces registered as proxies in the bean factory
  current,      \* keys of AkkaEsbSystem.currentProtocols
  consumers,    \* AbstractProtocol.consumers of the default protocol
  providers,    \* AbstractProtocol.providers, per protocol
  endpoints,    \* interfaces at whose address a web service was created
  resources,    \* interfaces given to the JAX-RS server factory
  restServer,   \* interfaces the running JAX-RS server serves
  rpcServers,   \* how many RpcServerActors were created
  inbox,        \* mailbox of RpcServerActor: the providers it was told
  server,       \* RpcServerActor: "running", "failed" or "stopped"
  pools,        \* the bean served by the pool of an interface, or NoBean
  told          \* history: how often RpcServerActor was told an interface

springVars == <<boot, scan, todo, bean, names>>
protoVars == <<singletons, current, consumers, providers, endpoints, resources,
               restServer, rpcServers>>
mailVars == <<inbox, told>>
actorVars == <<server, pools>>
vars == <<springVars, protoVars, mailVars, actorVars>>

TypeOK ==
  /\ boot \in {"consuming", "providing", "started", "failed"}
  /\ scan \in Seq(Interfaces)
  /\ todo \subseteq Beans
  /\ bean \in Beans \cup {NoBean}
  /\ names \in Seq(STRING)
  /\ singletons \subseteq Interfaces
  /\ current \subseteq Protocol
  /\ consumers \subseteq Interfaces
  /\ providers \in [Protocol -> SUBSET Interfaces]
  /\ endpoints \subseteq Interfaces
  /\ resources \subseteq Interfaces
  /\ restServer \subseteq Interfaces
  /\ rpcServers \in Nat
  /\ inbox \in Seq(Beans)
  /\ server \in {"running", "failed", "stopped"}
  /\ pools \in [Interfaces -> Beans \cup {NoBean}]
  /\ told \in [Interfaces -> Nat]

Init ==
  /\ boot = "consuming"
  /\ scan \in ScanResults
  /\ todo \in Contexts
  /\ bean = NoBean
  /\ names = <<>>
  /\ singletons = {}
  /\ current = {}
  /\ consumers = {}
  /\ providers = [n \in Protocol |-> {}]
  /\ endpoints = {}
  /\ resources = {}
  /\ restServer = {}
  /\ rpcServers = 0
  /\ inbox = <<>>
  /\ server = "running"
  /\ pools = [i \in Interfaces |-> NoBean]
  /\ told = [i \in Interfaces |-> 0]

-----------------------------------------------------------------------------
(* ProtocolFactory.                                                        *)

\* getDefaultProtocol: DefaultProtocol is created with its RpcServerActor on
\* the first use and found in currentProtocols afterwards.
GetDefaultProtocol ==
  /\ current' = current \cup {"default"}
  /\ rpcServers' = IF "default" \in current THEN rpcServers ELSE rpcServers + 1

\* Mutant: a name that is not known is cached like one that is.
Finds_Unknown(name) == TRUE

\* The lookup of a protocol that provide names: in currentProtocols, or
\* among the known ones, which puts it into currentProtocols.
Finds(name) == name \in current \cup Known

\* ProviderBean.getName: the name of the interface.
Name(b) == InterfaceOf[b]

\* AbstractProtocol.provide remembers the name before doProvide is called.
Remember(n, b) == providers' = [providers EXCEPT ![n] = @ \cup {Name(b)}]

\* AbstractProtocol.consume remembers the name of the ConsumerBean;
\* doConsume of the default protocol does nothing.
RememberConsumer(i) == consumers' = consumers \cup {i}

\* doProvide of the three protocols: a message to RpcServerActor, a web
\* service that is created at once, a resource of the JAX-RS server to be.
TellRpcServer(n, b) ==
  \/ /\ n = "default"
     /\ inbox' = Append(inbox, b)
     /\ told' = [told EXCEPT ![Name(b)] = @ + 1]
  \/ n # "default" /\ UNCHANGED mailVars
CreateEndpoint(n, b) == endpoints' =
  IF n = "webservice" THEN endpoints \cup {Name(b)} ELSE endpoints
AddResource(n, b) == resources' =
  IF n = "restful" THEN resources \cup {Name(b)} ELSE resources

-----------------------------------------------------------------------------
(* The Spring thread.                                                      *)

\* postProcessBeanFactory, one interface: a proxy with a router of its own
\* is registered as a singleton, and the default protocol is told. A second
\* registration under one name throws, and the context does not start.
Consume ==
  /\ boot = "consuming"
  /\ scan # <<>>
  /\ LET i == Head(scan) IN
       \/ /\ i \notin singletons
          /\ singletons' = singletons \cup {i}
          /\ RememberConsumer(i)
          /\ GetDefaultProtocol
          /\ scan' = Tail(scan)
          /\ UNCHANGED boot
       \/ /\ i \in singletons
          /\ boot' = "failed"
          /\ UNCHANGED <<scan, singletons, consumers, current, rpcServers>>
  /\ UNCHANGED <<todo, bean, names, providers, endpoints, resources,
                 restServer, inbox, told>>
  /\ UNCHANGED actorVars

\* The bean factory is processed, beans are created next.
ConsumersDone ==
  /\ boot = "consuming"
  /\ scan = <<>>
  /\ boot' = "providing"
  /\ UNCHANGED <<scan, todo, bean, names, inbox, told>>
  /\ UNCHANGED protoVars
  /\ UNCHANGED actorVars

\* setApplicationContext, one bean: its annotation and first interface are
\* read, and provide begins with the default protocol, which remembers the
\* name and tells RpcServerActor.
ProvideDefault(b) ==
  /\ boot = "providing"
  /\ bean = NoBean
  /\ b \in todo \ Malformed
  /\ todo' = todo \ {b}
  /\ bean' = b
  /\ names' = ProtocolsOf[b]
  /\ GetDefaultProtocol
  /\ Remember("default", b)
  /\ TellRpcServer("default", b)
  /\ UNCHANGED <<boot, scan, singletons, consumers, endpoints, resources,
                 restServer>>
  /\ UNCHANGED actorVars

\* A bean whose class has no annotation of its own, or no interface.
RefuseBean(b) ==
  /\ boot = "providing"
  /\ bean = NoBean
  /\ b \in todo \cap Malformed
  /\ boot' = "failed"
  /\ UNCHANGED <<scan, todo, bean, names, inbox, told>>
  /\ UNCHANGED protoVars
  /\ UNCHANGED actorVars

\* provide, one protocol name that is found: AbstractProtocol.provide
\* remembers the interface, then doProvide publishes a web service at once,
\* or adds a resource to the JAX-RS server to be.
ProvideNamed ==
  /\ boot = "providing"
  /\ bean # NoBean
  /\ names # <<>>
  /\ Finds(Head(names))
  /\ LET n == Head(names)
     IN /\ current' = current \cup {n}
        /\ Remember(n, bean)
        /\ TellRpcServer(n, bean)
        /\ CreateEndpoint(n, bean)
        /\ AddResource(n, bean)
  /\ names' = Tail(names)
  /\ UNCHANGED <<boot, scan, todo, bean, singletons, consumers, restServer,
                 rpcServers>>
  /\ UNCHANGED actorVars

\* provide throws: a ProtocolException for a name that is not found (the
\* annotation's default "" is one), or the web service cannot be created.
ProvideFails ==
  /\ boot = "providing"
  /\ bean # NoBean
  /\ names # <<>>
  /\ \/ /\ ~Finds(Head(names))
        /\ UNCHANGED <<current, providers>>
     \/ /\ Head(names) = "webservice"
        /\ current' = current \cup {"webservice"}
        /\ Remember("webservice", bean)
  /\ boot' = "failed"
  /\ UNCHANGED <<scan, todo, bean, names, singletons, consumers, endpoints,
                 resources, restServer, rpcServers, inbox, told>>
  /\ UNCHANGED actorVars

BeanDone ==
  /\ boot = "providing"
  /\ bean # NoBean
  /\ names = <<>>
  /\ bean' = NoBean
  /\ UNCHANGED <<boot, scan, todo, names, inbox, told>>
  /\ UNCHANGED protoVars
  /\ UNCHANGED actorVars

\* Mutant: the protocols are started while beans remain to be provided.
StartProtocols_InLoop ==
  /\ boot = "providing"
  /\ bean = NoBean
  /\ \/ /\ boot' = IF todo = {} THEN "started" ELSE boot
        /\ restServer' = resources
     \/ /\ resources # {}
        /\ boot' = "failed"
        /\ UNCHANGED restServer
  /\ UNCHANGED <<scan, todo, bean, names, singletons, current, consumers,
                 providers, endpoints, resources, rpcServers, inbox,
                 told>>
  /\ UNCHANGED actorVars

\* RestServiceProtocol.start: the JAX-RS server is created if there is a
\* resource, which may fail.
StartRest ==
  \/ /\ boot' = "started"
     /\ restServer' = resources
  \/ /\ resources # {}
     /\ boot' = "failed"
     /\ UNCHANGED restServer

\* ProtocolFactory.start after the last bean: start() of the web service
\* protocol does nothing.
StartProtocols ==
  /\ boot = "providing"
  /\ bean = NoBean
  /\ todo = {}
  /\ StartRest
  /\ UNCHANGED <<scan, todo, bean, names, singletons, current, consumers,
                 providers, endpoints, resources, rpcServers, inbox,
                 told>>
  /\ UNCHANGED actorVars

\* An exception while beans are created ends the refresh of the context as a
\* BeansException, and Spring destroys the beans it has created:
\* AkkaEsbSystem.close() shuts the actor system down. The
\* IllegalStateException of registerSingleton, with consumers left to go
\* through, is none: it leaves the refresh and the actor system stays up.
CloseContext ==
  /\ boot = "failed" /\ scan = <<>>
  /\ server # "stopped"
  /\ server' = "stopped"
  /\ pools' = [i \in Interfaces |-> NoBean]
  /\ UNCHANGED mailVars
  /\ UNCHANGED springVars
  /\ UNCHANGED protoVars

-----------------------------------------------------------------------------
(* RpcServerActor.                                                         *)

\* Mutant: all pools are given one and the same name.
CreatePool_OneName ==
  /\ server = "running"
  /\ inbox # <<>>
  /\ LET b == Head(inbox)
         i == Name(b)
     IN \/ /\ \A j \in Interfaces : pools[j] = NoBean
           /\ pools' = [pools EXCEPT ![i] = b]
           /\ UNCHANGED server
        \/ /\ \E j \in Interfaces : pools[j] # NoBean
           /\ server' = "failed"
           /\ UNCHANGED pools
  /\ inbox' = Tail(inbox)
  /\ UNCHANGED told
  /\ UNCHANGED springVars
  /\ UNCHANGED protoVars

\* onReceive of a ProviderBean: a pool is created under the name of the
\* interface; a name in use throws, and the message is gone.
CreatePool ==
  /\ server = "running"
  /\ inbox # <<>>
  /\ LET b == Head(inbox)
         i == Name(b)
     IN \/ /\ pools[i] = NoBean
           /\ pools' = [pools EXCEPT ![i] = b]
           /\ UNCHANGED server
        \/ /\ pools[i] # NoBean
           /\ server' = "failed"
           /\ UNCHANGED pools
  /\ inbox' = Tail(inbox)
  /\ UNCHANGED told
  /\ UNCHANGED springVars
  /\ UNCHANGED protoVars

\* The user guardian restarts it: preRestart stops every child.
RestartServer ==
  /\ server = "failed"
  /\ server' = "running"
  /\ pools' = [i \in Interfaces |-> NoBean]
  /\ UNCHANGED mailVars
  /\ UNCHANGED springVars
  /\ UNCHANGED protoVars

-----------------------------------------------------------------------------
SpringStep ==
  \/ Consume \/ ConsumersDone
  \/ (\E b \in Beans : ProvideDefault(b) \/ RefuseBean(b))
  \/ ProvideNamed \/ ProvideFails \/ BeanDone \/ StartProtocols
  \/ CloseContext

ServerStep == CreatePool \/ RestartServer

Next == SpringStep \/ ServerStep

\* The Spring thread and the dispatcher of the actor system run.
Fairness == WF_vars(SpringStep) /\ WF_vars(ServerStep)

Spec == Init /\ [][Next]_vars /\ Fairness

-----------------------------------------------------------------------------
(* Properties.                                                             *)

\* Beans are provided and not yet seen by RpcServerActor.
Waiting(i) == \E k \in 1 .. Len(inbox) : Name(inbox[k]) = i

\* RpcServerActor was told some interface twice: two beans provide it, or
\* one bean names the default protocol as well.
Duplicate == \E i \in Interfaces : told[i] > 1

\* What the default protocol remembers as provided has a pool, or is on its
\* way to RpcServerActor, until the context is closed: as long as no
\* interface is provided twice, no failure of any other bean, of any other
\* protocol or of the boot loses a registration.
LostOnlyByDuplicate == \A i \in providers["default"] :
  pools[i] # NoBean \/ Waiting(i) \/ server = "stopped" \/ Duplicate

\* One server has all the services of a protocol: the default protocol, and
\* with it RpcServerActor, is created once, however consumers and providers
\* come; the JAX-RS server that runs serves every interface that was provided
\* as restful, and it runs only after all beans were provided.
OneServerForAll ==
  /\ rpcServers <= 1
  /\ restServer # {} => /\ restServer = providers["restful"]
                        /\ todo = {} /\ boot = "started"

\* An interface that the default protocol was given gets its pool, however
\* the Spring thread and RpcServerActor interleave, unless the boot fails or
\* some interface is provided twice.
PoolUnlessDuplicate == \A i \in Interfaces :
  i \in providers["default"]
    ~> (pools[i] # NoBean \/ boot = "failed" \/ Duplicate)
=============================================================================
