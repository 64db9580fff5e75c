---------------------- MODULE ProtocolRegistry_proofs ----------------------
(***************************************************************************)
(* Proofs about ProtocolRegistry, for every set of beans, of interfaces    *)
(* and of protocol names, and every order in which the Spring thread and   *)
(* RpcServerActor work.                                                    *)
(***************************************************************************)
EXTENDS ProtocolRegistry, SequenceTheorems, TLAPS

\* The default protocol is created with its RpcServerActor, once.
ServerWithProtocol == rpcServers = IF "default" \in current THEN 1 ELSE 0

\* The JAX-RS server to be has a resource for every interface that the REST
\* protocol remembers; it runs once the boot is over, and then no bean is
\* left.
RestComplete ==
  /\ resources = providers["restful"]
  /\ restServer # {} =>
       restServer = resources /\ todo = {} /\ boot = "started"

\* An interface RpcServerActor was told at most once is in its mailbox or has
\* a pool, not both, and is nowhere if it was not told.
ToldOnce == \A i \in Interfaces :
  /\ told[i] = 0 => ~Waiting(i) /\ pools[i] = NoBean
  /\ told[i] <= 1 =>
       /\ pools[i] # NoBean => ~Waiting(i)
       /\ \A j \in 1 .. Len(inbox), k \in 1 .. Len(inbox) :
            Name(inbox[j]) = i /\ Name(inbox[k]) = i => j = k

\* RpcServerActor fails only if it was told an interface twice.
FailsByDuplicate == server = "failed" => Duplicate

\* The books of what RpcServerActor was told, and the inductive invariant.
ToldBooks == ToldOnce /\ FailsByDuplicate /\ LostOnlyByDuplicate
RegistryInv == TypeOK /\ ServerWithProtocol /\ RestComplete /\ ToldBooks

\* The variables that RpcServerActor shares with the Spring thread.
sharedVars == <<inbox, told, server, pools>>

-----------------------------------------------------------------------------
(* The mailbox of RpcServerActor.                                          *)

\* The name of a bean is an interface.
LEMMA NameType == ASSUME NEW b \in Beans PROVE Name(b) \in Interfaces
BY RegistryAssumption DEF Name

\* Interface i is waiting in mailbox s.
WaitsIn(s, i) == \E k \in 1 .. Len(s) : Name(s[k]) = i

\* A bean told last is the only one of its name if none was waiting.
LEMMA TellWaits ==
  ASSUME NEW s \in Seq(Beans), NEW b \in Beans, NEW i
  PROVE  /\ WaitsIn(Append(s, b), i) <=> WaitsIn(s, i) \/ Name(b) = i
         /\ (\A j \in 1 .. Len(s), k \in 1 .. Len(s) :
               Name(s[j]) = i /\ Name(s[k]) = i => j = k)
            /\ (Name(b) = i => ~WaitsIn(s, i)) =>
              \A j \in 1 .. Len(Append(s, b)), k \in 1 .. Len(Append(s, b)) :
                Name(Append(s, b)[j]) = i /\ Name(Append(s, b)[k]) = i => j = k
<1> DEFINE t == Append(s, b)
<1>1. /\ Len(s) \in Nat /\ Len(t) = Len(s) + 1 /\ t[Len(s) + 1] = b
      /\ \A k \in 1 .. Len(s) : t[k] = s[k]
  BY AppendProperties, LenProperties
<1>2. \A k \in 1 .. Len(t) : k \in 1 .. Len(s) \/ k = Len(s) + 1
  BY <1>1
<1> HIDE DEF t
<1>3. WaitsIn(t, i) <=> WaitsIn(s, i) \/ Name(b) = i
  BY <1>1, <1>2 DEF WaitsIn
<1>4. ASSUME \A j \in 1 .. Len(s), k \in 1 .. Len(s) :
               Name(s[j]) = i /\ Name(s[k]) = i => j = k,
             Name(b) = i => ~WaitsIn(s, i),
             NEW j \in 1 .. Len(t), NEW k \in 1 .. Len(t),
             Name(t[j]) = i, Name(t[k]) = i
      PROVE  j = k
  BY <1>1, <1>2, <1>4 DEF WaitsIn
<1>. QED
  BY <1>3, <1>4 DEF t

\* What waits after the head was taken, waited before; what waited before is
\* the head or waits still; and the head waits still only if it was there
\* twice.
LEMMA TakeWaits ==
  ASSUME NEW s \in Seq(Beans), s # << >>, NEW i
  PROVE  /\ WaitsIn(Tail(s), i) => WaitsIn(s, i)
         /\ WaitsIn(s, i) => WaitsIn(Tail(s), i) \/ Name(Head(s)) = i
         /\ WaitsIn(s, Name(Head(s)))
         /\ (\A j \in 1 .. Len(s), k \in 1 .. Len(s) :
               Name(s[j]) = i /\ Name(s[k]) = i => j = k) =>
              /\ Name(Head(s)) = i => ~WaitsIn(Tail(s), i)
              /\ \A j \in 1 .. Len(Tail(s)), k \in 1 .. Len(Tail(s)) :
                   Name(Tail(s)[j]) = i /\ Name(Tail(s)[k]) = i => j = k
<1> DEFINE t == Tail(s)
<1>1. /\ Len(s) \in Nat \ {0} /\ Len(t) = Len(s) - 1 /\ Head(s) = s[1]
      /\ \A k \in 1 .. Len(t) : t[k] = s[k + 1]
  BY HeadTailProperties, LenProperties, EmptySeq
<1>2. \A k \in 1 .. Len(t) : k + 1 \in 1 .. Len(s) /\ k + 1 # 1
  BY <1>1
<1>3. \A k \in 1 .. Len(s) : k = 1 \/ (k - 1 \in 1 .. Len(t) /\ t[k - 1] = s[k])
  BY <1>1
<1>4. 1 \in 1 .. Len(s)
  BY <1>1
<1> HIDE DEF t
<1>5. /\ WaitsIn(t, i) => WaitsIn(s, i)
      /\ WaitsIn(s, i) => WaitsIn(t, i) \/ Name(Head(s)) = i
      /\ WaitsIn(s, Name(Head(s)))
  BY <1>1, <1>2, <1>3, <1>4 DEF WaitsIn
<1>6. ASSUME \A j \in 1 .. Len(s), k \in 1 .. Len(s) :
               Name(s[j]) = i /\ Name(s[k]) = i => j = k
      PROVE  /\ Name(Head(s)) = i => ~WaitsIn(t, i)
             /\ \A j \in 1 .. Len(t), k \in 1 .. Len(t) :
                  Name(t[j]) = i /\ Name(t[k]) = i => j = k
  <2>1. Name(Head(s)) = i => ~WaitsIn(t, i)
    BY <1>1, <1>2, <1>4, <1>6 DEF WaitsIn
  <2>2. ASSUME NEW j \in 1 .. Len(t), NEW k \in 1 .. Len(t),
               Name(t[j]) = i, Name(t[k]) = i
        PROVE  j = k
    <3>1. j + 1 = k + 1
      BY <1>1, <1>2, <1>6, <2>2
    <3>. QED
      BY <3>1
  <2>. QED
    BY <2>1, <2>2
<1>. QED
  BY <1>5, <1>6 DEF t
-----------------------------------------------------------------------------
(* What RpcServerActor was told and what it has made of it.                *)

\* Waiting, said of the mailbox.
LEMMA WaitingIsWaitsIn == \A i : Waiting(i) <=> WaitsIn(inbox, i)
BY DEF Waiting, WaitsIn

\* Steps of the Spring thread that tell RpcServerActor nothing.
LEMMA NothingTold ==
  ASSUME ToldBooks, UNCHANGED sharedVars,
         providers'["default"] = providers["default"]
  PROVE  ToldBooks'
BY DEF ToldBooks, ToldOnce, FailsByDuplicate, LostOnlyByDuplicate, Waiting,
   Duplicate, sharedVars

\* A bean is told: its interface is new to RpcServerActor, or was told twice.
LEMMA BeanTold ==
  ASSUME TypeOK, ToldBooks, NEW b \in Beans, TellRpcServer("default", b),
         UNCHANGED actorVars,
         providers'["default"] = providers["default"] \cup {Name(b)}
  PROVE  ToldBooks'
<1>1. /\ inbox \in Seq(Beans) /\ told \in [Interfaces -> Nat]
      /\ Name(b) \in Interfaces
  BY NameType DEF TypeOK
<1>2. /\ inbox' = Append(inbox, b)
      /\ \A i \in Interfaces :
           told'[i] = IF i = Name(b) THEN told[i] + 1 ELSE told[i]
      /\ server' = server /\ pools' = pools
  BY <1>1 DEF TellRpcServer, actorVars
<1>3. \A i : WaitsIn(inbox', i) <=> WaitsIn(inbox, i) \/ Name(b) = i
  BY <1>1, <1>2, TellWaits
<1>4. ASSUME NEW i \in Interfaces, told'[i] <= 1
      PROVE  /\ pools'[i] # NoBean => ~WaitsIn(inbox', i)
             /\ \A j \in 1 .. Len(inbox'), k \in 1 .. Len(inbox') :
                  Name(inbox'[j]) = i /\ Name(inbox'[k]) = i => j = k
  <2>1. told[i] \in Nat /\ told[i] <= 1 /\ (Name(b) = i => told[i] = 0)
    BY <1>1, <1>2, <1>4
  <2>2. Name(b) = i => ~WaitsIn(inbox, i) /\ pools[i] = NoBean
    BY <2>1, WaitingIsWaitsIn DEF ToldBooks, ToldOnce
  <2>3. /\ pools[i] # NoBean => ~WaitsIn(inbox, i)
        /\ \A j \in 1 .. Len(inbox), k \in 1 .. Len(inbox) :
             Name(inbox[j]) = i /\ Name(inbox[k]) = i => j = k
    BY <2>1, WaitingIsWaitsIn DEF ToldBooks, ToldOnce
  <2>4. \A j \in 1 .. Len(inbox'), k \in 1 .. Len(inbox') :
          Name(inbox'[j]) = i /\ Name(inbox'[k]) = i => j = k
    <3>1. inbox' = Append(inbox, b) /\ inbox \in Seq(Beans) /\ b \in Beans
      BY <1>1, <1>2
    <3>. QED
      BY <2>2, <2>3, <3>1, TellWaits
  <2>. QED
    BY <1>2, <1>3, <2>2, <2>3, <2>4
<1>5. ASSUME NEW i \in Interfaces, told'[i] = 0
      PROVE  ~WaitsIn(inbox', i) /\ pools'[i] = NoBean
  <2>1. told[i] = 0 /\ Name(b) # i
    BY <1>1, <1>2, <1>5
  <2>. QED
    BY <1>2, <1>3, <2>1, WaitingIsWaitsIn DEF ToldBooks, ToldOnce
<1>6. ToldOnce'
  BY <1>4, <1>5 DEF ToldOnce, Waiting, WaitsIn
<1>7. Duplicate => Duplicate'
  BY <1>1, <1>2 DEF Duplicate
<1>8. FailsByDuplicate'
  BY <1>2, <1>7 DEF ToldBooks, FailsByDuplicate
<1>9. LostOnlyByDuplicate'
  <2> SUFFICES ASSUME NEW i \in providers'["default"]
               PROVE  \/ pools'[i] # NoBean \/ WaitsIn(inbox', i)
                      \/ server' = "stopped" \/ Duplicate'
    BY DEF LostOnlyByDuplicate, Waiting, WaitsIn
  <2>. QED
    BY <1>2, <1>3, <1>7, WaitingIsWaitsIn DEF ToldBooks, LostOnlyByDuplicate
<1>. QED
  BY <1>6, <1>8, <1>9 DEF ToldBooks

\* RpcServerActor takes a bean: a pool is new, or its interface was told twice.
LEMMA CreatePoolBooks ==
  ASSUME TypeOK, ToldBooks, CreatePool
  PROVE  ToldBooks'
<1> DEFINE b == Head(inbox)
           n == Name(b)
<1>1. /\ inbox \in Seq(Beans) /\ inbox # << >> /\ b \in Beans
      /\ n \in Interfaces /\ told \in [Interfaces -> Nat]
      /\ pools \in [Interfaces -> Beans \cup {NoBean}]
  BY NameType, HeadTailProperties DEF TypeOK, CreatePool
<1>2. /\ inbox' = Tail(inbox) /\ told' = told /\ providers' = providers
      /\ \/ pools[n] = NoBean /\ pools' = [pools EXCEPT ![n] = b] /\ server' = server
         \/ pools[n] # NoBean /\ server' = "failed" /\ pools' = pools
  BY DEF CreatePool, protoVars
<1>3. b # NoBean
  BY <1>1, RegistryAssumption
<1> HIDE DEF b
<1>4. /\ \A i : WaitsIn(inbox', i) => WaitsIn(inbox, i)
      /\ \A i : WaitsIn(inbox, i) => WaitsIn(inbox', i) \/ i = n
      /\ WaitsIn(inbox, n)
  BY <1>1, <1>2, TakeWaits DEF b
<1>5. \A i \in Interfaces : i # n => pools'[i] = pools[i]
  BY <1>1, <1>2
<1>6. ASSUME NEW i \in Interfaces, told[i] = 0
      PROVE  ~WaitsIn(inbox', i) /\ pools'[i] = NoBean
  BY <1>1, <1>4, <1>5, <1>6, WaitingIsWaitsIn DEF ToldBooks, ToldOnce
<1>7. ASSUME NEW i \in Interfaces, told[i] <= 1
      PROVE  /\ pools'[i] # NoBean => ~WaitsIn(inbox', i)
             /\ \A j \in 1 .. Len(inbox'), k \in 1 .. Len(inbox') :
                  Name(inbox'[j]) = i /\ Name(inbox'[k]) = i => j = k
  <2>1. /\ pools[i] # NoBean => ~WaitsIn(inbox, i)
        /\ \A j \in 1 .. Len(inbox), k \in 1 .. Len(inbox) :
             Name(inbox[j]) = i /\ Name(inbox[k]) = i => j = k
    BY <1>7, WaitingIsWaitsIn DEF ToldBooks, ToldOnce
  <2>2. /\ n = i => ~WaitsIn(inbox', i)
        /\ \A j \in 1 .. Len(inbox'), k \in 1 .. Len(inbox') :
             Name(inbox'[j]) = i /\ Name(inbox'[k]) = i => j = k
    BY <1>1, <1>2, <2>1, TakeWaits DEF b
  <2>. QED
    BY <1>4, <1>5, <2>1, <2>2
<1>8. ToldOnce'
  BY <1>2, <1>6, <1>7 DEF ToldOnce, Waiting, WaitsIn
<1>9. pools[n] # NoBean => Duplicate
  <2>1. pools[n] # NoBean => told[n] > 1
    BY <1>1, <1>4, WaitingIsWaitsIn DEF ToldBooks, ToldOnce
  <2>. QED
    BY <1>1, <2>1 DEF Duplicate
<1>10. Duplicate' <=> Duplicate
  BY <1>2 DEF Duplicate
<1>11. FailsByDuplicate'
  BY <1>2, <1>9, <1>10 DEF ToldBooks, FailsByDuplicate
<1>12. LostOnlyByDuplicate'
  <2> SUFFICES ASSUME NEW i \in providers["default"], ~Duplicate
               PROVE  \/ pools'[i] # NoBean \/ WaitsIn(inbox', i)
                      \/ server' = "stopped"
    BY <1>2, <1>10 DEF LostOnlyByDuplicate, Waiting, WaitsIn
  <2>1. i \in Interfaces
    BY DEF TypeOK, Protocol
  <2>2. pools[i] # NoBean \/ WaitsIn(inbox, i) \/ server = "stopped"
    BY WaitingIsWaitsIn DEF ToldBooks, LostOnlyByDuplicate
  <2>3. server # "stopped"
    BY DEF CreatePool
  <2>4. pools'[n] = b
    BY <1>1, <1>2, <1>9
  <2>. QED
    BY <1>3, <1>4, <1>5, <2>1, <2>2, <2>3, <2>4
<1>. QED
  BY <1>8, <1>11, <1>12 DEF ToldBooks

\* The restart of RpcServerActor loses its pools after a duplicate only; the
\* end of the context stops it for good.
LEMMA EndServerBooks ==
  ASSUME TypeOK, ToldBooks, RestartServer \/ CloseContext
  PROVE  ToldBooks'
<1>1. /\ inbox' = inbox /\ told' = told /\ providers' = providers
      /\ \A i \in Interfaces : pools'[i] = NoBean
      /\ server' # "failed"
      /\ server = "failed" \/ server' = "stopped"
  BY DEF RestartServer, CloseContext, mailVars, protoVars
<1>2. ToldOnce'
  BY <1>1 DEF ToldBooks, ToldOnce, Waiting
<1>3. FailsByDuplicate'
  BY <1>1 DEF FailsByDuplicate
<1>4. LostOnlyByDuplicate'
  BY <1>1 DEF ToldBooks, FailsByDuplicate, LostOnlyByDuplicate, Duplicate
<1>. QED
  BY <1>2, <1>3, <1>4 DEF ToldBooks

-----------------------------------------------------------------------------
(* The Spring thread.                                                      *)

\* A node that has not begun to boot.
LEMMA RegistryInitInv == Init => RegistryInv
<1> SUFFICES ASSUME Init PROVE RegistryInv
  OBVIOUS
<1>1. TypeOK
  BY RegistryAssumption, EmptySeq DEF Init, TypeOK, Protocol, Known
<1>2. ServerWithProtocol /\ RestComplete
  BY DEF Init, ServerWithProtocol, RestComplete, Protocol, Known
<1>3. ToldBooks
  BY EmptySeq DEF Init, ToldBooks, ToldOnce, FailsByDuplicate,
     LostOnlyByDuplicate, Waiting, Protocol
<1>. QED
  BY <1>1, <1>2, <1>3 DEF RegistryInv

\* A consumer: the default protocol is there, nobody is told anything.
LEMMA ConsumeInv ==
  ASSUME RegistryInv, Consume
  PROVE  RegistryInv'
<1>1. /\ scan \in Seq(Interfaces) /\ scan # << >> /\ Head(scan) \in Interfaces
      /\ Tail(scan) \in Seq(Interfaces)
  BY HeadTailProperties DEF RegistryInv, TypeOK, Consume
<1>2. TypeOK'
  <2>1. rpcServers' \in Nat /\ current' \subseteq Protocol
    BY DEF RegistryInv, TypeOK, Consume, GetDefaultProtocol, Protocol
  <2>2. /\ scan' \in Seq(Interfaces) /\ singletons' \subseteq Interfaces
        /\ consumers' \subseteq Interfaces
        /\ boot' \in {"consuming", "providing", "started", "failed"}
    BY <1>1 DEF RegistryInv, TypeOK, Consume, RememberConsumer
  <2>. QED
    BY <2>1, <2>2 DEF RegistryInv, TypeOK, Consume, actorVars
<1>3. ServerWithProtocol'
  BY DEF RegistryInv, ServerWithProtocol, Consume, GetDefaultProtocol
<1>4. RestComplete'
  BY DEF RegistryInv, RestComplete, Consume
<1>5. ToldBooks'
  BY NothingTold DEF RegistryInv, Consume, actorVars, sharedVars
<1>. QED
  BY <1>2, <1>3, <1>4, <1>5 DEF RegistryInv

\* Steps of the Spring thread between two beans, or that end the boot.
LEMMA BetweenBeansInv ==
  ASSUME RegistryInv,
         \/ ConsumersDone \/ BeanDone \/ StartProtocols
         \/ \E b \in Beans : RefuseBean(b)
  PROVE  RegistryInv'
<1>1. TypeOK'
  BY DEF RegistryInv, TypeOK, ConsumersDone, BeanDone, StartProtocols,
     StartRest, RefuseBean, protoVars, actorVars
<1>2. ServerWithProtocol'
  BY DEF RegistryInv, ServerWithProtocol, ConsumersDone, BeanDone,
     StartProtocols, RefuseBean, protoVars
<1>3. RestComplete'
  BY DEF RegistryInv, RestComplete, ConsumersDone, BeanDone, StartProtocols,
     StartRest, RefuseBean, protoVars
<1>4. ToldBooks'
  BY NothingTold DEF RegistryInv, ConsumersDone, BeanDone, StartProtocols,
     RefuseBean, protoVars, actorVars, sharedVars
<1>. QED
  BY <1>1, <1>2, <1>3, <1>4 DEF RegistryInv

\* A protocol remembers an interface.
LEMMA RememberType ==
  ASSUME TypeOK, NEW n \in Protocol, NEW b \in Beans, Remember(n, b)
  PROVE  /\ providers' \in [Protocol -> SUBSET Interfaces]
         /\ \A o \in Protocol : providers'[o] =
              IF o = n THEN providers[o] \cup {Name(b)} ELSE providers[o]
BY NameType DEF TypeOK, Remember

\* RpcServerActor is told a bean, or is not.
LEMMA TellType ==
  ASSUME TypeOK, NEW n \in Protocol, NEW b \in Beans, TellRpcServer(n, b)
  PROVE  inbox' \in Seq(Beans) /\ told' \in [Interfaces -> Nat]
<1>1. Name(b) \in Interfaces
  BY NameType
<1>2. inbox \in Seq(Beans) /\ told \in [Interfaces -> Nat]
  BY DEF TypeOK
<1>3. CASE n = "default"
  <2>1. inbox' = Append(inbox, b) /\ told' = [told EXCEPT ![Name(b)] = @ + 1]
    BY <1>3 DEF TellRpcServer
  <2>2. inbox' \in Seq(Beans)
    BY <1>2, <2>1, AppendProperties
  <2>3. told[Name(b)] + 1 \in Nat
    BY <1>1, <1>2
  <2>4. told' \in [Interfaces -> Nat]
    BY <1>2, <2>1, <2>3
  <2>. QED
    BY <2>2, <2>4
<1>4. CASE n # "default"
  BY <1>2, <1>4 DEF TellRpcServer, mailVars
<1>. QED
  BY <1>3, <1>4

\* A bean is given to the default protocol.
LEMMA ProvideDefaultInv ==
  ASSUME RegistryInv, NEW b \in Beans, ProvideDefault(b)
  PROVE  RegistryInv'
<1>1. "default" \in Protocol /\ "restful" \in Protocol
  BY DEF Protocol, Known
<1>2. /\ providers' \in [Protocol -> SUBSET Interfaces]
      /\ providers'["default"] = providers["default"] \cup {Name(b)}
      /\ providers'["restful"] = providers["restful"]
  BY <1>1, RememberType DEF RegistryInv, ProvideDefault
<1>3. inbox' \in Seq(Beans) /\ told' \in [Interfaces -> Nat]
  BY <1>1, TellType DEF RegistryInv, ProvideDefault
<1>4. TypeOK'
  <2>1. names' \in Seq(STRING)
    BY RegistryAssumption DEF ProvideDefault
  <2>2. rpcServers' \in Nat /\ current' \subseteq Protocol
    BY <1>1 DEF RegistryInv, TypeOK, ProvideDefault, GetDefaultProtocol
  <2>. QED
    BY <1>2, <1>3, <2>1, <2>2 DEF RegistryInv, TypeOK, ProvideDefault, actorVars
<1>5. ServerWithProtocol'
  BY DEF RegistryInv, ServerWithProtocol, ProvideDefault, GetDefaultProtocol
<1>6. RestComplete'
  BY <1>2 DEF RegistryInv, RestComplete, ProvideDefault
<1>7. ToldBooks'
  BY <1>2, BeanTold DEF RegistryInv, ProvideDefault
<1>. QED
  BY <1>4, <1>5, <1>6, <1>7 DEF RegistryInv

\* A bean is given to a protocol by name, the default one included.
LEMMA ProvideNamedInv ==
  ASSUME RegistryInv, ProvideNamed
  PROVE  RegistryInv'
<1> DEFINE n == Head(names)
<1>1. /\ bean \in Beans /\ names \in Seq(STRING) /\ names # << >>
      /\ Tail(names) \in Seq(STRING)
  BY HeadTailProperties DEF RegistryInv, TypeOK, ProvideNamed
<1>2. n \in Protocol /\ "default" \in Protocol /\ "restful" \in Protocol
  BY DEF RegistryInv, TypeOK, ProvideNamed, Finds, Protocol, Known
<1>3. /\ current' = current \cup {n} /\ Remember(n, bean)
      /\ TellRpcServer(n, bean) /\ CreateEndpoint(n, bean) /\ AddResource(n, bean)
  BY DEF ProvideNamed
<1> HIDE DEF n
<1>4. /\ providers' \in [Protocol -> SUBSET Interfaces]
      /\ \A o \in Protocol : providers'[o] =
           IF o = n THEN providers[o] \cup {Name(bean)} ELSE providers[o]
  BY <1>1, <1>2, <1>3, RememberType DEF RegistryInv
<1>5. inbox' \in Seq(Beans) /\ told' \in [Interfaces -> Nat]
  BY <1>1, <1>2, <1>3, TellType DEF RegistryInv
<1>6. endpoints' \subseteq Interfaces /\ resources' \subseteq Interfaces
  BY <1>1, <1>3, NameType DEF RegistryInv, TypeOK, CreateEndpoint, AddResource
<1>7. TypeOK'
  BY <1>1, <1>2, <1>3, <1>4, <1>5, <1>6
  DEF RegistryInv, TypeOK, ProvideNamed, actorVars
<1>8. ServerWithProtocol'
  <2>1. n = "default" => "default" \in current
    BY DEF ProvideNamed, Finds, Known, n
  <2>. QED
    BY <1>3, <2>1 DEF RegistryInv, ServerWithProtocol, ProvideNamed
<1>9. RestComplete'
  <2>1. resources' = providers'["restful"]
    BY <1>2, <1>3, <1>4 DEF RegistryInv, RestComplete, AddResource
  <2>2. restServer = {} /\ restServer' = {}
    BY DEF RegistryInv, RestComplete, ProvideNamed
  <2>. QED
    BY <2>1, <2>2 DEF RestComplete
<1>10. ToldBooks'
  <2>1. CASE n = "default"
    BY <1>1, <1>2, <1>3, <1>4, <2>1, BeanTold DEF RegistryInv, ProvideNamed
  <2>2. CASE n # "default"
    <3>1. UNCHANGED sharedVars /\ providers'["default"] = providers["default"]
      BY <1>2, <1>3, <1>4, <2>2
      DEF TellRpcServer, ProvideNamed, mailVars, actorVars, sharedVars
    <3>. QED
      BY <3>1, NothingTold DEF RegistryInv
  <2>. QED
    BY <2>1, <2>2
<1>. QED
  BY <1>7, <1>8, <1>9, <1>10 DEF RegistryInv

\* provide throws: at most the web service protocol remembers more.
LEMMA ProvideFailsInv ==
  ASSUME RegistryInv, ProvideFails
  PROVE  RegistryInv'
<1>1. "webservice" \in Protocol /\ "default" \in Protocol /\ "restful" \in Protocol
  BY DEF Protocol, Known
<1>2. bean \in Beans
  BY DEF RegistryInv, TypeOK, ProvideFails
<1>3. /\ providers' \in [Protocol -> SUBSET Interfaces]
      /\ providers'["default"] = providers["default"]
      /\ providers'["restful"] = providers["restful"]
      /\ current' \subseteq Protocol
      /\ "default" \in current' <=> "default" \in current
  <2>1. CASE UNCHANGED <<current, providers>>
    BY <2>1 DEF RegistryInv, TypeOK
  <2>2. CASE current' = current \cup {"webservice"} /\ Remember("webservice", bean)
    BY <1>1, <1>2, <2>2, RememberType DEF RegistryInv, TypeOK
  <2>. QED
    BY <2>1, <2>2 DEF ProvideFails
<1>4. TypeOK'
  BY <1>3 DEF RegistryInv, TypeOK, ProvideFails, actorVars
<1>5. ServerWithProtocol' /\ RestComplete'
  BY <1>3 DEF RegistryInv, ServerWithProtocol, RestComplete, ProvideFails
<1>6. ToldBooks'
  BY <1>3, NothingTold DEF RegistryInv, ProvideFails, actorVars, sharedVars
<1>. QED
  BY <1>4, <1>5, <1>6 DEF RegistryInv

\* RpcServerActor and the end of the context touch no protocol.
LEMMA ServerInv ==
  ASSUME RegistryInv, CreatePool \/ RestartServer \/ CloseContext
  PROVE  RegistryInv'
<1>1. UNCHANGED springVars /\ UNCHANGED protoVars
  BY DEF CreatePool, RestartServer, CloseContext
<1>2. TypeOK'
  <2>1. /\ inbox' \in Seq(Beans) /\ told' \in [Interfaces -> Nat]
        /\ server' \in {"running", "failed", "stopped"}
        /\ pools' \in [Interfaces -> Beans \cup {NoBean}]
    <3>1. CASE CreatePool
      <4>1. /\ inbox \in Seq(Beans) /\ inbox # << >> /\ Head(inbox) \in Beans
            /\ inbox' = Tail(inbox) /\ Tail(inbox) \in Seq(Beans)
        BY <3>1, HeadTailProperties DEF RegistryInv, TypeOK, CreatePool
      <4>2. /\ server' \in {"running", "failed", "stopped"}
            /\ pools' \in [Interfaces -> Beans \cup {NoBean}]
        BY <3>1, <4>1 DEF RegistryInv, TypeOK, CreatePool
      <4>. QED
        BY <3>1, <4>1, <4>2 DEF RegistryInv, TypeOK, CreatePool
    <3>2. CASE RestartServer \/ CloseContext
      BY <3>2 DEF RegistryInv, TypeOK, RestartServer, CloseContext, mailVars
    <3>. QED
      BY <3>1, <3>2
  <2>. QED
    BY <1>1, <2>1 DEF RegistryInv, TypeOK, springVars, protoVars
<1>3. ServerWithProtocol' /\ RestComplete'
  BY <1>1 DEF RegistryInv, ServerWithProtocol, RestComplete, springVars, protoVars
<1>4. ToldBooks'
  BY CreatePoolBooks, EndServerBooks DEF RegistryInv
<1>. QED
  BY <1>2, <1>3, <1>4 DEF RegistryInv

\* RegistryInv holds in every reachable state.
THEOREM RegistryInvariant == Spec => []RegistryInv
<1>1. RegistryInv /\ [Next]_vars => RegistryInv'
  <2> SUFFICES ASSUME RegistryInv, [Next]_vars PROVE RegistryInv'
    OBVIOUS
  <2>1. CASE Next
    BY <2>1, ConsumeInv, BetweenBeansInv, ProvideDefaultInv, ProvideNamedInv,
       ProvideFailsInv, ServerInv DEF Next, SpringStep, ServerStep
  <2>2. CASE UNCHANGED vars
    <3>1. UNCHANGED springVars /\ UNCHANGED protoVars /\ UNCHANGED sharedVars
      BY <2>2 DEF vars, mailVars, actorVars, sharedVars
    <3>2. TypeOK' /\ ServerWithProtocol' /\ RestComplete'
      BY <3>1 DEF springVars, protoVars, sharedVars, RegistryInv, TypeOK,
         ServerWithProtocol, RestComplete
    <3>3. ToldBooks'
      BY <3>1, NothingTold DEF RegistryInv, protoVars
    <3>. QED
      BY <3>2, <3>3 DEF RegistryInv
  <2>. QED
    BY <2>1, <2>2
<1>. QED
  BY <1>1, RegistryInitInv, PTL DEF Spec

\* The types of the registry: what currentProtocols holds are protocols.
THEOREM RegistryTypeCorrect == Spec => []TypeOK
<1>1. RegistryInv => TypeOK
  BY DEF RegistryInv
<1>. QED
  BY <1>1, RegistryInvariant, PTL

\* A registration with the default protocol is lost by a duplicate only, in
\* any context, in any order of the two threads and whatever fails.
THEOREM LostOnlyByDuplicateHolds == Spec => []LostOnlyByDuplicate
<1>1. RegistryInv => LostOnlyByDuplicate
  BY DEF RegistryInv, ToldBooks
<1>. QED
  BY <1>1, RegistryInvariant, PTL

\* There is one RpcServerActor, and the JAX-RS server that runs serves every
\* interface that was provided as restful.
THEOREM OneServerForAllHolds == Spec => []OneServerForAll
<1>1. RegistryInv => OneServerForAll
  BY DEF RegistryInv, ServerWithProtocol, RestComplete, OneServerForAll
<1>. QED
  BY <1>1, RegistryInvariant, PTL
=============================================================================
