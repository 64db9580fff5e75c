------------------------------ MODULE TcpSocket -----------------------------
(***************************************************************************)
(* A TCP socket of a node: one SocketServer or SocketClient bean, its      *)
(* SocketTcpActor, a SocketTcpHandler per connection, and the listener     *)
(* (SocketTcpLisenter) that all of them share.                             *)
(*                                                                         *)
(* Akka IO (external) does the following. A connection tells the actor     *)
(* Connected and waits for a Register; if none comes in time it ends,      *)
(* while the Connected is still in the mailbox. Once registered, it tells  *)
(* its handler, and nobody else, what the peer sends and that it has       *)
(* closed; it ends when its handler ends.                                  *)
(*                                                                         *)
(* The fields of the listener are neither volatile nor locked: write(data) *)
(* of an application thread may see any value `handleActor` has had. A     *)
(* bean may also give every instance of the actor a listener of its own:   *)
(* `ready` and `handleActor` are those of the present one.                 *)
(***************************************************************************)
EXTENDS Naturals, Sequences

CONSTANTS
  Conns,        \* connections that peers may set up
  MaxSent,      \* bound: data a peer sends on a connection
  MaxPushes,    \* bound: data the application sends by itself
  MaxThrows,    \* bound: exceptions of the application
  NoRef         \* no actor: the null of `handleActor`

ASSUME SocketAssumption ==
  /\ MaxSent \in Nat /\ MaxPushes \in Nat /\ MaxThrows \in Nat
  /\ NoRef \notin Conns
  /\ \A c \in Conns : NoRef # <<"handler", c>> /\ NoRef # <<"connection", c>>

VARIABLES
  mode,       \* what the bean is: "server" or "client"
  fresh,      \* getSocketLisenter makes a new listener at every call
  port,       \* of the Tcp manager: "none", "asked", "refused", "done"
  actor,      \* SocketTcpActor: see ActorState
  offers,     \* connections whose Connected is in its mailbox
  bounced,    \* the CommandFailed of a write is in its mailbox
  link,       \* the connection it accepts or is connected to, or NoRef
  conn,       \* of a connection: see ConnState
  handler,    \* of the handler of a connection: see HandlerState
  mailbox,    \* of a handler
  ready,      \* the fields of the listener
  handleActor,
  seen,       \* values of handleActor that another thread may read
  detached,   \* handlers that have the listener of an earlier actor instance
  sent,       \* how many data the peer has sent
  written,    \* what was written to a connection, in order
  pushes,     \* how often the application has sent by itself
  throws,     \* how often it has thrown
  greeted     \* history: handlers whose present instance has had Connected

listenerVars == <<ready, handleActor, seen, detached>>
actorVars == <<port, actor, offers, bounced, link>>
staticVars == <<mode, fresh>>
vars == <<staticVars, actorVars, conn, handler, mailbox, listenerVars, sent,
          written, pushes, throws, greeted>>

\* onReceive ("accepting" in the middle of a Connected), connected(..).
ActorState == {"open", "accepting", "connected", "failed", "stopped"}
ConnState == {"none", "offered", "expired", "open", "closed"}
HandlerState == {"none", "creating", "live", "failed", "stopped"}

\* A datum is the connection it came from and its number there; what the
\* application sends by itself is Push.
Data == [from : Conns, no : 1 .. MaxSent]
Push == [from |-> NoRef, no |-> 0]

\* Messages of a handler.
Received(d) == [type |-> "Received", data |-> d]
Connected == [type |-> "Connected", data |-> Push]
ConnectionClosed == [type |-> "ConnectionClosed", data |-> Push]
Message == {Received(d) : d \in Data} \cup {Connected, ConnectionClosed}

\* Actors that handleActor may name: a handler, or a connection.
HandlerRef(c) == <<"handler", c>>
ConnRef(c) == <<"connection", c>>
Refs == {NoRef} \cup {HandlerRef(c) : c \in Conns} \cup {ConnRef(c) : c \in Conns}

TypeOK ==
  /\ mode \in {"server", "client"} /\ fresh \in BOOLEAN
  /\ port \in {"none", "asked", "refused", "done"}
  /\ actor \in ActorState
  /\ offers \subseteq Conns
  /\ bounced \in BOOLEAN
  /\ link \in Conns \cup {NoRef}
  /\ conn \in [Conns -> ConnState]
  /\ handler \in [Conns -> HandlerState]
  /\ mailbox \in [Conns -> Seq(Message)]
  /\ ready \in BOOLEAN
  /\ handleActor \in Refs
  /\ seen \subseteq Refs
  /\ detached \subseteq Conns
  /\ sent \in [Conns -> 0 .. MaxSent]
  /\ written \in [Conns -> Seq(Data \cup {Push})]
  /\ pushes \in 0 .. MaxPushes
  /\ throws \in 0 .. MaxThrows
  /\ greeted \subseteq Conns

Init ==
  /\ mode \in {"server", "client"} /\ fresh \in BOOLEAN
  /\ port = "none" /\ actor = "open" /\ link = NoRef
  /\ offers = {} /\ bounced = FALSE
  /\ conn = [c \in Conns |-> "none"]
  /\ handler = [c \in Conns |-> "none"]
  /\ mailbox = [c \in Conns |-> <<>>]
  /\ ready = FALSE /\ handleActor = NoRef /\ seen = {NoRef} /\ detached = {}
  /\ sent = [c \in Conns |-> 0]
  /\ written = [c \in Conns |-> <<>>]
  /\ pushes = 0 /\ throws = 0
  /\ greeted = {}

-----------------------------------------------------------------------------
(* The Spring thread, the Tcp manager and the peers.                       *)

\* init of the bean asks the Tcp manager to bind or to connect.
InitSocket ==
  /\ port = "none"
  /\ port' = "asked"
  /\ UNCHANGED <<actor, offers, bounced, link, conn, handler, mailbox, sent,
                 written, pushes, throws, greeted>>
  /\ UNCHANGED listenerVars /\ UNCHANGED staticVars

\* Connected is put into the mailbox of the actor.
Offer(c) ==
  /\ conn[c] = "none"
  /\ conn' = [conn EXCEPT ![c] = "offered"]
  /\ offers' = offers \cup {c}

\* The manager refuses, has bound the server, or has connected the client.
AnswerInit ==
  /\ port = "asked"
  /\ \/ /\ port' = "refused"
        /\ UNCHANGED <<conn, offers>>
     \/ /\ port' = "done"
        /\ IF mode = "client" THEN \E c \in Conns : Offer(c)
                              ELSE UNCHANGED <<conn, offers>>
  /\ UNCHANGED <<actor, bounced, link, handler, mailbox, sent, written, pushes,
                 throws, greeted>>
  /\ UNCHANGED listenerVars /\ UNCHANGED staticVars

\* A peer connects to a server that is bound.
Accept(c) ==
  /\ mode = "server" /\ port = "done" /\ actor # "stopped"
  /\ Offer(c)
  /\ UNCHANGED <<port, actor, bounced, link, handler, mailbox, sent, written,
                 pushes, throws, greeted>>
  /\ UNCHANGED listenerVars /\ UNCHANGED staticVars

\* No Register came in time: the connection ends, its Connected stays.
RegisterTimeout(c) ==
  /\ conn[c] = "offered"
  /\ conn' = [conn EXCEPT ![c] = "expired"]
  /\ UNCHANGED <<handler, mailbox, sent, written, pushes, throws, greeted>>
  /\ UNCHANGED actorVars /\ UNCHANGED listenerVars /\ UNCHANGED staticVars

PeerSends(c) ==
  /\ conn[c] = "open" /\ handler[c] # "stopped"
  /\ sent[c] < MaxSent
  /\ sent' = [sent EXCEPT ![c] = @ + 1]
  /\ mailbox' = [mailbox EXCEPT ![c] =
                   Append(@, Received([from |-> c, no |-> sent[c] + 1]))]
  /\ UNCHANGED <<conn, handler, written, pushes, throws, greeted>>
  /\ UNCHANGED actorVars /\ UNCHANGED listenerVars /\ UNCHANGED staticVars

\* The connection ends: the peer closes it, or its handler has ended.
ConnectionEnds(c) ==
  /\ conn[c] = "open"
  /\ conn' = [conn EXCEPT ![c] = "closed"]
  /\ mailbox' = [mailbox EXCEPT ![c] =
                   IF handler[c] = "stopped" THEN @
                   ELSE Append(@, ConnectionClosed)]
  /\ UNCHANGED <<handler, sent, written, pushes, throws, greeted>>
  /\ UNCHANGED actorVars /\ UNCHANGED listenerVars /\ UNCHANGED staticVars

-----------------------------------------------------------------------------
(* SocketTcpActor.                                                         *)

\* The handlers of an actor that stops or restarts end, constructed first.
StopHandlers ==
  /\ \A c \in Conns : handler[c] # "creating"
  /\ handler' =
       [c \in Conns |-> IF handler[c] = "none" THEN "none" ELSE "stopped"]
  /\ mailbox' = [c \in Conns |-> <<>>]

\* CommandFailed in onReceive: the actor stops itself. It is that of the bind
\* or connect, or that of a write which a client had sent before a restart:
\* in connected(..) such a one is dropped.
OnCommandFailed ==
  /\ \/ /\ actor = "open"
        /\ \/ port = "refused" /\ port' = "done" /\ UNCHANGED bounced
           \/ bounced /\ bounced' = FALSE /\ UNCHANGED port
        /\ actor' = "stopped"
        /\ StopHandlers
     \/ /\ actor = "connected" /\ bounced
        /\ bounced' = FALSE
        /\ UNCHANGED <<port, actor, handler, mailbox>>
  /\ UNCHANGED <<offers, link, conn, sent, written, pushes, throws, greeted>>
  /\ UNCHANGED listenerVars /\ UNCHANGED staticVars

\* Connected: setConnected of the listener, an application's class, makes it
\* ready, or throws (as a bean without a listener does).
OnConnected(c) ==
  /\ actor = "open" /\ c \in offers
  /\ offers' = offers \ {c}
  /\ \/ /\ ready' = TRUE
        /\ actor' = "accepting" /\ link' = c
        /\ UNCHANGED throws
     \/ /\ throws < MaxThrows /\ throws' = throws + 1
        /\ actor' = "failed"
        /\ UNCHANGED <<ready, link>>
  /\ UNCHANGED <<port, bounced, conn, handler, mailbox, handleActor, seen,
                 detached, sent, written, pushes, greeted>>
  /\ UNCHANGED staticVars

\* Mutant: the handler of a server is told Connected as well.
CreateHandler_TellsAll(c) ==
  /\ actor = "accepting" /\ link = c
  /\ handler' = [handler EXCEPT ![c] = "creating"]
  /\ conn' = [conn EXCEPT ![c] = IF @ = "offered" THEN "open" ELSE @]
  /\ mailbox' = [mailbox EXCEPT ![c] = Append(@, Connected)]
  /\ IF mode = "server" THEN actor' = "open" /\ link' = NoRef
     ELSE actor' = "connected" /\ UNCHANGED link
  /\ UNCHANGED <<port, offers, bounced, sent, written, pushes, throws, greeted>>
  /\ UNCHANGED listenerVars /\ UNCHANGED staticVars

\* The rest of Connected: a handler is created, which runs its constructor
\* by itself, and registered. A client tells it Connected and becomes
\* connected(..). The Register to an expired connection is lost. It is one
\* step: the new handler shares nothing with its actor, and the connection
\* gets the Register in some state that follows, or has expired.
CreateHandler(c) ==
  /\ actor = "accepting" /\ link = c
  /\ handler' = [handler EXCEPT ![c] = "creating"]
  /\ conn' = [conn EXCEPT ![c] = IF @ = "offered" THEN "open" ELSE @]
  /\ \/ /\ mode = "server"
        /\ actor' = "open" /\ link' = NoRef
        /\ UNCHANGED mailbox
     \/ /\ mode = "client"
        /\ actor' = "connected" /\ UNCHANGED link
        /\ mailbox' = [mailbox EXCEPT ![c] = Append(@, Connected)]
  /\ detached' = detached \ {c}
  /\ UNCHANGED <<port, offers, bounced, ready, handleActor, seen, sent, written,
                 pushes, throws, greeted>>
  /\ UNCHANGED staticVars

\* A write to connection c: nothing happens if it is not open.
WriteTo(c, d) ==
  written' = [written EXCEPT ![c] = IF conn[c] = "open" THEN Append(@, d) ELSE @]

\* A ByteString told to a connected client is written to `connection`, open
\* or not. One that is open and cannot write it answers CommandFailed.
SendBytes ==
  /\ actor = "connected"
  /\ pushes < MaxPushes
  /\ pushes' = pushes + 1
  /\ \/ WriteTo(link, Push) /\ UNCHANGED bounced
     \/ conn[link] = "open" /\ bounced' = TRUE /\ UNCHANGED written
  /\ UNCHANGED <<port, actor, offers, link, conn, handler, mailbox, sent,
                 throws, greeted>>
  /\ UNCHANGED listenerVars /\ UNCHANGED staticVars

\* A RUN that throws, in either behaviour (a RUN that does not throw changes
\* nothing here).
RunFails ==
  /\ actor \in {"open", "connected"}
  /\ throws < MaxThrows
  /\ throws' = throws + 1
  /\ actor' = "failed"
  /\ UNCHANGED <<port, offers, bounced, link, conn, handler, mailbox, sent,
                 written, pushes, greeted>>
  /\ UNCHANGED listenerVars /\ UNCHANGED staticVars

\* The listener that the constructor gets from the bean. Handlers that are
\* still there keep the one they have.
GetListener ==
  IF fresh THEN /\ ready' = FALSE /\ handleActor' = NoRef
                /\ detached' = {c \in Conns : handler'[c] \notin {"none", "stopped"}}
                /\ UNCHANGED seen
  ELSE UNCHANGED listenerVars

\* Mutant: the new instance connects again.
RestartActor_Reconnects ==
  /\ actor = "failed"
  /\ actor' = "open"
  /\ link' = NoRef
  /\ port' = "asked"
  /\ StopHandlers
  /\ GetListener
  /\ UNCHANGED <<offers, bounced, conn, sent, written, pushes, throws, greeted>>
  /\ UNCHANGED staticVars

\* preRestart stops the handlers, and when they have ended a new instance
\* begins in onReceive. If preRestart of the bean throws, the handlers are
\* not stopped, and Akka restarts them after their actor, each with what is
\* in its mailbox. Nobody calls init again.
RestartActor ==
  /\ actor = "failed"
  /\ actor' = "open"
  /\ link' = NoRef
  /\ \/ StopHandlers /\ UNCHANGED throws
     \/ /\ throws < MaxThrows /\ throws' = throws + 1
        /\ handler' = [c \in Conns |->
                         IF handler[c] = "live" THEN "failed" ELSE handler[c]]
        /\ UNCHANGED mailbox
  /\ GetListener
  /\ UNCHANGED <<port, offers, bounced, conn, sent, written, pushes, greeted>>
  /\ UNCHANGED staticVars

-----------------------------------------------------------------------------
(* SocketTcpHandler and the listener.                                      *)

\* setHandler, called by the handler of c, of the listener that it has.
SetHandler(c, r) ==
  /\ handleActor' = IF c \in detached THEN handleActor ELSE r
  /\ seen' = seen \cup {r}
  /\ UNCHANGED <<ready, detached>>

\* Mutant: the constructor does not call setHandler.
Construct_NoSetHandler(c) ==
  /\ handler[c] \in {"creating", "failed"}
  /\ handler[c] = "failed" => actor \in {"open", "connected"}
  /\ handler' = [handler EXCEPT ![c] = "live"]
  /\ greeted' = greeted \ {c}
  /\ UNCHANGED <<conn, mailbox, sent, written, pushes, throws>>
  /\ UNCHANGED actorVars /\ UNCHANGED listenerVars /\ UNCHANGED staticVars

\* The constructor, of the first instance or of the one that replaces an
\* instance whose receive has thrown or whose actor has restarted: the
\* listener is given the handler. An actor that has failed itself or is in
\* the middle of a message restarts no handler.
Construct(c) ==
  /\ handler[c] \in {"creating", "failed"}
  /\ handler[c] = "failed" => actor \in {"open", "connected"}
  /\ handler' = [handler EXCEPT ![c] = "live"]
  /\ greeted' = greeted \ {c}
  /\ SetHandler(c, HandlerRef(c))
  /\ UNCHANGED <<conn, mailbox, sent, written, pushes, throws>>
  /\ UNCHANGED actorVars /\ UNCHANGED staticVars

Takes(c, m) ==
  /\ handler[c] = "live"
  /\ mailbox[c] # <<>>
  /\ Head(mailbox[c]) = m
  /\ mailbox' = [mailbox EXCEPT ![c] = Tail(@)]

\* Mutant: the listener answers to the connection it knows.
OnReceived_ByListener(c, d) ==
  /\ Takes(c, Received(d))
  /\ \E q \in Conns :
       /\ handleActor \in {HandlerRef(q), ConnRef(q)}
       /\ WriteTo(q, d)
  /\ UNCHANGED <<handler, throws, conn, sent, pushes, greeted>>
  /\ UNCHANGED actorVars /\ UNCHANGED listenerVars /\ UNCHANGED staticVars

\* Mutant: what is written is the event and not its data.
OnReceived_WritesEvent(c, d) ==
  /\ Takes(c, Received(d))
  /\ WriteTo(c, Received(d))
  /\ UNCHANGED <<handler, throws, conn, sent, pushes, greeted>>
  /\ UNCHANGED actorVars /\ UNCHANGED listenerVars /\ UNCHANGED staticVars

\* Received: receive(data, sender) of the application, which answers with
\* write(data, sender), or does not, or throws.
OnReceived(c, d) ==
  /\ Takes(c, Received(d))
  /\ \/ WriteTo(c, d) /\ UNCHANGED <<handler, throws>>
     \/ UNCHANGED <<written, handler, throws>>
     \/ /\ throws < MaxThrows
        /\ throws' = throws + 1
        /\ handler' = [handler EXCEPT ![c] = "failed"]
        /\ UNCHANGED written
  /\ UNCHANGED <<conn, sent, pushes, greeted>>
  /\ UNCHANGED actorVars /\ UNCHANGED listenerVars /\ UNCHANGED staticVars

\* Connected, which only the handler of a client is told: from now on the
\* listener writes to the connection.
OnGreeting(c) ==
  /\ Takes(c, Connected)
  /\ SetHandler(c, ConnRef(c))
  /\ greeted' = greeted \cup {c}
  /\ UNCHANGED <<handler, conn, sent, written, pushes, throws>>
  /\ UNCHANGED actorVars /\ UNCHANGED staticVars

\* Mutant: ConnectionClosed is not handled.
OnClosed_Ignored(c) ==
  /\ Takes(c, ConnectionClosed)
  /\ UNCHANGED <<handler, conn, sent, written, pushes, throws, greeted>>
  /\ UNCHANGED actorVars /\ UNCHANGED listenerVars /\ UNCHANGED staticVars

\* ConnectionClosed: the handler stops itself. The actor is not told.
OnClosed(c) ==
  /\ Takes(c, ConnectionClosed)
  /\ handler' = [handler EXCEPT ![c] = "stopped"]
  /\ UNCHANGED <<conn, sent, written, pushes, throws, greeted>>
  /\ UNCHANGED actorVars /\ UNCHANGED listenerVars /\ UNCHANGED staticVars

\* write(data) of a listener, called by any thread, whether it has asked
\* isReady or not: a handler does not know the message, null throws, a
\* connection writes it.
ListenerWrite ==
  /\ pushes < MaxPushes
  /\ pushes' = pushes + 1
  /\ \E r \in seen :
       IF \E c \in Conns : r = ConnRef(c) THEN WriteTo(r[2], Push)
                                          ELSE UNCHANGED written
  /\ UNCHANGED <<conn, handler, mailbox, sent, throws, greeted>>
  /\ UNCHANGED actorVars /\ UNCHANGED listenerVars /\ UNCHANGED staticVars

-----------------------------------------------------------------------------
HandlerStep(c) ==
  \/ Construct(c) \/ OnGreeting(c) \/ OnClosed(c)
  \/ \E d \in Data : OnReceived(c, d)

ActorStep ==
  \/ OnCommandFailed \/ RestartActor
  \/ \E c \in Conns : OnConnected(c) \/ CreateHandler(c)

Next ==
  \/ InitSocket \/ AnswerInit \/ ActorStep \/ RunFails
  \/ SendBytes \/ ListenerWrite
  \/ \E c \in Conns : HandlerStep(c) \/ Accept(c) \/ RegisterTimeout(c)
                        \/ PeerSends(c) \/ ConnectionEnds(c)

\* The dispatcher runs the actors.
Fairness == WF_vars(ActorStep) /\ \A c \in Conns : WF_vars(HandlerStep(c))

Spec == Init /\ [][Next]_vars /\ Fairness

-----------------------------------------------------------------------------
(* Properties.                                                             *)

\* One listener serves all connections of a server, and each new connection
\* overwrites its handleActor: an answer by write(data, sender) still goes to
\* the connection its datum came from, in the order of the data, also after
\* a handler has failed.
AnswersToSender == \A c \in Conns : \A i \in 1 .. Len(written[c]) :
  written[c][i] # Push =>
    /\ written[c][i].from = c
    /\ \A j \in 1 .. i - 1 : written[c][j] # Push =>
         written[c][j].no < written[c][i].no

\* The listener holds a connection only in a client, and only while the
\* handler instance that got Connected has not been replaced: a client's
\* write(data) goes nowhere once its handler has restarted, for Connected is
\* not told again, and what a server sends by itself never leaves the node.
ConnectionHeldSinceGreeting == \A c \in Conns :
  /\ handleActor = ConnRef(c) => mode = "client" /\ c \in greeted
  /\ (\E i \in 1 .. Len(written[c]) : written[c][i] = Push) => mode = "client"

\* isReady is true too early: the field handleActor of a ready listener may
\* still be null, but only while its actor is about to create a handler for
\* it or one is being constructed, also when the actor has failed and is
\* restarted in between. (For the thread that sets the field. Another one may
\* read the null of `seen` later still, as nothing makes it see the write.)
ReadyWindow == ready /\ handleActor = NoRef =>
  actor = "accepting" \/ \E c \in Conns \ detached : handler[c] = "creating"

\* A client that has lost its connection is cut off for good: isReady stays
\* true, but nothing the application sends leaves the node any more, for
\* neither a close nor a restart makes it connect again.
ClientStaysCutOff ==
  [][mode = "client" /\ (\E c \in Conns : conn[c] \in {"expired", "closed"})
       => UNCHANGED written]_vars

\* No handler is left behind by a connection that has closed, whatever is in
\* its mailbox before the ConnectionClosed and whatever fails: only one whose
\* connection expired before it was registered is never told.
HandlersEnd == \A c \in Conns :
  conn[c] = "closed" ~> handler[c] = "stopped"
=============================================================================
