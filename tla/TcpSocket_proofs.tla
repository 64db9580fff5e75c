-------------------------- MODULE TcpSocket_proofs -------------------------
(***************************************************************************)
(* Proofs about TcpSocket, for any number of connections, of data, and of  *)
(* exceptions.                                                             *)
(***************************************************************************)
EXTENDS TcpSocket, SequenceTheorems, TLAPS

-----------------------------------------------------------------------------
(* The inductive invariant.                                                *)

\* Only a client is told Connected, is connected, and gives the listener a
\* connection.
ClientOnly == mode = "server" =>
  /\ \A c \in Conns : \A i \in 1 .. Len(mailbox[c]) : mailbox[c][i] # Connected
  /\ actor # "connected"
  /\ \A c \in Conns : ConnRef(c) \notin seen /\ handleActor # ConnRef(c)
  /\ \A c \in Conns : \A i \in 1 .. Len(written[c]) : written[c][i] # Push

\* The listener holds a connection whose handler has been greeted, and has
\* this listener.
HeldByGreeted == \A c \in Conns :
  handleActor = ConnRef(c) => c \in greeted /\ c \notin detached

\* A client is connected once, and not before the manager was asked.
OneConnection == mode = "client" =>
  /\ port \in {"none", "asked"} => \A c \in Conns : conn[c] = "none"
  /\ \A c \in Conns, d \in Conns : conn[c] # "none" /\ conn[d] # "none" => c = d

\* The data of connection c, of which the peer has sent a: those answered, in
\* w, and those in mailbox s, are data of c, numbered in order, and what is
\* answered is before what is not.
Answered(c, w, a) == \A i \in 1 .. Len(w) : w[i] # Push =>
  /\ w[i].from = c /\ w[i].no <= a
  /\ \A j \in 1 .. i - 1 : w[j] # Push => w[j].no < w[i].no
Queued(c, s, a) == \A i \in 1 .. Len(s) : s[i].type = "Received" =>
  /\ s[i].data.from = c /\ s[i].data.no <= a
  /\ \A j \in 1 .. i - 1 : s[j].type = "Received" => s[j].data.no < s[i].data.no
AnsweredFirst(w, s) == \A i \in 1 .. Len(w), j \in 1 .. Len(s) :
  w[i] # Push /\ s[j].type = "Received" => w[i].no < s[j].data.no
Books(c, w, s, a) == Answered(c, w, a) /\ Queued(c, s, a) /\ AnsweredFirst(w, s)

AnswerBooks == \A c \in Conns : Books(c, written[c], mailbox[c], sent[c])

SocketInv ==
  TypeOK /\ ClientOnly /\ HeldByGreeted /\ OneConnection /\ ReadyWindow /\ AnswerBooks

-----------------------------------------------------------------------------
(* Data, messages and references.                                          *)

\* No datum is what the application sends by itself, and the messages of a
\* handler are told apart by their type.
LEMMA DataNotPush == \A d \in Data : d # Push
BY SocketAssumption DEF Data, Push

LEMMA MessageTypes ==
  /\ Connected \in Message /\ Connected.type # "Received"
  /\ ConnectionClosed \in Message /\ ConnectionClosed.type # "Received"
  /\ ConnectionClosed # Connected
  /\ \A d : /\ Received(d).type = "Received" /\ Received(d).data = d
            /\ Received(d) # Connected /\ (d \in Data => Received(d) \in Message)
BY DEF Message, Connected, ConnectionClosed, Received

\* The three kinds of reference differ, and name what they are made of.
LEMMA RefsDiffer ==
  ASSUME NEW c \in Conns
  PROVE  /\ NoRef # HandlerRef(c) /\ NoRef # ConnRef(c)
         /\ HandlerRef(c) \in Refs /\ ConnRef(c) \in Refs /\ NoRef \in Refs
         /\ \A d : HandlerRef(c) # ConnRef(d)
         /\ \A d : ConnRef(c) = ConnRef(d) => c = d
         /\ ConnRef(c)[2] = c
BY SocketAssumption DEF HandlerRef, ConnRef, Refs

\* The elements of a sequence that is longer by one.
LEMMA Appended ==
  ASSUME NEW S, NEW s \in Seq(S), NEW e \in S
  PROVE  /\ Append(s, e) \in Seq(S)
         /\ Len(s) \in Nat /\ Len(Append(s, e)) = Len(s) + 1
         /\ Append(s, e)[Len(s) + 1] = e
         /\ \A i \in 1 .. Len(s) : Append(s, e)[i] = s[i]
         /\ \A i \in 1 .. Len(Append(s, e)) : i \in 1 .. Len(s) \/ i = Len(s) + 1
BY AppendProperties, LenProperties

\* The elements of a sequence without the first one.
LEMMA Taken ==
  ASSUME NEW S, NEW s \in Seq(S), s # << >>
  PROVE  /\ Tail(s) \in Seq(S) /\ Head(s) \in S
         /\ 1 \in 1 .. Len(s) /\ Head(s) = s[1]
         /\ Len(s) \in Nat /\ Len(Tail(s)) = Len(s) - 1
         /\ \A i \in 1 .. Len(Tail(s)) :
              i + 1 \in 1 .. Len(s) /\ Tail(s)[i] = s[i + 1]
BY HeadTailProperties, LenProperties, EmptySeq

-----------------------------------------------------------------------------
(* The books of a connection.                                              *)

Written == Seq(Data \cup {Push})
Mailbox == Seq(Message)

\* The peer sends a datum.
LEMMA BooksSend ==
  ASSUME NEW c \in Conns, NEW w \in Written, NEW s \in Mailbox, NEW a \in Nat,
         Books(c, w, s, a), NEW e \in Message, e.type = "Received",
         e.data.from = c, e.data.no = a + 1
  PROVE  Books(c, w, Append(s, e), a + 1)
<1>1. /\ Len(s) \in Nat /\ Len(Append(s, e)) = Len(s) + 1
      /\ Append(s, e)[Len(s) + 1] = e
      /\ \A i \in 1 .. Len(s) : Append(s, e)[i] = s[i]
      /\ \A i \in 1 .. Len(Append(s, e)) : i \in 1 .. Len(s) \/ i = Len(s) + 1
  BY Appended DEF Mailbox
<1>2. \A i \in 1 .. Len(s) : s[i].type = "Received" => s[i].data.no \in Nat
  <2>1. ASSUME NEW i \in 1 .. Len(s), s[i].type = "Received"
        PROVE  s[i].data.no \in Nat
    <3>1. s[i] \in Message
      BY ElementOfSeq DEF Mailbox
    <3>2. PICK d \in Data : s[i] = Received(d)
      BY <2>1, <3>1, MessageTypes DEF Message
    <3>. QED
      BY <3>2, MessageTypes DEF Data
  <2>. QED
    BY <2>1
<1>3. \A i \in 1 .. Len(w) : w[i] # Push => w[i].no \in Nat
  <2>1. ASSUME NEW i \in 1 .. Len(w), w[i] # Push PROVE w[i].no \in Nat
    <3>1. w[i] \in Data
      BY <2>1, ElementOfSeq DEF Written
    <3>. QED
      BY <3>1 DEF Data
  <2>. QED
    BY <2>1
<1>4. Answered(c, w, a + 1)
  BY <1>3 DEF Books, Answered
<1>5. Queued(c, Append(s, e), a + 1)
  <2> SUFFICES ASSUME NEW i \in 1 .. Len(Append(s, e)), Append(s, e)[i].type = "Received"
               PROVE  /\ Append(s, e)[i].data.from = c /\ Append(s, e)[i].data.no <= a + 1
                      /\ \A j \in 1 .. i - 1 : Append(s, e)[j].type = "Received" =>
                           Append(s, e)[j].data.no < Append(s, e)[i].data.no
    BY DEF Queued
  <2>1. CASE i \in 1 .. Len(s)
    <3>1. \A j \in 1 .. i - 1 : j \in 1 .. Len(s)
      BY <1>1, <2>1
    <3>. QED
      BY <1>1, <1>2, <2>1, <3>1 DEF Books, Queued
  <2>2. CASE i = Len(s) + 1
    <3>1. \A j \in 1 .. i - 1 : j \in 1 .. Len(s)
      BY <1>1, <2>2
    <3>. QED
      BY <1>1, <1>2, <2>2, <3>1 DEF Books, Queued
  <2>. QED
    BY <1>1, <2>1, <2>2
<1>6. AnsweredFirst(w, Append(s, e))
  BY <1>1, <1>3 DEF Books, Answered, AnsweredFirst
<1>. QED
  BY <1>4, <1>5, <1>6 DEF Books

\* The handler is told something else.
LEMMA BooksTell ==
  ASSUME NEW c \in Conns, NEW w \in Written, NEW s \in Mailbox, NEW a \in Nat,
         Books(c, w, s, a), NEW e \in Message, e.type # "Received"
  PROVE  Books(c, w, Append(s, e), a)
<1>1. /\ Len(s) \in Nat /\ Append(s, e)[Len(s) + 1] = e
      /\ \A i \in 1 .. Len(s) : Append(s, e)[i] = s[i]
      /\ \A i \in 1 .. Len(Append(s, e)) : i \in 1 .. Len(s) \/ i = Len(s) + 1
  BY Appended DEF Mailbox
<1>2. \A i \in 1 .. Len(s) : \A j \in 1 .. i - 1 : j \in 1 .. Len(s)
  BY <1>1
<1>3. Queued(c, Append(s, e), a)
  BY <1>1, <1>2 DEF Books, Queued
<1>4. AnsweredFirst(w, Append(s, e))
  BY <1>1 DEF Books, AnsweredFirst
<1>. QED
  BY <1>3, <1>4 DEF Books

\* The handler takes a message.
LEMMA BooksTake ==
  ASSUME NEW c \in Conns, NEW w \in Written, NEW s \in Mailbox, NEW a \in Nat,
         Books(c, w, s, a), s # << >>
  PROVE  Books(c, w, Tail(s), a)
<1>1. /\ Len(s) \in Nat /\ Len(Tail(s)) = Len(s) - 1
      /\ \A i \in 1 .. Len(Tail(s)) : i + 1 \in 1 .. Len(s) /\ Tail(s)[i] = s[i + 1]
  BY Taken DEF Mailbox
<1>2. \A i \in 1 .. Len(Tail(s)) : \A j \in 1 .. i - 1 :
        j \in 1 .. Len(Tail(s)) /\ j + 1 \in 1 .. (i + 1) - 1
  BY <1>1
<1>3. Queued(c, Tail(s), a)
  BY <1>1, <1>2 DEF Books, Queued
<1>4. AnsweredFirst(w, Tail(s))
  BY <1>1 DEF Books, AnsweredFirst
<1>. QED
  BY <1>3, <1>4 DEF Books

\* The application answers the datum the handler has taken.
LEMMA BooksAnswer ==
  ASSUME NEW c \in Conns, NEW w \in Written, NEW s \in Mailbox, NEW a \in Nat,
         Books(c, w, s, a), s # << >>, NEW d \in Data, Head(s) = Received(d)
  PROVE  Books(c, Append(w, d), Tail(s), a)
<1>1. Books(c, w, Tail(s), a)
  BY BooksTake
<1>2. /\ Len(s) \in Nat /\ Len(Tail(s)) = Len(s) - 1 /\ 1 \in 1 .. Len(s)
      /\ s[1] = Received(d)
      /\ \A i \in 1 .. Len(Tail(s)) :
           i + 1 \in 1 .. Len(s) /\ 1 \in 1 .. (i + 1) - 1 /\ Tail(s)[i] = s[i + 1]
  BY Taken DEF Mailbox
<1>3. s[1].type = "Received" /\ s[1].data = d
  BY <1>2, MessageTypes
<1>4. d.from = c /\ d.no <= a
  BY <1>2, <1>3 DEF Books, Queued
<1>5. \A i \in 1 .. Len(w) : w[i] # Push => w[i].no < d.no
  BY <1>2, <1>3 DEF Books, AnsweredFirst
<1>6. \A i \in 1 .. Len(Tail(s)) :
        Tail(s)[i].type = "Received" => d.no < Tail(s)[i].data.no
  BY <1>2, <1>3 DEF Books, Queued
<1>7. /\ Len(w) \in Nat /\ Append(w, d)[Len(w) + 1] = d
      /\ \A i \in 1 .. Len(w) : Append(w, d)[i] = w[i]
      /\ \A i \in 1 .. Len(Append(w, d)) : i \in 1 .. Len(w) \/ i = Len(w) + 1
  BY Appended DEF Written
<1>8. /\ \A i \in 1 .. Len(w) : \A j \in 1 .. i - 1 : j \in 1 .. Len(w)
      /\ \A j \in 1 .. (Len(w) + 1) - 1 : j \in 1 .. Len(w)
  BY <1>7
<1>9. Answered(c, Append(w, d), a)
  <2> SUFFICES ASSUME NEW i \in 1 .. Len(Append(w, d)), Append(w, d)[i] # Push
               PROVE  /\ Append(w, d)[i].from = c /\ Append(w, d)[i].no <= a
                      /\ \A j \in 1 .. i - 1 : Append(w, d)[j] # Push =>
                           Append(w, d)[j].no < Append(w, d)[i].no
    BY DEF Answered
  <2>1. CASE i \in 1 .. Len(w)
    BY <1>7, <1>8, <2>1 DEF Books, Answered
  <2>2. CASE i = Len(w) + 1
    BY <1>4, <1>5, <1>7, <1>8, <2>2
  <2>. QED
    BY <1>7, <2>1, <2>2
<1>10. AnsweredFirst(Append(w, d), Tail(s))
  BY <1>1, <1>6, <1>7 DEF Books, AnsweredFirst
<1>. QED
  BY <1>1, <1>9, <1>10 DEF Books

\* The application sends by itself.
LEMMA BooksPush ==
  ASSUME NEW c \in Conns, NEW w \in Written, NEW s \in Mailbox, NEW a \in Nat,
         Books(c, w, s, a)
  PROVE  Books(c, Append(w, Push), s, a)
<1>1. /\ Len(w) \in Nat /\ Append(w, Push)[Len(w) + 1] = Push
      /\ \A i \in 1 .. Len(w) : Append(w, Push)[i] = w[i]
      /\ \A i \in 1 .. Len(Append(w, Push)) : i \in 1 .. Len(w) \/ i = Len(w) + 1
  BY Appended DEF Written
<1>2. \A i \in 1 .. Len(w) : \A j \in 1 .. i - 1 : j \in 1 .. Len(w)
  BY <1>1
<1>3. Answered(c, Append(w, Push), a)
  BY <1>1, <1>2 DEF Books, Answered
<1>4. AnsweredFirst(Append(w, Push), s)
  BY <1>1 DEF Books, AnsweredFirst
<1>. QED
  BY <1>3, <1>4 DEF Books

\* The mailbox is thrown away.
LEMMA BooksDrop ==
  ASSUME NEW c \in Conns, NEW w \in Written, NEW s \in Mailbox, NEW a \in Nat,
         Books(c, w, s, a)
  PROVE  Books(c, w, << >>, a)
BY DEF Books, Queued, AnsweredFirst

-----------------------------------------------------------------------------
(* The steps.                                                              *)

LEMMA SocketInitInv == Init => SocketInv
<1> SUFFICES ASSUME Init PROVE SocketInv
  OBVIOUS
<1>1. /\ mailbox \in [Conns -> Seq(Message)]
      /\ written \in [Conns -> Seq(Data \cup {Push})]
      /\ sent \in [Conns -> 0 .. MaxSent]
      /\ 0 \in 0 .. MaxPushes /\ 0 \in 0 .. MaxThrows
  BY SocketAssumption DEF Init
<1>2. ready \in BOOLEAN /\ fresh \in BOOLEAN /\ bounced \in BOOLEAN
  BY Zenon DEF Init
<1>3. TypeOK
  BY <1>1, <1>2 DEF Init, TypeOK, ActorState, ConnState, HandlerState, Refs
<1>4. ClientOnly /\ HeldByGreeted
  BY RefsDiffer DEF Init, ClientOnly, HeldByGreeted
<1>5. OneConnection /\ ReadyWindow
  BY DEF Init, OneConnection, ReadyWindow
<1>6. AnswerBooks
  <2>1. \A c \in Conns : written[c] = << >> /\ mailbox[c] = << >>
    BY DEF Init
  <2>2. \A c, a : Books(c, << >>, << >>, a)
    BY DEF Books, Answered, Queued, AnsweredFirst
  <2>. QED
    BY <2>1, <2>2 DEF AnswerBooks
<1>. QED
  BY <1>3, <1>4, <1>5, <1>6 DEF SocketInv

\* Steps of the bean, the manager and the peers that reach no handler, and
\* failures of the actor.
LEMMA OutsideInv ==
  ASSUME SocketInv,
         \/ InitSocket \/ AnswerInit \/ RunFails
         \/ \E c \in Conns : Accept(c) \/ RegisterTimeout(c)
  PROVE  SocketInv'
<1>1. /\ UNCHANGED <<mode, fresh, bounced, link, handler, mailbox, ready,
                     handleActor, seen, detached, sent, written, pushes,
                     greeted>>
      /\ (actor' = "failed" /\ actor # "accepting") \/ actor' = actor
  BY DEF InitSocket, AnswerInit, RunFails, Accept,
     RegisterTimeout, staticVars, listenerVars, actorVars
<1>2. conn' = conn \/ \E c \in Conns :
        \/ conn[c] = "none" /\ conn' = [conn EXCEPT ![c] = "offered"]
        \/ conn[c] = "offered" /\ conn' = [conn EXCEPT ![c] = "expired"]
  BY DEF InitSocket, AnswerInit, RunFails, Accept,
     RegisterTimeout, Offer
<1>3. conn' \in [Conns -> ConnState]
  BY <1>2 DEF SocketInv, TypeOK, ConnState
<1>4. throws' \in 0 .. MaxThrows
  <2>1. throws' = throws \/ (throws < MaxThrows /\ throws' = throws + 1)
    BY DEF InitSocket, AnswerInit, RunFails, Accept, RegisterTimeout
  <2>. QED
    BY <2>1, SocketAssumption DEF SocketInv, TypeOK
<1>5. /\ offers' \subseteq Conns
      /\ port' \in {"none", "asked", "refused", "done"}
      /\ actor' \in ActorState
  BY DEF SocketInv, TypeOK, ActorState, InitSocket, AnswerInit, RunFails,
     Accept, RegisterTimeout, Offer, actorVars
<1>6. TypeOK'
  BY <1>1, <1>3, <1>4, <1>5 DEF SocketInv, TypeOK
<1>7. ClientOnly' /\ HeldByGreeted' /\ ReadyWindow' /\ AnswerBooks'
  BY <1>1 DEF SocketInv, ClientOnly, HeldByGreeted, ReadyWindow, AnswerBooks
<1>8. OneConnection'
  <2> SUFFICES ASSUME mode = "client" PROVE OneConnection'
    BY <1>1 DEF OneConnection
  <2>1. CASE AnswerInit
    <3>1. \A c \in Conns : conn[c] = "none"
      BY <2>1 DEF AnswerInit, SocketInv, OneConnection
    <3>2. conn' = conn \/ \E c \in Conns : conn' = [conn EXCEPT ![c] = "offered"]
      BY <2>1 DEF AnswerInit, Offer
    <3>3. port' \notin {"none", "asked"}
      BY <2>1 DEF AnswerInit
    <3>. QED
      BY <3>1, <3>2, <3>3 DEF OneConnection, SocketInv, TypeOK
  <2>2. CASE InitSocket \/ RunFails
    BY <1>1, <2>2 DEF InitSocket, RunFails, SocketInv, OneConnection
  <2>3. CASE \E c \in Conns : RegisterTimeout(c)
    <3>1. PICK c \in Conns : RegisterTimeout(c)
      BY <2>3
    <3>2. conn[c] = "offered" /\ conn' = [conn EXCEPT ![c] = "expired"] /\ port' = port
      BY <3>1 DEF RegisterTimeout, actorVars
    <3>3. \A x \in Conns : conn'[x] # "none" <=> conn[x] # "none"
      BY <3>2 DEF SocketInv, TypeOK
    <3>. QED
      BY <1>1, <3>2, <3>3 DEF SocketInv, OneConnection
  <2>4. ~\E c \in Conns : Accept(c)
    BY DEF Accept
  <2>. QED
    BY <2>1, <2>2, <2>3, <2>4
<1>. QED
  BY <1>6, <1>7, <1>8 DEF SocketInv

\* What is told to a handler that only one message is added to.
LEMMA Told ==
  ASSUME TypeOK, NEW c \in Conns, NEW e \in Message,
         mailbox' = [mailbox EXCEPT ![c] = Append(@, e)]
  PROVE  /\ mailbox' \in [Conns -> Seq(Message)]
         /\ mailbox'[c] = Append(mailbox[c], e) /\ mailbox[c] \in Seq(Message)
         /\ \A x \in Conns : x # c => mailbox'[x] = mailbox[x]
         /\ \A x \in Conns : \A i \in 1 .. Len(mailbox'[x]) :
              mailbox'[x][i] = e \/ \E j \in 1 .. Len(mailbox[x]) :
                                      mailbox'[x][i] = mailbox[x][j]
<1>1. mailbox \in [Conns -> Seq(Message)] /\ mailbox[c] \in Seq(Message)
  BY DEF TypeOK
<1>2. Append(mailbox[c], e) \in Seq(Message)
  BY <1>1, AppendProperties
<1>3. /\ mailbox' \in [Conns -> Seq(Message)]
      /\ mailbox'[c] = Append(mailbox[c], e)
      /\ \A x \in Conns : x # c => mailbox'[x] = mailbox[x]
  BY <1>1, <1>2
<1>4. ASSUME NEW x \in Conns, NEW i \in 1 .. Len(mailbox'[x])
      PROVE  mailbox'[x][i] = e \/ \E j \in 1 .. Len(mailbox[x]) :
                                     mailbox'[x][i] = mailbox[x][j]
  <2>1. CASE x = c
    BY <1>1, <1>3, <2>1, Appended
  <2>2. CASE x # c
    BY <1>3, <2>2
  <2>. QED
    BY <2>1, <2>2
<1>. QED
  BY <1>1, <1>3, <1>4

\* The peer sends, or the connection ends.
LEMMA PeerInv ==
  ASSUME SocketInv, NEW c \in Conns, PeerSends(c) \/ ConnectionEnds(c)
  PROVE  SocketInv'
<1>1. /\ TypeOK /\ ClientOnly /\ HeldByGreeted /\ OneConnection /\ ReadyWindow
      /\ AnswerBooks
  BY DEF SocketInv
<1>2. UNCHANGED <<mode, fresh, port, actor, offers, bounced, link, handler,
                  ready, handleActor, seen, detached, written, pushes, throws,
                  greeted>>
  BY DEF PeerSends, ConnectionEnds, staticVars, actorVars, listenerVars
<1>3. \A x \in Conns : /\ written[x] \in Written /\ mailbox[x] \in Mailbox
                       /\ sent[x] \in Nat /\ sent[x] <= MaxSent
  BY <1>1, SocketAssumption DEF TypeOK, Written, Mailbox
<1>4. conn[c] = "open" /\ (conn' = conn \/ conn' = [conn EXCEPT ![c] = "closed"])
  BY DEF PeerSends, ConnectionEnds
<1>5. conn' \in [Conns -> ConnState] /\ OneConnection'
  BY <1>1, <1>2, <1>4 DEF TypeOK, ConnState, OneConnection
<1>6. HeldByGreeted' /\ ReadyWindow'
  BY <1>1, <1>2 DEF HeldByGreeted, ReadyWindow
<1>7. CASE PeerSends(c)
  <2> DEFINE d == [from |-> c, no |-> sent[c] + 1]
             e == Received(d)
  <2>1. sent[c] < MaxSent /\ sent' = [sent EXCEPT ![c] = @ + 1] /\ conn' = conn
        /\ mailbox' = [mailbox EXCEPT ![c] = Append(@, e)]
    BY <1>7 DEF PeerSends
  <2>2. d \in Data
    BY <1>3, <2>1, SocketAssumption DEF Data
  <2>3. e \in Message /\ e # Connected /\ e.type = "Received" /\ e.data = d
    BY <2>2, MessageTypes
  <2>4. d.from = c /\ d.no = sent[c] + 1
    OBVIOUS
  <2> HIDE DEF d, e
  <2>5. /\ mailbox' \in [Conns -> Seq(Message)]
        /\ mailbox'[c] = Append(mailbox[c], e)
        /\ \A x \in Conns : x # c => mailbox'[x] = mailbox[x]
        /\ \A x \in Conns : \A i \in 1 .. Len(mailbox'[x]) :
             mailbox'[x][i] = e \/ \E j \in 1 .. Len(mailbox[x]) :
                                     mailbox'[x][i] = mailbox[x][j]
    BY <1>1, <2>1, <2>3, Told
  <2>6. sent' \in [Conns -> 0 .. MaxSent] /\ sent'[c] = sent[c] + 1
        /\ \A x \in Conns : x # c => sent'[x] = sent[x]
    BY <1>1, <1>3, <2>1, SocketAssumption DEF TypeOK
  <2>7. TypeOK'
    BY <1>1, <1>2, <1>5, <2>5, <2>6 DEF TypeOK
  <2>8. ClientOnly'
    BY <1>1, <1>2, <2>3, <2>5 DEF ClientOnly
  <2>9. AnswerBooks'
    <3>1. Books(c, written[c], Append(mailbox[c], e), sent[c] + 1)
      BY <1>1, <1>3, <2>3, <2>4, BooksSend DEF AnswerBooks
    <3>2. ASSUME NEW x \in Conns
          PROVE  Books(x, written'[x], mailbox'[x], sent'[x])
      BY <1>1, <1>2, <2>5, <2>6, <3>1 DEF AnswerBooks
    <3>. QED
      BY <3>2 DEF AnswerBooks
  <2>. QED
    BY <1>5, <1>6, <2>7, <2>8, <2>9 DEF SocketInv
<1>8. CASE ConnectionEnds(c)
  <2>1. sent' = sent
        /\ (mailbox' = mailbox
            \/ mailbox' = [mailbox EXCEPT ![c] = Append(@, ConnectionClosed)])
    BY <1>1, <1>8 DEF ConnectionEnds, TypeOK
  <2>2. /\ mailbox' \in [Conns -> Seq(Message)]
        /\ mailbox'[c] = Append(mailbox[c], ConnectionClosed) \/ mailbox'[c] = mailbox[c]
        /\ \A x \in Conns : x # c => mailbox'[x] = mailbox[x]
        /\ \A x \in Conns : \A i \in 1 .. Len(mailbox'[x]) :
             mailbox'[x][i] = ConnectionClosed
               \/ \E j \in 1 .. Len(mailbox[x]) : mailbox'[x][i] = mailbox[x][j]
    <3>1. CASE mailbox' = mailbox
      BY <1>1, <3>1 DEF TypeOK
    <3>2. CASE mailbox' = [mailbox EXCEPT ![c] = Append(@, ConnectionClosed)]
      <4>1. ConnectionClosed \in Message
        BY MessageTypes
      <4>. QED
        BY <1>1, <3>2, <4>1, Told
    <3>. QED
      BY <2>1, <3>1, <3>2
  <2>3. TypeOK'
    BY <1>1, <1>2, <1>5, <2>1, <2>2 DEF TypeOK
  <2>4. ClientOnly'
    BY <1>1, <1>2, <2>2, MessageTypes DEF ClientOnly
  <2>5. AnswerBooks'
    <3>1. Books(c, written[c], Append(mailbox[c], ConnectionClosed), sent[c])
      BY <1>1, <1>3, MessageTypes, BooksTell DEF AnswerBooks
    <3>2. ASSUME NEW x \in Conns
          PROVE  Books(x, written'[x], mailbox'[x], sent'[x])
      BY <1>1, <1>2, <2>1, <2>2, <3>1 DEF AnswerBooks
    <3>. QED
      BY <3>2 DEF AnswerBooks
  <2>. QED
    BY <1>5, <1>6, <2>3, <2>4, <2>5 DEF SocketInv
<1>. QED
  BY <1>7, <1>8

\* A write to x, a connection or none.
LEMMA WriteEffect ==
  ASSUME TypeOK, NEW x, NEW d \in Data \cup {Push}, WriteTo(x, d)
  PROVE  /\ written' \in [Conns -> Seq(Data \cup {Push})]
         /\ \A c \in Conns : written'[c] =
              IF c = x /\ conn[c] = "open" THEN Append(written[c], d) ELSE written[c]
<1>1. written \in [Conns -> Seq(Data \cup {Push})]
  BY DEF TypeOK
<1>2. \A c \in Conns : Append(written[c], d) \in Seq(Data \cup {Push})
  BY <1>1, AppendProperties
<1>. QED
  BY <1>1, <1>2 DEF WriteTo

\* The application sends by itself, over the actor or over the listener:
\* in a server nothing is written.
LEMMA SendsInv ==
  ASSUME SocketInv, SendBytes \/ ListenerWrite
  PROVE  SocketInv'
<1>1. /\ TypeOK /\ ClientOnly /\ HeldByGreeted /\ OneConnection /\ ReadyWindow
      /\ AnswerBooks
  BY DEF SocketInv
<1>2. /\ UNCHANGED <<mode, fresh, port, actor, offers, link, conn, handler,
                     mailbox, ready, handleActor, seen, detached, sent, throws,
                     greeted>>
      /\ bounced' \in BOOLEAN
  <2>1. UNCHANGED <<mode, fresh, port, actor, offers, link, conn, handler,
                    mailbox, ready, handleActor, seen, detached, sent, throws,
                    greeted>>
    BY DEF SendBytes, ListenerWrite, staticVars, actorVars, listenerVars
  <2>2. bounced' = bounced \/ bounced' = TRUE
    BY DEF SendBytes, ListenerWrite, actorVars
  <2>. QED
    BY <1>1, <2>1, <2>2, Zenon DEF TypeOK
<1>3. pushes' \in 0 .. MaxPushes
  <2>1. pushes < MaxPushes /\ pushes' = pushes + 1
    BY DEF SendBytes, ListenerWrite
  <2>. QED
    BY <1>1, <2>1, SocketAssumption DEF TypeOK
<1>4. written' = written \/ (mode = "client" /\ \E x \in Conns \cup {NoRef} : WriteTo(x, Push))
  <2>1. CASE SendBytes
    BY <1>1, <2>1 DEF SendBytes, TypeOK, ClientOnly
  <2>2. CASE ListenerWrite
    <3>1. PICK r \in seen :
            IF \E c \in Conns : r = ConnRef(c) THEN WriteTo(r[2], Push)
                                               ELSE UNCHANGED written
      BY <2>2 DEF ListenerWrite
    <3>2. CASE \E c \in Conns : r = ConnRef(c)
      <4>1. PICK c \in Conns : r = ConnRef(c)
        BY <3>2
      <4>2. r[2] = c /\ mode = "client"
        BY <1>1, <4>1, RefsDiffer DEF ClientOnly, TypeOK
      <4>3. WriteTo(c, Push)
        BY <3>1, <3>2, <4>2
      <4>. QED
        BY <4>2, <4>3
    <3>3. CASE ~\E c \in Conns : r = ConnRef(c)
      BY <3>1, <3>3
    <3>. QED
      BY <3>2, <3>3
  <2>. QED
    BY <2>1, <2>2
<1>5. /\ written' \in [Conns -> Seq(Data \cup {Push})]
      /\ \A c \in Conns : written'[c] = written[c] \/ written'[c] = Append(written[c], Push)
  <2>1. CASE written' = written
    BY <1>1, <2>1 DEF TypeOK
  <2>2. CASE \E x \in Conns \cup {NoRef} : WriteTo(x, Push)
    BY <1>1, <2>2, WriteEffect
  <2>. QED
    BY <1>4, <2>1, <2>2
<1>6. TypeOK'
  BY <1>1, <1>2, <1>3, <1>5 DEF TypeOK
<1>7. ClientOnly'
  <2>1. mode = "server" => written' = written
    BY <1>4
  <2>. QED
    BY <1>1, <1>2, <2>1 DEF ClientOnly
<1>8. HeldByGreeted' /\ OneConnection' /\ ReadyWindow'
  BY <1>1, <1>2 DEF HeldByGreeted, OneConnection, ReadyWindow
<1>9. AnswerBooks'
  <2>1. ASSUME NEW c \in Conns PROVE Books(c, written'[c], mailbox'[c], sent'[c])
    <3>1. Books(c, written[c], mailbox[c], sent[c])
      BY <1>1 DEF AnswerBooks
    <3>2. written[c] \in Written /\ mailbox[c] \in Mailbox /\ sent[c] \in Nat
      BY <1>1, SocketAssumption DEF TypeOK, Written, Mailbox
    <3>3. Books(c, Append(written[c], Push), mailbox[c], sent[c])
      BY <3>1, <3>2, BooksPush
    <3>. QED
      BY <1>2, <1>5, <3>1, <3>3
  <2>. QED
    BY <2>1 DEF AnswerBooks
<1>. QED
  BY <1>6, <1>7, <1>8, <1>9 DEF SocketInv

\* The actor is told of a connection, and the listener is ready.
LEMMA OnConnectedInv ==
  ASSUME SocketInv, NEW c \in Conns, OnConnected(c)
  PROVE  SocketInv'
<1>1. /\ TypeOK /\ ClientOnly /\ HeldByGreeted /\ OneConnection /\ ReadyWindow
      /\ AnswerBooks
  BY DEF SocketInv
<1>2. UNCHANGED <<mode, fresh, port, bounced, conn, handler, mailbox,
                  handleActor, seen, detached, sent, written, pushes, greeted>>
  BY DEF OnConnected, staticVars
<1>3. /\ offers' = offers \ {c} /\ actor = "open"
      /\ \/ /\ ready' = TRUE /\ actor' = "accepting" /\ link' = c
            /\ throws' = throws
         \/ /\ throws < MaxThrows /\ throws' = throws + 1 /\ actor' = "failed"
            /\ UNCHANGED <<ready, link>>
  BY DEF OnConnected
<1>4. ready' \in BOOLEAN
  <2>1. ready' = TRUE \/ ready' = ready
    BY <1>3
  <2>. QED
    BY <1>1, <2>1, Zenon DEF TypeOK
<1>5. throws' \in 0 .. MaxThrows
  BY <1>1, <1>3, SocketAssumption DEF TypeOK
<1>6. TypeOK'
  BY <1>1, <1>2, <1>3, <1>4, <1>5 DEF TypeOK, ActorState
<1>7. ClientOnly' /\ HeldByGreeted' /\ OneConnection' /\ AnswerBooks'
  BY <1>1, <1>2, <1>3
  DEF ClientOnly, HeldByGreeted, OneConnection, AnswerBooks
<1>8. ReadyWindow'
  BY <1>1, <1>2, <1>3 DEF ReadyWindow
<1>. QED
  BY <1>6, <1>7, <1>8 DEF SocketInv

\* The actor creates the handler, which has the present listener.
LEMMA CreateHandlerInv ==
  ASSUME SocketInv, NEW c \in Conns, CreateHandler(c)
  PROVE  SocketInv'
<1>1. /\ TypeOK /\ ClientOnly /\ HeldByGreeted /\ OneConnection /\ ReadyWindow
      /\ AnswerBooks
  BY DEF SocketInv
<1>2. /\ UNCHANGED <<mode, fresh, port, offers, bounced, ready, handleActor, seen,
                     sent, written, pushes, throws, greeted>>
      /\ detached' = detached \ {c}
  BY DEF CreateHandler, staticVars
<1>3. /\ handler' = [handler EXCEPT ![c] = "creating"]
      /\ conn' = [conn EXCEPT ![c] = IF @ = "offered" THEN "open" ELSE @]
  BY DEF CreateHandler
<1>4. \/ mode = "server" /\ mailbox' = mailbox /\ actor' = "open" /\ link' = NoRef
      \/ /\ mode = "client" /\ actor' = "connected" /\ link' = link
         /\ mailbox' = [mailbox EXCEPT ![c] = Append(@, Connected)]
  BY DEF CreateHandler
<1>5. /\ handler' \in [Conns -> HandlerState] /\ handler'[c] = "creating"
      /\ conn' \in [Conns -> ConnState]
      /\ \A x \in Conns : conn'[x] # "none" <=> conn[x] # "none"
  BY <1>1, <1>3 DEF TypeOK, HandlerState, ConnState
<1>6. /\ mailbox' \in [Conns -> Seq(Message)]
      /\ \A x \in Conns :
           mailbox'[x] = mailbox[x] \/ mailbox'[x] = Append(mailbox[x], Connected)
  <2>1. CASE mailbox' = mailbox
    BY <1>1, <2>1 DEF TypeOK
  <2>2. CASE mailbox' = [mailbox EXCEPT ![c] = Append(@, Connected)]
    BY <1>1, <2>2, Told, MessageTypes
  <2>. QED
    BY <1>4, <2>1, <2>2
<1>7. TypeOK'
  BY <1>1, <1>2, <1>4, <1>5, <1>6 DEF TypeOK, ActorState
<1>8. ClientOnly'
  BY <1>1, <1>2, <1>4 DEF ClientOnly
<1>9. HeldByGreeted' /\ ReadyWindow'
  BY <1>1, <1>2, <1>5 DEF HeldByGreeted, ReadyWindow
<1>10. OneConnection'
  BY <1>1, <1>2, <1>5 DEF OneConnection
<1>11. AnswerBooks'
  <2>1. ASSUME NEW x \in Conns PROVE Books(x, written'[x], mailbox'[x], sent'[x])
    <3>1. Books(x, written[x], mailbox[x], sent[x])
      BY <1>1 DEF AnswerBooks
    <3>2. written[x] \in Written /\ mailbox[x] \in Mailbox /\ sent[x] \in Nat
      BY <1>1, SocketAssumption DEF TypeOK, Written, Mailbox
    <3>3. Books(x, written[x], Append(mailbox[x], Connected), sent[x])
      BY <3>1, <3>2, BooksTell, MessageTypes
    <3>. QED
      BY <1>2, <1>6, <3>1, <3>3
  <2>. QED
    BY <2>1 DEF AnswerBooks
<1>. QED
  BY <1>7, <1>8, <1>9, <1>10, <1>11 DEF SocketInv

\* The handlers end, and what is in their mailboxes is thrown away.
LEMMA StopHandlersEffect ==
  ASSUME SocketInv, StopHandlers
  PROVE  /\ handler' \in [Conns -> HandlerState]
         /\ mailbox' \in [Conns -> Seq(Message)]
         /\ \A c \in Conns : handler[c] # "creating" /\ mailbox'[c] = << >>
         /\ \A c \in Conns : Books(c, written[c], mailbox'[c], sent[c])
<1>1. /\ mailbox' = [c \in Conns |-> << >>]
      /\ \A c \in Conns : handler[c] # "creating" /\ mailbox'[c] = << >>
  BY DEF StopHandlers
<1>2. handler' \in [Conns -> HandlerState]
  BY DEF StopHandlers, HandlerState
<1>3. ASSUME NEW c \in Conns PROVE Books(c, written[c], << >>, sent[c])
  <2>1. Books(c, written[c], mailbox[c], sent[c])
    BY DEF SocketInv, AnswerBooks
  <2>2. written[c] \in Written /\ mailbox[c] \in Mailbox /\ sent[c] \in Nat
    BY SocketAssumption DEF SocketInv, TypeOK, Written, Mailbox
  <2>. QED
    BY <2>1, <2>2, BooksDrop
<1>. QED
  BY <1>1, <1>2, <1>3

\* A CommandFailed stops the actor or is dropped.
LEMMA OnCommandFailedInv ==
  ASSUME SocketInv, OnCommandFailed
  PROVE  SocketInv'
<1>1. /\ TypeOK /\ ClientOnly /\ HeldByGreeted /\ OneConnection /\ ReadyWindow
      /\ AnswerBooks
  BY DEF SocketInv
<1>2. UNCHANGED <<mode, fresh, offers, link, conn, ready, handleActor, seen,
                  detached, sent, written, pushes, throws, greeted>>
  BY DEF OnCommandFailed, staticVars, listenerVars
<1>3. bounced' \in BOOLEAN
  <2>1. bounced' = FALSE \/ bounced' = bounced
    BY DEF OnCommandFailed
  <2>. QED
    BY <1>1, <2>1, Zenon DEF TypeOK
<1>4. /\ port' = port \/ (port = "refused" /\ port' = "done")
      /\ \/ actor' = "stopped" /\ actor = "open" /\ StopHandlers
         \/ UNCHANGED <<actor, handler, mailbox>>
  BY DEF OnCommandFailed
<1>5. OneConnection' /\ HeldByGreeted'
  BY <1>1, <1>2, <1>4 DEF OneConnection, HeldByGreeted
<1>6. CASE actor' = "stopped" /\ actor = "open" /\ StopHandlers
  <2>1. /\ handler' \in [Conns -> HandlerState]
        /\ mailbox' \in [Conns -> Seq(Message)]
        /\ \A c \in Conns : handler[c] # "creating" /\ mailbox'[c] = << >>
        /\ \A c \in Conns : Books(c, written[c], mailbox'[c], sent[c])
    BY <1>6, StopHandlersEffect
  <2>2. TypeOK'
    BY <1>1, <1>2, <1>3, <1>4, <1>6, <2>1 DEF TypeOK, ActorState
  <2>3. ClientOnly' /\ ReadyWindow' /\ AnswerBooks'
    BY <1>1, <1>2, <1>6, <2>1 DEF ClientOnly, ReadyWindow, AnswerBooks
  <2>. QED
    BY <1>5, <2>2, <2>3 DEF SocketInv
<1>7. CASE UNCHANGED <<actor, handler, mailbox>>
  <2>1. TypeOK'
    BY <1>1, <1>2, <1>3, <1>4, <1>7 DEF TypeOK
  <2>2. ClientOnly' /\ ReadyWindow' /\ AnswerBooks'
    BY <1>1, <1>2, <1>7 DEF ClientOnly, ReadyWindow, AnswerBooks
  <2>. QED
    BY <1>5, <2>1, <2>2 DEF SocketInv
<1>. QED
  BY <1>4, <1>6, <1>7

\* A new instance of the actor begins. A listener that goes on and is ready
\* has a handler already if the handlers were stopped; if they were not, the
\* one that was being created still is.
LEMMA RestartActorInv ==
  ASSUME SocketInv, RestartActor
  PROVE  SocketInv'
<1>1. /\ TypeOK /\ ClientOnly /\ HeldByGreeted /\ OneConnection /\ ReadyWindow
      /\ AnswerBooks
  BY DEF SocketInv
<1>2. UNCHANGED <<mode, fresh, port, offers, bounced, conn, sent, written,
                  pushes, greeted>>
  BY DEF RestartActor, staticVars
<1>3. /\ actor = "failed" /\ actor' = "open" /\ link' = NoRef
      /\ \/ StopHandlers /\ throws' = throws
         \/ /\ throws < MaxThrows /\ throws' = throws + 1 /\ mailbox' = mailbox
            /\ handler' = [c \in Conns |->
                             IF handler[c] = "live" THEN "failed" ELSE handler[c]]
  BY DEF RestartActor
<1>4. /\ seen' = seen
      /\ \/ UNCHANGED <<ready, handleActor, detached>>
         \/ /\ ready' = FALSE /\ handleActor' = NoRef
            /\ detached' \subseteq Conns
  BY DEF RestartActor, GetListener, listenerVars
<1>5. ready' \in BOOLEAN
  <2>1. ready' = FALSE \/ ready' = ready
    BY <1>4
  <2>. QED
    BY <1>1, <2>1, Zenon DEF TypeOK
<1>6. handleActor' \in Refs /\ seen' \subseteq Refs /\ detached' \subseteq Conns
  BY <1>1, <1>4 DEF TypeOK, Refs
<1>7. throws' \in 0 .. MaxThrows
  BY <1>1, <1>3, SocketAssumption DEF TypeOK
<1>8. /\ handler' \in [Conns -> HandlerState]
      /\ mailbox' \in [Conns -> Seq(Message)]
      /\ \A c \in Conns : Books(c, written[c], mailbox'[c], sent[c])
      /\ \A c \in Conns : handler[c] = "creating" => handler'[c] = "creating"
      /\ mailbox' = mailbox \/ \A c \in Conns : mailbox'[c] = << >>
  <2>1. CASE StopHandlers
    BY <2>1, StopHandlersEffect
  <2>2. CASE /\ mailbox' = mailbox
             /\ handler' = [c \in Conns |->
                              IF handler[c] = "live" THEN "failed" ELSE handler[c]]
    BY <1>1, <2>2 DEF TypeOK, HandlerState, AnswerBooks
  <2>. QED
    BY <1>3, <2>1, <2>2
<1>9. TypeOK'
  BY <1>1, <1>2, <1>3, <1>5, <1>6, <1>7, <1>8 DEF TypeOK, ActorState
<1>10. ClientOnly'
  BY <1>1, <1>2, <1>3, <1>4, <1>8, RefsDiffer DEF ClientOnly
<1>11. HeldByGreeted'
  BY <1>1, <1>2, <1>4, RefsDiffer DEF HeldByGreeted
<1>12. OneConnection' /\ ReadyWindow'
  BY <1>1, <1>2, <1>3, <1>4, <1>8 DEF OneConnection, ReadyWindow
<1>13. AnswerBooks'
  BY <1>2, <1>8 DEF AnswerBooks
<1>. QED
  BY <1>9, <1>10, <1>11, <1>12, <1>13 DEF SocketInv

\* The constructor of a handler gives it to the listener.
LEMMA ConstructInv ==
  ASSUME SocketInv, NEW c \in Conns, Construct(c)
  PROVE  SocketInv'
<1>1. /\ TypeOK /\ ClientOnly /\ HeldByGreeted /\ OneConnection /\ ReadyWindow
      /\ AnswerBooks
  BY DEF SocketInv
<1>2. UNCHANGED <<mode, fresh, port, actor, offers, link, conn, mailbox, ready,
                  bounced, detached, sent, written, pushes, throws>>
  BY DEF Construct, SetHandler, staticVars, actorVars
<1>3. /\ handler' = [handler EXCEPT ![c] = "live"] /\ greeted' = greeted \ {c}
      /\ handleActor' = IF c \in detached THEN handleActor ELSE HandlerRef(c)
      /\ seen' = seen \cup {HandlerRef(c)}
  BY DEF Construct, SetHandler
<1>4. /\ handleActor' \in Refs /\ seen' \subseteq Refs
      /\ c \notin detached => handleActor' # NoRef
      /\ \A d \in Conns : handleActor' = ConnRef(d) =>
           c \in detached /\ handleActor = ConnRef(d)
      /\ \A d \in Conns : ConnRef(d) \in seen' => ConnRef(d) \in seen
  BY <1>1, <1>3, RefsDiffer DEF TypeOK
<1>5. handler' \in [Conns -> HandlerState] /\ greeted' \subseteq Conns
  BY <1>1, <1>3 DEF TypeOK, HandlerState
<1>6. TypeOK'
  BY <1>1, <1>2, <1>4, <1>5 DEF TypeOK
<1>7. ClientOnly'
  BY <1>1, <1>2, <1>4 DEF ClientOnly
<1>8. HeldByGreeted' /\ ReadyWindow'
  <2>1. \A d \in Conns : d # c => handler'[d] = handler[d]
    BY <1>1, <1>3 DEF TypeOK
  <2>2. HeldByGreeted'
    BY <1>1, <1>2, <1>3, <1>4 DEF HeldByGreeted
  <2>3. ReadyWindow'
    BY <1>1, <1>2, <1>3, <1>4, <2>1 DEF ReadyWindow
  <2>. QED
    BY <2>2, <2>3
<1>9. OneConnection' /\ AnswerBooks'
  BY <1>1, <1>2 DEF OneConnection, AnswerBooks
<1>. QED
  BY <1>6, <1>7, <1>8, <1>9 DEF SocketInv

\* A handler takes a message.
LEMMA TakesEffect ==
  ASSUME TypeOK, NEW c \in Conns, NEW m, Takes(c, m)
  PROVE  /\ mailbox' \in [Conns -> Seq(Message)]
         /\ handler[c] = "live" /\ mailbox[c] # << >> /\ Head(mailbox[c]) = m
         /\ mailbox'[c] = Tail(mailbox[c])
         /\ \A x \in Conns : x # c => mailbox'[x] = mailbox[x]
         /\ \E j \in 1 .. Len(mailbox[c]) : mailbox[c][j] = m
         /\ \A x \in Conns : \A i \in 1 .. Len(mailbox'[x]) :
              \E j \in 1 .. Len(mailbox[x]) : mailbox'[x][i] = mailbox[x][j]
<1>1. mailbox \in [Conns -> Seq(Message)] /\ mailbox[c] \in Seq(Message)
  BY DEF TypeOK
<1>2. /\ handler[c] = "live" /\ mailbox[c] # << >> /\ Head(mailbox[c]) = m
      /\ mailbox' = [mailbox EXCEPT ![c] = Tail(@)]
  BY DEF Takes
<1>3. /\ Tail(mailbox[c]) \in Seq(Message) /\ 1 \in 1 .. Len(mailbox[c])
      /\ Head(mailbox[c]) = mailbox[c][1]
      /\ \A i \in 1 .. Len(Tail(mailbox[c])) :
           i + 1 \in 1 .. Len(mailbox[c]) /\ Tail(mailbox[c])[i] = mailbox[c][i + 1]
  BY <1>1, <1>2, Taken
<1>4. /\ mailbox' \in [Conns -> Seq(Message)]
      /\ mailbox'[c] = Tail(mailbox[c])
      /\ \A x \in Conns : x # c => mailbox'[x] = mailbox[x]
  BY <1>1, <1>2, <1>3
<1>5. ASSUME NEW x \in Conns, NEW i \in 1 .. Len(mailbox'[x])
      PROVE  \E j \in 1 .. Len(mailbox[x]) : mailbox'[x][i] = mailbox[x][j]
  <2>1. CASE x = c
    BY <1>3, <1>4, <2>1
  <2>2. CASE x # c
    BY <1>4, <2>2
  <2>. QED
    BY <2>1, <2>2
<1>. QED
  BY <1>2, <1>3, <1>4, <1>5

\* The books after a message was taken and not answered.
LEMMA TakesBooks ==
  ASSUME TypeOK, AnswerBooks, NEW c \in Conns, NEW m, Takes(c, m)
  PROVE  \A x \in Conns : Books(x, written[x], mailbox'[x], sent[x])
<1>1. ASSUME NEW x \in Conns PROVE Books(x, written[x], mailbox'[x], sent[x])
  <2>1. Books(x, written[x], mailbox[x], sent[x])
    BY DEF AnswerBooks
  <2>2. written[x] \in Written /\ mailbox[x] \in Mailbox /\ sent[x] \in Nat
    BY SocketAssumption DEF TypeOK, Written, Mailbox
  <2>3. mailbox[x] # << >> => Books(x, written[x], Tail(mailbox[x]), sent[x])
    BY <2>1, <2>2, BooksTake
  <2>. QED
    BY <2>1, <2>3, TakesEffect
<1>. QED
  BY <1>1

\* A handler receives a datum, or is told that the connection has closed.
LEMMA ReceiveInv ==
  ASSUME SocketInv, NEW c \in Conns, OnClosed(c) \/ \E d \in Data : OnReceived(c, d)
  PROVE  SocketInv'
<1>1. /\ TypeOK /\ ClientOnly /\ HeldByGreeted /\ OneConnection /\ ReadyWindow
      /\ AnswerBooks
  BY DEF SocketInv
<1>2. UNCHANGED <<mode, fresh, port, actor, offers, bounced, link, conn, ready,
                  handleActor, seen, detached, sent, pushes, greeted>>
  BY DEF OnClosed, OnReceived, staticVars, actorVars, listenerVars
<1>3. PICK m : Takes(c, m)
  BY DEF OnClosed, OnReceived
<1>4. /\ mailbox' \in [Conns -> Seq(Message)] /\ handler[c] = "live"
      /\ \A x \in Conns : \A i \in 1 .. Len(mailbox'[x]) :
           \E j \in 1 .. Len(mailbox[x]) : mailbox'[x][i] = mailbox[x][j]
  BY <1>1, <1>3, TakesEffect
<1>5. handler' = handler \/ \E h \in {"failed", "stopped"} : handler' = [handler EXCEPT ![c] = h]
  BY DEF OnClosed, OnReceived
<1>6. /\ handler' \in [Conns -> HandlerState]
      /\ \A x \in Conns : handler[x] = "creating" => handler'[x] = "creating"
  BY <1>1, <1>4, <1>5 DEF TypeOK, HandlerState
<1>7. throws' \in 0 .. MaxThrows
  <2>1. throws' = throws \/ (throws < MaxThrows /\ throws' = throws + 1)
    BY DEF OnClosed, OnReceived
  <2>. QED
    BY <1>1, <2>1, SocketAssumption DEF TypeOK
<1>8. written' = written \/ \E d \in Data : Takes(c, Received(d)) /\ WriteTo(c, d)
  BY DEF OnClosed, OnReceived
<1>9. /\ written' \in [Conns -> Seq(Data \cup {Push})]
      /\ \A x \in Conns : Books(x, written'[x], mailbox'[x], sent[x])
      /\ \A x \in Conns : \A i \in 1 .. Len(written'[x]) : written'[x][i] = Push =>
           \E j \in 1 .. Len(written[x]) : written[x][j] = Push
  <2>1. CASE written' = written
    BY <1>1, <1>3, <2>1, TakesBooks DEF TypeOK
  <2>2. CASE \E d \in Data : Takes(c, Received(d)) /\ WriteTo(c, d)
    <3>1. PICK d \in Data : Takes(c, Received(d)) /\ WriteTo(c, d)
      BY <2>2
    <3>2. /\ written' \in [Conns -> Seq(Data \cup {Push})]
          /\ \A x \in Conns : written'[x] =
               IF x = c /\ conn[x] = "open" THEN Append(written[x], d) ELSE written[x]
      BY <1>1, <3>1, WriteEffect
    <3>3. \A x \in Conns : Books(x, written[x], mailbox'[x], sent[x])
      BY <1>1, <3>1, TakesBooks
    <3>4. written[c] \in Written /\ mailbox[c] \in Mailbox /\ sent[c] \in Nat
      BY <1>1, SocketAssumption DEF TypeOK, Written, Mailbox
    <3>5. /\ mailbox[c] # << >> /\ Head(mailbox[c]) = Received(d)
          /\ mailbox'[c] = Tail(mailbox[c])
      BY <1>1, <3>1, TakesEffect
    <3>6. Books(c, Append(written[c], d), mailbox'[c], sent[c])
      <4>1. Books(c, written[c], mailbox[c], sent[c])
        BY <1>1 DEF AnswerBooks
      <4>. QED
        BY <3>4, <3>5, <4>1, BooksAnswer
    <3>7. ASSUME NEW x \in Conns, NEW i \in 1 .. Len(written'[x]), written'[x][i] = Push
          PROVE  \E j \in 1 .. Len(written[x]) : written[x][j] = Push
      <4>1. CASE written'[x] = written[x]
        BY <3>7, <4>1
      <4>2. CASE x = c /\ written'[x] = Append(written[c], d)
        <5>1. /\ \A k \in 1 .. Len(written[c]) : Append(written[c], d)[k] = written[c][k]
              /\ Append(written[c], d)[Len(written[c]) + 1] = d
              /\ i \in 1 .. Len(written[c]) \/ i = Len(written[c]) + 1
          BY <3>4, <4>2, Appended DEF Written
        <5>. QED
          BY <3>7, <4>2, <5>1, DataNotPush
      <4>. QED
        BY <3>2, <4>1, <4>2
    <3>. QED
      BY <3>2, <3>3, <3>6, <3>7
  <2>. QED
    BY <1>8, <2>1, <2>2
<1>10. TypeOK'
  BY <1>1, <1>2, <1>4, <1>6, <1>7, <1>9 DEF TypeOK
<1>11. ClientOnly'
  <2> SUFFICES ASSUME mode = "server" PROVE ClientOnly'
    BY <1>2 DEF ClientOnly
  <2>1. \A x \in Conns : \A i \in 1 .. Len(mailbox'[x]) : mailbox'[x][i] # Connected
    BY <1>1, <1>4 DEF ClientOnly
  <2>2. \A x \in Conns : \A i \in 1 .. Len(written'[x]) : written'[x][i] # Push
    BY <1>1, <1>9 DEF ClientOnly
  <2>. QED
    BY <1>1, <1>2, <2>1, <2>2 DEF ClientOnly
<1>12. HeldByGreeted' /\ OneConnection' /\ ReadyWindow'
  BY <1>1, <1>2, <1>6 DEF HeldByGreeted, OneConnection, ReadyWindow
<1>13. AnswerBooks'
  BY <1>2, <1>9 DEF AnswerBooks
<1>. QED
  BY <1>10, <1>11, <1>12, <1>13 DEF SocketInv

\* A handler is told Connected, which it is only in a client.
LEMMA OnGreetingInv ==
  ASSUME SocketInv, NEW c \in Conns, OnGreeting(c)
  PROVE  SocketInv'
<1>1. /\ TypeOK /\ ClientOnly /\ HeldByGreeted /\ OneConnection /\ ReadyWindow
      /\ AnswerBooks
  BY DEF SocketInv
<1>2. UNCHANGED <<mode, fresh, port, actor, offers, bounced, link, conn, handler,
                  ready, detached, sent, written, pushes, throws>>
  BY DEF OnGreeting, SetHandler, staticVars, actorVars
<1>3. /\ Takes(c, Connected) /\ greeted' = greeted \cup {c}
      /\ handleActor' = IF c \in detached THEN handleActor ELSE ConnRef(c)
      /\ seen' = seen \cup {ConnRef(c)}
  BY DEF OnGreeting, SetHandler
<1>4. /\ mailbox' \in [Conns -> Seq(Message)]
      /\ \E j \in 1 .. Len(mailbox[c]) : mailbox[c][j] = Connected
  BY <1>1, <1>3, TakesEffect
<1>5. mode # "server"
  BY <1>1, <1>4 DEF ClientOnly
<1>6. /\ handleActor' \in Refs /\ seen' \subseteq Refs
      /\ c \notin detached => handleActor' # NoRef
  BY <1>1, <1>3, RefsDiffer DEF TypeOK
<1>7. TypeOK'
  BY <1>1, <1>2, <1>3, <1>4, <1>6 DEF TypeOK
<1>8. HeldByGreeted'
  BY <1>1, <1>2, <1>3, RefsDiffer DEF HeldByGreeted
<1>9. ClientOnly' /\ ReadyWindow' /\ OneConnection'
  BY <1>1, <1>2, <1>3, <1>5, <1>6 DEF ClientOnly, ReadyWindow, OneConnection
<1>10. AnswerBooks'
  <2>1. \A x \in Conns : Books(x, written[x], mailbox'[x], sent[x])
    BY <1>1, <1>3, TakesBooks
  <2>. QED
    BY <1>2, <2>1 DEF AnswerBooks
<1>. QED
  BY <1>7, <1>8, <1>9, <1>10 DEF SocketInv

-----------------------------------------------------------------------------
(* Theorems.                                                               *)

\* SocketInv holds in every reachable state of the socket.
THEOREM SocketInvariant == Spec => []SocketInv
<1>1. SocketInv /\ [Next]_vars => SocketInv'
  <2> SUFFICES ASSUME SocketInv, [Next]_vars PROVE SocketInv'
    OBVIOUS
  <2>1. CASE Next
    BY <2>1, OutsideInv, PeerInv, SendsInv, OnCommandFailedInv, OnConnectedInv,
       CreateHandlerInv, RestartActorInv, ConstructInv, ReceiveInv,
       OnGreetingInv DEF Next, ActorStep, HandlerStep
  <2>2. CASE UNCHANGED vars
    <3>1. TypeOK' /\ ClientOnly' /\ HeldByGreeted'
      BY <2>2 DEF vars, staticVars, actorVars, listenerVars, SocketInv, TypeOK,
         ClientOnly, HeldByGreeted
    <3>2. OneConnection' /\ ReadyWindow' /\ AnswerBooks'
      BY <2>2 DEF vars, staticVars, actorVars, listenerVars, SocketInv,
         OneConnection, ReadyWindow, AnswerBooks
    <3>. QED
      BY <3>1, <3>2 DEF SocketInv
  <2>. QED
    BY <2>1, <2>2
<1>. QED
  BY <1>1, SocketInitInv, PTL DEF Spec

\* The types hold for any number of connections, data and exceptions.
THEOREM SocketTypeCorrect == Spec => []TypeOK
<1>1. SocketInv => TypeOK
  BY DEF SocketInv
<1>. QED
  BY <1>1, SocketInvariant, PTL

\* An answer by write(data, sender) goes to the connection its datum came
\* from, in the order of the data, whatever the listener holds by then.
THEOREM AnswersToSenderHolds == Spec => []AnswersToSender
<1>1. SocketInv => AnswersToSender
  BY DEF SocketInv, AnswerBooks, Books, Answered, AnswersToSender
<1>. QED
  BY <1>1, SocketInvariant, PTL

\* The listener holds a connection only in a client whose handler has been
\* greeted and not replaced; what a server sends by itself is not written.
THEOREM ConnectionHeldHolds == Spec => []ConnectionHeldSinceGreeting
<1>1. SocketInv => ConnectionHeldSinceGreeting
  BY DEF SocketInv, TypeOK, ClientOnly, HeldByGreeted, ConnectionHeldSinceGreeting
<1>. QED
  BY <1>1, SocketInvariant, PTL

\* The field handleActor of a ready listener is null only while its actor is
\* about to create a first handler for it or that one is being constructed.
THEOREM ReadyWindowHolds == Spec => []ReadyWindow
<1>1. SocketInv => ReadyWindow
  BY DEF SocketInv
<1>. QED
  BY <1>1, SocketInvariant, PTL

\* Nothing leaves a client that has lost its connection, by any step.
THEOREM ClientStaysCutOffHolds == Spec => ClientStaysCutOff
<1>1. SocketInv /\ [Next]_vars =>
        [mode = "client" /\ (\E c \in Conns : conn[c] \in {"expired", "closed"})
           => UNCHANGED written]_vars
  <2> SUFFICES ASSUME SocketInv, Next, mode = "client",
                      NEW c \in Conns, conn[c] \in {"expired", "closed"}
               PROVE  UNCHANGED written
    OBVIOUS
  <2>1. \A x \in Conns : conn[x] # "open"
    BY DEF SocketInv, OneConnection
  <2>2. ASSUME NEW x, NEW d \in Data \cup {Push}, WriteTo(x, d) PROVE UNCHANGED written
    <3>1. written \in [Conns -> Seq(Data \cup {Push})]
      BY DEF SocketInv, TypeOK
    <3>2. written' \in [Conns -> Seq(Data \cup {Push})]
          /\ \A y \in Conns : written'[y] = written[y]
      BY <2>1, <2>2, WriteEffect DEF SocketInv
    <3>. QED
      BY <3>1, <3>2
  <2>3. CASE SendBytes \/ ListenerWrite
    BY <2>2, <2>3 DEF SendBytes, ListenerWrite
  <2>4. CASE \E x \in Conns : HandlerStep(x)
    BY <2>2, <2>4 DEF HandlerStep, Construct, OnGreeting, OnClosed, OnReceived
  <2>5. CASE InitSocket \/ AnswerInit \/ ActorStep \/ RunFails
    BY <2>5 DEF InitSocket, AnswerInit, ActorStep, RunFails, OnCommandFailed,
       RestartActor, OnConnected, CreateHandler
  <2>6. CASE \E x \in Conns : \/ Accept(x) \/ RegisterTimeout(x) \/ PeerSends(x)
                               \/ ConnectionEnds(x)
    BY <2>6 DEF Accept, RegisterTimeout, PeerSends, ConnectionEnds
  <2>. QED
    BY <2>3, <2>4, <2>5, <2>6 DEF Next
<1>. QED
  BY <1>1, SocketInvariant, PTL DEF Spec, ClientStaysCutOff
=============================================================================
