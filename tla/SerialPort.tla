----------------------------- MODULE SerialPort -----------------------------
(***************************************************************************)
(* A serial port server: the SerialportServer bean, the SerialportListener *)
(* that its preStart makes, and the port.                                  *)
(*                                                                         *)
(* Two threads meet: the actor of the bean (ServerActor), which calls      *)
(* preStart at every start and restart and whose RUN may write; and the    *)
(* event thread of the driver, which calls serialEvent, for as long as the *)
(* port is open. Nothing ever closes the port.                             *)
(*                                                                         *)
(* The driver (gnu.io, external) raises DATA_AVAILABLE when there are      *)
(* bytes to read and calls serialEvent in that same thread; read takes     *)
(* what is available and fits; open fails while the port has an owner.     *)
(* Bytes are numbered as they arrive; 0 is what a new array holds.         *)
(***************************************************************************)
EXTENDS Naturals, Sequences, FiniteSets

CONSTANTS
  MaxBytes,      \* bound: bytes that arrive
  MaxInstances,  \* bound: calls of preStart
  MaxErrors,     \* bound: IOExceptions of the driver
  Nobody,        \* owner of a port that is free
  Foreign        \* another program as the owner

ASSUME PortAssumption ==
  /\ MaxBytes \in Nat /\ MaxErrors \in Nat
  /\ MaxInstances \in Nat \ {0}
  /\ Nobody \notin Nat /\ Foreign \notin Nat /\ Nobody # Foreign

VARIABLES
  present,     \* the computer has a serial port of the configured name
  cell,        \* the ServerActor: "new", "idle", "failed", "stopped"
  current,     \* number of the listener in the bean's field, 0 if none
  owner,       \* who has opened the port
  streams,     \* listeners that have got the streams of the port
  listening,   \* the listener that the driver calls, 0 if none
  line,        \* bytes the driver has, in order
  arrived,     \* how many bytes have arrived
  event,       \* the event thread: "idle", or "reading" in serialEvent
  tt,          \* the array of serialEvent
  received,    \* the bytes of all calls of receive, in order
  errors,      \* how many IOExceptions a serialEvent has met
  overwritten, \* bytes read and then overwritten in tt
  dropped,     \* bytes in tt when an IOException ended serialEvent
  raced,       \* history: a byte has arrived during a serialEvent
  written      \* listeners through which a write has succeeded

beanVars == <<cell, current>>
portVars == <<owner, streams, listening>>
inputVars == <<line, arrived, event, tt, received, errors, overwritten,
               dropped, raced>>
vars == <<present, beanVars, portVars, inputVars, written>>

Instances == 1 .. MaxInstances
Bytes == 1 .. MaxBytes

TypeOK ==
  /\ present \in BOOLEAN
  /\ cell \in {"new", "idle", "failed", "stopped"}
  /\ current \in {0} \cup Instances
  /\ owner \in Instances \cup {Nobody, Foreign}
  /\ streams \subseteq Instances
  /\ listening \in {0} \cup Instances
  /\ line \in Seq(Bytes)
  /\ arrived \in 0 .. MaxBytes
  /\ event \in {"idle", "reading"}
  /\ tt \in Seq(Bytes \cup {0})
  /\ received \in Seq(Bytes)
  /\ errors \in 0 .. MaxErrors
  /\ overwritten \subseteq Bytes /\ dropped \subseteq Bytes
  /\ raced \in BOOLEAN
  /\ written \subseteq Instances

Init ==
  /\ present \in BOOLEAN
  /\ cell = "new" /\ current = 0
  /\ owner \in {Nobody, Foreign} /\ streams = {} /\ listening = 0
  /\ line = <<>> /\ arrived = 0 /\ event = "idle" /\ tt = <<>>
  /\ received = <<>> /\ errors = 0 /\ overwritten = {} /\ dropped = {} /\ raced = FALSE
  /\ written = {}

-----------------------------------------------------------------------------
(* The bean and its actor.                                                 *)

\* Mutant: the port is taken from the listener that has it.
StartListener_Takes(i) ==
  \/ /\ present
     /\ owner' = i /\ streams' = streams \cup {i} /\ listening' = i
  \/ /\ ~present
     /\ UNCHANGED portVars

\* SerialportListener.start: whatever fails in it is printed and swallowed.
\* A port in use leaves the listener without streams, and so does an error
\* of the streams, with the port open. Parameters that the port refuses are
\* noticed after the listener was added: it works, at other settings.
StartListener(i) ==
  \/ /\ present /\ owner = Nobody
     /\ owner' = i
     /\ \/ streams' = streams \cup {i} /\ listening' = i
        \/ UNCHANGED <<streams, listening>>
  \/ /\ ~present \/ owner # Nobody
     /\ UNCHANGED portVars

\* preStart of the bean: a new listener takes the place of the one in the
\* field, which the driver goes on calling if it has the port. A restart
\* does the same; preRestart and postStop of the bean are empty.
PreStart ==
  /\ cell \in {"new", "failed"}
  /\ current < MaxInstances
  /\ cell' = "idle"
  /\ current' = current + 1
  /\ StartListener(current + 1)
  /\ UNCHANGED <<present, written>>
  /\ UNCHANGED inputVars

\* A RUN that writes: without a stream it fails, and so does the actor.
Write ==
  /\ cell = "idle"
  /\ \/ /\ current \in streams
        /\ written' = written \cup {current}
        /\ UNCHANGED cell
     \/ /\ current \notin streams
        /\ cell' = "failed"
        /\ UNCHANGED written
  /\ UNCHANGED <<present, current>>
  /\ UNCHANGED portVars /\ UNCHANGED inputVars

\* A RUN that throws, by an error of the stream or of its own.
RunFails ==
  /\ cell = "idle"
  /\ cell' = "failed"
  /\ UNCHANGED <<present, current, written>>
  /\ UNCHANGED portVars /\ UNCHANGED inputVars

\* The node is closed: the actor stops, the port stays open.
Stop ==
  /\ cell \in {"idle", "failed"}
  /\ cell' = "stopped"
  /\ UNCHANGED <<present, current, written>>
  /\ UNCHANGED portVars /\ UNCHANGED inputVars

\* Another program gives the port up.
ForeignReleases ==
  /\ owner = Foreign
  /\ owner' = Nobody
  /\ UNCHANGED <<present, streams, listening, written>>
  /\ UNCHANGED beanVars /\ UNCHANGED inputVars

-----------------------------------------------------------------------------
(* The line and the event thread.                                          *)

Arrive ==
  /\ owner \in Instances
  /\ arrived < MaxBytes
  /\ arrived' = arrived + 1
  /\ line' = Append(line, arrived + 1)
  /\ raced' = (raced \/ event = "reading")
  /\ UNCHANGED <<present, event, tt, received, errors, overwritten, dropped,
                 written>>
  /\ UNCHANGED beanVars /\ UNCHANGED portVars

\* Mutant: an array of one byte for all events.
BeginEvent_FixedArray ==
  /\ listening # 0 /\ event = "idle" /\ line # <<>>
  /\ event' = "reading"
  /\ tt' = <<0>>
  /\ UNCHANGED <<present, line, arrived, received, errors, overwritten,
                 dropped, raced, written>>
  /\ UNCHANGED beanVars /\ UNCHANGED portVars

\* Mutant: events are ignored unless the actor of the bean is running.
BeginEvent_WhileUp ==
  /\ listening # 0 /\ event = "idle" /\ line # <<>> /\ cell = "idle"
  /\ event' = "reading"
  /\ tt' = [i \in 1 .. Len(line) |-> 0]
  /\ UNCHANGED <<present, line, arrived, received, errors, overwritten,
                 dropped, raced, written>>
  /\ UNCHANGED beanVars /\ UNCHANGED portVars

\* serialEvent of DATA_AVAILABLE: an array for what is available now. The
\* other events do nothing.
BeginEvent ==
  /\ listening # 0 /\ event = "idle" /\ line # <<>>
  /\ event' = "reading"
  /\ tt' = [i \in 1 .. Len(line) |-> 0]
  /\ UNCHANGED <<present, line, arrived, received, errors, overwritten,
                 dropped, raced, written>>
  /\ UNCHANGED beanVars /\ UNCHANGED portVars

Smaller(m, n) == IF m <= n THEN m ELSE n

\* Mutant: read goes on where the one before has ended, in a copy of tt.
ReadAgain_Rotates ==
  /\ event = "reading" /\ line # <<>>
  /\ LET k == Smaller(Len(tt), Len(line))
     IN /\ tt' = SubSeq(tt, k + 1, Len(tt)) \o SubSeq(line, 1, k)
        /\ line' = SubSeq(line, k + 1, Len(line))
  /\ UNCHANGED <<present, arrived, event, received, errors, overwritten,
                 dropped, raced, written>>
  /\ UNCHANGED beanVars /\ UNCHANGED portVars

\* One turn of the loop: inputStream.read(tt) reads to the front of tt,
\* whatever an earlier turn has put there.
ReadAgain ==
  /\ event = "reading" /\ line # <<>>
  /\ LET k == Smaller(Len(tt), Len(line))
     IN /\ tt' = SubSeq(line, 1, k) \o SubSeq(tt, k + 1, Len(tt))
        /\ line' = SubSeq(line, k + 1, Len(line))
        /\ overwritten' = overwritten \cup ({tt[i] : i \in 1 .. k} \ {0})
  /\ UNCHANGED <<present, arrived, event, received, errors, dropped, raced,
                 written>>
  /\ UNCHANGED beanVars /\ UNCHANGED portVars

\* Nothing is available any more: receive of the bean, with all of tt. An
\* unchecked exception of the application's receive is not caught here: it
\* leaves serialEvent for the thread of the driver, which is assumed to go on
\* to the next event as after a return.
EndEvent ==
  /\ event = "reading" /\ line = <<>>
  /\ event' = "idle"
  /\ received' = received \o tt
  /\ tt' = <<>>
  /\ UNCHANGED <<present, line, arrived, errors, overwritten, dropped, raced,
                 written>>
  /\ UNCHANGED beanVars /\ UNCHANGED portVars

\* An IOException of available or read is swallowed: receive is not called.
EventFails ==
  /\ event = "reading"
  /\ errors < MaxErrors
  /\ errors' = errors + 1
  /\ event' = "idle"
  /\ dropped' = dropped \cup ({tt[i] : i \in 1 .. Len(tt)} \ {0})
  /\ tt' = <<>>
  /\ UNCHANGED <<present, line, arrived, received, overwritten, raced, written>>
  /\ UNCHANGED beanVars /\ UNCHANGED portVars

-----------------------------------------------------------------------------
EventStep == BeginEvent \/ ReadAgain \/ EndEvent \/ EventFails

Next ==
  \/ PreStart \/ Write \/ RunFails \/ Stop \/ ForeignReleases
  \/ Arrive \/ EventStep

\* The driver calls, and its event thread gets on.
Fairness == WF_vars(EventStep)

Spec == Init /\ [][Next]_vars /\ Fairness

-----------------------------------------------------------------------------
(* Properties.                                                             *)

\* How often byte b is in s.
Times(b, s) == Cardinality({i \in 1 .. Len(s) : s[i] = b})
One(p) == IF p THEN 1 ELSE 0

\* Every byte that has arrived is in one place, and receive gets none twice:
\* a byte is lost only in serialEvent, by a read over it or by an error.
BytesConserved == \A b \in 1 .. arrived :
  Times(b, line) + Times(b, tt) + Times(b, received)
    + One(b \in overwritten) + One(b \in dropped) = 1

\* As long as no byte comes while the loop runs, and no read fails, receive
\* gets all bytes in their order: the array has room for what is read, and
\* no element of it is left as it was made.
QuietLineIntact ==
  event = "idle" /\ ~raced /\ dropped = {} =>
    received \o line = [i \in 1 .. arrived |-> i]

\* The bean cannot write after a restart: the port is never closed, so that
\* the listener that has opened it keeps it, and the one by which preStart
\* replaces it in the field gets no stream.
LockedOutAfterRestart ==
  [][(owner \in Instances) =>
        owner' = owner /\ (current # owner => written' = written)]_vars

\* A byte that arrives reaches receive, or is lost in serialEvent, also when
\* the actor of the bean has failed, was restarted or has stopped.
EveryByteLeaves == \A b \in Bytes :
  (b <= arrived /\ listening # 0) ~>
    (b \in overwritten \cup dropped \/ Times(b, received) > 0)
=============================================================================
