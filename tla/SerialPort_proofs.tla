------------------------- MODULE SerialPort_proofs -------------------------
(***************************************************************************)
(* Proofs about SerialPort, for any number of bytes, of restarts and of    *)
(* errors.                                                                 *)
(***************************************************************************)
EXTENDS SerialPort, SequenceTheorems, FiniteSetTheorems, TLAPS

\* The array of serialEvent is as it was made, and there are enough bytes on
\* the line to fill it; or all of it was read.
Untouched == Len(tt) <= Len(line)
Filled == tt \in Seq(Bytes)
ArrayFills == event = "reading" => Untouched \/ Filled

\* Only the listener that has opened the port has its streams.
StreamsOfOwner == \A i \in streams : i = owner

\* The inductive invariant: types, the array, the streams.
PortInv == TypeOK /\ ArrayFills /\ StreamsOfOwner

\* A port nobody of this program has opened has no streams.
LEMMA PortInitInv == Init => PortInv
<1> SUFFICES ASSUME Init PROVE PortInv
  OBVIOUS
<1>1. /\ 0 \in 0 .. MaxBytes /\ 0 \in 0 .. MaxErrors
      /\ << >> \in Seq(Bytes) /\ << >> \in Seq(Bytes \cup {0})
  BY PortAssumption
<1>2. raced \in BOOLEAN
  BY Zenon DEF Init
<1>3. TypeOK
  BY <1>1, <1>2 DEF Init, TypeOK
<1>. QED
  BY <1>3 DEF Init, PortInv, ArrayFills, StreamsOfOwner

\* The bean, its actor and other programs leave the bytes alone, and give
\* streams to the owner only.
LEMMA BeanInv ==
  ASSUME PortInv, PreStart \/ Write \/ RunFails \/ Stop \/ ForeignReleases
  PROVE  PortInv'
<1>1. inputVars' = inputVars
  BY DEF PreStart, Write, RunFails, Stop, ForeignReleases
<1>2. ArrayFills'
  BY <1>1 DEF inputVars, PortInv, ArrayFills, Untouched, Filled
<1>3. CASE PreStart
  <2>1. current + 1 \in Instances /\ current' = current + 1
    BY <1>3, PortAssumption DEF PreStart, PortInv, TypeOK, Instances
  <2>2. /\ owner' \in Instances \cup {Nobody, Foreign}
        /\ streams' \subseteq Instances
        /\ listening' \in {0} \cup Instances
        /\ StreamsOfOwner'
    <3>1. CASE UNCHANGED portVars
      BY <3>1 DEF PortInv, TypeOK, StreamsOfOwner, portVars
    <3>2. CASE ~UNCHANGED portVars
      <4>1. /\ owner = Nobody /\ owner' = current + 1
            /\ \/ streams' = streams \cup {current + 1} /\ listening' = current + 1
               \/ streams' = streams /\ listening' = listening
        BY <1>3, <3>2 DEF PreStart, StartListener
      <4>2. streams = {}
        BY <4>1, PortAssumption DEF PortInv, TypeOK, StreamsOfOwner, Instances
      <4>. QED
        BY <2>1, <4>1, <4>2 DEF PortInv, TypeOK, StreamsOfOwner
    <3>. QED
      BY <3>1, <3>2
  <2>3. TypeOK'
    BY <1>1, <1>3, <2>1, <2>2 DEF PreStart, PortInv, TypeOK, inputVars
  <2>. QED
    BY <1>2, <2>2, <2>3 DEF PortInv
<1>4. CASE Write \/ RunFails \/ Stop \/ ForeignReleases
  <2>1. TypeOK'
    BY <1>1, <1>4 DEF Write, RunFails, Stop, ForeignReleases, PortInv, TypeOK,
       portVars, beanVars, inputVars
  <2>2. CASE ForeignReleases
    <3>1. streams = {}
      BY <2>2, PortAssumption DEF ForeignReleases, PortInv, TypeOK,
         StreamsOfOwner, Instances
    <3>. QED
      BY <1>2, <2>1, <2>2, <3>1 DEF ForeignReleases, PortInv, StreamsOfOwner
  <2>3. CASE Write \/ RunFails \/ Stop
    BY <1>2, <2>1, <2>3 DEF Write, RunFails, Stop, PortInv,
       StreamsOfOwner, portVars
  <2>. QED
    BY <1>4, <2>2, <2>3
<1>. QED
  BY <1>3, <1>4

\* A byte that arrives makes the line longer.
LEMMA ArriveInv ==
  ASSUME PortInv, Arrive
  PROVE  PortInv'
<1>1. arrived + 1 \in Bytes /\ arrived' \in 0 .. MaxBytes
  BY PortAssumption DEF Arrive, PortInv, TypeOK, Bytes
<1>2. line' \in Seq(Bytes) /\ Len(line') = Len(line) + 1
  BY <1>1, AppendProperties DEF Arrive, PortInv, TypeOK
<1>3. TypeOK'
  BY <1>1, <1>2 DEF Arrive, PortInv, TypeOK, beanVars, portVars
<1>4. ArrayFills'
  BY <1>2 DEF Arrive, PortInv, TypeOK, ArrayFills, Untouched, Filled
<1>. QED
  BY <1>3, <1>4 DEF Arrive, PortInv, StreamsOfOwner, portVars

\* A new array is as long as the line.
LEMMA BeginEventInv ==
  ASSUME PortInv, BeginEvent
  PROVE  PortInv'
<1>1. Len(line) \in Nat
  BY LenProperties DEF PortInv, TypeOK
<1>2. tt' \in Seq(Bytes \cup {0}) /\ Len(tt') = Len(line)
  BY <1>1 DEF BeginEvent
<1>3. TypeOK'
  BY <1>2 DEF BeginEvent, PortInv, TypeOK, beanVars, portVars
<1>4. ArrayFills'
  BY <1>1, <1>2 DEF BeginEvent, ArrayFills, Untouched
<1>. QED
  BY <1>3, <1>4 DEF BeginEvent, PortInv, StreamsOfOwner, portVars

\* What one turn reads: k bytes to the front of the array.
LEMMA ReadBytes ==
  ASSUME NEW S, NEW l \in Seq(S), NEW T, NEW a \in Seq(T), S \subseteq T,
         NEW k \in Nat, k <= Len(l), k <= Len(a)
  PROVE  /\ SubSeq(l, 1, k) \in Seq(S) /\ Len(SubSeq(l, 1, k)) = k
         /\ SubSeq(l, k + 1, Len(l)) \in Seq(S)
         /\ SubSeq(a, k + 1, Len(a)) \in Seq(T)
         /\ Len(SubSeq(a, k + 1, Len(a))) = Len(a) - k
         /\ SubSeq(l, 1, k) \o SubSeq(a, k + 1, Len(a)) \in Seq(T)
<1>1. SubSeq(l, 1, k) \in Seq(S) /\ Len(SubSeq(l, 1, k)) = k
  BY SubSeqProperties, LenProperties
<1>2. SubSeq(l, k + 1, Len(l)) \in Seq(S)
  BY SubSeqProperties, LenProperties
<1>3. /\ SubSeq(a, k + 1, Len(a)) \in Seq(T)
      /\ Len(SubSeq(a, k + 1, Len(a))) = Len(a) - k
  BY SubSeqProperties, LenProperties
<1>4. SubSeq(l, 1, k) \in Seq(T)
  BY <1>1
<1>. QED
  BY <1>1, <1>2, <1>3, <1>4, ConcatProperties

\* The first turn fills an untouched array; a later one leaves it filled.
LEMMA ReadAgainInv ==
  ASSUME PortInv, ReadAgain
  PROVE  PortInv'
<1> DEFINE k == Smaller(Len(tt), Len(line))
<1>1. /\ line \in Seq(Bytes) /\ tt \in Seq(Bytes \cup {0})
      /\ Len(line) \in Nat /\ Len(tt) \in Nat
  BY LenProperties DEF PortInv, TypeOK
<1>2. k \in Nat /\ k <= Len(line) /\ k <= Len(tt)
  BY <1>1 DEF Smaller
<1>3. /\ tt' = SubSeq(line, 1, k) \o SubSeq(tt, k + 1, Len(tt))
      /\ line' = SubSeq(line, k + 1, Len(line))
      /\ overwritten' = overwritten \cup ({tt[i] : i \in 1 .. k} \ {0})
  BY DEF ReadAgain
<1> HIDE DEF k
<1>4. tt' \in Seq(Bytes \cup {0}) /\ line' \in Seq(Bytes)
  BY <1>1, <1>2, <1>3, ReadBytes
<1>5. overwritten' \subseteq Bytes
  <2>1. ASSUME NEW i \in 1 .. k PROVE tt[i] \in Bytes \cup {0}
    BY <1>1, <1>2, ElementOfSeq
  <2>2. overwritten \subseteq Bytes
    BY DEF PortInv, TypeOK
  <2>. QED
    BY <1>3, <2>1, <2>2
<1>6. TypeOK'
  BY <1>4, <1>5 DEF ReadAgain, PortInv, TypeOK, beanVars, portVars
<1>7. Filled'
  <2>1. CASE Untouched
    <3>1. k = Len(tt)
      BY <1>1, <2>1 DEF k, Smaller, Untouched
    <3>2. SubSeq(tt, k + 1, Len(tt)) = << >>
      BY <1>1, <3>1, SubSeqEmpty
    <3>3. SubSeq(line, 1, k) \in Seq(Bytes)
      BY <1>1, <1>2, ReadBytes
    <3>4. SubSeq(line, 1, k) \o << >> = SubSeq(line, 1, k)
      BY <3>3, ConcatEmptySeq
    <3>. QED
      BY <1>3, <3>2, <3>3, <3>4 DEF Filled
  <2>2. CASE Filled
    BY <1>1, <1>2, <1>3, <2>2, ReadBytes DEF Filled
  <2>. QED
    BY <2>1, <2>2 DEF PortInv, ArrayFills, ReadAgain
<1>. QED
  BY <1>6, <1>7 DEF ReadAgain, PortInv, ArrayFills, StreamsOfOwner, portVars

\* receive gets an array that was filled: with the line empty, an array that
\* is untouched has no elements.
LEMMA EndEventInv ==
  ASSUME PortInv, EndEvent
  PROVE  PortInv'
<1>1. tt \in Seq(Bytes)
  <2>1. CASE Filled
    BY <2>1 DEF Filled
  <2>2. CASE Untouched
    <3>1. tt = << >>
      BY <2>2, EmptySeq, LenProperties DEF EndEvent, Untouched, PortInv, TypeOK
    <3>. QED
      BY <3>1
  <2>. QED
    BY <2>1, <2>2 DEF PortInv, ArrayFills, EndEvent
<1>2. received' \in Seq(Bytes)
  BY <1>1, ConcatProperties DEF EndEvent, PortInv, TypeOK
<1>3. TypeOK'
  BY <1>2 DEF EndEvent, PortInv, TypeOK, beanVars, portVars
<1>. QED
  BY <1>3 DEF EndEvent, PortInv, ArrayFills, StreamsOfOwner, portVars

\* An event that fails drops what it has read.
LEMMA EventFailsInv ==
  ASSUME PortInv, EventFails
  PROVE  PortInv'
<1>1. ASSUME NEW i \in 1 .. Len(tt) PROVE tt[i] \in Bytes \cup {0}
  BY ElementOfSeq DEF PortInv, TypeOK
<1>2. dropped' \subseteq Bytes
  BY <1>1 DEF EventFails, PortInv, TypeOK
<1>3. errors' \in 0 .. MaxErrors
  BY PortAssumption DEF EventFails, PortInv, TypeOK
<1>4. TypeOK'
  BY <1>2, <1>3 DEF EventFails, PortInv, TypeOK, beanVars, portVars
<1>. QED
  BY <1>4 DEF EventFails, PortInv, ArrayFills, StreamsOfOwner, portVars

\* PortInv holds in every reachable state of the port.
THEOREM PortInvariant == Spec => []PortInv
<1>1. PortInv /\ [Next]_vars => PortInv'
  <2> SUFFICES ASSUME PortInv, [Next]_vars PROVE PortInv'
    OBVIOUS
  <2>1. CASE Next
    BY <2>1, BeanInv, ArriveInv, BeginEventInv, ReadAgainInv, EndEventInv,
       EventFailsInv DEF Next, EventStep
  <2>2. CASE UNCHANGED vars
    BY <2>2 DEF vars, beanVars, portVars, inputVars, PortInv, TypeOK,
       ArrayFills, Untouched, Filled, StreamsOfOwner
  <2>. QED
    BY <2>1, <2>2
<1>. QED
  BY <1>1, PortInitInv, PTL DEF Spec

\* The types hold for any number of bytes, restarts and errors; they say that
\* receive never gets an element of an array that no read has filled.
THEOREM PortTypeCorrect == Spec => []TypeOK
<1>1. PortInv => TypeOK
  BY DEF PortInv
<1>. QED
  BY <1>1, PortInvariant, PTL

\* The port keeps its owner, and the bean writes by no other listener: after
\* any number of restarts it is locked out.
THEOREM LockedOutAfterRestartHolds == Spec => LockedOutAfterRestart
<1>1. PortInv /\ [Next]_vars =>
        [(owner \in Instances) =>
           owner' = owner /\ (current # owner => written' = written)]_vars
  <2> SUFFICES ASSUME PortInv, Next, owner \in Instances
               PROVE  owner' = owner /\ (current # owner => written' = written)
    OBVIOUS
  <2>1. owner # Nobody /\ owner # Foreign
    BY PortAssumption DEF Instances
  <2>2. CASE PreStart
    BY <2>1, <2>2 DEF PreStart, StartListener, portVars
  <2>3. CASE Write
    BY <2>3 DEF Write, PortInv, StreamsOfOwner, portVars
  <2>4. CASE RunFails \/ Stop \/ ForeignReleases
    BY <2>1, <2>4 DEF RunFails, Stop, ForeignReleases, portVars
  <2>5. CASE Arrive \/ EventStep
    BY <2>5 DEF Arrive, EventStep, BeginEvent, ReadAgain, EndEvent,
       EventFails, portVars
  <2>. QED
    BY <2>2, <2>3, <2>4, <2>5 DEF Next
<1>. QED
  BY <1>1, PortInvariant, PTL DEF Spec, LockedOutAfterRestart

-----------------------------------------------------------------------------
(* Where a byte is.                                                        *)

\* The bytes in an array, and that it has none of them twice; 0 is no byte.
Elems(s) == {s[i] : i \in 1 .. Len(s)} \ {0}
Distinct(s) == \A i \in 1 .. Len(s), j \in 1 .. Len(s) :
  s[i] = s[j] /\ s[i] # 0 => i = j

\* s holds the numbers after a, in order.
Numbered(s, a) == \A i \in 1 .. Len(s) : s[i] = a + i

\* The line holds the bytes that have arrived last, in order.
LineNumbered == Len(line) <= arrived /\ Numbered(line, arrived - Len(line))

\* Bytes 1 to n are in array a, in what receive has got (r), among those
\* overwritten (o) or among those dropped (d); each in one of them, once.
Placed(n, a, r, o, d) ==
  /\ Distinct(a) /\ Distinct(r)
  /\ Elems(a) \cap Elems(r) = {} /\ o \cap d = {}
  /\ (Elems(a) \cup Elems(r)) \cap (o \cup d) = {}
  /\ Elems(a) \cup Elems(r) \cup o \cup d = 1 .. n

BytesPlaced ==
  /\ Placed(arrived - Len(line), tt, received, overwritten, dropped)
  /\ event = "idle" => tt = << >>

\* On a quiet line the array is as it was made, and what is on the line fits
\* it exactly; or it holds all that was on the line.
Quiet == ~raced /\ dropped = {}
QuietArray ==
  \/ /\ Len(tt) = Len(line) /\ \A i \in 1 .. Len(tt) : tt[i] = 0
     /\ Len(received) = arrived - Len(line)
  \/ /\ line = << >> /\ Numbered(tt, Len(received))
     /\ Len(received) + Len(tt) = arrived
QuietBooks == Quiet =>
  /\ Numbered(received, 0)
  /\ event = "idle" => Len(received) = arrived - Len(line)
  /\ event = "reading" => QuietArray

BytesInv == PortInv /\ LineNumbered /\ BytesPlaced /\ QuietBooks

\* The bytes of two arrays, one after the other.
LEMMA ElemsConcat ==
  ASSUME NEW T, NEW s \in Seq(T), NEW t \in Seq(T)
  PROVE  /\ Elems(s \o t) = Elems(s) \cup Elems(t)
         /\ Distinct(s) /\ Distinct(t) /\ Elems(s) \cap Elems(t) = {} =>
              Distinct(s \o t)
<1> DEFINE u == s \o t
<1>1. /\ Len(s) \in Nat /\ Len(t) \in Nat /\ Len(u) = Len(s) + Len(t)
      /\ \A i \in 1 .. Len(u) : u[i] = IF i <= Len(s) THEN s[i] ELSE t[i - Len(s)]
  BY ConcatProperties, LenProperties
<1> HIDE DEF u
<1>2. \A i \in 1 .. Len(u) : \/ i \in 1 .. Len(s) /\ u[i] = s[i]
                             \/ i - Len(s) \in 1 .. Len(t) /\ u[i] = t[i - Len(s)]
  BY <1>1
<1>3. \A i \in 1 .. Len(s) : i \in 1 .. Len(u) /\ u[i] = s[i]
  BY <1>1
<1>4. \A i \in 1 .. Len(t) : i + Len(s) \in 1 .. Len(u) /\ u[i + Len(s)] = t[i]
  BY <1>1
<1>5. Elems(u) = Elems(s) \cup Elems(t)
  <2>1. ASSUME NEW x \in Elems(u) PROVE x \in Elems(s) \cup Elems(t)
    <3>1. PICK i \in 1 .. Len(u) : x = u[i] /\ x # 0
      BY <2>1 DEF Elems
    <3>. QED
      BY <1>2, <3>1 DEF Elems
  <2>2. ASSUME NEW x \in Elems(s) PROVE x \in Elems(u)
    BY <1>3, <2>2 DEF Elems
  <2>3. ASSUME NEW x \in Elems(t) PROVE x \in Elems(u)
    BY <1>4, <2>3 DEF Elems
  <2>. QED
    BY <2>1, <2>2, <2>3
<1>6. ASSUME Distinct(s), Distinct(t), Elems(s) \cap Elems(t) = {},
             NEW i \in 1 .. Len(u), NEW j \in 1 .. Len(u), u[i] = u[j], u[i] # 0
      PROVE  i = j
  <2>1. CASE i \in 1 .. Len(s) /\ u[i] = s[i]
    <3>1. CASE j \in 1 .. Len(s) /\ u[j] = s[j]
      BY <1>6, <2>1, <3>1 DEF Distinct
    <3>2. CASE j - Len(s) \in 1 .. Len(t) /\ u[j] = t[j - Len(s)]
      BY <1>6, <2>1, <3>2 DEF Elems
    <3>. QED
      BY <1>2, <3>1, <3>2
  <2>2. CASE i - Len(s) \in 1 .. Len(t) /\ u[i] = t[i - Len(s)]
    <3>1. CASE j \in 1 .. Len(s) /\ u[j] = s[j]
      BY <1>6, <2>2, <3>1 DEF Elems
    <3>2. CASE j - Len(s) \in 1 .. Len(t) /\ u[j] = t[j - Len(s)]
      <4>1. i - Len(s) = j - Len(s)
        BY <1>6, <2>2, <3>2 DEF Distinct
      <4>. QED
        BY <1>1, <4>1
    <3>. QED
      BY <1>2, <3>1, <3>2
  <2>. QED
    BY <1>2, <2>1, <2>2
<1>. QED
  BY <1>5, <1>6 DEF Distinct, u

\* The bytes of the front and of the rest of an array.
LEMMA ElemsSplit ==
  ASSUME NEW T, NEW a \in Seq(T), NEW k \in Nat, k <= Len(a)
  PROVE  LET front == {a[i] : i \in 1 .. k} \ {0}
             rest == SubSeq(a, k + 1, Len(a))
         IN  /\ Elems(a) = front \cup Elems(rest)
             /\ Distinct(a) => Distinct(rest) /\ front \cap Elems(rest) = {}
<1> DEFINE front == {a[i] : i \in 1 .. k} \ {0}
           r == SubSeq(a, k + 1, Len(a))
<1>1. /\ Len(a) \in Nat /\ Len(r) = Len(a) - k
      /\ \A i \in 1 .. Len(r) : r[i] = a[k + i]
  <2>1. Len(a) \in Nat /\ \A i \in k + 1 .. Len(a) : a[i] \in T
    BY LenProperties, ElementOfSeq
  <2>2. /\ Len(r) = IF k + 1 <= Len(a) THEN Len(a) - (k + 1) + 1 ELSE 0
        /\ \A i \in 1 .. Len(a) - (k + 1) + 1 : r[i] = a[k + 1 + i - 1]
    <3>1. k + 1 \in Nat /\ Len(a) \in Int /\ k + 1 \in Int
      BY <2>1
    <3>. QED
      BY <2>1, <3>1, SubSeqProperties
  <2> HIDE DEF r
  <2>3. Len(r) = Len(a) - k
    BY <2>1, <2>2
  <2>4. ASSUME NEW i \in 1 .. Len(r) PROVE r[i] = a[k + i]
    BY <2>1, <2>2, <2>3
  <2>. QED
    BY <2>1, <2>3, <2>4
<1> HIDE DEF r
<1>2. \A i \in 1 .. Len(r) : k + i \in 1 .. Len(a) /\ ~(k + i \in 1 .. k) /\ r[i] = a[k + i]
  BY <1>1
<1>3. \A i \in 1 .. Len(a) :
        i \in 1 .. k \/ (i - k \in 1 .. Len(r) /\ a[i] = r[i - k])
  BY <1>1
<1>4. \A i \in 1 .. k : i \in 1 .. Len(a)
  BY <1>1
<1>5. Elems(a) = front \cup Elems(r)
  <2>1. ASSUME NEW x \in Elems(a) PROVE x \in front \cup Elems(r)
    <3>1. PICK i \in 1 .. Len(a) : x = a[i] /\ x # 0
      BY <2>1 DEF Elems
    <3>. QED
      BY <1>3, <3>1 DEF Elems
  <2>2. ASSUME NEW x \in front PROVE x \in Elems(a)
    BY <1>4, <2>2 DEF Elems
  <2>3. ASSUME NEW x \in Elems(r) PROVE x \in Elems(a)
    BY <1>2, <2>3 DEF Elems
  <2>. QED
    BY <2>1, <2>2, <2>3
<1>6. ASSUME Distinct(a) PROVE Distinct(r) /\ front \cap Elems(r) = {}
  <2>1. ASSUME NEW i \in 1 .. Len(r), NEW j \in 1 .. Len(r), r[i] = r[j], r[i] # 0
        PROVE  i = j
    <3>1. k + i = k + j
      BY <1>2, <1>6, <2>1 DEF Distinct
    <3>. QED
      BY <3>1
  <2>2. ASSUME NEW x \in front, x \in Elems(r) PROVE FALSE
    <3>1. PICK i \in 1 .. k : x = a[i] /\ x # 0
      BY <2>2
    <3>2. PICK j \in 1 .. Len(r) : x = r[j]
      BY <2>2 DEF Elems
    <3>3. i = k + j
      BY <1>2, <1>4, <1>6, <3>1, <3>2 DEF Distinct
    <3>. QED
      BY <1>2, <3>2, <3>3
  <2>. QED
    BY <2>1, <2>2 DEF Distinct
<1>. QED
  BY <1>5, <1>6 DEF r

\* The bytes of a part of the line.
LEMMA NumberedSplit ==
  ASSUME NEW l \in Seq(Bytes), NEW n \in Nat, NEW k \in Nat, k <= Len(l),
         Numbered(l, n)
  PROVE  /\ Numbered(SubSeq(l, k + 1, Len(l)), n + k)
         /\ Len(SubSeq(l, k + 1, Len(l))) = Len(l) - k
         /\ Elems(SubSeq(l, 1, k)) = n + 1 .. n + k
         /\ Distinct(SubSeq(l, 1, k))
<1> DEFINE f == SubSeq(l, 1, k)
           r == SubSeq(l, k + 1, Len(l))
<1>1. Len(l) \in Nat /\ \A i \in 1 .. Len(l) : l[i] \in Bytes
  BY LenProperties, ElementOfSeq
<1>2. Len(f) = k /\ \A i \in 1 .. k : f[i] = l[i]
  <2>1. \A i \in 1 .. k : l[i] \in Bytes
    BY <1>1
  <2>2. /\ Len(f) = IF 1 <= k THEN k - 1 + 1 ELSE 0
        /\ \A i \in 1 .. k - 1 + 1 : f[i] = l[1 + i - 1]
    BY <2>1, SubSeqProperties
  <2>. QED
    BY <2>2
<1>3. Len(r) = Len(l) - k /\ \A i \in 1 .. Len(r) : r[i] = l[k + i]
  <2>1. \A i \in k + 1 .. Len(l) : l[i] \in Bytes
    BY <1>1
  <2>2. /\ Len(r) = IF k + 1 <= Len(l) THEN Len(l) - (k + 1) + 1 ELSE 0
        /\ \A i \in 1 .. Len(l) - (k + 1) + 1 : r[i] = l[k + 1 + i - 1]
    BY <1>1, <2>1, SubSeqProperties
  <2>. QED
    BY <1>1, <2>2
<1> HIDE DEF f, r
<1>4. Numbered(r, n + k)
  <2>1. ASSUME NEW i \in 1 .. Len(r) PROVE r[i] = n + k + i
    <3>1. k + i \in 1 .. Len(l)
      BY <1>1, <1>3
    <3>2. l[k + i] = n + (k + i)
      BY <3>1 DEF Numbered
    <3>. QED
      BY <1>3, <3>2
  <2>. QED
    BY <2>1 DEF Numbered
<1>5. \A i \in 1 .. k : f[i] = n + i
  BY <1>1, <1>2 DEF Numbered
<1>6. Distinct(f)
  BY <1>2, <1>5 DEF Distinct
<1>7. Elems(f) = n + 1 .. n + k
  <2>1. ASSUME NEW x \in Elems(f) PROVE x \in n + 1 .. n + k
    BY <1>2, <1>5, <2>1 DEF Elems
  <2>2. ASSUME NEW x \in n + 1 .. n + k PROVE x \in Elems(f)
    <3>1. x - n \in 1 .. k /\ x # 0
      OBVIOUS
    <3>2. f[x - n] = x
      BY <1>5, <3>1
    <3>. QED
      BY <1>2, <3>1, <3>2 DEF Elems
  <2>. QED
    BY <2>1, <2>2
<1>. QED
  BY <1>3, <1>4, <1>6, <1>7 DEF f, r

\* One turn of the loop puts k bytes into the array, over others.
LEMMA PlacedRead ==
  ASSUME NEW n \in Nat, NEW l \in Seq(Bytes), Numbered(l, n),
         NEW a \in Seq(Bytes \cup {0}), NEW r, NEW o, NEW d,
         NEW k \in Nat, k <= Len(l), k <= Len(a), Placed(n, a, r, o, d)
  PROVE  Placed(n + k, SubSeq(l, 1, k) \o SubSeq(a, k + 1, Len(a)), r,
                o \cup ({a[i] : i \in 1 .. k} \ {0}), d)
<1> DEFINE f == SubSeq(l, 1, k)
           b == SubSeq(a, k + 1, Len(a))
           over == {a[i] : i \in 1 .. k} \ {0}
<1>1. f \in Seq(Bytes \cup {0}) /\ b \in Seq(Bytes \cup {0})
  <2>1. f \in Seq(Bytes) /\ b \in Seq(Bytes \cup {0})
    BY ReadBytes
  <2>. QED
    BY <2>1, SeqMonotonic
<1>2. Elems(f) = n + 1 .. n + k /\ Distinct(f)
  BY NumberedSplit
<1>3. Elems(a) = over \cup Elems(b) /\ Distinct(b) /\ over \cap Elems(b) = {}
  BY ElemsSplit DEF Placed
<1> HIDE DEF f, b, over
<1>4. /\ Elems(f) \cap (1 .. n) = {} /\ 1 .. n + k = (1 .. n) \cup Elems(f)
  BY <1>2
<1>5. /\ Elems(a) \cap Elems(r) = {} /\ o \cap d = {} /\ Distinct(r)
      /\ (Elems(a) \cup Elems(r)) \cap (o \cup d) = {}
      /\ Elems(a) \cup Elems(r) \cup o \cup d = 1 .. n
  BY DEF Placed
<1>6. Elems(f) \cap Elems(b) = {}
  BY <1>3, <1>4, <1>5
<1>7. Elems(f \o b) = Elems(f) \cup Elems(b) /\ Distinct(f \o b)
  <2>1. /\ Elems(f \o b) = Elems(f) \cup Elems(b)
        /\ Distinct(f) /\ Distinct(b) /\ Elems(f) \cap Elems(b) = {} =>
             Distinct(f \o b)
    BY <1>1, ElemsConcat
  <2>2. Distinct(f) /\ Distinct(b)
    BY <1>2, <1>3
  <2>. QED
    BY <1>6, <2>1, <2>2
<1>8. Elems(f \o b) \cap Elems(r) = {} /\ (o \cup over) \cap d = {}
  BY <1>3, <1>4, <1>5, <1>7
<1>9. (Elems(f \o b) \cup Elems(r)) \cap ((o \cup over) \cup d) = {}
  BY <1>3, <1>4, <1>5, <1>7
<1>10. Elems(f \o b) \cup Elems(r) \cup (o \cup over) \cup d = 1 .. n + k
  BY <1>3, <1>4, <1>5, <1>7
<1>11. Placed(n + k, f \o b, r, o \cup over, d)
  BY <1>5, <1>7, <1>8, <1>9, <1>10 DEF Placed
<1>. QED
  BY <1>11 DEF f, b, over

\* receive gets the array, or it is dropped, or a new one is made.
LEMMA PlacedEnd ==
  ASSUME NEW n, NEW T, NEW a \in Seq(T), NEW r \in Seq(T), NEW o, NEW d,
         Placed(n, a, r, o, d)
  PROVE  /\ Placed(n, << >>, r \o a, o, d)
         /\ Placed(n, << >>, r, o, d \cup Elems(a))
<1>1. Elems(<< >>) = {} /\ Distinct(<< >>)
  BY DEF Elems, Distinct
<1>2. Elems(r \o a) = Elems(r) \cup Elems(a) /\ Distinct(r \o a)
  BY ElemsConcat DEF Placed
<1>3. Placed(n, << >>, r \o a, o, d)
  BY <1>1, <1>2 DEF Placed
<1>4. Placed(n, << >>, r, o, d \cup Elems(a))
  BY <1>1 DEF Placed
<1>. QED
  BY <1>3, <1>4

LEMMA PlacedBegin ==
  ASSUME NEW n, NEW a, NEW r, NEW o, NEW d,
         Placed(n, << >>, r, o, d), \A i \in 1 .. Len(a) : a[i] = 0
  PROVE  Placed(n, a, r, o, d)
<1>1. Elems(<< >>) = {} /\ Elems(a) = {} /\ Distinct(a)
  BY DEF Elems, Distinct
<1>. QED
  BY <1>1 DEF Placed

-----------------------------------------------------------------------------
(* The steps of the bytes.                                                 *)

LEMMA BytesInitInv == Init => BytesInv
<1> SUFFICES ASSUME Init PROVE BytesInv
  OBVIOUS
<1>1. PortInv
  BY PortInitInv
<1>2. /\ line = << >> /\ arrived = 0 /\ tt = << >> /\ received = << >>
      /\ overwritten = {} /\ dropped = {} /\ event = "idle"
  BY DEF Init
<1>3. LineNumbered
  BY <1>2 DEF LineNumbered, Numbered
<1>4. Elems(<< >>) = {} /\ Distinct(<< >>) /\ 1 .. (0 - 0) = {}
  BY DEF Elems, Distinct
<1>5. BytesPlaced
  BY <1>2, <1>4 DEF BytesPlaced, Placed
<1>6. QuietBooks
  <2>1. Len(received) = 0 /\ Len(line) = 0
    BY <1>2
  <2>2. Numbered(received, 0)
    BY <2>1 DEF Numbered
  <2>3. Len(received) = arrived - Len(line)
    <3>1. arrived = 0
      BY <1>2
    <3>. QED
      BY <2>1, <3>1
  <2>4. event # "reading"
    BY <1>2
  <2>. QED
    BY <2>2, <2>3, <2>4 DEF QuietBooks
<1>. QED
  BY <1>1, <1>3, <1>5, <1>6 DEF BytesInv

\* The bean, its actor and other programs leave the bytes alone.
LEMMA BytesAlone ==
  ASSUME LineNumbered, BytesPlaced, QuietBooks, UNCHANGED inputVars
  PROVE  LineNumbered' /\ BytesPlaced' /\ QuietBooks'
BY DEF LineNumbered, BytesPlaced, QuietBooks, Quiet, QuietArray, inputVars

\* A byte arrives, with the next number.
LEMMA ArriveBytes ==
  ASSUME BytesInv, Arrive
  PROVE  LineNumbered' /\ BytesPlaced' /\ QuietBooks'
<1>1. /\ line \in Seq(Bytes) /\ arrived \in Nat /\ arrived + 1 \in Bytes
      /\ Len(line) \in Nat
  BY PortAssumption, LenProperties DEF BytesInv, PortInv, TypeOK, Bytes, Arrive
<1>2. /\ arrived' = arrived + 1 /\ line' = Append(line, arrived + 1)
      /\ raced' = (raced \/ event = "reading")
      /\ UNCHANGED <<event, tt, received, overwritten, dropped>>
  BY DEF Arrive
<1>3. /\ Len(line') = Len(line) + 1 /\ line'[Len(line) + 1] = arrived + 1
      /\ \A i \in 1 .. Len(line) : line'[i] = line[i]
  BY <1>1, <1>2, AppendProperties
<1>4. arrived' - Len(line') = arrived - Len(line)
  BY <1>1, <1>2, <1>3
<1>5. LineNumbered'
  <2>1. ASSUME NEW i \in 1 .. Len(line') PROVE line'[i] = arrived - Len(line) + i
    <3>1. CASE i \in 1 .. Len(line)
      BY <1>3, <3>1 DEF BytesInv, LineNumbered, Numbered
    <3>2. CASE i = Len(line) + 1
      BY <1>1, <1>3, <3>2
    <3>. QED
      BY <1>1, <1>3, <3>1, <3>2
  <2>2. Len(line') <= arrived'
    BY <1>1, <1>2, <1>3 DEF BytesInv, LineNumbered
  <2>. QED
    BY <1>4, <2>1, <2>2 DEF LineNumbered, Numbered
<1>6. BytesPlaced'
  BY <1>2, <1>4 DEF BytesInv, BytesPlaced
<1>7. QuietBooks'
  <2>1. Quiet' => Quiet /\ event # "reading"
    BY <1>2 DEF Quiet
  <2>. QED
    BY <1>2, <1>4, <2>1 DEF BytesInv, QuietBooks
<1>. QED
  BY <1>5, <1>6, <1>7

\* serialEvent begins: the array is as long as the line.
LEMMA BeginBytes ==
  ASSUME BytesInv, BeginEvent
  PROVE  LineNumbered' /\ BytesPlaced' /\ QuietBooks'
<1>1. Len(line) \in Nat
  BY LenProperties DEF BytesInv, PortInv, TypeOK
<1>2. /\ event = "idle" /\ event' = "reading"
      /\ tt' = [i \in 1 .. Len(line) |-> 0]
      /\ UNCHANGED <<line, arrived, received, overwritten, dropped, raced>>
  BY DEF BeginEvent
<1>3. Len(tt') = Len(line) /\ \A i \in 1 .. Len(tt') : tt'[i] = 0
  BY <1>1, <1>2
<1>4. LineNumbered'
  BY <1>2 DEF BytesInv, LineNumbered
<1>5. Placed(arrived - Len(line), << >>, received, overwritten, dropped)
  BY <1>2 DEF BytesInv, BytesPlaced
<1>6. Placed(arrived - Len(line), tt', received, overwritten, dropped)
  BY <1>3, <1>5, PlacedBegin
<1>7. BytesPlaced'
  BY <1>2, <1>6 DEF BytesPlaced
<1>8. QuietBooks'
  <2>1. Quiet' => Quiet
    BY <1>2 DEF Quiet
  <2>2. Quiet' => QuietArray'
    BY <1>2, <1>3, <2>1 DEF BytesInv, QuietBooks, QuietArray
  <2>. QED
    BY <1>2, <2>1, <2>2 DEF BytesInv, QuietBooks
<1>. QED
  BY <1>4, <1>7, <1>8

\* One turn of the loop.
LEMMA ReadBytesStep ==
  ASSUME BytesInv, ReadAgain
  PROVE  LineNumbered' /\ BytesPlaced' /\ QuietBooks'
<1> DEFINE k == Smaller(Len(tt), Len(line))
           n == arrived - Len(line)
<1>1. /\ line \in Seq(Bytes) /\ tt \in Seq(Bytes \cup {0}) /\ arrived \in Nat
      /\ Len(line) \in Nat /\ Len(tt) \in Nat
  BY LenProperties, PortAssumption DEF BytesInv, PortInv, TypeOK
<1>2. /\ k \in Nat /\ k <= Len(line) /\ k <= Len(tt) /\ n \in Nat
      /\ Len(tt) = Len(line) => k = Len(line)
  BY <1>1 DEF Smaller, BytesInv, LineNumbered
<1>3. /\ tt' = SubSeq(line, 1, k) \o SubSeq(tt, k + 1, Len(tt))
      /\ line' = SubSeq(line, k + 1, Len(line))
      /\ overwritten' = overwritten \cup ({tt[i] : i \in 1 .. k} \ {0})
      /\ event = "reading" /\ line # << >>
      /\ UNCHANGED <<arrived, event, received, dropped, raced>>
  BY DEF ReadAgain
<1>4. Numbered(line, n)
  BY DEF BytesInv, LineNumbered
<1> HIDE DEF k
<1>5. Numbered(line', n + k) /\ Len(line') = Len(line) - k
  BY <1>1, <1>2, <1>3, <1>4, NumberedSplit
<1>6. arrived' - Len(line') = n + k /\ Len(line') <= arrived'
  <2>1. arrived' = arrived /\ Len(line') = Len(line) - k
    BY <1>3, <1>5
  <2>2. Len(line) <= arrived
    BY DEF BytesInv, LineNumbered
  <2>. QED
    BY <1>1, <1>2, <2>1, <2>2
<1>7. LineNumbered'
  BY <1>5, <1>6 DEF LineNumbered
<1>8. Placed(n + k, tt', received, overwritten', dropped)
  BY <1>1, <1>2, <1>3, <1>4, PlacedRead DEF BytesInv, BytesPlaced
<1>9. BytesPlaced'
  BY <1>3, <1>6, <1>8 DEF BytesPlaced
<1>10. QuietBooks'
  <2> SUFFICES ASSUME Quiet' PROVE Numbered(received, 0) /\ QuietArray'
    BY <1>3 DEF QuietBooks
  <2>1. /\ Numbered(received, 0) /\ Len(tt) = Len(line) /\ Len(received) = n
    BY <1>3 DEF BytesInv, QuietBooks, Quiet, QuietArray
  <2>2. k = Len(line) /\ k = Len(tt)
    BY <1>2, <2>1
  <2>3. /\ SubSeq(line, 1, k) = line /\ SubSeq(tt, k + 1, Len(tt)) = << >>
        /\ SubSeq(line, k + 1, Len(line)) = << >>
    <3>1. SubSeq(line, 1, Len(line)) = line
      BY <1>1, SubSeqFull
    <3>2. SubSeq(tt, k + 1, Len(tt)) = << >>
      BY <1>1, <2>2, SubSeqEmpty
    <3>3. SubSeq(line, k + 1, Len(line)) = << >>
      BY <1>1, <2>2, SubSeqEmpty
    <3>. QED
      BY <2>2, <3>1, <3>2, <3>3
  <2>4. tt' = line /\ line' = << >>
    BY <1>1, <1>3, <2>3, ConcatEmptySeq
  <2>5. Numbered(tt', Len(received)) /\ Len(received) + Len(tt') = arrived
    BY <1>1, <1>4, <2>1, <2>4
  <2>. QED
    BY <1>3, <2>1, <2>4, <2>5 DEF QuietArray
<1>. QED
  BY <1>7, <1>9, <1>10

\* receive gets the array, or an error drops it.
LEMMA EndBytes ==
  ASSUME BytesInv, EndEvent \/ EventFails
  PROVE  LineNumbered' /\ BytesPlaced' /\ QuietBooks'
<1>1. /\ line \in Seq(Bytes) /\ tt \in Seq(Bytes \cup {0}) /\ arrived \in Nat
      /\ received \in Seq(Bytes) /\ received \in Seq(Bytes \cup {0})
      /\ Len(line) \in Nat /\ Len(tt) \in Nat /\ Len(received) \in Nat
  <2>1. /\ line \in Seq(Bytes) /\ tt \in Seq(Bytes \cup {0}) /\ arrived \in Nat
        /\ received \in Seq(Bytes)
    BY PortAssumption DEF BytesInv, PortInv, TypeOK
  <2>. QED
    BY <2>1, LenProperties, SeqMonotonic
<1>2. /\ event = "reading" /\ event' = "idle" /\ tt' = << >>
      /\ UNCHANGED <<line, arrived, overwritten, raced>>
  BY DEF EndEvent, EventFails
<1>3. LineNumbered'
  BY <1>2 DEF BytesInv, LineNumbered
<1> DEFINE n == arrived - Len(line)
<1>4. /\ Placed(n, << >>, received \o tt, overwritten, dropped)
      /\ Placed(n, << >>, received, overwritten, dropped \cup Elems(tt))
  BY <1>1, PlacedEnd DEF BytesInv, BytesPlaced
<1>5. CASE EndEvent
  <2>1. line = << >> /\ received' = received \o tt /\ dropped' = dropped
    BY <1>5 DEF EndEvent
  <2>2. BytesPlaced'
    BY <1>2, <1>4, <2>1 DEF BytesPlaced
  <2>3. QuietBooks'
    <3> SUFFICES ASSUME Quiet' PROVE Numbered(received', 0) /\ Len(received') = arrived - Len(line)
      BY <1>2 DEF QuietBooks
    <3>1. Numbered(received, 0) /\ QuietArray
      BY <1>2, <2>1 DEF BytesInv, QuietBooks, Quiet
    <3>2. Len(line) = 0
      BY <2>1
    <3>3. Numbered(tt, Len(received)) /\ Len(received) + Len(tt) = arrived
      BY <1>1, <3>1, <3>2 DEF QuietArray, Numbered
    <3>4. /\ Len(received') = Len(received) + Len(tt)
          /\ \A i \in 1 .. Len(received) + Len(tt) : received'[i] =
               IF i <= Len(received) THEN received[i] ELSE tt[i - Len(received)]
      BY <1>1, <2>1, ConcatProperties
    <3>5. ASSUME NEW i \in 1 .. Len(received') PROVE received'[i] = 0 + i
      <4>1. CASE i <= Len(received)
        BY <1>1, <3>1, <3>4, <4>1 DEF Numbered
      <4>2. CASE i > Len(received)
        <5>1. i - Len(received) \in 1 .. Len(tt)
          BY <1>1, <3>4, <4>2
        <5>2. tt[i - Len(received)] = Len(received) + (i - Len(received))
          BY <3>3, <5>1 DEF Numbered
        <5>. QED
          BY <1>1, <3>4, <4>2, <5>2
      <4>. QED
        BY <1>1, <3>4, <4>1, <4>2
    <3>. QED
      BY <1>1, <3>2, <3>3, <3>4, <3>5 DEF Numbered
  <2>. QED
    BY <1>3, <2>2, <2>3
<1>6. CASE EventFails
  <2>1. received' = received /\ dropped' = dropped \cup Elems(tt)
    BY <1>6 DEF EventFails, Elems
  <2>2. BytesPlaced'
    BY <1>2, <1>4, <2>1 DEF BytesPlaced
  <2>3. QuietBooks'
    <3> SUFFICES ASSUME Quiet' PROVE Numbered(received, 0) /\ Len(received) = arrived - Len(line)
      BY <1>2, <2>1 DEF QuietBooks
    <3>1. Quiet /\ Elems(tt) = {}
      BY <1>2, <2>1 DEF Quiet
    <3>2. Numbered(received, 0) /\ QuietArray
      BY <1>2, <3>1 DEF BytesInv, QuietBooks
    <3>3. CASE Len(received) = arrived - Len(line)
      BY <3>2, <3>3
    <3>4. CASE line = << >> /\ Numbered(tt, Len(received)) /\ Len(received) + Len(tt) = arrived
      <4>1. Len(tt) = 0
        <5>1. SUFFICES ASSUME 1 \in 1 .. Len(tt) PROVE FALSE
          BY <1>1
        <5>2. tt[1] = Len(received) + 1 /\ tt[1] # 0
          BY <1>1, <3>4, <5>1 DEF Numbered
        <5>3. tt[1] \in Elems(tt)
          BY <5>1, <5>2 DEF Elems
        <5>. QED
          BY <3>1, <5>3
      <4>2. Len(line) = 0
        BY <3>4
      <4>. QED
        BY <1>1, <3>2, <3>4, <4>1, <4>2
    <3>. QED
      BY <3>2, <3>3, <3>4 DEF QuietArray
  <2>. QED
    BY <1>3, <2>2, <2>3
<1>. QED
  BY <1>5, <1>6

\* BytesInv holds in every reachable state of the port.
THEOREM BytesInvariant == Spec => []BytesInv
<1>1. BytesInv /\ [Next]_vars => BytesInv'
  <2> SUFFICES ASSUME BytesInv, [Next]_vars PROVE BytesInv'
    OBVIOUS
  <2>1. PortInv /\ LineNumbered /\ BytesPlaced /\ QuietBooks
    BY DEF BytesInv
  <2>2. CASE PreStart \/ Write \/ RunFails \/ Stop \/ ForeignReleases
    <3>1. UNCHANGED inputVars
      BY <2>2 DEF PreStart, Write, RunFails, Stop, ForeignReleases
    <3>. QED
      BY <2>1, <2>2, <3>1, BeanInv, BytesAlone DEF BytesInv
  <2>3. CASE Arrive
    BY <2>1, <2>3, ArriveInv, ArriveBytes DEF BytesInv
  <2>4. CASE BeginEvent
    BY <2>1, <2>4, BeginEventInv, BeginBytes DEF BytesInv
  <2>5. CASE ReadAgain
    BY <2>1, <2>5, ReadAgainInv, ReadBytesStep DEF BytesInv
  <2>6. CASE EndEvent
    BY <2>1, <2>6, EndEventInv, EndBytes DEF BytesInv
  <2>7. CASE EventFails
    BY <2>1, <2>7, EventFailsInv, EndBytes DEF BytesInv
  <2>8. CASE UNCHANGED vars
    <3>1. UNCHANGED inputVars
      BY <2>8 DEF vars
    <3>2. PortInv'
      BY <2>1, <2>8 DEF vars, beanVars, portVars, inputVars, PortInv, TypeOK,
         ArrayFills, Untouched, Filled, StreamsOfOwner
    <3>. QED
      BY <2>1, <3>1, <3>2, BytesAlone DEF BytesInv
  <2>. QED
    BY <2>2, <2>3, <2>4, <2>5, <2>6, <2>7, <2>8 DEF Next, EventStep
<1>. QED
  BY <1>1, BytesInitInv, PTL DEF Spec

\* What Times counts in an array that has no byte twice.
LEMMA TimesDistinct ==
  ASSUME NEW s, NEW b, b # 0, Distinct(s)
  PROVE  Times(b, s) = One(b \in Elems(s))
<1> DEFINE at == {i \in 1 .. Len(s) : s[i] = b}
<1>1. CASE b \in Elems(s)
  <2>1. PICK i \in 1 .. Len(s) : s[i] = b
    BY <1>1 DEF Elems
  <2>2. at = {i}
    BY <2>1 DEF Distinct
  <2>3. Cardinality(at) = 1
    BY <2>2, FS_Singleton
  <2>. QED
    BY <1>1, <2>3 DEF Times, One
<1>2. CASE b \notin Elems(s)
  <2>1. at = {}
    BY <1>2 DEF Elems
  <2>2. Cardinality(at) = 0
    BY <2>1, FS_EmptySet
  <2>. QED
    BY <1>2, <2>2 DEF Times, One
<1>. QED
  BY <1>1, <1>2

\* No byte is lost unseen and none comes twice: in every reachable state each
\* byte that has arrived is on the line, in the array of serialEvent, with
\* receive, overwritten by a later read or dropped by an error, once.
THEOREM BytesConservedHolds == Spec => []BytesConserved
<1>1. BytesInv => BytesConserved
  <2> SUFFICES ASSUME BytesInv, NEW b \in 1 .. arrived
               PROVE  Times(b, line) + Times(b, tt) + Times(b, received)
                        + One(b \in overwritten) + One(b \in dropped) = 1
    BY DEF BytesConserved
  <2> DEFINE n == arrived - Len(line)
  <2>1. arrived \in Nat /\ Len(line) \in Nat /\ Len(line) <= arrived
    BY PortAssumption, LenProperties
       DEF BytesInv, PortInv, TypeOK, LineNumbered
  <2>2. b \in Nat /\ b # 0 /\ b <= arrived /\ n \in Nat
    BY <2>1
  <2>3. Placed(n, tt, received, overwritten, dropped) /\ Numbered(line, n)
    BY DEF BytesInv, BytesPlaced, LineNumbered
  <2>4. Distinct(line)
    BY <2>1, <2>3 DEF Numbered, Distinct
  <2>5. b \in Elems(line) <=> b > n
    <3>1. ASSUME b \in Elems(line) PROVE b > n
      BY <2>1, <2>3, <3>1 DEF Elems, Numbered
    <3>2. ASSUME b > n PROVE b \in Elems(line)
      <4>1. b - n \in 1 .. Len(line)
        BY <2>1, <2>2, <3>2
      <4>2. line[b - n] = b
        BY <2>1, <2>2, <2>3, <4>1 DEF Numbered
      <4>. QED
        BY <2>2, <4>1, <4>2 DEF Elems
    <3>. QED
      BY <3>1, <3>2
  <2> HIDE DEF n
  <2>6. /\ Times(b, line) = One(b \in Elems(line))
        /\ Times(b, tt) = One(b \in Elems(tt))
        /\ Times(b, received) = One(b \in Elems(received))
    BY <2>2, <2>3, <2>4, TimesDistinct DEF Placed
  <2>7. /\ Elems(tt) \cap Elems(received) = {} /\ overwritten \cap dropped = {}
        /\ (Elems(tt) \cup Elems(received)) \cap (overwritten \cup dropped) = {}
        /\ \/ b \in Elems(tt) \/ b \in Elems(received)
           \/ b \in overwritten \/ b \in dropped
           <=> b \in 1 .. n
    BY <2>3 DEF Placed
  <2>8. b \in 1 .. n <=> b <= n
    BY <2>2
  <2>9. CASE b > n
    <3>1. /\ b \in Elems(line) /\ b \notin Elems(tt) /\ b \notin Elems(received)
          /\ b \notin overwritten /\ b \notin dropped
      BY <2>2, <2>5, <2>7, <2>8, <2>9
    <3>. QED
      BY <2>6, <3>1 DEF One
  <2>10. CASE b <= n
    <3>1. b \notin Elems(line)
      BY <2>2, <2>5, <2>10
    <3>2. CASE b \in Elems(tt)
      BY <2>6, <2>7, <3>1, <3>2 DEF One
    <3>3. CASE b \in Elems(received)
      BY <2>6, <2>7, <3>1, <3>3 DEF One
    <3>4. CASE b \in overwritten
      BY <2>6, <2>7, <3>1, <3>4 DEF One
    <3>5. CASE b \in dropped
      BY <2>6, <2>7, <3>1, <3>5 DEF One
    <3>. QED
      BY <2>7, <2>8, <2>10, <3>2, <3>3, <3>4, <3>5
  <2>. QED
    BY <2>2, <2>9, <2>10
<1>. QED
  BY <1>1, BytesInvariant, PTL

\* As long as no byte comes while serialEvent runs, and none of its reads
\* fails, receive has got all bytes in the order in which they came, however
\* many there were.
THEOREM QuietLineIntactHolds == Spec => []QuietLineIntact
<1>1. BytesInv => QuietLineIntact
  <2> SUFFICES ASSUME BytesInv, event = "idle", Quiet
               PROVE  received \o line = [i \in 1 .. arrived |-> i]
    BY DEF QuietLineIntact, Quiet
  <2> DEFINE u == received \o line
             v == [i \in 1 .. arrived |-> i]
  <2>1. /\ line \in Seq(Bytes) /\ received \in Seq(Bytes) /\ arrived \in 0 .. MaxBytes
        /\ MaxBytes \in Nat /\ Len(line) \in Nat /\ Len(received) \in Nat
    BY PortAssumption, LenProperties DEF BytesInv, PortInv, TypeOK
  <2>2. /\ Numbered(received, 0) /\ Len(received) = arrived - Len(line)
        /\ Numbered(line, arrived - Len(line))
    BY DEF BytesInv, QuietBooks, LineNumbered
  <2>3. u \in Seq(Bytes) /\ Len(u) = Len(received) + Len(line)
    BY <2>1, ConcatProperties
  <2>4. \A i \in 1 .. Len(received) + Len(line) : u[i] =
          IF i <= Len(received) THEN received[i] ELSE line[i - Len(received)]
    BY <2>1, ConcatProperties
  <2>5. v \in Seq(Bytes) /\ Len(v) = arrived
    BY <2>1 DEF Bytes
  <2>6. Len(u) = arrived
    BY <2>1, <2>2, <2>3
  <2>7. ASSUME NEW i \in 1 .. arrived PROVE u[i] = i
    <3>1. CASE i <= Len(received)
      <4>1. i \in 1 .. Len(received) /\ i \in 1 .. Len(received) + Len(line)
        BY <2>1, <3>1
      <4>2. received[i] = 0 + i
        BY <2>2, <4>1 DEF Numbered
      <4>. QED
        BY <2>4, <3>1, <4>1, <4>2
    <3>2. CASE ~(i <= Len(received))
      <4>1. /\ i - Len(received) \in 1 .. Len(line)
            /\ i \in 1 .. Len(received) + Len(line)
        BY <2>1, <2>2, <3>2
      <4>2. line[i - Len(received)] = Len(received) + (i - Len(received))
        BY <2>2, <4>1 DEF Numbered
      <4>. QED
        BY <2>1, <2>4, <3>2, <4>1, <4>2
    <3>. QED
      BY <3>1, <3>2
  <2>8. \A i \in 1 .. Len(u) : u[i] = v[i]
    BY <2>6, <2>7
  <2> HIDE DEF u, v
  <2>9. u = v
    BY <2>3, <2>5, <2>6, <2>8, SeqEqual
  <2>. QED
    BY <2>9 DEF u, v
<1>. QED
  BY <1>1, BytesInvariant, PTL
=============================================================================
