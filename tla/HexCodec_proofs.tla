--------------------------- MODULE HexCodec_proofs ---------------------------
(* What the conversions of HexUtil promise, for arrays and texts of every  *)
(* length.                                                                 *)
EXTENDS HexCodec, WellFoundedInduction, SequenceTheorems, FiniteSetTheorems, TLAPS

-----------------------------------------------------------------------------
(* Induction, stated with sets so that it can be cited.                    *)

\* A set of natural numbers has a least element.
LEMMA LeastElement ==
  ASSUME NEW T \in SUBSET Nat, T # {}
  PROVE  \E x \in T : \A y \in T : x <= y
<1> DEFINE R == {p \in Nat \X Nat : p[1] < p[2]}
<1>1. IsWellFoundedOn(OpToRel(<, Nat), Nat)
  BY NatLessThanWellFounded
<1>2. R = OpToRel(<, Nat)
  BY DEF OpToRel
<1>3. IsWellFoundedOn(R, Nat)
  BY <1>1, <1>2
<1>4. \A x, y \in Nat : <<y, x>> \notin R => x <= y
  OBVIOUS
<1> HIDE DEF R
<1>5. PICK x \in T : \A y \in T : ~(<<y, x>> \in R)
  BY <1>3, WFMin
<1>. QED
  BY <1>4, <1>5

\* A set with zero and the successor of each of its numbers has all numbers.
LEMMA NatInd ==
  ASSUME NEW S, 0 \in S, \A n \in Nat : n \in S => n + 1 \in S
  PROVE  Nat \subseteq S
<1> SUFFICES ASSUME Nat \ S # {} PROVE FALSE
  OBVIOUS
<1>1. PICK x \in Nat \ S : \A y \in Nat \ S : x <= y
  BY LeastElement
<1>2. x # 0 /\ x - 1 \in Nat /\ x - 1 \in S
  BY <1>1
<1>. QED
  BY <1>1, <1>2

\* A set with the empty sequence and each one longer by one than one of its
\* sequences has all sequences.
LEMMA SeqInd ==
  ASSUME NEW E, NEW T, <<>> \in T,
         \A s \in Seq(E), e \in E : s \in T => Append(s, e) \in T
  PROVE  Seq(E) \subseteq T
<1> DEFINE S == {n \in Nat : \A s \in Seq(E) : Len(s) = n => s \in T}
<1>1. 0 \in S
  BY EmptySeq
<1>2. ASSUME NEW n \in Nat, n \in S PROVE n + 1 \in S
  <2> SUFFICES ASSUME NEW s \in Seq(E), Len(s) = n + 1 PROVE s \in T
    OBVIOUS
  <2> DEFINE front == SubSeq(s, 1, n)
  <2>1. front \in Seq(E) /\ Len(front) = n /\ s[n + 1] \in E
    OBVIOUS
  <2>2. s = Append(front, s[n + 1])
    OBVIOUS
  <2>3. front \in T
    BY <1>2, <2>1
  <2> HIDE DEF front
  <2>. QED
    BY <2>1, <2>2, <2>3
<1>3. Nat \subseteq S
  <2> HIDE DEF S
  <2>. QED BY <1>1, <1>2, NatInd
<1>. QED
  BY <1>3

-----------------------------------------------------------------------------
(* Join.                                                                   *)

\* The function that FlattenSeq defines by recursion.
IsFlat(f, s) ==
  f = [i \in 1 .. Len(s) |-> IF i = 1 THEN s[i] ELSE f[i - 1] \o s[i]]

\* There is one.
LEMMA FlatExists ==
  ASSUME NEW E, NEW s \in Seq(Seq(E))
  PROVE  \E f \in [1 .. Len(s) -> Seq(E)] : IsFlat(f, s)
<1> DEFINE T == {t \in Seq(Seq(E)) : \E f \in [1 .. Len(t) -> Seq(E)] : IsFlat(f, t)}
<1>1. <<>> \in T
  <2> DEFINE f == [i \in 1 .. 0 |-> <<>>]
  <2>1. <<>> \in Seq(Seq(E)) /\ Len(<<>>) = 0 /\ \A i \in 1 .. 0 : FALSE
    OBVIOUS
  <2>2. f \in [1 .. Len(<<>>) -> Seq(E)] /\ IsFlat(f, <<>>)
    BY <2>1 DEF IsFlat
  <2>. QED
    BY <2>1, <2>2
<1>2. ASSUME NEW t \in Seq(Seq(E)), NEW e \in Seq(E), t \in T PROVE Append(t, e) \in T
  <2> DEFINE u == Append(t, e)
  <2>1. PICK f \in [1 .. Len(t) -> Seq(E)] : IsFlat(f, t)
    BY <1>2
  <2> DEFINE g == [i \in 1 .. Len(u) |-> IF i <= Len(t) THEN f[i]
                                         ELSE IF i = 1 THEN e ELSE f[i - 1] \o e]
  <2>2. u \in Seq(Seq(E)) /\ Len(u) = Len(t) + 1
    OBVIOUS
  <2>3. g \in [1 .. Len(u) -> Seq(E)]
    <3>1. ASSUME NEW i \in 1 .. Len(u) PROVE g[i] \in Seq(E)
      <4>1. CASE i <= Len(t)
        BY <4>1, <2>2
      <4>2. CASE i = Len(t) + 1 /\ i = 1
        BY <4>2, <2>2
      <4>3. CASE i = Len(t) + 1 /\ i # 1
        <5>1. i - 1 \in 1 .. Len(t) /\ ~(i <= Len(t))
          BY <4>3
        <5>2. f[i - 1] \in Seq(E)
          BY <5>1
        <5>3. g[i] = f[i - 1] \o e
          BY <5>1, <4>3
        <5>4. f[i - 1] \o e \in Seq(E)
          BY <5>2
        <5>. QED BY <5>3, <5>4
      <4>. QED BY <4>1, <4>2, <4>3, <2>2
    <3>. QED BY <3>1
  <2>4. ASSUME NEW i \in 1 .. Len(u)
        PROVE  g[i] = IF i = 1 THEN u[i] ELSE g[i - 1] \o u[i]
    <3>1. CASE i <= Len(t)
      <4>1. i \in 1 .. Len(t) /\ (i = 1 \/ i - 1 \in 1 .. Len(t))
        BY <3>1, <2>2
      <4>2. f[i] = IF i = 1 THEN t[i] ELSE f[i - 1] \o t[i]
        <5>1. f = [j \in 1 .. Len(t) |-> IF j = 1 THEN t[j] ELSE f[j - 1] \o t[j]]
          BY <2>1 DEF IsFlat
        <5>. QED BY <5>1, <4>1
      <4>3. u[i] = t[i]
        BY <4>1
      <4>4. g[i] = f[i] /\ (i # 1 => g[i - 1] = f[i - 1])
        BY <4>1, <2>2
      <4>. QED BY <4>2, <4>3, <4>4
    <3>2. CASE i = Len(t) + 1
      BY <3>2, <2>2
    <3>. QED BY <3>1, <3>2, <2>2
  <2>5. IsFlat(g, u)
    <3>1. g = [i \in 1 .. Len(u) |-> g[i]]
      OBVIOUS
    <3> HIDE DEF g
    <3>. QED BY <3>1, <2>4 DEF IsFlat
  <2>. QED
    BY <2>2, <2>3, <2>5
<1>3. s \in T
  <2> HIDE DEF T
  <2>. QED BY <1>1, <1>2, SeqInd
<1>. QED
  BY <1>3

\* There is only one.
LEMMA FlatUnique ==
  ASSUME NEW s, NEW n \in Nat, Len(s) = n, NEW f, NEW g, IsFlat(f, s), IsFlat(g, s)
  PROVE  f = g
<1> DEFINE S == {i \in Nat : i \in 1 .. n => f[i] = g[i]}
<1>0. /\ f = [i \in 1 .. n |-> IF i = 1 THEN s[i] ELSE f[i - 1] \o s[i]]
      /\ g = [i \in 1 .. n |-> IF i = 1 THEN s[i] ELSE g[i - 1] \o s[i]]
  BY DEF IsFlat
<1>0a. \A i \in 1 .. n : /\ f[i] = IF i = 1 THEN s[i] ELSE f[i - 1] \o s[i]
                         /\ g[i] = IF i = 1 THEN s[i] ELSE g[i - 1] \o s[i]
  BY <1>0
<1>1. 0 \in S
  OBVIOUS
<1>2. ASSUME NEW i \in Nat, i \in S PROVE i + 1 \in S
  <2> SUFFICES ASSUME i + 1 \in 1 .. n PROVE f[i + 1] = g[i + 1]
    OBVIOUS
  <2>1. CASE i = 0
    BY <2>1, <1>0a
  <2>2. CASE i \in 1 .. n
    <3>1. f[i] = g[i] /\ i + 1 # 1 /\ (i + 1) - 1 = i
      BY <1>2, <2>2
    <3>. QED BY <1>0a, <3>1
  <2>. QED BY <2>1, <2>2
<1>3. \A i \in 1 .. n : f[i] = g[i]
  <2>1. Nat \subseteq S
    <3> HIDE DEF S
    <3>. QED BY <1>1, <1>2, NatInd
  <2>. QED BY <2>1
<1>4. f = [i \in 1 .. n |-> f[i]] /\ g = [i \in 1 .. n |-> g[i]]
  BY <1>0, <1>0a
<1>. QED
  BY <1>3, <1>4

\* Join takes its last value.
LEMMA JoinIsFlat ==
  ASSUME NEW s, NEW n \in Nat \ {0}, Len(s) = n, NEW f, IsFlat(f, s)
  PROVE  Join(s) = f[n]
<1> DEFINE flatten == CHOOSE h : h = [i \in 1 .. Len(s) |-> IF i = 1 THEN s[i] ELSE h[i - 1] \o s[i]]
<1>1. IsFlat(flatten, s)
  <2>1. \E h : h = [i \in 1 .. Len(s) |-> IF i = 1 THEN s[i] ELSE h[i - 1] \o s[i]]
    BY DEF IsFlat
  <2>. QED BY <2>1, Zenon DEF IsFlat
<1>2. flatten = f
  <2> HIDE DEF flatten
  <2>. QED BY <1>1, FlatUnique
<1>3. Join(s) = flatten[Len(s)]
  <2>1. Len(s) # 0
    OBVIOUS
  <2>. QED BY <2>1, Zenon DEF Join, FlattenSeq
<1>. QED
  BY <1>2, <1>3

\* Join of no parts.
LEMMA JoinEmpty == Join(<<>>) = <<>>
BY DEF Join, FlattenSeq

\* Join of one part more.
LEMMA JoinAppend ==
  ASSUME NEW E, NEW s \in Seq(Seq(E)), NEW e \in Seq(E)
  PROVE  Join(Append(s, e)) = Join(s) \o e
<1> DEFINE u == Append(s, e)
           n == Len(s)
<1>1. u \in Seq(Seq(E)) /\ Len(u) = n + 1 /\ n \in Nat /\ u[n + 1] = e
      /\ \A i \in 1 .. n : u[i] = s[i]
  OBVIOUS
<1> HIDE DEF u
<1>2. PICK g \in [1 .. n + 1 -> Seq(E)] : IsFlat(g, u)
  BY <1>1, FlatExists
<1>3. \A i \in 1 .. n + 1 : g[i] = IF i = 1 THEN u[i] ELSE g[i - 1] \o u[i]
  <2>1. g = [i \in 1 .. n + 1 |-> IF i = 1 THEN u[i] ELSE g[i - 1] \o u[i]]
    BY <1>1, <1>2 DEF IsFlat
  <2>. QED BY <2>1
<1>4. Join(u) = g[n + 1]
  BY <1>1, <1>2, JoinIsFlat
<1>5. CASE n = 0
  <2>1. s = <<>>
    BY <1>5
  <2>2. Join(u) = e /\ Join(s) = <<>>
    BY <1>1, <1>3, <1>4, <1>5, <2>1, JoinEmpty
  <2>. QED BY <2>2 DEF u
<1>6. CASE n # 0
  <2> DEFINE f == [i \in 1 .. n |-> g[i]]
  <2>1. ASSUME NEW i \in 1 .. n PROVE f[i] = IF i = 1 THEN s[i] ELSE f[i - 1] \o s[i]
    <3>1. i \in 1 .. n + 1 /\ (i # 1 => i - 1 \in 1 .. n) /\ u[i] = s[i]
      BY <1>1
    <3>. QED BY <3>1, <1>3
  <2>2. IsFlat(f, s)
    <3>1. f = [i \in 1 .. n |-> f[i]]
      OBVIOUS
    <3> HIDE DEF f
    <3>. QED BY <3>1, <2>1 DEF IsFlat
  <2>3. Join(s) = g[n]
    <3>1. f[n] = g[n]
      BY <1>1, <1>6
    <3> HIDE DEF f
    <3>. QED BY <2>2, <3>1, <1>1, <1>6, JoinIsFlat
  <2>4. g[n + 1] = g[n] \o e
    <3>1. n + 1 \in 1 .. n + 1 /\ n + 1 # 1 /\ (n + 1) - 1 = n
      BY <1>1, <1>6
    <3>. QED BY <3>1, <1>1, <1>3
  <2>. QED BY <1>4, <2>3, <2>4 DEF u
<1>. QED
  BY <1>5, <1>6

\* Join returns a sequence of what is in the parts.
LEMMA JoinType ==
  ASSUME NEW E, NEW s \in Seq(Seq(E))
  PROVE  Join(s) \in Seq(E)
<1>1. CASE s = <<>>
  <2>1. <<>> \in Seq(E)
    OBVIOUS
  <2>. QED BY <2>1, <1>1, JoinEmpty, Zenon
<1>2. CASE s # <<>>
  <2>1. Len(s) \in Nat \ {0}
    BY <1>2
  <2>2. PICK f \in [1 .. Len(s) -> Seq(E)] : IsFlat(f, s)
    BY FlatExists
  <2>3. Join(s) = f[Len(s)]
    BY <2>1, <2>2, JoinIsFlat
  <2>4. Len(s) \in 1 .. Len(s)
    BY <2>1
  <2>. QED BY <2>2, <2>3, <2>4, Zenon
<1>. QED
  BY <1>1, <1>2

\* Join distributes over concatenation.
LEMMA JoinConcat ==
  ASSUME NEW E, NEW s \in Seq(Seq(E)), NEW t \in Seq(Seq(E))
  PROVE  Join(s \o t) = Join(s) \o Join(t)
<1> DEFINE T == {u \in Seq(Seq(E)) : Join(s \o u) = Join(s) \o Join(u)}
<1>1. <<>> \in T
  <2>1. s \o <<>> = s /\ <<>> \in Seq(Seq(E))
    OBVIOUS
  <2>2. \A t0 \in Seq(E) : t0 \o <<>> = t0
    OBVIOUS
  <2>3. Join(s) \o <<>> = Join(s)
    BY <2>2, JoinType, Zenon
  <2>. QED BY <2>1, <2>3, JoinEmpty, Zenon
<1>2. ASSUME NEW u \in Seq(Seq(E)), NEW e \in Seq(E), u \in T PROVE Append(u, e) \in T
  <2>1. s \o Append(u, e) = Append(s \o u, e) /\ s \o u \in Seq(Seq(E))
    OBVIOUS
  <2>2. Join(s \o Append(u, e)) = Join(s \o u) \o e
    BY <2>1, JoinAppend
  <2>3. Join(s \o u) = Join(s) \o Join(u)
    BY <1>2
  <2>4. (Join(s) \o Join(u)) \o e = Join(s) \o (Join(u) \o e)
    <3>1. PICK a \in Seq(E) : a = Join(s)
      BY JoinType
    <3>2. PICK b \in Seq(E) : b = Join(u)
      BY JoinType
    <3>3. (a \o b) \o e = a \o (b \o e)
      OBVIOUS
    <3>. QED BY <3>1, <3>2, <3>3, Zenon
  <2>5. Join(Append(u, e)) = Join(u) \o e
    BY JoinAppend
  <2>6. Append(u, e) \in Seq(Seq(E))
    OBVIOUS
  <2>. QED BY <2>2, <2>3, <2>4, <2>5, <2>6, Zenon
<1>3. t \in T
  <2> HIDE DEF T
  <2>. QED BY <1>1, <1>2, SeqInd
<1>. QED
  BY <1>3

AllOfLength(s, w) == \A k \in 1 .. Len(s) : Len(s[k]) = w
LaidOut(t, s, w) ==
  /\ Len(t) = w * Len(s)
  /\ \A k \in 1 .. Len(s), j \in 1 .. w : t[w * (k - 1) + j] = s[k][j]

\* Parts of one length w: the j-th element of the k-th part is at w * (k - 1) + j.
LEMMA JoinFixed ==
  ASSUME NEW E, NEW w \in Nat, NEW s \in Seq(Seq(E)), AllOfLength(s, w)
  PROVE  Join(s) \in Seq(E) /\ LaidOut(Join(s), s, w)
<1> DEFINE Fixed(u) == \A k \in 1 .. Len(u) : Len(u[k]) = w
           Placed(u) == /\ Len(Join(u)) = w * Len(u)
                        /\ \A k \in 1 .. Len(u), j \in 1 .. w : Join(u)[w * (k - 1) + j] = u[k][j]
           T == {u \in Seq(Seq(E)) : Fixed(u) => Placed(u)}
<1>1. <<>> \in T
  BY JoinEmpty
<1>2. ASSUME NEW u \in Seq(Seq(E)), NEW e \in Seq(E), u \in T PROVE Append(u, e) \in T
  <2> DEFINE v == Append(u, e)
             n == Len(u)
  <2>1. v \in Seq(Seq(E)) /\ Len(v) = n + 1 /\ n \in Nat /\ v[n + 1] = e
        /\ \A k \in 1 .. n : v[k] = u[k]
    OBVIOUS
  <2>2. PICK a \in Seq(E) : a = Join(u)
    BY JoinType
  <2>3. Join(v) = a \o e
    BY <2>2, JoinAppend
  <2> HIDE DEF v
  <2> SUFFICES ASSUME Fixed(v) PROVE Placed(v)
    BY <2>1 DEF v
  <2>4. /\ Len(e) = w
        /\ Len(a) = w * n
        /\ \A k \in 1 .. n, j \in 1 .. w : a[w * (k - 1) + j] = u[k][j]
    <3>1. n + 1 \in 1 .. Len(v) /\ 1 .. n \subseteq 1 .. Len(v)
      BY <2>1
    <3>2. Len(e) = w
      BY <2>1, <3>1, Zenon
    <3>3. Fixed(u)
      BY <2>1, <3>1, Zenon
    <3>4. Placed(u)
      BY <1>2, <3>3, Zenon
    <3>. QED BY <2>2, <3>2, <3>4, Zenon
  <2>5. w * (n + 1) = w * n + w /\ w * n \in Nat
    BY <2>1
  <2>6. Len(a \o e) = w * (n + 1)
    <3>1. Len(a \o e) = Len(a) + Len(e)
      OBVIOUS
    <3>. QED BY <3>1, <2>4, <2>5
  <2>7. ASSUME NEW k \in 1 .. n + 1, NEW j \in 1 .. w PROVE (a \o e)[w * (k - 1) + j] = v[k][j]
    <3>1. CASE k = n + 1
      <4>1. w * (k - 1) + j = Len(a) + j
        BY <3>1, <2>1, <2>4
      <4>. QED BY <4>1, <3>1, <2>1, <2>4
    <3>2. CASE k \in 1 .. n
      <4>1. PICK p \in Int : p = w * (k - 1)
        BY <3>2
      <4>2. 0 <= p
        BY <3>2, <4>1
      <4>3. p + w <= w * n
        <5>1. n - k \in Nat
          BY <3>2, <2>1
        <5>2. 0 <= w * (n - k)
          BY <5>1
        <5>3. w * n = p + w + w * (n - k)
          BY <3>2, <2>1, <4>1
        <5>. QED BY <5>2, <5>3, <5>1, <2>5
      <4>4. p + j \in 1 .. Len(a)
        BY <4>2, <4>3, <2>4, <2>5
      <4>5. (a \o e)[p + j] = a[p + j]
        BY <4>4
      <4>6. a[p + j] = u[k][j]
        BY <4>1, <3>2, <2>4
      <4>7. v[k] = u[k]
        BY <3>2, <2>1
      <4>. QED BY <4>1, <4>5, <4>6, <4>7
    <3>3. k = n + 1 \/ k \in 1 .. n
      BY <2>1
    <3>. QED BY <3>1, <3>2, <3>3, Zenon
  <2>. QED BY <2>1, <2>3, <2>6, <2>7
<1>3. s \in T
  <2> HIDE DEF T
  <2>. QED BY <1>1, <1>2, SeqInd
<1>. QED
  BY <1>3, JoinType DEF AllOfLength, LaidOut

-----------------------------------------------------------------------------
(* Spaces.                                                                 *)

Pieces(s) == [i \in DOMAIN s |-> IF s[i] = Space THEN <<>> ELSE <<s[i]>>]

\* The pieces that replace(" ", "") joins.
LEMMA PiecesType ==
  ASSUME NEW s \in Seq(Int)
  PROVE  /\ Pieces(s) \in Seq(Seq(Int)) /\ Len(Pieces(s)) = Len(s)
         /\ \A i \in 1 .. Len(s) : Pieces(s)[i] = IF s[i] = Space THEN <<>> ELSE <<s[i]>>
<1>1. \A i \in 1 .. Len(s) : (IF s[i] = Space THEN <<>> ELSE <<s[i]>>) \in Seq(Int)
  OBVIOUS
<1>2. DOMAIN s = 1 .. Len(s) /\ Len(s) \in Nat
  OBVIOUS
<1>. QED
  BY <1>1, <1>2 DEF Pieces

\* Removing the spaces of a text is removing those of its parts.
LEMMA NoSpacesConcat ==
  ASSUME NEW s \in Seq(Int), NEW t \in Seq(Int)
  PROVE  NoSpaces(s \o t) = NoSpaces(s) \o NoSpaces(t) /\ NoSpaces(s) \in Seq(Int)
<1>1. PICK a \in Seq(Seq(Int)) : a = Pieces(s)
  BY PiecesType
<1>2. PICK b \in Seq(Seq(Int)) : b = Pieces(t)
  BY PiecesType
<1>3. PICK u \in Seq(Int) : u = s \o t
  <2>1. s \o t \in Seq(Int)
    OBVIOUS
  <2>. QED BY <2>1, Zenon
<1>4. PICK c \in Seq(Seq(Int)) : c = Pieces(u)
  BY PiecesType
<1>5. /\ Len(a) = Len(s) /\ \A i \in 1 .. Len(s) : a[i] = IF s[i] = Space THEN <<>> ELSE <<s[i]>>
      /\ Len(b) = Len(t) /\ \A i \in 1 .. Len(t) : b[i] = IF t[i] = Space THEN <<>> ELSE <<t[i]>>
      /\ Len(c) = Len(u) /\ \A i \in 1 .. Len(u) : c[i] = IF u[i] = Space THEN <<>> ELSE <<u[i]>>
  BY <1>1, <1>2, <1>4, PiecesType
<1>6. Len(u) = Len(s) + Len(t) /\ (\A i \in 1 .. Len(s) : u[i] = s[i])
      /\ \A i \in 1 .. Len(t) : u[Len(s) + i] = t[i]
  BY <1>3
<1>7. c = a \o b
  <2>1. Len(c) = Len(a) + Len(b)
    BY <1>5, <1>6
  <2>2. ASSUME NEW i \in 1 .. Len(c) PROVE c[i] = (a \o b)[i]
    <3>1. CASE i \in 1 .. Len(a)
      <4>1. c[i] = a[i]
        BY <3>1, <1>5, <1>6
      <4>2. (a \o b)[i] = a[i]
        BY <3>1
      <4>. QED BY <4>1, <4>2
    <3>2. CASE i > Len(a)
      <4>1. i - Len(a) \in 1 .. Len(b) /\ i = Len(a) + (i - Len(a))
        BY <3>2, <2>1
      <4>2. PICK m \in 1 .. Len(b) : i = Len(a) + m
        BY <4>1
      <4>3. u[i] = t[m] /\ i \in 1 .. Len(u)
        BY <4>2, <1>5, <1>6
      <4>4. c[i] = b[m]
        BY <4>2, <4>3, <1>5
      <4>5. (a \o b)[i] = b[m]
        <5>1. i \in 1 .. Len(a) + Len(b) /\ ~(i <= Len(a)) /\ i - Len(a) = m
          BY <4>2, <2>1
        <5>. QED BY <5>1, ConcatProperties, Zenon
      <4>. QED BY <4>4, <4>5, Zenon
    <3>3. i \in 1 .. Len(a) \/ i > Len(a)
      BY <2>1
    <3>. QED BY <3>1, <3>2, <3>3, Zenon
  <2>3. a \o b \in Seq(Seq(Int)) /\ Len(a \o b) = Len(a) + Len(b)
    OBVIOUS
  <2>. QED BY <2>1, <2>2, <2>3, SeqEqual, Zenon
<1>8. NoSpaces(s) = Join(a) /\ NoSpaces(t) = Join(b) /\ NoSpaces(s \o t) = Join(c)
  BY <1>1, <1>2, <1>3, <1>4, Zenon DEF NoSpaces, Pieces
<1>9. Join(a \o b) = Join(a) \o Join(b) /\ Join(a) \in Seq(Int)
  BY JoinConcat, JoinType
<1>. QED
  BY <1>7, <1>8, <1>9, Zenon

\* A text without spaces stays as it is.
LEMMA NoSpacesNone ==
  ASSUME NEW s \in Seq(Int), \A i \in 1 .. Len(s) : s[i] # Space
  PROVE  NoSpaces(s) = s
<1>1. PICK a \in Seq(Seq(Int)) : a = Pieces(s)
  BY PiecesType
<1>2. Len(a) = Len(s) /\ \A i \in 1 .. Len(s) : a[i] = <<s[i]>>
  BY <1>1, PiecesType
<1>3. AllOfLength(a, 1)
  <2>1. \A x : Len(<<x>>) = 1
    OBVIOUS
  <2>. QED BY <1>2, <2>1, Zenon DEF AllOfLength
<1>4. PICK j \in Seq(Int) : j = Join(a)
  BY JoinType
<1>5. Len(j) = 1 * Len(a) /\ \A k \in 1 .. Len(a), i \in 1 .. 1 : j[1 * (k - 1) + i] = a[k][i]
  <2>1. LaidOut(j, a, 1)
    BY <1>3, <1>4, 1 \in Nat, JoinFixed, Zenon
  <2>. QED BY <2>1 DEF LaidOut
<1>6. ASSUME NEW k \in 1 .. Len(s) PROVE j[k] = s[k]
  <2>1. 1 \in 1 .. 1 /\ 1 * (k - 1) + 1 = k
    OBVIOUS
  <2>2. j[1 * (k - 1) + 1] = a[k][1]
    BY <1>2, <1>5, <2>1
  <2>. QED BY <1>2, <2>1, <2>2
<1>7. Len(j) = Len(s)
  BY <1>2, <1>5
<1>8. j = s
  BY <1>6, <1>7, SeqEqual, Zenon
<1>. QED
  BY <1>1, <1>4, <1>8, Zenon DEF NoSpaces, Pieces

\* A space goes.
LEMMA NoSpacesSpace == NoSpaces(<<Space>>) = <<>>
<1>1. PICK s \in Seq(Int) : s = <<Space>>
  <2>1. <<Space>> \in Seq(Int)
    BY DEF Space
  <2>. QED BY <2>1, Zenon
<1>2. PICK a \in Seq(Seq(Int)) : a = Pieces(s)
  BY PiecesType
<1>3. Len(s) = 1 /\ s[1] = Space
  BY <1>1
<1>4. Len(a) = 1 /\ a[1] = <<>>
  BY <1>2, <1>3, PiecesType, 1 \in 1 .. 1, Zenon
<1>5. AllOfLength(a, 0)
  BY <1>4 DEF AllOfLength
<1>6. PICK j \in Seq(Int) : j = Join(a)
  BY JoinType
<1>7. Len(j) = 0 * Len(a)
  BY <1>5, <1>6, JoinFixed, 0 \in Nat, Zenon DEF LaidOut
<1>8. j = <<>>
  BY <1>4, <1>7
<1>. QED
  BY <1>1, <1>2, <1>6, <1>8, Zenon DEF NoSpaces, Pieces

-----------------------------------------------------------------------------
(* Digits.                                                                 *)

\* A digit is read as its value, and is no space.
LEMMA DigitFacts ==
  ASSUME NEW d \in 0 .. 15
  PROVE  /\ UpperDigit(d) \in Int /\ UpperDigit(d) > Space /\ UpperDigit(d) # Space
         /\ Digit(UpperDigit(d)) = d /\ IndexOf(UpperDigit(d)) = d
<1>1. CASE d < 10
  BY <1>1 DEF UpperDigit, Digit, IndexOf, Space
<1>2. CASE d >= 10
  BY <1>2 DEF UpperDigit, Digit, IndexOf, Space
<1>. QED
  BY <1>1, <1>2

\* The two halves of a byte.
LEMMA Halves ==
  ASSUME NEW g \in 0 .. 255
  PROVE  g \div 16 \in 0 .. 15 /\ g % 16 \in 0 .. 15 /\ 16 * (g \div 16) + (g % 16) = g
<1>1. PICK h \in Int : h = g \div 16
  OBVIOUS
<1>2. PICK l \in Int : l = g % 16
  OBVIOUS
<1>3. g = 16 * h + l
  BY <1>1, <1>2
<1>4. h \in 0 .. 15 /\ l \in 0 .. 15
  BY <1>1, <1>2
<1>. QED
  BY <1>1, <1>2, <1>3, <1>4

Pair(g) == <<UpperDigit(g \div 16), UpperDigit(g % 16)>>
Pairs(v) == [k \in 1 .. Len(v) |-> Pair(v[k])]
Triple(g) == <<UpperDigit(g \div 16), UpperDigit(g % 16), Space>>
Triples(v) == [k \in 1 .. Len(v) |-> Triple(v[k])]

\* What the two digits of a byte are, with and without a separator.
LEMMA PairType ==
  ASSUME NEW g \in 0 .. 255
  PROVE  /\ Pair(g) \in Seq(Int) /\ Len(Pair(g)) = 2
         /\ Pair(g)[1] = UpperDigit(g \div 16) /\ Pair(g)[2] = UpperDigit(g % 16)
         /\ Triple(g) \in Seq(Int) /\ Len(Triple(g)) = 3
         /\ Triple(g)[1] = UpperDigit(g \div 16) /\ Triple(g)[2] = UpperDigit(g % 16)
         /\ Triple(g)[3] = Space
         /\ Triple(g) = Pair(g) \o <<Space>>
<1>1. PICK a \in Int : a = UpperDigit(g \div 16)
  BY Halves, DigitFacts, Zenon
<1>2. PICK b \in Int : b = UpperDigit(g % 16)
  BY Halves, DigitFacts, Zenon
<1>3. /\ <<a, b>> \in Seq(Int) /\ Len(<<a, b>>) = 2 /\ <<a, b>>[1] = a /\ <<a, b>>[2] = b
      /\ <<a, b, 32>> \in Seq(Int) /\ Len(<<a, b, 32>>) = 3 /\ <<a, b, 32>>[1] = a
      /\ <<a, b, 32>>[2] = b /\ <<a, b, 32>>[3] = 32 /\ <<a, b, 32>> = <<a, b>> \o <<32>>
  OBVIOUS
<1>. QED
  BY <1>1, <1>2, <1>3, Zenon DEF Pair, Triple, Space

\* The parts that are joined.
LEMMA PartsType ==
  ASSUME NEW v \in Seq(0 .. 255)
  PROVE  /\ Pairs(v) \in Seq(Seq(Int)) /\ Len(Pairs(v)) = Len(v) /\ AllOfLength(Pairs(v), 2)
         /\ Triples(v) \in Seq(Seq(Int)) /\ Len(Triples(v)) = Len(v)
         /\ AllOfLength(Triples(v), 3)
<1>1. Len(v) \in Nat /\ \A k \in 1 .. Len(v) : v[k] \in 0 .. 255
  BY ElementOfSeq, LenProperties, Zenon
<1>2. \A k \in 1 .. Len(v) : Pair(v[k]) \in Seq(Int) /\ Triple(v[k]) \in Seq(Int)
                             /\ Len(Pair(v[k])) = 2 /\ Len(Triple(v[k])) = 3
  BY <1>1, PairType, Zenon
<1>3. Pairs(v) \in Seq(Seq(Int)) /\ Len(Pairs(v)) = Len(v)
  BY <1>1, <1>2 DEF Pairs
<1>4. Triples(v) \in Seq(Seq(Int)) /\ Len(Triples(v)) = Len(v)
  BY <1>1, <1>2 DEF Triples
<1>5. \A k \in 1 .. Len(v) : Pairs(v)[k] = Pair(v[k]) /\ Triples(v)[k] = Triple(v[k])
  BY Zenon DEF Pairs, Triples
<1>. QED
  BY <1>2, <1>3, <1>4, <1>5, Zenon DEF AllOfLength

\* Two digits for every byte, one after the other.
LEMMA PairsJoined ==
  ASSUME NEW v \in Seq(0 .. 255), NEW q, q = Join(Pairs(v))
  PROVE  /\ q \in Seq(Int) /\ Len(q) = 2 * Len(v)
         /\ \A k \in 1 .. Len(v) : /\ q[2 * k - 1] = UpperDigit(v[k] \div 16)
                                   /\ q[2 * k] = UpperDigit(v[k] % 16)
<1>1. q \in Seq(Int) /\ LaidOut(q, Pairs(v), 2)
  BY PartsType, JoinFixed, 2 \in Nat, Zenon
<1>2. Len(q) = 2 * Len(v)
  BY <1>1, PartsType, Zenon DEF LaidOut
<1>3. ASSUME NEW k \in 1 .. Len(v)
      PROVE  q[2 * k - 1] = UpperDigit(v[k] \div 16) /\ q[2 * k] = UpperDigit(v[k] % 16)
  <2>1. \A j \in 1 .. 2 : q[2 * (k - 1) + j] = Pairs(v)[k][j]
    BY <1>1, PartsType, Zenon DEF LaidOut
  <2>2. q[2 * (k - 1) + 1] = Pairs(v)[k][1] /\ q[2 * (k - 1) + 2] = Pairs(v)[k][2]
    BY <2>1, 1 \in 1 .. 2, 2 \in 1 .. 2, Zenon
  <2>3. v[k] \in 0 .. 255
    BY ElementOfSeq, Zenon
  <2>4. Pairs(v)[k] = Pair(v[k])
    BY Zenon DEF Pairs
  <2>5. 2 * (k - 1) + 1 = 2 * k - 1 /\ 2 * (k - 1) + 2 = 2 * k
    OBVIOUS
  <2>. QED BY <2>2, <2>3, <2>4, <2>5, PairType, Zenon
<1>. QED
  BY <1>1, <1>2, <1>3, Zenon

\* The same with separators.
LEMMA TriplesJoined ==
  ASSUME NEW v \in Seq(0 .. 255), NEW q, q = Join(Triples(v))
  PROVE  /\ q \in Seq(Int) /\ Len(q) = 3 * Len(v)
         /\ \A k \in 1 .. Len(v) : /\ q[3 * k - 2] = UpperDigit(v[k] \div 16)
                                   /\ q[3 * k - 1] = UpperDigit(v[k] % 16)
                                   /\ q[3 * k] = Space
<1>1. q \in Seq(Int) /\ LaidOut(q, Triples(v), 3)
  BY PartsType, JoinFixed, 3 \in Nat, Zenon
<1>2. Len(q) = 3 * Len(v)
  BY <1>1, PartsType, Zenon DEF LaidOut
<1>3. ASSUME NEW k \in 1 .. Len(v)
      PROVE  /\ q[3 * k - 2] = UpperDigit(v[k] \div 16) /\ q[3 * k - 1] = UpperDigit(v[k] % 16)
             /\ q[3 * k] = Space
  <2>1. \A j \in 1 .. 3 : q[3 * (k - 1) + j] = Triples(v)[k][j]
    BY <1>1, PartsType, Zenon DEF LaidOut
  <2>2. /\ q[3 * (k - 1) + 1] = Triples(v)[k][1]
        /\ q[3 * (k - 1) + 2] = Triples(v)[k][2]
        /\ q[3 * (k - 1) + 3] = Triples(v)[k][3]
    BY <2>1, 1 \in 1 .. 3, 2 \in 1 .. 3, 3 \in 1 .. 3, Zenon
  <2>3. v[k] \in 0 .. 255
    BY ElementOfSeq, Zenon
  <2>4. Triples(v)[k] = Triple(v[k])
    BY Zenon DEF Triples
  <2>5. 3 * (k - 1) + 1 = 3 * k - 2 /\ 3 * (k - 1) + 2 = 3 * k - 1 /\ 3 * (k - 1) + 3 = 3 * k
    OBVIOUS
  <2>. QED BY <2>2, <2>3, <2>4, <2>5, PairType, Zenon
<1>. QED
  BY <1>1, <1>2, <1>3, Zenon

Extends(u, s, e) ==
  /\ Len(u) = Len(s) + 1 /\ u[Len(s) + 1] = e
  /\ \A k \in 1 .. Len(s) : u[k] = s[k]

\* What Append does.
LEMMA AppendExtends ==
  ASSUME NEW E, NEW s \in Seq(E), NEW e \in E
  PROVE  Append(s, e) \in Seq(E) /\ Extends(Append(s, e), s, e)
BY DEF Extends

\* One part more for one byte more.
LEMMA PartsAppend ==
  ASSUME NEW v \in Seq(0 .. 255), NEW g \in 0 .. 255
  PROVE  /\ Pairs(Append(v, g)) = Append(Pairs(v), Pair(g))
         /\ Triples(Append(v, g)) = Append(Triples(v), Triple(g))
<1> DEFINE n == Len(v)
<1>1. PICK u \in Seq(0 .. 255) : u = Append(v, g)
  BY AppendProperties, Zenon
<1>2. /\ Len(u) = n + 1 /\ n \in Nat /\ u[n + 1] = g
      /\ \A k \in 1 .. n : u[k] = v[k]
  <2>1. n \in Nat
    BY LenProperties, Zenon
  <2>2. Extends(u, v, g)
    BY <1>1, AppendExtends, Zenon
  <2>. QED BY <2>1, <2>2, Zenon DEF Extends
<1>3. PICK a \in Seq(Seq(Int)) : a = Pairs(v)
  BY PartsType, Zenon
<1>4. PICK b \in Seq(Seq(Int)) : b = Triples(v)
  BY PartsType, Zenon
<1>5. PICK c \in Seq(Int) : c = Pair(g)
  BY PairType, Zenon
<1>6. PICK d \in Seq(Int) : d = Triple(g)
  BY PairType, Zenon
<1>7. PICK a1 \in Seq(Seq(Int)) : a1 = Pairs(u)
  BY PartsType, Zenon
<1>8. PICK b1 \in Seq(Seq(Int)) : b1 = Triples(u)
  BY PartsType, Zenon
<1>9. Len(a) = n /\ Len(b) = n /\ Len(a1) = n + 1 /\ Len(b1) = n + 1
  BY <1>2, <1>3, <1>4, <1>7, <1>8, PartsType, Zenon
<1>10. \A k \in 1 .. n : a[k] = Pair(v[k]) /\ b[k] = Triple(v[k])
  BY <1>3, <1>4, Zenon DEF Pairs, Triples
<1>11. \A k \in 1 .. n + 1 : a1[k] = Pair(u[k]) /\ b1[k] = Triple(u[k])
  BY <1>2, <1>7, <1>8, Zenon DEF Pairs, Triples
<1>12. \A k \in 1 .. n + 1 : k = n + 1 \/ k \in 1 .. n
  BY <1>2
<1>13. \A k \in 1 .. n + 1 : a1[k] = Append(a, c)[k] /\ b1[k] = Append(b, d)[k]
  <2>1. /\ \A k \in 1 .. n : Append(a, c)[k] = a[k] /\ Append(b, d)[k] = b[k]
        /\ Append(a, c)[n + 1] = c /\ Append(b, d)[n + 1] = d
    <3>1. Extends(Append(a, c), a, c)
      BY AppendExtends, Zenon
    <3>2. Extends(Append(b, d), b, d)
      BY AppendExtends, Zenon
    <3>. QED BY <3>1, <3>2, <1>9, Zenon DEF Extends
  <2>. QED BY <2>1, <1>2, <1>5, <1>6, <1>10, <1>11, <1>12, Zenon
<1>14. a1 = Append(a, c) /\ b1 = Append(b, d)
  <2>1. /\ Append(a, c) \in Seq(Seq(Int)) /\ Len(Append(a, c)) = n + 1
        /\ Append(b, d) \in Seq(Seq(Int)) /\ Len(Append(b, d)) = n + 1
    BY <1>9
  <2>1a. /\ Len(a1) = Len(Append(a, c)) /\ \A k \in 1 .. Len(a1) : a1[k] = Append(a, c)[k]
         /\ Len(b1) = Len(Append(b, d)) /\ \A k \in 1 .. Len(b1) : b1[k] = Append(b, d)[k]
    BY <2>1, <1>9, <1>13, Zenon
  <2>2. a1 = Append(a, c)
    BY <2>1, <2>1a, SeqEqual, Zenon
  <2>3. b1 = Append(b, d)
    BY <2>1, <2>1a, SeqEqual, Zenon
  <2>. QED BY <2>2, <2>3
<1>. QED
  BY <1>1, <1>3, <1>4, <1>5, <1>6, <1>7, <1>8, <1>14, Zenon

\* No parts.
LEMMA PartsEmpty == Pairs(<<>>) = <<>> /\ Triples(<<>>) = <<>>
<1>1. PICK v \in Seq(0 .. 255) : v = <<>>
  BY EmptySeq, Zenon
<1>2. \A s \in Seq(Seq(Int)) : Len(s) = 0 => s = <<>>
  OBVIOUS
<1>3. Len(v) = 0
  BY <1>1
<1>. QED
  BY <1>1, <1>2, <1>3, PartsType, Zenon

\* Without its separators, the text with separators is the one without.
LEMMA NoSpacesTriples ==
  ASSUME NEW v \in Seq(0 .. 255)
  PROVE  NoSpaces(Join(Triples(v))) = Join(Pairs(v))
<1> DEFINE T == {u \in Seq(0 .. 255) : NoSpaces(Join(Triples(u))) = Join(Pairs(u))}
<1>1. <<>> \in T
  <2>1. <<>> \in Seq(0 .. 255) /\ <<>> \in Seq(Int) /\ \A i \in 1 .. Len(<<>>) : FALSE
    OBVIOUS
  <2>2. NoSpaces(<<>>) = <<>>
    BY <2>1, NoSpacesNone, Zenon
  <2>. QED BY <2>1, <2>2, PartsEmpty, JoinEmpty, Zenon
<1>2. ASSUME NEW u \in Seq(0 .. 255), NEW g \in 0 .. 255, u \in T PROVE Append(u, g) \in T
  <2>1. NoSpaces(Triple(g)) = Pair(g)
    <3>1. PICK c \in Seq(Int) : c = Pair(g)
      BY PairType, Zenon
    <3>2. PICK d \in Seq(Int) : d = <<Space>>
      <4>1. <<32>> \in Seq(Int)
        OBVIOUS
      <4>. QED BY <4>1, Zenon DEF Space
    <3>3. Len(c) = 2 /\ c[1] # Space /\ c[2] # Space
      BY <3>1, PairType, Halves, DigitFacts, Zenon
    <3>4. NoSpaces(c) = c
      <4>1. \A i \in 1 .. Len(c) : i = 1 \/ i = 2
        BY <3>3
      <4>. QED BY <3>3, <4>1, NoSpacesNone, Zenon
    <3>5. NoSpaces(d) = <<>>
      BY <3>2, NoSpacesSpace, Zenon
    <3>6. NoSpaces(c \o d) = c \o <<>>
      BY <3>4, <3>5, NoSpacesConcat, Zenon
    <3>. QED BY <3>1, <3>2, <3>6, PairType, ConcatEmptySeq, Zenon
  <2>2. PICK a \in Seq(Seq(Int)) : a = Triples(u)
    BY PartsType, Zenon
  <2>3. PICK b \in Seq(Seq(Int)) : b = Pairs(u)
    BY PartsType, Zenon
  <2>4. PICK j \in Seq(Int) : j = Join(a)
    BY JoinType, Zenon
  <2>5. PICK c \in Seq(Int) : c = Triple(g)
    BY PairType, Zenon
  <2>6. PICK d \in Seq(Int) : d = Pair(g)
    BY PairType, Zenon
  <2>7. Join(Append(a, c)) = j \o c /\ Join(Append(b, d)) = Join(b) \o d
    BY <2>4, JoinAppend, Zenon
  <2>8. NoSpaces(j \o c) = NoSpaces(j) \o NoSpaces(c)
    BY NoSpacesConcat, Zenon
  <2>9. NoSpaces(j) = Join(b)
    BY <1>2, <2>2, <2>3, <2>4, Zenon
  <2>10. NoSpaces(c) = d
    BY <2>1, <2>5, <2>6, Zenon
  <2>11. NoSpaces(Join(Append(a, c))) = Join(Append(b, d))
    BY <2>7, <2>8, <2>9, <2>10, Zenon
  <2>12. Append(u, g) \in Seq(0 .. 255)
    BY AppendProperties, Zenon
  <2>. QED BY <2>2, <2>3, <2>5, <2>6, <2>11, <2>12, PartsAppend, ZenonT(40)
<1>3. v \in T
  <2> HIDE DEF T
  <2>. QED BY <1>1, <1>2, SeqInd, Zenon
<1>. QED
  BY <1>3, Zenon

\* A sequence is its front and its last element.
LEMMA FrontAndLast ==
  ASSUME NEW s \in Seq(Int), NEW m \in Nat, Len(s) = m + 1
  PROVE  s = SubSeq(s, 1, m) \o <<s[m + 1]>>
OBVIOUS

\* An index that is not the last one is before it.
LEMMA BelowLast ==
  \A n \in Nat : \A i \in 1 .. 3 * n : i # 3 * n => i \in Int /\ 1 <= i /\ i <= 3 * n - 1
OBVIOUS

\* trim cuts the last separator off.
LEMMA TrimTriples ==
  ASSUME NEW v \in Seq(0 .. 255), NEW n \in Nat, n = Len(v), n # 0,
         NEW q \in Seq(Int), q = Join(Triples(v))
  PROVE  Trim(q) = SubSeq(q, 1, 3 * n - 1)
<1> DEFINE kept == {i \in DOMAIN q : q[i] > Space}
<1>1. /\ Len(q) = 3 * n
      /\ \A k \in 1 .. n : /\ q[3 * k - 2] = UpperDigit(v[k] \div 16)
                           /\ q[3 * k - 1] = UpperDigit(v[k] % 16)
                           /\ q[3 * k] = Space
  BY TriplesJoined, Zenon
<1>2. \A k \in 1 .. n : /\ UpperDigit(v[k] \div 16) > Space
                        /\ UpperDigit(v[k] % 16) > Space
  <2>1. \A k \in 1 .. n : v[k] \in 0 .. 255
    BY ElementOfSeq, Zenon
  <2>. QED BY <2>1, Halves, DigitFacts, Zenon
<1>3. 1 \in 1 .. n /\ n \in 1 .. n /\ 3 * 1 - 2 = 1
  OBVIOUS
<1>4. q[1] > Space /\ q[3 * n - 1] > Space /\ q[3 * n] = Space
  <2>1. q[3 * 1 - 2] = UpperDigit(v[1] \div 16) /\ UpperDigit(v[1] \div 16) > Space
    BY <1>1, <1>2, <1>3, Zenon
  <2>2. q[3 * n - 1] = UpperDigit(v[n] % 16) /\ UpperDigit(v[n] % 16) > Space
    BY <1>1, <1>2, <1>3, Zenon
  <2>3. q[3 * n] = Space
    BY <1>1, <1>3, Zenon
  <2>. QED BY <2>1, <2>2, <2>3, <1>3
<1>5. 1 \in kept /\ 3 * n - 1 \in kept
  BY <1>1, <1>4
<1>6. \A i \in kept : i \in Int /\ 1 <= i /\ i <= 3 * n - 1
  <2>1. Len(q) = 3 * n /\ DOMAIN q = 1 .. Len(q)
    BY <1>1
  <2>2. ~(q[3 * n] > Space)
    BY <1>4 DEF Space
  <2>3. ASSUME NEW i \in 1 .. 3 * n, q[i] > Space PROVE i \in Int /\ 1 <= i /\ i <= 3 * n - 1
    BY <2>2, <2>3, BelowLast, Zenon
  <2>. QED BY <2>1, <2>3, Zenon
<1>7. Trim(q) = IF kept = {} THEN <<>> ELSE SubSeq(q, Min(kept), Max(kept))
  BY DEF Trim
<1> HIDE DEF kept
<1>8. Min(kept) = 1
  <2>1. \A x \in kept : (\A y \in kept : x =< y) => x = 1
    BY <1>5, <1>6
  <2>2. \A y \in kept : 1 =< y
    BY <1>6
  <2>. QED BY <1>5, <2>1, <2>2, Zenon DEF Min
<1>9. Max(kept) = 3 * n - 1
  <2>1. \A x \in kept : (\A y \in kept : x >= y) => x = 3 * n - 1
    BY <1>5, <1>6
  <2>2. \A y \in kept : 3 * n - 1 >= y
    BY <1>6
  <2>. QED BY <1>5, <2>1, <2>2, Zenon DEF Max
<1>. QED
  BY <1>5, <1>7, <1>8, <1>9, Zenon

\* The text of some bytes: what it is made of, and what is left of it without
\* the separators.
LEMMA HexText ==
  ASSUME NEW v \in Seq(0 .. 255), NEW h, h = Trim(Join(Triples(v)))
  PROVE  /\ h \in Seq(Int)
         /\ Len(h) = IF Len(v) = 0 THEN 0 ELSE 3 * Len(v) - 1
         /\ \A k \in 1 .. Len(v) : /\ h[3 * k - 2] = UpperDigit(v[k] \div 16)
                                   /\ h[3 * k - 1] = UpperDigit(v[k] % 16)
                                   /\ k < Len(v) => h[3 * k] = Space
         /\ NoSpaces(h) = Join(Pairs(v))
<1>1. PICK n \in Nat : n = Len(v)
  BY LenProperties, Zenon
<1>2. PICK q \in Seq(Int) : q = Join(Triples(v))
  BY TriplesJoined, Zenon
<1>3. /\ Len(q) = 3 * n
      /\ \A k \in 1 .. n : /\ q[3 * k - 2] = UpperDigit(v[k] \div 16)
                           /\ q[3 * k - 1] = UpperDigit(v[k] % 16)
                           /\ q[3 * k] = Space
  BY <1>1, <1>2, TriplesJoined, Zenon
<1>4. NoSpaces(q) = Join(Pairs(v))
  BY <1>2, NoSpacesTriples, Zenon
<1>5. CASE n = 0
  <2>1. q = <<>>
    BY <1>3, <1>5
  <2>2. h = <<>>
    <3>1. {i \in DOMAIN q : q[i] > Space} = {}
      BY <2>1
    <3>. QED BY <3>1, <1>2, Zenon DEF Trim
  <2>3. <<>> \in Seq(Int) /\ Len(<<>>) = 0 /\ \A k \in 1 .. n : FALSE
    BY <1>5
  <2>. QED BY <2>1, <2>2, <2>3, <1>1, <1>4, <1>5, Zenon
<1>6. CASE n # 0
  <2>1. h = SubSeq(q, 1, 3 * n - 1)
    BY <1>1, <1>2, <1>6, TrimTriples, Zenon
  <2>2. /\ h \in Seq(Int) /\ Len(h) = 3 * n - 1
        /\ \A i \in 1 .. 3 * n - 1 : h[i] = q[i]
    BY <1>3, <1>6, <2>1
  <2>3. ASSUME NEW k \in 1 .. n
        PROVE  /\ h[3 * k - 2] = UpperDigit(v[k] \div 16)
               /\ h[3 * k - 1] = UpperDigit(v[k] % 16)
               /\ k < n => h[3 * k] = Space
    <3>1. 3 * k - 2 \in 1 .. 3 * n - 1 /\ 3 * k - 1 \in 1 .. 3 * n - 1
          /\ (k < n => 3 * k \in 1 .. 3 * n - 1)
      OBVIOUS
    <3>. QED BY <1>3, <2>2, <3>1, Zenon
  <2>4. NoSpaces(h) = NoSpaces(q)
    <3>1. PICK g \in Seq(Int) : g = h
      BY <2>2
    <3>2. PICK d \in Seq(Int) : d = <<Space>>
      <4>1. <<32>> \in Seq(Int)
        OBVIOUS
      <4>. QED BY <4>1, Zenon DEF Space
    <3>3. q = g \o d
      <4>1. n \in 1 .. n
        BY <1>6
      <4>2. q[3 * n] = Space /\ Len(q) = 3 * n
        BY <1>3, <4>1, Zenon
      <4>3. 3 * n - 1 \in Nat /\ (3 * n - 1) + 1 = 3 * n
        BY <1>6
      <4>4. q = SubSeq(q, 1, 3 * n - 1) \o <<q[(3 * n - 1) + 1]>>
        BY <4>2, <4>3, FrontAndLast, Zenon
      <4>. QED BY <2>1, <3>1, <3>2, <4>2, <4>3, <4>4
    <3>4. NoSpaces(d) = <<>>
      BY <3>2, NoSpacesSpace, Zenon
    <3>5. NoSpaces(g \o d) = NoSpaces(g) \o <<>> /\ NoSpaces(g) \in Seq(Int)
      BY <3>4, NoSpacesConcat, ZenonT(40)
    <3>. QED BY <3>1, <3>3, <3>5, ConcatEmptySeq, Zenon
  <2>. QED BY <1>1, <1>4, <1>6, <2>2, <2>3, <2>4, Zenon
<1>. QED
  BY <1>5, <1>6, Zenon

\* The cast to byte undoes getInt.
LEMMA ByteOfInt ==
  ASSUME NEW b \in -128 .. 127
  PROVE  getInt(b) \in 0 .. 255 /\ ToByte(getInt(b)) = b
BY DEF getInt, ToByte

\* Two digits for every byte are read as the bytes.
LEMMA BytesOfPairs ==
  ASSUME NEW v \in Seq(0 .. 255), NEW src, NoSpaces(src) = Join(Pairs(v))
  PROVE  hexStr2Bytes(src) = [i \in 1 .. Len(v) |-> ToByte(v[i])]
<1>1. PICK n \in Nat : n = Len(v)
  BY LenProperties, Zenon
<1>2. PICK q \in Seq(Int) : q = Join(Pairs(v))
  BY PairsJoined, Zenon
<1>3. /\ Len(q) = 2 * n
      /\ \A k \in 1 .. n : /\ q[2 * k - 1] = UpperDigit(v[k] \div 16)
                           /\ q[2 * k] = UpperDigit(v[k] % 16)
  BY <1>1, <1>2, PairsJoined, Zenon
<1>4. Len(q) % 2 = 0 /\ Len(q) \div 2 = n
  BY <1>3
<1>5. hexStr2Bytes(src) =
        [i \in 1 .. n |-> ToByte(ParseHex(SubSeq(q, 2 * i - 1, 2 * i)))]
  BY <1>2, <1>4, Zenon DEF hexStr2Bytes
<1>6. ASSUME NEW i \in 1 .. n PROVE ParseHex(SubSeq(q, 2 * i - 1, 2 * i)) = v[i]
  <2>1. SubSeq(q, 2 * i - 1, 2 * i)[1] = q[2 * i - 1] /\ SubSeq(q, 2 * i - 1, 2 * i)[2] = q[2 * i]
    BY <1>3
  <2>2. v[i] \in 0 .. 255
    BY <1>1, ElementOfSeq, Zenon
  <2>3. Digit(q[2 * i - 1]) = v[i] \div 16 /\ Digit(q[2 * i]) = v[i] % 16
    BY <1>3, <2>2, Halves, DigitFacts, Zenon
  <2>. QED BY <2>1, <2>2, <2>3, Halves, Zenon DEF ParseHex
<1>. QED
  BY <1>1, <1>5, <1>6, Zenon

-----------------------------------------------------------------------------
(* Integer.toHexString of a byte.                                          *)

LowPair(g) == <<LowerDigit(g \div 16), LowerDigit(g % 16)>>
LowPairs(v) == [k \in 1 .. Len(v) |-> LowPair(v[k])]
LowTriple(g) == <<LowerDigit(g \div 16), LowerDigit(g % 16), Space>>
LowTriples(v) == [k \in 1 .. Len(v) |-> LowTriple(v[k])]

Upper(ch) == IF ch \in 97 .. 122 THEN ch - 32 ELSE ch

\* A digit of lower case, its upper case and what it is read as.
LEMMA LowDigitFacts ==
  ASSUME NEW d \in 0 .. 15
  PROVE  /\ LowerDigit(d) \in Int /\ LowerDigit(d) # Space
         /\ Upper(LowerDigit(d)) = UpperDigit(d) /\ Digit(LowerDigit(d)) = d
         /\ IndexOf(LowerDigit(d)) = IF d < 10 THEN d ELSE -1
         /\ Upper(LowerDigit(d)) = LowerDigit(d) <=> d < 10
<1>1. CASE d < 10
  BY <1>1 DEF LowerDigit, UpperDigit, Digit, IndexOf, Space, Upper
<1>2. CASE d >= 10
  BY <1>2 DEF LowerDigit, UpperDigit, Digit, IndexOf, Space, Upper
<1>. QED
  BY <1>1, <1>2

\* Two single elements make a pair.
LEMMA TwoOfOne ==
  ASSUME NEW a \in Int, NEW b \in Int
  PROVE  <<a>> \o <<b>> = <<a, b>>
<1>0. <<a>> \in Seq(Int) /\ <<b>> \in Seq(Int) /\ <<a, b>> \in Seq(Int)
  OBVIOUS
<1>1. PICK p \in Seq(Int) : p = <<a>>
  BY <1>0, Zenon
<1>2. PICK q \in Seq(Int) : q = <<b>>
  BY <1>0, Zenon
<1>3. PICK r \in Seq(Int) : r = <<a, b>>
  BY <1>0, Zenon
<1>4. /\ Len(p) = 1 /\ p[1] = a /\ Len(q) = 1 /\ q[1] = b
      /\ Len(r) = 2 /\ r[1] = a /\ r[2] = b
  BY <1>1, <1>2, <1>3
<1>5. \A i \in 1 .. 2 : i = 1 \/ i = 2
  OBVIOUS
<1>6. \A i \in 1 .. 2 : (p \o q)[i] = r[i]
  <2>1. /\ \A i \in 1 .. Len(p) + Len(q) : (p \o q)[i] = IF i <= Len(p) THEN p[i] ELSE q[i - Len(p)]
        /\ Len(p) = 1 /\ Len(q) = 1
    BY <1>4, ConcatProperties, Zenon
  <2>2. /\ 1 \in 1 .. 1 + 1 /\ 1 <= 1
        /\ 2 \in 1 .. 1 + 1 /\ ~(2 <= 1) /\ 2 - 1 = 1
    OBVIOUS
  <2>3. (p \o q)[1] = p[1] /\ (p \o q)[2] = q[2 - 1]
    BY <2>1, <2>2, Zenon
  <2>. QED BY <1>4, <1>5, <2>2, <2>3, Zenon
<1>7. p \o q \in Seq(Int) /\ Len(p \o q) = 2
  <2>1. p \o q \in Seq(Int) /\ Len(p \o q) = Len(p) + Len(q)
    BY ConcatProperties, Zenon
  <2>. QED BY <1>4, <2>1
<1>8. p \o q = r
  BY <1>4, <1>6, <1>7, SeqEqual, Zenon
<1>. QED
  BY <1>1, <1>2, <1>3, <1>8, Zenon

\* One digit below 16, two from there on: padded, it is two.
LEMMA PaddedHex ==
  ASSUME NEW g \in 0 .. 255
  PROVE  /\ Len(ToHexString(g)) = 1 <=> g < 16
         /\ (IF g < 16 THEN <<UpperDigit(0)>> ELSE <<>>) \o ToHexString(g) = LowPair(g)
<1>1. CASE g < 16
  <2>1. HexWidth(g) = 1
    BY <1>1 DEF HexWidth
  <2>2. 16 ^ (1 - 1) = 1
    OBVIOUS
  <2>3. (g \div 1) % 16 = g /\ g \div 16 = 0 /\ g % 16 = g
    BY <1>1
  <2>4. PICK a \in Int : a = LowerDigit(g)
    BY <1>1 DEF LowerDigit
  <2>5. ToHexString(g) = [i \in 1 .. 1 |-> LowerDigit((g \div 16 ^ (1 - i)) % 16)]
    BY <2>1, Zenon DEF ToHexString
  <2>6. \A i \in 1 .. 1 : LowerDigit((g \div 16 ^ (1 - i)) % 16) = a
    <3>1. \A i \in 1 .. 1 : i = 1
      OBVIOUS
    <3>. QED BY <3>1, <2>2, <2>3, <2>4, Zenon
  <2>7. ToHexString(g) = [i \in 1 .. 1 |-> a]
    BY <2>5, <2>6, Zenon
  <2>8. ToHexString(g) = <<a>>
    BY <2>7
  <2>9. UpperDigit(0) = 48 /\ LowerDigit(0) = 48
    BY DEF UpperDigit, LowerDigit
  <2>10. Len(<<a>>) = 1 /\ 48 \in Int
    OBVIOUS
  <2>11. <<48>> \o <<a>> = <<48, a>>
    BY <2>10, TwoOfOne, Zenon
  <2>. QED BY <1>1, <2>3, <2>4, <2>8, <2>9, <2>10, <2>11, Zenon DEF LowPair
<1>2. CASE ~(g < 16)
  <2>1. HexWidth(g) = 2
    BY <1>2 DEF HexWidth
  <2>2. 16 ^ (2 - 1) = 16 /\ 16 ^ (2 - 2) = 1
    OBVIOUS
  <2>3. (g \div 1) % 16 = g % 16 /\ (g \div 16) % 16 = g \div 16
    <3>1. g \div 1 = g
      OBVIOUS
    <3>2. PICK h \in 0 .. 15 : h = g \div 16
      BY Halves, Zenon
    <3>3. h % 16 = h
      OBVIOUS
    <3>. QED BY <3>1, <3>2, <3>3, Zenon
  <2>4. PICK a \in Int : a = LowerDigit(g \div 16)
    BY Halves, LowDigitFacts, Zenon
  <2>5. PICK b \in Int : b = LowerDigit(g % 16)
    BY Halves, LowDigitFacts, Zenon
  <2>6. ToHexString(g) = [i \in 1 .. 2 |-> LowerDigit((g \div 16 ^ (2 - i)) % 16)]
    BY <2>1, Zenon DEF ToHexString
  <2>7. \A i \in 1 .. 2 : LowerDigit((g \div 16 ^ (2 - i)) % 16) = IF i = 1 THEN a ELSE b
    <3>1. \A i \in 1 .. 2 : i = 1 \/ i = 2
      OBVIOUS
    <3>2. LowerDigit((g \div 16 ^ (2 - 1)) % 16) = a
      BY <2>2, <2>3, <2>4, Zenon
    <3>3. LowerDigit((g \div 16 ^ (2 - 2)) % 16) = b /\ 2 # 1
      BY <2>2, <2>3, <2>5
    <3>. QED BY <3>1, <3>2, <3>3, Zenon
  <2>8. ToHexString(g) = [i \in 1 .. 2 |-> IF i = 1 THEN a ELSE b]
    BY <2>6, <2>7, Zenon
  <2>9. ToHexString(g) = <<a, b>>
    BY <2>8
  <2>10. Len(<<a, b>>) # 1 /\ <<>> \o <<a, b>> = <<a, b>>
    OBVIOUS
  <2>. QED BY <1>2, <2>4, <2>5, <2>9, <2>10, Zenon DEF LowPair
<1>. QED
  BY <1>1, <1>2, Zenon

\* Where the elements are when every byte has three.
LEMMA EveryThird ==
  \A n \in Nat : \A i \in 1 .. 3 * n :
    \E k \in 1 .. n : i = 3 * k - 2 \/ i = 3 * k - 1 \/ i = 3 * k
<1> SUFFICES ASSUME NEW n \in Nat, NEW i \in 1 .. 3 * n
             PROVE  \E k \in 1 .. n : i = 3 * k - 2 \/ i = 3 * k - 1 \/ i = 3 * k
  OBVIOUS
<1>1. PICK h \in Int : h = (i + 2) \div 3
  OBVIOUS
<1>2. h \in 1 .. n /\ (i = 3 * h - 2 \/ i = 3 * h - 1 \/ i = 3 * h)
  BY <1>1
<1>. QED
  BY <1>2

\* The same for two.
LEMMA EverySecond ==
  \A n \in Nat : \A i \in 1 .. 2 * n : \E k \in 1 .. n : i = 2 * k - 1 \/ i = 2 * k
<1> SUFFICES ASSUME NEW n \in Nat, NEW i \in 1 .. 2 * n
             PROVE  \E k \in 1 .. n : i = 2 * k - 1 \/ i = 2 * k
  OBVIOUS
<1>1. PICK h \in Int : h = (i + 1) \div 2
  OBVIOUS
<1>2. h \in 1 .. n /\ (i = 2 * h - 1 \/ i = 2 * h)
  BY <1>1
<1>. QED
  BY <1>2

\* The same in lower case: the two digits of a byte,
LEMMA LowPairType ==
  ASSUME NEW g \in 0 .. 255
  PROVE  /\ LowPair(g) \in Seq(Int) /\ Len(LowPair(g)) = 2
         /\ LowPair(g)[1] = LowerDigit(g \div 16) /\ LowPair(g)[2] = LowerDigit(g % 16)
         /\ LowTriple(g) \in Seq(Int) /\ Len(LowTriple(g)) = 3
         /\ LowTriple(g)[1] = LowerDigit(g \div 16) /\ LowTriple(g)[2] = LowerDigit(g % 16)
         /\ LowTriple(g)[3] = Space
         /\ LowTriple(g) = LowPair(g) \o <<Space>>
<1>1. PICK a \in Int : a = LowerDigit(g \div 16)
  BY Halves, LowDigitFacts, Zenon
<1>2. PICK b \in Int : b = LowerDigit(g % 16)
  BY Halves, LowDigitFacts, Zenon
<1>3. /\ <<a, b>> \in Seq(Int) /\ Len(<<a, b>>) = 2 /\ <<a, b>>[1] = a /\ <<a, b>>[2] = b
      /\ <<a, b, 32>> \in Seq(Int) /\ Len(<<a, b, 32>>) = 3 /\ <<a, b, 32>>[1] = a
      /\ <<a, b, 32>>[2] = b /\ <<a, b, 32>>[3] = 32 /\ <<a, b, 32>> = <<a, b>> \o <<32>>
  OBVIOUS
<1>. QED
  BY <1>1, <1>2, <1>3, Zenon DEF LowPair, LowTriple, Space

\* the parts that are joined,
LEMMA LowPartsType ==
  ASSUME NEW v \in Seq(0 .. 255)
  PROVE  /\ LowPairs(v) \in Seq(Seq(Int)) /\ Len(LowPairs(v)) = Len(v) /\ AllOfLength(LowPairs(v), 2)
         /\ LowTriples(v) \in Seq(Seq(Int)) /\ Len(LowTriples(v)) = Len(v)
         /\ AllOfLength(LowTriples(v), 3)
<1>1. Len(v) \in Nat /\ \A k \in 1 .. Len(v) : v[k] \in 0 .. 255
  BY ElementOfSeq, LenProperties, Zenon
<1>2. \A k \in 1 .. Len(v) : LowPair(v[k]) \in Seq(Int) /\ LowTriple(v[k]) \in Seq(Int)
                             /\ Len(LowPair(v[k])) = 2 /\ Len(LowTriple(v[k])) = 3
  BY <1>1, LowPairType, Zenon
<1>3. LowPairs(v) \in Seq(Seq(Int)) /\ Len(LowPairs(v)) = Len(v)
  BY <1>1, <1>2 DEF LowPairs
<1>4. LowTriples(v) \in Seq(Seq(Int)) /\ Len(LowTriples(v)) = Len(v)
  BY <1>1, <1>2 DEF LowTriples
<1>5. \A k \in 1 .. Len(v) : LowPairs(v)[k] = LowPair(v[k]) /\ LowTriples(v)[k] = LowTriple(v[k])
  BY Zenon DEF LowPairs, LowTriples
<1>. QED
  BY <1>2, <1>3, <1>4, <1>5, Zenon DEF AllOfLength

\* two digits for every byte,
LEMMA LowPairsJoined ==
  ASSUME NEW v \in Seq(0 .. 255), NEW q, q = Join(LowPairs(v))
  PROVE  /\ q \in Seq(Int) /\ Len(q) = 2 * Len(v)
         /\ \A k \in 1 .. Len(v) : /\ q[2 * k - 1] = LowerDigit(v[k] \div 16)
                                   /\ q[2 * k] = LowerDigit(v[k] % 16)
<1>1. q \in Seq(Int) /\ LaidOut(q, LowPairs(v), 2)
  BY LowPartsType, JoinFixed, 2 \in Nat, Zenon
<1>2. Len(q) = 2 * Len(v)
  BY <1>1, LowPartsType, Zenon DEF LaidOut
<1>3. ASSUME NEW k \in 1 .. Len(v)
      PROVE  q[2 * k - 1] = LowerDigit(v[k] \div 16) /\ q[2 * k] = LowerDigit(v[k] % 16)
  <2>1. \A j \in 1 .. 2 : q[2 * (k - 1) + j] = LowPairs(v)[k][j]
    BY <1>1, LowPartsType, Zenon DEF LaidOut
  <2>2. q[2 * (k - 1) + 1] = LowPairs(v)[k][1] /\ q[2 * (k - 1) + 2] = LowPairs(v)[k][2]
    BY <2>1, 1 \in 1 .. 2, 2 \in 1 .. 2, Zenon
  <2>3. v[k] \in 0 .. 255
    BY ElementOfSeq, Zenon
  <2>4. LowPairs(v)[k] = LowPair(v[k])
    BY Zenon DEF LowPairs
  <2>5. 2 * (k - 1) + 1 = 2 * k - 1 /\ 2 * (k - 1) + 2 = 2 * k
    OBVIOUS
  <2>. QED BY <2>2, <2>3, <2>4, <2>5, LowPairType, Zenon
<1>. QED
  BY <1>1, <1>2, <1>3, Zenon

\* and with separators.
LEMMA LowTriplesJoined ==
  ASSUME NEW v \in Seq(0 .. 255), NEW q, q = Join(LowTriples(v))
  PROVE  /\ q \in Seq(Int) /\ Len(q) = 3 * Len(v)
         /\ \A k \in 1 .. Len(v) : /\ q[3 * k - 2] = LowerDigit(v[k] \div 16)
                                   /\ q[3 * k - 1] = LowerDigit(v[k] % 16)
                                   /\ q[3 * k] = Space
<1>1. q \in Seq(Int) /\ LaidOut(q, LowTriples(v), 3)
  BY LowPartsType, JoinFixed, 3 \in Nat, Zenon
<1>2. Len(q) = 3 * Len(v)
  BY <1>1, LowPartsType, Zenon DEF LaidOut
<1>3. ASSUME NEW k \in 1 .. Len(v)
      PROVE  /\ q[3 * k - 2] = LowerDigit(v[k] \div 16) /\ q[3 * k - 1] = LowerDigit(v[k] % 16)
             /\ q[3 * k] = Space
  <2>1. \A j \in 1 .. 3 : q[3 * (k - 1) + j] = LowTriples(v)[k][j]
    BY <1>1, LowPartsType, Zenon DEF LaidOut
  <2>2. /\ q[3 * (k - 1) + 1] = LowTriples(v)[k][1]
        /\ q[3 * (k - 1) + 2] = LowTriples(v)[k][2]
        /\ q[3 * (k - 1) + 3] = LowTriples(v)[k][3]
    BY <2>1, 1 \in 1 .. 3, 2 \in 1 .. 3, 3 \in 1 .. 3, Zenon
  <2>3. v[k] \in 0 .. 255
    BY ElementOfSeq, Zenon
  <2>4. LowTriples(v)[k] = LowTriple(v[k])
    BY Zenon DEF LowTriples
  <2>5. 3 * (k - 1) + 1 = 3 * k - 2 /\ 3 * (k - 1) + 2 = 3 * k - 1 /\ 3 * (k - 1) + 3 = 3 * k
    OBVIOUS
  <2>. QED BY <2>2, <2>3, <2>4, <2>5, LowPairType, Zenon
<1>. QED
  BY <1>1, <1>2, <1>3, Zenon

-----------------------------------------------------------------------------
(* byte2HexStr and hexStr2Bytes.                                           *)

\* toUpperCase of the text.
LEMMA UpperTriples ==
  ASSUME NEW v \in Seq(0 .. 255)
  PROVE  ToUpperCase(Join(LowTriples(v))) = Join(Triples(v))
<1>1. PICK n \in Nat : n = Len(v)
  BY LenProperties, Zenon
<1>2. PICK p \in Seq(Int) : p = Join(LowTriples(v))
  BY LowTriplesJoined, Zenon
<1>3. PICK q \in Seq(Int) : q = Join(Triples(v))
  BY TriplesJoined, Zenon
<1>4. /\ Len(p) = 3 * n
      /\ \A k \in 1 .. n : /\ p[3 * k - 2] = LowerDigit(v[k] \div 16)
                           /\ p[3 * k - 1] = LowerDigit(v[k] % 16)
                           /\ p[3 * k] = Space
  BY <1>1, <1>2, LowTriplesJoined, Zenon
<1>5. /\ Len(q) = 3 * n
      /\ \A k \in 1 .. n : /\ q[3 * k - 2] = UpperDigit(v[k] \div 16)
                           /\ q[3 * k - 1] = UpperDigit(v[k] % 16)
                           /\ q[3 * k] = Space
  BY <1>1, <1>3, TriplesJoined, Zenon
<1>6. ASSUME NEW i \in 1 .. 3 * n PROVE Upper(p[i]) = q[i]
  <2>1. PICK k \in 1 .. n : i = 3 * k - 2 \/ i = 3 * k - 1 \/ i = 3 * k
    BY EveryThird, Zenon
  <2>2. v[k] \in 0 .. 255
    BY <1>1, ElementOfSeq, Zenon
  <2>3. /\ Upper(LowerDigit(v[k] \div 16)) = UpperDigit(v[k] \div 16)
        /\ Upper(LowerDigit(v[k] % 16)) = UpperDigit(v[k] % 16)
    BY <2>2, Halves, LowDigitFacts, Zenon
  <2>4. Upper(Space) = Space
    BY DEF Upper, Space
  <2>. QED BY <1>4, <1>5, <2>1, <2>3, <2>4, Zenon
<1>7. ToUpperCase(p) = [i \in 1 .. 3 * n |-> Upper(p[i])]
  <2>1. DOMAIN p = 1 .. 3 * n
    <3>1. DOMAIN p = 1 .. Len(p)
      OBVIOUS
    <3>. QED BY <1>4, <3>1, Zenon
  <2>. QED BY <2>1, Zenon DEF ToUpperCase, Upper
<1>8. q = [i \in 1 .. 3 * n |-> q[i]]
  <2>1. q = [i \in 1 .. Len(q) |-> q[i]]
    OBVIOUS
  <2>. QED BY <1>5, <2>1, Zenon
<1>9. ToUpperCase(p) = q
  BY <1>6, <1>7, <1>8, Zenon
<1>. QED
  BY <1>2, <1>3, <1>9, Zenon

Ints(b) == [k \in 1 .. Len(b) |-> getInt(b[k])]

\* The unsigned values of some bytes.
LEMMA IntsType ==
  ASSUME NEW b \in Seq(-128 .. 127)
  PROVE  Ints(b) \in Seq(0 .. 255) /\ Len(Ints(b)) = Len(b)
<1>1. \A k \in 1 .. Len(b) : b[k] \in -128 .. 127
  BY ElementOfSeq, Zenon
<1>2. \A k \in 1 .. Len(b) : getInt(b[k]) \in 0 .. 255
  BY <1>1, ByteOfInt, Zenon
<1>3. Len(b) \in Nat
  BY LenProperties, Zenon
<1>. QED
  BY <1>2, <1>3 DEF Ints

\* byte2HexStr writes two digits of upper case for every byte.
LEMMA ByteText ==
  ASSUME NEW b \in Seq(-128 .. 127)
  PROVE  byte2HexStr(b) = Trim(Join(Triples(Ints(b))))
<1> DEFINE part(g) == (IF Len(ToHexString(g)) = 1 THEN <<UpperDigit(0)>> ELSE <<>>)
                        \o ToHexString(g) \o <<Space>>
<1>1. \A k \in 1 .. Len(b) : getInt(b[k]) \in 0 .. 255
  <2>1. \A k \in 1 .. Len(b) : b[k] \in -128 .. 127
    BY ElementOfSeq, Zenon
  <2>. QED BY <2>1, ByteOfInt, Zenon
<1>2. ASSUME NEW g \in 0 .. 255 PROVE part(g) = LowTriple(g)
  <2>1. Len(ToHexString(g)) = 1 <=> g < 16
    BY PaddedHex, Zenon
  <2>2. (IF g < 16 THEN <<UpperDigit(0)>> ELSE <<>>) \o ToHexString(g) = LowPair(g)
    BY PaddedHex, Zenon
  <2>3. part(g) = LowPair(g) \o <<Space>>
    BY <2>1, <2>2, Zenon
  <2>. QED BY <2>3, LowPairType, Zenon
<1>3. DOMAIN b = 1 .. Len(b) /\ Len(Ints(b)) = Len(b)
  BY LenProperties, IntsType, Zenon
<1>4. [k \in DOMAIN b |-> part(getInt(b[k]))] = LowTriples(Ints(b))
  <2>1. LowTriples(Ints(b)) = [k \in 1 .. Len(b) |-> LowTriple(getInt(b[k]))]
    BY <1>3, Zenon DEF LowTriples, Ints
  <2>. QED BY <1>1, <1>2, <1>3, <2>1, Zenon
<1>5. byte2HexStr(b) = Trim(ToUpperCase(Join([k \in DOMAIN b |-> part(getInt(b[k]))])))
  BY Zenon DEF byte2HexStr
<1> HIDE DEF part
<1>. QED
  BY <1>4, <1>5, IntsType, UpperTriples, Zenon

\* One less than an even number is odd.
LEMMA OddBelowEven ==
  \A n, m \in Nat : 2 * n = 1 + m => m % 2 # 0 /\ (2 * n) % 2 = 0
<1> SUFFICES ASSUME NEW n \in Nat, NEW m \in Nat, 2 * n = 1 + m
             PROVE  m % 2 # 0 /\ (2 * n) % 2 = 0
  OBVIOUS
<1>1. (2 * n) % 2 = 0
  OBVIOUS
<1>2. PICK h \in Int : h = m \div 2
  OBVIOUS
<1>3. m % 2 # 0
  BY <1>2
<1>. QED
  BY <1>1, <1>3

\* The bytes are read back from it, with and without separators, and with a
\* zero in front left out.
LEMMA HexBack ==
  ASSUME NEW b \in Seq(-128 .. 127), NEW hex, hex = byte2HexStr(b)
  PROVE  /\ hexStr2Bytes(hex) = b
         /\ hexStr2Bytes(NoSpaces(hex)) = b
         /\ hex # <<>> /\ Head(hex) = UpperDigit(0) => hexStr2Bytes(Tail(hex)) = b
<1>1. PICK v \in Seq(0 .. 255) : v = Ints(b)
  BY IntsType, Zenon
<1>2. PICK n \in Nat : n = Len(v)
  BY LenProperties, Zenon
<1>3. hex = Trim(Join(Triples(v)))
  BY <1>1, ByteText, Zenon
<1>4. PICK h \in Seq(Int) : h = hex
  BY <1>3, HexText, Zenon
<1>5. NoSpaces(h) = Join(Pairs(v))
  BY <1>3, <1>4, HexText, Zenon
<1>6. PICK q \in Seq(Int) : q = Join(Pairs(v))
  BY PairsJoined, Zenon
<1>7. Len(q) = 2 * n /\ \A k \in 1 .. n : /\ q[2 * k - 1] = UpperDigit(v[k] \div 16)
                                          /\ q[2 * k] = UpperDigit(v[k] % 16)
  BY <1>2, <1>6, PairsJoined, Zenon
<1>8. \A k \in 1 .. n : v[k] \in 0 .. 255
  BY <1>2, ElementOfSeq, Zenon
<1>9. \A i \in 1 .. Len(q) : q[i] # Space
  <2>1. \A i \in 1 .. 2 * n : \E k \in 1 .. n : i = 2 * k - 1 \/ i = 2 * k
    BY EverySecond, Zenon
  <2>2. \A k \in 1 .. n : UpperDigit(v[k] \div 16) # Space /\ UpperDigit(v[k] % 16) # Space
    BY <1>8, Halves, DigitFacts, Zenon
  <2>3. ASSUME NEW i \in 1 .. 2 * n PROVE q[i] # Space
    <3>1. PICK k \in 1 .. n : i = 2 * k - 1 \/ i = 2 * k
      BY <2>1, Zenon
    <3>2. q[2 * k - 1] # Space /\ q[2 * k] # Space
      BY <1>7, <2>2, Zenon
    <3>. QED BY <3>1, <3>2, Zenon
  <2>. QED BY <1>7, <2>3, Zenon
<1>10. NoSpaces(q) = q
  BY <1>9, NoSpacesNone, Zenon
<1>11. [i \in 1 .. n |-> ToByte(v[i])] = b
  <2>1. Len(b) = n
    BY <1>1, <1>2, IntsType, Zenon
  <2>2. \A i \in 1 .. n : b[i] \in -128 .. 127 /\ v[i] = getInt(b[i])
    BY <2>1, <1>1, ElementOfSeq, Zenon DEF Ints
  <2>3. \A i \in 1 .. n : ToByte(v[i]) = b[i]
    BY <2>2, ByteOfInt, Zenon
  <2>4. b = [i \in 1 .. n |-> b[i]]
    <3>1. b = [i \in 1 .. Len(b) |-> b[i]]
      OBVIOUS
    <3>. QED BY <2>1, <3>1, Zenon
  <2>. QED BY <2>3, <2>4, Zenon
<1>12. hexStr2Bytes(h) = b
  BY <1>2, <1>5, <1>11, BytesOfPairs, Zenon
<1>13. hexStr2Bytes(q) = b
  BY <1>2, <1>6, <1>10, <1>11, BytesOfPairs, Zenon
<1>14. ASSUME h # <<>>, Head(h) = UpperDigit(0) PROVE hexStr2Bytes(Tail(h)) = b
  <2>1. PICK t \in Seq(Int) : t = Tail(h)
    BY <1>14, HeadTailProperties, Zenon
  <2>2. PICK c \in Int : c = UpperDigit(0)
    BY DEF UpperDigit
  <2>3. PICK d \in Seq(Int) : d = <<c>>
    <3>1. <<c>> \in Seq(Int)
      OBVIOUS
    <3>. QED BY <3>1, Zenon
  <2>4. h = d \o t
    <3>1. h = <<Head(h)>> \o Tail(h)
      BY <1>14
    <3>. QED BY <1>14, <2>1, <2>2, <2>3, <3>1, Zenon
  <2>5. NoSpaces(d) = d
    <3>1. c # Space
      BY <2>2 DEF UpperDigit, Space
    <3>2. \A i \in 1 .. Len(d) : d[i] = c
      BY <2>3
    <3>. QED BY <3>1, <3>2, NoSpacesNone, Zenon
  <2>6. PICK r \in Seq(Int) : r = NoSpaces(t)
    BY NoSpacesConcat, Zenon
  <2>7. q = d \o r
    <3>1. NoSpaces(d \o t) = NoSpaces(d) \o NoSpaces(t)
      BY NoSpacesConcat, Zenon
    <3>. QED BY <1>5, <1>6, <2>4, <2>5, <2>6, <3>1, Zenon
  <2>8. Len(q) = 1 + Len(r) /\ Len(r) \in Nat
    <3>1. Len(d) = 1
      BY <2>3
    <3>2. Len(q) = Len(d) + Len(r)
      BY <2>7, ConcatProperties, ZenonT(40)
    <3>. QED BY <3>1, <3>2
  <2>9. Len(r) % 2 # 0 /\ Len(q) % 2 = 0
    <3>1. Len(q) = 2 * n
      BY <1>7
    <3>2. PICK m \in Nat : m = Len(r)
      BY <2>8
    <3>3. 2 * n = 1 + m
      BY <2>8, <3>1, <3>2
    <3>4. m % 2 # 0 /\ (2 * n) % 2 = 0
      BY <3>3, OddBelowEven, Zenon
    <3>. QED BY <3>1, <3>2, <3>4, Zenon
  <2>10. hexStr2Bytes(t) =
           [i \in 1 .. Len(q) \div 2 |-> ToByte(ParseHex(SubSeq(q, 2 * i - 1, 2 * i)))]
    BY <2>2, <2>3, <2>6, <2>7, <2>9, Zenon DEF hexStr2Bytes
  <2>11. hexStr2Bytes(q) =
           [i \in 1 .. Len(q) \div 2 |-> ToByte(ParseHex(SubSeq(q, 2 * i - 1, 2 * i)))]
    BY <1>10, <2>9, Zenon DEF hexStr2Bytes
  <2>. QED BY <1>13, <2>1, <2>10, <2>11, Zenon
<1>. QED
  BY <1>4, <1>5, <1>6, <1>12, <1>13, <1>14, Zenon

-----------------------------------------------------------------------------
(* hexString2binaryString.                                                 *)

\* The powers of two that bits are shifted by.
LEMMA Powers ==
  /\ 2 ^ 0 = 1 /\ 2 ^ 1 = 2 /\ 2 ^ 2 = 4 /\ 2 ^ 3 = 8
  /\ 2 ^ 4 = 16 /\ 2 ^ 5 = 32 /\ 2 ^ 6 = 64 /\ 2 ^ 7 = 128
OBVIOUS

\* They are positive.
LEMMA PowerType == \A i \in 0 .. 7 : 2 ^ i \in Int /\ 2 ^ i > 0
<1> SUFFICES ASSUME NEW i \in 0 .. 7 PROVE 2 ^ i \in Int /\ 2 ^ i > 0
  OBVIOUS
<1>0. CASE i = 0
  BY <1>0, Powers
<1>1. CASE i = 1
  BY <1>1, Powers
<1>2. CASE i = 2
  BY <1>2, Powers
<1>3. CASE i = 3
  BY <1>3, Powers
<1>4. CASE i = 4
  BY <1>4, Powers
<1>5. CASE i = 5
  BY <1>5, Powers
<1>6. CASE i = 6
  BY <1>6, Powers
<1>7. CASE i = 7
  BY <1>7, Powers
<1>. QED
  BY <1>0, <1>1, <1>2, <1>3, <1>4, <1>5, <1>6, <1>7

\* The bits of a byte are those of its halves.
LEMMA BitsOfHalves ==
  ASSUME NEW h \in 0 .. 15, NEW l \in 0 .. 15, NEW g \in 0 .. 255, g = 16 * h + l
  PROVE  /\ (h \div 8) % 2 = (g \div 128) % 2 /\ (h \div 4) % 2 = (g \div 64) % 2
         /\ (h \div 2) % 2 = (g \div 32) % 2 /\ (h \div 1) % 2 = (g \div 16) % 2
         /\ (l \div 8) % 2 = (g \div 8) % 2 /\ (l \div 4) % 2 = (g \div 4) % 2
         /\ (l \div 2) % 2 = (g \div 2) % 2 /\ (l \div 1) % 2 = (g \div 1) % 2
<1>1. (h \div 8) % 2 = (g \div 128) % 2
  OBVIOUS
<1>2. (h \div 4) % 2 = (g \div 64) % 2
  OBVIOUS
<1>3. (h \div 2) % 2 = (g \div 32) % 2
  OBVIOUS
<1>4. (h \div 1) % 2 = (g \div 16) % 2
  OBVIOUS
<1>5. (l \div 8) % 2 = (g \div 8) % 2
  OBVIOUS
<1>6. (l \div 4) % 2 = (g \div 4) % 2
  OBVIOUS
<1>7. (l \div 2) % 2 = (g \div 2) % 2
  OBVIOUS
<1>8. (l \div 1) % 2 = (g \div 1) % 2
  OBVIOUS
<1>. QED
  BY <1>1, <1>2, <1>3, <1>4, <1>5, <1>6, <1>7, <1>8, Zenon

\* The binary digits of the halves are the bits, highest first.
LEMMA BinaryOfHalves ==
  ASSUME NEW b \in -128 .. 127
  PROVE  \A j \in 1 .. 4 :
           /\ BinaryDigits(getInt(b) \div 16)[j] = getBit(b, 8 - j)
           /\ BinaryDigits(getInt(b) % 16)[j] = getBit(b, 8 - (4 + j))
<1>1. PICK g \in 0 .. 255 : g = getInt(b)
  BY ByteOfInt, Zenon
<1>2. PICK h \in 0 .. 15 : h = g \div 16
  BY Halves, Zenon
<1>3. PICK l \in 0 .. 15 : l = g % 16
  BY Halves, Zenon
<1>4. g = 16 * h + l
  BY <1>2, <1>3, Halves, Zenon
<1>5. \A j \in 1 .. 4 : j = 1 \/ j = 2 \/ j = 3 \/ j = 4
  OBVIOUS
<1>6. /\ 8 - 1 = 7 /\ 8 - 2 = 6 /\ 8 - 3 = 5 /\ 8 - 4 = 4
      /\ 8 - (4 + 1) = 3 /\ 8 - (4 + 2) = 2 /\ 8 - (4 + 3) = 1 /\ 8 - (4 + 4) = 0
      /\ 4 - 1 = 3 /\ 4 - 2 = 2 /\ 4 - 3 = 1 /\ 4 - 4 = 0
      /\ 1 \in 1 .. 4 /\ 2 \in 1 .. 4 /\ 3 \in 1 .. 4 /\ 4 \in 1 .. 4
  OBVIOUS
<1>7. \A x : /\ BinaryDigits(x)[1] = (x \div 8) % 2 /\ BinaryDigits(x)[2] = (x \div 4) % 2
             /\ BinaryDigits(x)[3] = (x \div 2) % 2 /\ BinaryDigits(x)[4] = (x \div 1) % 2
  BY <1>6, Powers, Zenon DEF BinaryDigits
<1>7a. /\ BinaryDigits(h)[1] = (h \div 8) % 2 /\ BinaryDigits(h)[2] = (h \div 4) % 2
       /\ BinaryDigits(h)[3] = (h \div 2) % 2 /\ BinaryDigits(h)[4] = (h \div 1) % 2
  BY <1>7, Zenon
<1>7b. /\ BinaryDigits(l)[1] = (l \div 8) % 2 /\ BinaryDigits(l)[2] = (l \div 4) % 2
       /\ BinaryDigits(l)[3] = (l \div 2) % 2 /\ BinaryDigits(l)[4] = (l \div 1) % 2
  BY <1>7, Zenon
<1>8. /\ getBit(b, 7) = (g \div 128) % 2 /\ getBit(b, 6) = (g \div 64) % 2
      /\ getBit(b, 5) = (g \div 32) % 2 /\ getBit(b, 4) = (g \div 16) % 2
      /\ getBit(b, 3) = (g \div 8) % 2 /\ getBit(b, 2) = (g \div 4) % 2
      /\ getBit(b, 1) = (g \div 2) % 2 /\ getBit(b, 0) = (g \div 1) % 2
  BY <1>1, Powers, Zenon DEF getBit
<1>8a. /\ (h \div 8) % 2 = (g \div 128) % 2 /\ (h \div 4) % 2 = (g \div 64) % 2
       /\ (h \div 2) % 2 = (g \div 32) % 2 /\ (h \div 1) % 2 = (g \div 16) % 2
       /\ (l \div 8) % 2 = (g \div 8) % 2 /\ (l \div 4) % 2 = (g \div 4) % 2
       /\ (l \div 2) % 2 = (g \div 2) % 2 /\ (l \div 1) % 2 = (g \div 1) % 2
  BY <1>4, BitsOfHalves, SMTT(30)
<1>9. ASSUME NEW j \in 1 .. 4
      PROVE  BinaryDigits(h)[j] = getBit(b, 8 - j) /\ BinaryDigits(l)[j] = getBit(b, 8 - (4 + j))
  <2>1. CASE j = 1
    <3>0. BinaryDigits(h)[1] = getBit(b, 7)
      BY <1>7a, <1>8, <1>8a, ZenonT(40)
    <3>1. BinaryDigits(l)[1] = getBit(b, 3)
      BY <1>7b, <1>8, <1>8a, Zenon
    <3>. QED BY <2>1, <3>0, <3>1
  <2>2. CASE j = 2
    <3>0. BinaryDigits(h)[2] = getBit(b, 6)
      BY <1>7a, <1>8, <1>8a, Zenon
    <3>1. BinaryDigits(l)[2] = getBit(b, 2)
      BY <1>7b, <1>8, <1>8a, Zenon
    <3>. QED BY <2>2, <3>0, <3>1
  <2>3. CASE j = 3
    <3>0. BinaryDigits(h)[3] = getBit(b, 5)
      BY <1>7a, <1>8, <1>8a, Zenon
    <3>1. BinaryDigits(l)[3] = getBit(b, 1)
      BY <1>7b, <1>8, <1>8a, Zenon
    <3>. QED BY <2>3, <3>0, <3>1
  <2>4. CASE j = 4
    <3>0. BinaryDigits(h)[4] = getBit(b, 4)
      BY <1>7a, <1>8, <1>8a, Zenon
    <3>1. BinaryDigits(l)[4] = getBit(b, 0)
      BY <1>7b, <1>8, <1>8a, Zenon
    <3>. QED BY <2>4, <3>0, <3>1
  <2>. QED BY <1>5, <2>1, <2>2, <2>3, <2>4, Zenon
<1>. QED
  BY <1>1, <1>2, <1>3, <1>9, Zenon

\* A bit is 0 or 1, and the binary digits of a digit are four.
LEMMA BitType ==
  /\ \A b \in -128 .. 127, i \in 0 .. 7 : getBit(b, i) \in 0 .. 1
  /\ \A d \in 0 .. 15 : BinaryDigits(d) \in Seq(Int) /\ Len(BinaryDigits(d)) = 4
<1>1. ASSUME NEW b \in -128 .. 127, NEW i \in 0 .. 7 PROVE getBit(b, i) \in 0 .. 1
  <2>1. PICK g \in 0 .. 255 : g = getInt(b)
    BY ByteOfInt, Zenon
  <2>2. PICK w \in Int : w = 2 ^ i /\ w > 0
    BY PowerType, Zenon
  <2>3. PICK x \in Int : x = g \div w
    BY <2>2
  <2>4. x % 2 \in 0 .. 1
    OBVIOUS
  <2>. QED BY <2>1, <2>2, <2>3, <2>4, Zenon DEF getBit
<1>2. ASSUME NEW d \in 0 .. 15 PROVE BinaryDigits(d) \in Seq(Int) /\ Len(BinaryDigits(d)) = 4
  <2>1. ASSUME NEW j \in 1 .. 4 PROVE (d \div 2 ^ (4 - j)) % 2 \in Int
    <3>1. PICK w \in Int : w = 2 ^ (4 - j) /\ w > 0
      <4>1. 4 - j \in 0 .. 7
        OBVIOUS
      <4>. QED BY <4>1, PowerType, Zenon
    <3>2. PICK x \in Int : x = d \div w
      BY <3>1
    <3>3. x % 2 \in Int
      OBVIOUS
    <3>. QED BY <3>1, <3>2, <3>3, Zenon
  <2> DEFINE bits == [j \in 1 .. 4 |-> (d \div 2 ^ (4 - j)) % 2]
  <2>2. bits \in [1 .. 4 -> Int]
    BY <2>1, Zenon
  <2>3. BinaryDigits(d) = bits
    BY Zenon DEF BinaryDigits
  <2> HIDE DEF bits
  <2>4. bits \in Seq(Int) /\ Len(bits) = 4
    <3>1. bits = [j \in 1 .. 4 |-> bits[j]] /\ \A j \in 1 .. 4 : bits[j] \in Int
      BY <2>2, Zenon
    <3>. QED BY <3>1
  <2>. QED BY <2>3, <2>4, Zenon
<1>. QED
  BY <1>1, <1>2, Zenon

Nibbles(q) == [i \in 1 .. Len(q) |-> BinaryDigits(Digit(q[i]))]
Bits(b) == [j \in 1 .. 8 |-> getBit(b, 8 - j)]
Octets(b) == [k \in 1 .. Len(b) |-> Bits(b[k])]

\* The eight bits of a byte.
LEMMA BitsType ==
  ASSUME NEW b \in -128 .. 127
  PROVE  Bits(b) \in Seq(Int) /\ Len(Bits(b)) = 8
<1>1. \A j \in 1 .. 8 : 8 - j \in 0 .. 7
  OBVIOUS
<1>2. \A x \in 0 .. 1 : x \in Int
  OBVIOUS
<1>3. \A j \in 1 .. 8 : getBit(b, 8 - j) \in Int
  BY <1>1, <1>2, BitType, Zenon
<1>4. PICK f \in [1 .. 8 -> Int] : f = Bits(b)
  BY <1>3, Zenon DEF Bits
<1>5. f \in Seq(Int) /\ Len(f) = 8
  <2>1. f = [j \in 1 .. 8 |-> f[j]] /\ \A j \in 1 .. 8 : f[j] \in Int
    BY Zenon
  <2>. QED BY <2>1
<1>. QED
  BY <1>4, <1>5, Zenon

\* Where the elements are when every byte has eight.
LEMMA EveryEighth ==
  \A n \in Nat : \A p \in 1 .. 8 * n : \E k \in 1 .. n, j \in 1 .. 4 :
    p = 8 * (k - 1) + j \/ p = 8 * (k - 1) + (4 + j)
<1> SUFFICES ASSUME NEW n \in Nat, NEW p \in 1 .. 8 * n
             PROVE  \E k \in 1 .. n, j \in 1 .. 4 :
                      p = 8 * (k - 1) + j \/ p = 8 * (k - 1) + (4 + j)
  OBVIOUS
<1>1. PICK h \in Int : h = (p + 7) \div 8
  OBVIOUS
<1>2. h \in 1 .. n /\ p - 8 * (h - 1) \in 1 .. 8
  BY <1>1
<1>3. PICK r \in 1 .. 8 : r = p - 8 * (h - 1)
  BY <1>2
<1>4. CASE r <= 4
  <2>1. r \in 1 .. 4 /\ p = 8 * (h - 1) + r
    BY <1>3, <1>4, <1>2
  <2>. QED BY <1>2, <2>1
<1>5. CASE r > 4
  <2>1. r - 4 \in 1 .. 4 /\ p = 8 * (h - 1) + (4 + (r - 4))
    BY <1>3, <1>5, <1>2
  <2>. QED BY <1>2, <2>1
<1>. QED
  BY <1>4, <1>5

\* The binary text of the digits shows the bits of the bytes.
LEMMA BinaryText ==
  ASSUME NEW b \in Seq(-128 .. 127)
  PROVE  hexString2binaryString(Join(Pairs(Ints(b)))) = Join(Octets(b))
<1>1. PICK v \in Seq(0 .. 255) : v = Ints(b)
  BY IntsType, Zenon
<1>2. PICK n \in Nat : n = Len(v)
  BY LenProperties, Zenon
<1>3. Len(b) = n
  BY <1>1, <1>2, IntsType, Zenon
<1>4. PICK q \in Seq(Int) : q = Join(Pairs(v))
  BY PairsJoined, Zenon
<1>5. Len(q) = 2 * n /\ \A k \in 1 .. n : /\ q[2 * k - 1] = UpperDigit(v[k] \div 16)
                                          /\ q[2 * k] = UpperDigit(v[k] % 16)
  BY <1>2, <1>4, PairsJoined, Zenon
<1>6. \A k \in 1 .. n : b[k] \in -128 .. 127 /\ v[k] = getInt(b[k]) /\ v[k] \in 0 .. 255
  <2>1. \A k \in 1 .. n : b[k] \in -128 .. 127
    BY <1>3, ElementOfSeq, Zenon
  <2>2. \A k \in 1 .. n : v[k] = getInt(b[k])
    BY <1>1, <1>3, Zenon DEF Ints
  <2>3. \A k \in 1 .. n : v[k] \in 0 .. 255
    BY <1>2, ElementOfSeq, Zenon
  <2>. QED BY <2>1, <2>2, <2>3
<1>6a. \A k \in 1 .. n : b[k] \in -128 .. 127
  BY <1>3, ElementOfSeq, Zenon
<1>7. \A k \in 1 .. n : /\ Digit(q[2 * k - 1]) = getInt(b[k]) \div 16
                        /\ Digit(q[2 * k]) = getInt(b[k]) % 16
  BY <1>5, <1>6, Halves, DigitFacts, Zenon
<1>8. \A i \in 1 .. 2 * n : Digit(q[i]) \in 0 .. 15
  <2> SUFFICES ASSUME NEW i \in 1 .. 2 * n PROVE Digit(q[i]) \in 0 .. 15
    OBVIOUS
  <2>1. PICK k \in 1 .. n : i = 2 * k - 1 \/ i = 2 * k
    BY EverySecond, Zenon
  <2>2. PICK g \in 0 .. 255 : g = getInt(b[k])
    BY <1>6, Zenon
  <2>3. g \div 16 \in 0 .. 15 /\ g % 16 \in 0 .. 15
    BY Halves, Zenon
  <2>4. Digit(q[2 * k - 1]) \in 0 .. 15 /\ Digit(q[2 * k]) \in 0 .. 15
    BY <1>7, <2>2, <2>3, Zenon
  <2>. QED BY <2>1, <2>4, Zenon
<1>9. PICK x \in Seq(Seq(Int)) : x = Nibbles(q) /\ Len(x) = 2 * n /\ AllOfLength(x, 4)
  <2>1. \A i \in 1 .. 2 * n : /\ BinaryDigits(Digit(q[i])) \in Seq(Int)
                              /\ Len(BinaryDigits(Digit(q[i]))) = 4
    BY <1>8, BitType, Zenon
  <2>2. Nibbles(q) = [i \in 1 .. 2 * n |-> BinaryDigits(Digit(q[i]))]
    BY <1>5, Zenon DEF Nibbles
  <2>3. PICK m \in Nat : m = 2 * n
    OBVIOUS
  <2>4. Nibbles(q) \in Seq(Seq(Int)) /\ Len(Nibbles(q)) = 2 * n
    <3>1. /\ \A i \in 1 .. m : BinaryDigits(Digit(q[i])) \in Seq(Int)
          /\ Nibbles(q) = [i \in 1 .. m |-> BinaryDigits(Digit(q[i]))]
      BY <2>1, <2>2, <2>3, Zenon
    <3>2. Nibbles(q) \in Seq(Seq(Int)) /\ Len(Nibbles(q)) = m
      BY <3>1
    <3>. QED BY <2>3, <3>2, Zenon
  <2>5. \A i \in 1 .. 2 * n : Len(Nibbles(q)[i]) = 4
    BY <2>1, <2>2, Zenon
  <2>. QED BY <2>4, <2>5, Zenon DEF AllOfLength
<1>10. PICK y \in Seq(Seq(Int)) : y = Octets(b) /\ Len(y) = n /\ AllOfLength(y, 8)
  <2>1. \A k \in 1 .. n : Bits(b[k]) \in Seq(Int) /\ Len(Bits(b[k])) = 8
    BY <1>6a, BitsType, Zenon
  <2>2. Octets(b) = [k \in 1 .. n |-> Bits(b[k])]
    BY <1>3, Zenon DEF Octets
  <2>3. Octets(b) \in Seq(Seq(Int)) /\ Len(Octets(b)) = n
    BY <2>1, <2>2
  <2>4. \A i \in 1 .. n : Len(Octets(b)[i]) = 8
    BY <2>1, <2>2, Zenon
  <2>. QED BY <2>3, <2>4, Zenon DEF AllOfLength
<1>11. PICK A \in Seq(Int) : A = Join(x) /\ LaidOut(A, x, 4)
  BY <1>9, 4 \in Nat, JoinFixed, Zenon
<1>12. PICK B \in Seq(Int) : B = Join(y) /\ LaidOut(B, y, 8)
  BY <1>10, 8 \in Nat, JoinFixed, Zenon
<1>13. Len(A) = 8 * n /\ Len(B) = 8 * n
  <2>1. Len(A) = 4 * (2 * n) /\ Len(B) = 8 * n
    BY <1>9, <1>10, <1>11, <1>12, Zenon DEF LaidOut
  <2>. QED BY <2>1
<1>14. ASSUME NEW k \in 1 .. n, NEW j \in 1 .. 4
       PROVE  /\ A[8 * (k - 1) + j] = B[8 * (k - 1) + j]
              /\ A[8 * (k - 1) + (4 + j)] = B[8 * (k - 1) + (4 + j)]
  <2>1. /\ 2 * k - 1 \in 1 .. 2 * n /\ 2 * k \in 1 .. 2 * n
        /\ j \in 1 .. 8 /\ 4 + j \in 1 .. 8
        /\ 8 * (k - 1) + j = 4 * ((2 * k - 1) - 1) + j
        /\ 8 * (k - 1) + (4 + j) = 4 * (2 * k - 1) + j
    OBVIOUS
  <2>2. /\ A[4 * ((2 * k - 1) - 1) + j] = x[2 * k - 1][j]
        /\ A[4 * (2 * k - 1) + j] = x[2 * k][j]
    <3>1. \A i \in 1 .. 2 * n : A[4 * (i - 1) + j] = x[i][j]
      BY <1>9, <1>11, Zenon DEF LaidOut
    <3>. QED BY <2>1, <3>1, Zenon
  <2>3. x[2 * k - 1] = BinaryDigits(Digit(q[2 * k - 1])) /\ x[2 * k] = BinaryDigits(Digit(q[2 * k]))
    BY <1>5, <1>9, <2>1, Zenon DEF Nibbles
  <2>4. x[2 * k - 1][j] = getBit(b[k], 8 - j) /\ x[2 * k][j] = getBit(b[k], 8 - (4 + j))
    <3>1. /\ BinaryDigits(getInt(b[k]) \div 16)[j] = getBit(b[k], 8 - j)
          /\ BinaryDigits(getInt(b[k]) % 16)[j] = getBit(b[k], 8 - (4 + j))
      BY <1>6a, BinaryOfHalves, Zenon
    <3>. QED BY <1>7, <2>3, <3>1, Zenon
  <2>5. /\ B[8 * (k - 1) + j] = y[k][j] /\ B[8 * (k - 1) + (4 + j)] = y[k][4 + j]
    BY <1>10, <1>12, <2>1, Zenon DEF LaidOut
  <2>6. y[k][j] = getBit(b[k], 8 - j) /\ y[k][4 + j] = getBit(b[k], 8 - (4 + j))
    BY <1>3, <1>10, <2>1, Zenon DEF Octets, Bits
  <2>. QED BY <2>1, <2>2, <2>4, <2>5, <2>6, Zenon
<1>15. A = B
  <2>1. ASSUME NEW i \in 1 .. 8 * n PROVE A[i] = B[i]
    <3>1. PICK k \in 1 .. n, j \in 1 .. 4 : i = 8 * (k - 1) + j \/ i = 8 * (k - 1) + (4 + j)
      BY EveryEighth, Zenon
    <3>. QED BY <1>14, <3>1, Zenon
  <2>2. Len(A) = Len(B) /\ \A i \in 1 .. Len(A) : A[i] = B[i]
    BY <1>13, <2>1, Zenon
  <2>. QED BY <2>2, SeqEqual, Zenon
<1>16. hexString2binaryString(q) = Join(Nibbles(q))
  <2>1. ~(Len(q) % 2 # 0)
    BY <1>5
  <2>2. DOMAIN q = 1 .. Len(q)
    OBVIOUS
  <2>. QED BY <2>1, <2>2, Zenon DEF hexString2binaryString, Nibbles
<1>. QED
  BY <1>1, <1>4, <1>9, <1>10, <1>11, <1>12, <1>15, <1>16, Zenon

-----------------------------------------------------------------------------
(* HexRoundTrip.                                                           *)

\* The property of every array of bytes.
LEMMA HexRoundTripOf ==
  ASSUME bytes \in Seq(-128 .. 127)
  PROVE  HexRoundTrip
<1>1. hexString2binaryString(NoSpaces(byte2HexStr(bytes))) = Join(Octets(bytes))
  <2>1. NoSpaces(byte2HexStr(bytes)) = Join(Pairs(Ints(bytes)))
    BY ByteText, IntsType, HexText, Zenon
  <2>. QED BY <2>1, BinaryText, Zenon
<1>2. Octets(bytes) = [k \in DOMAIN bytes |-> [j \in 1 .. 8 |-> getBit(bytes[k], 8 - j)]]
  <2>1. DOMAIN bytes = 1 .. Len(bytes)
    BY LenProperties, Zenon
  <2>. QED BY <2>1, Zenon DEF Octets, Bits
<1>3. \A hex : hex = byte2HexStr(bytes) =>
        /\ hexStr2Bytes(hex) = bytes
        /\ hexStr2Bytes(NoSpaces(hex)) = bytes
        /\ hex # <<>> /\ Head(hex) = UpperDigit(0) => hexStr2Bytes(Tail(hex)) = bytes
  BY HexBack, Zenon
<1>. QED
  BY <1>1, <1>2, <1>3, Zenon DEF HexRoundTrip

-----------------------------------------------------------------------------
(* The exclusive or.                                                       *)

\* getInt undoes the cast to byte.
LEMMA IntOfByte ==
  ASSUME NEW g \in 0 .. 255
  PROVE  ToByte(g) \in -128 .. 127 /\ getInt(ToByte(g)) = g
<1>1. PICK x \in -128 .. 127 : x = ToByte(g)
  BY DEF ToByte
<1>2. x % 256 = g
  BY <1>1 DEF ToByte
<1>. QED
  BY <1>1, <1>2, Zenon DEF getInt

SumOfBits(g, a0, a1, a2, a3, a4, a5, a6, a7) ==
  g = 1 * a0 + 2 * a1 + 4 * a2 + 8 * a3 + 16 * a4 + 32 * a5 + 64 * a6 + 128 * a7
HasBits(g, a0, a1, a2, a3, a4, a5, a6, a7) ==
  /\ (g \div 1) % 2 = a0 /\ (g \div 2) % 2 = a1 /\ (g \div 4) % 2 = a2
  /\ (g \div 8) % 2 = a3 /\ (g \div 16) % 2 = a4 /\ (g \div 32) % 2 = a5
  /\ (g \div 64) % 2 = a6 /\ (g \div 128) % 2 = a7

\* A number of eight bits has these bits.
LEMMA BitsOfSum ==
  ASSUME NEW a0 \in 0 .. 1, NEW a1 \in 0 .. 1, NEW a2 \in 0 .. 1, NEW a3 \in 0 .. 1,
         NEW a4 \in 0 .. 1, NEW a5 \in 0 .. 1, NEW a6 \in 0 .. 1, NEW a7 \in 0 .. 1,
         NEW g, SumOfBits(g, a0, a1, a2, a3, a4, a5, a6, a7)
  PROVE  g \in 0 .. 255 /\ HasBits(g, a0, a1, a2, a3, a4, a5, a6, a7)
<1>0. PICK x \in 0 .. 255 : x = g
  BY DEF SumOfBits
<1>1. x = a0 + 2 * a1 + 4 * a2 + 8 * a3 + 16 * a4 + 32 * a5 + 64 * a6 + 128 * a7
  BY <1>0 DEF SumOfBits
<1>2. (x \div 1) % 2 = a0
  BY <1>1
<1>3. (x \div 2) % 2 = a1
  BY <1>1
<1>4. (x \div 4) % 2 = a2
  BY <1>1
<1>5. (x \div 8) % 2 = a3
  BY <1>1
<1>6. (x \div 16) % 2 = a4
  BY <1>1
<1>7. (x \div 32) % 2 = a5
  BY <1>1
<1>8. (x \div 64) % 2 = a6
  BY <1>1
<1>9. (x \div 128) % 2 = a7
  BY <1>1
<1>. QED
  BY <1>0, <1>2, <1>3, <1>4, <1>5, <1>6, <1>7, <1>8, <1>9, Zenon DEF HasBits

\* A bit of the exclusive or is the sum of the bits, modulo 2.
LEMMA XorBits ==
  ASSUME NEW a \in -128 .. 127, NEW b \in -128 .. 127
  PROVE  /\ Xor(a, b) \in 0 .. 255
         /\ \A i \in 0 .. 7 : getBit(ToByte(Xor(a, b)), i) = (getBit(a, i) + getBit(b, i)) % 2
<1> DEFINE x(i) == (getBit(a, i) + getBit(b, i)) % 2
<1>1. ASSUME NEW i \in 0 .. 7 PROVE x(i) \in 0 .. 1
  <2>1. PICK y \in 0 .. 1 : y = getBit(a, i)
    BY BitType, Zenon
  <2>2. PICK z \in 0 .. 1 : z = getBit(b, i)
    BY BitType, Zenon
  <2>3. (y + z) % 2 \in 0 .. 1
    OBVIOUS
  <2>. QED BY <2>1, <2>2, <2>3, Zenon
<1>2. /\ 0 \in 0 .. 7 /\ 1 \in 0 .. 7 /\ 2 \in 0 .. 7 /\ 3 \in 0 .. 7
      /\ 4 \in 0 .. 7 /\ 5 \in 0 .. 7 /\ 6 \in 0 .. 7 /\ 7 \in 0 .. 7
      /\ \A i \in 0 .. 7 : i = 0 \/ i = 1 \/ i = 2 \/ i = 3 \/ i = 4 \/ i = 5 \/ i = 6 \/ i = 7
  OBVIOUS
<1>3. Xor(a, b) = 1 * x(0) + 2 * x(1) + 4 * x(2) + 8 * x(3) + 16 * x(4) + 32 * x(5)
                    + 64 * x(6) + 128 * x(7)
  BY Powers, Zenon DEF Xor
<1> HIDE DEF x
<1>4. PICK a0 \in 0 .. 1 : a0 = x(0)
  BY <1>1, <1>2, Zenon
<1>5. PICK a1 \in 0 .. 1 : a1 = x(1)
  BY <1>1, <1>2, Zenon
<1>6. PICK a2 \in 0 .. 1 : a2 = x(2)
  BY <1>1, <1>2, Zenon
<1>7. PICK a3 \in 0 .. 1 : a3 = x(3)
  BY <1>1, <1>2, Zenon
<1>8. PICK a4 \in 0 .. 1 : a4 = x(4)
  BY <1>1, <1>2, Zenon
<1>9. PICK a5 \in 0 .. 1 : a5 = x(5)
  BY <1>1, <1>2, Zenon
<1>10. PICK a6 \in 0 .. 1 : a6 = x(6)
  BY <1>1, <1>2, Zenon
<1>11. PICK a7 \in 0 .. 1 : a7 = x(7)
  BY <1>1, <1>2, Zenon
<1>12. SumOfBits(Xor(a, b), a0, a1, a2, a3, a4, a5, a6, a7)
  BY <1>3, <1>4, <1>5, <1>6, <1>7, <1>8, <1>9, <1>10, <1>11, Zenon DEF SumOfBits
<1>13. PICK g \in 0 .. 255 : g = Xor(a, b)
  BY <1>12, BitsOfSum, Zenon
<1>13a. HasBits(g, a0, a1, a2, a3, a4, a5, a6, a7)
  BY <1>12, <1>13, BitsOfSum, Zenon
<1>14. getInt(ToByte(g)) = g
  BY IntOfByte, Zenon
<1>15. /\ getBit(ToByte(g), 0) = a0 /\ getBit(ToByte(g), 1) = a1 /\ getBit(ToByte(g), 2) = a2
       /\ getBit(ToByte(g), 3) = a3 /\ getBit(ToByte(g), 4) = a4 /\ getBit(ToByte(g), 5) = a5
       /\ getBit(ToByte(g), 6) = a6 /\ getBit(ToByte(g), 7) = a7
  BY <1>13a, <1>14, Powers, Zenon DEF getBit, HasBits
<1>16. \A i \in 0 .. 7 : getBit(ToByte(g), i) = x(i)
  BY <1>2, <1>4, <1>5, <1>6, <1>7, <1>8, <1>9, <1>10, <1>11, <1>15, ZenonT(40)
<1>. QED
  BY <1>13, <1>16, Zenon DEF x

\* A byte is cancelled by itself.
LEMMA XorSelf ==
  ASSUME NEW a \in -128 .. 127
  PROVE  ToByte(Xor(a, a)) = 0
<1>1. ASSUME NEW i \in 0 .. 7 PROVE (getBit(a, i) + getBit(a, i)) % 2 = 0
  <2>1. PICK y \in 0 .. 1 : y = getBit(a, i)
    BY BitType, Zenon
  <2>2. (y + y) % 2 = 0
    OBVIOUS
  <2>. QED BY <2>1, <2>2, Zenon
<1>2. /\ 0 \in 0 .. 7 /\ 1 \in 0 .. 7 /\ 2 \in 0 .. 7 /\ 3 \in 0 .. 7
      /\ 4 \in 0 .. 7 /\ 5 \in 0 .. 7 /\ 6 \in 0 .. 7 /\ 7 \in 0 .. 7
  OBVIOUS
<1>3. Xor(a, a) = 1 * 0 + 2 * 0 + 4 * 0 + 8 * 0 + 16 * 0 + 32 * 0 + 64 * 0 + 128 * 0
  BY <1>1, <1>2, Powers, ZenonT(40) DEF Xor
<1>4. Xor(a, a) = 0
  BY <1>3
<1>. QED
  BY <1>4 DEF ToByte

-----------------------------------------------------------------------------
(* The loop of getCheckCode.                                               *)

\* The function that getCheckCode defines by recursion.
IsTemp(f, ret, n) ==
  f = [i \in 0 .. n |-> IF i <= 1 THEN ret[1] ELSE ToByte(Xor(f[i - 1], ret[i]))]

\* There is one.
LEMMA TempExists ==
  ASSUME NEW ret \in Seq(-128 .. 127), ret # <<>>
  PROVE  \A n \in Nat : n <= Len(ret) => \E f \in [0 .. n -> -128 .. 127] : IsTemp(f, ret, n)
<1> DEFINE S == {n \in Nat : n <= Len(ret) =>
                   \E f \in [0 .. n -> -128 .. 127] : IsTemp(f, ret, n)}
<1>0. /\ Len(ret) \in Nat /\ 1 \in 1 .. Len(ret)
      /\ \A i \in 1 .. Len(ret) : ret[i] \in -128 .. 127
  <2>1. Len(ret) \in Nat /\ Len(ret) # 0
    BY EmptySeq, LenProperties, Zenon
  <2>2. 1 \in 1 .. Len(ret)
    BY <2>1
  <2>. QED BY <2>1, <2>2, ElementOfSeq, Zenon
<1>1. 0 \in S
  <2> DEFINE f == [i \in 0 .. 0 |-> ret[1]]
  <2>1. ret[1] \in -128 .. 127 /\ \A i \in 0 .. 0 : i <= 1
    <3>1. \A i \in 0 .. 0 : i <= 1
      OBVIOUS
    <3>. QED BY <1>0, <3>1, Zenon
  <2>2. f \in [0 .. 0 -> -128 .. 127]
    BY <2>1, Zenon
  <2>3. f = [i \in 0 .. 0 |-> IF i <= 1 THEN ret[1] ELSE ToByte(Xor(f[i - 1], ret[i]))]
    BY <2>1, Zenon
  <2> HIDE DEF f
  <2>4. \E g \in [0 .. 0 -> -128 .. 127] : IsTemp(g, ret, 0)
    BY <2>2, <2>3, Zenon DEF IsTemp
  <2>. QED BY <2>4, 0 \in Nat, Zenon
<1>2. ASSUME NEW n \in Nat, n \in S PROVE n + 1 \in S
  <2>0. n + 1 \in Nat
    OBVIOUS
  <2> SUFFICES ASSUME n + 1 <= Len(ret)
               PROVE  \E f \in [0 .. n + 1 -> -128 .. 127] : IsTemp(f, ret, n + 1)
    BY <2>0, Zenon
  <2>1. /\ n <= Len(ret) /\ n + 1 \in 1 .. Len(ret)
        /\ \A i \in 0 .. n + 1 : i \in 0 .. n \/ i = n + 1
        /\ \A i \in 0 .. n : ~(i = n + 1) /\ (~(i <= 1) => i - 1 \in 0 .. n /\ ~(i - 1 = n + 1))
        /\ (n + 1) - 1 = n /\ n \in 0 .. n /\ ~(n = n + 1)
        /\ 0 .. n \subseteq 0 .. n + 1
    BY <1>0
  <2>2. PICK f \in [0 .. n -> -128 .. 127] : IsTemp(f, ret, n)
    BY <1>2, <2>1, Zenon
  <2>3. \A i \in 0 .. n : f[i] = IF i <= 1 THEN ret[1] ELSE ToByte(Xor(f[i - 1], ret[i]))
    BY <2>2, Zenon DEF IsTemp
  <2> DEFINE last == IF n + 1 <= 1 THEN ret[1] ELSE ToByte(Xor(f[n], ret[n + 1]))
             g == [i \in 0 .. n + 1 |-> IF i = n + 1 THEN last ELSE f[i]]
  <2>4. last \in -128 .. 127
    <3>1. f[n] \in -128 .. 127 /\ ret[n + 1] \in -128 .. 127 /\ ret[1] \in -128 .. 127
      BY <1>0, <2>1, <2>2, Zenon
    <3>2. Xor(f[n], ret[n + 1]) \in 0 .. 255
      BY <3>1, XorBits, Zenon
    <3>. QED BY <3>1, <3>2, IntOfByte, Zenon
  <2>5. g \in [0 .. n + 1 -> -128 .. 127]
    <3> HIDE DEF last
    <3>. QED BY <2>1, <2>2, <2>4, Zenon
  <2>6. ASSUME NEW i \in 0 .. n + 1
        PROVE  g[i] = IF i <= 1 THEN ret[1] ELSE ToByte(Xor(g[i - 1], ret[i]))
    <3>1. CASE i \in 0 .. n
      <4>1. g[i] = f[i]
        BY <2>1, <3>1, Zenon
      <4>2. ~(i <= 1) => g[i - 1] = f[i - 1]
        BY <2>1, <3>1, Zenon
      <4> HIDE DEF g
      <4>. QED BY <2>3, <3>1, <4>1, <4>2, Zenon
    <3>2. CASE i = n + 1
      <4>1. g[n + 1] = last /\ g[n] = f[n]
        <5> HIDE DEF last
        <5>. QED BY <2>1, <3>2, Zenon
      <4>2. g[n + 1] = IF n + 1 <= 1 THEN ret[1] ELSE ToByte(Xor(g[(n + 1) - 1], ret[n + 1]))
        <5> HIDE DEF g
        <5>. QED BY <2>1, <4>1, Zenon
      <4> HIDE DEF g
      <4>. QED BY <3>2, <4>2, Zenon
    <3>. QED BY <2>1, <3>1, <3>2, Zenon
  <2>7. IsTemp(g, ret, n + 1)
    <3>1. g = [i \in 0 .. n + 1 |-> g[i]]
      BY <2>5, Zenon
    <3> HIDE DEF g
    <3>. QED BY <2>6, <3>1, Zenon DEF IsTemp
  <2> HIDE DEF g
  <2>. QED BY <2>5, <2>7, Zenon
<1>3. Nat \subseteq S
  <2> HIDE DEF S
  <2>. QED BY <1>1, <1>2, NatInd, Zenon
<1>. QED
  BY <1>3, Zenon

SameTo(f, g, a, n) == \A i \in a .. n : f[i] = g[i]

\* Two of them agree as far as both go, when the arrays do.
LEMMA TempUnique ==
  ASSUME NEW n \in Nat, NEW m \in Nat, n <= m, n # 0, NEW ret, NEW ret2, SameTo(ret, ret2, 1, n),
         NEW f, IsTemp(f, ret, n), NEW g, IsTemp(g, ret2, m)
  PROVE  SameTo(f, g, 0, n)
<1> DEFINE S == {i \in Nat : i \in 0 .. n => f[i] = g[i]}
<1>0. /\ \A i \in 0 .. n : f[i] = IF i <= 1 THEN ret[1] ELSE ToByte(Xor(f[i - 1], ret[i]))
      /\ \A i \in 0 .. m : g[i] = IF i <= 1 THEN ret2[1] ELSE ToByte(Xor(g[i - 1], ret2[i]))
  <2>1. \A i \in 0 .. n : f[i] = IF i <= 1 THEN ret[1] ELSE ToByte(Xor(f[i - 1], ret[i]))
    <3>1. f = [i \in 0 .. n |-> IF i <= 1 THEN ret[1] ELSE ToByte(Xor(f[i - 1], ret[i]))]
      BY Zenon DEF IsTemp
    <3>. QED BY <3>1, Zenon
  <2>2. \A i \in 0 .. m : g[i] = IF i <= 1 THEN ret2[1] ELSE ToByte(Xor(g[i - 1], ret2[i]))
    <3>1. g = [i \in 0 .. m |-> IF i <= 1 THEN ret2[1] ELSE ToByte(Xor(g[i - 1], ret2[i]))]
      BY Zenon DEF IsTemp
    <3>. QED BY <3>1, Zenon
  <2>. QED BY <2>1, <2>2, Zenon
<1>1. 1 \in 1 .. n /\ 0 .. n \subseteq 0 .. m /\ 0 \in 0 .. n /\ 0 <= 1
  OBVIOUS
<1>2. 0 \in S
  <2>1. f[0] = ret[1]
    BY <1>0, <1>1, Zenon
  <2>2. g[0] = ret2[1]
    BY <1>0, <1>1, Zenon
  <2>3. ret[1] = ret2[1]
    BY <1>1, Zenon DEF SameTo
  <2>. QED BY <2>1, <2>2, <2>3, 0 \in Nat, Zenon
<1>3. ASSUME NEW i \in Nat, i \in S PROVE i + 1 \in S
  <2>0. i + 1 \in Nat
    OBVIOUS
  <2> SUFFICES ASSUME i + 1 \in 0 .. n PROVE f[i + 1] = g[i + 1]
    BY <2>0, Zenon
  <2>1. i \in 0 .. n /\ i + 1 \in 1 .. n /\ (i + 1) - 1 = i
    OBVIOUS
  <2>2. f[i] = g[i] /\ ret[i + 1] = ret2[i + 1] /\ ret[1] = ret2[1] /\ i + 1 \in 0 .. m
    BY <1>1, <1>3, <2>1, Zenon DEF SameTo
  <2>3. f[i + 1] = IF i + 1 <= 1 THEN ret[1] ELSE ToByte(Xor(f[i], ret[i + 1]))
    BY <1>0, <2>1, Zenon
  <2>4. g[i + 1] = IF i + 1 <= 1 THEN ret2[1] ELSE ToByte(Xor(g[i], ret2[i + 1]))
    BY <1>0, <2>1, <2>2, Zenon
  <2>. QED BY <2>2, <2>3, <2>4, Zenon
<1>4. Nat \subseteq S
  <2> HIDE DEF S
  <2>. QED BY <1>2, <1>3, NatInd, Zenon
<1>5. \A i \in 0 .. n : i \in Nat
  OBVIOUS
<1>. QED
  BY <1>4, <1>5, Zenon DEF SameTo

\* getCheckCode takes its last value.
LEMMA CodeIsTemp ==
  ASSUME NEW ret, NEW n \in Nat, n # 0, NEW f, IsTemp(f, ret, n)
  PROVE  getCheckCode(ret, n) = f[n]
<1> DEFINE temp == CHOOSE h : h = [i \in 0 .. n |-> IF i <= 1 THEN ret[1]
                                                   ELSE ToByte(Xor(h[i - 1], ret[i]))]
<1>1. IsTemp(temp, ret, n)
  <2>1. \E h : h = [i \in 0 .. n |-> IF i <= 1 THEN ret[1] ELSE ToByte(Xor(h[i - 1], ret[i]))]
    BY Zenon DEF IsTemp
  <2>. QED BY <2>1, Zenon DEF IsTemp
<1>2. getCheckCode(ret, n) = temp[n]
  BY Zenon DEF getCheckCode
<1> HIDE DEF temp
<1>3. n \in 0 .. n /\ n <= n
  OBVIOUS
<1>4. f[n] = temp[n]
  <2>1. SameTo(ret, ret, 1, n)
    BY DEF SameTo
  <2>2. SameTo(f, temp, 0, n)
    BY <1>1, <1>3, <2>1, TempUnique, Zenon
  <2>. QED BY <1>3, <2>2, Zenon DEF SameTo
<1>. QED
  BY <1>2, <1>4, Zenon

\* getCheckCode after one byte, and after one byte more.
LEMMA CodeFirst ==
  ASSUME NEW ret \in Seq(-128 .. 127), ret # <<>>
  PROVE  getCheckCode(ret, 1) = ret[1]
<1>1. 1 \in Nat /\ 1 # 0 /\ 1 \in 0 .. 1 /\ 1 <= 1
  OBVIOUS
<1>2. 1 <= Len(ret)
  <2>1. Len(ret) \in Nat /\ Len(ret) # 0
    BY EmptySeq, LenProperties, Zenon
  <2>. QED BY <2>1
<1>3. PICK f \in [0 .. 1 -> -128 .. 127] : IsTemp(f, ret, 1)
  BY <1>1, <1>2, TempExists, Zenon
<1>4. f[1] = ret[1]
  <2>1. f = [i \in 0 .. 1 |-> IF i <= 1 THEN ret[1] ELSE ToByte(Xor(f[i - 1], ret[i]))]
    BY <1>3, Zenon DEF IsTemp
  <2>. QED BY <1>1, <2>1, Zenon
<1>. QED
  BY <1>1, <1>3, <1>4, CodeIsTemp, Zenon

\* It is a byte, and the next one is combined with it.
LEMMA CodeNext ==
  ASSUME NEW ret \in Seq(-128 .. 127), NEW n \in Nat, n # 0, n <= Len(ret)
  PROVE  /\ getCheckCode(ret, n) \in -128 .. 127
         /\ n + 1 <= Len(ret) =>
              getCheckCode(ret, n + 1) = ToByte(Xor(getCheckCode(ret, n), ret[n + 1]))
<1>0. ret # <<>>
  <2>1. Len(ret) # 0
    BY LenProperties
  <2>. QED BY <2>1, EmptySeq, Zenon
<1>1. PICK f \in [0 .. n -> -128 .. 127] : IsTemp(f, ret, n)
  BY <1>0, TempExists, Zenon
<1>2. getCheckCode(ret, n) = f[n]
  BY <1>1, CodeIsTemp, Zenon
<1>3. n \in 0 .. n
  OBVIOUS
<1>4. ASSUME n + 1 <= Len(ret)
      PROVE  getCheckCode(ret, n + 1) = ToByte(Xor(f[n], ret[n + 1]))
  <2>1. n + 1 \in Nat /\ n + 1 # 0 /\ n <= n + 1 /\ n + 1 \in 0 .. n + 1 /\ ~(n + 1 <= 1)
        /\ (n + 1) - 1 = n
    OBVIOUS
  <2>2. PICK g \in [0 .. n + 1 -> -128 .. 127] : IsTemp(g, ret, n + 1)
    BY <1>0, <1>4, <2>1, TempExists, Zenon
  <2>3. getCheckCode(ret, n + 1) = g[n + 1]
    BY <2>1, <2>2, CodeIsTemp, Zenon
  <2>4. g[n + 1] = ToByte(Xor(g[n], ret[n + 1]))
    <3>1. g = [i \in 0 .. n + 1 |-> IF i <= 1 THEN ret[1] ELSE ToByte(Xor(g[i - 1], ret[i]))]
      BY <2>2, Zenon DEF IsTemp
    <3>2. g[n + 1] = IF n + 1 <= 1 THEN ret[1] ELSE ToByte(Xor(g[(n + 1) - 1], ret[n + 1]))
      BY <2>1, <3>1, Zenon
    <3>. QED BY <2>1, <3>2, Zenon
  <2>5. f[n] = g[n]
    <3>1. SameTo(ret, ret, 1, n)
      BY DEF SameTo
    <3>2. SameTo(f, g, 0, n)
      BY <1>1, <2>1, <2>2, <3>1, TempUnique, Zenon
    <3>. QED BY <1>3, <3>2, Zenon DEF SameTo
  <2>. QED BY <2>3, <2>4, <2>5, Zenon
<1>. QED
  BY <1>1, <1>2, <1>3, <1>4, ZenonT(40)

\* It depends on the bytes checked only.
LEMMA CodePrefix ==
  ASSUME NEW ret \in Seq(-128 .. 127), NEW ret2 \in Seq(-128 .. 127),
         NEW n \in Nat, n # 0, n <= Len(ret), n <= Len(ret2), SameTo(ret, ret2, 1, n)
  PROVE  getCheckCode(ret, n) = getCheckCode(ret2, n)
<1>0. ret # <<>> /\ ret2 # <<>>
  <2>1. Len(ret) # 0 /\ Len(ret2) # 0
    BY LenProperties
  <2>. QED BY <2>1, EmptySeq, Zenon
<1>1. PICK f \in [0 .. n -> -128 .. 127] : IsTemp(f, ret, n)
  BY <1>0, TempExists, Zenon
<1>2. PICK g \in [0 .. n -> -128 .. 127] : IsTemp(g, ret2, n)
  BY <1>0, TempExists, Zenon
<1>3. n <= n /\ n \in 0 .. n
  OBVIOUS
<1>4. SameTo(f, g, 0, n)
  BY <1>1, <1>2, <1>3, TempUnique, Zenon
<1>5. f[n] = g[n]
  BY <1>3, <1>4, Zenon DEF SameTo
<1>. QED
  BY <1>1, <1>2, <1>5, CodeIsTemp, Zenon

Ones(ret, n, i) == {k \in 1 .. n : getBit(ret[k], i) = 1}

\* One byte more: its bit is added to the number of bits that are set.
LEMMA OnesNext ==
  ASSUME NEW ret, NEW n \in Nat, NEW i, getBit(ret[n + 1], i) \in 0 .. 1
  PROVE  /\ Cardinality(Ones(ret, n, i)) \in Nat
         /\ Cardinality(Ones(ret, n + 1, i)) = Cardinality(Ones(ret, n, i)) + getBit(ret[n + 1], i)
<1>1. IsFiniteSet(Ones(ret, n, i))
  <2>1. IsFiniteSet(1 .. n)
    BY FS_Interval, 1 \in Int, n \in Int
  <2>2. Ones(ret, n, i) \subseteq 1 .. n
    BY Zenon DEF Ones
  <2>. QED BY <2>1, <2>2, FS_Subset, Zenon
<1>2. Cardinality(Ones(ret, n, i)) \in Nat
  BY <1>1, FS_CardinalityType, Zenon
<1>3. /\ n + 1 \notin 1 .. n
      /\ \A k : k \in 1 .. n + 1 <=> k \in 1 .. n \/ k = n + 1
  OBVIOUS
<1>4. CASE getBit(ret[n + 1], i) = 1
  <2>1. Ones(ret, n + 1, i) = Ones(ret, n, i) \cup {n + 1} /\ n + 1 \notin Ones(ret, n, i)
    BY <1>3, <1>4, Zenon DEF Ones
  <2>2. Cardinality(Ones(ret, n, i) \cup {n + 1}) = Cardinality(Ones(ret, n, i)) + 1
    BY <1>1, <2>1, FS_AddElement, Zenon
  <2>. QED BY <1>2, <1>4, <2>1, <2>2, Zenon
<1>5. CASE getBit(ret[n + 1], i) = 0
  <2>1. Ones(ret, n + 1, i) = Ones(ret, n, i)
    <3>1. getBit(ret[n + 1], i) # 1
      BY <1>5
    <3>. QED BY <1>3, <3>1, Zenon DEF Ones
  <2>. QED BY <1>2, <1>5, <2>1
<1>6. getBit(ret[n + 1], i) = 0 \/ getBit(ret[n + 1], i) = 1
  OBVIOUS
<1>. QED
  BY <1>4, <1>5, <1>6, Zenon

\* A bit of the check code is the parity of the bits.
LEMMA CodeParity ==
  ASSUME NEW ret \in Seq(-128 .. 127), NEW i \in 0 .. 7
  PROVE  \A n \in 1 .. Len(ret) :
           getBit(getCheckCode(ret, n), i) = Cardinality(Ones(ret, n, i)) % 2
<1> DEFINE S == {n \in Nat : n \in 1 .. Len(ret) =>
                   getBit(getCheckCode(ret, n), i) = Cardinality(Ones(ret, n, i)) % 2}
<1>0. Len(ret) \in Nat /\ \A k \in 1 .. Len(ret) : ret[k] \in -128 .. 127
  BY LenProperties, ElementOfSeq, Zenon
<1>1. 0 \in S
  OBVIOUS
<1>2. ASSUME NEW n \in Nat, n \in S PROVE n + 1 \in S
  <2>0. n + 1 \in Nat
    OBVIOUS
  <2> SUFFICES ASSUME n + 1 \in 1 .. Len(ret)
               PROVE  getBit(getCheckCode(ret, n + 1), i) = Cardinality(Ones(ret, n + 1, i)) % 2
    BY <2>0, Zenon
  <2>1. PICK x \in 0 .. 1 : x = getBit(ret[n + 1], i)
    BY <1>0, BitType, Zenon
  <2>2. PICK c \in Nat : c = Cardinality(Ones(ret, n, i))
    BY <2>1, OnesNext, Zenon
  <2>3. Cardinality(Ones(ret, n + 1, i)) = c + x
    BY <2>1, <2>2, OnesNext, Zenon
  <2>4. CASE n = 0
    <3>1. Ones(ret, 0, i) = {}
      <4>1. \A k : k \notin 1 .. 0
        OBVIOUS
      <4>. QED BY <4>1, Zenon DEF Ones
    <3>2. c = 0
      BY <2>2, <2>4, <3>1, FS_EmptySet, Zenon
    <3>3. ret # <<>>
      <4>1. Len(ret) # 0
        BY <1>0
      <4>. QED BY <4>1, EmptySeq, Zenon
    <3>4. n + 1 = 1
      BY <2>4
    <3>5. getBit(getCheckCode(ret, n + 1), i) = x
      BY <2>1, <3>3, <3>4, CodeFirst, Zenon
    <3>6. (0 + x) % 2 = x
      OBVIOUS
    <3>. QED BY <2>3, <3>2, <3>5, <3>6, Zenon
  <2>5. CASE n # 0
    <3>1. n \in 1 .. Len(ret) /\ n <= Len(ret) /\ n + 1 <= Len(ret)
      BY <1>0, <2>5
    <3>2. PICK y \in -128 .. 127 : y = getCheckCode(ret, n)
      BY <2>5, <3>1, CodeNext, Zenon
    <3>3. getCheckCode(ret, n + 1) = ToByte(Xor(y, ret[n + 1]))
      BY <2>5, <3>1, <3>2, CodeNext, Zenon
    <3>4. getBit(y, i) = c % 2
      BY <1>2, <2>2, <3>1, <3>2, Zenon
    <3>5. PICK z \in -128 .. 127 : z = ret[n + 1]
      BY <1>0, Zenon
    <3>6. getBit(ToByte(Xor(y, z)), i) = (getBit(y, i) + getBit(z, i)) % 2
      BY XorBits, Zenon
    <3>7. (((c % 2) + x) % 2) = ((c + x) % 2)
      <4>1. PICK h \in Int : h = c \div 2
        OBVIOUS
      <4>2. PICK r \in 0 .. 1 : r = c % 2
        OBVIOUS
      <4>3. c = 2 * h + r
        BY <4>1, <4>2
      <4>4. (2 * h + r + x) % 2 = (r + x) % 2
        OBVIOUS
      <4>. QED BY <4>2, <4>3, <4>4
    <3>. QED BY <2>1, <2>3, <3>3, <3>4, <3>5, <3>6, <3>7, Zenon
  <2>. QED BY <2>4, <2>5, Zenon
<1>3. Nat \subseteq S
  <2> HIDE DEF S
  <2>. QED BY <1>1, <1>2, NatInd, Zenon
<1>4. \A n \in 1 .. Len(ret) : n \in Nat
  OBVIOUS
<1>. QED
  BY <1>3, <1>4, Zenon

\* A prefix of a sequence.
LEMMA PrefixProperties ==
  ASSUME NEW E, NEW s \in Seq(E), NEW n \in Nat, n <= Len(s)
  PROVE  /\ SubSeq(s, 1, n) \in Seq(E) /\ Len(SubSeq(s, 1, n)) = n
         /\ \A k \in 1 .. n : SubSeq(s, 1, n)[k] = s[k]
<1>1. \A i \in 1 .. n : i \in 1 .. Len(s)
  BY LenProperties
<1>2. \A i \in 1 .. n : s[i] \in E
  BY <1>1, ElementOfSeq, Zenon
<1>. QED
  BY <1>2

\* The property of every array of bytes.
LEMMA CheckCodeIsParityOf ==
  ASSUME bytes \in Seq(-128 .. 127)
  PROVE  CheckCodeIsParity
<1> SUFFICES ASSUME NEW n \in 1 .. Len(bytes)
             PROVE  LET code == getCheckCode(bytes, n)
                    IN /\ \A i \in 0 .. 7 : getBit(code, i) =
                            Cardinality({k \in 1 .. n : getBit(bytes[k], i) = 1}) % 2
                       /\ getCheckCode(SubSeq(bytes, 1, n) \o <<code>>, n + 1) = 0
  BY Zenon DEF CheckCodeIsParity
<1>0. Len(bytes) \in Nat
  BY LenProperties, Zenon
<1>1. n \in Nat /\ n # 0 /\ n <= Len(bytes) /\ n <= n + 1 /\ n + 1 <= n + 1
  BY <1>0
<1>2. PICK c \in -128 .. 127 : c = getCheckCode(bytes, n)
  BY <1>1, CodeNext, Zenon
<1>3. \A i \in 0 .. 7 : getBit(c, i) = Cardinality({k \in 1 .. n : getBit(bytes[k], i) = 1}) % 2
  BY <1>2, CodeParity, Zenon DEF Ones
<1>4. PICK p \in Seq(-128 .. 127) :
        Len(p) = n + 1 /\ p = SubSeq(bytes, 1, n) \o <<c>> /\ p[n + 1] = c
        /\ \A k \in 1 .. n : p[k] = bytes[k]
  <2>1. PICK s \in Seq(-128 .. 127) :
          s = SubSeq(bytes, 1, n) /\ Len(s) = n /\ \A k \in 1 .. n : s[k] = bytes[k]
    <3>1. /\ SubSeq(bytes, 1, n) \in Seq(-128 .. 127) /\ Len(SubSeq(bytes, 1, n)) = n
          /\ \A k \in 1 .. n : SubSeq(bytes, 1, n)[k] = bytes[k]
      BY <1>1, PrefixProperties, Zenon
    <3>. QED BY <3>1, Zenon
  <2>2. Append(s, c) = s \o <<c>>
    BY AppendIsConcat, Zenon
  <2>3. Append(s, c) \in Seq(-128 .. 127) /\ Extends(Append(s, c), s, c)
    BY AppendExtends, Zenon
  <2>4. /\ Len(Append(s, c)) = n + 1 /\ Append(s, c)[n + 1] = c
        /\ \A k \in 1 .. n : Append(s, c)[k] = bytes[k]
    BY <2>1, <2>3, Zenon DEF Extends
  <2>. QED BY <2>1, <2>2, <2>3, <2>4, Zenon
<1>5. getCheckCode(p, n) = c
  <2>1. SameTo(bytes, p, 1, n)
    BY <1>4, Zenon DEF SameTo
  <2>2. n <= Len(p)
    BY <1>1, <1>4, Zenon
  <2>. QED BY <1>1, <1>2, <2>1, <2>2, CodePrefix, Zenon
<1>6. getCheckCode(p, n + 1) = ToByte(Xor(c, c))
  <2>1. n <= Len(p) /\ n + 1 <= Len(p)
    BY <1>1, <1>4, Zenon
  <2>2. getCheckCode(p, n + 1) = ToByte(Xor(getCheckCode(p, n), p[n + 1]))
    BY <1>1, <2>1, CodeNext, Zenon
  <2>. QED BY <1>4, <1>5, <2>2, Zenon
<1>7. getCheckCode(SubSeq(bytes, 1, n) \o <<c>>, n + 1) = 0
  BY <1>4, <1>6, XorSelf, Zenon
<1>. QED
  BY <1>2, <1>3, <1>7, Zenon

-----------------------------------------------------------------------------
(* The text of an ASCII text.                                              *)

AllUnits == 0 .. MaxChar
AsciiUnits == 0 .. 127
LowByte(u) == u % 256

\* An ASCII code unit is its own low byte and is a byte.
LEMMA AsciiUnit ==
  ASSUME NEW u \in AsciiUnits
  PROVE  u \in 0 .. 255 /\ LowByte(u) = u /\ getInt(u) = u /\ ToByte(u) = u
BY DEF AsciiUnits, LowByte, getInt, ToByte

\* Neither half of it is a separator's value, and the high one is below eight.
LEMMA AsciiHalves ==
  ASSUME NEW u \in AsciiUnits
  PROVE  /\ u \div 16 \in 0 .. 15 /\ u % 16 \in 0 .. 15 /\ u \div 16 < 10
         /\ 16 * (u \div 16) + (u % 16) = u
<1> USE DEF AsciiUnits
<1>1. PICK h \in Int : h = u \div 16
  OBVIOUS
<1>2. PICK l \in Int : l = u % 16
  OBVIOUS
<1>3. u = 16 * h + l
  BY <1>1, <1>2
<1>4. h \in 0 .. 15 /\ l \in 0 .. 15 /\ h < 10
  BY <1>1, <1>2, <1>3
<1>. QED
  BY <1>1, <1>2, <1>3, <1>4

\* The values of ASCII code units are these themselves.
LEMMA AsciiInts ==
  ASSUME NEW t \in Seq(AsciiUnits)
  PROVE  t \in Seq(0 .. 255) /\ t \in Seq(-128 .. 127) /\ Ints(t) = t
<1>1. \A k \in 1 .. Len(t) : t[k] \in AsciiUnits
  BY ElementOfSeq, Zenon
<1>3. t \in Seq(0 .. 255)
  <2>1. \A k \in 1 .. Len(t) : t[k] \in 0 .. 255
    BY <1>1, AsciiUnit, Zenon
  <2>. QED BY <2>1 DEF AsciiUnits
<1>4. t \in Seq(-128 .. 127)
  <2>1. \A u \in AsciiUnits : u \in -128 .. 127
    BY DEF AsciiUnits
  <2>2. \A k \in 1 .. Len(t) : t[k] \in -128 .. 127
    BY <1>1, <2>1, Zenon
  <2>. QED BY <2>2 DEF AsciiUnits
<1>5. \A k \in 1 .. Len(t) : getInt(t[k]) = t[k]
  BY <1>1, AsciiUnit, Zenon
<1>6. t = [k \in 1 .. Len(t) |-> t[k]]
  OBVIOUS
<1>. QED
  BY <1>3, <1>4, <1>5, <1>6, Zenon DEF Ints

\* str2HexStr writes two digits of upper case for every code unit.
LEMMA AsciiText ==
  ASSUME NEW t \in Seq(AsciiUnits)
  PROVE  str2HexStr(t) = Trim(Join(Triples(t)))
<1>1. \A k \in 1 .. Len(t) : t[k] \in AsciiUnits
  BY ElementOfSeq, Zenon
<1>2. \A k \in 1 .. Len(t) : LowByte(t[k]) = t[k]
  BY <1>1, AsciiUnit, Zenon
<1>3. DOMAIN t = 1 .. Len(t)
  BY LenProperties, Zenon
<1>4. [i \in DOMAIN t |->
         <<UpperDigit((t[i] % 256) \div 16), UpperDigit(t[i] % 16), Space>>] = Triples(t)
  <2>1. [i \in DOMAIN t |->
           <<UpperDigit(LowByte(t[i]) \div 16), UpperDigit(t[i] % 16), Space>>] = Triples(t)
    BY <1>2, <1>3, Zenon DEF Triples, Triple
  <2>. QED BY <2>1 DEF LowByte
<1>. QED
  BY <1>4, Zenon DEF str2HexStr

\* What hexStr2Str makes of the values of two chars.
Decoded(h, l) == IF ToByte(h * 16 + l) >= 0 THEN ToByte(h * 16 + l) ELSE Replacement

\* The chars that hexStr2Str gives.
LEMMA StrOfHex ==
  ASSUME NEW q \in Seq(Int), NEW m \in Nat, m = Len(q) \div 2
  PROVE  hexStr2Str(q) =
           [i \in 1 .. m |-> Decoded(IndexOf(q[2 * i - 1]), IndexOf(q[2 * i]))]
<1> DEFINE b == [i \in 1 .. m |->
                   ToByte(IndexOf(q[2 * i - 1]) * 16 + IndexOf(q[2 * i]))]
<1>1. hexStr2Str(q) = Decode(b)
  BY Zenon DEF hexStr2Str
<1>2. DOMAIN b = 1 .. m
  BY Zenon
<1>3. Decode(b) = [i \in 1 .. m |-> IF b[i] >= 0 THEN b[i] ELSE Replacement]
  BY <1>2, Zenon DEF Decode
<1>4. \A i \in 1 .. m : b[i] = ToByte(IndexOf(q[2 * i - 1]) * 16 + IndexOf(q[2 * i]))
  BY Zenon
<1> HIDE DEF b
<1>. QED
  BY <1>1, <1>3, <1>4, ZenonT(40) DEF Decoded

\* The two digits of an ASCII code unit are decoded to it; a separator in the
\* place of the first one is not decoded to ASCII; and a letter of lower case
\* in the place of the second one gives another char.
LEMMA DecodedAscii ==
  /\ \A u \in AsciiUnits : Decoded(u \div 16, u % 16) = u
  /\ \A l \in 0 .. 15, u \in AsciiUnits : Decoded(-1, l) # u
  /\ \A u \in AsciiUnits : Decoded(u \div 16, -1) = u => u % 16 < 10
<1> USE DEF AsciiUnits
<1>1. ASSUME NEW u \in AsciiUnits PROVE Decoded(u \div 16, u % 16) = u
  <2>1. PICK h \in Int : h = u \div 16
    OBVIOUS
  <2>2. PICK l \in Int : l = u % 16
    OBVIOUS
  <2>3. h * 16 + l = u
    BY <2>1, <2>2
  <2>4. ToByte(u) = u
    BY DEF ToByte
  <2>. QED BY <2>1, <2>2, <2>3, <2>4 DEF Decoded
<1>2. ASSUME NEW l \in 0 .. 15, NEW u \in AsciiUnits PROVE Decoded(-1, l) # u
  BY DEF Decoded, ToByte, Replacement
<1>3. ASSUME NEW u \in AsciiUnits, Decoded(u \div 16, -1) = u PROVE u % 16 < 10
  <2>1. PICK h \in Int : h = u \div 16
    OBVIOUS
  <2>2. PICK l \in Int : l = u % 16
    OBVIOUS
  <2>3. u = 16 * h + l /\ h \in 0 .. 7 /\ l \in 0 .. 15
    BY <2>1, <2>2
  <2>4. Decoded(h, -1) = u
    BY <1>3, <2>1
  <2>. QED BY <2>2, <2>3, <2>4 DEF Decoded, ToByte, Replacement
<1>. QED
  BY <1>1, <1>2, <1>3

\* Without separators the text is read back.
LEMMA AsciiBack ==
  ASSUME NEW t \in Seq(AsciiUnits)
  PROVE  hexStr2Str(NoSpaces(str2HexStr(t))) = t
<1>1. PICK n \in Nat : n = Len(t)
  BY LenProperties, Zenon
<1>2. t \in Seq(0 .. 255)
  BY AsciiInts, Zenon
<1>3. NoSpaces(str2HexStr(t)) = Join(Pairs(t))
  BY <1>2, AsciiText, HexText, Zenon
<1>4. PICK q \in Seq(Int) : q = Join(Pairs(t))
  BY <1>2, PairsJoined, Zenon
<1>5. /\ Len(q) = 2 * n
      /\ \A k \in 1 .. n : /\ q[2 * k - 1] = UpperDigit(t[k] \div 16)
                           /\ q[2 * k] = UpperDigit(t[k] % 16)
  BY <1>1, <1>2, <1>4, PairsJoined, Zenon
<1>6. n = Len(q) \div 2
  BY <1>5
<1>7. hexStr2Str(q) = [i \in 1 .. n |-> Decoded(IndexOf(q[2 * i - 1]), IndexOf(q[2 * i]))]
  BY <1>6, StrOfHex, Zenon
<1>8. ASSUME NEW i \in 1 .. n PROVE Decoded(IndexOf(q[2 * i - 1]), IndexOf(q[2 * i])) = t[i]
  <2>1. t[i] \in AsciiUnits /\ t[i] \in 0 .. 255
    BY <1>1, <1>2, ElementOfSeq, Zenon
  <2>2. IndexOf(q[2 * i - 1]) = t[i] \div 16 /\ IndexOf(q[2 * i]) = t[i] % 16
    BY <1>5, <2>1, Halves, DigitFacts, Zenon
  <2>. QED BY <2>1, <2>2, DecodedAscii, Zenon
<1>9. t = [i \in 1 .. n |-> t[i]]
  <2>1. t = [i \in 1 .. Len(t) |-> t[i]]
    OBVIOUS
  <2>. QED BY <1>1, <2>1, Zenon
<1>. QED
  BY <1>3, <1>4, <1>7, <1>8, <1>9, Zenon

\* With them it is, if there is no separator.
LEMMA AsciiSeparated ==
  ASSUME NEW t \in Seq(AsciiUnits)
  PROVE  hexStr2Str(str2HexStr(t)) = t <=> Len(t) <= 1
<1>1. PICK n \in Nat : n = Len(t)
  BY LenProperties, Zenon
<1>2. t \in Seq(0 .. 255)
  BY AsciiInts, Zenon
<1>3. PICK h \in Seq(Int) : h = str2HexStr(t)
  BY <1>2, AsciiText, HexText, Zenon
<1>4. /\ Len(h) = IF n = 0 THEN 0 ELSE 3 * n - 1
      /\ \A k \in 1 .. n : /\ h[3 * k - 2] = UpperDigit(t[k] \div 16)
                           /\ h[3 * k - 1] = UpperDigit(t[k] % 16)
                           /\ k < n => h[3 * k] = Space
  BY <1>1, <1>2, <1>3, AsciiText, HexText, Zenon
<1>5. \A k \in 1 .. n : t[k] \in AsciiUnits /\ t[k] \in 0 .. 255
  BY <1>1, <1>2, ElementOfSeq, Zenon
<1>6. PICK m \in Nat : m = Len(h) \div 2
  OBVIOUS
<1>7. hexStr2Str(h) = [i \in 1 .. m |-> Decoded(IndexOf(h[2 * i - 1]), IndexOf(h[2 * i]))]
  BY <1>6, StrOfHex, Zenon
<1>8. t = [i \in 1 .. n |-> t[i]]
  <2>1. t = [i \in 1 .. Len(t) |-> t[i]]
    OBVIOUS
  <2>. QED BY <1>1, <2>1, Zenon
<1>9. CASE n <= 1
  <2>1. m = n
    <3>1. n = 0 \/ n = 1
      BY <1>9
    <3>. QED BY <1>4, <1>6, <3>1
  <2>2. ASSUME NEW i \in 1 .. n PROVE Decoded(IndexOf(h[2 * i - 1]), IndexOf(h[2 * i])) = t[i]
    <3>1. 2 * i - 1 = 3 * i - 2 /\ 2 * i = 3 * i - 1
      BY <1>9
    <3>2. IndexOf(h[2 * i - 1]) = t[i] \div 16 /\ IndexOf(h[2 * i]) = t[i] % 16
      BY <1>4, <1>5, <3>1, Halves, DigitFacts, Zenon
    <3>. QED BY <1>5, <3>2, DecodedAscii, Zenon
  <2>3. hexStr2Str(h) = t
    BY <1>7, <1>8, <2>1, <2>2, Zenon
  <2>. QED BY <1>1, <1>3, <1>9, <2>3, Zenon
<1>10. CASE ~(n <= 1)
  <2>1. 1 \in 1 .. n /\ 2 \in 1 .. n /\ 1 < n
    BY <1>10
  <2>2. m >= 2
    <3>1. Len(h) >= 4
      BY <1>4, <1>10
    <3>. QED BY <1>6, <3>1
  <2>3. 2 \in 1 .. m
    BY <2>2
  <2>4. h[3] = Space /\ h[4] = UpperDigit(t[2] \div 16)
    <3>1. 3 * 1 = 3 /\ 3 * 2 - 2 = 4
      OBVIOUS
    <3>2. h[3 * 1] = Space /\ h[3 * 2 - 2] = UpperDigit(t[2] \div 16)
      BY <1>4, <2>1, Zenon
    <3>. QED BY <3>1, <3>2
  <2>5. IndexOf(h[3]) = -1
    BY <2>4 DEF IndexOf, Space
  <2>6. IndexOf(h[4]) \in 0 .. 15
    <3>1. PICK d \in 0 .. 15 : d = t[2] \div 16
      BY <1>5, <2>1, Halves, Zenon
    <3>2. IndexOf(h[4]) = d
      BY <2>4, <3>1, DigitFacts, Zenon
    <3>. QED BY <3>2
  <2>7. ASSUME hexStr2Str(h) = t PROVE FALSE
    <3>1. t[2] = Decoded(IndexOf(h[2 * 2 - 1]), IndexOf(h[2 * 2]))
      BY <1>7, <2>3, <2>7, Zenon
    <3>2. 2 * 2 - 1 = 3 /\ 2 * 2 = 4
      OBVIOUS
    <3>3. t[2] = Decoded(-1, IndexOf(h[4]))
      BY <3>1, <3>2, <2>5
    <3>. QED BY <1>5, <2>1, <2>6, <3>3, DecodedAscii, Zenon
  <2>. QED BY <1>1, <1>3, <1>10, <2>7, Zenon
<1>. QED
  BY <1>9, <1>10, Zenon

\* Digits of lower case: hexStr2Bytes reads them, hexStr2Str does exactly if
\* there is no letter among them.
LEMMA AsciiLower ==
  ASSUME NEW t \in Seq(AsciiUnits), NEW lower, lower = Join(LowPairs(t))
  PROVE  /\ hexStr2Bytes(lower) = t
         /\ hexStr2Str(lower) = t <=> ToUpperCase(lower) = lower
<1>1. PICK n \in Nat : n = Len(t)
  BY LenProperties, Zenon
<1>2. t \in Seq(0 .. 255)
  BY AsciiInts, Zenon
<1>3. PICK q \in Seq(Int) : q = lower
  BY <1>2, LowPairsJoined, Zenon
<1>4. /\ Len(q) = 2 * n
      /\ \A k \in 1 .. n : /\ q[2 * k - 1] = LowerDigit(t[k] \div 16)
                           /\ q[2 * k] = LowerDigit(t[k] % 16)
  BY <1>1, <1>2, <1>3, LowPairsJoined, Zenon
<1>5. \A k \in 1 .. n : t[k] \in AsciiUnits /\ t[k] \in 0 .. 255
  BY <1>1, <1>2, ElementOfSeq, Zenon
<1>6. n = Len(q) \div 2 /\ Len(q) % 2 = 0 /\ DOMAIN q = 1 .. Len(q)
  BY <1>4
<1>7. t = [i \in 1 .. n |-> t[i]]
  <2>1. t = [i \in 1 .. Len(t) |-> t[i]]
    OBVIOUS
  <2>. QED BY <1>1, <2>1, Zenon
<1>8. \A i \in 1 .. 2 * n : \E k \in 1 .. n : i = 2 * k - 1 \/ i = 2 * k
  BY EverySecond, Zenon
<1>9. hexStr2Bytes(q) = t
  <2>1. NoSpaces(q) = q
    <3>1. \A k \in 1 .. n : LowerDigit(t[k] \div 16) # Space /\ LowerDigit(t[k] % 16) # Space
      BY <1>5, Halves, LowDigitFacts, Zenon
    <3>2. ASSUME NEW i \in 1 .. 2 * n PROVE q[i] # Space
      <4>1. PICK k \in 1 .. n : i = 2 * k - 1 \/ i = 2 * k
        BY <1>8, Zenon
      <4>2. q[2 * k - 1] # Space /\ q[2 * k] # Space
        BY <1>4, <3>1, Zenon
      <4>. QED BY <4>1, <4>2, Zenon
    <3>. QED BY <1>4, <3>2, NoSpacesNone, Zenon
  <2>2. hexStr2Bytes(q) = [i \in 1 .. n |-> ToByte(ParseHex(SubSeq(q, 2 * i - 1, 2 * i)))]
    BY <1>6, <2>1, Zenon DEF hexStr2Bytes
  <2>3. ASSUME NEW i \in 1 .. n PROVE ToByte(ParseHex(SubSeq(q, 2 * i - 1, 2 * i))) = t[i]
    <3>1. /\ SubSeq(q, 2 * i - 1, 2 * i)[1] = q[2 * i - 1]
          /\ SubSeq(q, 2 * i - 1, 2 * i)[2] = q[2 * i]
      BY <1>4
    <3>2. Digit(q[2 * i - 1]) = t[i] \div 16 /\ Digit(q[2 * i]) = t[i] % 16
      BY <1>4, <1>5, Halves, LowDigitFacts, Zenon
    <3>3. ParseHex(SubSeq(q, 2 * i - 1, 2 * i)) = t[i]
      BY <1>5, <3>1, <3>2, Halves, Zenon DEF ParseHex
    <3>. QED BY <1>5, <3>3, AsciiUnit, Zenon
  <2>. QED BY <1>7, <2>2, <2>3, Zenon
<1>10. hexStr2Str(q) = t <=> \A k \in 1 .. n : t[k] % 16 < 10
  <2>1. hexStr2Str(q) = [i \in 1 .. n |-> Decoded(IndexOf(q[2 * i - 1]), IndexOf(q[2 * i]))]
    BY <1>6, StrOfHex, Zenon
  <2>2. ASSUME NEW k \in 1 .. n
        PROVE  /\ IndexOf(q[2 * k - 1]) = t[k] \div 16
               /\ IndexOf(q[2 * k]) = IF t[k] % 16 < 10 THEN t[k] % 16 ELSE -1
    <3>1. t[k] \div 16 \in 0 .. 15 /\ t[k] % 16 \in 0 .. 15 /\ t[k] \div 16 < 10
      BY <1>5, AsciiHalves, Zenon
    <3>. QED BY <1>4, <3>1, LowDigitFacts, Zenon
  <2>3. ASSUME NEW k \in 1 .. n
        PROVE  Decoded(IndexOf(q[2 * k - 1]), IndexOf(q[2 * k])) = t[k] <=> t[k] % 16 < 10
    BY <1>5, <2>2, DecodedAscii, Zenon
  <2>4. ASSUME hexStr2Str(q) = t, NEW k \in 1 .. n
        PROVE  Decoded(IndexOf(q[2 * k - 1]), IndexOf(q[2 * k])) = t[k]
    BY <2>1, <2>4, Zenon
  <2>5. ASSUME \A k \in 1 .. n : Decoded(IndexOf(q[2 * k - 1]), IndexOf(q[2 * k])) = t[k]
        PROVE  hexStr2Str(q) = t
    BY <1>7, <2>1, <2>5, Zenon
  <2>. QED BY <2>3, <2>4, <2>5, Zenon
<1>11. ToUpperCase(q) = q <=> \A k \in 1 .. n : t[k] % 16 < 10
  <2>1. ToUpperCase(q) = [i \in 1 .. 2 * n |-> Upper(q[i])]
    BY <1>4, <1>6, Zenon DEF ToUpperCase, Upper
  <2>2. q = [i \in 1 .. 2 * n |-> q[i]]
    <3>1. q = [i \in 1 .. Len(q) |-> q[i]]
      OBVIOUS
    <3>. QED BY <1>4, <3>1, Zenon
  <2>3. ASSUME NEW k \in 1 .. n
        PROVE  /\ Upper(q[2 * k - 1]) = q[2 * k - 1]
               /\ Upper(q[2 * k]) = q[2 * k] <=> t[k] % 16 < 10
    <3>1. t[k] \div 16 \in 0 .. 15 /\ t[k] % 16 \in 0 .. 15 /\ t[k] \div 16 < 10
      BY <1>5, AsciiHalves, Zenon
    <3>. QED BY <1>4, <3>1, LowDigitFacts, Zenon
  <2>4. \A k \in 1 .. n : 2 * k \in 1 .. 2 * n
    OBVIOUS
  <2>5. ASSUME ToUpperCase(q) = q, NEW k \in 1 .. n PROVE Upper(q[2 * k]) = q[2 * k]
    BY <2>1, <2>4, <2>5, Zenon
  <2>6. ASSUME \A k \in 1 .. n : t[k] % 16 < 10 PROVE ToUpperCase(q) = q
    <3>1. ASSUME NEW i \in 1 .. 2 * n PROVE Upper(q[i]) = q[i]
      <4>1. PICK k \in 1 .. n : i = 2 * k - 1 \/ i = 2 * k
        BY <1>8, Zenon
      <4>. QED BY <2>3, <2>6, <4>1, Zenon
    <3>. QED BY <2>1, <2>2, <3>1, Zenon
  <2>. QED BY <2>3, <2>5, <2>6, Zenon
<1>. QED
  BY <1>3, <1>9, <1>10, <1>11, Zenon

\* A code unit is a number
LEMMA UnitType ==
  ASSUME NEW u \in AllUnits
  PROVE  u \in Int /\ 0 <= u
<1>1. MaxChar \in Int
  BY DEF MaxChar
<1>. QED
  BY <1>1 DEF AllUnits

\* of 16 bits.
LEMMA UnitRange ==
  ASSUME NEW u \in AllUnits
  PROVE  u \in Int /\ 0 <= u /\ u < 65536
<1>1. MaxChar \in Int
  BY DEF MaxChar
<1>2. u \in Int /\ 0 <= u /\ u <= MaxChar
  BY <1>1 DEF AllUnits
<1>3. u < 65536
  BY <1>2 DEF MaxChar
<1>. QED
  BY <1>2, <1>3

\* The code units of ASCII are those below 128.
LEMMA AsciiBelow == \A u \in AllUnits : u < 128 => u \in AsciiUnits
BY UnitRange DEF AsciiUnits

\* The property of every ASCII text.
LEMMA AsciiRoundTripOf ==
  ASSUME text \in Seq(AllUnits)
  PROVE  AsciiRoundTrip
<1> DEFINE lower == Join([i \in DOMAIN text |->
             (IF text[i] < 16 THEN <<UpperDigit(0)>> ELSE <<>>) \o ToHexString(text[i])])
<1> SUFFICES ASSUME Ascii
             PROVE  /\ hexStr2Str(NoSpaces(str2HexStr(text))) = text
                    /\ hexStr2Str(str2HexStr(text)) = text <=> Len(text) <= 1
                    /\ str2HexStr(text) = byte2HexStr(text)
                    /\ hexStr2Bytes(lower) = text
                    /\ hexStr2Str(lower) = text <=> ToUpperCase(lower) = lower
  BY Zenon DEF AsciiRoundTrip
<1>1. text \in Seq(AsciiUnits)
  <2>1. DOMAIN text = 1 .. Len(text) /\ \A k \in 1 .. Len(text) : text[k] \in AllUnits
    BY ElementOfSeq, LenProperties, Zenon
  <2>2. \A k \in 1 .. Len(text) : text[k] \in AsciiUnits
    BY <2>1, AsciiBelow, Zenon DEF Ascii
  <2>. QED BY <2>2
<1>2. PICK t \in Seq(AsciiUnits) : t = text
  BY <1>1
<1>3. t \in Seq(0 .. 255) /\ t \in Seq(-128 .. 127) /\ Ints(t) = t
  BY AsciiInts, Zenon
<1>4. str2HexStr(t) = byte2HexStr(t)
  BY <1>3, AsciiText, ByteText, Zenon
<1>5. lower = Join(LowPairs(t))
  <2>1. \A k \in 1 .. Len(t) : t[k] \in 0 .. 255
    BY <1>3, ElementOfSeq, Zenon
  <2>2. \A k \in 1 .. Len(t) :
          (IF t[k] < 16 THEN <<UpperDigit(0)>> ELSE <<>>) \o ToHexString(t[k]) = LowPair(t[k])
    BY <2>1, PaddedHex, Zenon
  <2>3. DOMAIN t = 1 .. Len(t)
    BY LenProperties, Zenon
  <2>4. [i \in DOMAIN t |-> (IF t[i] < 16 THEN <<UpperDigit(0)>> ELSE <<>>)
                               \o ToHexString(t[i])] = LowPairs(t)
    BY <2>2, <2>3, Zenon DEF LowPairs
  <2>. QED BY <1>2, <2>4, Zenon
<1> HIDE DEF lower
<1>6. hexStr2Bytes(lower) = t /\ (hexStr2Str(lower) = t <=> ToUpperCase(lower) = lower)
  BY <1>5, AsciiLower, Zenon
<1>. QED
  BY <1>2, <1>4, <1>6, AsciiBack, AsciiSeparated, Zenon

-----------------------------------------------------------------------------
(* strToUnicode and unicodeToString.                                       *)

\* The powers of sixteen that digits are shifted by.
LEMMA Sixteens == 16 ^ 0 = 1 /\ 16 ^ 1 = 16 /\ 16 ^ 2 = 256 /\ 16 ^ 3 = 4096
OBVIOUS

\* A digit of a code unit.
LEMMA DigitOfUnit ==
  ASSUME NEW u \in AllUnits, NEW e \in 0 .. 3
  PROVE  (u \div 16 ^ e) % 16 \in 0 .. 15
<1>1. u \in Int /\ 0 <= u
  BY UnitType, Zenon
<1>2. PICK m \in Int : m = 16 ^ e /\ m > 0
  <2>1. e = 0 \/ e = 1 \/ e = 2 \/ e = 3
    OBVIOUS
  <2>2. \A x \in {1, 16, 256, 4096} : x \in Int /\ x > 0
    OBVIOUS
  <2>3. 16 ^ e \in {1, 16, 256, 4096}
    <3>1. CASE e = 0
      BY <3>1
    <3>2. CASE e = 1
      BY <3>2
    <3>3. CASE e = 2
      BY <3>3
    <3>4. CASE e = 3
      BY <3>4
    <3>. QED BY <2>1, <3>1, <3>2, <3>3, <3>4
  <2>4. PICK x \in {1, 16, 256, 4096} : x = 16 ^ e
    BY <2>3
  <2>. QED BY <2>2, <2>4
<1>3. PICK d \in Int : d = u \div m
  BY <1>1, <1>2
<1>4. d % 16 \in 0 .. 15
  OBVIOUS
<1>. QED
  BY <1>2, <1>3, <1>4, Zenon

\* Integer.toHexString of a code unit.
LEMMA HexOfUnit ==
  ASSUME NEW u \in AllUnits, NEW s, s = ToHexString(u)
  PROVE  /\ s \in Seq(Int) /\ Len(s) = HexWidth(u) /\ HexWidth(u) \in 1 .. 4
         /\ \A i \in 1 .. HexWidth(u) :
              s[i] = LowerDigit((u \div 16 ^ (HexWidth(u) - i)) % 16)
<1>1. PICK w \in 1 .. 4 : w = HexWidth(u)
  BY DEF HexWidth
<1> DEFINE f(i) == LowerDigit((u \div 16 ^ (w - i)) % 16)
<1>2. ASSUME NEW i \in 1 .. w PROVE f(i) \in Int
  <2>1. w - i \in 0 .. 3
    OBVIOUS
  <2>. QED BY <2>1, DigitOfUnit, LowDigitFacts, Zenon
<1>3. s = [i \in 1 .. w |-> f(i)]
  BY <1>1, Zenon DEF ToHexString
<1>4. \A i \in 1 .. w : s[i] = f(i)
  BY <1>3, Zenon
<1> HIDE DEF f
<1>5. s \in Seq(Int) /\ Len(s) = w
  BY <1>2, <1>3
<1>. QED
  BY <1>1, <1>4, <1>5, Zenon DEF f

IsConcat(c, g, h, m, n) ==
  /\ c \in Seq(Int) /\ Len(c) = m + n
  /\ \A j \in 1 .. m : c[j] = g[j]
  /\ \A j \in 1 .. n : c[m + j] = h[j]

\* The elements of a concatenation.
LEMMA ConcatElements ==
  ASSUME NEW g \in Seq(Int), NEW h \in Seq(Int)
  PROVE  IsConcat(g \o h, g, h, Len(g), Len(h))
BY DEF IsConcat

Part(u) == <<Backslash, LetterU>>
             \o (IF u > 128 THEN <<>> ELSE <<UpperDigit(0), UpperDigit(0)>>)
             \o ToHexString(u)
Parts(t) == [k \in 1 .. Len(t) |-> Part(t[k])]

\* The escape number i of a text: whether it has four digits, and its value.
IsEscape(h, i) == /\ Digit(h[6 * i - 3]) >= 0 /\ Digit(h[6 * i - 2]) >= 0
                  /\ Digit(h[6 * i - 1]) >= 0 /\ Digit(h[6 * i]) >= 0
UnitAt(h, i) == (16 * Digit(h[6 * i - 3]) + Digit(h[6 * i - 2])) * 256
                  + (16 * Digit(h[6 * i - 1]) + Digit(h[6 * i]))

Slice(e, h, a, n) == e \in Seq(Int) /\ Len(e) = n /\ \A j \in 1 .. n : e[j] = h[a + j]

\* The n elements after the first a ones.
LEMMA SliceElements ==
  ASSUME NEW h \in Seq(Int), NEW a \in Nat, NEW n \in Nat, a + n <= Len(h)
  PROVE  Slice(SubSeq(h, a + 1, a + n), h, a, n)
<1>1. SubSeq(h, a + 1, a + n) \in Seq(Int)
  OBVIOUS
<1>2. Len(SubSeq(h, a + 1, a + n)) = n
  OBVIOUS
<1>3. ASSUME NEW j \in 1 .. n PROVE SubSeq(h, a + 1, a + n)[j] = h[a + j]
  OBVIOUS
<1>. QED
  BY <1>1, <1>2, <1>3, Zenon DEF Slice

\* What unicodeToString reads in an escape.
LEMMA EscapeRead ==
  ASSUME NEW h \in Seq(Int), NEW i \in Nat, i # 0, 6 * i <= Len(h)
  PROVE  LET escape == SubSeq(h, 6 * i - 5, 6 * i)
         IN /\ IsHex(SubSeq(escape, 3, 6)) <=> IsEscape(h, i)
            /\ ParseHex(SubSeq(escape, 3, 4)) * 256 + ParseHex(SubSeq(escape, 5, 6))
                 = UnitAt(h, i)
<1>1. PICK e \in Seq(Int) :
        /\ e = SubSeq(h, 6 * i - 5, 6 * i) /\ Len(e) = 6
        /\ e[3] = h[6 * i - 3] /\ e[4] = h[6 * i - 2] /\ e[5] = h[6 * i - 1] /\ e[6] = h[6 * i]
  <2>1. PICK a \in Nat : a = 6 * i - 6
    OBVIOUS
  <2>2. /\ 6 * i - 5 = a + 1 /\ 6 * i = a + 6 /\ a + 6 <= Len(h)
        /\ 6 * i - 3 = a + 3 /\ 6 * i - 2 = a + 4 /\ 6 * i - 1 = a + 5
    BY <2>1
  <2>3. PICK e : e = SubSeq(h, a + 1, a + 6)
    OBVIOUS
  <2>4. e \in Seq(Int) /\ Len(e) = 6 /\ \A j \in 1 .. 6 : e[j] = h[a + j]
    <3>1. Slice(e, h, a, 6)
      BY <2>2, <2>3, 6 \in Nat, SliceElements, Zenon
    <3>. QED BY <3>1, Zenon DEF Slice
  <2>5. e[3] = h[a + 3] /\ e[4] = h[a + 4] /\ e[5] = h[a + 5] /\ e[6] = h[a + 6]
    BY <2>4, 3 \in 1 .. 6, 4 \in 1 .. 6, 5 \in 1 .. 6, 6 \in 1 .. 6, Zenon
  <2>. QED BY <2>2, <2>3, <2>4, <2>5, Zenon
<1>2. PICK a \in Seq(Int) :
        /\ a = SubSeq(e, 3, 6) /\ Len(a) = 4
        /\ a[1] = e[3] /\ a[2] = e[4] /\ a[3] = e[5] /\ a[4] = e[6]
  <2>1. PICK a : a = SubSeq(e, 2 + 1, 2 + 4)
    OBVIOUS
  <2>2. a \in Seq(Int) /\ Len(a) = 4 /\ \A j \in 1 .. 4 : a[j] = e[2 + j]
    <3>1. 2 \in Nat /\ 4 \in Nat /\ 2 + 4 <= Len(e)
      BY <1>1
    <3>2. Slice(a, e, 2, 4)
      BY <2>1, <3>1, SliceElements, Zenon
    <3>. QED BY <3>2, Zenon DEF Slice
  <2>3. a[1] = e[2 + 1] /\ a[2] = e[2 + 2] /\ a[3] = e[2 + 3] /\ a[4] = e[2 + 4]
    BY <2>2, 1 \in 1 .. 4, 2 \in 1 .. 4, 3 \in 1 .. 4, 4 \in 1 .. 4, Zenon
  <2>4. 2 + 1 = 3 /\ 2 + 2 = 4 /\ 2 + 3 = 5 /\ 2 + 4 = 6
    OBVIOUS
  <2>. QED BY <2>1, <2>2, <2>3, <2>4, Zenon
<1>3. PICK b \in Seq(Int) : b = SubSeq(e, 3, 4) /\ b[1] = e[3] /\ b[2] = e[4]
  <2>1. PICK b : b = SubSeq(e, 2 + 1, 2 + 2)
    OBVIOUS
  <2>2. b \in Seq(Int) /\ \A j \in 1 .. 2 : b[j] = e[2 + j]
    <3>1. 2 \in Nat /\ 2 + 2 <= Len(e)
      BY <1>1
    <3>2. Slice(b, e, 2, 2)
      BY <2>1, <3>1, SliceElements, Zenon
    <3>. QED BY <3>2, Zenon DEF Slice
  <2>3. b[1] = e[2 + 1] /\ b[2] = e[2 + 2]
    BY <2>2, 1 \in 1 .. 2, 2 \in 1 .. 2, Zenon
  <2>4. 2 + 1 = 3 /\ 2 + 2 = 4
    OBVIOUS
  <2>. QED BY <2>1, <2>2, <2>3, <2>4, Zenon
<1>4. PICK c \in Seq(Int) : c = SubSeq(e, 5, 6) /\ c[1] = e[5] /\ c[2] = e[6]
  <2>1. PICK c : c = SubSeq(e, 4 + 1, 4 + 2)
    OBVIOUS
  <2>2. c \in Seq(Int) /\ \A j \in 1 .. 2 : c[j] = e[4 + j]
    <3>1. 2 \in Nat /\ 4 \in Nat /\ 4 + 2 <= Len(e)
      BY <1>1
    <3>2. Slice(c, e, 4, 2)
      BY <2>1, <3>1, SliceElements, Zenon
    <3>. QED BY <3>2, Zenon DEF Slice
  <2>3. c[1] = e[4 + 1] /\ c[2] = e[4 + 2]
    BY <2>2, 1 \in 1 .. 2, 2 \in 1 .. 2, Zenon
  <2>4. 4 + 1 = 5 /\ 4 + 2 = 6
    OBVIOUS
  <2>. QED BY <2>1, <2>2, <2>3, <2>4, Zenon
<1>5. IsHex(a) <=> IsEscape(h, i)
  <2>1. a # <<>> /\ DOMAIN a = 1 .. 4
    <3>1. Len(a) = 4 /\ DOMAIN a = 1 .. Len(a)
      BY <1>2, LenProperties, Zenon
    <3>2. Len(<<>>) # 4
      OBVIOUS
    <3>. QED BY <3>1, <3>2, Zenon
  <2>2. \A j \in 1 .. 4 : j = 1 \/ j = 2 \/ j = 3 \/ j = 4
    OBVIOUS
  <2>3. 1 \in 1 .. 4 /\ 2 \in 1 .. 4 /\ 3 \in 1 .. 4 /\ 4 \in 1 .. 4
    OBVIOUS
  <2>4. IsHex(a) <=> \A j \in 1 .. 4 : Digit(a[j]) >= 0
    BY <2>1, Zenon DEF IsHex
  <2>5. (\A j \in 1 .. 4 : Digit(a[j]) >= 0)
          <=> Digit(a[1]) >= 0 /\ Digit(a[2]) >= 0 /\ Digit(a[3]) >= 0 /\ Digit(a[4]) >= 0
    BY <2>2, <2>3, Zenon
  <2>. QED BY <1>1, <1>2, <2>4, <2>5, Zenon DEF IsEscape
<1>6. ParseHex(b) * 256 + ParseHex(c) = UnitAt(h, i)
  BY <1>1, <1>3, <1>4, Zenon DEF ParseHex, UnitAt
<1>. QED
  BY <1>1, <1>2, <1>3, <1>4, <1>5, <1>6, Zenon

\* unicodeToString, escape by escape.
LEMMA UnicodeOf ==
  ASSUME NEW h \in Seq(Int), NEW c \in Nat, c = Len(h) \div 6
  PROVE  unicodeToString(h) =
           IF \A i \in 1 .. c : IsEscape(h, i)
           THEN [thrown |-> FALSE, text |-> [i \in 1 .. c |-> UnitAt(h, i)]]
           ELSE [thrown |-> TRUE, text |-> <<>>]
<1> DEFINE escape(i) == SubSeq(h, 6 * i - 5, 6 * i)
           value(i) == ParseHex(SubSeq(escape(i), 3, 4)) * 256 + ParseHex(SubSeq(escape(i), 5, 6))
<1>1. \A i \in 1 .. c : i \in Nat /\ i # 0 /\ 6 * i <= Len(h)
  OBVIOUS
<1>2. \A i \in 1 .. c : /\ IsHex(SubSeq(escape(i), 3, 6)) <=> IsEscape(h, i)
                        /\ value(i) = UnitAt(h, i)
  BY <1>1, EscapeRead, Zenon
<1>3. unicodeToString(h) =
        IF \A i \in 1 .. c : IsHex(SubSeq(escape(i), 3, 6))
        THEN [thrown |-> FALSE, text |-> [i \in 1 .. c |-> value(i)]]
        ELSE [thrown |-> TRUE, text |-> <<>>]
  BY Zenon DEF unicodeToString
<1>4. [i \in 1 .. c |-> value(i)] = [i \in 1 .. c |-> UnitAt(h, i)]
  BY <1>2, Zenon
<1>. QED
  BY <1>2, <1>3, <1>4, Zenon

Value(a, b, c, d) == (16 * a + b) * 256 + (16 * c + d)

\* Four digits make up a number of 16 bits.
LEMMA FourDigits ==
  ASSUME NEW u \in Int, 0 <= u, u < 65536
  PROVE  Value((u \div 4096) % 16, (u \div 256) % 16, (u \div 16) % 16, (u \div 1) % 16) = u
<1>1. PICK q3 \in Int : q3 = u \div 4096
  OBVIOUS
<1>2. PICK q2 \in Int : q2 = u \div 256
  OBVIOUS
<1>3. PICK q1 \in Int : q1 = u \div 16
  OBVIOUS
<1>4. u \div 1 = u
  OBVIOUS
<1>5. 4096 * q3 <= u /\ u < 4096 * q3 + 4096
  BY <1>1
<1>6. 256 * q2 <= u /\ u < 256 * q2 + 256
  BY <1>2
<1>7. 16 * q1 <= u /\ u < 16 * q1 + 16
  BY <1>3
<1>8. q3 \in 0 .. 15 /\ q3 % 16 = q3
  BY <1>5
<1>9. PICK b \in 0 .. 15 : b = q2 % 16 /\ q2 = 16 * q3 + b
  BY <1>5, <1>6
<1>10. PICK c \in 0 .. 15 : c = q1 % 16 /\ q1 = 16 * q2 + c
  BY <1>6, <1>7
<1>11. PICK d \in 0 .. 15 : d = u % 16 /\ u = 16 * q1 + d
  BY <1>7
<1>12. (16 * q3 + b) * 256 + (16 * c + d) = u
  BY <1>9, <1>10, <1>11
<1>13. (u \div 4096) % 16 = q3 /\ (u \div 256) % 16 = b
  BY <1>1, <1>2, <1>8, <1>9
<1>14. (u \div 16) % 16 = c /\ (u \div 1) % 16 = d
  BY <1>3, <1>4, <1>10, <1>11
<1>15. Value(q3, b, c, d) = u
  BY <1>12 DEF Value
<1>. QED
  BY <1>13, <1>14, <1>15

InParts(c, x, z, s, l, w) ==
  /\ c \in Seq(Int) /\ Len(c) = 2 + l + w /\ c[1] = x[1]
  /\ \A j \in 1 .. l : c[2 + j] = z[j]
  /\ \A j \in 1 .. w : c[2 + l + j] = s[j]

\* The parts of an escape.
LEMMA EscapeParts ==
  ASSUME NEW x \in Seq(Int), Len(x) = 2, NEW z \in Seq(Int), NEW s \in Seq(Int),
         NEW l \in Nat, l = Len(z)
  PROVE  InParts((x \o z) \o s, x, z, s, l, Len(s))
<1>1. PICK y : y = x \o z
  OBVIOUS
<1>2. IsConcat(y, x, z, 2, l)
  BY <1>1, ConcatElements, Zenon
<1>3. /\ y \in Seq(Int) /\ Len(y) = 2 + l
      /\ \A j \in 1 .. 2 : y[j] = x[j]
      /\ \A j \in 1 .. l : y[2 + j] = z[j]
  BY <1>2, Zenon DEF IsConcat
<1>4. PICK c : c = y \o s
  OBVIOUS
<1>5. IsConcat(c, y, s, 2 + l, Len(s))
  BY <1>3, <1>4, ConcatElements, Zenon
<1>6. /\ c \in Seq(Int) /\ Len(c) = 2 + l + Len(s)
      /\ \A j \in 1 .. 2 + l : c[j] = y[j]
      /\ \A j \in 1 .. Len(s) : c[2 + l + j] = s[j]
  BY <1>5, Zenon DEF IsConcat
<1>7. 1 \in 1 .. 2 /\ 1 \in 1 .. 2 + l /\ \A j \in 1 .. l : 2 + j \in 1 .. 2 + l
  OBVIOUS
<1>8. c[1] = x[1] /\ \A j \in 1 .. l : c[2 + j] = z[j]
  <2>1. c[1] = y[1] /\ y[1] = x[1]
    BY <1>3, <1>6, <1>7, Zenon
  <2>2. ASSUME NEW j \in 1 .. l PROVE c[2 + j] = z[j]
    <3>1. c[2 + j] = y[2 + j]
      BY <1>6, <1>7, Zenon
    <3>2. y[2 + j] = z[j]
      BY <1>3, Zenon
    <3>. QED BY <3>1, <3>2, Zenon
  <2>. QED BY <2>1, <2>2, Zenon
<1>9. InParts(c, x, z, s, l, Len(s))
  BY <1>6, <1>8, Zenon DEF InParts
<1>. QED
  BY <1>1, <1>4, <1>9, Zenon

HasDigits(p, a, b, c, d) ==
  /\ a \in 0 .. 15 /\ b \in 0 .. 15 /\ c \in 0 .. 15 /\ d \in 0 .. 15
  /\ Digit(p[3]) = a /\ Digit(p[4]) = b /\ Digit(p[5]) = c /\ Digit(p[6]) = d

\* The first escape from its digits.
LEMMA FirstEscape ==
  ASSUME NEW p, NEW a, NEW b, NEW c, NEW d, HasDigits(p, a, b, c, d)
  PROVE  IsEscape(p, 1) /\ UnitAt(p, 1) = Value(a, b, c, d)
<1>1. 6 * 1 - 3 = 3 /\ 6 * 1 - 2 = 4 /\ 6 * 1 - 1 = 5 /\ 6 * 1 = 6
  OBVIOUS
<1>2. a >= 0 /\ b >= 0 /\ c >= 0 /\ d >= 0
  <2>1. \A x \in 0 .. 15 : x >= 0
    OBVIOUS
  <2>. QED BY <2>1, Zenon DEF HasDigits
<1>. QED
  BY <1>1, <1>2, Zenon DEF HasDigits, Value, IsEscape, UnitAt

\* How many digits toHexString gives.
LEMMA NarrowWidth ==
  ASSUME NEW u \in AllUnits
  PROVE  /\ u > 128 /\ Wide(u) => HexWidth(u) = 4
         /\ u > 128 /\ ~Wide(u) => HexWidth(u) \in {2, 3}
         /\ ~(u > 128) /\ Wide(u) => HexWidth(u) = 2 /\ u \in 0 .. 255 /\ ~(u < 16)
         /\ ~(u > 128) /\ ~Wide(u) => HexWidth(u) = 1
BY UnitType DEF Wide, HexWidth

\* The escape of a code unit.
LEMMA PartFacts ==
  ASSUME NEW u \in AllUnits, NEW p, p = Part(u)
  PROVE  /\ p \in Seq(Int) /\ p[1] = Backslash
         /\ Wide(u) => Len(p) = 6 /\ IsEscape(p, 1) /\ UnitAt(p, 1) = u
         /\ ~Wide(u) => Len(p) \in {4, 5}
<1>0. UpperDigit(0) = 48 /\ Digit(48) = 0
  BY DEF UpperDigit, Digit
<1>1. PICK x \in Seq(Int) : x = <<Backslash, LetterU>> /\ Len(x) = 2 /\ x[1] = Backslash
  <2>1. <<92, 117>> \in Seq(Int) /\ Len(<<92, 117>>) = 2 /\ <<92, 117>>[1] = 92
    OBVIOUS
  <2>2. PICK x : x = <<92, 117>>
    OBVIOUS
  <2>. QED BY <2>1, <2>2 DEF Backslash, LetterU
<1>2. PICK s \in Seq(Int) : s = ToHexString(u)
  BY HexOfUnit, Zenon
<1>3. PICK w \in 1 .. 4 : w = HexWidth(u)
  BY HexOfUnit, Zenon
<1>4. Len(s) = w /\ \A i \in 1 .. w : s[i] = LowerDigit((u \div 16 ^ (w - i)) % 16)
  BY <1>2, <1>3, HexOfUnit, Zenon
<1>6. CASE u > 128
  <2>1. PICK z \in Seq(Int) : z = <<>> /\ Len(z) = 0
    BY EmptySeq, Zenon
  <2>2. p = (x \o z) \o s
    BY <1>1, <1>2, <1>6, <2>1, Zenon DEF Part
  <2>3. /\ p \in Seq(Int) /\ Len(p) = 2 + 0 + w /\ p[1] = Backslash
        /\ \A j \in 1 .. w : p[2 + 0 + j] = s[j]
    <3>1. Len(x) = 2 /\ 0 \in Nat /\ 0 = Len(z)
      BY <1>1, <2>1
    <3>2. InParts((x \o z) \o s, x, z, s, 0, Len(s))
      BY <3>1, EscapeParts, Zenon
    <3>3. InParts(p, x, z, s, 0, w)
      BY <1>4, <2>2, <3>2, Zenon
    <3>. QED BY <1>1, <3>3, Zenon DEF InParts
  <2>4. ASSUME Wide(u) PROVE Len(p) = 6 /\ IsEscape(p, 1) /\ UnitAt(p, 1) = u
    <3>1. w = 4
      BY <1>3, <1>6, <2>4, NarrowWidth, Zenon
    <3>2. 1 \in 1 .. 4 /\ 2 \in 1 .. 4 /\ 3 \in 1 .. 4 /\ 4 \in 1 .. 4
      OBVIOUS
    <3>3. p[2 + 0 + 1] = s[1] /\ p[2 + 0 + 2] = s[2] /\ p[2 + 0 + 3] = s[3] /\ p[2 + 0 + 4] = s[4]
      BY <2>3, <3>1, <3>2, Zenon
    <3>4. 2 + 0 + 1 = 3 /\ 2 + 0 + 2 = 4 /\ 2 + 0 + 3 = 5 /\ 2 + 0 + 4 = 6
      OBVIOUS
    <3>5. 4 - 1 \in 0 .. 3 /\ 4 - 2 \in 0 .. 3 /\ 4 - 3 \in 0 .. 3 /\ 4 - 4 \in 0 .. 3
      OBVIOUS
    <3>a. PICK a \in 0 .. 15 : a = (u \div 16 ^ (4 - 1)) % 16
      BY <3>5, DigitOfUnit, Zenon
    <3>b. PICK b \in 0 .. 15 : b = (u \div 16 ^ (4 - 2)) % 16
      BY <3>5, DigitOfUnit, Zenon
    <3>c. PICK c \in 0 .. 15 : c = (u \div 16 ^ (4 - 3)) % 16
      BY <3>5, DigitOfUnit, Zenon
    <3>d. PICK d \in 0 .. 15 : d = (u \div 16 ^ (4 - 4)) % 16
      BY <3>5, DigitOfUnit, Zenon
    <3>6. Value(a, b, c, d) = u
      <4>1. 16 ^ (4 - 1) = 4096 /\ 16 ^ (4 - 2) = 256 /\ 16 ^ (4 - 3) = 16 /\ 16 ^ (4 - 4) = 1
        OBVIOUS
      <4>2. Value((u \div 4096) % 16, (u \div 256) % 16, (u \div 16) % 16, (u \div 1) % 16) = u
        BY UnitRange, FourDigits
      <4>. QED BY <3>a, <3>b, <3>c, <3>d, <4>1, <4>2
    <3>7. /\ s[1] = LowerDigit((u \div 16 ^ (4 - 1)) % 16)
          /\ s[2] = LowerDigit((u \div 16 ^ (4 - 2)) % 16)
          /\ s[3] = LowerDigit((u \div 16 ^ (4 - 3)) % 16)
          /\ s[4] = LowerDigit((u \div 16 ^ (4 - 4)) % 16)
      BY <1>4, <3>1, <3>2, Zenon
    <3>8. s[1] = LowerDigit(a) /\ s[2] = LowerDigit(b) /\ s[3] = LowerDigit(c) /\ s[4] = LowerDigit(d)
      BY <3>a, <3>b, <3>c, <3>d, <3>7, Zenon
    <3>9. HasDigits(p, a, b, c, d)
      BY <3>3, <3>4, <3>8, LowDigitFacts, Zenon DEF HasDigits
    <3>10. IsEscape(p, 1) /\ UnitAt(p, 1) = u
      BY <3>6, <3>9, FirstEscape, Zenon
    <3>. QED BY <2>3, <3>1, <3>10
  <2>5. ASSUME ~Wide(u) PROVE Len(p) \in {4, 5}
    <3>1. w \in {2, 3}
      BY <1>3, <1>6, <2>5, NarrowWidth, Zenon
    <3>. QED BY <2>3, <3>1
  <2>. QED BY <2>3, <2>4, <2>5, Zenon
<1>7. CASE ~(u > 128)
  <2>1. PICK z \in Seq(Int) : z = <<UpperDigit(0), UpperDigit(0)>> /\ Len(z) = 2
                              /\ z[1] = 48 /\ z[2] = 48
    <3>1. /\ <<48, 48>> \in Seq(Int) /\ Len(<<48, 48>>) = 2
          /\ <<48, 48>>[1] = 48 /\ <<48, 48>>[2] = 48
      OBVIOUS
    <3>2. PICK z : z = <<48, 48>>
      OBVIOUS
    <3>. QED BY <1>0, <3>1, <3>2
  <2>2. p = (x \o z) \o s
    BY <1>1, <1>2, <1>7, <2>1, Zenon DEF Part
  <2>3. /\ p \in Seq(Int) /\ Len(p) = 2 + 2 + w /\ p[1] = Backslash
        /\ \A j \in 1 .. 2 : p[2 + j] = z[j]
        /\ \A j \in 1 .. w : p[2 + 2 + j] = s[j]
    <3>1. Len(x) = 2 /\ 2 \in Nat /\ 2 = Len(z)
      BY <1>1, <2>1
    <3>2. InParts((x \o z) \o s, x, z, s, 2, Len(s))
      BY <3>1, EscapeParts, Zenon
    <3>3. InParts(p, x, z, s, 2, w)
      BY <1>4, <2>2, <3>2, Zenon
    <3>. QED BY <1>1, <3>3, Zenon DEF InParts
  <2>4. ASSUME Wide(u) PROVE Len(p) = 6 /\ IsEscape(p, 1) /\ UnitAt(p, 1) = u
    <3>1. w = 2 /\ u \in 0 .. 255 /\ ~(u < 16)
      BY <1>3, <1>7, <2>4, NarrowWidth, Zenon
    <3>2. 1 \in 1 .. 2 /\ 2 \in 1 .. 2
      OBVIOUS
    <3>3. p[2 + 1] = z[1] /\ p[2 + 2] = z[2] /\ p[2 + 2 + 1] = s[1] /\ p[2 + 2 + 2] = s[2]
      BY <2>3, <3>1, <3>2, Zenon
    <3>4. 2 + 1 = 3 /\ 2 + 2 = 4 /\ 2 + 2 + 1 = 5 /\ 2 + 2 + 2 = 6
      OBVIOUS
    <3>5. /\ s[1] = LowerDigit((u \div 16 ^ (2 - 1)) % 16)
          /\ s[2] = LowerDigit((u \div 16 ^ (2 - 2)) % 16)
      BY <1>4, <3>1, <3>2, Zenon
    <3>6. 16 ^ (2 - 1) = 16 /\ 16 ^ (2 - 2) = 1
      OBVIOUS
    <3>7. PICK c \in 0 .. 15 : c = u \div 16
      BY <3>1, Halves, Zenon
    <3>8. PICK d \in 0 .. 15 : d = u % 16
      BY <3>1, Halves, Zenon
    <3>9. (u \div 16) % 16 = c /\ (u \div 1) % 16 = d /\ 16 * c + d = u
      <4>1. c % 16 = c
        OBVIOUS
      <4>3. u \div 1 = u
        <5>1. \A v \in Int : v \div 1 = v
          OBVIOUS
        <5>. QED BY <5>1, UnitType, Zenon
      <4>2. 16 * c + d = u
        BY <3>1, <3>7, <3>8, Halves, Zenon
      <4>. QED BY <3>7, <3>8, <4>1, <4>2, <4>3, Zenon
    <3>10. s[1] = LowerDigit(c) /\ s[2] = LowerDigit(d)
      BY <3>5, <3>6, <3>9
    <3>11. Digit(p[3]) = 0 /\ Digit(p[4]) = 0 /\ Digit(p[5]) = c /\ Digit(p[6]) = d
      <4>1. p[3] = 48 /\ p[4] = 48 /\ p[5] = s[1] /\ p[6] = s[2]
        BY <2>1, <3>3, <3>4
      <4>2. Digit(s[1]) = c /\ Digit(s[2]) = d
        BY <3>10, LowDigitFacts, Zenon
      <4>. QED BY <1>0, <4>1, <4>2, Zenon
    <3>12. IsEscape(p, 1) /\ UnitAt(p, 1) = u
      <4>1. 0 \in 0 .. 15 /\ Value(0, 0, c, d) = 16 * c + d
        BY DEF Value
      <4>2. HasDigits(p, 0, 0, c, d)
        BY <3>11, <4>1, Zenon DEF HasDigits
      <4>. QED BY <3>9, <4>1, <4>2, FirstEscape, Zenon
    <3>. QED BY <2>3, <3>1, <3>12
  <2>5. ASSUME ~Wide(u) PROVE Len(p) \in {4, 5}
    <3>1. w = 1
      BY <1>3, <1>7, <2>5, NarrowWidth, Zenon
    <3>. QED BY <2>3, <3>1
  <2>. QED BY <2>3, <2>4, <2>5, Zenon
<1>. QED
  BY <1>6, <1>7, Zenon

\* The escapes of a text of one code unit more.
LEMMA EscapesAppend ==
  ASSUME NEW t \in Seq(AllUnits), NEW e \in AllUnits
  PROVE  /\ Join(Parts(t)) \in Seq(Int)
         /\ Join(Parts(Append(t, e))) = Join(Parts(t)) \o Part(e)
<1>0. \A v \in Seq(AllUnits) : /\ Parts(v) \in Seq(Seq(Int)) /\ Len(Parts(v)) = Len(v)
                               /\ \A k \in 1 .. Len(v) : Parts(v)[k] = Part(v[k])
  <2> SUFFICES ASSUME NEW v \in Seq(AllUnits)
               PROVE  /\ Parts(v) \in Seq(Seq(Int)) /\ Len(Parts(v)) = Len(v)
                      /\ \A k \in 1 .. Len(v) : Parts(v)[k] = Part(v[k])
    BY Zenon
  <2>1. Len(v) \in Nat /\ \A k \in 1 .. Len(v) : v[k] \in AllUnits
    BY ElementOfSeq, LenProperties, Zenon
  <2>2. \A k \in 1 .. Len(v) : Part(v[k]) \in Seq(Int)
    BY <2>1, PartFacts, Zenon
  <2>3. Parts(v) \in Seq(Seq(Int)) /\ Len(Parts(v)) = Len(v)
    BY <2>1, <2>2 DEF Parts
  <2>4. \A k \in 1 .. Len(v) : Parts(v)[k] = Part(v[k])
    BY Zenon DEF Parts
  <2>. QED BY <2>3, <2>4
<1>1. PICK u \in Seq(AllUnits) : u = Append(t, e)
  BY AppendProperties, Zenon
<1>2. PICK n \in Nat : n = Len(t)
  BY LenProperties, Zenon
<1>3. Len(u) = n + 1 /\ u[n + 1] = e /\ \A k \in 1 .. n : u[k] = t[k]
  <2>1. Extends(u, t, e)
    BY <1>1, AppendExtends, Zenon
  <2>. QED BY <1>2, <2>1, Zenon DEF Extends
<1>4. PICK a \in Seq(Seq(Int)) : a = Parts(t) /\ Len(a) = n
  BY <1>0, <1>2, Zenon
<1>5. PICK b \in Seq(Seq(Int)) : b = Parts(u) /\ Len(b) = n + 1
  BY <1>0, <1>3, Zenon
<1>6. PICK c \in Seq(Int) : c = Part(e)
  BY PartFacts, Zenon
<1>7. /\ Append(a, c) \in Seq(Seq(Int)) /\ Len(Append(a, c)) = n + 1
      /\ Append(a, c)[n + 1] = c /\ \A k \in 1 .. n : Append(a, c)[k] = a[k]
  <2>1. Append(a, c) \in Seq(Seq(Int)) /\ Extends(Append(a, c), a, c)
    BY AppendExtends, Zenon
  <2>. QED BY <1>4, <2>1, Zenon DEF Extends
<1>8. \A k \in 1 .. n + 1 : k \in 1 .. n \/ k = n + 1
  OBVIOUS
<1>9. \A k \in 1 .. n : b[k] = Append(a, c)[k]
  <2>1. \A k \in 1 .. n : k \in 1 .. n + 1
    OBVIOUS
  <2>2. \A k \in 1 .. n : b[k] = Part(u[k]) /\ a[k] = Part(t[k])
    BY <1>0, <1>2, <1>3, <1>4, <1>5, <2>1, Zenon
  <2>. QED BY <1>3, <1>7, <2>2, Zenon
<1>10. b[n + 1] = Append(a, c)[n + 1]
  <2>1. n + 1 \in 1 .. n + 1
    OBVIOUS
  <2>. QED BY <1>0, <1>3, <1>5, <1>6, <1>7, <2>1, Zenon
<1>11. b = Append(a, c)
  <2>1. \A k \in 1 .. Len(b) : b[k] = Append(a, c)[k]
    BY <1>5, <1>8, <1>9, <1>10, Zenon
  <2>. QED BY <1>5, <1>7, <2>1, SeqEqual, Zenon
<1>. QED
  BY <1>1, <1>4, <1>5, <1>6, <1>11, JoinAppend, JoinType, Zenon

\* What has been written stays as it is,
LEMMA EscapeKept ==
  ASSUME NEW h \in Seq(Int), NEW p \in Seq(Int), NEW k \in Nat, k # 0, 6 * k <= Len(h)
  PROVE  (IsEscape(h \o p, k) <=> IsEscape(h, k)) /\ UnitAt(h \o p, k) = UnitAt(h, k)
<1>1. PICK c : c = h \o p
  OBVIOUS
<1>2. \A j \in 1 .. Len(h) : c[j] = h[j]
  BY <1>1, ConcatElements, Zenon DEF IsConcat
<1>3. /\ 6 * k - 3 \in 1 .. Len(h) /\ 6 * k - 2 \in 1 .. Len(h)
      /\ 6 * k - 1 \in 1 .. Len(h) /\ 6 * k \in 1 .. Len(h)
  OBVIOUS
<1>4. /\ c[6 * k - 3] = h[6 * k - 3] /\ c[6 * k - 2] = h[6 * k - 2]
      /\ c[6 * k - 1] = h[6 * k - 1] /\ c[6 * k] = h[6 * k]
  BY <1>2, <1>3, Zenon
<1>5. (IsEscape(c, k) <=> IsEscape(h, k)) /\ UnitAt(c, k) = UnitAt(h, k)
  BY <1>4 DEF IsEscape, UnitAt
<1>. QED
  BY <1>1, <1>5, Zenon

\* six chars behind whole escapes are the next one,
LEMMA EscapeAdded ==
  ASSUME NEW h \in Seq(Int), NEW p \in Seq(Int), NEW n \in Nat, Len(h) = 6 * n, Len(p) = 6
  PROVE  (IsEscape(h \o p, n + 1) <=> IsEscape(p, 1)) /\ UnitAt(h \o p, n + 1) = UnitAt(p, 1)
<1>1. PICK c : c = h \o p
  OBVIOUS
<1>2. \A j \in 1 .. 6 : c[6 * n + j] = p[j]
  <2>1. IsConcat(c, h, p, 6 * n, 6)
    BY <1>1, ConcatElements, Zenon
  <2>. QED BY <2>1, Zenon DEF IsConcat
<1>3. /\ 6 * (n + 1) - 3 = 6 * n + 3 /\ 6 * (n + 1) - 2 = 6 * n + 4
      /\ 6 * (n + 1) - 1 = 6 * n + 5 /\ 6 * (n + 1) = 6 * n + 6
      /\ 6 * 1 - 3 = 3 /\ 6 * 1 - 2 = 4 /\ 6 * 1 - 1 = 5 /\ 6 * 1 = 6
  OBVIOUS
<1>4. /\ c[6 * n + 3] = p[3] /\ c[6 * n + 4] = p[4]
      /\ c[6 * n + 5] = p[5] /\ c[6 * n + 6] = p[6]
  BY <1>2, 3 \in 1 .. 6, 4 \in 1 .. 6, 5 \in 1 .. 6, 6 \in 1 .. 6, Zenon
<1>5. /\ c[6 * (n + 1) - 3] = p[6 * 1 - 3] /\ c[6 * (n + 1) - 2] = p[6 * 1 - 2]
      /\ c[6 * (n + 1) - 1] = p[6 * 1 - 1] /\ c[6 * (n + 1)] = p[6 * 1]
  BY <1>3, <1>4
<1>6. (IsEscape(c, n + 1) <=> IsEscape(p, 1)) /\ UnitAt(c, n + 1) = UnitAt(p, 1)
  BY <1>5, Zenon DEF IsEscape, UnitAt
<1>. QED
  BY <1>1, <1>6, Zenon

\* and behind four or five chars of an escape the next one puts its backslash
\* in the place of a digit.
LEMMA EscapeBroken ==
  ASSUME NEW h \in Seq(Int), NEW p \in Seq(Int), NEW m \in Nat,
         Len(h) = 6 * m + 4 \/ Len(h) = 6 * m + 5, Len(p) >= 1, p[1] = Backslash
  PROVE  ~IsEscape(h \o p, m + 1)
<1>1. PICK c : c = h \o p
  OBVIOUS
<1>2. c[Len(h) + 1] = Backslash
  <2>1. IsConcat(c, h, p, Len(h), Len(p))
    BY <1>1, ConcatElements, Zenon
  <2>2. 1 \in 1 .. Len(p)
    BY LenProperties
  <2>. QED BY <2>1, <2>2, Zenon DEF IsConcat
<1>3. Digit(c[Len(h) + 1]) = -1
  BY <1>2 DEF Digit, Backslash
<1>4. Len(h) + 1 = 6 * (m + 1) - 1 \/ Len(h) + 1 = 6 * (m + 1)
  <2>1. (6 * m + 4) + 1 = 6 * (m + 1) - 1 /\ (6 * m + 5) + 1 = 6 * (m + 1)
    OBVIOUS
  <2>. QED BY <2>1, Zenon
<1>5. ~(Digit(c[Len(h) + 1]) >= 0)
  BY <1>3
<1>6. ~IsEscape(c, m + 1)
  BY <1>4, <1>5, Zenon DEF IsEscape
<1>. QED
  BY <1>1, <1>6, Zenon

\* How far the escapes h of a text t can be read: to the end; up to a last
\* one that is cut; or not beyond one that the next one has broken.
AllRead(h, t, m) == \A k \in 1 .. m : IsEscape(h, k) /\ UnitAt(h, k) = t[k]
AllWide(t, m) == \A k \in 1 .. m : Wide(t[k])
Whole(t, h) == Len(h) = 6 * Len(t) /\ AllRead(h, t, Len(t)) /\ AllWide(t, Len(t))
Cut(t, h) ==
  \E m \in Nat : /\ Len(t) = m + 1 /\ ~Wide(t[m + 1]) /\ AllWide(t, m)
                 /\ Len(h) = 6 * m + 4 \/ Len(h) = 6 * m + 5
                 /\ AllRead(h, t, m)
Broken(t, h) ==
  \E i \in 1 .. Len(t) : i < Len(t) /\ ~Wide(t[i]) /\ 6 * i <= Len(h) /\ ~IsEscape(h, i)

\* What has been read stays read.
LEMMA ReadKept ==
  ASSUME NEW t \in Seq(AllUnits), NEW e \in AllUnits, NEW h \in Seq(Int), NEW p \in Seq(Int),
         NEW m \in Nat, m <= Len(t), 6 * m <= Len(h)
  PROVE  /\ AllRead(h, t, m) => AllRead(h \o p, Append(t, e), m)
         /\ AllWide(t, m) => AllWide(Append(t, e), m)
<1>1. \A k \in 1 .. m : k \in 1 .. Len(t) /\ k \in Nat /\ k # 0 /\ 6 * k <= Len(h)
  <2>1. PICK a \in Nat : a = Len(t)
    BY LenProperties, Zenon
  <2>2. PICK b \in Nat : b = Len(h)
    BY LenProperties, Zenon
  <2>3. m <= a /\ 6 * m <= b
    BY <2>1, <2>2, Zenon
  <2>4. \A k \in 1 .. m : k \in 1 .. a /\ k \in Nat /\ k # 0 /\ 6 * k <= b
    BY <2>3
  <2>. QED BY <2>1, <2>2, <2>4, Zenon
<1>2. \A k \in 1 .. Len(t) : Append(t, e)[k] = t[k]
  <2>1. Extends(Append(t, e), t, e)
    BY AppendExtends, Zenon
  <2>. QED BY <2>1, Zenon DEF Extends
<1>3. \A k \in 1 .. m : (IsEscape(h \o p, k) <=> IsEscape(h, k)) /\ UnitAt(h \o p, k) = UnitAt(h, k)
  BY <1>1, EscapeKept, Zenon
<1>. QED
  BY <1>1, <1>2, <1>3, Zenon DEF AllRead, AllWide

\* One code unit more, after escapes that are all read.
LEMMA WholeNext ==
  ASSUME NEW t \in Seq(AllUnits), NEW e \in AllUnits, NEW h \in Seq(Int),
         NEW p \in Seq(Int), p = Part(e), Whole(t, h)
  PROVE  Whole(Append(t, e), h \o p) \/ Cut(Append(t, e), h \o p)
<1>1. PICK n \in Nat : n = Len(t)
  BY LenProperties, Zenon
<1>2. PICK u \in Seq(AllUnits) : u = Append(t, e)
  BY AppendProperties, Zenon
<1>3. Len(u) = n + 1 /\ u[n + 1] = e /\ \A k \in 1 .. n : u[k] = t[k]
  <2>1. Extends(u, t, e)
    BY <1>2, AppendExtends, Zenon
  <2>. QED BY <1>1, <2>1, Zenon DEF Extends
<1>4. PICK c \in Seq(Int) : c = h \o p /\ Len(c) = Len(h) + Len(p)
  BY ConcatElements, Zenon DEF IsConcat
<1>5. Len(h) = 6 * n /\ AllRead(h, t, n) /\ AllWide(t, n)
  BY <1>1, Zenon DEF Whole
<1>6. AllRead(c, u, n) /\ AllWide(u, n)
  <2>1. n <= Len(t) /\ 6 * n <= Len(h)
    BY <1>1, <1>5
  <2>. QED BY <1>2, <1>4, <1>5, <2>1, ReadKept, Zenon
<1>7. CASE Wide(e)
  <2>1. Len(p) = 6 /\ IsEscape(p, 1) /\ UnitAt(p, 1) = e
    BY <1>7, PartFacts, Zenon
  <2>2. IsEscape(c, n + 1) /\ UnitAt(c, n + 1) = u[n + 1]
    BY <1>3, <1>4, <1>5, <2>1, EscapeAdded, Zenon
  <2>3. \A k \in 1 .. n + 1 : k \in 1 .. n \/ k = n + 1
    OBVIOUS
  <2>4. AllRead(c, u, n + 1) /\ AllWide(u, n + 1)
    BY <1>3, <1>6, <1>7, <2>2, <2>3, Zenon DEF AllRead, AllWide
  <2>5. Len(c) = 6 * (n + 1)
    BY <1>4, <1>5, <2>1
  <2>6. Whole(u, c)
    BY <1>3, <2>4, <2>5, Zenon DEF Whole
  <2>. QED BY <1>2, <1>4, <2>6, Zenon
<1>8. CASE ~Wide(e)
  <2>1. Len(p) = 4 \/ Len(p) = 5
    BY <1>8, PartFacts, Zenon
  <2>2. Len(c) = 6 * n + 4 \/ Len(c) = 6 * n + 5
    BY <1>4, <1>5, <2>1, Zenon
  <2>3. Cut(u, c)
    BY <1>3, <1>6, <1>8, <2>2, Zenon DEF Cut
  <2>. QED BY <1>2, <1>4, <2>3, Zenon
<1>. QED
  BY <1>7, <1>8, Zenon

\* One code unit more, after an escape that is cut: it breaks it.
LEMMA CutNext ==
  ASSUME NEW t \in Seq(AllUnits), NEW e \in AllUnits, NEW h \in Seq(Int),
         NEW p \in Seq(Int), p = Part(e), Cut(t, h)
  PROVE  Broken(Append(t, e), h \o p)
<1>1. PICK m \in Nat : /\ Len(t) = m + 1 /\ ~Wide(t[m + 1])
                       /\ Len(h) = 6 * m + 4 \/ Len(h) = 6 * m + 5
  BY Zenon DEF Cut
<1>2. PICK u \in Seq(AllUnits) : u = Append(t, e)
  BY AppendProperties, Zenon
<1>3. Len(u) = Len(t) + 1 /\ \A k \in 1 .. Len(t) : u[k] = t[k]
  <2>1. Extends(u, t, e)
    BY <1>2, AppendExtends, Zenon
  <2>. QED BY <2>1, Zenon DEF Extends
<1>4. PICK c \in Seq(Int) : c = h \o p /\ Len(c) = Len(h) + Len(p)
  BY ConcatElements, Zenon DEF IsConcat
<1>5. p[1] = Backslash /\ (Len(p) = 6 \/ Len(p) = 4 \/ Len(p) = 5)
  BY PartFacts, Zenon
<1>6. PICK l \in Nat : l = Len(p)
  BY LenProperties, Zenon
<1>7. l = 6 \/ l = 4 \/ l = 5
  BY <1>5, <1>6, Zenon
<1>8. Len(p) >= 1
  BY <1>6, <1>7
<1>9. ~IsEscape(c, m + 1)
  BY <1>1, <1>4, <1>5, <1>8, EscapeBroken, Zenon
<1>10. 6 * (m + 1) <= Len(c)
  <2>1. Len(c) = 6 * m + 4 + l \/ Len(c) = 6 * m + 5 + l
    BY <1>1, <1>4, <1>6, Zenon
  <2>2. 6 * (m + 1) <= 6 * m + 4 + l /\ 6 * (m + 1) <= 6 * m + 5 + l
    BY <1>7
  <2>. QED BY <2>1, <2>2, Zenon
<1>11. m + 1 \in 1 .. Len(t) /\ m + 1 \in 1 .. Len(u) /\ m + 1 < Len(u)
  BY <1>1, <1>3
<1>12. ~Wide(u[m + 1])
  BY <1>1, <1>3, <1>11, Zenon
<1>13. Broken(u, c)
  BY <1>9, <1>10, <1>11, <1>12, Zenon DEF Broken
<1>. QED
  BY <1>2, <1>4, <1>13, Zenon

\* A broken escape stays broken.
LEMMA BrokenNext ==
  ASSUME NEW t \in Seq(AllUnits), NEW e \in AllUnits, NEW h \in Seq(Int),
         NEW p \in Seq(Int), Broken(t, h)
  PROVE  Broken(Append(t, e), h \o p)
<1>1. PICK i \in 1 .. Len(t) :
        i < Len(t) /\ ~Wide(t[i]) /\ 6 * i <= Len(h) /\ ~IsEscape(h, i)
  BY Zenon DEF Broken
<1>2. PICK u \in Seq(AllUnits) : u = Append(t, e)
  BY AppendProperties, Zenon
<1>3. Len(u) = Len(t) + 1 /\ u[i] = t[i]
  <2>1. Extends(u, t, e)
    BY <1>2, AppendExtends, Zenon
  <2>. QED BY <2>1, Zenon DEF Extends
<1>4. PICK c \in Seq(Int) : c = h \o p /\ Len(c) = Len(h) + Len(p)
  BY ConcatElements, Zenon DEF IsConcat
<1>5. i \in Nat /\ i # 0 /\ i \in 1 .. Len(u) /\ i < Len(u) /\ 6 * i <= Len(c)
  <2>1. Len(t) \in Nat /\ Len(h) \in Nat /\ Len(p) \in Nat
    BY LenProperties, Zenon
  <2>2. i \in Nat /\ i # 0
    BY <2>1
  <2>3. i \in 1 .. Len(u) /\ i < Len(u)
    BY <1>3, <2>1
  <2>4. 6 * i <= Len(c)
    BY <1>1, <1>4, <2>1, <2>2
  <2>. QED BY <2>2, <2>3, <2>4
<1>6. ~IsEscape(c, i)
  BY <1>1, <1>4, <1>5, EscapeKept, Zenon
<1>7. Broken(u, c)
  BY <1>1, <1>3, <1>5, <1>6, Zenon DEF Broken
<1>. QED
  BY <1>2, <1>4, <1>7, Zenon

\* One of the three holds of every text.
LEMMA EscapesShape ==
  ASSUME NEW t \in Seq(AllUnits)
  PROVE  LET h == Join(Parts(t)) IN h \in Seq(Int) /\ (Whole(t, h) \/ Cut(t, h) \/ Broken(t, h))
<1> DEFINE T == {v \in Seq(AllUnits) :
                   LET h == Join(Parts(v))
                   IN h \in Seq(Int) /\ (Whole(v, h) \/ Cut(v, h) \/ Broken(v, h))}
<1>1. <<>> \in T
  <2>1. PICK v \in Seq(AllUnits) : v = <<>> /\ Len(v) = 0
    BY EmptySeq, Zenon
  <2>2. Parts(v) = <<>>
    BY <2>1 DEF Parts
  <2>3. PICK h \in Seq(Int) : h = Join(Parts(v)) /\ Len(h) = 0
    BY <2>2, JoinEmpty, EmptySeq, Zenon
  <2>4. 6 * 0 = 0 /\ \A k \in 1 .. 0 : FALSE
    OBVIOUS
  <2>5. Whole(v, h)
    BY <2>1, <2>3, <2>4, Zenon DEF Whole, AllRead, AllWide
  <2>. QED BY <2>1, <2>3, <2>5, Zenon
<1>2. ASSUME NEW v \in Seq(AllUnits), NEW e \in AllUnits, v \in T PROVE Append(v, e) \in T
  <2>1. PICK h \in Seq(Int) : h = Join(Parts(v)) /\ (Whole(v, h) \/ Cut(v, h) \/ Broken(v, h))
    BY <1>2, Zenon
  <2>2. PICK p \in Seq(Int) : p = Part(e)
    BY PartFacts, Zenon
  <2>3. Append(v, e) \in Seq(AllUnits)
    BY AppendProperties, Zenon
  <2>4. Join(Parts(Append(v, e))) = h \o p /\ h \o p \in Seq(Int)
    BY <2>1, <2>2, EscapesAppend, ConcatElements, Zenon DEF IsConcat
  <2>5. \/ Whole(Append(v, e), h \o p) \/ Cut(Append(v, e), h \o p)
        \/ Broken(Append(v, e), h \o p)
    <3>1. CASE Whole(v, h)
      BY <2>2, <3>1, WholeNext, Zenon
    <3>2. CASE Cut(v, h)
      BY <2>2, <3>2, CutNext, Zenon
    <3>3. CASE Broken(v, h)
      BY <3>3, BrokenNext, Zenon
    <3>. QED BY <2>1, <3>1, <3>2, <3>3, Zenon
  <2>. QED BY <2>3, <2>4, <2>5, Zenon
<1>3. Seq(AllUnits) \subseteq T
  <2> HIDE DEF T
  <2>. QED BY <1>1, <1>2, SeqInd, Zenon
<1>. QED
  BY <1>3, Zenon

\* The property of every text.
LEMMA UnicodeRoundTripOf ==
  ASSUME text \in Seq(AllUnits)
  PROVE  UnicodeRoundTrip
<1> DEFINE back == unicodeToString(strToUnicode(text))
           narrow == {i \in DOMAIN text : ~Wide(text[i])}
<1> SUFFICES /\ back = [thrown |-> FALSE, text |-> text] <=> narrow = {}
             /\ back.thrown <=> \E i \in narrow : i < Len(text)
  BY Zenon DEF UnicodeRoundTrip
<1>1. PICK t \in Seq(AllUnits) : t = text
  BY Zenon
<1>2. PICK n \in Nat : n = Len(t) /\ DOMAIN t = 1 .. n
  BY LenProperties, Zenon
<1>3. PICK h \in Seq(Int) : h = Join(Parts(t)) /\ (Whole(t, h) \/ Cut(t, h) \/ Broken(t, h))
  BY EscapesShape, Zenon
<1>4. back = unicodeToString(h)
  BY <1>1, <1>2, <1>3, Zenon DEF strToUnicode, Parts, Part
<1>5. \A i : i \in narrow <=> i \in 1 .. n /\ ~Wide(t[i])
  BY <1>1, <1>2, Zenon
<1>6. PICK c \in Nat : c = Len(h) \div 6
  OBVIOUS
<1>7. back = IF \A i \in 1 .. c : IsEscape(h, i)
             THEN [thrown |-> FALSE, text |-> [i \in 1 .. c |-> UnitAt(h, i)]]
             ELSE [thrown |-> TRUE, text |-> <<>>]
  BY <1>4, <1>6, UnicodeOf, Zenon
<1> HIDE DEF back, narrow
<1>8. CASE Whole(t, h)
  <2>1. Len(h) = 6 * n /\ AllRead(h, t, n) /\ AllWide(t, n)
    BY <1>2, <1>8, Zenon DEF Whole
  <2>2. c = n
    BY <1>6, <2>1
  <2>3. \A i \in 1 .. n : IsEscape(h, i) /\ UnitAt(h, i) = t[i]
    BY <2>1, Zenon DEF AllRead
  <2>4. t = [i \in 1 .. n |-> t[i]]
    <3>1. t = [i \in 1 .. Len(t) |-> t[i]]
      OBVIOUS
    <3>. QED BY <1>2, <3>1, Zenon
  <2>5. back = [thrown |-> FALSE, text |-> t]
    BY <1>7, <2>2, <2>3, <2>4, Zenon
  <2>6. narrow = {}
    BY <1>5, <2>1, Zenon DEF AllWide
  <2>7. back.thrown = FALSE
    BY <2>5
  <2>. QED BY <1>1, <2>5, <2>6, <2>7, Zenon
<1>9. CASE Cut(t, h)
  <2>1. PICK m \in Nat : /\ n = m + 1 /\ ~Wide(t[m + 1]) /\ AllWide(t, m)
                         /\ Len(h) = 6 * m + 4 \/ Len(h) = 6 * m + 5
                         /\ AllRead(h, t, m)
    BY <1>2, <1>9, Zenon DEF Cut
  <2>2. c = m
    <3>1. (6 * m + 4) \div 6 = m /\ (6 * m + 5) \div 6 = m
      OBVIOUS
    <3>. QED BY <1>6, <2>1, <3>1, Zenon
  <2>3. \A i \in 1 .. m : IsEscape(h, i)
    BY <2>1, Zenon DEF AllRead
  <2>4. PICK f : f = [i \in 1 .. m |-> UnitAt(h, i)]
    OBVIOUS
  <2>5. back = [thrown |-> FALSE, text |-> f]
    BY <1>7, <2>2, <2>3, <2>4, Zenon
  <2>6. f # t
    <3>1. DOMAIN f = 1 .. m
      BY <2>4, Zenon
    <3>2. m + 1 \in 1 .. n /\ m + 1 \notin 1 .. m
      BY <2>1
    <3>. QED BY <1>2, <3>1, <3>2, Zenon
  <2>7. back.thrown = FALSE /\ back # [thrown |-> FALSE, text |-> t]
    BY <2>5, <2>6
  <2>8. narrow # {}
    <3>1. m + 1 \in 1 .. n
      BY <2>1
    <3>. QED BY <1>5, <2>1, <3>1, Zenon
  <2>9. ~(\E i \in narrow : i < Len(text))
    <3>1. \A i \in 1 .. n : i < n => i \in 1 .. m
      BY <2>1
    <3>. QED BY <1>1, <1>2, <1>5, <2>1, <3>1, Zenon DEF AllWide
  <2>. QED BY <1>1, <2>7, <2>8, <2>9, Zenon
<1>10. CASE Broken(t, h)
  <2>1. PICK i \in 1 .. n : i < n /\ ~Wide(t[i]) /\ 6 * i <= Len(h) /\ ~IsEscape(h, i)
    BY <1>2, <1>10, Zenon DEF Broken
  <2>2. i \in 1 .. c
    <3>1. PICK l \in Nat : l = Len(h)
      BY LenProperties, Zenon
    <3>2. 6 * i <= l /\ c = l \div 6 /\ i \in Int
      BY <1>6, <2>1, <3>1
    <3>3. i <= c
      BY <3>2
    <3>. QED BY <3>3
  <2>3. back = [thrown |-> TRUE, text |-> <<>>]
    BY <1>7, <2>1, <2>2, Zenon
  <2>4. back.thrown = TRUE /\ back # [thrown |-> FALSE, text |-> t]
    BY <2>3
  <2>5. i \in narrow /\ i < Len(text)
    BY <1>1, <1>2, <1>5, <2>1, Zenon
  <2>. QED BY <1>1, <2>4, <2>5, Zenon
<1>. QED
  BY <1>3, <1>8, <1>9, <1>10, Zenon DEF back, narrow

-----------------------------------------------------------------------------
(* The arrays and the texts that can be built.                             *)

CodecInv == bytes \in Seq(-128 .. 127) /\ text \in Seq(AllUnits)

\* Only bytes and code units are put into them.
THEOREM CodecInvHolds == Spec => []CodecInv
<1>0. Bytes \subseteq -128 .. 127 /\ Units \subseteq AllUnits
  BY CodecAssumption, Zenon DEF AllUnits
<1>1. Init => CodecInv
  BY EmptySeq, Zenon DEF Init, CodecInv
<1>2. CodecInv /\ [Next]_vars => CodecInv'
  <2> SUFFICES ASSUME CodecInv, [Next]_vars PROVE CodecInv'
    OBVIOUS
  <2>1. ASSUME NEW b \in Bytes, AddByte(b) PROVE CodecInv'
    <3>1. b \in -128 .. 127
      BY <1>0, Zenon
    <3>. QED BY <2>1, <3>1, AppendProperties, Zenon DEF CodecInv, AddByte
  <2>2. ASSUME NEW u \in Units, AddUnit(u) PROVE CodecInv'
    <3>1. u \in AllUnits
      BY <1>0, Zenon
    <3>. QED BY <2>2, <3>1, AppendProperties, Zenon DEF CodecInv, AddUnit
  <2>3. CASE UNCHANGED vars
    BY <2>3, Zenon DEF CodecInv, vars
  <2>. QED BY <2>1, <2>2, <2>3, Zenon DEF Next
<1>. QED
  BY <1>1, <1>2, PTL DEF Spec

\* byte2HexStr and hexStr2Bytes are inverse to each other, whether or not the
\* separators and a zero in front are there, and hexString2binaryString shows
\* the bits that getBit gives: for arrays of every length.
THEOREM HexRoundTripHolds == Spec => []HexRoundTrip
<1>1. CodecInv => HexRoundTrip
  BY HexRoundTripOf, Zenon DEF CodecInv
<1>. QED
  BY <1>1, CodecInvHolds, PTL

\* str2HexStr and hexStr2Str give an ASCII text of any length back once the
\* separators are removed, str2HexStr writes what byte2HexStr does, and digits
\* of lower case are read by hexStr2Bytes but as letters not by hexStr2Str.
THEOREM AsciiRoundTripHolds == Spec => []AsciiRoundTrip
<1>1. CodecInv => AsciiRoundTrip
  BY AsciiRoundTripOf, Zenon DEF CodecInv
<1>. QED
  BY <1>1, CodecInvHolds, PTL

\* A text of any length is read back from the escapes of strToUnicode exactly
\* if each has four digits, and unicodeToString throws exactly if one that has
\* not is followed by another.
THEOREM UnicodeRoundTripHolds == Spec => []UnicodeRoundTrip
<1>1. CodecInv => UnicodeRoundTrip
  BY UnicodeRoundTripOf, Zenon DEF CodecInv
<1>. QED
  BY <1>1, CodecInvHolds, PTL

\* Each bit of getCheckCode is the parity of that bit over the bytes checked,
\* of any number, and the code behind its bytes makes the code of it all 0.
THEOREM CheckCodeIsParityHolds == Spec => []CheckCodeIsParity
<1>1. CodecInv => CheckCodeIsParity
  BY CheckCodeIsParityOf, Zenon DEF CodecInv
<1>. QED
  BY <1>1, CodecInvHolds, PTL
=============================================================================
