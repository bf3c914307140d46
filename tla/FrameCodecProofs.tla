-------------------------- MODULE FrameCodecProofs --------------------------
(***************************************************************************)
(* Proofs about FrameCodec, for any limits, any number of frames and any   *)
(* way the stream is cut.                                                  *)
(***************************************************************************)
EXTENDS FrameCodec, SequenceTheorems, WellFoundedInduction, TLAPS

-----------------------------------------------------------------------------
(* Induction, as the search for a least counterexample *)

\* A set of natural numbers that is not empty has a least element.
LEMMA LeastElement ==
  ASSUME NEW T \in SUBSET Nat, T # {}
  PROVE  \E x \in T : \A y \in T : x <= y
<1> DEFINE R == {ss \in Nat \X Nat : ss[1] < ss[2]}
<1>1. IsWellFoundedOn(R, Nat)
  BY NatLessThanWellFounded DEF OpToRel
<1>2. \A x, y \in Nat : <<y, x>> \in R <=> y < x
  OBVIOUS
<1> HIDE DEF R
<1>3. PICK x \in T : \A y \in T : ~(<<y, x>> \in R)
  BY <1>1, WFMin
<1>4. \A y \in T : ~(y < x)
  BY <1>2, <1>3
<1>5. \A y \in T : x <= y
  BY <1>4
<1> QED
  BY <1>5

\* A set that has zero, and with each number the next one up to n, has all of these.
LEMMA Climb ==
  ASSUME NEW n \in Nat, NEW S, 0 \in S, \A i \in 0 .. n - 1 : i \in S => i + 1 \in S
  PROVE  0 .. n \subseteq S
<1> DEFINE T == {i \in 0 .. n : i \notin S}
<1>1. SUFFICES ASSUME T # {} PROVE FALSE
  OBVIOUS
<1>2. T \in SUBSET Nat
  OBVIOUS
<1>3. PICK x \in T : \A y \in T : x <= y
  BY <1>1, <1>2, LeastElement
<1>4. x # 0
  BY <1>3
<1>5. x - 1 \in 0 .. n - 1 /\ x - 1 \notin T
  BY <1>3, <1>4
<1>6. x - 1 \in S
  BY <1>5
<1> QED
  BY <1>3, <1>5, <1>6

-----------------------------------------------------------------------------
(* The pieces of a stream *)

\* What FlattenSeq computes for the first pieces of e.
IsFlattening(f, e, n) ==
    f = [i \in 1 .. n |-> IF i = 1 THEN e[i] ELSE f[i - 1] \o e[i]]

\* Each value from the one before.
LEMMA FlatteningStep ==
  ASSUME NEW f, NEW e, NEW n \in Nat, IsFlattening(f, e, n)
  PROVE  \A i \in 1 .. n : f[i] = IF i = 1 THEN e[i] ELSE f[i - 1] \o e[i]
<1> SUFFICES ASSUME NEW i \in 1 .. n
             PROVE  f[i] = IF i = 1 THEN e[i] ELSE f[i - 1] \o e[i]
  OBVIOUS
<1> QED
  BY DEF IsFlattening

\* Its recursion has a solution.
LEMMA FlatteningExists ==
  ASSUME NEW e, NEW n \in Nat
  PROVE  \E f : IsFlattening(f, e, n)
<1> DEFINE S == {m \in Nat : \E f : IsFlattening(f, e, m)}
<1>1. 0 \in S
  <2>1. IsFlattening([i \in 1 .. 0 |-> e], e, 0)
    BY DEF IsFlattening
  <2> QED
    BY <2>1
<1>2. ASSUME NEW m \in 0 .. n - 1, m \in S PROVE m + 1 \in S
  <2>1. PICK f : IsFlattening(f, e, m)
    BY <1>2
  <2> DEFINE last == IF m + 1 = 1 THEN e[m + 1] ELSE f[m] \o e[m + 1]
             g == [i \in 1 .. m + 1 |-> IF i = m + 1 THEN last ELSE f[i]]
  <2>2. g[m + 1] = IF m + 1 = 1 THEN e[m + 1] ELSE g[m] \o e[m + 1]
    OBVIOUS
  <2>3. ASSUME NEW i \in 1 .. m
        PROVE  g[i] = IF i = 1 THEN e[i] ELSE g[i - 1] \o e[i]
    <3>1. f[i] = IF i = 1 THEN e[i] ELSE f[i - 1] \o e[i]
      BY <2>1, FlatteningStep
    <3>2. g[i] = f[i] /\ (i # 1 => g[i - 1] = f[i - 1])
      OBVIOUS
    <3> QED
      BY <3>1, <3>2
  <2>4. g = [i \in 1 .. m + 1 |-> g[i]]
    OBVIOUS
  <2> HIDE DEF g
  <2>5. ASSUME NEW i \in 1 .. m + 1
        PROVE  g[i] = IF i = 1 THEN e[i] ELSE g[i - 1] \o e[i]
    <3>1. CASE i \in 1 .. m
      BY <2>3, <3>1
    <3>2. CASE i = m + 1
      <4>1. i - 1 = m
        BY <3>2
      <4> QED
        BY <2>2, <3>2, <4>1
    <3> QED
      BY <3>1, <3>2
  <2>6. IsFlattening(g, e, m + 1)
    BY <2>4, <2>5 DEF IsFlattening
  <2> QED
    BY <2>6
<1> HIDE DEF S
<1>3. 0 .. n \subseteq S
  BY <1>1, <1>2, Climb
<1>4. n \in S
  BY <1>3
<1> QED
  BY <1>4 DEF S

\* A longer one begins with it.
LEMMA FlatteningUnique ==
  ASSUME NEW e, NEW n \in Nat, NEW m \in Nat, n <= m,
         NEW f, IsFlattening(f, e, n), NEW g, IsFlattening(g, e, m)
  PROVE  \A i \in 1 .. n : f[i] = g[i]
<1> DEFINE S == {i \in 0 .. n : i = 0 \/ f[i] = g[i]}
<1>1. 0 \in S
  OBVIOUS
<1>2. ASSUME NEW i \in 0 .. n - 1, i \in S PROVE i + 1 \in S
  <2> DEFINE j == i + 1
  <2>1. j \in 1 .. n /\ j \in 1 .. m /\ j - 1 = i
    OBVIOUS
  <2> HIDE DEF j
  <2>2. f[j] = IF j = 1 THEN e[j] ELSE f[j - 1] \o e[j]
    BY <2>1, FlatteningStep
  <2>3. g[j] = IF j = 1 THEN e[j] ELSE g[j - 1] \o e[j]
    BY <2>1, FlatteningStep
  <2>4. i = 0 \/ f[i] = g[i]
    BY <1>2
  <2>5. f[j] = g[j]
    BY <2>1, <2>2, <2>3, <2>4
  <2> QED
    BY <2>1, <2>5 DEF j
<1> HIDE DEF S
<1>3. 0 .. n \subseteq S
  BY <1>1, <1>2, Climb
<1> QED
  BY <1>3 DEF S

\* FlattenSeq is the last value of it.
LEMMA FlattenSeqIs ==
  ASSUME NEW ss, NEW n \in Nat \ {0}, Len(ss) = n
  PROVE  \E f : IsFlattening(f, ss, n) /\ FlattenSeq(ss) = f[n]
<1> DEFINE f == CHOOSE g : IsFlattening(g, ss, n)
<1>1. IsFlattening(f, ss, n)
  BY FlatteningExists
<1>2. FlattenSeq(ss) = f[n]
  BY Zenon DEF FlattenSeq, IsFlattening
<1> QED
  BY <1>1, <1>2

\* The first k pieces of e, one after the other.
Prefix(e, k) == FlattenSeq([j \in 1 .. k |-> e[j]])

\* None of them is nothing.
LEMMA PrefixEmpty == ASSUME NEW e PROVE Prefix(e, 0) = <<>>
<1>1. [j \in 1 .. 0 |-> e[j]] = <<>>
  OBVIOUS
<1>2. Len(<<>>) = 0
  OBVIOUS
<1> QED
  BY <1>1, <1>2, Zenon DEF Prefix, FlattenSeq

\* One more of them comes last.
LEMMA PrefixGrows ==
  ASSUME NEW S, NEW n \in Nat, NEW e \in [1 .. n -> Seq(S)], NEW k \in 1 .. n
  PROVE  Prefix(e, k) = Prefix(e, k - 1) \o e[k]
<1> DEFINE d(i) == [j \in 1 .. i |-> e[j]]
<1>1. \A i \in 0 .. n : Len(d(i)) = i
  OBVIOUS
<1>2. ASSUME NEW i \in 1 .. n
      PROVE  \E f : IsFlattening(f, e, i) /\ Prefix(e, i) = f[i]
  <2> HIDE DEF d
  <2>0. Len(d(i)) = i
    BY <1>1
  <2>1. PICK f : IsFlattening(f, d(i), i) /\ FlattenSeq(d(i)) = f[i]
    BY <2>0, FlattenSeqIs
  <2> USE DEF d
  <2>2. IsFlattening(f, e, i)
    BY <2>1 DEF IsFlattening
  <2> QED
    BY <2>1, <2>2 DEF Prefix
<1>3. PICK g : IsFlattening(g, e, k) /\ Prefix(e, k) = g[k]
  BY <1>2
<1>4. g[k] = IF k = 1 THEN e[k] ELSE g[k - 1] \o e[k]
  BY <1>3, FlatteningStep
<1>5. CASE k = 1
  <2>1. Prefix(e, k - 1) = <<>>
    BY <1>5, PrefixEmpty
  <2> QED
    BY <1>3, <1>4, <1>5, <2>1, ConcatEmptySeq
<1>6. CASE k # 1
  <2>0. k - 1 \in 1 .. n
    BY <1>6
  <2>1. PICK f : IsFlattening(f, e, k - 1) /\ Prefix(e, k - 1) = f[k - 1]
    BY <1>2, <2>0
  <2>2. f[k - 1] = g[k - 1]
    BY <1>3, <1>6, <2>1, FlatteningUnique
  <2> QED
    BY <1>3, <1>4, <1>6, <2>1, <2>2
<1> QED
  BY <1>5, <1>6

\* They are a sequence of what the pieces are sequences of.
LEMMA PrefixType ==
  ASSUME NEW S, NEW n \in Nat, NEW e \in [1 .. n -> Seq(S)]
  PROVE  \A k \in 0 .. n : Prefix(e, k) \in Seq(S)
<1> DEFINE T == {k \in Nat : Prefix(e, k) \in Seq(S)}
<1>1. 0 \in T
  BY PrefixEmpty, EmptySeq
<1>2. ASSUME NEW k \in 0 .. n - 1, k \in T PROVE k + 1 \in T
  <2> DEFINE j == k + 1
  <2>1. j \in 1 .. n /\ j - 1 = k /\ e[j] \in Seq(S) /\ j \in Nat
    OBVIOUS
  <2> HIDE DEF j
  <2>2. Prefix(e, j) = Prefix(e, k) \o e[j]
    BY <2>1, PrefixGrows
  <2>3. Prefix(e, k) \in Seq(S)
    BY <1>2
  <2>4. Prefix(e, j) \in Seq(S)
    BY <2>1, <2>2, <2>3, ConcatProperties
  <2> QED
    BY <2>1, <2>4 DEF j
<1> HIDE DEF T
<1>3. 0 .. n \subseteq T
  BY <1>1, <1>2, Climb
<1> QED
  BY <1>3 DEF T

\* Where piece k ends.
Ends(e, k) == Len(Prefix(e, k))

\* The ends lie as far apart as the pieces are long.
LEMMA EndsGrow ==
  ASSUME NEW S, NEW n \in Nat, NEW e \in [1 .. n -> Seq(S)]
  PROVE  /\ Ends(e, 0) = 0
         /\ \A k \in 0 .. n : Ends(e, k) \in Nat
         /\ \A k \in 1 .. n : Ends(e, k) = Ends(e, k - 1) + Len(e[k])
<1>1. Ends(e, 0) = 0
  BY PrefixEmpty, EmptySeq DEF Ends
<1>2. \A k \in 0 .. n : Ends(e, k) \in Nat
  BY PrefixType, LenProperties DEF Ends
<1>3. ASSUME NEW k \in 1 .. n PROVE Ends(e, k) = Ends(e, k - 1) + Len(e[k])
  <2>1. k - 1 \in 0 .. n /\ e[k] \in Seq(S)
    OBVIOUS
  <2>2. Prefix(e, k - 1) \in Seq(S)
    BY <2>1, PrefixType
  <2>3. Prefix(e, k) = Prefix(e, k - 1) \o e[k]
    BY PrefixGrows
  <2> QED
    BY <2>1, <2>2, <2>3, ConcatProperties DEF Ends
<1> QED
  BY <1>1, <1>2, <1>3

\* A later piece ends no sooner.
LEMMA EndsInOrder ==
  ASSUME NEW S, NEW n \in Nat, NEW e \in [1 .. n -> Seq(S)], NEW i \in 0 .. n
  PROVE  \A j \in i .. n : Ends(e, i) <= Ends(e, j)
<1> DEFINE T == {j \in 0 .. n : j < i \/ Ends(e, i) <= Ends(e, j)}
<1>1. \A k \in 0 .. n : Ends(e, k) \in Nat
  BY EndsGrow
<1>2. 0 \in T
  <2>1. i = 0 \/ 0 < i
    OBVIOUS
  <2> QED
    BY <1>1, <2>1
<1>3. ASSUME NEW k \in 0 .. n - 1, k \in T PROVE k + 1 \in T
  <2> DEFINE j == k + 1
  <2>1. j \in 1 .. n /\ j \in 0 .. n /\ j - 1 = k /\ Len(e[j]) \in Nat
    BY LenProperties
  <2>2. j < i \/ j = i \/ i <= k
    OBVIOUS
  <2> HIDE DEF j
  <2>3. Ends(e, j) = Ends(e, k) + Len(e[j])
    BY <2>1, EndsGrow
  <2>4. i <= k => Ends(e, i) <= Ends(e, k)
    BY <1>3
  <2>5. j \in T
    BY <1>1, <2>1, <2>2, <2>3, <2>4
  <2> QED
    BY <2>5 DEF j
<1> HIDE DEF T
<1>4. 0 .. n \subseteq T
  BY <1>2, <1>3, Climb
<1> QED
  BY <1>4 DEF T

\* Each piece stands unchanged where it is expected.
LEMMA PieceInPrefix ==
  ASSUME NEW S, NEW n \in Nat, NEW e \in [1 .. n -> Seq(S)],
         NEW k \in 1 .. n, NEW p \in 1 .. Len(e[k])
  PROVE  \A m \in k .. n : Prefix(e, m)[Ends(e, k - 1) + p] = e[k][p]
<1> DEFINE at == Ends(e, k - 1) + p
           T == {m \in 0 .. n : m < k \/ Prefix(e, m)[at] = e[k][p]}
<1>1. 0 \in T
  OBVIOUS
<1>2. at \in Nat /\ at >= 1 /\ at <= Ends(e, k) /\ at > Ends(e, k - 1)
  <2>1. Ends(e, k - 1) \in Nat /\ Len(e[k]) \in Nat
    BY EndsGrow, LenProperties
  <2>2. Ends(e, k) = Ends(e, k - 1) + Len(e[k])
    BY EndsGrow
  <2> QED
    BY <2>1, <2>2
<1>3. ASSUME NEW j \in 0 .. n - 1, j \in T PROVE j + 1 \in T
  <2> DEFINE m == j + 1
  <2>1. m \in 1 .. n /\ m \in 0 .. n /\ m - 1 = j /\ e[m] \in Seq(S)
    OBVIOUS
  <2>2. m < k \/ m = k \/ k <= j
    OBVIOUS
  <2> HIDE DEF m, at
  <2>3. Prefix(e, m) = Prefix(e, j) \o e[m] /\ Prefix(e, j) \in Seq(S)
    <3>1. Prefix(e, m) = Prefix(e, m - 1) \o e[m]
      BY <2>1, PrefixGrows
    <3>2. j \in 0 .. n
      OBVIOUS
    <3>3. Prefix(e, j) \in Seq(S)
      BY <3>2, PrefixType, Zenon
    <3> QED
      BY <2>1, <3>1, <3>3
  <2>4. Ends(e, m) = Ends(e, j) + Len(e[m]) /\ Ends(e, j) \in Nat /\ Len(e[m]) \in Nat
    <3>1. Ends(e, m) = Ends(e, m - 1) + Len(e[m])
      BY <2>1, EndsGrow
    <3>2. Ends(e, j) \in Nat
      <4>1. j \in 0 .. n
        OBVIOUS
      <4> QED
        BY <4>1, EndsGrow
    <3>3. Len(e[m]) \in Nat
      BY <2>1, LenProperties
    <3> QED
      BY <2>1, <3>1, <3>2, <3>3
  <2>5. \A i \in 1 .. Ends(e, j) + Len(e[m]) :
          Prefix(e, m)[i] = IF i <= Ends(e, j) THEN Prefix(e, j)[i] ELSE e[m][i - Ends(e, j)]
    BY <2>1, <2>3, ConcatProperties DEF Ends
  <2>6. CASE m = k
    <3>1. at - Ends(e, j) = p
      BY <2>1, <2>4, <2>6 DEF at
    <3> QED
      BY <1>2, <2>1, <2>4, <2>5, <2>6, <3>1
  <2>7. CASE k <= j
    <3>1. Prefix(e, j)[at] = e[k][p]
      BY <1>3, <2>7
    <3>2. Ends(e, k) <= Ends(e, j) /\ Ends(e, k) \in Nat
      BY <2>7, EndsInOrder, EndsGrow
    <3>3. at \in 1 .. Ends(e, j) + Len(e[m]) /\ at <= Ends(e, j)
      <4>1. \A t, u, v, w \in Nat : t >= 1 /\ t <= u /\ u <= v => t \in 1 .. v + w /\ t <= v
        OBVIOUS
      <4> QED
        BY <1>2, <2>4, <3>2, <4>1, Zenon
    <3> QED
      BY <2>1, <2>5, <3>1, <3>3
  <2>8. m \in T
    BY <2>1, <2>2, <2>6, <2>7
  <2> QED
    BY <2>8 DEF m
<1> HIDE DEF T
<1>4. 0 .. n \subseteq T
  BY <1>1, <1>3, Climb
<1>5. ASSUME NEW m \in k .. n PROVE Prefix(e, m)[at] = e[k][p]
  BY <1>4 DEF T
<1> QED
  BY <1>5

-----------------------------------------------------------------------------
(* The codec *)

AnyFrame == [kind : {ControlFrameKind, BinaryFrameKind}, payload : Seq(Nat)]

\* What the encoder writes for a frame within its limits.
Packed(frame) ==
    FrameMagic \o <<frame.kind, 0, 0, 0>> \o BigEndianU32(Len(frame.payload))
      \o frame.payload

\* Where the elements of a concatenation come from.
LEMMA Glue ==
  ASSUME NEW S, NEW s \in Seq(S), NEW t \in Seq(S)
  PROVE  /\ s \o t \in Seq(S)
         /\ Len(s \o t) = Len(s) + Len(t)
         /\ \A i \in 1 .. Len(s) : (s \o t)[i] = s[i]
         /\ \A i \in 1 .. Len(t) : (s \o t)[Len(s) + i] = t[i]
<1>1. Len(s) \in Nat /\ Len(t) \in Nat
  BY LenProperties
<1>2. s \o t \in Seq(S) /\ Len(s \o t) = Len(s) + Len(t)
  BY ConcatProperties
<1>3. \A i \in 1 .. Len(s) + Len(t) : (s \o t)[i] = IF i <= Len(s) THEN s[i] ELSE t[i - Len(s)]
  BY ConcatProperties
<1>4. ASSUME NEW i \in 1 .. Len(s) PROVE (s \o t)[i] = s[i]
  BY <1>1, <1>3
<1>5. ASSUME NEW i \in 1 .. Len(t) PROVE (s \o t)[Len(s) + i] = t[i]
  <2>1. /\ Len(s) + i \in 1 .. Len(s) + Len(t)
        /\ ~(Len(s) + i <= Len(s)) /\ Len(s) + i - Len(s) = i
    BY <1>1
  <2> QED
    BY <1>3, <2>1
<1> QED
  BY <1>2, <1>4, <1>5

\* The four bytes of a length give the length back.
LEMMA BigEndianInverse ==
  ASSUME NEW v \in Nat
  PROVE  /\ BigEndianU32(v) \in Seq(Nat)
         /\ Len(BigEndianU32(v)) = 4
         /\ ReadBigEndianU32(BigEndianU32(v), 1) = v
<1> DEFINE w == BigEndianU32(v)
<1>1. /\ w[1] = v \div 2^24
      /\ w[2] = (v \div 2^16) % 256
      /\ w[3] = (v \div 2^8) % 256
      /\ w[4] = v % 256
  BY SMT DEF BigEndianU32
<1>2. v \div 2^24 \in Nat /\ (v \div 2^16) % 256 \in Nat /\ (v \div 2^8) % 256 \in Nat
      /\ v % 256 \in Nat
  BY SMT
<1>3. w \in Seq(Nat) /\ Len(w) = 4
  BY <1>2, SMT DEF BigEndianU32
<1>4. v = (v \div 2^24) * 2^24 + ((v \div 2^16) % 256) * 2^16
            + ((v \div 2^8) % 256) * 2^8 + (v % 256)
  BY SMT
<1>5. ReadBigEndianU32(w, 1) = v
  BY <1>1, <1>4, SMT DEF ReadBigEndianU32
<1> QED
  BY <1>3, <1>5

\* The layout of an encoded frame.
LEMMA PackedLayout ==
  ASSUME NEW frame \in AnyFrame
  PROVE  LET b == Packed(frame)
             size == BigEndianU32(Len(frame.payload))
         IN  /\ b \in Seq(Nat)
             /\ Len(b) = FrameHeaderBytes + Len(frame.payload)
             /\ \A i \in 1 .. 4 : b[i] = FrameMagic[i]
             /\ b[5] = frame.kind
             /\ \A i \in 6 .. 8 : b[i] = 0
             /\ \A i \in 1 .. 4 : b[8 + i] = size[i]
             /\ \A i \in 1 .. Len(frame.payload) : b[12 + i] = frame.payload[i]
<1> DEFINE size == BigEndianU32(Len(frame.payload))
           kind == <<frame.kind, 0, 0, 0>>
           head == FrameMagic \o kind
           header == head \o size
           b == header \o frame.payload
<1>1. frame.payload \in Seq(Nat) /\ Len(frame.payload) \in Nat
      /\ frame.kind \in Nat
  BY LenProperties DEF AnyFrame, ControlFrameKind, BinaryFrameKind
<1>2. FrameMagic \in Seq(Nat) /\ kind \in Seq(Nat) /\ size \in Seq(Nat)
  BY <1>1, BigEndianInverse DEF FrameMagic
<1>3. kind[1] = frame.kind /\ kind[2] = 0 /\ kind[3] = 0 /\ kind[4] = 0
  OBVIOUS
<1>4. Len(FrameMagic) = 4 /\ Len(kind) = 4 /\ Len(size) = 4
  BY <1>1, BigEndianInverse DEF FrameMagic
<1> HIDE DEF size, kind
<1>5. /\ head \in Seq(Nat) /\ Len(head) = 8
      /\ \A i \in 1 .. 4 : head[i] = FrameMagic[i]
      /\ \A i \in 1 .. 4 : head[4 + i] = kind[i]
  <2>1. /\ head \in Seq(Nat) /\ Len(head) = Len(FrameMagic) + Len(kind)
        /\ \A i \in 1 .. Len(FrameMagic) : head[i] = FrameMagic[i]
        /\ \A i \in 1 .. Len(kind) : head[Len(FrameMagic) + i] = kind[i]
    BY <1>2, Glue
  <2> HIDE DEF head
  <2> QED
    BY <1>4, <2>1
<1> HIDE DEF head
<1>6. /\ header \in Seq(Nat) /\ Len(header) = 12
      /\ \A i \in 1 .. 8 : header[i] = head[i]
      /\ \A i \in 1 .. 4 : header[8 + i] = size[i]
  <2>1. head \in Seq(Nat)
    BY <1>5
  <2>2. /\ header \in Seq(Nat) /\ Len(header) = Len(head) + Len(size)
        /\ \A i \in 1 .. Len(head) : header[i] = head[i]
        /\ \A i \in 1 .. Len(size) : header[Len(head) + i] = size[i]
    BY <1>2, <2>1, Glue
  <2>3. Len(head) = 8
    BY <1>5
  <2> HIDE DEF header
  <2> QED
    BY <1>4, <2>2, <2>3
<1> HIDE DEF header
<1>7. /\ b \in Seq(Nat) /\ Len(b) = 12 + Len(frame.payload)
      /\ \A i \in 1 .. 12 : b[i] = header[i]
      /\ \A i \in 1 .. Len(frame.payload) : b[12 + i] = frame.payload[i]
  <2>1. header \in Seq(Nat) /\ frame.payload \in Seq(Nat)
    BY <1>1, <1>6
  <2>2. /\ b \in Seq(Nat) /\ Len(b) = Len(header) + Len(frame.payload)
        /\ \A i \in 1 .. Len(header) : b[i] = header[i]
        /\ \A i \in 1 .. Len(frame.payload) : b[Len(header) + i] = frame.payload[i]
    BY <2>1, Glue
  <2>3. Len(header) = 12
    BY <1>6
  <2> HIDE DEF b
  <2> QED
    BY <2>2, <2>3
<1>8. Packed(frame) = b
  BY DEF Packed, header, head, kind, size
<1> HIDE DEF b
<1>9. ASSUME NEW i \in 1 .. 8 PROVE b[i] = head[i]
  <2>1. i \in 1 .. 12
    OBVIOUS
  <2>2. b[i] = header[i]
    BY <1>7, <2>1
  <2>3. header[i] = head[i]
    BY <1>6
  <2> QED
    BY <2>2, <2>3
<1>10. \A i \in 1 .. 4 : b[i] = FrameMagic[i]
  BY <1>5, <1>9
<1>11. head[5] = kind[1] /\ head[6] = kind[2] /\ head[7] = kind[3] /\ head[8] = kind[4]
  <2>1. head[4 + 1] = kind[1] /\ head[4 + 2] = kind[2] /\ head[4 + 3] = kind[3]
        /\ head[4 + 4] = kind[4]
    BY <1>5
  <2> QED
    BY <2>1
<1>12. b[5] = frame.kind /\ b[6] = 0 /\ b[7] = 0 /\ b[8] = 0
  BY <1>3, <1>9, <1>11
<1>13. \A i \in 6 .. 8 : b[i] = 0
  BY <1>12
<1>14. ASSUME NEW i \in 1 .. 4 PROVE b[8 + i] = size[i]
  <2>1. 8 + i \in 1 .. 12
    OBVIOUS
  <2> QED
    BY <1>6, <1>7, <2>1
<1> QED
  BY <1>7, <1>8, <1>10, <1>12, <1>13, <1>14 DEF FrameHeaderBytes, size

\* The decoder reads the header of a frame back, whatever follows it.
LEMMA HeaderRead ==
  ASSUME NEW frame \in AnyFrame, NEW b \in Seq(Nat), HeaderArrived(b),
         \A i \in 1 .. FrameHeaderBytes : b[i] = Packed(frame)[i]
  PROVE  /\ HasValidMagic(b) /\ KindOf(b) = frame.kind /\ ReservedIsZero(b)
         /\ PayloadSize(b) = Len(frame.payload)
<1> DEFINE size == BigEndianU32(Len(frame.payload))
<1>1. Len(b) \in Nat /\ Len(b) >= 12 /\ Len(frame.payload) \in Nat
  BY LenProperties DEF HeaderArrived, FrameHeaderBytes, AnyFrame
<1> DEFINE c == Packed(frame)
<1>2. /\ \A i \in 1 .. 4 : c[i] = FrameMagic[i]
      /\ c[5] = frame.kind
      /\ \A i \in 6 .. 8 : c[i] = 0
      /\ \A i \in 1 .. 4 : c[8 + i] = size[i]
  BY PackedLayout
<1> HIDE DEF size
<1>a. \A i \in 1 .. 12 : b[i] = c[i]
  BY DEF FrameHeaderBytes
<1> HIDE DEF c
<1>3. HasValidMagic(b)
  <2>1. Len(FrameMagic) = 4 /\ FrameMagic \in Seq(Nat)
    BY DEF FrameMagic
  <2>2. \A i \in 1 .. 4 : b[i] \in Nat
    BY <1>1, ElementOfSeq
  <2>3. SubSeq(b, 1, 4) \in Seq(Nat) /\ Len(SubSeq(b, 1, 4)) = 4
        /\ \A i \in 1 .. 4 : SubSeq(b, 1, 4)[i] = b[i]
    BY <2>2, SubSeqProperties
  <2>4. ASSUME NEW i \in 1 .. 4 PROVE SubSeq(b, 1, 4)[i] = FrameMagic[i]
    <3>1. i \in 1 .. 12
      OBVIOUS
    <3>2. b[i] = c[i]
      BY <1>a, <3>1
    <3>3. c[i] = FrameMagic[i]
      BY <1>2
    <3>4. SubSeq(b, 1, 4)[i] = b[i]
      BY <2>3
    <3> QED
      BY <3>2, <3>3, <3>4
  <2>5. SubSeq(b, 1, 4) = FrameMagic
    BY <2>1, <2>3, <2>4, SeqEqual
  <2> QED
    BY <2>1, <2>5 DEF HasValidMagic
<1>4. KindOf(b) = frame.kind
  BY <1>2, <1>a DEF KindOf, FrameMagic
<1>5. ReservedIsZero(b)
  <2>1. \A i \in 6 .. 8 : b[i] = 0
    <3>1. ASSUME NEW i \in 6 .. 8 PROVE b[i] = 0
      <4>1. i \in 1 .. 12
        OBVIOUS
      <4>2. b[i] = c[i]
        BY <1>a, <4>1
      <4>3. c[i] = 0
        BY <1>2
      <4> QED
        BY <4>2, <4>3
    <3> QED
      BY <3>1
  <2> QED
    BY <2>1 DEF ReservedIsZero, ReservedOffset, PayloadLengthOffset
<1>6. b[9] = size[1] /\ b[10] = size[2] /\ b[11] = size[3] /\ b[12] = size[4]
  <2>1. c[8 + 1] = size[1] /\ c[8 + 2] = size[2] /\ c[8 + 3] = size[3] /\ c[8 + 4] = size[4]
    BY <1>2
  <2>2. c[9] = size[1] /\ c[10] = size[2] /\ c[11] = size[3] /\ c[12] = size[4]
    BY <2>1
  <2> QED
    BY <1>a, <2>2
<1>7. ReadBigEndianU32(size, 1) = Len(frame.payload)
  BY <1>1, BigEndianInverse DEF size
<1>8. PayloadSize(b) = Len(frame.payload)
  <2>1. PayloadSize(b) = b[9] * 2^24 + b[10] * 2^16 + b[11] * 2^8 + b[12]
    BY SMT DEF PayloadSize, ReadBigEndianU32, PayloadLengthOffset
  <2>2. Len(frame.payload) = size[1] * 2^24 + size[2] * 2^16 + size[3] * 2^8 + size[4]
    BY <1>7, SMT DEF ReadBigEndianU32
  <2> QED
    BY <1>6, <2>1, <2>2
<1> QED
  BY <1>3, <1>4, <1>5, <1>8

\* The verdict on the header of a frame, whatever follows it.
LEMMA HeaderJudged ==
  ASSUME NEW frame \in AnyFrame, NEW b \in Seq(Nat), HeaderArrived(b),
         \A i \in 1 .. FrameHeaderBytes : b[i] = Packed(frame)[i]
  PROVE  HeaderError(b) = IF TooLarge(frame) THEN "FRAME_TOO_LARGE" ELSE "none"
<1>1. /\ HasValidMagic(b) /\ KindOf(b) = frame.kind /\ ReservedIsZero(b)
      /\ PayloadSize(b) = Len(frame.payload)
  BY HeaderRead
<1>2. frame.kind \in {ControlFrameKind, BinaryFrameKind}
  BY DEF AnyFrame
<1> QED
  BY <1>1, <1>2 DEF HeaderError, TooLarge, FrameLimit

\* A frame within the limits is taken as soon as it is there whole, as it was encoded,
\* and what follows it stays.
LEMMA WholeFrameTaken ==
  ASSUME NEW frame \in AnyFrame, ~TooLarge(frame), NEW b \in Seq(Nat),
         Len(b) >= Len(Packed(frame)),
         \A i \in 1 .. Len(Packed(frame)) : b[i] = Packed(frame)[i]
  PROVE  TakeFrame(b) = [status |-> "Complete", frame |-> frame,
                         rest |-> SubSeq(b, Len(Packed(frame)) + 1, Len(b))]
<1> DEFINE size == Len(Packed(frame))
           n == Len(frame.payload)
<1>1. size = 12 + n /\ n \in Nat /\ Len(b) \in Nat /\ frame.payload \in Seq(Nat)
  BY PackedLayout, LenProperties DEF FrameHeaderBytes, AnyFrame
<1>2. HeaderArrived(b)
  BY <1>1 DEF HeaderArrived, FrameHeaderBytes
<1>3. ASSUME NEW i \in 1 .. FrameHeaderBytes PROVE b[i] = Packed(frame)[i]
  <2>1. i \in 1 .. size
    BY <1>1 DEF FrameHeaderBytes
  <2> QED
    BY <2>1
<1>4. HeaderError(b) = "none"
  BY <1>2, <1>3, HeaderJudged
<1>5. KindOf(b) = frame.kind /\ PayloadSize(b) = n
  BY <1>2, <1>3, HeaderRead
<1>6. CompleteSize(b) = size
  BY <1>1, <1>5 DEF CompleteSize, FrameHeaderBytes
<1>7. SubSeq(b, 13, size) = frame.payload
  <2>1. \A i \in 13 .. size : b[i] \in Nat
    BY <1>1, ElementOfSeq
  <2>2. SubSeq(b, 13, size) \in Seq(Nat) /\ Len(SubSeq(b, 13, size)) = n
        /\ \A i \in 1 .. size - 13 + 1 : SubSeq(b, 13, size)[i] = b[13 + i - 1]
    BY <1>1, <2>1, SubSeqProperties
  <2>3. ASSUME NEW i \in 1 .. n PROVE SubSeq(b, 13, size)[i] = frame.payload[i]
    <3>1. SubSeq(b, 13, size)[i] = b[13 + i - 1]
      BY <1>1, <2>2
    <3>2. 13 + i - 1 = 12 + i /\ 12 + i \in 1 .. size
      <4>1. \A l \in Nat : \A h \in 1 .. l : 13 + h - 1 = 12 + h /\ 12 + h \in 1 .. 12 + l
        OBVIOUS
      <4> QED
        BY <1>1, <4>1, Zenon
    <3>3. b[12 + i] = Packed(frame)[12 + i]
      BY <3>2
    <3>4. Packed(frame)[12 + i] = frame.payload[i]
      BY PackedLayout
    <3> QED
      BY <3>1, <3>2, <3>3, <3>4
  <2> QED
    BY <1>1, <2>2, <2>3, SeqEqual
<1>8. [kind |-> frame.kind, payload |-> frame.payload] = frame
  BY DEF AnyFrame
<1>9. FrameHeaderBytes + 1 = 13
  BY DEF FrameHeaderBytes
<1>10. ~(Len(b) < CompleteSize(b))
  BY <1>1, <1>6
<1> HIDE DEF n, size
<1> QED
  BY <1>2, <1>4, <1>5, <1>6, <1>7, <1>8, <1>9, <1>10 DEF TakeFrame, size

\* Until then the decoder asks for more.
LEMMA PartialFrameAwaited ==
  ASSUME NEW frame \in AnyFrame, ~TooLarge(frame), NEW b \in Seq(Nat),
         Len(b) < Len(Packed(frame)),
         \A i \in 1 .. Len(b) : b[i] = Packed(frame)[i]
  PROVE  TakeFrame(b) = [status |-> "NeedMoreData"]
<1>1. Len(Packed(frame)) = 12 + Len(frame.payload) /\ Len(frame.payload) \in Nat
      /\ Len(b) \in Nat
  BY PackedLayout, LenProperties DEF FrameHeaderBytes, AnyFrame
<1>2. CASE ~HeaderArrived(b)
  BY <1>2 DEF TakeFrame
<1>3. CASE HeaderArrived(b)
  <2>1. \A i \in 1 .. FrameHeaderBytes : b[i] = Packed(frame)[i]
    BY <1>1, <1>3 DEF HeaderArrived, FrameHeaderBytes
  <2>2. HeaderError(b) = "none"
    BY <1>3, <2>1, HeaderJudged
  <2>3. PayloadSize(b) = Len(frame.payload)
    BY <1>3, <2>1, HeaderRead
  <2>4. Len(b) < CompleteSize(b)
    BY <1>1, <2>3 DEF CompleteSize, FrameHeaderBytes
  <2> QED
    BY <1>3, <2>2, <2>4 DEF TakeFrame
<1> QED
  BY <1>2, <1>3

\* takeFrame undoes encodeFrame, for every frame within the limits and whatever bytes
\* follow it, and takes nothing before the last byte of the frame is there.
THEOREM TakeUndoesEncode ==
  ASSUME NEW frame \in AnyFrame, ~TooLarge(frame)
  PROVE  LET b == EncodeFrame(frame, MaxControlFrameBytes, MaxBinaryFrameBytes)
         IN  /\ \A rest \in Seq(Nat) :
                  TakeFrame(b \o rest)
                    = [status |-> "Complete", frame |-> frame, rest |-> rest]
             /\ \A m \in 0 .. Len(b) - 1 :
                  TakeFrame(SubSeq(b, 1, m)) = [status |-> "NeedMoreData"]
<1> DEFINE b == Packed(frame)
<1>1. EncodeFrame(frame, MaxControlFrameBytes, MaxBinaryFrameBytes) = b
  BY DEF EncodeFrame, Packed, TooLarge, FrameLimit
<1>2. b \in Seq(Nat) /\ Len(b) \in Nat
  BY PackedLayout, LenProperties
<1>3. ASSUME NEW rest \in Seq(Nat)
      PROVE  TakeFrame(b \o rest) = [status |-> "Complete", frame |-> frame, rest |-> rest]
  <2> DEFINE c == b \o rest
  <2> HIDE DEF b
  <2>1. /\ c \in Seq(Nat) /\ Len(c) = Len(b) + Len(rest) /\ Len(rest) \in Nat
        /\ \A i \in 1 .. Len(b) : c[i] = b[i]
        /\ \A i \in 1 .. Len(rest) : c[Len(b) + i] = rest[i]
    BY <1>2, Glue, LenProperties
  <2> HIDE DEF c
  <2>2. TakeFrame(c) = [status |-> "Complete", frame |-> frame,
                        rest |-> SubSeq(c, Len(b) + 1, Len(c))]
    <3>1. Len(c) >= Len(b)
      BY <1>2, <2>1
    <3> QED
      BY <2>1, <3>1, WholeFrameTaken DEF b
  <2>3. SubSeq(c, Len(b) + 1, Len(c)) = rest
    <3> DEFINE tail == SubSeq(c, Len(b) + 1, Len(c))
    <3>1. \A i \in Len(b) + 1 .. Len(c) : c[i] \in Nat
      BY <1>2, <2>1, ElementOfSeq
    <3>2. tail \in Seq(Nat) /\ Len(tail) = Len(rest)
          /\ \A i \in 1 .. Len(rest) : tail[i] = c[Len(b) + 1 + i - 1]
      BY <1>2, <2>1, <3>1, SubSeqProperties
    <3>3. ASSUME NEW i \in 1 .. Len(rest) PROVE tail[i] = rest[i]
      <4>1. Len(b) + 1 + i - 1 = Len(b) + i
        BY <1>2
      <4>2. tail[i] = c[Len(b) + 1 + i - 1]
        BY <3>2
      <4>3. c[Len(b) + i] = rest[i]
        BY <2>1
      <4> QED
        BY <4>1, <4>2, <4>3
    <3> QED
      BY <3>2, <3>3, SeqEqual
  <2> QED
    BY <2>2, <2>3 DEF c
<1>4. ASSUME NEW m \in 0 .. Len(b) - 1
      PROVE  TakeFrame(SubSeq(b, 1, m)) = [status |-> "NeedMoreData"]
  <2> DEFINE c == SubSeq(b, 1, m)
  <2> HIDE DEF b
  <2>1. \A i \in 1 .. m : b[i] \in Nat
    BY <1>2, ElementOfSeq
  <2>2. c \in Seq(Nat) /\ Len(c) = m /\ \A i \in 1 .. m : c[i] = b[i]
    <3>1. /\ c \in Seq(Nat)
          /\ Len(c) = IF 1 <= m THEN m - 1 + 1 ELSE 0
          /\ \A i \in 1 .. m - 1 + 1 : c[i] = b[1 + i - 1]
      BY <2>1, SubSeqProperties
    <3> QED
      BY <1>2, <3>1
  <2> HIDE DEF c
  <2>3. Len(c) < Len(b)
    BY <1>2, <2>2
  <2> QED
    BY <2>2, <2>3, PartialFrameAwaited DEF b, c
<1> HIDE DEF b
<1> QED
  BY <1>1, <1>3, <1>4

-----------------------------------------------------------------------------
(* The stream the peer sends *)

\* The limits are numbers, and leave room for the smallest payloads.
LEMMA LimitsAreNumbers ==
  /\ MaxControlFrameBytes \in Nat /\ MaxBinaryFrameBytes \in Nat
  /\ MaxControlFrameBytes >= 13 /\ MaxBinaryFrameBytes >= MaxControlFrameBytes
BY LimitsAssumption

\* A binary payload is as long as its three parts.
LEMMA BinaryPayloadLayout ==
  ASSUME NEW metadata \in Seq(Nat), NEW data \in Seq(Nat)
  PROVE  /\ EncodeBinaryPayload(metadata, data) \in Seq(Nat)
         /\ Len(EncodeBinaryPayload(metadata, data)) = 4 + Len(metadata) + Len(data)
<1> DEFINE size == BigEndianU32(Len(metadata))
           front == size \o metadata
<1>1. Len(metadata) \in Nat /\ Len(data) \in Nat
  BY LenProperties
<1>2. size \in Seq(Nat) /\ Len(size) = 4
  BY <1>1, BigEndianInverse
<1> HIDE DEF size
<1>3. front \in Seq(Nat) /\ Len(front) = Len(size) + Len(metadata)
  BY <1>2, Glue
<1> HIDE DEF front
<1>4. front \o data \in Seq(Nat) /\ Len(front \o data) = Len(front) + Len(data)
  BY <1>3, Glue
<1>5. EncodeBinaryPayload(metadata, data) = front \o data
  BY DEF EncodeBinaryPayload, front, size
<1> QED
  BY <1>1, <1>2, <1>3, <1>4, <1>5

\* Each frame of the peer is one its own limits let it encode.
LEMMA PeerFrameEncodes ==
  ASSUME NEW frame \in PeerFrames
  PROVE  frame \in AnyFrame /\ Encoded(frame) = Packed(frame)
<1> DEFINE MC == MaxControlFrameBytes
           MB == MaxBinaryFrameBytes
           bytes == frame.payload
           limit == IF frame.kind = ControlFrameKind THEN MC + 1 ELSE MB + 1
<1>1. ASSUME NEW n \in Nat PROVE Payload(n) \in Seq(Nat) /\ Len(Payload(n)) = n
  BY DEF Payload
<1>2. <<>> \in Seq(Nat) /\ Len(<<>>) = 0
  OBVIOUS
<1>3. EmptyObject \in Seq(Nat) /\ Len(EmptyObject) = 2
  BY DEF EmptyObject
<1>4. <<0>> \in Seq(Nat) /\ Len(<<0>>) = 1 /\ <<1, 2>> \in Seq(Nat) /\ Len(<<1, 2>>) = 2
  OBVIOUS
<1>5. CASE frame \in [kind : {ControlFrameKind},
                      payload : {<<>>, Payload(MC), Payload(MC + 1)}]
  <2>1. frame = [kind |-> frame.kind, payload |-> bytes] /\ frame.kind = ControlFrameKind
        /\ bytes \in {<<>>, Payload(MC), Payload(MC + 1)}
    BY <1>5
  <2>2. bytes \in Seq(Nat) /\ Len(bytes) <= MC + 1
    <3>1. /\ MC \in Nat /\ MC + 1 \in Nat
          /\ Payload(MC) \in Seq(Nat) /\ Len(Payload(MC)) = MC
          /\ Payload(MC + 1) \in Seq(Nat) /\ Len(Payload(MC + 1)) = MC + 1
      BY <1>1, LimitsAreNumbers
    <3>2. CASE bytes = <<>>
      BY <1>2, <3>1, <3>2
    <3>3. CASE bytes = Payload(MC)
      BY <3>1, <3>3
    <3>4. CASE bytes = Payload(MC + 1)
      BY <3>1, <3>4
    <3> QED
      BY <2>1, <3>2, <3>3, <3>4
  <2>3. frame \in AnyFrame
    BY <2>1, <2>2 DEF AnyFrame
  <2>4. ~(Len(bytes) > MC + 1)
    BY <2>2, LenProperties, LimitsAreNumbers
  <2> QED
    BY <2>1, <2>3, <2>4 DEF Encoded, EncodeFrame, FrameLimit, Packed
<1>6. CASE frame \in [kind : {BinaryFrameKind},
                      payload : {EncodeBinaryPayload(EmptyObject, <<>>),
                                 EncodeBinaryPayload(EmptyObject, Payload(MB - 6)),
                                 EncodeBinaryPayload(EmptyObject, Payload(MB - 5)),
                                 EncodeBinaryPayload(<<0>>, <<>>),
                                 BigEndianU32(3) \o EmptyObject, <<1, 2>>}]
  <2> DEFINE p1 == EncodeBinaryPayload(EmptyObject, <<>>)
             p2 == EncodeBinaryPayload(EmptyObject, Payload(MB - 6))
             p3 == EncodeBinaryPayload(EmptyObject, Payload(MB - 5))
             p4 == EncodeBinaryPayload(<<0>>, <<>>)
             p5 == BigEndianU32(3) \o EmptyObject
             p6 == <<1, 2>>
  <2>1. frame = [kind |-> frame.kind, payload |-> bytes] /\ frame.kind = BinaryFrameKind
        /\ bytes \in {p1, p2, p3, p4, p5, p6}
    BY <1>6
  <2>2. MB - 6 \in Nat /\ MB - 5 \in Nat /\ MB \in Nat /\ MB >= 13
    BY LimitsAreNumbers
  <2>3. p1 \in Seq(Nat) /\ Len(p1) = 6
    <3>1. p1 \in Seq(Nat) /\ Len(p1) = 4 + Len(EmptyObject) + Len(<<>>)
      BY <1>2, <1>3, BinaryPayloadLayout
    <3> QED
      BY <1>2, <1>3, <3>1
  <2>4. p2 \in Seq(Nat) /\ Len(p2) = MB
    <3>1. Payload(MB - 6) \in Seq(Nat) /\ Len(Payload(MB - 6)) = MB - 6
      BY <1>1, <2>2
    <3>2. p2 \in Seq(Nat) /\ Len(p2) = 4 + Len(EmptyObject) + Len(Payload(MB - 6))
      BY <1>3, <3>1, BinaryPayloadLayout
    <3> QED
      BY <1>3, <2>2, <3>1, <3>2
  <2>5. p3 \in Seq(Nat) /\ Len(p3) = MB + 1
    <3>1. Payload(MB - 5) \in Seq(Nat) /\ Len(Payload(MB - 5)) = MB - 5
      BY <1>1, <2>2
    <3>2. p3 \in Seq(Nat) /\ Len(p3) = 4 + Len(EmptyObject) + Len(Payload(MB - 5))
      BY <1>3, <3>1, BinaryPayloadLayout
    <3> QED
      BY <1>3, <2>2, <3>1, <3>2
  <2>6. p4 \in Seq(Nat) /\ Len(p4) = 5
    <3>1. p4 \in Seq(Nat) /\ Len(p4) = 4 + Len(<<0>>) + Len(<<>>)
      BY <1>2, <1>4, BinaryPayloadLayout
    <3> QED
      BY <1>2, <1>4, <3>1
  <2>7. p5 \in Seq(Nat) /\ Len(p5) = 6
    <3> DEFINE size == BigEndianU32(3)
    <3>1. size \in Seq(Nat) /\ Len(size) = 4
      BY BigEndianInverse
    <3> HIDE DEF size
    <3>2. size \o EmptyObject \in Seq(Nat)
          /\ Len(size \o EmptyObject) = Len(size) + Len(EmptyObject)
      BY <1>3, <3>1, Glue
    <3>3. 4 + 2 = 6
      OBVIOUS
    <3>4. Len(size \o EmptyObject) = 6
      BY <1>3, <3>1, <3>2, <3>3, Zenon
    <3> QED
      BY <3>2, <3>4 DEF size
  <2>8. p6 \in Seq(Nat) /\ Len(p6) = 2
    BY <1>4
  <2> HIDE DEF p1, p2, p3, p4, p5, p6
  <2>9. bytes \in Seq(Nat) /\ Len(bytes) \in Nat /\ Len(bytes) <= MB + 1
    <3>1. CASE bytes = p1 \/ bytes = p4 \/ bytes = p5 \/ bytes = p6
      <4>1. bytes \in Seq(Nat)
        BY <2>3, <2>6, <2>7, <2>8, <3>1
      <4>2. Len(bytes) = 2 \/ Len(bytes) = 5 \/ Len(bytes) = 6
        BY <2>3, <2>6, <2>7, <2>8, <3>1
      <4>3. 2 \in Nat /\ 5 \in Nat /\ 6 \in Nat
            /\ 2 <= MB + 1 /\ 5 <= MB + 1 /\ 6 <= MB + 1
        BY <2>2
      <4>4. Len(bytes) \in Nat /\ Len(bytes) <= MB + 1
        BY <4>2, <4>3, Zenon
      <4> QED
        BY <4>1, <4>4
    <3>2. CASE bytes = p2 \/ bytes = p3
      BY <2>2, <2>4, <2>5, <3>2
    <3> QED
      BY <2>1, <3>1, <3>2
  <2>10. frame \in AnyFrame
    BY <2>1, <2>9 DEF AnyFrame
  <2>11. ~(Len(bytes) > MB + 1)
    BY <2>2, <2>9
  <2>12. frame.kind # ControlFrameKind
    BY <2>1 DEF ControlFrameKind, BinaryFrameKind
  <2> QED
    BY <2>10, <2>11, <2>12 DEF Encoded, EncodeFrame, FrameLimit, Packed
<1> QED
  BY <1>5, <1>6 DEF PeerFrames

\* The encoded frames, where each ends in the stream, and the stream as it arrives.
Pieces(fs) == [i \in 1 .. Len(fs) |-> Packed(fs[i])]

End(fs, i) == Ends(Pieces(fs), i)

Stream(fs) == Prefix(Pieces(fs), Len(fs))

Arriving(fs, d) ==
    IF d = NoDamage THEN Stream(fs)
    ELSE [Stream(fs) EXCEPT ![End(fs, d.frame - 1) + d.position] = d.value]

\* These are the stream and the ends of the model.
LEMMA PiecesAreEncoded ==
  ASSUME NEW fs \in Seq(PeerFrames), NEW i \in 0 .. Len(fs)
  PROVE  FlattenSeq([j \in 1 .. i |-> Encoded(fs[j])]) = Prefix(Pieces(fs), i)
<1> DEFINE f == [j \in 1 .. i |-> Encoded(fs[j])]
           g == [j \in 1 .. i |-> Pieces(fs)[j]]
<1>1. Len(fs) \in Nat
  BY LenProperties
<1>2. ASSUME NEW j \in 1 .. i PROVE f[j] = g[j]
  <2>1. j \in 1 .. Len(fs)
    BY <1>1
  <2>2. fs[j] \in PeerFrames
    BY <2>1, ElementOfSeq
  <2>3. Encoded(fs[j]) = Packed(fs[j])
    BY <2>2, PeerFrameEncodes
  <2>4. Pieces(fs)[j] = Packed(fs[j])
    BY <2>1 DEF Pieces
  <2> QED
    BY <2>3, <2>4
<1>3. f = g
  BY <1>2
<1> QED
  BY <1>3, Zenon DEF Prefix

\* The frames that are sent are frames, each at least a header long.
LEMMA PiecesType ==
  ASSUME NEW fs \in Seq(PeerFrames)
  PROVE  /\ Len(fs) \in Nat
         /\ Pieces(fs) \in [1 .. Len(fs) -> Seq(Nat)]
         /\ \A i \in 1 .. Len(fs) :
              /\ fs[i] \in AnyFrame
              /\ Pieces(fs)[i] = Packed(fs[i])
              /\ Len(Packed(fs[i])) = FrameHeaderBytes + Len(fs[i].payload)
              /\ Len(fs[i].payload) \in Nat
<1>1. Len(fs) \in Nat
  BY LenProperties
<1>2. ASSUME NEW i \in 1 .. Len(fs)
      PROVE  /\ fs[i] \in AnyFrame
             /\ Packed(fs[i]) \in Seq(Nat)
             /\ Len(Packed(fs[i])) = FrameHeaderBytes + Len(fs[i].payload)
             /\ Len(fs[i].payload) \in Nat
  <2>1. fs[i] \in PeerFrames
    BY ElementOfSeq
  <2>2. fs[i] \in AnyFrame
    BY <2>1, PeerFrameEncodes
  <2>3. Len(fs[i].payload) \in Nat
    BY <2>2, LenProperties DEF AnyFrame
  <2> QED
    BY <2>2, <2>3, PackedLayout
<1>3. \A i \in 1 .. Len(fs) : Pieces(fs)[i] = Packed(fs[i])
  BY DEF Pieces
<1>4. Pieces(fs) \in [1 .. Len(fs) -> Seq(Nat)]
  BY <1>2 DEF Pieces
<1> QED
  BY <1>1, <1>2, <1>3, <1>4

\* Where the frames of a stream end.
LEMMA EndsOfFrames ==
  ASSUME NEW fs \in Seq(PeerFrames)
  PROVE  /\ End(fs, 0) = 0
         /\ \A i \in 0 .. Len(fs) : End(fs, i) \in Nat
         /\ \A i \in 1 .. Len(fs) : End(fs, i) = End(fs, i - 1) + Len(Packed(fs[i]))
         /\ \A i \in 0 .. Len(fs) : \A j \in i .. Len(fs) : End(fs, i) <= End(fs, j)
<1> DEFINE e == Pieces(fs)
           n == Len(fs)
<1>1. n \in Nat /\ e \in [1 .. n -> Seq(Nat)] /\ \A i \in 1 .. n : e[i] = Packed(fs[i])
  BY PiecesType
<1> HIDE DEF e, n
<1>2. /\ Ends(e, 0) = 0
      /\ \A k \in 0 .. n : Ends(e, k) \in Nat
      /\ \A k \in 1 .. n : Ends(e, k) = Ends(e, k - 1) + Len(e[k])
  BY <1>1, EndsGrow
<1>3. \A i \in 0 .. n : \A j \in i .. n : Ends(e, i) <= Ends(e, j)
  BY <1>1, EndsInOrder
<1> QED
  BY <1>1, <1>2, <1>3 DEF End, e, n

\* The place of the wrong byte is in the header of its frame.
LEMMA DamageInHeader ==
  ASSUME NEW fs \in Seq(PeerFrames), NEW d \in Damages(Len(fs)), d # NoDamage
  PROVE  /\ d.frame \in 1 .. Len(fs) /\ d.position \in 1 .. 8 /\ d.value = 3
         /\ d.position \in 1 .. Len(Packed(fs[d.frame]))
         /\ End(fs, d.frame - 1) + d.position \in 1 .. End(fs, d.frame)
         /\ End(fs, d.frame) <= End(fs, Len(fs))
<1>1. d.frame \in 1 .. Len(fs) /\ d.position \in 1 .. 8 /\ d.value = 3
  BY DEF Damages, PayloadLengthOffset
<1> DEFINE k == d.frame
           n == Len(fs)
<1>2. n \in Nat /\ Len(Packed(fs[k])) = 12 + Len(fs[k].payload) /\ Len(fs[k].payload) \in Nat
  BY <1>1, PiecesType DEF FrameHeaderBytes
<1>3. k - 1 \in 0 .. n /\ k \in 0 .. n /\ n \in 0 .. n /\ n \in k .. n
  BY <1>1, <1>2
<1>4. End(fs, k - 1) \in Nat /\ End(fs, k) \in Nat
  BY <1>3, EndsOfFrames
<1>5. End(fs, k) = End(fs, k - 1) + Len(Packed(fs[k]))
  BY <1>1, EndsOfFrames
<1>6. End(fs, k) <= End(fs, n)
  BY <1>3, EndsOfFrames
<1>7. d.position \in 1 .. Len(Packed(fs[k]))
  <2>1. \A m \in Nat : \A p \in 1 .. 8 : p \in 1 .. 12 + m
    OBVIOUS
  <2> QED
    BY <1>1, <1>2, <2>1, Zenon
<1>8. End(fs, k - 1) + d.position \in 1 .. End(fs, k)
  <2>1. \A x, m \in Nat : \A p \in 1 .. m : x + p \in 1 .. x + m
    OBVIOUS
  <2>2. Len(Packed(fs[k])) \in Nat
    BY <1>1, PackedLayout, PiecesType, LenProperties
  <2> QED
    BY <1>4, <1>5, <1>7, <2>1, <2>2, Zenon
<1> QED
  BY <1>1, <1>6, <1>7, <1>8

\* What arrives is as long as what was sent, and is frame k where frame k was sent,
\* unless this is the wrong byte.
LEMMA ArrivingLayout ==
  ASSUME NEW fs \in Seq(PeerFrames), NEW d \in Damages(Len(fs))
  PROVE  /\ Arriving(fs, d) \in Seq(Nat)
         /\ Len(Arriving(fs, d)) = End(fs, Len(fs))
         /\ \A k \in 1 .. Len(fs) : \A p \in 1 .. Len(Packed(fs[k])) :
              Arriving(fs, d)[End(fs, k - 1) + p] =
                IF d.frame = k /\ d.position = p THEN d.value ELSE Packed(fs[k])[p]
<1> DEFINE e == Pieces(fs)
           n == Len(fs)
           s == Stream(fs)
           a == Arriving(fs, d)
           at == End(fs, d.frame - 1) + d.position
<1>1. n \in Nat /\ e \in [1 .. n -> Seq(Nat)] /\ \A i \in 1 .. n : e[i] = Packed(fs[i])
  BY PiecesType
<1>2. s \in Seq(Nat) /\ Len(s) = End(fs, n) /\ Len(s) \in Nat
  <2>1. n \in 0 .. n
    BY <1>1
  <2>2. Prefix(e, n) \in Seq(Nat)
    BY <1>1, <2>1, PrefixType
  <2> QED
    BY <2>2, LenProperties DEF Stream, End, Ends
<1>3. ASSUME NEW k \in 1 .. n, NEW p \in 1 .. Len(Packed(fs[k]))
      PROVE  s[End(fs, k - 1) + p] = Packed(fs[k])[p]
  <2>1. e[k] = Packed(fs[k])
    BY <1>1
  <2>2. n \in k .. n
    BY <1>1
  <2>3. k \in 1 .. n /\ p \in 1 .. Len(e[k])
    BY <2>1
  <2> HIDE DEF e, n
  <2>4. Prefix(e, n)[Ends(e, k - 1) + p] = e[k][p]
    <3>1. n \in Nat /\ e \in [1 .. n -> Seq(Nat)]
      BY <1>1, Zenon
    <3> HIDE DEF s, a, at
    <3>2. \A q \in k .. n : Prefix(e, q)[Ends(e, k - 1) + p] = e[k][p]
      <4> DEFINE P(S) == \A l \in Nat : \A f \in [1 .. l -> Seq(S)] :
                           \A i \in 1 .. l : \A j \in 1 .. Len(f[i]) :
                             \A q \in i .. l : Prefix(f, q)[Ends(f, i - 1) + j] = f[i][j]
      <4>1. \A S : P(S)
        BY PieceInPrefix, Zenon
      <4> HIDE DEF P
      <4>2. P(Nat)
        BY <4>1, Zenon
      <4> USE DEF P
      <4> QED
        BY <2>3, <3>1, <4>2, Zenon
    <3> QED
      BY <2>2, <3>2, Zenon
  <2> QED
    BY <2>1, <2>4 DEF Stream, End, e, n
<1>4. CASE d = NoDamage
  <2>1. d.frame = 0
    BY <1>4 DEF NoDamage
  <2>2. \A k \in 1 .. n : d.frame # k
    BY <2>1
  <2>3. a = s
    BY <1>4 DEF Arriving
  <2> HIDE DEF a, s
  <2> QED
    BY <1>2, <1>3, <2>2, <2>3 DEF a
<1>5. CASE d # NoDamage
  <2>1. a = [s EXCEPT ![at] = d.value]
    BY <1>5 DEF Arriving
  <2>2. d.frame \in 1 .. n /\ d.position \in 1 .. Len(Packed(fs[d.frame])) /\ d.value \in Nat
        /\ at \in 1 .. End(fs, d.frame) /\ End(fs, d.frame) <= End(fs, n)
    BY <1>5, DamageInHeader
  <2>3. at \in 1 .. Len(s)
    <3>1. d.frame \in 0 .. n
      BY <1>1, <2>2
    <3>2. End(fs, d.frame) \in Nat
      BY <3>1, EndsOfFrames
    <3>3. \A x, y \in Nat : x <= y => 1 .. x \subseteq 1 .. y
      OBVIOUS
    <3> HIDE DEF at, s
    <3> QED
      BY <1>2, <2>2, <3>2, <3>3, Zenon
  <2> HIDE DEF a, s, at
  <2>4. /\ a \in Seq(Nat) /\ Len(a) = Len(s)
        /\ \A j \in 1 .. Len(s) : a[j] = IF j = at THEN d.value ELSE s[j]
    BY <1>2, <2>1, <2>2, <2>3, ExceptSeq
  <2>5. ASSUME NEW k \in 1 .. n, NEW p \in 1 .. Len(Packed(fs[k]))
        PROVE  a[End(fs, k - 1) + p] =
                 IF d.frame = k /\ d.position = p THEN d.value ELSE Packed(fs[k])[p]
    <3> DEFINE q == End(fs, k - 1) + p
    <3>1. k - 1 \in 0 .. n /\ k \in 0 .. n /\ n \in k .. n
      BY <1>1
    <3>2. End(fs, k - 1) \in Nat /\ End(fs, k) \in Nat /\ End(fs, k) <= End(fs, n)
          /\ End(fs, k) = End(fs, k - 1) + Len(Packed(fs[k]))
      BY <3>1, EndsOfFrames
    <3>3. q \in 1 .. Len(s) /\ q <= End(fs, k) /\ q > End(fs, k - 1)
      <4>1. \A u, v, w, z \in Nat : \A i \in 1 .. z :
              v = u + z /\ v <= w => u + i \in 1 .. w /\ u + i <= v /\ u + i > u
        OBVIOUS
      <4>2. Len(Packed(fs[k])) \in Nat
        BY <1>1, LenProperties
      <4>3. End(fs, k) <= Len(s) /\ Len(s) \in Nat
        BY <1>2, <3>2, Zenon
      <4> QED
        BY <3>2, <4>1, <4>2, <4>3, Zenon
    <3>4. s[q] = Packed(fs[k])[p]
      BY <1>3
    <3>5. q = at <=> d.frame = k /\ d.position = p
      <4>1. CASE d.frame = k
        BY <1>1, <2>2, <3>2, <4>1 DEF at
      <4>2. CASE d.frame < k
        <5>1. End(fs, d.frame) <= End(fs, k - 1)
          <6>1. d.frame \in 0 .. n /\ k - 1 \in d.frame .. n
            BY <1>1, <2>2, <4>2
          <6> QED
            BY <6>1, EndsOfFrames
        <5>2. End(fs, d.frame) \in Nat
          BY <1>1, <2>2, EndsOfFrames
        <5>3. at <= End(fs, d.frame)
          BY <2>2, <5>2
        <5>4. at < q
          <6>1. at \in Nat /\ q \in Nat
            BY <2>2, <3>3, <1>2, <5>2
          <6>2. \A t, u, v, w \in Nat : t <= u /\ u <= v /\ v < w => t < w
            OBVIOUS
          <6> QED
            BY <3>2, <3>3, <5>1, <5>2, <5>3, <6>1, <6>2, Zenon
        <5>5. q # at
          <6>1. \A t, u \in Nat : t < u => u # t
            OBVIOUS
          <6> QED
            BY <1>2, <2>2, <3>3, <5>2, <5>4
        <5>6. d.frame # k
          BY <2>2, <4>2
        <5> QED
          BY <5>5, <5>6
      <4>3. CASE d.frame > k
        <5>1. End(fs, k) <= End(fs, d.frame - 1) /\ End(fs, d.frame - 1) \in Nat
          <6>1. d.frame - 1 \in 0 .. n /\ d.frame - 1 \in k .. n
            <7>1. \A x, m \in Nat : \A y \in 1 .. m :
                    x \in 1 .. m /\ y > x => y - 1 \in 0 .. m /\ y - 1 \in x .. m
              OBVIOUS
            <7>2. k \in Nat
              OBVIOUS
            <7> QED
              BY <1>1, <2>2, <4>3, <7>1, <7>2, Zenon
          <6> QED
            BY <3>1, <6>1, EndsOfFrames
        <5>2. at > End(fs, d.frame - 1)
          BY <2>2, <5>1 DEF at
        <5>3. q < at
          BY <2>2, <3>2, <3>3, <5>1, <5>2
        <5> QED
          BY <3>3, <4>3, <5>3
      <4> QED
        BY <2>2, <4>1, <4>2, <4>3
    <3> HIDE DEF q
    <3>6. a[q] = IF q = at THEN d.value ELSE s[q]
      BY <2>4, <3>3
    <3>7. a[q] = IF d.frame = k /\ d.position = p THEN d.value ELSE Packed(fs[k])[p]
      BY <3>4, <3>5, <3>6
    <3> QED
      BY <3>7 DEF q
  <2> QED
    BY <1>2, <2>4, <2>5 DEF a
<1> QED
  BY <1>4, <1>5

-----------------------------------------------------------------------------
(* What the decoder makes of the part of the stream that has arrived *)

\* The bytes behind the first k frames, up to the last of the r that arrived.
Unread(fs, d, k, r) == SubSeq(Arriving(fs, d), End(fs, k) + 1, r)

\* They are these bytes of the stream.
LEMMA UnreadLayout ==
  ASSUME NEW fs \in Seq(PeerFrames), NEW d \in Damages(Len(fs)), NEW k \in 0 .. Len(fs),
         NEW r \in Nat, End(fs, k) <= r, r <= End(fs, Len(fs))
  PROVE  /\ Unread(fs, d, k, r) \in Seq(Nat)
         /\ Len(Unread(fs, d, k, r)) = r - End(fs, k)
         /\ \A i \in 1 .. r - End(fs, k) :
              Unread(fs, d, k, r)[i] = Arriving(fs, d)[End(fs, k) + i]
<1> DEFINE a == Arriving(fs, d)
           x == End(fs, k)
           b == SubSeq(a, x + 1, r)
<1>1. a \in Seq(Nat) /\ Len(a) = End(fs, Len(fs))
  BY ArrivingLayout
<1>2. x \in Nat
  BY EndsOfFrames
<1>3. x <= r /\ r <= Len(a)
  BY <1>1
<1> HIDE DEF a, x
<1>4. \A i \in x + 1 .. r : i \in 1 .. Len(a)
  BY <1>1, <1>2, <1>3, LenProperties
<1>5. \A i \in x + 1 .. r : a[i] \in Nat
  BY <1>1, <1>4, ElementOfSeq
<1>6. /\ b \in Seq(Nat)
      /\ Len(b) = IF x + 1 <= r THEN r - (x + 1) + 1 ELSE 0
      /\ \A i \in 1 .. r - (x + 1) + 1 : b[i] = a[x + 1 + i - 1]
  BY <1>2, <1>5, SubSeqProperties
<1> HIDE DEF b
<1>7. Len(b) = r - x
  BY <1>2, <1>3, <1>6
<1>8. ASSUME NEW i \in 1 .. r - x PROVE b[i] = a[x + i]
  <2>1. i \in 1 .. r - (x + 1) + 1 /\ x + 1 + i - 1 = x + i
    BY <1>2, <1>3
  <2>2. b[i] = a[x + 1 + i - 1]
    BY <1>6, <2>1
  <2> QED
    BY <2>1, <2>2
<1> QED
  BY <1>6, <1>7, <1>8 DEF Unread, a, x, b

\* They begin with the next frame, but for the wrong byte.
LEMMA NextFrameFirst ==
  ASSUME NEW fs \in Seq(PeerFrames), NEW d \in Damages(Len(fs)), NEW m \in 1 .. Len(fs),
         NEW r \in Nat, End(fs, m - 1) <= r, r <= End(fs, Len(fs)),
         NEW i \in 1 .. r - End(fs, m - 1), i \in 1 .. Len(Packed(fs[m]))
  PROVE  Unread(fs, d, m - 1, r)[i] =
           IF d.frame = m /\ d.position = i THEN d.value ELSE Packed(fs[m])[i]
<1>1. m - 1 \in 0 .. Len(fs)
  OBVIOUS
<1>2. Unread(fs, d, m - 1, r)[i] = Arriving(fs, d)[End(fs, m - 1) + i]
  BY <1>1, UnreadLayout
<1>3. \A k \in 1 .. Len(fs) : \A p \in 1 .. Len(Packed(fs[k])) :
        Arriving(fs, d)[End(fs, k - 1) + p] =
          IF d.frame = k /\ d.position = p THEN d.value ELSE Packed(fs[k])[p]
  BY ArrivingLayout, Zenon
<1>4. Arriving(fs, d)[End(fs, m - 1) + i] =
        IF d.frame = m /\ d.position = i THEN d.value ELSE Packed(fs[m])[i]
  BY <1>3, Zenon
<1> QED
  BY <1>2, <1>4, Zenon

\* A header with the wrong byte is refused, wherever in it the byte is.
LEMMA DamageRefused ==
  ASSUME NEW b \in Seq(Nat), HeaderArrived(b), NEW p \in 1 .. 8, b[p] = 3
  PROVE  TakeFrame(b) = [status |-> "Error", code |-> "FRAME_INVALID"]
<1>1. Len(b) \in Nat /\ Len(b) >= 12
  BY LenProperties DEF HeaderArrived, FrameHeaderBytes
<1>2. ASSUME p \in 1 .. 4 PROVE ~HasValidMagic(b)
  <2>1. \A i \in 1 .. 4 : b[i] \in Nat
    BY <1>1, ElementOfSeq
  <2>2. \A i \in 1 .. 4 - 1 + 1 : SubSeq(b, 1, 4)[i] = b[1 + i - 1]
    BY <2>1, SubSeqProperties
  <2>3. SubSeq(b, 1, 4)[p] = 3
    BY <1>2, <2>2
  <2>4. FrameMagic[p] # 3 /\ Len(FrameMagic) = 4
    BY <1>2 DEF FrameMagic
  <2> QED
    BY <2>3, <2>4 DEF HasValidMagic
<1>3. ASSUME p = 5 PROVE KindOf(b) \notin {ControlFrameKind, BinaryFrameKind}
  BY <1>3 DEF KindOf, FrameMagic, ControlFrameKind, BinaryFrameKind
<1>4. ASSUME p \in 6 .. 8 PROVE ~ReservedIsZero(b)
  BY <1>4 DEF ReservedIsZero, ReservedOffset, PayloadLengthOffset
<1>5. HeaderError(b) = "FRAME_INVALID"
  <2>1. p \in 1 .. 4 \/ p = 5 \/ p \in 6 .. 8
    OBVIOUS
  <2> QED
    BY <1>2, <1>3, <1>4, <2>1 DEF HeaderError
<1> QED
  BY <1>5 DEF TakeFrame

\* With less than a header there is nothing to judge.
LEMMA ShortAwaited ==
  ASSUME NEW b, ~HeaderArrived(b)
  PROVE  TakeFrame(b) = [status |-> "NeedMoreData"]
BY DEF TakeFrame

\* The step of the loop, when m - 1 frames are taken and r bytes have arrived.
LEMMA UnreadJudged ==
  ASSUME NEW fs \in Seq(PeerFrames), NEW d \in Damages(Len(fs)), NEW m \in 1 .. Len(fs),
         NEW r \in Nat, End(fs, m - 1) <= r, r <= End(fs, Len(fs))
  PROVE  LET b == Unread(fs, d, m - 1, r)
         IN  /\ r < End(fs, m - 1) + FrameHeaderBytes
                  => TakeFrame(b) = [status |-> "NeedMoreData"]
             /\ r >= End(fs, m - 1) + FrameHeaderBytes /\ d.frame = m
                  => TakeFrame(b) = [status |-> "Error", code |-> "FRAME_INVALID"]
             /\ r >= End(fs, m - 1) + FrameHeaderBytes /\ d.frame # m /\ TooLarge(fs[m])
                  => TakeFrame(b) = [status |-> "Error", code |-> "FRAME_TOO_LARGE"]
             /\ r < End(fs, m) /\ d.frame # m /\ ~TooLarge(fs[m])
                  => TakeFrame(b) = [status |-> "NeedMoreData"]
             /\ r >= End(fs, m) /\ d.frame # m /\ ~TooLarge(fs[m])
                  => TakeFrame(b) = [status |-> "Complete", frame |-> fs[m],
                                     rest |-> Unread(fs, d, m, r)]
<1> DEFINE b == Unread(fs, d, m - 1, r)
           x == End(fs, m - 1)
           whole == Packed(fs[m])
           size == Len(whole)
<1>1. m - 1 \in 0 .. Len(fs) /\ m \in 0 .. Len(fs)
  OBVIOUS
<1>2. x \in Nat /\ End(fs, m) \in Nat /\ End(fs, m) = x + size
  BY <1>1, EndsOfFrames
<1>3. fs[m] \in AnyFrame /\ whole \in Seq(Nat) /\ size \in Nat /\ size >= 12
  <2>1. /\ fs[m] \in AnyFrame /\ size = FrameHeaderBytes + Len(fs[m].payload)
        /\ Len(fs[m].payload) \in Nat
    BY PiecesType
  <2>2. whole \in Seq(Nat)
    BY <2>1, PackedLayout
  <2>3. \A i \in Nat : 12 + i \in Nat /\ 12 + i >= 12
    OBVIOUS
  <2> QED
    BY <2>1, <2>2, <2>3, Zenon DEF FrameHeaderBytes
<1>4. b \in Seq(Nat) /\ Len(b) = r - x
  BY <1>1, UnreadLayout
<1>5. \A i \in 1 .. r - x : i \in 1 .. size =>
        b[i] = IF d.frame = m /\ d.position = i THEN d.value ELSE whole[i]
  BY NextFrameFirst
<1> HIDE DEF b, x, whole, size
<1>6. HeaderArrived(b) <=> r >= x + 12
  BY <1>2, <1>4 DEF HeaderArrived, FrameHeaderBytes
<1>7. r < x + 12 => TakeFrame(b) = [status |-> "NeedMoreData"]
  BY <1>2, <1>6, ShortAwaited
<1>8. ASSUME r >= x + 12, d.frame = m
      PROVE  TakeFrame(b) = [status |-> "Error", code |-> "FRAME_INVALID"]
  <2>1. d # NoDamage
    BY <1>8 DEF NoDamage
  <2>2. d.position \in 1 .. 8 /\ d.value = 3
    BY <2>1, DamageInHeader
  <2>3. d.position \in 1 .. r - x /\ d.position \in 1 .. size
    <3>1. \A u, v, w \in Nat : \A p \in 1 .. 8 :
            u >= v + 12 /\ w >= 12 => p \in 1 .. u - v /\ p \in 1 .. w
      OBVIOUS
    <3> QED
      BY <1>2, <1>3, <1>8, <2>2, <3>1, Zenon
  <2>4. b[d.position] = 3
    BY <1>5, <1>8, <2>2, <2>3
  <2> QED
    BY <1>4, <1>6, <1>8, <2>2, <2>4, DamageRefused
<1>9. ASSUME d.frame # m
      PROVE  \A i \in 1 .. r - x : i \in 1 .. size => b[i] = whole[i]
  BY <1>5, <1>9
<1>10. ASSUME r >= x + 12, d.frame # m, TooLarge(fs[m])
       PROVE  TakeFrame(b) = [status |-> "Error", code |-> "FRAME_TOO_LARGE"]
  <2>1. ASSUME NEW i \in 1 .. FrameHeaderBytes PROVE b[i] = Packed(fs[m])[i]
    <3>1. i \in 1 .. r - x /\ i \in 1 .. size
      BY <1>2, <1>3, <1>10 DEF FrameHeaderBytes
    <3> QED
      BY <1>9, <1>10, <3>1 DEF whole
  <2>2. HeaderError(b) = "FRAME_TOO_LARGE"
    BY <1>3, <1>4, <1>6, <1>10, <2>1, HeaderJudged
  <2> QED
    BY <1>6, <1>10, <2>2 DEF TakeFrame
<1>11. ASSUME r < x + size, d.frame # m, ~TooLarge(fs[m])
       PROVE  TakeFrame(b) = [status |-> "NeedMoreData"]
  <2>1. Len(b) < Len(Packed(fs[m]))
    BY <1>2, <1>3, <1>4, <1>11 DEF whole, size
  <2>2. ASSUME NEW i \in 1 .. Len(b) PROVE b[i] = Packed(fs[m])[i]
    <3>1. i \in 1 .. r - x /\ i \in 1 .. size
      BY <1>2, <1>3, <1>4, <1>11
    <3> QED
      BY <1>9, <1>11, <3>1 DEF whole
  <2> QED
    BY <1>3, <1>4, <1>11, <2>1, <2>2, PartialFrameAwaited
<1>12. ASSUME r >= x + size, d.frame # m, ~TooLarge(fs[m])
       PROVE  TakeFrame(b) = [status |-> "Complete", frame |-> fs[m],
                              rest |-> Unread(fs, d, m, r)]
  <2>1. Len(b) >= Len(Packed(fs[m]))
    BY <1>2, <1>3, <1>4, <1>12 DEF whole, size
  <2>2. ASSUME NEW i \in 1 .. Len(Packed(fs[m])) PROVE b[i] = Packed(fs[m])[i]
    <3>1. i \in 1 .. size
      BY DEF size, whole
    <3>2. i \in 1 .. r - x
      BY <1>2, <1>3, <1>12, <3>1
    <3> QED
      BY <1>9, <1>12, <3>1, <3>2 DEF whole
  <2>3. TakeFrame(b) = [status |-> "Complete", frame |-> fs[m],
                        rest |-> SubSeq(b, Len(Packed(fs[m])) + 1, Len(b))]
    BY <1>3, <1>4, <1>12, <2>1, <2>2, WholeFrameTaken
  <2>4. SubSeq(b, size + 1, Len(b)) = Unread(fs, d, m, r)
    <3> DEFINE rest == SubSeq(b, size + 1, Len(b))
               u == Unread(fs, d, m, r)
    <3>1. u \in Seq(Nat) /\ Len(u) = r - (x + size)
          /\ \A i \in 1 .. r - (x + size) : u[i] = Arriving(fs, d)[x + size + i]
      <4>1. End(fs, m) <= r
        BY <1>2, <1>12
      <4>2. /\ u \in Seq(Nat) /\ Len(u) = r - End(fs, m)
            /\ \A i \in 1 .. r - End(fs, m) : u[i] = Arriving(fs, d)[End(fs, m) + i]
        BY <1>1, <4>1, UnreadLayout, Zenon
      <4> QED
        BY <1>2, <4>2, Zenon
    <3>2. \A i \in 1 .. r - x : b[i] = Arriving(fs, d)[x + i]
      BY <1>1, UnreadLayout DEF b, x
    <3>3. \A i \in size + 1 .. r - x : b[i] \in Nat
      <4>1. \A i \in size + 1 .. r - x : i \in 1 .. Len(b)
        BY <1>2, <1>3, <1>4
      <4> QED
        BY <1>4, <4>1, ElementOfSeq
    <3>4. /\ rest \in Seq(Nat)
          /\ Len(rest) = IF size + 1 <= r - x THEN r - x - (size + 1) + 1 ELSE 0
          /\ \A i \in 1 .. r - x - (size + 1) + 1 : rest[i] = b[size + 1 + i - 1]
      <4> DEFINE y == size + 1
                 z == r - x
      <4>1. y \in Int /\ z \in Int /\ Len(b) = z /\ \A i \in y .. z : b[i] \in Nat
        BY <1>2, <1>3, <1>4, <3>3
      <4> HIDE DEF y, z
      <4>2. LET ss == SubSeq(b, y, z)
            IN  /\ ss \in Seq(Nat)
                /\ Len(ss) = IF y <= z THEN z - y + 1 ELSE 0
                /\ \A i \in 1 .. z - y + 1 : ss[i] = b[y + i - 1]
        BY <4>1, SubSeqProperties
      <4>3. rest = SubSeq(b, y, z)
        BY <4>1 DEF y
      <4> QED
        BY <4>2, <4>3 DEF y, z
    <3> HIDE DEF rest, u
    <3>5. Len(rest) = r - (x + size)
      BY <1>2, <1>3, <1>12, <3>4
    <3>6. ASSUME NEW i \in 1 .. r - (x + size) PROVE rest[i] = u[i]
      <4>1. /\ i \in 1 .. r - x - (size + 1) + 1
            /\ size + 1 + i - 1 = size + i /\ size + i \in 1 .. r - x
            /\ x + (size + i) = x + size + i
        BY <1>2, <1>3, <1>12
      <4>2. rest[i] = b[size + i]
        <5>1. rest[i] = b[size + 1 + i - 1]
          BY <3>4, <4>1
        <5> QED
          BY <4>1, <5>1
      <4>3. b[size + i] = Arriving(fs, d)[x + (size + i)]
        BY <3>2, <4>1
      <4>4. u[i] = Arriving(fs, d)[x + size + i]
        BY <3>1
      <4> QED
        BY <4>1, <4>2, <4>3, <4>4
    <3>7. rest = u
      BY <3>1, <3>4, <3>5, <3>6, SeqEqual
    <3> QED
      BY <3>7 DEF rest, u
  <2> QED
    BY <2>3, <2>4 DEF size, whole
<1> QED
  BY <1>2, <1>7, <1>8, <1>10, <1>11, <1>12 DEF b, x, FrameHeaderBytes

\* Reading takes bytes from the wire to the end of what is unread.
LEMMA ReadMoves ==
  ASSUME NEW a \in Seq(Nat), NEW g \in 0 .. Len(a), NEW x \in 0 .. g,
         NEW n \in 1 .. Len(a) - g
  PROVE  LET w == SubSeq(a, g + 1, Len(a))
         IN  /\ Len(w) = Len(a) - g
             /\ SubSeq(a, x + 1, g) \o SubSeq(w, 1, n) = SubSeq(a, x + 1, g + n)
             /\ SubSeq(w, n + 1, Len(w)) = SubSeq(a, g + n + 1, Len(a))
<1> DEFINE l == Len(a)
           w == SubSeq(a, g + 1, l)
<1>1. l \in Nat
  BY LenProperties
<1> HIDE DEF l
<1>2. g \in Nat /\ x \in Nat /\ n \in Nat /\ g + n <= l /\ x <= g /\ n >= 1
  BY <1>1 DEF l
<1>3. w \in Seq(Nat) /\ Len(w) = l - g
  <2>1. \A i \in g + 1 .. l : i \in 1 .. Len(a)
    BY <1>1, <1>2 DEF l
  <2>2. \A i \in g + 1 .. l : a[i] \in Nat
    BY <2>1, ElementOfSeq
  <2>3. g + 1 \in Int /\ l \in Int
    BY <1>1, <1>2
  <2>4. w \in Seq(Nat) /\ Len(w) = IF g + 1 <= l THEN l - (g + 1) + 1 ELSE 0
    BY <2>2, <2>3, SubSeqProperties
  <2>5. g + 1 <= l /\ l - (g + 1) + 1 = l - g
    BY <1>1, <1>2
  <2> QED
    BY <2>4, <2>5, Zenon
<1>4. g + 1 \in 1 .. Len(a) /\ l \in 1 .. Len(a)
  BY <1>1, <1>2 DEF l
<1>5. SubSeq(w, 1, n) = SubSeq(a, g + 1, g + n)
  <2>1. 1 \in 1 .. l - (g + 1) + 1 /\ n \in 1 .. l - (g + 1) + 1
    BY <1>1, <1>2
  <2>2. SubSeq(w, 1, n) = SubSeq(a, g + 1 + 1 - 1, g + 1 + n - 1)
    BY <1>4, <2>1, SubSeqOfSubSeq
  <2>3. g + 1 + 1 - 1 = g + 1 /\ g + 1 + n - 1 = g + n
    BY <1>2
  <2> QED
    BY <2>2, <2>3
<1>6. SubSeq(a, x + 1, g) \o SubSeq(a, g + 1, g + n) = SubSeq(a, x + 1, g + n)
  <2>1. x + 1 \in 1 .. Len(a) + 1 /\ g \in x + 1 - 1 .. Len(a) /\ g + n \in g .. Len(a)
    BY <1>1, <1>2 DEF l
  <2> QED
    BY <2>1, ConcatAdjacentSubSeq
<1>7. SubSeq(w, n + 1, l - g) = SubSeq(a, g + n + 1, l)
  <2>1. CASE n = l - g
    <3>1. n + 1 \in Int /\ l - g \in Int /\ l - g < n + 1
          /\ g + n + 1 \in Int /\ l \in Int /\ l < g + n + 1
      BY <1>1, <1>2, <2>1
    <3> HIDE DEF w
    <3> QED
      BY <3>1, SubSeqEmpty
  <2>2. CASE n # l - g
    <3>1. n + 1 \in 1 .. l - (g + 1) + 1 /\ l - g \in 1 .. l - (g + 1) + 1
      BY <1>1, <1>2, <2>2
    <3>2. SubSeq(w, n + 1, l - g) = SubSeq(a, g + 1 + (n + 1) - 1, g + 1 + (l - g) - 1)
      BY <1>4, <3>1, SubSeqOfSubSeq
    <3>3. g + 1 + (n + 1) - 1 = g + n + 1 /\ g + 1 + (l - g) - 1 = l
      BY <1>1, <1>2
    <3> QED
      BY <3>2, <3>3
  <2> QED
    BY <2>1, <2>2
<1> HIDE DEF w
<1>8. Len(w) = l - g /\ SubSeq(a, x + 1, g) \o SubSeq(w, 1, n) = SubSeq(a, x + 1, g + n)
      /\ SubSeq(w, n + 1, Len(w)) = SubSeq(a, g + n + 1, l)
  BY <1>3, <1>5, <1>6, <1>7
<1> QED
  BY <1>8 DEF w, l

\* What a decoded frame is made into.
LEMMA ContentType ==
  ASSUME NEW frame \in AnyFrame, FrameDecodes(frame)
  PROVE  Content(frame) \in Seq(Nat)
<1> DEFINE b == frame.payload
           e == MetadataEnd(b)
<1>1. b \in Seq(Nat) /\ Len(b) \in Nat
  BY LenProperties DEF AnyFrame
<1>2. CASE frame.kind = ControlFrameKind
  BY <1>1, <1>2 DEF Content
<1>3. CASE frame.kind # ControlFrameKind
  <2>1. Len(b) >= 4
    BY <1>3 DEF FrameDecodes, BinaryDecodes
  <2>2. b[1] \in Nat /\ b[2] \in Nat /\ b[3] \in Nat /\ b[4] \in Nat
    <3>1. \A n \in Nat : n >= 4 => 1 \in 1 .. n /\ 2 \in 1 .. n /\ 3 \in 1 .. n /\ 4 \in 1 .. n
      OBVIOUS
    <3>2. 1 \in 1 .. Len(b) /\ 2 \in 1 .. Len(b) /\ 3 \in 1 .. Len(b) /\ 4 \in 1 .. Len(b)
      BY <1>1, <2>1, <3>1, Zenon
    <3> QED
      BY <1>1, <3>2, ElementOfSeq
  <2>3. e \in Nat
    BY <2>2, SMT DEF MetadataEnd, ReadBigEndianU32
  <2> HIDE DEF e
  <2>4. \A i \in e + 1 .. Len(b) : i \in 1 .. Len(b)
    BY <1>1, <2>3
  <2>5. \A i \in e + 1 .. Len(b) : b[i] \in Nat
    BY <1>1, <2>4, ElementOfSeq
  <2>6. e + 1 \in Int /\ Len(b) \in Int
    BY <1>1, <2>3
  <2>7. SubSeq(b, e + 1, Len(b)) \in Seq(Nat)
    BY <2>5, <2>6, SubSeqProperties
  <2> QED
    BY <1>3, <2>7 DEF Content, e
<1> QED
  BY <1>2, <1>3

\* A decoder that asks for more holds less than the largest frame it would accept.
LEMMA AwaitingIsBounded ==
  ASSUME NEW b \in Seq(Nat), TakeFrame(b).status = "NeedMoreData"
  PROVE  Len(b) < FrameHeaderBytes + MaxBinaryFrameBytes
<1>1. Len(b) \in Nat
  BY LenProperties
<1>2. CASE ~HeaderArrived(b)
  BY <1>1, <1>2, LimitsAreNumbers DEF HeaderArrived, FrameHeaderBytes
<1>3. CASE HeaderArrived(b)
  <2>1. HeaderError(b) = "none" /\ Len(b) < CompleteSize(b)
    BY <1>3 DEF TakeFrame
  <2>2. b[9] \in Nat /\ b[10] \in Nat /\ b[11] \in Nat /\ b[12] \in Nat
    <3>1. Len(b) >= 12
      BY <1>3 DEF HeaderArrived, FrameHeaderBytes
    <3>2. \A n \in Nat : n >= 12
            => 9 \in 1 .. n /\ 10 \in 1 .. n /\ 11 \in 1 .. n /\ 12 \in 1 .. n
      OBVIOUS
    <3>3. 9 \in 1 .. Len(b) /\ 10 \in 1 .. Len(b) /\ 11 \in 1 .. Len(b) /\ 12 \in 1 .. Len(b)
      BY <1>1, <3>1, <3>2, Zenon
    <3> QED
      BY <3>3, ElementOfSeq
  <2>3. PayloadSize(b) \in Nat
    <3>1. \A p, q, r, s \in Nat : p * 2^24 + q * 2^16 + r * 2^8 + s \in Nat
      BY SMT
    <3>2. PayloadSize(b) = b[9] * 2^24 + b[10] * 2^16 + b[11] * 2^8 + b[12]
      BY SMT DEF PayloadSize, ReadBigEndianU32, PayloadLengthOffset
    <3> DEFINE value == b[9] * 2^24 + b[10] * 2^16 + b[11] * 2^8 + b[12]
    <3>3. value \in Nat
      BY <2>2, <3>1, Zenon
    <3> HIDE DEF value
    <3>4. PayloadSize(b) = value
      BY <3>2, Zenon DEF value
    <3> QED
      BY <3>3, <3>4
  <2>4. ~(PayloadSize(b) > FrameLimit(KindOf(b), MaxControlFrameBytes, MaxBinaryFrameBytes))
    BY <2>1 DEF HeaderError
  <2>5. PayloadSize(b) <= MaxBinaryFrameBytes
    BY <2>3, <2>4, LimitsAreNumbers DEF FrameLimit
  <2> QED
    BY <1>1, <2>1, <2>3, <2>5, LimitsAreNumbers DEF CompleteSize, FrameHeaderBytes
<1> QED
  BY <1>2, <1>3

-----------------------------------------------------------------------------
(* The client reading the stream *)

\* The bytes that have arrived.
Got == End(frames, Len(frames)) - Len(wire)

\* Why frame i is refused, and where the stream has come when it can be.
Reason(i) == IF damage.frame # i /\ TooLarge(frames[i]) THEN "FRAME_TOO_LARGE"
                                                       ELSE "FRAME_INVALID"
Known(i) == IF HeaderWrong(i) THEN End(frames, i - 1) + FrameHeaderBytes ELSE End(frames, i)

StreamTypes ==
    /\ frames \in Seq(PeerFrames) /\ damage \in Damages(Len(frames))
    /\ looping \in BOOLEAN /\ failure \in {"none", "FRAME_INVALID", "FRAME_TOO_LARGE"}

\* The wire holds the rest of the stream.
WireIsTheRest ==
    /\ Got \in Nat /\ Got <= End(frames, Len(frames))
    /\ wire = SubSeq(Arriving(frames, damage), Got + 1, End(frames, Len(frames)))

\* The frames taken are the first ones, and none of them is wrong.
TakenInOrder ==
    /\ contents \in Seq(Seq(Nat)) /\ Len(contents) <= Len(frames)
    /\ End(frames, Len(contents)) <= Got
    /\ \A i \in 1 .. Len(contents) : contents[i] = Content(frames[i]) /\ ~Wrong(i)

\* The buffer holds what arrived behind them.
BufferIsUnread ==
    failure = "none" => inputBuffer_ = Unread(frames, damage, Len(contents), Got)

\* Out of the loop the decoder asks for more.
AwaitingMore ==
    failure = "none" /\ ~looping => TakeFrame(inputBuffer_).status = "NeedMoreData"

\* A client that failed did so at the first wrong frame, when it could be known.
FailedAtFault ==
    failure # "none" =>
        LET m == Len(contents) + 1
        IN  /\ ~looping /\ m <= Len(frames)
            /\ Wrong(m) /\ failure = Reason(m) /\ Known(m) <= Got

IInv == /\ StreamTypes /\ WireIsTheRest /\ TakenInOrder
        /\ BufferIsUnread /\ AwaitingMore /\ FailedAtFault

\* What is left of a sequence behind its first g elements.
LEMMA RestLength ==
  ASSUME NEW a \in Seq(Nat), NEW g \in 0 .. Len(a)
  PROVE  Len(SubSeq(a, g + 1, Len(a))) = Len(a) - g
<1>1. Len(a) \in Nat
  BY LenProperties
<1>2. \A i \in g + 1 .. Len(a) : i \in 1 .. Len(a)
  BY <1>1
<1>3. \A i \in g + 1 .. Len(a) : a[i] \in Nat
  BY <1>2, ElementOfSeq
<1>4. g + 1 \in Int /\ Len(a) \in Int
  BY <1>1
<1> DEFINE rest == SubSeq(a, g + 1, Len(a))
<1>5. Len(rest) = IF g + 1 <= Len(a) THEN Len(a) - (g + 1) + 1 ELSE 0
  BY <1>3, <1>4, SubSeqProperties
<1> HIDE DEF rest
<1>6. Len(rest) = Len(a) - g
  BY <1>1, <1>5
<1> QED
  BY <1>6 DEF rest

\* EndOf of the model, in the terms of the lemmas.
LEMMA EndOfIsEnd ==
  ASSUME frames \in Seq(PeerFrames), NEW i \in 0 .. Len(frames)
  PROVE  EndOf(i) = End(frames, i)
<1>1. FlattenSeq([j \in 1 .. i |-> Encoded(frames[j])]) = Prefix(Pieces(frames), i)
  BY PiecesAreEncoded
<1> QED
  BY <1>1, Zenon DEF EndOf, End, Ends

\* Hence so are the bytes received and the point where a fault is known.
LEMMA ReceivedIsGot ==
  ASSUME frames \in Seq(PeerFrames)
  PROVE  /\ Received = Got
         /\ \A i \in 1 .. Len(frames) : KnownAt(i) = Known(i)
<1>1. Len(frames) \in Nat
  BY LenProperties
<1>2. EndOf(Len(frames)) = End(frames, Len(frames))
  <2>1. Len(frames) \in 0 .. Len(frames)
    BY <1>1
  <2> QED
    BY <2>1, EndOfIsEnd
<1>3. ASSUME NEW i \in 1 .. Len(frames)
      PROVE  KnownAt(i) = Known(i)
  <2>1. i \in 0 .. Len(frames) /\ i - 1 \in 0 .. Len(frames)
    BY <1>1
  <2>2. EndOf(i) = End(frames, i)
    BY <2>1, EndOfIsEnd
  <2> DEFINE j == i - 1
  <2>3. j \in 0 .. Len(frames)
    BY <2>1
  <2> HIDE DEF j
  <2>4. EndOf(j) = End(frames, j)
    BY <2>3, EndOfIsEnd
  <2> QED
    BY <2>2, <2>4 DEF KnownAt, Known, j
<1> QED
  BY <1>2, <1>3, Zenon DEF Received, Got

\* The stream of the state: frames, ends, and places in it.
LEMMA StreamFacts ==
  ASSUME StreamTypes
  PROVE  /\ Len(frames) \in Nat
         /\ \A i \in 0 .. Len(frames) : End(frames, i) \in Nat
         /\ \A i \in 0 .. Len(frames) : \A j \in i .. Len(frames) :
              End(frames, i) <= End(frames, j)
         /\ \A i \in 1 .. Len(frames) :
              /\ End(frames, i - 1) + FrameHeaderBytes <= End(frames, i)
              /\ Known(i) \in Nat /\ Known(i) <= End(frames, i)
              /\ End(frames, i - 1) + FrameHeaderBytes <= Known(i)
<1>1. frames \in Seq(PeerFrames) /\ Len(frames) \in Nat
  BY LenProperties DEF StreamTypes
<1>2. ASSUME NEW i \in 1 .. Len(frames)
      PROVE  /\ End(frames, i - 1) + FrameHeaderBytes <= End(frames, i)
             /\ Known(i) \in Nat /\ Known(i) <= End(frames, i)
             /\ End(frames, i - 1) + FrameHeaderBytes <= Known(i)
  <2>1. i \in 0 .. Len(frames) /\ i - 1 \in 0 .. Len(frames)
    BY <1>1
  <2>2. End(frames, i) \in Nat /\ End(frames, i - 1) \in Nat
    BY <1>1, <2>1, EndsOfFrames
  <2>3. End(frames, i) = End(frames, i - 1) + Len(Packed(frames[i]))
    BY <1>1, EndsOfFrames
  <2>4. Len(Packed(frames[i])) = 12 + Len(frames[i].payload) /\ Len(frames[i].payload) \in Nat
    BY <1>1, PiecesType DEF FrameHeaderBytes
  <2>5. End(frames, i - 1) + 12 <= End(frames, i)
    <3>1. \A x, y \in Nat : x + 12 <= x + (12 + y)
      OBVIOUS
    <3> QED
      BY <2>2, <2>3, <2>4, <3>1, Zenon
  <2> QED
    BY <2>2, <2>5 DEF Known, FrameHeaderBytes
<1> QED
  BY <1>1, <1>2, EndsOfFrames

\* What the step of the loop finds.
LEMMA LoopJudged ==
  ASSUME StreamTypes, WireIsTheRest, TakenInOrder, BufferIsUnread, failure = "none"
  PROVE  LET m == Len(contents) + 1
         IN  /\ m > Len(frames) => Decoded = [status |-> "NeedMoreData"]
             /\ m <= Len(frames) /\ Got < Known(m) => Decoded = [status |-> "NeedMoreData"]
             /\ m <= Len(frames) /\ Known(m) <= Got /\ HeaderWrong(m)
                  => Decoded = [status |-> "Error", code |-> Reason(m)]
             /\ m <= Len(frames) /\ Known(m) <= Got /\ ~HeaderWrong(m)
                  => Decoded = [status |-> "Complete", frame |-> frames[m],
                                rest |-> Unread(frames, damage, m, Got)]
<1> DEFINE n == Len(frames)
           k == Len(contents)
           m == k + 1
           x == End(frames, k)
<1>1. n \in Nat /\ k \in Nat /\ k <= n /\ k \in 0 .. n /\ k = m - 1
  BY StreamFacts, LenProperties DEF TakenInOrder
<1>2. frames \in Seq(PeerFrames) /\ damage \in Damages(n)
  BY DEF StreamTypes
<1>3. inputBuffer_ = Unread(frames, damage, k, Got)
  BY DEF BufferIsUnread
<1>4. Got \in Nat /\ Got <= End(frames, n) /\ x <= Got /\ x \in Nat
  BY <1>1, StreamFacts DEF WireIsTheRest, TakenInOrder
<1> HIDE DEF n, k
<1>5. CASE m > n
  <2>1. k = n
    BY <1>1, <1>5
  <2>2. Len(inputBuffer_) = Got - x /\ Got = x
    <3>1. Len(inputBuffer_) = Got - x
      BY <1>1, <1>2, <1>3, <1>4, UnreadLayout DEF n
    <3> QED
      BY <1>4, <2>1, <3>1
  <2>3. ~HeaderArrived(inputBuffer_)
    BY <1>4, <2>2 DEF HeaderArrived, FrameHeaderBytes
  <2> QED
    BY <1>5, <2>3, ShortAwaited DEF Decoded, k, n
<1>6. CASE m <= n
  <2>1. m \in 1 .. n
    BY <1>1, <1>6
  <2> HIDE DEF m
  <2>2. End(frames, m) \in Nat /\ x + FrameHeaderBytes <= Known(m) /\ Known(m) <= End(frames, m)
        /\ Known(m) \in Nat
    <3>1. m \in 0 .. n
      BY <1>1, <2>1
    <3> QED
      BY <1>1, <2>1, <3>1, StreamFacts DEF n
  <2>3. End(frames, m - 1) = x /\ Unread(frames, damage, m - 1, Got) = inputBuffer_
    BY <1>1, <1>3, Zenon
  <2> DEFINE b == inputBuffer_
  <2>4. /\ Got < x + FrameHeaderBytes => TakeFrame(b) = [status |-> "NeedMoreData"]
        /\ Got >= x + FrameHeaderBytes /\ damage.frame = m
             => TakeFrame(b) = [status |-> "Error", code |-> "FRAME_INVALID"]
        /\ Got >= x + FrameHeaderBytes /\ damage.frame # m /\ TooLarge(frames[m])
             => TakeFrame(b) = [status |-> "Error", code |-> "FRAME_TOO_LARGE"]
        /\ Got < End(frames, m) /\ damage.frame # m /\ ~TooLarge(frames[m])
             => TakeFrame(b) = [status |-> "NeedMoreData"]
        /\ Got >= End(frames, m) /\ damage.frame # m /\ ~TooLarge(frames[m])
             => TakeFrame(b) = [status |-> "Complete", frame |-> frames[m],
                                rest |-> Unread(frames, damage, m, Got)]
    <3>1. End(frames, m - 1) <= Got
      BY <1>4, <2>3
    <3>2. m \in 1 .. Len(frames) /\ damage \in Damages(Len(frames))
          /\ Got <= End(frames, Len(frames))
      BY <1>2, <1>4, <2>1 DEF n
    <3>3. Got \in Nat /\ frames \in Seq(PeerFrames)
      BY <1>2, <1>4
    <3> HIDE DEF x
    <3> QED
      BY <2>3, <3>1, <3>2, <3>3, UnreadJudged
  <2> HIDE DEF b
  <2>5. TakeFrame(b) = Decoded
    BY DEF Decoded, b
  <2>6. HeaderWrong(m) <=> damage.frame = m \/ TooLarge(frames[m])
    BY DEF HeaderWrong
  <2>7. CASE HeaderWrong(m)
    <3>1. Known(m) = x + FrameHeaderBytes
      BY <1>1, <2>7 DEF Known
    <3>2. x + FrameHeaderBytes \in Nat
      BY <1>4 DEF FrameHeaderBytes
    <3>3. Got >= Known(m) => TakeFrame(b) = [status |-> "Error", code |-> Reason(m)]
      BY <2>4, <2>6, <2>7, <3>1 DEF Reason
    <3>4. Got < Known(m) => TakeFrame(b) = [status |-> "NeedMoreData"]
      BY <2>4, <3>1
    <3> QED
      BY <1>4, <1>6, <2>2, <2>5, <2>7, <3>3, <3>4 DEF k, m, n
  <2>8. CASE ~HeaderWrong(m)
    <3>1. Known(m) = End(frames, m)
      BY <2>8 DEF Known
    <3> QED
      BY <1>4, <1>6, <2>2, <2>4, <2>5, <2>6, <2>8, <3>1 DEF k, m, n
  <2> QED
    BY <2>7, <2>8
<1> QED
  BY <1>1, <1>5, <1>6 DEF k, n

\* Nothing is read or taken at the start.
LEMMA InitInvariant ==
  ASSUME Init
  PROVE  IInv
<1> DEFINE n == Len(frames)
           a == Arriving(frames, damage)
<1>1. frames \in Seq(PeerFrames)
  <2>1. \E l \in 0 .. MaxFrames : frames \in [1 .. l -> PeerFrames]
    BY DEF Init, BoundedSeq, SeqOf
  <2>2. PICK l \in 0 .. MaxFrames : frames \in [1 .. l -> PeerFrames]
    BY <2>1
  <2>3. l \in Nat
    BY FramesAssumption
  <2> QED
    BY <2>2, <2>3, SeqDef
<1>2. n \in Nat /\ DOMAIN frames = 1 .. n /\ damage \in Damages(n)
  BY <1>1, LenProperties DEF Init
<1>3. a \in Seq(Nat) /\ Len(a) = End(frames, n) /\ Len(a) \in Nat
  BY <1>1, <1>2, ArrivingLayout, LenProperties
<1>4. wire = a
  <2>1. FlattenSeq([j \in DOMAIN frames |-> Encoded(frames[j])]) = Stream(frames)
    <3>1. n \in 0 .. n
      BY <1>2
    <3>2. FlattenSeq([j \in 1 .. n |-> Encoded(frames[j])]) = Prefix(Pieces(frames), n)
      BY <1>1, <3>1, PiecesAreEncoded
    <3> QED
      BY <1>2, <3>2, Zenon DEF Stream
  <2>2. CASE damage = NoDamage
    BY <2>1, <2>2 DEF Init, Arriving
  <2>3. CASE damage # NoDamage
    <3>1. damage.frame \in 1 .. n
      BY <1>1, <1>2, <2>3, DamageInHeader
    <3> DEFINE j == damage.frame - 1
    <3>2. j \in 0 .. n
      BY <1>2, <3>1
    <3> HIDE DEF j
    <3>3. EndOf(j) = End(frames, j)
      BY <1>1, <3>2, EndOfIsEnd
    <3>4. wire = [Stream(frames) EXCEPT ![EndOf(j) + damage.position] = damage.value]
      BY <2>1, <2>3 DEF Init, j
    <3>5. a = [Stream(frames) EXCEPT ![End(frames, j) + damage.position] = damage.value]
      BY <2>3 DEF Arriving, j
    <3> QED
      BY <3>3, <3>4, <3>5
  <2> QED
    BY <2>2, <2>3
<1>5. contents = <<>> /\ inputBuffer_ = <<>> /\ failure = "none" /\ looping = FALSE
  BY DEF Init
<1>6. Len(contents) = 0 /\ contents \in Seq(Seq(Nat))
  BY <1>5
<1>7. End(frames, 0) = 0
  BY <1>1, EndsOfFrames
<1> HIDE DEF a, n
<1>8. Got = 0
  BY <1>3, <1>4 DEF Got, n
<1>9. StreamTypes
  BY <1>1, <1>2, <1>5 DEF StreamTypes, n
<1>10. WireIsTheRest
  <2>1. SubSeq(a, 1, Len(a)) = a
    BY <1>3, SubSeqFull
  <2> QED
    BY <1>3, <1>4, <1>8, <2>1 DEF WireIsTheRest, a, n
<1>11. TakenInOrder
  BY <1>2, <1>6, <1>7, <1>8 DEF TakenInOrder, n
<1>12. BufferIsUnread
  <2>1. SubSeq(a, 1, 0) = <<>>
    <3>1. 1 \in Int /\ 0 \in Int /\ 0 < 1
      OBVIOUS
    <3> QED
      BY <3>1, SubSeqEmpty
  <2> QED
    BY <1>5, <1>6, <1>7, <1>8, <2>1 DEF BufferIsUnread, Unread, a
<1>13. AwaitingMore
  <2>1. ~HeaderArrived(inputBuffer_)
    BY <1>5 DEF HeaderArrived, FrameHeaderBytes
  <2> QED
    BY <2>1, ShortAwaited DEF AwaitingMore
<1>14. FailedAtFault
  BY <1>5 DEF FailedAtFault
<1> QED
  BY <1>9, <1>10, <1>11, <1>12, <1>13, <1>14 DEF IInv

\* What only depends on the variables a step leaves alone.
LEMMA StreamStays ==
  ASSUME UNCHANGED <<frames, damage>>
  PROVE  /\ \A i : End(frames, i)' = End(frames, i)
         /\ \A i : Wrong(i)' <=> Wrong(i)
         /\ \A i : Reason(i)' = Reason(i)
         /\ \A i : Known(i)' = Known(i)
BY Zenon DEF End, Wrong, HeaderWrong, Reason, Known

\* Reading moves bytes from the wire to the buffer.
LEMMA ReadInvariant ==
  ASSUME IInv, NEW n \in 1 .. Len(wire), Read(n)
  PROVE  IInv'
<1> DEFINE a == Arriving(frames, damage)
           l == Len(a)
           g == Got
           k == Len(contents)
           x == End(frames, k)
<1>1. /\ ~looping /\ failure = "none"
      /\ inputBuffer_' = inputBuffer_ \o SubSeq(wire, 1, n)
      /\ wire' = SubSeq(wire, n + 1, Len(wire))
      /\ looping' = TRUE
      /\ frames' = frames /\ damage' = damage /\ contents' = contents /\ failure' = failure
  BY DEF Read
<1>2. StreamTypes /\ WireIsTheRest /\ TakenInOrder /\ BufferIsUnread
  BY DEF IInv
<1>3. frames \in Seq(PeerFrames) /\ damage \in Damages(Len(frames)) /\ Len(frames) \in Nat
  BY <1>2, StreamFacts DEF StreamTypes
<1>4. a \in Seq(Nat) /\ l = End(frames, Len(frames)) /\ l \in Nat
  BY <1>3, ArrivingLayout, LenProperties
<1>5. g \in Nat /\ g <= l /\ wire = SubSeq(a, g + 1, l)
  BY <1>2, <1>4 DEF WireIsTheRest
<1>6. k \in Nat /\ k \in 0 .. Len(frames) /\ x \in Nat /\ x <= g
  BY <1>2, <1>3, StreamFacts, LenProperties DEF TakenInOrder
<1>7. inputBuffer_ = SubSeq(a, x + 1, g)
  BY <1>1, <1>2 DEF BufferIsUnread, Unread
<1> HIDE DEF a, g, x
<1>8. Len(wire) = l - g
  <2>1. g \in 0 .. Len(a)
    BY <1>4, <1>5
  <2> QED
    BY <1>4, <1>5, <2>1, RestLength
<1>9. n \in Nat /\ g + n \in Nat /\ g + n <= l /\ g <= g + n
  BY <1>4, <1>5, <1>8
<1>10. /\ inputBuffer_' = SubSeq(a, x + 1, g + n)
       /\ wire' = SubSeq(a, g + n + 1, l)
  <2>1. g \in 0 .. Len(a) /\ x \in 0 .. g /\ n \in 1 .. Len(a) - g
    BY <1>4, <1>5, <1>6, <1>8
  <2>2. LET w == SubSeq(a, g + 1, Len(a))
        IN  /\ SubSeq(a, x + 1, g) \o SubSeq(w, 1, n) = SubSeq(a, x + 1, g + n)
            /\ SubSeq(w, n + 1, Len(w)) = SubSeq(a, g + n + 1, Len(a))
    BY <1>4, <2>1, ReadMoves
  <2> QED
    BY <1>1, <1>5, <1>7, <2>2
<1>11. Len(wire') = l - (g + n)
  <2>1. g + n \in 0 .. Len(a)
    BY <1>4, <1>9
  <2> QED
    BY <1>4, <1>10, <2>1, RestLength
<1> HIDE DEF l
<1>12. Got' = g + n
  <2>1. End(frames, Len(frames))' = l
    BY <1>1, <1>4
  <2>2. Got' = l - Len(wire')
    BY <2>1 DEF Got
  <2>3. l - (l - (g + n)) = g + n
    BY <1>4, <1>9
  <2> QED
    BY <1>11, <2>2, <2>3
<1>13. StreamTypes'
  BY <1>1, <1>2 DEF StreamTypes
<1>14. WireIsTheRest'
  <2>1. /\ End(frames, Len(frames))' = l /\ Arriving(frames, damage)' = a
    BY <1>1, <1>4 DEF a
  <2> QED
    BY <1>9, <1>10, <1>12, <2>1 DEF WireIsTheRest
<1>15. TakenInOrder'
  <2>1. End(frames, Len(contents))' = x
    BY <1>1 DEF x
  <2>2. x <= g + n
    BY <1>5, <1>6, <1>9
  <2>3. \A i : Wrong(i)' <=> Wrong(i)
    BY <1>1, StreamStays
  <2> QED
    BY <1>1, <1>2, <1>12, <2>1, <2>2, <2>3 DEF TakenInOrder
<1>16. BufferIsUnread'
  BY <1>1, <1>10, <1>12 DEF BufferIsUnread, Unread, a, x
<1>17. AwaitingMore' /\ FailedAtFault'
  BY <1>1 DEF AwaitingMore, FailedAtFault
<1> QED
  BY <1>13, <1>14, <1>15, <1>16, <1>17 DEF IInv

\* Without a whole frame the loop is left, and nothing else changes.
LEMMA WaitInvariant ==
  ASSUME IInv, Wait
  PROVE  IInv'
<1>1. /\ Decoded.status = "NeedMoreData" /\ looping' = FALSE
      /\ frames' = frames /\ damage' = damage /\ contents' = contents /\ failure' = failure
      /\ wire' = wire /\ inputBuffer_' = inputBuffer_ /\ looping
  BY DEF Wait
<1>2. Got' = Got /\ End(frames, Len(contents))' = End(frames, Len(contents))
  BY <1>1 DEF Got
<1>3. (\A i : Wrong(i)' <=> Wrong(i)) /\ failure = "none"
  BY <1>1, StreamStays DEF IInv, FailedAtFault, StreamTypes
<1>4. StreamTypes'
  BY <1>1 DEF IInv, StreamTypes
<1>5. WireIsTheRest'
  BY <1>1, <1>2 DEF IInv, WireIsTheRest
<1>6. TakenInOrder'
  BY <1>1, <1>2, <1>3 DEF IInv, TakenInOrder
<1>7. BufferIsUnread'
  BY <1>1, <1>2 DEF IInv, BufferIsUnread
<1>8. AwaitingMore' /\ FailedAtFault'
  BY <1>1, <1>3 DEF AwaitingMore, FailedAtFault, Decoded
<1> QED
  BY <1>4, <1>5, <1>6, <1>7, <1>8 DEF IInv

\* The next frame is taken whole, and is made into its content unless it cannot be.
LEMMA TakeInvariant ==
  ASSUME IInv, Take
  PROVE  IInv'
<1> DEFINE k == Len(contents)
           m == k + 1
<1>1. /\ looping /\ Decoded.status = "Complete" /\ inputBuffer_' = Decoded.rest
      /\ frames' = frames /\ damage' = damage /\ wire' = wire
  BY DEF Take
<1>2. StreamTypes /\ WireIsTheRest /\ TakenInOrder /\ BufferIsUnread /\ failure = "none"
  BY <1>1 DEF IInv, FailedAtFault, StreamTypes
<1>3. Len(frames) \in Nat /\ k \in Nat /\ Got \in Nat
  BY <1>2, StreamFacts, LenProperties DEF TakenInOrder, WireIsTheRest
<1>4. /\ m <= Len(frames) /\ Known(m) <= Got /\ ~HeaderWrong(m)
      /\ Decoded = [status |-> "Complete", frame |-> frames[m],
                    rest |-> Unread(frames, damage, m, Got)]
  <2> DEFINE waiting == [status |-> "NeedMoreData"]
             refused == [status |-> "Error", code |-> Reason(m)]
  <2>1. waiting.status # "Complete" /\ refused.status # "Complete"
    OBVIOUS
  <2>2. m > Len(frames) => Decoded = waiting
    BY <1>2, LoopJudged
  <2>3. m <= Len(frames) /\ Got < Known(m) => Decoded = waiting
    BY <1>2, LoopJudged
  <2>4. m <= Len(frames) /\ Known(m) <= Got /\ HeaderWrong(m) => Decoded = refused
    BY <1>2, LoopJudged
  <2>5. m <= Len(frames) /\ Known(m) <= Got /\ ~HeaderWrong(m)
          => Decoded = [status |-> "Complete", frame |-> frames[m],
                        rest |-> Unread(frames, damage, m, Got)]
    BY <1>2, LoopJudged
  <2>6. m \in 1 .. Len(frames) => Known(m) \in Nat
    BY <1>2, StreamFacts
  <2> HIDE DEF waiting, refused
  <2> QED
    BY <1>1, <1>3, <2>1, <2>2, <2>3, <2>4, <2>5, <2>6
<1>5. m \in 1 .. Len(frames) /\ frames \in Seq(PeerFrames)
  BY <1>2, <1>3, <1>4 DEF StreamTypes
<1>6. Known(m) = End(frames, m)
  BY <1>4 DEF Known
<1>7. Decoded.frame = frames[m] /\ inputBuffer_' = Unread(frames, damage, m, Got)
  BY <1>1, <1>4
<1>8. Got' = Got /\ StreamTypes' /\ WireIsTheRest'
  <2>1. Got' = Got
    BY <1>1 DEF Got
  <2>2. failure' \in {"none", "FRAME_INVALID"} /\ looping' \in BOOLEAN
    BY <1>2 DEF Take, StreamTypes
  <2>3. StreamTypes'
    BY <1>1, <1>2, <2>2 DEF StreamTypes
  <2>4. WireIsTheRest'
    BY <1>1, <1>2, <2>1 DEF WireIsTheRest
  <2> QED
    BY <2>1, <2>3, <2>4
<1>9. /\ \A i : End(frames, i)' = End(frames, i)
      /\ \A i : Wrong(i)' <=> Wrong(i)
      /\ \A i : Reason(i)' = Reason(i)
      /\ \A i : Known(i)' = Known(i)
  BY <1>1, StreamStays
<1>10. CASE FrameDecodes(frames[m])
  <2>1. contents' = Append(contents, Content(frames[m])) /\ looping' /\ failure' = "none"
    BY <1>1, <1>2, <1>7, <1>10 DEF Take
  <2>2. ~Wrong(m)
    BY <1>4, <1>10 DEF Wrong
  <2>3. Content(frames[m]) \in Seq(Nat)
    <3>1. frames[m] \in AnyFrame
      BY <1>5, PiecesType
    <3> QED
      BY <1>10, <3>1, ContentType
  <2>4. contents \in Seq(Seq(Nat))
    BY <1>2 DEF TakenInOrder
  <2>5. /\ contents' \in Seq(Seq(Nat)) /\ Len(contents') = m
        /\ \A i \in 1 .. k : contents'[i] = contents[i]
        /\ contents'[m] = Content(frames[m])
    <3> DEFINE c == Content(frames[m])
    <3> HIDE DEF c
    <3> QED
      BY <2>1, <2>3, <2>4, AppendProperties DEF c
  <2>6. TakenInOrder'
    <3>1. ASSUME NEW i \in 1 .. m
          PROVE  contents'[i] = Content(frames[i]) /\ ~Wrong(i)
      <4>1. i \in 1 .. k \/ i = m
        BY <1>3
      <4> QED
        BY <1>2, <2>2, <2>5, <4>1 DEF TakenInOrder
    <3>2. End(frames, Len(contents))' <= Got'
      BY <1>4, <1>6, <1>8, <1>9, <2>5
    <3> HIDE DEF m
    <3> QED
      BY <1>1, <1>4, <1>9, <2>5, <3>1, <3>2 DEF TakenInOrder
  <2>7. BufferIsUnread'
    BY <1>1, <1>7, <1>8, <2>5 DEF BufferIsUnread
  <2>8. AwaitingMore' /\ FailedAtFault'
    BY <2>1 DEF AwaitingMore, FailedAtFault
  <2> QED
    BY <1>8, <2>6, <2>7, <2>8 DEF IInv
<1>11. CASE ~FrameDecodes(frames[m])
  <2>1. contents' = contents /\ ~looping' /\ failure' = "FRAME_INVALID"
    BY <1>1, <1>7, <1>11 DEF Take
  <2>2. Wrong(m) /\ Reason(m) = "FRAME_INVALID"
    BY <1>4, <1>11 DEF Wrong, HeaderWrong, Reason
  <2>3. TakenInOrder'
    BY <1>1, <1>2, <1>8, <1>9, <2>1 DEF TakenInOrder
  <2>4. BufferIsUnread' /\ AwaitingMore'
    BY <2>1 DEF BufferIsUnread, AwaitingMore
  <2>5. FailedAtFault'
    BY <1>1, <1>4, <1>8, <1>9, <2>1, <2>2 DEF FailedAtFault
  <2> QED
    BY <1>8, <2>3, <2>4, <2>5 DEF IInv
<1> QED
  BY <1>10, <1>11

\* A wrong header ends the reading.
LEMMA RejectInvariant ==
  ASSUME IInv, Reject
  PROVE  IInv'
<1> DEFINE k == Len(contents)
           m == k + 1
<1>1. /\ looping /\ Decoded.status = "Error" /\ failure' = Decoded.code /\ looping' = FALSE
      /\ frames' = frames /\ damage' = damage /\ wire' = wire /\ inputBuffer_' = inputBuffer_
      /\ contents' = contents
  BY DEF Reject
<1>2. StreamTypes /\ WireIsTheRest /\ TakenInOrder /\ BufferIsUnread /\ failure = "none"
  BY <1>1 DEF IInv, FailedAtFault, StreamTypes
<1>3. Len(frames) \in Nat /\ k \in Nat /\ Got \in Nat
  BY <1>2, StreamFacts, LenProperties DEF TakenInOrder, WireIsTheRest
<1>4. /\ m <= Len(frames) /\ Known(m) <= Got /\ HeaderWrong(m)
      /\ Decoded = [status |-> "Error", code |-> Reason(m)]
  <2> DEFINE waiting == [status |-> "NeedMoreData"]
             whole == [status |-> "Complete", frame |-> frames[m],
                       rest |-> Unread(frames, damage, m, Got)]
  <2>1. waiting.status # "Error" /\ whole.status # "Error"
    OBVIOUS
  <2>2. m > Len(frames) => Decoded = waiting
    BY <1>2, LoopJudged
  <2>3. m <= Len(frames) /\ Got < Known(m) => Decoded = waiting
    BY <1>2, LoopJudged
  <2>4. m <= Len(frames) /\ Known(m) <= Got /\ HeaderWrong(m)
          => Decoded = [status |-> "Error", code |-> Reason(m)]
    BY <1>2, LoopJudged
  <2>5. m <= Len(frames) /\ Known(m) <= Got /\ ~HeaderWrong(m) => Decoded = whole
    BY <1>2, LoopJudged
  <2>6. m \in 1 .. Len(frames) => Known(m) \in Nat
    BY <1>2, StreamFacts
  <2> HIDE DEF waiting, whole
  <2> QED
    BY <1>1, <1>3, <2>1, <2>2, <2>3, <2>4, <2>5, <2>6
<1>5. failure' = Reason(m) /\ failure' # "none" /\ Wrong(m)
  BY <1>1, <1>4 DEF Reason, Wrong
<1>6. Got' = Got
  BY <1>1 DEF Got
<1>7. /\ \A i : End(frames, i)' = End(frames, i)
      /\ \A i : Wrong(i)' <=> Wrong(i)
      /\ \A i : Reason(i)' = Reason(i)
      /\ \A i : Known(i)' = Known(i)
  BY <1>1, StreamStays
<1>8. StreamTypes'
  <2>1. failure' \in {"none", "FRAME_INVALID", "FRAME_TOO_LARGE"}
    BY <1>5 DEF Reason
  <2> QED
    BY <1>1, <1>2, <2>1 DEF StreamTypes
<1>9. WireIsTheRest'
  BY <1>1, <1>2, <1>6 DEF WireIsTheRest
<1>10. TakenInOrder'
  BY <1>1, <1>2, <1>6, <1>7 DEF TakenInOrder
<1>11. BufferIsUnread' /\ AwaitingMore'
  BY <1>5 DEF BufferIsUnread, AwaitingMore
<1>12. FailedAtFault'
  BY <1>1, <1>4, <1>5, <1>6, <1>7 DEF FailedAtFault
<1> QED
  BY <1>8, <1>9, <1>10, <1>11, <1>12 DEF IInv

\* The invariant holds throughout.
THEOREM Invariance == Spec => []IInv
<1>1. Init => IInv
  BY InitInvariant
<1>2. IInv /\ [Next]_vars => IInv'
  <2> SUFFICES ASSUME IInv, [Next]_vars PROVE IInv'
    OBVIOUS
  <2>1. ASSUME NEW n \in 1 .. Len(wire), Read(n) PROVE IInv'
    BY <2>1, ReadInvariant
  <2>2. CASE Wait
    BY <2>2, WaitInvariant
  <2>3. CASE Take
    BY <2>3, TakeInvariant
  <2>4. CASE Reject
    BY <2>4, RejectInvariant
  <2>5. CASE UNCHANGED vars
    <3>1. /\ frames' = frames /\ damage' = damage /\ contents' = contents /\ wire' = wire
          /\ failure' = failure /\ looping' = looping /\ inputBuffer_' = inputBuffer_
      BY <2>5 DEF vars
    <3>2. /\ Got' = Got
          /\ \A i : End(frames, i)' = End(frames, i)
          /\ \A i : Wrong(i)' <=> Wrong(i)
          /\ \A i : Reason(i)' = Reason(i)
          /\ \A i : Known(i)' = Known(i)
      BY <3>1, StreamStays DEF Got
    <3>3. StreamTypes' /\ WireIsTheRest' /\ TakenInOrder'
      BY <3>1, <3>2 DEF IInv, StreamTypes, WireIsTheRest, TakenInOrder
    <3>4. BufferIsUnread' /\ AwaitingMore' /\ FailedAtFault'
      BY <3>1, <3>2 DEF IInv, BufferIsUnread, AwaitingMore, FailedAtFault
    <3> QED
      BY <3>3, <3>4 DEF IInv
  <2> QED
    BY <2>1, <2>2, <2>3, <2>4, <2>5 DEF Next
<1> QED
  BY <1>1, <1>2, PTL DEF Spec

-----------------------------------------------------------------------------
(* What follows for the client *)

\* Out of the loop, without a failure, the next frame has not arrived so far that
\* it could be taken or refused.
LEMMA NextNotKnown ==
  ASSUME IInv, ~looping, failure = "none", Len(contents) + 1 <= Len(frames)
  PROVE  Got < Known(Len(contents) + 1)
<1> DEFINE m == Len(contents) + 1
<1>1. Decoded.status = "NeedMoreData"
  BY DEF IInv, AwaitingMore, Decoded
<1>2. StreamTypes /\ WireIsTheRest /\ TakenInOrder /\ BufferIsUnread
  BY DEF IInv
<1>3. m \in 1 .. Len(frames) /\ Got \in Nat
  BY <1>2, StreamFacts, LenProperties DEF TakenInOrder, WireIsTheRest
<1>4. Known(m) \in Nat
  BY <1>2, <1>3, StreamFacts
<1>5. Known(m) <= Got /\ HeaderWrong(m) => Decoded.status = "Error"
  BY <1>2, LoopJudged
<1>6. Known(m) <= Got /\ ~HeaderWrong(m) => Decoded.status = "Complete"
  BY <1>2, LoopJudged
<1> QED
  BY <1>1, <1>3, <1>4, <1>5, <1>6

\* The client never keeps more than one frame it would accept, less one byte
\* (ServiceClient::processInput empties inputBuffer_ as far as takeFrame can).
THEOREM BufferBoundedHolds == Spec => []BufferBounded
<1>1. IInv => BufferBounded
  <2> SUFFICES ASSUME IInv, ~looping, failure = "none"
               PROVE  Len(inputBuffer_) < FrameHeaderBytes + MaxBinaryFrameBytes
    BY DEF BufferBounded
  <2>1. TakeFrame(inputBuffer_).status = "NeedMoreData"
    BY DEF IInv, AwaitingMore
  <2>2. inputBuffer_ \in Seq(Nat)
    <3>1. StreamTypes /\ WireIsTheRest /\ TakenInOrder /\ BufferIsUnread
      BY DEF IInv
    <3>2. Len(contents) \in 0 .. Len(frames)
      BY <3>1, StreamFacts, LenProperties DEF TakenInOrder
    <3>3. frames \in Seq(PeerFrames) /\ damage \in Damages(Len(frames))
      BY <3>1 DEF StreamTypes
    <3>4. Got \in Nat /\ End(frames, Len(contents)) <= Got /\ Got <= End(frames, Len(frames))
      BY <3>1 DEF TakenInOrder, WireIsTheRest
    <3>5. Unread(frames, damage, Len(contents), Got) \in Seq(Nat)
      BY <3>2, <3>3, <3>4, UnreadLayout
    <3> QED
      BY <3>1, <3>5 DEF BufferIsUnread
  <2> QED
    BY <2>1, <2>2, AwaitingIsBounded
<1> QED
  BY <1>1, Invariance, PTL

\* Between two reads the client has taken exactly the frames that arrived whole and
\* are preceded by none that is wrong, in order and byte for byte, however the stream
\* was cut (takeFrame, frame_codec.cpp:82-143).
THEOREM FramesIntactHolds == Spec => []FramesIntact
<1>1. IInv => FramesIntact
  <2> DEFINE k == Len(contents)
             n == Len(frames)
             taken == {j \in Good : EndOf(j) <= Received}
  <2> SUFFICES ASSUME IInv, ~looping
               PROVE  contents = [i \in taken |-> Content(frames[i])]
    BY DEF FramesIntact
  <2>1. StreamTypes /\ WireIsTheRest /\ TakenInOrder
    BY DEF IInv
  <2>2. n \in Nat /\ k \in Nat /\ k <= n /\ Got \in Nat /\ frames \in Seq(PeerFrames)
    BY <2>1, StreamFacts, LenProperties DEF TakenInOrder, WireIsTheRest, StreamTypes
  <2>3. DOMAIN frames = 1 .. n /\ Received = Got
    BY <2>2, LenProperties, ReceivedIsGot
  <2>4. ASSUME NEW j \in 1 .. k PROVE j \in taken
    <3>1. j \in 1 .. n /\ j \in 0 .. n /\ k \in j .. n /\ k \in 0 .. n
      BY <2>2
    <3>2. \A i \in 1 .. j : ~Wrong(i)
      <4>1. \A i \in 1 .. j : i \in 1 .. k
        BY <2>2
      <4> QED
        BY <2>1, <4>1 DEF TakenInOrder
    <3>3. EndOf(j) <= Got
      <4>1. EndOf(j) = End(frames, j)
        BY <2>2, <3>1, EndOfIsEnd
      <4>2. End(frames, j) \in Nat /\ End(frames, k) \in Nat /\ End(frames, j) <= End(frames, k)
        BY <2>1, <3>1, StreamFacts
      <4> QED
        BY <2>1, <2>2, <4>1, <4>2 DEF TakenInOrder
    <3> QED
      BY <2>3, <3>1, <3>2, <3>3 DEF Good
  <2>5. ASSUME NEW j \in taken, j \notin 1 .. k PROVE FALSE
    <3> DEFINE m == k + 1
    <3>1. j \in 1 .. n /\ ~(\E i \in 1 .. j : Wrong(i)) /\ EndOf(j) <= Got
      BY <2>3 DEF Good
    <3>2. m \in 1 .. n /\ m \in 1 .. j /\ m \in 0 .. n /\ j \in m .. n /\ j \in 0 .. n
      BY <2>2, <2>5, <3>1
    <3>3. ~Wrong(m)
      BY <3>1, <3>2
    <3>4. failure = "none"
      BY <3>3 DEF IInv, FailedAtFault
    <3>5. Got < Known(m)
      BY <2>2, <3>2, <3>4, NextNotKnown
    <3>6. Known(m) = End(frames, m)
      BY <3>3 DEF Known, Wrong
    <3>7. EndOf(j) = End(frames, j)
      BY <2>2, <3>2, EndOfIsEnd
    <3>8. End(frames, m) \in Nat /\ End(frames, j) \in Nat /\ End(frames, m) <= End(frames, j)
      BY <2>1, <3>2, StreamFacts
    <3> QED
      BY <2>2, <3>1, <3>5, <3>6, <3>7, <3>8
  <2>6. taken = 1 .. k
    <3>1. taken \subseteq 1 .. k
      BY <2>5
    <3> QED
      BY <2>4, <3>1
  <2> HIDE DEF taken
  <2>7. contents = [i \in 1 .. k |-> contents[i]]
    BY <2>1, LenProperties DEF TakenInOrder
  <2>8. \A i \in 1 .. k : contents[i] = Content(frames[i])
    BY <2>1 DEF TakenInOrder
  <2> HIDE DEF k
  <2>9. contents = [i \in 1 .. k |-> Content(frames[i])]
    BY <2>7, <2>8
  <2> QED
    BY <2>6, <2>9
<1> QED
  BY <1>1, Invariance, PTL

\* A wrong frame is refused as soon as it can be, for its own reason and for no other:
\* a header without waiting for the payload it announces (takeFrame, then
\* ServiceClient::processInput).
THEOREM RefusedAtOnceHolds == Spec => []RefusedAtOnce
<1>1. IInv => RefusedAtOnce
  <2> DEFINE known == {i \in DOMAIN frames :
                         /\ Wrong(i) /\ \A j \in 1 .. i - 1 : ~Wrong(j)
                         /\ KnownAt(i) <= Received}
             k == Len(contents)
             m == k + 1
             n == Len(frames)
  <2> SUFFICES ASSUME IInv, ~looping
               PROVE  failure = IF known = {} THEN "none"
                                ELSE Reason(CHOOSE i \in known : TRUE)
    BY DEF RefusedAtOnce, Reason
  <2>1. StreamTypes /\ WireIsTheRest /\ TakenInOrder
    BY DEF IInv
  <2>2. n \in Nat /\ k \in Nat /\ k <= n /\ Got \in Nat /\ frames \in Seq(PeerFrames)
    BY <2>1, StreamFacts, LenProperties DEF TakenInOrder, WireIsTheRest, StreamTypes
  <2>3. DOMAIN frames = 1 .. n /\ Received = Got /\ \A i \in 1 .. n : KnownAt(i) = Known(i)
    BY <2>2, LenProperties, ReceivedIsGot
  <2>4. \A i : i \in known <=> /\ i \in 1 .. n /\ Wrong(i) /\ Known(i) <= Got
                               /\ \A j \in 1 .. i - 1 : ~Wrong(j)
    BY <2>3
  <2> HIDE DEF known
  <2>5. \A i \in 1 .. k : ~Wrong(i)
    BY <2>1 DEF TakenInOrder
  <2>6. ASSUME NEW i \in known PROVE i \in 1 .. n /\ m \in 1 .. n /\ i >= m
    BY <2>2, <2>4, <2>5
  <2>7. CASE failure # "none"
    <3>1. m \in 1 .. n /\ Wrong(m) /\ failure = Reason(m) /\ Known(m) <= Got
      BY <2>2, <2>7 DEF IInv, FailedAtFault
    <3>2. \A j \in 1 .. m - 1 : ~Wrong(j)
      BY <2>2, <2>5
    <3>3. m \in known
      BY <2>4, <3>1, <3>2
    <3>4. ASSUME NEW i \in known PROVE i = m
      <4>1. i \in 1 .. n /\ i >= m
        BY <2>6
      <4>2. \A j \in 1 .. i - 1 : ~Wrong(j)
        BY <2>4
      <4>3. i > m => m \in 1 .. i - 1
        BY <2>2, <4>1
      <4>4. ~(i > m)
        BY <3>1, <4>2, <4>3
      <4> QED
        BY <2>2, <4>1, <4>4
    <3>5. known = {m}
      BY <3>3, <3>4
    <3> HIDE DEF m
    <3>6. (CHOOSE i \in known : TRUE) = m
      BY <3>5
    <3> QED
      BY <3>1, <3>5, <3>6
  <2>8. CASE failure = "none"
    <3>1. ASSUME NEW i \in known PROVE FALSE
      <4>1. i \in 1 .. n /\ m \in 1 .. n /\ i >= m
        BY <2>6
      <4>2. Got < Known(m)
        BY <2>2, <2>8, <4>1, NextNotKnown
      <4>3. Known(i) <= Got /\ Known(i) \in Nat /\ Known(m) \in Nat
        BY <2>1, <2>4, <4>1, StreamFacts
      <4>4. i # m
        BY <2>2, <4>2, <4>3
      <4> DEFINE h == i - 1
      <4>5. h \in 0 .. n /\ h \in m .. n /\ m \in 0 .. n
        BY <2>2, <4>1, <4>4
      <4>6. Known(m) <= End(frames, m) /\ End(frames, h) + FrameHeaderBytes <= Known(i)
        BY <2>1, <4>1, StreamFacts
      <4> HIDE DEF h, m
      <4>7. End(frames, m) \in Nat /\ End(frames, h) \in Nat /\ End(frames, m) <= End(frames, h)
        BY <2>1, <4>5, StreamFacts
      <4> QED
        BY <2>2, <4>2, <4>3, <4>6, <4>7 DEF FrameHeaderBytes
    <3> QED
      BY <2>8, <3>1
  <2> QED
    BY <2>7, <2>8
<1> QED
  BY <1>1, Invariance, PTL

=============================================================================
