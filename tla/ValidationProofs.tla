--------------------------- MODULE ValidationProofs ---------------------------
(***************************************************************************)
(* What validate's verdict is worth, proved for every spec, scenario and   *)
(* store: the command reports every fault, what it rejects is never sent,  *)
(* what it accepts is refused for nothing it could have known, and a path  *)
(* is filled in the same in whatever order its parameters are taken.       *)
(***************************************************************************)
EXTENDS Validation, SequenceTheorems, WellFoundedInduction, TLAPS

-----------------------------------------------------------------------------
(* Texts whose parts are replaced                                          *)

\* A nonempty set of natural numbers has a least element.
LEMMA LeastNumber ==
  ASSUME NEW T \in SUBSET Nat, T # {}
  PROVE  \E n \in T : \A m \in T : n <= m
  <1> DEFINE below == {ss \in Nat \X Nat : ss[1] < ss[2]}
  <1>1. IsWellFoundedOn(below, Nat)
    BY NatLessThanWellFounded DEF OpToRel
  <1> HIDE DEF below
  <1>2. PICK x \in T : \A y \in T : ~ (<<y, x>> \in below)
    BY <1>1, WFMin
  <1>3. ASSUME NEW y \in T PROVE x <= y
    <2>1. ~ (<<y, x>> \in below)
      BY <1>2
    <2> QED
      BY <2>1 DEF below
  <1> QED
    BY <1>3

\* Induction up to n, over the members of a set.
LEMMA UpToNumber ==
  ASSUME NEW n \in Nat, NEW T, 0 \in T, \A k \in 1 .. n : k - 1 \in T => k \in T
  PROVE  \A k \in 0 .. n : k \in T
  <1> DEFINE rest == {k \in 0 .. n : k \notin T}
  <1> SUFFICES ASSUME rest # {} PROVE FALSE
    OBVIOUS
  <1>1. rest \in SUBSET Nat
    OBVIOUS
  <1>2. PICK k \in rest : \A j \in rest : k <= j
    <2> HIDE DEF rest
    <2> QED
      BY <1>1, LeastNumber
  <1>3. k \in 1 .. n /\ k - 1 \in 0 .. n /\ k - 1 \notin rest
    BY <1>2
  <1> QED
    BY <1>2, <1>3

\* Induction over texts: what holds of the empty one, and of each with one part
\* more, holds of all.
LEMMA PartByPart ==
  ASSUME NEW A, NEW T, <<>> \in T,
         \A s \in Seq(A) : s \in T => \A x \in A : Append(s, x) \in T
  PROVE  \A t \in Seq(A) : t \in T
  <1> SUFFICES ASSUME NEW t \in Seq(A) PROVE t \in T
    OBVIOUS
  <1>1. Len(t) \in Nat /\ \A k \in 1 .. Len(t) : t[k] \in A
    BY LenProperties, ElementOfSeq
  <1> DEFINE N == {k \in 0 .. Len(t) : SubSeq(t, 1, k) \in T}
  <1>2. 0 \in N
    <2>1. SubSeq(t, 1, 0) = <<>>
      BY SubSeqEmpty
    <2>2. SubSeq(t, 1, 0) \in T
      BY <2>1, Zenon
    <2>3. 0 \in 0 .. Len(t)
      BY <1>1
    <2> QED
      BY <2>2, <2>3, Zenon
  <1>3. ASSUME NEW k \in 1 .. Len(t), k - 1 \in N PROVE k \in N
    <2>1. k \in Int /\ k - 1 \in Int /\ 1 \in 1 .. Len(t)
      BY <1>1
    <2>2. \A i \in 1 .. k - 1 : t[i] \in A
      BY <1>1
    <2>3. SubSeq(t, 1, k - 1) \in Seq(A)
      BY <2>1, <2>2, SubSeqProperties
    <2>4. SubSeq(t, 1, k) = SubSeq(t, 1, k - 1) \o <<t[k]>>
      BY <2>1, SubSeqRecursiveSecond
    <2>5. SubSeq(t, 1, k) = Append(SubSeq(t, 1, k - 1), t[k])
      BY <1>1, <2>3, <2>4, AppendIsConcat
    <2>6. SubSeq(t, 1, k - 1) \in T /\ t[k] \in A
      BY <1>1, <1>3
    <2>7. SubSeq(t, 1, k) \in T
      BY <2>3, <2>5, <2>6
    <2> QED
      BY <2>7
  <1>4. \A k \in 0 .. Len(t) : k \in N
    <2> HIDE DEF N
    <2> QED
      BY <1>1, <1>2, <1>3, UpToNumber
  <1>5. Len(t) \in 0 .. Len(t)
    BY <1>1
  <1>6. SubSeq(t, 1, Len(t)) \in T
    BY <1>4, <1>5
  <1> QED
    BY <1>6, SubSeqFull

\* Whether f is the concatenation of the first members of seqs, one after the other.
Flattens(f, seqs) ==
  f = [k \in 1 .. Len(seqs) |-> IF k = 1 THEN seqs[k] ELSE f[k - 1] \o seqs[k]]

\* Its values.
LEMMA FlattensStep ==
  ASSUME NEW seqs, NEW f, Flattens(f, seqs), NEW k \in 1 .. Len(seqs)
  PROVE  f[k] = IF k = 1 THEN seqs[k] ELSE f[k - 1] \o seqs[k]
  <1> DEFINE h == [j \in 1 .. Len(seqs) |-> IF j = 1 THEN seqs[j] ELSE f[j - 1] \o seqs[j]]
  <1>1. f = h
    BY DEF Flattens
  <1>2. h[k] = IF k = 1 THEN seqs[k] ELSE f[k - 1] \o seqs[k]
    OBVIOUS
  <1> HIDE DEF h
  <1> QED
    BY <1>1, <1>2

\* It exists.
LEMMA FlattensExists ==
  ASSUME NEW n \in Nat, NEW seqs, Len(seqs) = n
  PROVE  \E f : Flattens(f, seqs)
  <1> DEFINE Body(f, k) == IF k = 1 THEN seqs[k] ELSE f[k - 1] \o seqs[k]
             Upto(f, m) == f = [k \in 1 .. m |-> Body(f, k)]
             T == {m \in 0 .. n : \E f : Upto(f, m)}
  <1>1. 0 \in T
    <2>1. Upto([k \in 1 .. 0 |-> {}], 0)
      OBVIOUS
    <2> HIDE DEF Upto
    <2> QED
      BY <2>1
  <1>2. ASSUME NEW m \in 1 .. n, m - 1 \in T PROVE m \in T
    <2>1. PICK f : Upto(f, m - 1)
      BY <1>2
    <2> DEFINE g == [k \in 1 .. m |-> IF k = m THEN Body(f, m) ELSE f[k]]
    <2>2. ASSUME NEW k \in 1 .. m PROVE g[k] = Body(g, k)
      <3>1. CASE k = m
        <4>1. k # 1 => k - 1 \in 1 .. m /\ k - 1 # m /\ g[k - 1] = f[k - 1]
          BY <3>1
        <4> QED
          BY <3>1, <4>1
      <3>2. CASE k # m
        <4>1. k \in 1 .. m - 1 /\ g[k] = f[k]
          BY <3>2
        <4>2. f[k] = Body(f, k)
          <5> DEFINE h == [j \in 1 .. m - 1 |-> Body(f, j)]
          <5>1. f = h /\ h[k] = Body(f, k)
            BY <2>1, <4>1
          <5> HIDE DEF h
          <5> QED
            BY <5>1
        <4>3. k # 1 => k - 1 \in 1 .. m /\ k - 1 # m /\ g[k - 1] = f[k - 1]
          BY <3>2
        <4> QED
          BY <4>1, <4>2, <4>3
      <3> QED
        BY <3>1, <3>2
    <2>3. g = [k \in 1 .. m |-> g[k]]
      OBVIOUS
    <2> HIDE DEF g, Body
    <2>4. Upto(g, m)
      BY <2>2, <2>3
    <2> QED
      BY <2>4
  <1> HIDE DEF T
  <1>3. n \in T
    BY <1>1, <1>2, UpToNumber
  <1> QED
    BY <1>3 DEF T, Flattens

\* A flattened sequence grows by its last member.
LEMMA FlattenGrows ==
  ASSUME NEW B, NEW n \in Nat, NEW front \in [1 .. n -> Seq(B)],
         NEW seqs \in [1 .. n + 1 -> Seq(B)], \A k \in 1 .. n : seqs[k] = front[k]
  PROVE  FlattenSeq(seqs) = FlattenSeq(front) \o seqs[n + 1]
  <1>1. Len(seqs) = n + 1 /\ Len(front) = n /\ seqs[n + 1] \in Seq(B)
    <2>1. seqs \in Seq(Seq(B)) /\ front \in Seq(Seq(B))
      OBVIOUS
    <2> QED
      BY <2>1, LenProperties
  <1> DEFINE flat == CHOOSE f : Flattens(f, seqs)
             pre  == CHOOSE f : Flattens(f, front)
  <1>2. FlattenSeq(seqs) = flat[n + 1]
    BY <1>1 DEF FlattenSeq, Flattens
  <1>3. Flattens(flat, seqs) /\ Flattens(pre, front)
    BY <1>1, FlattensExists
  <1>4. n # 0 => FlattenSeq(front) = pre[n]
    BY <1>1 DEF FlattenSeq, Flattens
  <1> HIDE DEF flat, pre
  <1>5. CASE n = 0
    <2>1. FlattenSeq(front) = front /\ front = <<>>
      BY <1>1, <1>5 DEF FlattenSeq
    <2>2. flat[n + 1] = seqs[n + 1]
      BY <1>1, <1>3, <1>5, FlattensStep
    <2> QED
      BY <1>1, <1>2, <2>1, <2>2, ConcatEmptySeq
  <1>6. CASE n # 0
    <2> DEFINE T == {k \in 0 .. n : k # 0 => flat[k] = pre[k]}
    <2>1. 0 \in T
      OBVIOUS
    <2>2. ASSUME NEW k \in 1 .. n, k - 1 \in T PROVE k \in T
      <3> k \in 1 .. Len(seqs) /\ k \in 1 .. Len(front)
        BY <1>1
      <3>1. flat[k] = IF k = 1 THEN seqs[k] ELSE flat[k - 1] \o seqs[k]
        BY <1>1, <1>3, FlattensStep
      <3>2. pre[k] = IF k = 1 THEN front[k] ELSE pre[k - 1] \o front[k]
        BY <1>1, <1>3, FlattensStep
      <3>3. seqs[k] = front[k]
        OBVIOUS
      <3> QED
        BY <2>2, <3>1, <3>2, <3>3
    <2>3. \A k \in 0 .. n : k \in T
      <3> HIDE DEF T
      <3> QED
        BY <2>1, <2>2, UpToNumber
    <2>4. flat[n] = pre[n]
      BY <1>6, <2>3
    <2>5. PICK m : m = n + 1
      OBVIOUS
    <2>6. m \in 1 .. Len(seqs) /\ m # 1 /\ m - 1 = n
      BY <1>1, <1>6, <2>5
    <2>7. flat[m] = flat[n] \o seqs[m]
      BY <1>3, <2>6, FlattensStep
    <2> QED
      BY <1>2, <1>4, <1>6, <2>4, <2>5, <2>7
  <1> QED
    BY <1>5, <1>6

\* What a concatenation holds.
LEMMA RangeOfConcat ==
  ASSUME NEW R, NEW s \in Seq(R), NEW t \in Seq(R)
  PROVE  /\ s \o t \in Seq(R)
         /\ Range(s \o t) = Range(s) \cup Range(t)
  <1>1. /\ s \o t \in Seq(R)
        /\ Len(s \o t) = Len(s) + Len(t)
        /\ \A k \in 1 .. Len(s) : (s \o t)[k] = s[k]
        /\ \A k \in 1 .. Len(t) : (s \o t)[k + Len(s)] = t[k]
    BY ConcatProperties
  <1>2. Len(s) \in Nat /\ Len(t) \in Nat /\ DOMAIN s = 1 .. Len(s) /\ DOMAIN t = 1 .. Len(t)
        /\ DOMAIN (s \o t) = 1 .. Len(s \o t)
    BY <1>1, LenProperties
  <1>3. ASSUME NEW x \in Range(s \o t) PROVE x \in Range(s) \cup Range(t)
    <2>1. PICK k \in 1 .. Len(s) + Len(t) : (s \o t)[k] = x
      BY <1>1, <1>2 DEF Range
    <2>2. CASE k <= Len(s)
      BY <1>1, <1>2, <2>1, <2>2 DEF Range
    <2>3. CASE k > Len(s)
      <3>1. k - Len(s) \in 1 .. Len(t) /\ (k - Len(s)) + Len(s) = k
        BY <1>2, <2>3
      <3> QED
        BY <1>1, <1>2, <2>1, <3>1 DEF Range
    <2> QED
      BY <1>2, <2>2, <2>3
  <1>4. ASSUME NEW x \in Range(s) PROVE x \in Range(s \o t)
    <2>1. PICK k \in 1 .. Len(s) : s[k] = x
      BY <1>2 DEF Range
    <2> QED
      BY <1>1, <1>2, <2>1 DEF Range
  <1>5. ASSUME NEW x \in Range(t) PROVE x \in Range(s \o t)
    <2>1. PICK k \in 1 .. Len(t) : t[k] = x
      BY <1>2 DEF Range
    <2>2. k + Len(s) \in 1 .. Len(s \o t) /\ (s \o t)[k + Len(s)] = x
      BY <1>1, <1>2, <2>1
    <2> QED
      BY <1>2, <2>2 DEF Range
  <1> QED
    BY <1>1, <1>3, <1>4, <1>5

LEMMA AppendOne ==
  ASSUME NEW A, NEW s \in Seq(A), NEW x \in A
  PROVE  /\ Append(s, x) \in Seq(A) /\ <<x>> \in Seq(A)
         /\ Append(s, x) = s \o <<x>>
  BY AppendProperties, AppendIsConcat

LEMMA RangeOfAppend ==
  ASSUME NEW A, NEW s \in Seq(A), NEW x \in A
  PROVE  Range(Append(s, x)) = Range(s) \cup {x}
  <1>1. <<x>> \in Seq(A) /\ Append(s, x) = s \o <<x>>
    BY AppendOne
  <1>2. Range(<<x>>) = {x}
    BY DEF Range
  <1>3. Range(s \o <<x>>) = Range(s) \cup Range(<<x>>)
    BY <1>1, RangeOfConcat
  <1> QED
    BY <1>1, <1>2, <1>3, Zenon

\* The text h makes of t, part by part.
Mapped(h, t) == FlattenSeq([k \in DOMAIN t |-> h[t[k]]])

\* It grows with the text.
LEMMA MappedAppend ==
  ASSUME NEW A, NEW B, NEW h \in [A -> Seq(B)], NEW t \in Seq(A), NEW x \in A
  PROVE  Mapped(h, Append(t, x)) = Mapped(h, t) \o h[x]
  <1> DEFINE u == Append(t, x)
             front == [k \in DOMAIN t |-> h[t[k]]]
             seqs == [k \in DOMAIN u |-> h[u[k]]]
  <1>1. PICK n \in Nat : n = Len(t)
    BY LenProperties
  <1>2. DOMAIN t = 1 .. n /\ \A k \in 1 .. n : t[k] \in A
    BY <1>1, LenProperties, ElementOfSeq
  <1>3. u \in Seq(A) /\ Len(u) = n + 1 /\ u[n + 1] = x /\ \A k \in 1 .. n : u[k] = t[k]
    BY <1>1, AppendProperties
  <1>4. DOMAIN u = 1 .. n + 1 /\ \A k \in 1 .. n + 1 : u[k] \in A
    BY <1>3, LenProperties, ElementOfSeq
  <1> HIDE DEF u
  <1>5. front \in [1 .. n -> Seq(B)] /\ seqs \in [1 .. n + 1 -> Seq(B)]
    BY <1>2, <1>4
  <1>6. (\A k \in 1 .. n : seqs[k] = front[k]) /\ seqs[n + 1] = h[x]
    BY <1>2, <1>3, <1>4
  <1> HIDE DEF front, seqs
  <1>7. FlattenSeq(seqs) = FlattenSeq(front) \o seqs[n + 1]
    BY <1>5, <1>6, FlattenGrows
  <1> QED
    BY <1>6, <1>7 DEF Mapped, front, seqs, u

LEMMA MappedEmpty ==
  ASSUME NEW h
  PROVE  Mapped(h, <<>>) = <<>>
  <1>1. [k \in DOMAIN <<>> |-> h[<<>>[k]]] = <<>>
    OBVIOUS
  <1> QED
    BY <1>1 DEF Mapped, FlattenSeq

\* It is a text, and holds what its parts have become, and nothing else.
LEMMA MappedType ==
  ASSUME NEW A, NEW B, NEW h \in [A -> Seq(B)], NEW t \in Seq(A)
  PROVE  Mapped(h, t) \in Seq(B)
  <1> DEFINE T == {w \in Seq(A) : Mapped(h, w) \in Seq(B)}
  <1>1. <<>> \in T
    <2>1. Mapped(h, <<>>) \in Seq(B) /\ <<>> \in Seq(A)
      BY MappedEmpty, EmptySeq, Zenon
    <2> QED
      BY <2>1
  <1>2. ASSUME NEW s \in Seq(A), s \in T, NEW x \in A PROVE Append(s, x) \in T
    <2>1. Append(s, x) \in Seq(A)
      BY AppendOne
    <2>2. Mapped(h, Append(s, x)) = Mapped(h, s) \o h[x] /\ h[x] \in Seq(B)
      BY MappedAppend
    <2>3. Mapped(h, s) \in Seq(B)
      BY <1>2
    <2>4. Mapped(h, Append(s, x)) \in Seq(B)
      BY <2>2, <2>3, ConcatProperties
    <2> QED
      BY <2>1, <2>4
  <1>3. t \in T
    <2> HIDE DEF T
    <2> QED
      BY <1>1, <1>2, PartByPart
  <1> QED
    BY <1>3

LEMMA MappedHolds ==
  ASSUME NEW A, NEW B, NEW h \in [A -> Seq(B)], NEW t \in Seq(A)
  PROVE  \A q : q \in Range(Mapped(h, t)) <=> \E x \in Range(t) : q \in Range(h[x])
  <1> DEFINE All(w) == UNION {Range(h[y]) : y \in Range(w)}
             T == {w \in Seq(A) : Range(Mapped(h, w)) = All(w)}
  <1>1. <<>> \in T
    <2>1. Range(<<>>) = {}
      BY DEF Range
    <2>2. All(<<>>) = {}
      BY <2>1
    <2> HIDE DEF All
    <2>3. Mapped(h, <<>>) = <<>> /\ <<>> \in Seq(A)
      BY MappedEmpty
    <2>4. Range(Mapped(h, <<>>)) = All(<<>>)
      BY <2>1, <2>2, <2>3, Zenon
    <2> QED
      BY <2>3, <2>4
  <1>2. ASSUME NEW s \in Seq(A), s \in T, NEW x \in A PROVE Append(s, x) \in T
    <2>1. Append(s, x) \in Seq(A)
      BY AppendOne
    <2>2. Range(Append(s, x)) = Range(s) \cup {x}
      BY RangeOfAppend
    <2>3. Mapped(h, Append(s, x)) = Mapped(h, s) \o h[x] /\ h[x] \in Seq(B) /\ Mapped(h, s) \in Seq(B)
      BY MappedAppend, MappedType
    <2>4. Range(Mapped(h, Append(s, x))) = Range(Mapped(h, s)) \cup Range(h[x])
      BY <2>3, RangeOfConcat
    <2>5. All(Append(s, x)) = All(s) \cup Range(h[x])
      BY <2>2
    <2> QED
      BY <1>2, <2>1, <2>4, <2>5
  <1>3. t \in T
    <2> HIDE DEF T
    <2> QED
      BY <1>1, <1>2, PartByPart
  <1> QED
    BY <1>3

\* What is made of a text is made of its two pieces.
LEMMA MappedConcat ==
  ASSUME NEW A, NEW B, NEW h \in [A -> Seq(B)], NEW s \in Seq(A), NEW t \in Seq(A)
  PROVE  Mapped(h, s \o t) = Mapped(h, s) \o Mapped(h, t)
  <1> DEFINE T == {u \in Seq(A) : Mapped(h, s \o u) = Mapped(h, s) \o Mapped(h, u)}
  <1>1. <<>> \in T
    <2>1. s \o <<>> = s /\ Mapped(h, s) \in Seq(B)
      BY ConcatEmptySeq, MappedType
    <2> QED
      BY <2>1, MappedEmpty, ConcatEmptySeq
  <1>2. ASSUME NEW u \in Seq(A), u \in T, NEW x \in A PROVE Append(u, x) \in T
    <2>1. <<x>> \in Seq(A) /\ Append(u, x) \in Seq(A) /\ s \o u \in Seq(A) /\ h[x] \in Seq(B)
      BY AppendProperties, ConcatProperties
    <2>2. s \o Append(u, x) = Append(s \o u, x)
      <3>1. Append(u, x) = u \o <<x>> /\ Append(s \o u, x) = (s \o u) \o <<x>>
        BY <2>1, AppendOne
      <3>2. (s \o u) \o <<x>> = s \o (u \o <<x>>)
        BY <2>1, ConcatAssociative
      <3> QED
        BY <3>1, <3>2, Zenon
    <2>3. /\ Mapped(h, Append(s \o u, x)) = Mapped(h, s \o u) \o h[x]
          /\ Mapped(h, Append(u, x)) = Mapped(h, u) \o h[x]
      BY <2>1, MappedAppend
    <2>4. Mapped(h, s) \in Seq(B) /\ Mapped(h, u) \in Seq(B)
      BY MappedType
    <2>5. (Mapped(h, s) \o Mapped(h, u)) \o h[x] = Mapped(h, s) \o (Mapped(h, u) \o h[x])
      BY <2>1, <2>4, ConcatAssociative
    <2> QED
      BY <1>2, <2>1, <2>2, <2>3, <2>5
  <1>3. t \in T
    <2> HIDE DEF T
    <2> QED
      BY <1>1, <1>2, PartByPart
  <1> QED
    BY <1>3

\* h makes a text over B of each member of A.
Maps(h, A, B) == h \in [A -> Seq(B)]

LEMMA MappedConcats ==
  ASSUME NEW A, NEW B, NEW h, Maps(h, A, B)
  PROVE  \A s, t \in Seq(A) : Mapped(h, s \o t) = Mapped(h, s) \o Mapped(h, t)
  BY MappedConcat DEF Maps

\* To replace parts of what was made of a text is to replace them in what each
\* of its parts was made.
LEMMA MappedTwice ==
  ASSUME NEW A, NEW B, NEW C, NEW h, NEW g, NEW gh,
         Maps(h, A, B), Maps(g, B, C), Maps(gh, A, C), \A y \in A : gh[y] = Mapped(g, h[y])
  PROVE  \A t \in Seq(A) : Mapped(g, Mapped(h, t)) = Mapped(gh, t)
  <1>1. \A v, w \in Seq(B) : Mapped(g, v \o w) = Mapped(g, v) \o Mapped(g, w)
    BY MappedConcats
  <1>2. h \in [A -> Seq(B)] /\ gh \in [A -> Seq(C)]
    BY DEF Maps
  <1>3. \A w \in Seq(A) : Mapped(h, w) \in Seq(B)
    BY <1>2, MappedType
  <1> DEFINE T == {w \in Seq(A) : Mapped(g, Mapped(h, w)) = Mapped(gh, w)}
  <1>4. <<>> \in T
    BY MappedEmpty
  <1>5. ASSUME NEW u \in Seq(A), u \in T, NEW x \in A PROVE Append(u, x) \in T
    <2>1. Append(u, x) \in Seq(A) /\ Mapped(h, u) \in Seq(B) /\ h[x] \in Seq(B)
      BY <1>2, <1>3, AppendProperties
    <2>2. Mapped(h, Append(u, x)) = Mapped(h, u) \o h[x]
      BY <1>2, MappedAppend
    <2>3. Mapped(g, Mapped(h, u) \o h[x]) = Mapped(g, Mapped(h, u)) \o Mapped(g, h[x])
      BY <1>1, <2>1
    <2>4. gh[x] = Mapped(g, h[x])
      OBVIOUS
    <2>5. Mapped(gh, Append(u, x)) = Mapped(gh, u) \o gh[x]
      BY <1>2, MappedAppend
    <2> QED
      BY <1>5, <2>1, <2>2, <2>3, <2>4, <2>5
  <1>6. \A t \in Seq(A) : t \in T
    <2> HIDE DEF T
    <2> QED
      BY <1>4, <1>5, PartByPart
  <1> QED
    BY <1>6

\* A text no part of which is replaced stays what it is.
LEMMA MappedToItself ==
  ASSUME NEW A, NEW h \in [A -> Seq(A)], NEW t \in Seq(A), \A x \in Range(t) : h[x] = <<x>>
  PROVE  Mapped(h, t) = t
  <1> DEFINE T == {w \in Seq(A) : (\A y \in Range(w) : h[y] = <<y>>) => Mapped(h, w) = w}
  <1>1. <<>> \in T
    BY MappedEmpty
  <1>2. ASSUME NEW u \in Seq(A), u \in T, NEW x \in A PROVE Append(u, x) \in T
    <2>1. Append(u, x) \in Seq(A) /\ Append(u, x) = u \o <<x>>
      BY AppendOne
    <2>3. Range(Append(u, x)) = Range(u) \cup {x}
      BY RangeOfAppend
    <2>4. Mapped(h, Append(u, x)) = Mapped(h, u) \o h[x]
      BY MappedAppend
    <2> QED
      BY <1>2, <2>1, <2>3, <2>4
  <1>3. t \in T
    <2> HIDE DEF T
    <2> QED
      BY <1>1, <1>2, PartByPart
  <1> QED
    BY <1>3

\* Of a text all of whose parts but one leave nothing, what that one leaves.
LEMMA MappedOnce ==
  ASSUME NEW A, NEW B, NEW h \in [A -> Seq(B)], NEW t \in Seq(A), NEW k \in DOMAIN t,
         \A j \in DOMAIN t : j # k => h[t[j]] = <<>>
  PROVE  Mapped(h, t) = h[t[k]]
  <1> DEFINE T == {u \in Seq(A) :
                     /\ (\A j \in DOMAIN u : h[u[j]] = <<>>) => Mapped(h, u) = <<>>
                     /\ \A m \in DOMAIN u :
                          (\A j \in DOMAIN u : j # m => h[u[j]] = <<>>) => Mapped(h, u) = h[u[m]]}
  <1>1. <<>> \in T
    BY MappedEmpty
  <1>2. ASSUME NEW u \in Seq(A), u \in T, NEW x \in A PROVE Append(u, x) \in T
    <2> DEFINE w == Append(u, x)
    <2>1. PICK n \in Nat : n = Len(u)
      BY LenProperties
    <2>2. w \in Seq(A) /\ DOMAIN u = 1 .. n /\ DOMAIN w = 1 .. n + 1
          /\ w[n + 1] = x /\ \A j \in 1 .. n : w[j] = u[j]
      BY <2>1, AppendProperties, LenProperties
    <2>3. Mapped(h, w) = Mapped(h, u) \o h[x] /\ h[x] \in Seq(B) /\ Mapped(h, u) \in Seq(B)
      BY MappedAppend, MappedType
    <2> HIDE DEF w
    <2>4. ASSUME \A j \in DOMAIN w : h[w[j]] = <<>> PROVE Mapped(h, w) = <<>>
      <3>1. h[x] = <<>>
        <4>1. n + 1 \in DOMAIN w
          BY <2>2
        <4> QED
          BY <2>2, <2>4, <4>1
      <3>2. \A j \in DOMAIN u : h[u[j]] = <<>>
        BY <2>2, <2>4
      <3>3. Mapped(h, u) = <<>>
        BY <1>2, <3>2
      <3> QED
        BY <2>3, <3>1, <3>3, ConcatEmptySeq
    <2>5. ASSUME NEW m \in DOMAIN w, \A j \in DOMAIN w : j # m => h[w[j]] = <<>>
          PROVE  Mapped(h, w) = h[w[m]]
      <3>1. CASE m = n + 1
        <4>1. \A j \in DOMAIN u : h[u[j]] = <<>>
          <5>1. \A j \in DOMAIN u : j \in DOMAIN w /\ j # m /\ w[j] = u[j]
            BY <2>2, <3>1
          <5> QED
            BY <2>5, <5>1
        <4>2. Mapped(h, u) = <<>>
          BY <1>2, <4>1
        <4>3. w[m] = x
          BY <2>2, <3>1
        <4> QED
          BY <2>3, <4>2, <4>3, ConcatEmptySeq
      <3>2. CASE m # n + 1
        <4>1. m \in DOMAIN u /\ w[m] = u[m] /\ n + 1 \in DOMAIN w
          BY <2>2, <3>2
        <4>2. h[x] = <<>>
          BY <2>2, <2>5, <3>2, <4>1
        <4>3. \A j \in DOMAIN u : j # m => h[u[j]] = <<>>
          BY <2>2, <2>5
        <4>4. Mapped(h, u) = h[u[m]]
          BY <1>2, <4>1, <4>3
        <4> QED
          BY <2>3, <4>1, <4>2, <4>4, ConcatEmptySeq
      <3> QED
        BY <3>1, <3>2
    <2> QED
      BY <2>2, <2>4, <2>5 DEF w
  <1>3. t \in T
    <2> HIDE DEF T
    <2> QED
      BY <1>1, <1>2, PartByPart
  <1> QED
    BY <1>3
-----------------------------------------------------------------------------
(* What is wrong with a text, and what becomes of it                       *)

Token == [is : {"word"}, name : Words] \cup [is : {"ref", "open"}, name : Names]

CallPart == [is : {"call"}, name : Functions, args : Seq(Words \cup Names)]

Part == Token \cup CallPart

LEMMA TextTypes ==
  /\ Texts = Seq(Part) /\ Values = Seq(Token)
  /\ \A p \in Part : p.is = "call" => p \in CallPart
  /\ \A p \in Part : p.is # "call" => p \in Token
  /\ \A p \in Token : p.is # "call"
  <1>1. Part = [is : {"word"}, name : Words] \cup [is : {"ref", "open"}, name : Names]
               \cup [is : {"call"}, name : Functions, args : Seq(Words \cup Names)]
    BY DEF Part, Token, CallPart
  <1>2. Texts = Seq(Part) /\ Values = Seq(Token)
    BY <1>1 DEF Texts, Values, Token
  <1>3. \A p \in CallPart : p.is = "call"
    BY DEF CallPart
  <1>4. \A p \in Token : p.is # "call"
    BY DEF Token
  <1> QED
    BY <1>2, <1>3, <1>4 DEF Part

LEMMA PartsOfText ==
  ASSUME NEW text \in Texts
  PROVE  \A k \in DOMAIN text : text[k] \in Part /\ (k \in CallsIn(text) => text[k] \in CallPart)
  <1>1. text \in Seq(Part)
    BY TextTypes
  <1>2. \A k \in DOMAIN text : text[k] \in Part
    BY <1>1, LenProperties, ElementOfSeq
  <1> QED
    BY <1>2, TextTypes DEF CallsIn

\* Misused: an unknown function, or one with too few or too many arguments.
Misused(c) == c.name \notin DOMAIN Need \/ Len(c.args) # Need[c.name]

\* That is wrong with any variables, and the only thing wrong.
LEMMA MisusesStay ==
  ASSUME NEW c \in CallPart, Misused(c)
  PROVE  \E e \in {"unknown", "arity"} : \A s : CallErrors(c, s) = <<e>>
  <1>1. CASE c.name \notin DOMAIN Need
    <2>1. \A s : CallErrors(c, s) = <<"unknown">>
      BY <1>1 DEF CallErrors
    <2> QED
      BY <2>1
  <1>2. CASE c.name \in DOMAIN Need
    <2>1. Len(c.args) # Need[c.name]
      BY <1>2 DEF Misused
    <2>2. \A s : CallErrors(c, s) = <<"arity">>
      BY <1>2, <2>1 DEF CallErrors
    <2> QED
      BY <2>2
  <1> QED
    BY <1>1, <1>2

\* The error of the other arguments, or none.
LEMMA ArgumentErrorsAre ==
  ASSUME NEW c, NEW s
  PROVE  /\ ArgumentErrors(c, s) \in {<<>>, <<"integer">>, <<"date">>}
         /\ ArgumentErrors(c, s) = <<"date">> => c.name = "addDays"
         /\ ArgumentErrors(c, s) = <<"integer">> => \A t : ArgumentErrors(c, t) = <<"integer">>
  <1>1. <<>> # <<"integer">> /\ <<>> # <<"date">> /\ <<"integer">> # <<"date">>
    <2>1. <<"integer">>[1] # <<"date">>[1]
      OBVIOUS
    <2> QED
      BY <2>1
  <1>2. CASE c.name = "substring"
    BY <1>1, <1>2 DEF ArgumentErrors
  <1>3. CASE c.name = "addDays"
    BY <1>1, <1>3 DEF ArgumentErrors
  <1>4. CASE c.name \notin {"substring", "addDays"}
    BY <1>1, <1>4 DEF ArgumentErrors
  <1> QED
    BY <1>2, <1>3, <1>4

\* A call that is not misused may miss a variable, and its arguments be wrong.
LEMMA OtherErrors ==
  ASSUME NEW c \in CallPart, ~Misused(c), NEW s
  PROVE  /\ CallErrors(c, s) \in Seq(Errors)
         /\ CallErrors(c, s) = <<>> <=> ~Misses(c, s) /\ ArgumentErrors(c, s) = <<>>
         /\ Range(CallErrors(c, s)) \subseteq {"missing"} \cup Range(ArgumentErrors(c, s))
         /\ ArgumentErrors(c, s) # <<>> => LastError(CallErrors(c, s)) = ArgumentErrors(c, s)[1]
  <1> DEFINE m == IF Misses(c, s) THEN <<"missing">> ELSE <<>>
  <1>1. PICK a \in {<<>>, <<"integer">>, <<"date">>} : a = ArgumentErrors(c, s)
    BY ArgumentErrorsAre
  <1>2. CallErrors(c, s) = m \o a
    BY <1>1 DEF CallErrors, Misused
  <1>3. m \in Seq(Errors) /\ a \in Seq(Errors) /\ (a # <<>> => Len(a) = 1)
    <2>1. \A e \in {"missing", "integer", "date"} : <<e>> \in Seq(Errors) /\ Len(<<e>>) = 1
      BY DEF Errors
    <2>2. <<>> \in Seq(Errors)
      OBVIOUS
    <2> QED
      BY <2>1, <2>2
  <1>4. Range(m) \subseteq {"missing"}
    BY DEF Range
  <1>5. m = <<>> <=> ~Misses(c, s)
    OBVIOUS
  <1> HIDE DEF m
  <1>6. m \o a \in Seq(Errors) /\ Range(m \o a) = Range(m) \cup Range(a)
    BY <1>3, RangeOfConcat
  <1>7. m \o a = <<>> <=> m = <<>> /\ a = <<>>
    BY <1>3, ConcatEqualIffEmpty
  <1>8. ASSUME a # <<>> PROVE LastError(m \o a) = a[1]
    <2>1. Len(a) = 1 /\ Len(m) \in Nat
      BY <1>3, <1>8, LenProperties
    <2>2. Len(m \o a) = Len(m) + 1 /\ (m \o a)[Len(m) + 1] = a[1]
      <3>1. PICK n \in Nat : n = Len(m)
        BY <2>1
      <3>2. Len(m \o a) = n + 1 /\ \A i \in 1 .. n + 1 : (m \o a)[i] = IF i <= n THEN m[i] ELSE a[i - n]
        BY <1>3, <2>1, <3>1, ConcatProperties
      <3>3. n + 1 \in 1 .. n + 1 /\ ~(n + 1 <= n) /\ (n + 1) - n = 1
        OBVIOUS
      <3> QED
        BY <3>1, <3>2, <3>3
    <2>3. m \o a # <<>>
      BY <1>7, <1>8
    <2> QED
      BY <2>2, <2>3 DEF LastError, Last
  <1> QED
    BY <1>1, <1>2, <1>4, <1>5, <1>6, <1>7, <1>8

LEMMA CallErrorsType ==
  ASSUME NEW c \in CallPart, NEW s
  PROVE  CallErrors(c, s) \in Seq(Errors)
  <1>1. CASE Misused(c)
    <2>1. PICK e \in {"unknown", "arity"} : CallErrors(c, s) = <<e>>
      BY <1>1, MisusesStay
    <2> QED
      BY <2>1 DEF Errors
  <1> QED
    BY <1>1, OtherErrors

\* An error that is there without variables is there with any, but for a date.
LEMMA ErrorsStay ==
  ASSUME NEW c \in CallPart, NEW s, NEW t,
         NEW e \in Range(CallErrors(c, s)), e # "missing", CallErrors(c, t) = <<>>
  PROVE  c.name = "addDays"
  <1>1. ~Misused(c)
    <2> SUFFICES ASSUME Misused(c) PROVE FALSE
      OBVIOUS
    <2>1. PICK f \in {"unknown", "arity"} : CallErrors(c, t) = <<f>>
      BY MisusesStay
    <2>2. Len(<<f>>) # Len(<<>>)
      OBVIOUS
    <2> QED
      BY <2>1, <2>2
  <1>2. ArgumentErrors(c, t) = <<>>
    BY <1>1, OtherErrors
  <1>3. e \in Range(ArgumentErrors(c, s))
    BY <1>1, OtherErrors
  <1>4. ArgumentErrors(c, s) # <<>> /\ <<>> # <<"integer">>
    BY <1>3 DEF Range
  <1>5. ArgumentErrors(c, s) # <<"integer">>
    BY <1>2, <1>4, ArgumentErrorsAre
  <1> QED
    BY <1>4, <1>5, ArgumentErrorsAre

\* An error other than a missing variable is the last one without variables, too.
LEMMA ErrorsShow ==
  ASSUME NEW c \in CallPart, NEW s, CallErrors(c, s) # <<>>, ~Misses(c, s)
  PROVE  LastError(CallErrors(c, EmptyStore)) \in Errors \ {"missing"}
  <1>1. CASE Misused(c)
    <2>1. PICK e \in {"unknown", "arity"} : CallErrors(c, EmptyStore) = <<e>>
      BY <1>1, MisusesStay
    <2>2. Len(<<e>>) = 1 /\ <<e>> # <<>> /\ <<e>>[1] = e
      OBVIOUS
    <2> QED
      BY <2>1, <2>2 DEF LastError, Last, Errors
  <1>2. CASE ~Misused(c)
    <2>1. ArgumentErrors(c, s) # <<>>
      BY <1>2, OtherErrors
    <2>2. ArgumentErrors(c, EmptyStore) # <<>>
      <3>1. CASE ArgumentErrors(c, s) = <<"integer">>
        BY <3>1, ArgumentErrorsAre
      <3>2. CASE ArgumentErrors(c, s) = <<"date">>
        <4>1. c.name = "addDays"
          BY <3>2, ArgumentErrorsAre
        <4>2. ~IsDate(Get(EmptyStore, c.args[1]))
          <5>1. Get(EmptyStore, c.args[1]) = <<>>
            BY DEF Get, EmptyStore
          <5>2. \A d : <<Word(d)>> # <<>>
            OBVIOUS
          <5> QED
            BY <5>1, <5>2 DEF IsDate
        <4>3. <<"date">> # <<>> /\ <<"integer">> # <<>>
          OBVIOUS
        <4> QED
          BY <4>1, <4>2, <4>3 DEF ArgumentErrors
      <3> QED
        BY <2>1, <3>1, <3>2, ArgumentErrorsAre
    <2>3. LastError(CallErrors(c, EmptyStore)) = ArgumentErrors(c, EmptyStore)[1]
      BY <1>2, <2>2, OtherErrors
    <2>4. ArgumentErrors(c, EmptyStore)[1] \in {"integer", "date"}
      BY <2>2, ArgumentErrorsAre
    <2> QED
      BY <2>3, <2>4 DEF Errors
  <1> QED
    BY <1>1, <1>2

\* The errors of a text, call by call.
ErrorsOf(s) == [p \in Part |-> IF p.is = "call" THEN CallErrors(p, s) ELSE <<>>]

LEMMA TemplateErrorIs ==
  ASSUME NEW text \in Texts, NEW s
  PROVE  /\ ErrorsOf(s) \in [Part -> Seq(Errors)] /\ text \in Seq(Part)
         /\ TemplateError(text, s) = LastError(Mapped(ErrorsOf(s), text))
  <1>1. text \in Seq(Part)
    BY TextTypes
  <1>2. \A p \in Part : ErrorsOf(s)[p] = IF p.is = "call" THEN CallErrors(p, s) ELSE <<>>
    BY DEF ErrorsOf
  <1>3. ASSUME NEW p \in Part PROVE ErrorsOf(s)[p] \in Seq(Errors)
    <2>1. <<>> \in Seq(Errors)
      OBVIOUS
    <2>2. p.is = "call" => CallErrors(p, s) \in Seq(Errors)
      BY TextTypes, CallErrorsType
    <2> QED
      BY <1>2, <2>1, <2>2
  <1>4. ErrorsOf(s) \in [Part -> Seq(Errors)]
    BY <1>3 DEF ErrorsOf
  <1>5. [k \in DOMAIN text |-> IF text[k].is = "call" THEN CallErrors(text[k], s) ELSE <<>>]
        = [k \in DOMAIN text |-> ErrorsOf(s)[text[k]]]
    BY <1>2, PartsOfText
  <1> QED
    BY <1>1, <1>4, <1>5 DEF TemplateError, Mapped

\* The last of some errors is one of them; where there are none, it is none.
LEMMA LastErrorIs ==
  ASSUME NEW es \in Seq(Errors)
  PROVE  /\ es # <<>> => LastError(es) \in Range(es) /\ LastError(es) \in Errors /\ LastError(es) # None
         /\ es = <<>> => LastError(es) = None
  <1>1. CASE es = <<>>
    BY <1>1 DEF LastError
  <1>2. CASE es # <<>>
    <2>1. Len(es) \in Nat \ {0} /\ DOMAIN es = 1 .. Len(es)
      BY <1>2, EmptySeq, LenProperties
    <2>2. LastError(es) = es[Len(es)] /\ Len(es) \in DOMAIN es
      BY <1>2, <2>1 DEF LastError, Last
    <2>3. es[Len(es)] \in Errors
      BY <2>1, ElementOfSeq
    <2> QED
      BY <1>2, <2>2, <2>3, NoneAssumption DEF Range
  <1> QED
    BY <1>1, <1>2

\* An error of a text is one of one of its calls.
LEMMA ErrorHasItsCall ==
  ASSUME NEW text \in Texts, NEW s, TemplateError(text, s) # None
  PROVE  /\ TemplateError(text, s) \in Errors
         /\ \E k \in CallsIn(text) : TemplateError(text, s) \in Range(CallErrors(text[k], s))
  <1> DEFINE es == Mapped(ErrorsOf(s), text)
  <1>1. ErrorsOf(s) \in [Part -> Seq(Errors)] /\ text \in Seq(Part) /\ TemplateError(text, s) = LastError(es)
    BY TemplateErrorIs
  <1>2. es \in Seq(Errors)
    BY <1>1, MappedType
  <1>3. \A q : q \in Range(es) <=> \E p \in Range(text) : q \in Range(ErrorsOf(s)[p])
    BY <1>1, MappedHolds
  <1> HIDE DEF es
  <1>4. TemplateError(text, s) \in Range(es) /\ TemplateError(text, s) \in Errors
    BY <1>1, <1>2, LastErrorIs
  <1>5. PICK p \in Range(text) : TemplateError(text, s) \in Range(ErrorsOf(s)[p])
    BY <1>3, <1>4
  <1>6. PICK k \in DOMAIN text : p = text[k]
    BY <1>5 DEF Range
  <1>7. p \in Part
    BY <1>6, PartsOfText
  <1>8. p.is = "call" /\ ErrorsOf(s)[p] = CallErrors(p, s)
    <2>1. ErrorsOf(s)[p] = IF p.is = "call" THEN CallErrors(p, s) ELSE <<>>
      BY <1>7 DEF ErrorsOf
    <2>2. Range(<<>>) = {}
      BY DEF Range
    <2> QED
      BY <1>5, <2>1, <2>2
  <1>9. k \in CallsIn(text)
    BY <1>6, <1>8 DEF CallsIn
  <1> QED
    BY <1>4, <1>5, <1>6, <1>8, <1>9

\* Where the text has no error, none of its calls has.
LEMMA NoErrorNoCall ==
  ASSUME NEW text \in Texts, NEW s, TemplateError(text, s) = None, NEW k \in CallsIn(text)
  PROVE  CallErrors(text[k], s) = <<>>
  <1> DEFINE es == Mapped(ErrorsOf(s), text)
  <1>1. ErrorsOf(s) \in [Part -> Seq(Errors)] /\ text \in Seq(Part) /\ TemplateError(text, s) = LastError(es)
    BY TemplateErrorIs
  <1>2. es \in Seq(Errors)
    BY <1>1, MappedType
  <1>3. \A q : q \in Range(es) <=> \E p \in Range(text) : q \in Range(ErrorsOf(s)[p])
    BY <1>1, MappedHolds
  <1> HIDE DEF es
  <1>4. es = <<>>
    BY <1>1, <1>2, LastErrorIs
  <1>5. Range(es) = {}
    BY <1>4 DEF Range
  <1>6. k \in DOMAIN text /\ text[k].is = "call" /\ text[k] \in Part /\ text[k] \in CallPart
    BY PartsOfText DEF CallsIn
  <1>7. text[k] \in Range(text)
    BY <1>6 DEF Range
  <1>8. Range(ErrorsOf(s)[text[k]]) = {}
    BY <1>3, <1>5, <1>7
  <1>9. ErrorsOf(s)[text[k]] = CallErrors(text[k], s)
    BY <1>6 DEF ErrorsOf
  <1>10. PICK ce \in Seq(Errors) : ce = CallErrors(text[k], s)
    BY <1>6, CallErrorsType
  <1>11. Range(ce) = {}
    BY <1>8, <1>9, <1>10
  <1>12. DOMAIN ce = 1 .. Len(ce) /\ Len(ce) \in Nat
    BY LenProperties
  <1>13. Len(ce) = 0
    <2>1. Len(ce) # 0 => 1 \in DOMAIN ce
      BY <1>12
    <2>2. \A i \in DOMAIN ce : ce[i] \in Range(ce)
      BY DEF Range
    <2> QED
      BY <1>11, <2>1, <2>2
  <1> QED
    BY <1>10, <1>13, EmptySeq

\* The error of a text with one call is that call's.
LEMMA ErrorOfOneCall ==
  ASSUME NEW text \in Texts, NEW s, NEW k \in CallsIn(text), \A j \in CallsIn(text) : j = k
  PROVE  TemplateError(text, s) = LastError(CallErrors(text[k], s))
  <1>1. ErrorsOf(s) \in [Part -> Seq(Errors)] /\ text \in Seq(Part)
        /\ TemplateError(text, s) = LastError(Mapped(ErrorsOf(s), text))
    BY TemplateErrorIs
  <1>2. \A j \in DOMAIN text :
          ErrorsOf(s)[text[j]] = IF text[j].is = "call" THEN CallErrors(text[j], s) ELSE <<>>
    BY PartsOfText DEF ErrorsOf
  <1>3. k \in DOMAIN text /\ text[k].is = "call"
    BY DEF CallsIn
  <1>4. \A j \in DOMAIN text : j # k => ErrorsOf(s)[text[j]] = <<>>
    BY <1>2 DEF CallsIn
  <1>5. Mapped(ErrorsOf(s), text) = ErrorsOf(s)[text[k]]
    BY <1>1, <1>3, <1>4, MappedOnce
  <1> QED
    BY <1>1, <1>2, <1>3, <1>5

\* The variables of a run.
IsStore(s) == DOMAIN s \subseteq Names /\ \A n \in DOMAIN s : s[n] \in Values

\* A call without errors leaves words in its place, or what its variable holds,
\* in another case.
LEMMA ResultOfCall ==
  ASSUME NEW c \in CallPart, NEW s, IsStore(s), CallErrors(c, s) = <<>>
  PROVE  /\ CallResult(c, s) \in Values
         /\ c.args # <<>> => c.args[1] \in DOMAIN s
         /\ (c.args # <<>> => Plain(s[c.args[1]])) => Plain(CallResult(c, s))
  <1>1. ~Misused(c)
    <2> SUFFICES ASSUME Misused(c) PROVE FALSE
      OBVIOUS
    <2>1. PICK f \in {"unknown", "arity"} : CallErrors(c, s) = <<f>>
      BY MisusesStay
    <2>2. Len(<<f>>) # Len(<<>>)
      OBVIOUS
    <2> QED
      BY <2>1, <2>2
  <1>2. c.name \in {"now", "toUpper", "toLower", "base64", "urlEncode", "substring", "addDays"}
        /\ Len(c.args) = Need[c.name]
    BY <1>1 DEF Misused, Need
  <1>3. c.args # <<>> => c.args[1] \in DOMAIN s
    BY <1>1, OtherErrors DEF Misses
  <1>4. ASSUME NEW w \in {"now", "encoded", "cut", "date"}
        PROVE  <<Word(w)>> \in Values /\ Plain(<<Word(w)>>)
    <2>1. Word(w) \in Token /\ Word(w).is = "word"
      BY WordsAssumption DEF Token, Word
    <2>2. <<Word(w)>> \in Seq(Token)
      BY <2>1
    <2> QED
      BY <2>1, <2>2, TextTypes DEF Plain
  <1>5. CASE c.name \in {"toUpper", "toLower"}
    <2>1. Len(c.args) = 1
      BY <1>2, <1>5 DEF Need
    <2>2. c.args # <<>>
      BY <2>1, EmptySeq
    <2>3. PICK v \in Values : v = s[c.args[1]]
      BY <1>3, <2>2 DEF IsStore
    <2>4. Get(s, c.args[1]) = v
      BY <1>3, <2>2, <2>3 DEF Get
    <2>5. PICK case \in [Names -> Names] : CallResult(c, s) = Cased(v, case)
      BY <1>5, <2>4, NamesAssumption DEF CallResult
    <2>6. v \in Seq(Token) /\ DOMAIN v = 1 .. Len(v) /\ Len(v) \in Nat
      BY TextTypes, LenProperties
    <2>7. ASSUME NEW k \in DOMAIN v
          PROVE  /\ Cased(v, case)[k] \in Token
                 /\ v[k].is = "word" => Cased(v, case)[k].is = "word"
      <3>1. v[k] \in Token
        BY <2>6, ElementOfSeq
      <3>2. Cased(v, case)[k] = IF v[k].is = "word" THEN v[k] ELSE [v[k] EXCEPT !.name = case[@]]
        BY DEF Cased
      <3>3. CASE v[k].is # "word"
        <4>1. v[k] \in [is : {"ref", "open"}, name : Names]
          BY <3>1, <3>3 DEF Token
        <4>2. [v[k] EXCEPT !.name = case[@]] \in [is : {"ref", "open"}, name : Names]
          BY <4>1
        <4> QED
          BY <3>2, <3>3, <4>2 DEF Token
      <3> QED
        BY <3>1, <3>2, <3>3
    <2>8. DOMAIN Cased(v, case) = 1 .. Len(v)
      BY <2>6 DEF Cased
    <2>9. Cased(v, case) \in [1 .. Len(v) -> Token]
      BY <2>6, <2>7, <2>8 DEF Cased
    <2>10. Cased(v, case) \in Seq(Token)
      BY <2>6, <2>9
    <2>11. Plain(v) => Plain(Cased(v, case))
      BY <2>6, <2>7, <2>8 DEF Plain
    <2> QED
      BY <1>3, <2>2, <2>3, <2>5, <2>10, <2>11, TextTypes
  <1>6. CASE c.name \notin {"toUpper", "toLower"}
    <2>1. \E w \in {"now", "encoded", "cut", "date"} : CallResult(c, s) = <<Word(w)>>
      BY <1>2, <1>6 DEF CallResult
    <2> QED
      BY <1>3, <1>4, <2>1
  <1> QED
    BY <1>5, <1>6

\* A text whose calls have no errors: what becomes of each part is a value, and
\* the parts that are not calls stay.
LEMMA CalledIs ==
  ASSUME NEW text \in Texts, NEW s, IsStore(s), TemplateError(text, s) = None
  PROVE  /\ Called(text, s) \in Values
         /\ \A q \in Range(Called(text, s)) :
              \/ q \in Range(text) /\ q.is # "call"
              \/ \E k \in CallsIn(text) : q \in Range(CallResult(text[k], s))
  <1> DEFINE R == Range(text)
             h == [p \in R |-> IF p.is = "call" THEN CallResult(p, s) ELSE <<p>>]
  <1>1. text \in Seq(Part) /\ DOMAIN text = 1 .. Len(text) /\ Len(text) \in Nat
    BY TextTypes, LenProperties
  <1>2. text \in Seq(R)
    <2>1. text \in [1 .. Len(text) -> R]
      BY <1>1 DEF Range
    <2> QED
      BY <1>1, <2>1
  <1>3. ASSUME NEW p \in R
        PROVE  \/ p.is # "call" /\ p \in Token /\ h[p] = <<p>>
               \/ \E k \in CallsIn(text) : p = text[k] /\ h[p] = CallResult(text[k], s) /\ h[p] \in Seq(Token)
    <2>1. PICK k \in DOMAIN text : p = text[k]
      BY DEF Range
    <2>2. p \in Part
      BY <2>1, PartsOfText
    <2>3. CASE p.is # "call"
      BY <2>2, <2>3, TextTypes
    <2>4. CASE p.is = "call"
      <3>1. k \in CallsIn(text) /\ text[k] \in CallPart
        BY <2>1, <2>4, PartsOfText DEF CallsIn
      <3>2. CallErrors(text[k], s) = <<>>
        BY <3>1, NoErrorNoCall
      <3>3. CallResult(text[k], s) \in Seq(Token)
        BY <3>1, <3>2, ResultOfCall, TextTypes
      <3> QED
        BY <2>1, <2>4, <3>1, <3>3
    <2> QED
      BY <2>3, <2>4
  <1>4. \A p \in R : h[p] \in Seq(Token)
    <2>1. \A p \in Token : <<p>> \in Seq(Token)
      OBVIOUS
    <2> HIDE DEF h
    <2> QED
      BY <1>3, <2>1
  <1>5. h \in [R -> Seq(Token)]
    BY <1>4
  <1>6. Called(text, s) = Mapped(h, text)
    <2>1. \A k \in DOMAIN text : text[k] \in R
      BY DEF Range
    <2>2. [k \in DOMAIN text |-> IF text[k].is = "call" THEN CallResult(text[k], s) ELSE <<text[k]>>]
          = [k \in DOMAIN text |-> h[text[k]]]
      BY <2>1
    <2> QED
      BY <2>2 DEF Called, Replaced, Mapped
  <1> HIDE DEF h, R
  <1>7. Mapped(h, text) \in Seq(Token)
    BY <1>2, <1>5, MappedType
  <1>8. \A q : q \in Range(Mapped(h, text)) <=> \E p \in Range(text) : q \in Range(h[p])
    BY <1>2, <1>5, MappedHolds
  <1>9. ASSUME NEW q \in Range(Called(text, s))
        PROVE  \/ q \in Range(text) /\ q.is # "call"
               \/ \E k \in CallsIn(text) : q \in Range(CallResult(text[k], s))
    <2>1. PICK p \in R : q \in Range(h[p])
      BY <1>6, <1>8 DEF R
    <2>2. \A y : Range(<<y>>) = {y}
      BY DEF Range
    <2>3. CASE p.is # "call" /\ h[p] = <<p>>
      <3>1. q = p
        BY <2>1, <2>2, <2>3
      <3> QED
        BY <2>3, <3>1 DEF R
    <2> QED
      BY <1>3, <2>1, <2>3
  <1> QED
    BY <1>6, <1>7, <1>9, TextTypes

\* And the variables: a reference becomes the value of its variable.
LEMMA SubstitutedIs ==
  ASSUME NEW v \in Values, NEW s, IsStore(s), SubstituteError(v, s) = None
  PROVE  /\ Substituted(v, s) \in Values
         /\ \A q \in Range(Substituted(v, s)) :
              \/ q \in Range(v) /\ q.is # "ref"
              \/ \E k \in DOMAIN v : v[k].is = "ref" /\ v[k].name \in DOMAIN s /\ q \in Range(s[v[k].name])
  <1> DEFINE R == Range(v)
             h == [p \in R |-> IF p.is = "ref" THEN s[p.name] ELSE <<p>>]
  <1>1. v \in Seq(Token) /\ DOMAIN v = 1 .. Len(v) /\ Len(v) \in Nat
    BY TextTypes, LenProperties
  <1>2. v \in Seq(R)
    <2>1. v \in [1 .. Len(v) -> R]
      BY <1>1 DEF Range
    <2> QED
      BY <1>1, <2>1
  <1>3. \A k \in DOMAIN v : v[k].is = "ref" => v[k].name \in DOMAIN s
    <2>1. "missing" # None
      BY NoneAssumption DEF Errors
    <2> QED
      BY <2>1 DEF SubstituteError
  <1>4. ASSUME NEW p \in R
        PROVE  \/ p.is # "ref" /\ p \in Token /\ h[p] = <<p>>
               \/ \E k \in DOMAIN v : p = v[k] /\ v[k].is = "ref" /\ v[k].name \in DOMAIN s
                                      /\ h[p] = s[v[k].name] /\ h[p] \in Seq(Token)
    <2>1. PICK k \in DOMAIN v : p = v[k]
      BY DEF Range
    <2>2. p \in Token
      BY <1>1, <2>1, ElementOfSeq
    <2>3. CASE p.is # "ref"
      BY <2>2, <2>3
    <2>4. CASE p.is = "ref"
      <3>1. v[k].name \in DOMAIN s /\ h[p] = s[v[k].name]
        BY <1>3, <2>1, <2>4
      <3>2. s[v[k].name] \in Seq(Token)
        BY <3>1, TextTypes DEF IsStore
      <3> QED
        BY <2>1, <2>4, <3>1, <3>2
    <2> QED
      BY <2>3, <2>4
  <1>5. \A p \in R : h[p] \in Seq(Token)
    <2>1. \A p \in Token : <<p>> \in Seq(Token)
      OBVIOUS
    <2> HIDE DEF h
    <2> QED
      BY <1>4, <2>1
  <1>6. h \in [R -> Seq(Token)]
    BY <1>5
  <1>7. Substituted(v, s) = Mapped(h, v)
    <2>1. \A k \in DOMAIN v : v[k] \in R
      BY DEF Range
    <2>2. [k \in DOMAIN v |-> IF v[k].is = "ref" THEN s[v[k].name] ELSE <<v[k]>>]
          = [k \in DOMAIN v |-> h[v[k]]]
      BY <2>1
    <2> QED
      BY <2>2 DEF Substituted, Replaced, Mapped
  <1> HIDE DEF h, R
  <1>8. Mapped(h, v) \in Seq(Token)
    BY <1>2, <1>6, MappedType
  <1>9. \A q : q \in Range(Mapped(h, v)) <=> \E p \in Range(v) : q \in Range(h[p])
    BY <1>2, <1>6, MappedHolds
  <1>10. ASSUME NEW q \in Range(Substituted(v, s))
        PROVE  \/ q \in Range(v) /\ q.is # "ref"
               \/ \E k \in DOMAIN v : v[k].is = "ref" /\ v[k].name \in DOMAIN s /\ q \in Range(s[v[k].name])
    <2>1. PICK p \in R : q \in Range(h[p])
      BY <1>7, <1>9 DEF R
    <2>2. \A y : Range(<<y>>) = {y}
      BY DEF Range
    <2>3. CASE p.is # "ref" /\ h[p] = <<p>>
      <3>1. q = p
        BY <2>1, <2>2, <2>3
      <3> QED
        BY <2>3, <3>1 DEF R
    <2> QED
      BY <1>4, <2>1, <2>3
  <1> QED
    BY <1>7, <1>8, <1>10, TextTypes

-----------------------------------------------------------------------------
(* The inductive invariant                                                 *)

\* Where validation can be, and what the step that is executed is.
Stages == {"env", "spec", "scenario", "exited", "operation", "build", "returned"} \cup Parts

Validating == at \in {"env", "spec", "scenario"}

Executing == at \in {"operation", "build", "returned"} \cup Parts

Progress ==
  /\ at \in Stages
  /\ spec \in Specs /\ scenarios \in Commands
  /\ scn \in Nat \ {0} /\ stp \in Nat \ {0}
  /\ at \in {"spec", "scenario"} => scenarios # <<>>
  /\ at \in {"env", "spec"} => scn = 1 /\ stp = 1
  /\ at = "scenario" /\ scn \in DOMAIN scenarios => scenarios[scn] # Broken \/ stp = 1
  /\ Executing =>
       /\ env /\ spec # Broken /\ store \in Stores
       /\ scn \in DOMAIN scenarios /\ scenarios[scn] # Broken
       /\ stp \in DOMAIN scenarios[scn] /\ TheStep.operation # NoOperation
  /\ outcome # None => at = "returned"

\* What validate has looked at.
LookedAt(i) == ~Validating \/ (at = "scenario" /\ i < scn)

SeenStep(i, k) == LookedAt(i) \/ (at = "scenario" /\ i = scn /\ k < stp)

\* The error names something that is wrong.
Deserved(e) ==
  \/ e = <<"env">> /\ ~env
  \/ e = <<"spec">> /\ spec = Broken
  \/ \E i \in DOMAIN scenarios : scenarios[i] = Broken /\ e = <<"scenario", i>>
  \/ \E i \in DOMAIN scenarios :
       /\ scenarios[i] # Broken
       /\ \E k \in DOMAIN scenarios[i] : \E f \in DOMAIN Fields(scenarios[i][k]) :
            RejectsField(scenarios[i][k], Fields(scenarios[i][k])[f]) /\ e = <<"field", i, k, f>>

\* Nothing that is wrong and was looked at is left out.
Reported ==
  scenarios # <<>> =>
    /\ at # "env" /\ ~env => <<"env">> \in errors
    /\ at \notin {"env", "spec"} /\ spec = Broken => <<"spec">> \in errors
    /\ \A i \in DOMAIN scenarios :
         /\ LookedAt(i) /\ scenarios[i] = Broken => <<"scenario", i>> \in errors
         /\ scenarios[i] # Broken =>
              \A k \in DOMAIN scenarios[i] : SeenStep(i, k) =>
                \A f \in DOMAIN Fields(scenarios[i][k]) :
                  RejectsField(scenarios[i][k], Fields(scenarios[i][k])[f]) => <<"field", i, k, f>> \in errors
    /\ ~Validating /\ exit = 0 => errors = {}

\* The parts of the request up to the one that is filled in.
PartsUpTo(a) ==
  CASE a = "path" -> {"path"} [] a = "query" -> {"path", "query"}
    [] a = "headers" -> {"path", "query", "headers"} [] OTHER -> Parts

Done(s, a, rest) == {f \in DOMAIN Fields(s) : f[1] \in PartsUpTo(a)} \ rest

ErrorFree(s, st, fs) == \A f \in fs : ResolveError(Fields(s)[f], st) = None

\* What step s gives for a placeholder, and the template filled in with what it
\* gives for those of the set D.
ValueFor(s, st, n) == Resolved(s.path[n], st)

Filler(s, st, D) == [p \in Token |-> IF p.is = "open" /\ p.name \in D THEN ValueFor(s, st, p.name) ELSE <<p>>]

Filled(t, s, st, D) == Mapped(Filler(s, st, D), t)

FilledNames(s, a, rest) == {n \in DOMAIN s.path : a = "path" => <<"path", n>> \notin rest}

PlainPaths(s, st) ==
  \A n \in DOMAIN s.path : ResolveError(s.path[n], st) = None /\ Plain(ValueFor(s, st, n))

\* What is left is of this part, everything before it was filled in without an
\* error, and the path is the template filled in with what was taken so far.
Filling ==
  at \in Parts \cup {"build"} =>
    /\ TheStep.operation \in DOMAIN spec
    /\ left \subseteq FieldsOf(at)
    /\ ErrorFree(TheStep, store, Done(TheStep, at, left))
    /\ path \in Values
    /\ PlainPaths(TheStep, store) =>
         path = Filled(spec[TheStep.operation], TheStep, store, FilledNames(TheStep, at, left))

\* The request is complete but for the look at its path.
Built ==
  /\ TheStep.operation \in DOMAIN spec
  /\ ErrorFree(TheStep, store, DOMAIN Fields(TheStep))
  /\ path \in Values
  /\ PlainPaths(TheStep, store) =>
       path = Filled(spec[TheStep.operation], TheStep, store, DOMAIN TheStep.path)

\* The outcome has its reason.
Explained ==
  /\ outcome \in {None, "sent", "refused"}
  /\ outcome = "sent" => Built /\ ~HasBrace(path)
  /\ outcome = "refused" =>
       \/ TheStep.operation \notin DOMAIN spec
       \/ ~ErrorFree(TheStep, store, DOMAIN Fields(TheStep))
       \/ Built /\ HasBrace(path)

VInv == Progress /\ (\A e \in errors : Deserved(e)) /\ Reported /\ Filling /\ Explained

-----------------------------------------------------------------------------
(* It is kept: the verdict                                                 *)

\* What the command is given.
LEMMA CommandIs ==
  ASSUME scenarios \in Commands
  PROVE  /\ Len(scenarios) \in Nat /\ DOMAIN scenarios = 1 .. Len(scenarios)
         /\ \A i \in DOMAIN scenarios : scenarios[i] # Broken =>
              /\ Len(scenarios[i]) \in Nat /\ DOMAIN scenarios[i] = 1 .. Len(scenarios[i])
              /\ \A k \in DOMAIN scenarios[i] : IsStep(scenarios[i][k])
  BY CommandsAssumption

LEMMA DeservedKept ==
  ASSUME UNCHANGED command, NEW e, Deserved(e)
  PROVE  Deserved(e)'
  BY DEF Deserved, command

LEMMA Initially ==
  ASSUME Init
  PROVE  VInv
  <1>1. Progress
    BY DEF Init, Progress, Stages, Executing, Parts
  <1>2. (\A e \in errors : Deserved(e)) /\ Reported
    BY DEF Init, Reported, LookedAt, SeenStep, Validating
  <1>3. Filling /\ Explained
    <2>1. at = "env" /\ outcome = None
      BY DEF Init
    <2>2. None \notin {"sent", "refused"} /\ "env" \notin Parts \cup {"build"}
      BY OutcomeAssumption DEF Parts
    <2> QED
      BY <2>1, <2>2 DEF Filling, Explained
  <1> QED
    BY <1>1, <1>2, <1>3 DEF VInv

\* As long as no step is executed there is nothing to say of a request.
LEMMA NoRequestYet ==
  ASSUME VInv, Validating, at' \in {"env", "spec", "scenario", "exited"}, UNCHANGED request
  PROVE  Filling' /\ Explained' /\ outcome' = None
  <1>1. outcome = None
    BY DEF VInv, Progress, Validating
  <1>2. outcome' = None /\ at' \notin Parts \cup {"build"}
    BY <1>1 DEF request, Parts
  <1> QED
    BY <1>2, OutcomeAssumption DEF Filling, Explained

LEMMA RefuseNoScenarioKeeps ==
  ASSUME VInv, RefuseNoScenario
  PROVE  VInv'
  <1>1. at = "env" /\ at' = "exited" /\ scenarios = <<>> /\ UNCHANGED <<command, scn, stp, errors, request>>
    BY DEF RefuseNoScenario
  <1>2. Filling' /\ Explained' /\ outcome' = None
    BY <1>1, NoRequestYet DEF Validating
  <1>3. Progress'
    BY <1>1, <1>2 DEF VInv, Progress, Stages, Executing, Parts, command
  <1>4. \A e \in errors' : Deserved(e)'
    BY <1>1, DeservedKept DEF VInv
  <1>5. Reported'
    BY <1>1 DEF Reported, command
  <1> QED
    BY <1>2, <1>3, <1>4, <1>5 DEF VInv

LEMMA CheckEnvKeeps ==
  ASSUME VInv, CheckEnv
  PROVE  VInv'
  <1>1. /\ at = "env" /\ at' = "spec" /\ scenarios # <<>> /\ UNCHANGED <<command, scn, stp, exit, request>>
        /\ errors' = IF env THEN errors ELSE errors \cup {<<"env">>}
    BY DEF CheckEnv
  <1>2. Filling' /\ Explained' /\ outcome' = None
    BY <1>1, NoRequestYet DEF Validating
  <1>3. Progress'
    BY <1>1, <1>2 DEF VInv, Progress, Stages, Executing, Parts, command
  <1>4. \A e \in errors' : Deserved(e)'
    <2>1. \A e \in errors' : Deserved(e)
      BY <1>1 DEF VInv, Deserved
    <2> QED
      BY <1>1, <2>1, DeservedKept
  <1>5. Reported'
    BY <1>1 DEF Reported, command, LookedAt, SeenStep, Validating
  <1> QED
    BY <1>2, <1>3, <1>4, <1>5 DEF VInv

LEMMA CheckSpecKeeps ==
  ASSUME VInv, CheckSpec
  PROVE  VInv'
  <1>1. /\ at = "spec" /\ at' = "scenario" /\ UNCHANGED <<command, scn, stp, exit, request>>
        /\ errors' = IF spec = Broken THEN errors \cup {<<"spec">>} ELSE errors
    BY DEF CheckSpec
  <1>2. Filling' /\ Explained' /\ outcome' = None
    BY <1>1, NoRequestYet DEF Validating
  <1>3. Progress'
    BY <1>1, <1>2 DEF VInv, Progress, Stages, Executing, Parts, command
  <1>4. \A e \in errors' : Deserved(e)'
    <2>1. \A e \in errors' : Deserved(e)
      BY <1>1 DEF VInv, Deserved
    <2> QED
      BY <1>1, <2>1, DeservedKept
  <1>5. Reported'
    <2>1. scn = 1 /\ stp = 1 /\ DOMAIN scenarios = 1 .. Len(scenarios) /\ scenarios \in Commands
      BY <1>1, CommandIs DEF VInv, Progress
    <2>2. ~env => <<"env">> \in errors'
      BY <1>1 DEF VInv, Progress, Reported
    <2>3. spec = Broken => <<"spec">> \in errors'
      BY <1>1
    <2>4. \A i \in DOMAIN scenarios : ~LookedAt(i)'
      BY <1>1, <2>1 DEF LookedAt, Validating
    <2>5. \A i \in DOMAIN scenarios : scenarios[i] # Broken => \A k \in DOMAIN scenarios[i] : ~SeenStep(i, k)'
      BY <1>1, <2>1, <2>4, CommandIs DEF SeenStep
    <2> QED
      BY <1>1, <2>2, <2>3, <2>4, <2>5 DEF Reported, command, Validating
  <1> QED
    BY <1>2, <1>3, <1>4, <1>5 DEF VInv

LEMMA RejectScenarioKeeps ==
  ASSUME VInv, RejectScenario
  PROVE  VInv'
  <1>1. /\ at = "scenario" /\ at' = "scenario" /\ scn <= Len(scenarios) /\ scenarios[scn] = Broken
        /\ scn' = scn + 1 /\ errors' = errors \cup {<<"scenario", scn>>}
        /\ UNCHANGED <<command, stp, exit, request>>
    BY DEF RejectScenario, AtScenario
  <1>2. Filling' /\ Explained' /\ outcome' = None
    BY <1>1, NoRequestYet DEF Validating
  <1>3. scn \in DOMAIN scenarios /\ stp = 1 /\ scn \in Nat /\ scenarios \in Commands
        /\ \A i \in DOMAIN scenarios : i \in Nat
    BY <1>1, CommandIs DEF VInv, Progress
  <1>4. Progress'
    BY <1>1, <1>2, <1>3 DEF VInv, Progress, Stages, Executing, Parts, command
  <1>5. \A e \in errors' : Deserved(e)'
    <2>1. Deserved(<<"scenario", scn>>)
      BY <1>1, <1>3 DEF Deserved
    <2>2. \A e \in errors' : Deserved(e)
      BY <1>1, <2>1 DEF VInv
    <2> QED
      BY <1>1, <2>2, DeservedKept
  <1>6. Reported'
    <2>1. \A i \in DOMAIN scenarios : LookedAt(i)' => LookedAt(i) \/ i = scn
      BY <1>1, <1>3 DEF LookedAt, Validating
    <2>2. \A i \in DOMAIN scenarios : scenarios[i] # Broken =>
            \A k \in DOMAIN scenarios[i] : SeenStep(i, k)' => SeenStep(i, k)
      <3>1. ASSUME NEW i \in DOMAIN scenarios, scenarios[i] # Broken, NEW k \in DOMAIN scenarios[i], SeenStep(i, k)'
            PROVE  SeenStep(i, k)
        <4>1. k \in Nat \ {0} /\ ~(k < stp')
          BY <1>1, <1>3, <3>1, CommandIs
        <4>2. LookedAt(i)'
          BY <3>1, <4>1 DEF SeenStep
        <4> QED
          BY <1>1, <2>1, <3>1, <4>2 DEF SeenStep
      <3> QED
        BY <3>1
    <2>3. Reported /\ ~Validating' = FALSE
      BY <1>1 DEF VInv, Validating
    <2>4. scenarios' = scenarios /\ env' = env /\ spec' = spec /\ errors \subseteq errors' /\ Validating'
      BY <1>1 DEF command, Validating
    <2>5. ASSUME NEW i \in DOMAIN scenarios
          PROVE  /\ LookedAt(i)' /\ scenarios[i] = Broken => <<"scenario", i>> \in errors'
                 /\ scenarios[i] # Broken =>
                      \A k \in DOMAIN scenarios[i] : SeenStep(i, k)' =>
                        \A f \in DOMAIN Fields(scenarios[i][k]) :
                          RejectsField(scenarios[i][k], Fields(scenarios[i][k])[f]) => <<"field", i, k, f>> \in errors'
      <3>1. scenarios # <<>>
        BY <1>1 DEF VInv, Progress
      <3> QED
        BY <1>1, <2>1, <2>2, <2>3, <2>4, <3>1 DEF Reported
    <2>6. (~env => <<"env">> \in errors) /\ (spec = Broken => <<"spec">> \in errors)
      BY <1>1 DEF VInv, Progress, Reported
    <2> QED
      BY <1>1, <2>4, <2>5, <2>6 DEF Reported
  <1> QED
    BY <1>2, <1>4, <1>5, <1>6 DEF VInv

LEMMA CheckStepKeeps ==
  ASSUME VInv, CheckStep
  PROVE  VInv'
  <1> DEFINE Found == {<<"field", scn, stp, f>> : f \in
                         {g \in TemplatedFields(TheStep) : RejectsField(TheStep, Fields(TheStep)[g])}}
  <1>1. /\ at = "scenario" /\ at' = "scenario" /\ scn <= Len(scenarios) /\ scenarios[scn] # Broken
        /\ stp <= Len(scenarios[scn]) /\ stp' = stp + 1 /\ errors' = errors \cup Found
        /\ UNCHANGED <<command, scn, exit, request>>
    BY DEF CheckStep, AtScenario
  <1>2. Filling' /\ Explained' /\ outcome' = None
    BY <1>1, NoRequestYet DEF Validating
  <1>3. /\ scn \in Nat \ {0} /\ stp \in Nat \ {0} /\ scenarios \in Commands
        /\ scn \in DOMAIN scenarios /\ stp \in DOMAIN scenarios[scn]
        /\ \A i \in DOMAIN scenarios : i \in Nat
    BY <1>1, CommandIs DEF VInv, Progress
  <1>4. Progress'
    BY <1>1, <1>2, <1>3 DEF VInv, Progress, Stages, Executing, Parts, command
  <1>5. \A e \in errors' : Deserved(e)'
    <2>1. \A e \in Found : Deserved(e)
      BY <1>1, <1>3 DEF Deserved, TheStep, TemplatedFields
    <2>2. \A e \in errors' : Deserved(e)
      BY <1>1, <2>1 DEF VInv
    <2> QED
      BY <1>1, <2>2, DeservedKept
  <1>6. Reported'
    <2>1. scenarios' = scenarios /\ env' = env /\ spec' = spec /\ errors \subseteq errors' /\ Validating' /\ Validating
      BY <1>1 DEF command, Validating
    <2>2. \A i \in DOMAIN scenarios : LookedAt(i)' => LookedAt(i)
      BY <1>1, <2>1 DEF LookedAt
    <2>3. ASSUME NEW i \in DOMAIN scenarios, scenarios[i] # Broken, NEW k \in DOMAIN scenarios[i], SeenStep(i, k)'
          PROVE  SeenStep(i, k) \/ (i = scn /\ k = stp)
      <3>1. k \in Nat
        BY <1>3, <2>3, CommandIs
      <3> QED
        BY <1>1, <1>3, <2>2, <2>3, <3>1 DEF SeenStep
    <2>4. scenarios # <<>> /\ Reported
      BY <1>1 DEF VInv, Progress
    <2>5. ASSUME NEW i \in DOMAIN scenarios, scenarios[i] # Broken, NEW k \in DOMAIN scenarios[i], SeenStep(i, k)',
                 NEW f \in DOMAIN Fields(scenarios[i][k]),
                 RejectsField(scenarios[i][k], Fields(scenarios[i][k])[f])
          PROVE  <<"field", i, k, f>> \in errors'
      <3>1. CASE SeenStep(i, k)
        BY <2>1, <2>4, <2>5, <3>1 DEF Reported
      <3>2. CASE i = scn /\ k = stp
        <4>1. <<"field", i, k, f>> \in Found
          BY <2>5, <3>2 DEF TheStep, TemplatedFields
        <4> QED
          BY <1>1, <4>1
      <3> QED
        BY <2>3, <2>5, <3>1, <3>2
    <2>6. \A i \in DOMAIN scenarios : LookedAt(i)' /\ scenarios[i] = Broken => <<"scenario", i>> \in errors'
      BY <2>1, <2>2, <2>4 DEF Reported
    <2>7. (~env => <<"env">> \in errors) /\ (spec = Broken => <<"spec">> \in errors)
      BY <1>1, <2>4 DEF Reported
    <2> HIDE DEF Found
    <2> QED
      BY <2>1, <2>5, <2>6, <2>7 DEF Reported
  <1> QED
    BY <1>2, <1>4, <1>5, <1>6 DEF VInv

LEMMA NextScenarioKeeps ==
  ASSUME VInv, NextScenario
  PROVE  VInv'
  <1>1. /\ at = "scenario" /\ at' = "scenario" /\ scn <= Len(scenarios) /\ scenarios[scn] # Broken
        /\ stp > Len(scenarios[scn]) /\ stp' = 1 /\ scn' = scn + 1
        /\ UNCHANGED <<command, errors, exit, request>>
    BY DEF NextScenario, AtScenario, checked
  <1>2. Filling' /\ Explained' /\ outcome' = None
    BY <1>1, NoRequestYet DEF Validating
  <1>3. /\ scn \in Nat \ {0} /\ stp \in Nat \ {0} /\ scenarios \in Commands
        /\ scn \in DOMAIN scenarios
        /\ \A i \in DOMAIN scenarios : i \in Nat
    BY <1>1, CommandIs DEF VInv, Progress
  <1>4. Progress'
    BY <1>1, <1>2, <1>3 DEF VInv, Progress, Stages, Executing, Parts, command
  <1>5. \A e \in errors' : Deserved(e)'
    BY <1>1, DeservedKept DEF VInv
  <1>6. Reported'
    <2>1. scenarios' = scenarios /\ env' = env /\ spec' = spec /\ errors' = errors /\ Validating' /\ Validating
      BY <1>1 DEF command, Validating
    <2>2. \A i \in DOMAIN scenarios : LookedAt(i)' => LookedAt(i) \/ i = scn
      BY <1>1, <1>3, <2>1 DEF LookedAt
    <2>3. ASSUME NEW i \in DOMAIN scenarios, scenarios[i] # Broken, NEW k \in DOMAIN scenarios[i], SeenStep(i, k)'
          PROVE  SeenStep(i, k)
      <3>1. k \in Nat /\ 1 <= k /\ k <= Len(scenarios[i]) /\ Len(scenarios[i]) \in Nat
        BY <1>3, <2>3, CommandIs
      <3>2. LookedAt(i)'
        BY <1>1, <2>3, <3>1 DEF SeenStep
      <3> QED
        BY <1>1, <1>3, <2>2, <3>1, <3>2 DEF SeenStep
    <2>4. scenarios # <<>> /\ Reported
      BY <1>1 DEF VInv, Progress
    <2>5. \A i \in DOMAIN scenarios : LookedAt(i)' /\ scenarios[i] = Broken => <<"scenario", i>> \in errors'
      BY <1>1, <2>1, <2>2, <2>4 DEF Reported
    <2>6. \A i \in DOMAIN scenarios : scenarios[i] # Broken =>
            \A k \in DOMAIN scenarios[i] : SeenStep(i, k)' =>
              \A f \in DOMAIN Fields(scenarios[i][k]) :
                RejectsField(scenarios[i][k], Fields(scenarios[i][k])[f]) => <<"field", i, k, f>> \in errors'
      BY <2>1, <2>3, <2>4 DEF Reported
    <2>7. (~env => <<"env">> \in errors) /\ (spec = Broken => <<"spec">> \in errors)
      BY <1>1, <2>4 DEF Reported
    <2> QED
      BY <2>1, <2>5, <2>6, <2>7 DEF Reported
  <1> QED
    BY <1>2, <1>4, <1>5, <1>6 DEF VInv

LEMMA ExitKeeps ==
  ASSUME VInv, Exit
  PROVE  VInv'
  <1>1. /\ at = "scenario" /\ at' = "exited" /\ scn > Len(scenarios)
        /\ exit' = IF errors = {} THEN 0 ELSE 2
        /\ UNCHANGED <<command, scn, stp, errors, request>>
    BY DEF Exit
  <1>2. Filling' /\ Explained' /\ outcome' = None
    BY <1>1, NoRequestYet DEF Validating
  <1>3. Progress'
    BY <1>1, <1>2 DEF VInv, Progress, Stages, Executing, Parts, command
  <1>4. \A e \in errors' : Deserved(e)'
    BY <1>1, DeservedKept DEF VInv
  <1>5. Reported'
    <2>1. scenarios' = scenarios /\ env' = env /\ spec' = spec /\ errors' = errors
      BY <1>1 DEF command
    <2>2. scenarios # <<>> /\ Reported /\ scn \in Nat /\ scenarios \in Commands
      BY <1>1 DEF VInv, Progress
    <2>3. \A i \in DOMAIN scenarios : LookedAt(i) /\ \A k : SeenStep(i, k)
      BY <1>1, <2>2, CommandIs DEF LookedAt, SeenStep
    <2>4. (exit' = 0 => errors = {})
      BY <1>1
    <2> QED
      BY <1>1, <2>1, <2>2, <2>3, <2>4 DEF Reported
  <1> QED
    BY <1>2, <1>3, <1>4, <1>5 DEF VInv

-----------------------------------------------------------------------------
(* It is kept: the request                                                 *)

\* Once it is given the verdict stays.
LEMMA VerdictKept ==
  ASSUME VInv, ~Validating, ~Validating', UNCHANGED <<command, checked>>
  PROVE  (\A e \in errors' : Deserved(e)') /\ Reported'
  <1>1. scenarios' = scenarios /\ env' = env /\ spec' = spec /\ errors' = errors /\ exit' = exit
    BY DEF command, checked
  <1>2. \A i : LookedAt(i) /\ \A k : SeenStep(i, k)
    BY DEF LookedAt, SeenStep
  <1>3. at \notin {"env", "spec"} /\ Reported
    BY DEF Validating, VInv
  <1>4. \A e \in errors' : Deserved(e)'
    BY <1>1, DeservedKept DEF VInv
  <1>5. Reported'
    BY <1>1, <1>2, <1>3 DEF Reported
  <1> QED
    BY <1>4, <1>5

\* What the step that is executed is, and what it is given.
LEMMA RequestIs ==
  ASSUME VInv, Executing
  PROVE  /\ IsStep(TheStep) /\ IsStore(store)
         /\ TheStep.operation \in DOMAIN spec => spec[TheStep.operation] \in Seq(Token)
  <1>1. IsStep(TheStep)
    BY CommandIs DEF VInv, Progress, TheStep
  <1>2. IsStore(store)
    BY StoresAssumption DEF VInv, Progress, IsStore
  <1>3. ASSUME TheStep.operation \in DOMAIN spec PROVE spec[TheStep.operation] \in Seq(Token)
    <2>1. spec[TheStep.operation] \in PathTemplates
      BY <1>3, SpecsAssumption DEF VInv, Progress
    <2>2. [is : {"word"}, name : Words] \cup [is : {"open"}, name : Names] \subseteq Token
      BY DEF Token
    <2> QED
      BY <2>1, <2>2, SeqMonotonic DEF PathTemplates
  <1> QED
    BY <1>1, <1>2, <1>3

\* The fields of a step.
LEMMA FieldsAre ==
  ASSUME NEW s, IsStep(s)
  PROVE  /\ \A f \in DOMAIN Fields(s) : f[1] \in Parts /\ Fields(s)[f] \in Texts
         /\ \A n : <<"path", n>> \in DOMAIN Fields(s) <=> n \in DOMAIN s.path
         /\ \A n \in DOMAIN s.path : Fields(s)[<<"path", n>>] = s.path[n]
         /\ \A f \in DOMAIN Fields(s) : f[1] = "path" => f[2] \in DOMAIN s.path /\ f = <<"path", f[2]>>
  <1> DEFINE D == {<<"body", "">>} \cup ({"path"} \X DOMAIN s.path) \cup ({"query"} \X DOMAIN s.query)
                  \cup ({"headers"} \X DOMAIN s.headers)
  <1>1. DOMAIN Fields(s) = D /\ \A f \in D : Fields(s)[f] = IF f[1] = "body" THEN s.body ELSE s[f[1]][f[2]]
    BY DEF Fields
  <1>2. \A f \in D : \/ f[1] = "body"
                     \/ f[1] \in {"path", "query", "headers"} /\ f[2] \in DOMAIN s[f[1]]
    <2>1. ASSUME NEW f \in {"path"} \X DOMAIN s.path PROVE f[1] = "path" /\ f[2] \in DOMAIN s["path"]
      OBVIOUS
    <2>2. ASSUME NEW f \in {"query"} \X DOMAIN s.query PROVE f[1] = "query" /\ f[2] \in DOMAIN s["query"]
      OBVIOUS
    <2>3. ASSUME NEW f \in {"headers"} \X DOMAIN s.headers PROVE f[1] = "headers" /\ f[2] \in DOMAIN s["headers"]
      OBVIOUS
    <2>4. \A f \in D : \/ f = <<"body", "">>
                       \/ f \in {"path"} \X DOMAIN s.path
                       \/ f \in {"query"} \X DOMAIN s.query
                       \/ f \in {"headers"} \X DOMAIN s.headers
      OBVIOUS
    <2>5. <<"body", "">>[1] = "body"
      OBVIOUS
    <2> HIDE DEF D
    <2> QED
      BY <2>1, <2>2, <2>3, <2>4, <2>5
  <1>3. ASSUME NEW f \in D PROVE f[1] \in Parts /\ Fields(s)[f] \in Texts
    <2>1. CASE f[1] = "body"
      BY <1>1, <2>1 DEF IsStep, Parts
    <2>2. CASE f[1] \in {"path", "query", "headers"} /\ f[2] \in DOMAIN s[f[1]]
      <3>1. s[f[1]][f[2]] \in Texts
        BY <2>2 DEF IsStep
      <3> QED
        BY <1>1, <2>2, <3>1 DEF Parts
    <2> QED
      BY <1>2, <2>1, <2>2
  <1>4. \A n : <<"path", n>> \in D <=> n \in DOMAIN s.path
    OBVIOUS
  <1>5. ASSUME NEW f \in D, f[1] = "path" PROVE f[2] \in DOMAIN s.path /\ f = <<"path", f[2]>>
    <2>1. \/ f = <<"body", "">>
          \/ f \in {"path"} \X DOMAIN s.path
          \/ f \in {"query"} \X DOMAIN s.query
          \/ f \in {"headers"} \X DOMAIN s.headers
      OBVIOUS
    <2>2. ASSUME NEW X1, f \in {"query"} \X X1 \/ f \in {"headers"} \X X1 PROVE f[1] # "path"
      BY <2>2
    <2>3. <<"body", "">>[1] = "body"
      OBVIOUS
    <2> HIDE DEF D
    <2>4. f \in {"path"} \X DOMAIN s.path
      BY <1>5, <2>1, <2>2, <2>3
    <2>5. f[2] \in DOMAIN s.path /\ f = <<f[1], f[2]>>
      BY <2>4
    <2> QED
      BY <1>5, <2>5
  <1> HIDE DEF D
  <1>6. \A n \in DOMAIN s.path : Fields(s)[<<"path", n>>] = s.path[n]
    BY <1>1, <1>4
  <1> QED
    BY <1>1, <1>3, <1>4, <1>5, <1>6

\* The step, its operation and its variables stay while it is executed.
SameStep == UNCHANGED <<command, scn, stp, store>>

LEMMA SameStepSame ==
  ASSUME SameStep
  PROVE  TheStep' = TheStep /\ spec' = spec /\ store' = store /\ env' = env /\ scenarios' = scenarios
         /\ scn' = scn /\ stp' = stp
  BY DEF SameStep, command, TheStep

LEMMA StartStepKeeps ==
  ASSUME VInv, StartStep
  PROVE  VInv'
  <1>1. at = "exited" /\ at' = "operation" /\ UNCHANGED <<command, checked, left, path, outcome>>
        /\ env /\ spec # Broken /\ store' \in Stores
    BY DEF StartStep
  <1>2. PICK i \in DOMAIN scenarios : scenarios[i] # Broken /\ \E k \in DOMAIN scenarios[i] :
          scenarios[i][k].operation # NoOperation /\ scn' = i /\ stp' = k
    BY DEF StartStep
  <1>3. PICK k \in DOMAIN scenarios[i] : scenarios[i][k].operation # NoOperation /\ scn' = i /\ stp' = k
    BY <1>2
  <1>4. i \in Nat \ {0} /\ k \in Nat \ {0} /\ scenarios \in Commands /\ spec \in Specs
    BY <1>2, CommandIs DEF VInv, Progress
  <1>5. scenarios' = scenarios /\ spec' = spec /\ env' = env
    BY <1>1 DEF command
  <1>6. outcome' = None
    BY <1>1 DEF VInv, Progress
  <1>7. Progress'
    BY <1>1, <1>2, <1>3, <1>4, <1>5, <1>6 DEF Progress, Stages, Executing, Parts, TheStep
  <1>8. Filling' /\ Explained'
    BY <1>1, <1>6, OutcomeAssumption DEF Filling, Explained, Parts
  <1>9. (\A e \in errors' : Deserved(e)') /\ Reported'
    BY <1>1, VerdictKept DEF Validating
  <1> QED
    BY <1>7, <1>8, <1>9 DEF VInv

\* A text that is resolved without an error is a value.
LEMMA ResolvedIs ==
  ASSUME NEW text \in Texts, NEW s, IsStore(s), ResolveError(text, s) = None
  PROVE  /\ TemplateError(text, s) = None
         /\ Called(text, s) \in Values /\ SubstituteError(Called(text, s), s) = None
         /\ Resolved(text, s) \in Values
  <1>1. TemplateError(text, s) = None /\ SubstituteError(Called(text, s), s) = None
    BY DEF ResolveError
  <1>2. Called(text, s) \in Values
    BY <1>1, CalledIs
  <1> QED
    BY <1>1, <1>2, SubstitutedIs DEF Resolved

\* One placeholder is replaced by a text.
Replacing(n, text) == [p \in Token |-> IF p.is = "open" /\ p.name = n THEN text ELSE <<p>>]

LEMMA FillPathIs ==
  ASSUME path \in Values, NEW n, NEW text \in Values
  PROVE  /\ Replacing(n, text) \in [Token -> Seq(Token)]
         /\ FillPath(n, text) = Mapped(Replacing(n, text), path)
         /\ FillPath(n, text) \in Values
  <1>1. path \in Seq(Token) /\ text \in Seq(Token)
    BY TextTypes
  <1>2. \A p \in Token : <<p>> \in Seq(Token)
    OBVIOUS
  <1>3. Replacing(n, text) \in [Token -> Seq(Token)]
    BY <1>1, <1>2 DEF Replacing
  <1>4. \A k \in DOMAIN path : path[k] \in Token
    BY <1>1, LenProperties, ElementOfSeq
  <1>5. [k \in DOMAIN path |-> IF path[k].is = "open" THEN (IF path[k].name = n THEN text ELSE <<path[k]>>)
                               ELSE <<path[k]>>]
        = [k \in DOMAIN path |-> Replacing(n, text)[path[k]]]
    BY <1>4 DEF Replacing
  <1>6. FillPath(n, text) = Mapped(Replacing(n, text), path)
    BY <1>5 DEF FillPath, Replaced, Mapped
  <1>7. Mapped(Replacing(n, text), path) \in Seq(Token)
    BY <1>1, <1>3, MappedType
  <1> QED
    BY <1>3, <1>6, <1>7, TextTypes

LEMMA MappedOne ==
  ASSUME NEW A, NEW B, NEW h \in [A -> Seq(B)], NEW x \in A
  PROVE  Mapped(h, <<x>>) = h[x]
  <1>1. <<>> \in Seq(A) /\ Append(<<>>, x) = <<x>> /\ h[x] \in Seq(B)
    OBVIOUS
  <1>2. Mapped(h, Append(<<>>, x)) = Mapped(h, <<>>) \o h[x]
    BY <1>1, MappedAppend
  <1> QED
    BY <1>1, <1>2, MappedEmpty, ConcatEmptySeq

LEMMA FillerType ==
  ASSUME NEW s, NEW st, NEW D, \A n \in D : ValueFor(s, st, n) \in Values
  PROVE  Filler(s, st, D) \in [Token -> Seq(Token)]
  <1>1. \A p \in Token : <<p>> \in Seq(Token)
    OBVIOUS
  <1> QED
    BY <1>1, TextTypes DEF Filler

\* The order does not matter: a path in which the placeholders of D were
\* replaced by words, and then one more, is one in which all of them were.
LEMMA OneMoreFilled ==
  ASSUME NEW t \in Seq(Token), NEW s, NEW st, NEW D, NEW n,
         \A m \in D \cup {n} : ValueFor(s, st, m) \in Values /\ Plain(ValueFor(s, st, m)),
         path \in Values, path = Filled(t, s, st, D)
  PROVE  FillPath(n, ValueFor(s, st, n)) = Filled(t, s, st, D \cup {n})
  <1> DEFINE h == Filler(s, st, D)
             g == Replacing(n, ValueFor(s, st, n))
  <1>1. h \in [Token -> Seq(Token)] /\ g \in [Token -> Seq(Token)]
    BY FillerType, FillPathIs
  <1>2. FillPath(n, ValueFor(s, st, n)) = Mapped(g, path)
    BY FillPathIs
  <1>3. path = Mapped(h, t)
    BY DEF Filled
  <1>4. ASSUME NEW y \in Token PROVE Filler(s, st, D \cup {n})[y] = Mapped(g, h[y])
    <2>2. CASE y.is = "open" /\ y.name \in D
      <3>1. PICK v \in Seq(Token) : v = ValueFor(s, st, y.name)
        BY <2>2, TextTypes
      <3>2. h[y] = v
        BY <2>2, <3>1 DEF Filler
      <3>3. \A x \in Range(v) : g[x] = <<x>>
        <4>1. ASSUME NEW k \in DOMAIN v PROVE g[v[k]] = <<v[k]>>
          <5>1. v[k] \in Token
            BY LenProperties, ElementOfSeq
          <5>2. v[k].is = "word"
            BY <2>2, <3>1 DEF Plain
          <5> QED
            BY <5>1, <5>2 DEF Replacing
        <4> HIDE DEF g
        <4> QED
          BY <4>1 DEF Range
      <3> HIDE DEF g, h
      <3>4. Mapped(g, v) = v
        BY <1>1, <3>3, MappedToItself
      <3>5. Filler(s, st, D \cup {n})[y] = v
        BY <2>2, <3>1 DEF Filler
      <3> QED
        BY <3>2, <3>4, <3>5
    <2>3. CASE ~(y.is = "open" /\ y.name \in D)
      <3>1. h[y] = <<y>>
        BY <2>3 DEF Filler
      <3>2. g[y] = Filler(s, st, D \cup {n})[y]
        BY <2>3 DEF Filler, Replacing
      <3> HIDE DEF g, h
      <3>3. Mapped(g, <<y>>) = g[y]
        BY <1>1, MappedOne
      <3> QED
        BY <3>1, <3>2, <3>3
    <2> QED
      BY <2>2, <2>3
  <1>5. Filler(s, st, D \cup {n}) \in [Token -> Seq(Token)]
    BY FillerType
  <1> HIDE DEF g, h
  <1>6. Mapped(g, Mapped(h, t)) = Mapped(Filler(s, st, D \cup {n}), t)
    <2>1. \A y \in Token : Filler(s, st, D \cup {n})[y] = Mapped(g, h[y])
      BY <1>4
    <2>2. Maps(h, Token, Token) /\ Maps(g, Token, Token) /\ Maps(Filler(s, st, D \cup {n}), Token, Token)
      BY <1>1, <1>5 DEF Maps
    <2>3. PICK gh : gh = Filler(s, st, D \cup {n})
      OBVIOUS
    <2>4. Maps(gh, Token, Token) /\ \A y \in Token : gh[y] = Mapped(g, h[y])
      BY <2>1, <2>2, <2>3
    <2>5. \A u \in Seq(Token) : Mapped(g, Mapped(h, u)) = Mapped(gh, u)
      BY <2>2, <2>4, MappedTwice
    <2> QED
      BY <2>3, <2>5
  <1> QED
    BY <1>2, <1>3, <1>6 DEF Filled

\* A template none of whose placeholders was filled in is itself.
LEMMA NothingFilled ==
  ASSUME NEW t \in Seq(Token), NEW s, NEW st
  PROVE  Filled(t, s, st, {}) = t
  <1>1. Filler(s, st, {}) \in [Token -> Seq(Token)]
    BY FillerType
  <1>2. \A p \in Token : Filler(s, st, {})[p] = <<p>>
    BY DEF Filler
  <1>3. \A k \in DOMAIN t : t[k] \in Token
    BY LenProperties, ElementOfSeq
  <1>4. \A p \in Range(t) : Filler(s, st, {})[p] = <<p>>
    BY <1>2, <1>3 DEF Range
  <1> QED
    BY <1>1, <1>4, MappedToItself DEF Filled

\* A step that is executed goes on as the same step, under the same verdict.
LEMMA GoesOn ==
  ASSUME VInv, Executing, SameStep, UNCHANGED checked,
         at' \in {"operation", "build", "returned"} \cup Parts,
         outcome' # None => at' = "returned"
  PROVE  Progress' /\ (\A e \in errors' : Deserved(e)') /\ Reported'
  <1>1. ~Validating /\ ~Validating'
    BY DEF Validating, Executing, Parts
  <1>2. UNCHANGED <<command, checked>>
    BY DEF SameStep
  <1>3. Progress'
    <2>1. /\ TheStep' = TheStep /\ spec' = spec /\ store' = store /\ env' = env /\ scenarios' = scenarios
          /\ scn' = scn /\ stp' = stp
      BY SameStepSame
    <2>2. at' \notin {"env", "spec", "scenario"} /\ at' \in Stages
      BY <1>1 DEF Validating, Stages
    <2> QED
      BY <2>1, <2>2 DEF VInv, Progress
  <1> QED
    BY <1>1, <1>2, <1>3, VerdictKept

LEMMA RefusalKeeps ==
  ASSUME VInv, Executing, Refuse,
         \/ TheStep.operation \notin DOMAIN spec
         \/ ~ErrorFree(TheStep, store, DOMAIN Fields(TheStep))
         \/ Built /\ HasBrace(path)
  PROVE  VInv'
  <1>1. SameStep /\ UNCHANGED checked /\ path' = path /\ at' = "returned" /\ outcome' = "refused"
    BY DEF Refuse, SameStep
  <1>2. TheStep' = TheStep /\ spec' = spec /\ store' = store
    BY <1>1, SameStepSame
  <1>3. Built => Built'
    BY <1>1, <1>2 DEF Built
  <1>4. Explained'
    BY <1>1, <1>2, <1>3, OutcomeAssumption DEF Explained
  <1>5. Filling'
    BY <1>1 DEF Filling, Parts
  <1> QED
    BY <1>1, <1>4, <1>5, GoesOn DEF VInv

LEMMA RefuseOperationKeeps ==
  ASSUME VInv, RefuseOperation
  PROVE  VInv'
  BY RefusalKeeps DEF RefuseOperation, Executing

LEMMA RefuseFieldKeeps ==
  ASSUME VInv, RefuseField
  PROVE  VInv'
  <1>1. at \in Parts /\ Refuse
    BY DEF RefuseField
  <1>2. PICK f \in left : ResolveError(Fields(TheStep)[f], store) # None
    BY DEF RefuseField
  <1>3. f \in DOMAIN Fields(TheStep)
    BY <1>1 DEF VInv, Filling, FieldsOf
  <1>4. ~ErrorFree(TheStep, store, DOMAIN Fields(TheStep))
    BY <1>2, <1>3 DEF ErrorFree
  <1> QED
    BY <1>1, <1>4, RefusalKeeps DEF Executing

\* At the end the whole request was filled in.
LEMMA BuiltAtTheEnd ==
  ASSUME VInv, at = "build"
  PROVE  Built
  <1>1. IsStep(TheStep)
    BY RequestIs DEF Executing
  <1>2. \A f \in DOMAIN Fields(TheStep) : f[1] \in Parts /\ f[1] # "build"
    BY <1>1, FieldsAre DEF Parts
  <1>3. left = {}
    BY <1>2 DEF VInv, Filling, FieldsOf
  <1>4. Done(TheStep, at, left) = DOMAIN Fields(TheStep)
    BY <1>2, <1>3 DEF Done, PartsUpTo
  <1>5. FilledNames(TheStep, at, left) = DOMAIN TheStep.path
    BY DEF FilledNames
  <1> QED
    BY <1>4, <1>5 DEF VInv, Filling, Built

LEMMA RefusePathKeeps ==
  ASSUME VInv, RefusePath
  PROVE  VInv'
  BY BuiltAtTheEnd, RefusalKeeps DEF RefusePath, Executing

LEMMA SendKeeps ==
  ASSUME VInv, Send
  PROVE  VInv'
  <1>1. /\ SameStep /\ UNCHANGED checked /\ path' = path /\ at = "build" /\ at' = "returned" /\ outcome' = "sent"
        /\ ~HasBrace(path)
    BY DEF Send, SameStep
  <1>2. TheStep' = TheStep /\ spec' = spec /\ store' = store
    BY <1>1, SameStepSame
  <1>3. Built
    BY <1>1, BuiltAtTheEnd
  <1>4. Built'
    BY <1>1, <1>2, <1>3 DEF Built
  <1>5. Explained'
    BY <1>1, <1>4, OutcomeAssumption DEF Explained
  <1>6. Filling'
    BY <1>1 DEF Filling, Parts
  <1> QED
    BY <1>1, <1>5, <1>6, GoesOn DEF VInv, Executing

LEMMA FindOperationKeeps ==
  ASSUME VInv, FindOperation
  PROVE  VInv'
  <1>1. /\ SameStep /\ UNCHANGED <<checked, outcome>> /\ at = "operation" /\ at' = "path"
        /\ TheStep.operation \in DOMAIN spec /\ path' = spec[TheStep.operation] /\ left' = FieldsOf("path")
    BY DEF FindOperation, SameStep
  <1>2. TheStep' = TheStep /\ spec' = spec /\ store' = store /\ outcome' = None
    BY <1>1, SameStepSame DEF VInv, Progress
  <1>3. IsStep(TheStep) /\ spec[TheStep.operation] \in Seq(Token)
    BY <1>1, RequestIs DEF Executing
  <1>4. left' \subseteq FieldsOf(at)'
    BY <1>1, <1>2 DEF FieldsOf
  <1>5. Done(TheStep, "path", FieldsOf("path")) = {}
    BY DEF Done, PartsUpTo, FieldsOf
  <1>6. FilledNames(TheStep, "path", FieldsOf("path")) = {}
    <2>1. ASSUME NEW n \in DOMAIN TheStep.path PROVE <<"path", n>> \in FieldsOf("path")
      <3>1. <<"path", n>> \in DOMAIN Fields(TheStep)
        BY <1>3, FieldsAre
      <3>2. <<"path", n>>[1] = "path"
        OBVIOUS
      <3> QED
        BY <3>1, <3>2 DEF FieldsOf
    <2> QED
      BY <2>1 DEF FilledNames
  <1>7. Filled(spec[TheStep.operation], TheStep, store, {}) = spec[TheStep.operation]
    BY <1>3, NothingFilled
  <1>8. Filling'
    <2>1. ErrorFree(TheStep, store, {})
      BY DEF ErrorFree
    <2>2. path' \in Values
      BY <1>1, <1>3, TextTypes
    <2>3. Done(TheStep', at', left') = {} /\ FilledNames(TheStep', at', left') = {}
      BY <1>1, <1>2, <1>5, <1>6
    <2> QED
      BY <1>1, <1>2, <1>4, <1>7, <2>1, <2>2, <2>3 DEF Filling, FieldsOf
  <1>9. Explained'
    BY <1>2, OutcomeAssumption DEF Explained
  <1>10. at' \in {"operation", "build", "returned"} \cup Parts
    BY <1>1 DEF Parts
  <1> QED
    BY <1>1, <1>2, <1>8, <1>9, <1>10, GoesOn DEF VInv, Executing

LEMMA ResolveFieldKeeps ==
  ASSUME VInv, ResolveField
  PROVE  VInv'
  <1>1. /\ SameStep /\ UNCHANGED <<checked, outcome>> /\ at \in Parts /\ at' = at
    BY DEF ResolveField, SameStep
  <1>2. PICK f \in left :
          /\ ResolveError(Fields(TheStep)[f], store) = None
          /\ left' = left \ {f}
          /\ path' = IF at = "path" THEN FillPath(f[2], Resolved(Fields(TheStep)[f], store)) ELSE path
    BY DEF ResolveField
  <1>3. TheStep' = TheStep /\ spec' = spec /\ store' = store /\ outcome' = None
    BY <1>1, SameStepSame DEF VInv, Progress, Parts
  <1>4. IsStep(TheStep) /\ IsStore(store) /\ f \in DOMAIN Fields(TheStep) /\ f[1] = at
        /\ TheStep.operation \in DOMAIN spec /\ spec[TheStep.operation] \in Seq(Token)
    BY <1>1, <1>2, RequestIs DEF Executing, VInv, Filling, FieldsOf
  <1>5. Fields(TheStep)[f] \in Texts /\ path \in Values
    BY <1>1, <1>4, FieldsAre DEF VInv, Filling
  <1>6. left' \subseteq FieldsOf(at)'
    BY <1>1, <1>2, <1>3 DEF VInv, Filling, FieldsOf
  <1>7. ErrorFree(TheStep', store', Done(TheStep', at', left'))
    <2>1. Done(TheStep, at, left \ {f}) \subseteq Done(TheStep, at, left) \cup {f}
      BY DEF Done
    <2>2. ErrorFree(TheStep, store, Done(TheStep, at, left))
      BY <1>1 DEF VInv, Filling
    <2>3. ErrorFree(TheStep, store, Done(TheStep, at, left \ {f}))
      BY <1>2, <2>1, <2>2 DEF ErrorFree
    <2> QED
      BY <1>1, <1>2, <1>3, <2>3
  <1>8. /\ path' \in Values
        /\ PlainPaths(TheStep, store) =>
             path' = Filled(spec[TheStep.operation], TheStep, store, FilledNames(TheStep, at, left'))
    <2>1. CASE at # "path"
      <3>1. FilledNames(TheStep, at, left') = FilledNames(TheStep, at, left)
        BY <2>1 DEF FilledNames
      <3> QED
        BY <1>1, <1>2, <2>1, <3>1 DEF VInv, Filling
    <2>2. CASE at = "path"
      <3> DEFINE n == f[2]
                 D == FilledNames(TheStep, at, left)
      <3>1. n \in DOMAIN TheStep.path /\ f = <<"path", n>> /\ Fields(TheStep)[f] = TheStep.path[n]
        BY <1>4, <2>2, FieldsAre
      <3>2. Resolved(Fields(TheStep)[f], store) = ValueFor(TheStep, store, n)
        BY <3>1 DEF ValueFor
      <3>3. ValueFor(TheStep, store, n) \in Values
        BY <1>2, <1>4, <1>5, <3>2, ResolvedIs
      <3>4. path' = FillPath(n, ValueFor(TheStep, store, n))
        BY <1>2, <2>2, <3>2
      <3>5. path' \in Values
        BY <1>5, <3>3, <3>4, FillPathIs
      <3>6. FilledNames(TheStep, at, left') = D \cup {n}
        <4>1. \A m : <<"path", m>> = f => m = n
          BY <3>1
        <4> QED
          BY <1>2, <2>2, <3>1, <4>1 DEF FilledNames
      <3>7. ASSUME PlainPaths(TheStep, store)
            PROVE  path' = Filled(spec[TheStep.operation], TheStep, store, D \cup {n})
        <4>1. path = Filled(spec[TheStep.operation], TheStep, store, D)
          BY <1>1, <3>7 DEF VInv, Filling
        <4>2. D \cup {n} \subseteq DOMAIN TheStep.path
          BY <3>1 DEF FilledNames
        <4>3. ASSUME NEW m \in DOMAIN TheStep.path
              PROVE  ValueFor(TheStep, store, m) \in Values /\ Plain(ValueFor(TheStep, store, m))
          <5>1. ResolveError(TheStep.path[m], store) = None /\ Plain(ValueFor(TheStep, store, m))
            BY <3>7 DEF PlainPaths
          <5>2. TheStep.path[m] \in Texts
            BY <1>4 DEF IsStep
          <5> QED
            BY <1>4, <5>1, <5>2, ResolvedIs DEF ValueFor
        <4> HIDE DEF D, n
        <4> QED
          BY <1>4, <1>5, <3>4, <4>1, <4>2, <4>3, OneMoreFilled
      <3> QED
        BY <3>5, <3>6, <3>7
    <2> QED
      BY <2>1, <2>2
  <1>9. Filling'
    BY <1>1, <1>3, <1>4, <1>6, <1>7, <1>8 DEF Filling
  <1>10. Explained'
    BY <1>3, OutcomeAssumption DEF Explained
  <1>11. Executing /\ at' \in {"operation", "build", "returned"} \cup Parts
    BY <1>1 DEF Executing
  <1> QED
    BY <1>1, <1>3, <1>9, <1>10, <1>11, GoesOn DEF VInv

LEMMA NextPartKeeps ==
  ASSUME VInv, NextPart
  PROVE  VInv'
  <1>1. /\ SameStep /\ UNCHANGED <<checked, path, outcome>> /\ at \in Parts /\ left = {}
        /\ left' = IF at' = "build" THEN {} ELSE FieldsOf(at')
        /\ at' = CASE at = "path" -> "query" [] at = "query" -> "headers"
                   [] at = "headers" -> "body" [] at = "body" -> "build"
    BY DEF NextPart, SameStep
  <1>2. TheStep' = TheStep /\ spec' = spec /\ store' = store /\ outcome' = None
    BY <1>1, SameStepSame DEF VInv, Progress, Parts
  <1>3. at' \in {"query", "headers", "body", "build"}
    BY <1>1 DEF Parts
  <1>4. IsStep(TheStep)
    BY <1>1, RequestIs DEF Executing
  <1>5. \A f \in DOMAIN Fields(TheStep) : f[1] \in Parts
    BY <1>4, FieldsAre
  <1>6. left' \subseteq FieldsOf(at)'
    BY <1>1, <1>2 DEF FieldsOf
  <1>7. Done(TheStep, at', left') \subseteq Done(TheStep, at, left)
    <2>1. ASSUME NEW f \in DOMAIN Fields(TheStep), f[1] \in PartsUpTo(at'), f \notin left'
          PROVE  f[1] \in PartsUpTo(at)
      <3>1. at' # "build" => f[1] # at'
        BY <1>1, <2>1 DEF FieldsOf
      <3>2. f[1] \in Parts
        BY <1>5
      <3> QED
        BY <1>1, <2>1, <3>1, <3>2 DEF PartsUpTo, Parts
    <2> QED
      BY <1>1, <2>1 DEF Done
  <1>8. FilledNames(TheStep, at', left') = FilledNames(TheStep, at, left)
    BY <1>1, <1>3 DEF FilledNames
  <1>9. Filling'
    <2>1. /\ TheStep.operation \in DOMAIN spec /\ path \in Values
          /\ ErrorFree(TheStep, store, Done(TheStep, at, left))
          /\ PlainPaths(TheStep, store) =>
               path = Filled(spec[TheStep.operation], TheStep, store, FilledNames(TheStep, at, left))
      BY <1>1 DEF VInv, Filling
    <2>2. ErrorFree(TheStep, store, Done(TheStep, at', left'))
      BY <1>7, <2>1 DEF ErrorFree
    <2> QED
      BY <1>1, <1>2, <1>6, <1>8, <2>1, <2>2 DEF Filling
  <1>10. Explained'
    BY <1>2, OutcomeAssumption DEF Explained
  <1>11. Executing /\ at' \in {"operation", "build", "returned"} \cup Parts
    BY <1>1, <1>3 DEF Executing, Parts
  <1> QED
    BY <1>1, <1>2, <1>9, <1>10, <1>11, GoesOn DEF VInv

LEMMA StutterKeeps ==
  ASSUME VInv, UNCHANGED vars
  PROVE  VInv'
  <1>1. env' = env /\ spec' = spec /\ scenarios' = scenarios /\ at' = at /\ scn' = scn /\ stp' = stp
        /\ errors' = errors /\ exit' = exit /\ store' = store /\ left' = left /\ path' = path /\ outcome' = outcome
    BY DEF vars, command, checked, request
  <1>2. TheStep' = TheStep
    BY <1>1 DEF TheStep
  <1>3. Progress'
    BY <1>1, <1>2 DEF VInv, Progress, Executing
  <1>4. (\A e \in errors' : Deserved(e)') /\ Reported'
    BY <1>1 DEF VInv, Deserved, Reported, LookedAt, SeenStep, Validating
  <1>5. Filling' /\ Explained'
    BY <1>1, <1>2 DEF VInv, Filling, FieldsOf, Explained, Built
  <1> QED
    BY <1>3, <1>4, <1>5 DEF VInv

LEMMA VInvHolds == Spec => []VInv
  <1>1. Init => VInv
    BY Initially
  <1>2. VInv /\ [Next]_vars => VInv'
    <2> SUFFICES ASSUME VInv, [Next]_vars PROVE VInv'
      OBVIOUS
    <2>1. CASE Validate
      BY <2>1, RefuseNoScenarioKeeps, CheckEnvKeeps, CheckSpecKeeps, RejectScenarioKeeps, CheckStepKeeps,
         NextScenarioKeeps, ExitKeeps DEF Validate
    <2>2. CASE StartStep
      BY <2>2, StartStepKeeps
    <2>3. CASE ExecuteStep
      BY <2>3, RefuseOperationKeeps, FindOperationKeeps, RefuseFieldKeeps, ResolveFieldKeeps, NextPartKeeps,
         RefusePathKeeps, SendKeeps DEF ExecuteStep
    <2>4. CASE Returned \/ UNCHANGED vars
      BY <2>4, StutterKeeps DEF Returned
    <2> QED
      BY <2>1, <2>2, <2>3, <2>4 DEF Next
  <1> QED
    BY <1>1, <1>2, PTL DEF Spec

-----------------------------------------------------------------------------
(* What follows from it                                                    *)

\* The verdict names each input that does not load and no other, and is 0 only
\* where no field of any step is at fault.
LEMMA ReportIsExact ==
  ASSUME VInv
  PROVE  EveryFaultIsReported
  <1> SUFFICES ASSUME at = "exited", scenarios # <<>> PROVE EveryFaultIsReported
    BY DEF EveryFaultIsReported
  <1>1. ~Validating /\ Reported /\ \A e \in errors : Deserved(e)
    BY DEF VInv, Validating
  <1>2. \A i : LookedAt(i) /\ \A k : SeenStep(i, k)
    BY <1>1 DEF LookedAt, SeenStep
  <1>3. ASSUME NEW e \in errors, e[1] # "field" PROVE e \in Faults
    <2>1. CASE e = <<"env">> /\ ~env
      <3>1. env \in {env} \ {TRUE}
        BY <2>1
      <3> QED
        BY <2>1, <3>1 DEF Faults
    <2>2. CASE e = <<"spec">> /\ spec = Broken
      BY <2>2 DEF Faults
    <2>3. CASE \E i \in DOMAIN scenarios : scenarios[i] = Broken /\ e = <<"scenario", i>>
      BY <2>3 DEF Faults
    <2>4. ~\E i, k, f : e = <<"field", i, k, f>>
      BY <1>3
    <2> QED
      BY <1>1, <2>1, <2>2, <2>3, <2>4 DEF Deserved
  <1>4. ASSUME NEW e \in Faults PROVE e \in errors /\ e[1] # "field"
    <2>1. CASE e \in {<<"env">> : x \in {env} \ {TRUE}}
      <3>1. e = <<"env">> /\ env # TRUE
        BY <2>1
      <3>2. ~env
        BY <3>1
      <3>3. <<"env">> \in errors
        BY <1>1, <3>2 DEF Reported
      <3> QED
        BY <3>1, <3>3
    <2>2. CASE e \in {<<"spec">> : x \in {spec} \cap {Broken}}
      BY <1>1, <2>2 DEF Reported
    <2>3. CASE e \in {<<"scenario", i>> : i \in {j \in DOMAIN scenarios : scenarios[j] = Broken}}
      BY <1>1, <1>2, <2>3 DEF Reported
    <2> QED
      BY <2>1, <2>2, <2>3 DEF Faults
  <1>5. {e \in errors : e[1] # "field"} = Faults
    BY <1>3, <1>4
  <1>6. ASSUME exit = 0, NEW i \in DOMAIN scenarios, NEW k \in DOMAIN scenarios[i],
               NEW f \in DOMAIN Fields(scenarios[i][k])
        PROVE  ~RejectsField(scenarios[i][k], Fields(scenarios[i][k])[f])
    <2>1. errors = {}
      BY <1>1, <1>6 DEF Reported
    <2>2. scenarios[i] # Broken
      BY <1>1, <1>2, <2>1 DEF Reported
    <2> QED
      BY <1>1, <1>2, <2>1, <2>2, <1>6 DEF Reported
  <1> QED
    BY <1>5, <1>6 DEF EveryFaultIsReported

\* validate (validate.go:55) collects every fault and stops at none: each input
\* that does not load is reported, no other is, and an exit code of 0 means that
\* no field of any step of any scenario is at fault.
THEOREM EveryFault == Spec => []EveryFaultIsReported
  BY VInvHolds, ReportIsExact, PTL

\* A sent step has its request.
LEMMA SentIsBuilt ==
  ASSUME VInv, outcome = "sent"
  PROVE  /\ Built /\ ~HasBrace(path) /\ Executing
         /\ IsStep(TheStep) /\ IsStore(store) /\ spec[TheStep.operation] \in Seq(Token)
  <1>1. Built /\ ~HasBrace(path)
    BY OutcomeAssumption DEF VInv, Explained
  <1>2. Executing
    BY OutcomeAssumption DEF VInv, Progress, Executing
  <1> QED
    BY <1>1, <1>2, RequestIs DEF Built

\* What was rejected is rejected for what a text holds, with no variables.
LEMMA RejectedField ==
  ASSUME VInv, Executing, NEW f \in DOMAIN Fields(TheStep)
  PROVE  <<"field", scn, stp, f>> \in errors <=> RejectsField(TheStep, Fields(TheStep)[f])
  <1>1. /\ scn \in DOMAIN scenarios /\ scenarios[scn] # Broken /\ stp \in DOMAIN scenarios[scn]
        /\ \A e \in errors : Deserved(e)
    BY DEF VInv, Progress
  <1>2. scenarios # <<>> /\ Reported
    BY <1>1 DEF VInv
  <1>3. ASSUME <<"field", scn, stp, f>> \in errors PROVE RejectsField(TheStep, Fields(TheStep)[f])
    <2>1. PICK e : e = <<"field", scn, stp, f>>
      OBVIOUS
    <2>2. e[1] = "field" /\ e[2] = scn /\ e[3] = stp /\ e[4] = f
      BY <2>1
    <2>3. Deserved(e)
      BY <1>1, <1>3, <2>1
    <2>4. e # <<"env">> /\ e # <<"spec">> /\ \A i : e # <<"scenario", i>>
      BY <2>2
    <2>5. \A i, k, g : e = <<"field", i, k, g>> => i = scn /\ k = stp /\ g = f
      BY <2>2
    <2> QED
      BY <2>3, <2>4, <2>5 DEF Deserved, TheStep
  <1>4. ASSUME RejectsField(TheStep, Fields(TheStep)[f]) PROVE <<"field", scn, stp, f>> \in errors
    <2>1. SeenStep(scn, stp)
      BY DEF SeenStep, LookedAt, Executing, Validating, Parts
    <2> QED
      BY <1>1, <1>2, <1>4, <2>1 DEF Reported, TheStep
  <1> QED
    BY <1>3, <1>4

\* An error validate finds without any variable is there with any, except that
\* of a date.
LEMMA RejectedIsNotSent ==
  ASSUME VInv
  PROVE  RejectedStepsAreNeverSent
  <1> SUFFICES ASSUME outcome = "sent", Rejected PROVE CallsAddDays
    BY DEF RejectedStepsAreNeverSent
  <1>1. Built /\ Executing /\ IsStep(TheStep)
    BY SentIsBuilt
  <1>2. PICK f \in DOMAIN Fields(TheStep) : <<"field", scn, stp, f>> \in errors
    BY DEF Rejected
  <1>3. PICK text \in Texts : text = Fields(TheStep)[f]
    BY <1>1, FieldsAre
  <1>4. TemplateError(text, EmptyStore) \notin {None, "missing"}
    BY <1>1, <1>2, <1>3, RejectedField DEF RejectsField
  <1>5. PICK k \in CallsIn(text) : TemplateError(text, EmptyStore) \in Range(CallErrors(text[k], EmptyStore))
    BY <1>4, ErrorHasItsCall
  <1>6. TemplateError(text, store) = None
    BY <1>1, <1>3 DEF Built, ErrorFree, ResolveError
  <1>7. CallErrors(text[k], store) = <<>>
    BY <1>6, NoErrorNoCall
  <1>8. text[k] \in CallPart
    BY PartsOfText DEF CallsIn
  <1>9. text[k].name = "addDays"
    BY <1>4, <1>5, <1>7, <1>8, ErrorsStay
  <1>10. text \in AllFields
    BY <1>3 DEF AllFields, Range
  <1> QED
    BY <1>9, <1>10 DEF CallsAddDays

\* What validate rejects is never sent, whatever the variables are and however
\* the fields are taken, except a step that calls addDays.
THEOREM RejectedNeverSent == Spec => []RejectedStepsAreNeverSent
  BY VInvHolds, RejectedIsNotSent, PTL

\* What is left of a template in the path: the parts that are not placeholders
\* of D, and what was given for those.
LEMMA FilledHolds ==
  ASSUME NEW t \in Seq(Token), NEW s, NEW st, NEW D, \A n \in D : ValueFor(s, st, n) \in Values
  PROVE  /\ \A q \in Range(t) : ~(q.is = "open" /\ q.name \in D) => q \in Range(Filled(t, s, st, D))
         /\ \A q \in Range(Filled(t, s, st, D)) :
              \/ q \in Range(t) /\ ~(q.is = "open" /\ q.name \in D)
              \/ \E n \in D : q \in Range(ValueFor(s, st, n))
  <1> DEFINE h == Filler(s, st, D)
  <1>1. h \in [Token -> Seq(Token)]
    BY FillerType
  <1>2. \A p \in Token : h[p] = IF p.is = "open" /\ p.name \in D THEN ValueFor(s, st, p.name) ELSE <<p>>
    BY DEF Filler
  <1> HIDE DEF h
  <1>3. \A q : q \in Range(Mapped(h, t)) <=> \E x \in Range(t) : q \in Range(h[x])
    BY <1>1, MappedHolds
  <1>4. \A q \in Range(t) : q \in Token
    BY LenProperties, ElementOfSeq DEF Range
  <1>5. \A y : Range(<<y>>) = {y}
    BY DEF Range
  <1>6. Filled(t, s, st, D) = Mapped(h, t)
    BY DEF Filled, h
  <1>7. ASSUME NEW q \in Range(t), ~(q.is = "open" /\ q.name \in D) PROVE q \in Range(Mapped(h, t))
    <2>1. h[q] = <<q>>
      BY <1>2, <1>4, <1>7
    <2>2. q \in Range(h[q])
      BY <1>5, <2>1
    <2> QED
      BY <1>3, <2>2
  <1>8. ASSUME NEW q \in Range(Mapped(h, t))
        PROVE  \/ q \in Range(t) /\ ~(q.is = "open" /\ q.name \in D)
               \/ \E n \in D : q \in Range(ValueFor(s, st, n))
    <2>1. PICK x \in Range(t) : q \in Range(h[x])
      BY <1>3
    <2>2. CASE x.is = "open" /\ x.name \in D
      BY <1>2, <1>4, <2>1, <2>2
    <2>3. CASE ~(x.is = "open" /\ x.name \in D)
      <3>1. h[x] = <<x>>
        BY <1>2, <1>4, <2>3
      <3>2. q = x
        BY <1>5, <2>1, <3>1
      <3> QED
        BY <2>3, <3>2
    <2> QED
      BY <2>2, <2>3
  <1> QED
    BY <1>6, <1>7, <1>8

\* What the step gives for its placeholders, where it gives it without an error.
LEMMA ValuesForPath ==
  ASSUME VInv, Executing, ErrorFree(TheStep, store, DOMAIN Fields(TheStep))
  PROVE  \A n \in DOMAIN TheStep.path :
           /\ TheStep.path[n] \in Texts /\ TheStep.path[n] \in AllFields
           /\ ResolveError(TheStep.path[n], store) = None
           /\ ValueFor(TheStep, store, n) \in Values
  <1>1. IsStep(TheStep) /\ IsStore(store)
    BY RequestIs
  <1>2. ASSUME NEW n \in DOMAIN TheStep.path
        PROVE  /\ TheStep.path[n] \in Texts /\ TheStep.path[n] \in AllFields
               /\ ResolveError(TheStep.path[n], store) = None
               /\ ValueFor(TheStep, store, n) \in Values
    <2>1. <<"path", n>> \in DOMAIN Fields(TheStep) /\ Fields(TheStep)[<<"path", n>>] = TheStep.path[n]
      BY <1>1, FieldsAre
    <2>2. TheStep.path[n] \in Texts
      BY <1>1, <2>1, FieldsAre
    <2>3. ResolveError(TheStep.path[n], store) = None
      BY <2>1 DEF ErrorFree
    <2>4. TheStep.path[n] \in AllFields
      BY <2>1 DEF AllFields, Range
    <2> QED
      BY <1>1, <2>2, <2>3, <2>4, ResolvedIs DEF ValueFor
  <1> QED
    BY <1>2

\* Of a sent step every placeholder has its value, in its place.
LEMMA SentIsFilledIn ==
  ASSUME VInv
  PROVE  PathsAreFilledIn
  <1> SUFFICES ASSUME outcome = "sent" PROVE PathsAreFilledIn
    BY DEF PathsAreFilledIn
  <1>1. Built /\ ~HasBrace(path) /\ Executing /\ spec[TheStep.operation] \in Seq(Token)
    BY SentIsBuilt
  <1>2. Plain(path)
    BY <1>1 DEF HasBrace, Plain
  <1>3. ASSUME \A n \in DOMAIN TheStep.path : Plain(Resolved(TheStep.path[n], store)) PROVE path = Expected
    <2> DEFINE t == spec[TheStep.operation]
               D == DOMAIN TheStep.path
    <2>1. \A n \in D : ResolveError(TheStep.path[n], store) = None /\ ValueFor(TheStep, store, n) \in Values
      BY <1>1, ValuesForPath DEF Built
    <2>2. path = Filled(t, TheStep, store, D)
      <3>1. PlainPaths(TheStep, store)
        BY <1>3, <2>1 DEF PlainPaths, ValueFor
      <3> QED
        BY <1>1, <3>1 DEF Built
    <2>3. ASSUME NEW k \in DOMAIN t, t[k].is = "open" PROVE t[k].name \in D
      <3> SUFFICES ASSUME t[k].name \notin D PROVE FALSE
        OBVIOUS
      <3>1. PICK q \in Range(t) : q = t[k]
        BY DEF Range
      <3> HIDE DEF t, D
      <3>2. q \in Range(Filled(t, TheStep, store, D))
        BY <1>1, <2>1, <3>1, FilledHolds DEF t
      <3>3. \A p \in Range(path) : p.is = "word"
        BY <1>2 DEF Plain, Range
      <3> QED
        BY <2>2, <2>3, <3>1, <3>2, <3>3
    <2>4. \A k \in DOMAIN t : t[k] \in Token
      BY <1>1, LenProperties, ElementOfSeq
    <2>5. [k \in DOMAIN t |-> Filler(TheStep, store, D)[t[k]]]
          = [k \in DOMAIN t |-> IF t[k].is = "open" THEN Resolved(TheStep.path[t[k].name], store) ELSE <<t[k]>>]
      <3>1. ASSUME NEW k \in DOMAIN t
            PROVE  Filler(TheStep, store, D)[t[k]]
                   = IF t[k].is = "open" THEN Resolved(TheStep.path[t[k].name], store) ELSE <<t[k]>>
        <4> HIDE DEF t, D
        <4> QED
          BY <2>3, <2>4 DEF Filler, ValueFor
      <3> HIDE DEF t, D
      <3> QED
        BY <3>1
    <2> QED
      BY <2>2, <2>5 DEF Expected, Replaced, Filled, Mapped
  <1> QED
    BY <1>2, <1>3 DEF PathsAreFilledIn

\* No request is sent with a placeholder left open; and although the placeholders
\* are taken in the order of a Go map, each over the result of the last, the path
\* is what the step says it is, where no value spells a placeholder.
THEOREM PathsFilledIn == Spec => []PathsAreFilledIn
  BY VInvHolds, SentIsFilledIn, PTL

\* With the variables it mentions, and words in them, an accepted text has no
\* error of a call, unless one hides another.
LEMMA AcceptedHasNoError ==
  ASSUME VInv, Executing, Provided, ~Rejected, ~MayHide, NEW f \in DOMAIN Fields(TheStep)
  PROVE  TemplateError(Fields(TheStep)[f], store) = None
  <1> SUFFICES ASSUME TemplateError(Fields(TheStep)[f], store) # None PROVE FALSE
    OBVIOUS
  <1>1. PICK text \in Texts : text = Fields(TheStep)[f]
    BY RequestIs, FieldsAre
  <1>2. text \in AllFields
    BY <1>1 DEF AllFields, Range
  <1>3. PICK k \in CallsIn(text) : TemplateError(text, store) \in Range(CallErrors(text[k], store))
    BY <1>1, ErrorHasItsCall
  <1>4. k \in DOMAIN text /\ text[k].is = "call" /\ text[k] \in CallPart
    BY PartsOfText DEF CallsIn
  <1>5. CallErrors(text[k], store) # <<>>
    BY <1>3 DEF Range
  <1>6. ~Misses(text[k], store)
    <2>1. text[k].args # <<>> => text[k].args[1] \in Mentioned(text)
      BY <1>4 DEF Mentioned
    <2> QED
      BY <1>2, <2>1 DEF Provided, Misses
  <1>7. LastError(CallErrors(text[k], EmptyStore)) \in Errors \ {"missing"}
    BY <1>4, <1>5, <1>6, ErrorsShow
  <1>8. \A j \in CallsIn(text) : j = k
    BY <1>2 DEF MayHide
  <1>9. TemplateError(text, EmptyStore) \in Errors \ {"missing"}
    BY <1>7, <1>8, ErrorOfOneCall
  <1>10. RejectsField(TheStep, text)
    BY <1>9, NoneAssumption DEF RejectsField, MayHide
  <1>11. <<"field", scn, stp, f>> \in errors
    BY <1>1, <1>10, RejectedField
  <1> QED
    BY <1>11 DEF Rejected

\* And resolves to words, but for the placeholders it holds itself.
LEMMA ProvidedIsPlain ==
  ASSUME VInv, Executing, Provided, NEW text \in Texts, text \in AllFields, TemplateError(text, store) = None
  PROVE  /\ SubstituteError(Called(text, store), store) = None
         /\ (\A k \in DOMAIN text : text[k].is # "open") => Plain(Resolved(text, store))
  <1>1. IsStore(store)
    BY RequestIs
  <1>2. \A n \in Mentioned(text) : n \in DOMAIN store /\ Plain(store[n])
    BY DEF Provided
  <1>3. PICK v \in Values : v = Called(text, store)
    BY <1>1, CalledIs
  <1>4. ASSUME NEW k \in CallsIn(text) PROVE Plain(CallResult(text[k], store))
    <2>1. k \in DOMAIN text /\ text[k].is = "call" /\ text[k] \in CallPart
      BY PartsOfText DEF CallsIn
    <2>2. text[k].args # <<>> => text[k].args[1] \in Mentioned(text)
      BY <2>1 DEF Mentioned
    <2>3. CallErrors(text[k], store) = <<>>
      BY NoErrorNoCall
    <2> QED
      BY <1>1, <1>2, <2>1, <2>2, <2>3, ResultOfCall
  <1>5. ASSUME NEW q \in Range(v)
        PROVE  q.is = "word" \/ \E j \in DOMAIN text : q = text[j]
    <2>1. CASE q \in Range(text)
      BY <2>1 DEF Range
    <2>2. CASE \E k \in CallsIn(text) : q \in Range(CallResult(text[k], store))
      BY <1>4, <2>2 DEF Plain, Range
    <2> QED
      BY <1>1, <1>3, <2>1, <2>2, CalledIs
  <1>6. \A k \in DOMAIN v : v[k].is = "ref" => v[k].name \in DOMAIN store /\ Plain(store[v[k].name])
    <2>1. ASSUME NEW k \in DOMAIN v, v[k].is = "ref" PROVE v[k].name \in Mentioned(text)
      <3>1. PICK q \in Range(v) : q = v[k]
        BY DEF Range
      <3>2. PICK j \in DOMAIN text : q = text[j]
        BY <1>5, <2>1, <3>1
      <3> QED
        BY <2>1, <3>1, <3>2 DEF Mentioned
    <2> QED
      BY <1>2, <2>1
  <1>7. SubstituteError(v, store) = None
    BY <1>6 DEF SubstituteError
  <1>8. ASSUME \A k \in DOMAIN text : text[k].is # "open" PROVE Plain(Substituted(v, store))
    <2>1. ASSUME NEW q \in Range(Substituted(v, store)) PROVE q.is = "word"
      <3>1. CASE q \in Range(v) /\ q.is # "ref"
        <4>1. PICK k \in DOMAIN v : q = v[k]
          BY <3>1 DEF Range
        <4>2. v[k] \in Token
          BY TextTypes, LenProperties, ElementOfSeq
        <4>3. q.is \in {"word", "open"}
          BY <3>1, <4>1, <4>2 DEF Token
        <4> QED
          BY <1>5, <1>8, <3>1, <4>3
      <3>2. CASE \E k \in DOMAIN v : v[k].is = "ref" /\ v[k].name \in DOMAIN store /\ q \in Range(store[v[k].name])
        BY <1>6, <3>2 DEF Plain, Range
      <3> QED
        BY <1>1, <1>7, <3>1, <3>2, SubstitutedIs
    <2> QED
      BY <2>1 DEF Plain, Range
  <1> QED
    BY <1>3, <1>7, <1>8 DEF Resolved

LEMMA AcceptedIsSent ==
  ASSUME VInv
  PROVE  AcceptedStepsAreSent
  <1> SUFFICES ASSUME outcome = "refused", ~Rejected, stp \notin Unresolved(scenarios[scn]),
                      ~MayHide, ~SpellsPlaceholder, Provided
               PROVE  FALSE
    BY DEF AcceptedStepsAreSent
  <1>1. Executing
    BY OutcomeAssumption DEF VInv, Progress, Executing
  <1>2. IsStep(TheStep) /\ IsStore(store)
    BY <1>1, RequestIs
  <1>3. TheStep.operation \in DOMAIN spec
    BY <1>1 DEF VInv, Progress, Unresolved, TheStep
  <1>4. ErrorFree(TheStep, store, DOMAIN Fields(TheStep))
    <2>1. ASSUME NEW f \in DOMAIN Fields(TheStep) PROVE ResolveError(Fields(TheStep)[f], store) = None
      <3>1. TemplateError(Fields(TheStep)[f], store) = None
        BY <1>1, AcceptedHasNoError
      <3>2. Fields(TheStep)[f] \in Texts /\ Fields(TheStep)[f] \in AllFields
        BY <1>2, FieldsAre DEF AllFields, Range
      <3>3. SubstituteError(Called(Fields(TheStep)[f], store), store) = None
        BY <1>1, <3>1, <3>2, ProvidedIsPlain
      <3> QED
        BY <3>1, <3>3 DEF ResolveError
    <2> QED
      BY <2>1 DEF ErrorFree
  <1>5. Built /\ HasBrace(path)
    BY <1>3, <1>4, OutcomeAssumption DEF VInv, Explained
  <1> DEFINE t == spec[TheStep.operation]
             D == DOMAIN TheStep.path
  <1>6. \A n \in D : /\ TheStep.path[n] \in Texts /\ TheStep.path[n] \in AllFields
                     /\ ResolveError(TheStep.path[n], store) = None
                     /\ ValueFor(TheStep, store, n) \in Values
    BY <1>1, <1>4, ValuesForPath
  <1>7. \A n \in D : Plain(ValueFor(TheStep, store, n))
    <2>1. ASSUME NEW n \in D PROVE Plain(ValueFor(TheStep, store, n))
      <3>1. \A k \in DOMAIN TheStep.path[n] : TheStep.path[n][k].is # "open"
        BY DEF SpellsPlaceholder
      <3>2. TemplateError(TheStep.path[n], store) = None
        BY <1>6 DEF ResolveError
      <3> QED
        BY <1>1, <1>6, <3>1, <3>2, ProvidedIsPlain DEF ValueFor
    <2> QED
      BY <2>1
  <1>8. path = Filled(t, TheStep, store, D)
    BY <1>5, <1>6, <1>7 DEF Built, PlainPaths
  <1>9. t \in Seq(Token) /\ t \in PathTemplates
    BY <1>1, <1>3, RequestIs, SpecsAssumption DEF VInv, Progress
  <1>10. \A q \in Range(t) : q.is = "word" \/ (q.is = "open" /\ q.name \in D)
    <2>1. ASSUME NEW k \in DOMAIN t PROVE t[k].is = "word" \/ (t[k].is = "open" /\ t[k].name \in D)
      <3>1. t[k] \in [is : {"word"}, name : Words] \cup [is : {"open"}, name : Names]
        <4>1. PICK u \in PathTemplates : u = t
          BY <1>9
        <4>2. u \in Seq([is : {"word"}, name : Words] \cup [is : {"open"}, name : Names]) /\ k \in DOMAIN u
          BY <4>1 DEF PathTemplates
        <4>3. u[k] \in [is : {"word"}, name : Words] \cup [is : {"open"}, name : Names]
          BY <4>2, LenProperties, ElementOfSeq
        <4> QED
          BY <4>1, <4>3
      <3>2. t[k].is \in {"word", "open"}
        BY <3>1
      <3>3. t[k].is = "open" => t[k].name \in D
        BY DEF Provided
      <3> QED
        BY <3>2, <3>3
    <2> HIDE DEF t, D
    <2> QED
      BY <2>1 DEF Range
  <1> HIDE DEF t, D
  <1>11. PICK k \in DOMAIN path : path[k].is # "word"
    BY <1>5 DEF HasBrace
  <1>12. PICK q \in Range(path) : q = path[k]
    BY DEF Range
  <1>13. \/ q \in Range(t) /\ ~(q.is = "open" /\ q.name \in D)
         \/ \E n \in D : q \in Range(ValueFor(TheStep, store, n))
    BY <1>6, <1>8, <1>9, <1>12, FilledHolds
  <1>14. ~(q \in Range(t) /\ ~(q.is = "open" /\ q.name \in D))
    BY <1>10, <1>11, <1>12
  <1>15. PICK n \in D : q \in Range(ValueFor(TheStep, store, n))
    BY <1>13, <1>14
  <1>16. q.is = "word"
    BY <1>7, <1>15 DEF Plain, Range
  <1> QED
    BY <1>11, <1>12, <1>16

\* A step that validate and validate_scenario accept, whose variables are there
\* and spell no braces, is sent: it is refused for nothing that they could have
\* known, but an error hidden by another, or a brace in a parameter of its path.
THEOREM AcceptedAreSent == Spec => []AcceptedStepsAreSent
  BY VInvHolds, AcceptedIsSent, PTL
=============================================================================
