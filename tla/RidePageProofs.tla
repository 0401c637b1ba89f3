---------------------------- MODULE RidePageProofs ----------------------------
(***************************************************************************)
(* Proofs about RidePage, for any locations, drivers, numbers of rides and *)
(* overlapping polls.                                                      *)
(***************************************************************************)
EXTENDS RidePage, NotificationPollingProofs, WellFoundedInduction

-----------------------------------------------------------------------------
(* Filter.  What it keeps is proved by induction over sequences, taken as the
   well-foundedness of < on the numbers.                                     *)

(* Induction over the numbers: the least one that a set does not hold. *)
LEMMA NatInductionOnSets ==
    ASSUME NEW P, 0 \in P, \A n \in Nat : n \in P => n + 1 \in P
    PROVE  Nat \subseteq P
<1>. SUFFICES ASSUME NEW m \in Nat, m \notin P PROVE FALSE
  OBVIOUS
<1>. DEFINE T == Nat \ P
            R == OpToRel(<, Nat)
<1>1. IsWellFoundedOn(R, Nat)
  BY NatLessThanWellFounded
<1>2. T \subseteq Nat /\ T # {}
  OBVIOUS
<1>3. \E x \in T : \A y \in T : ~(<<y, x>> \in R)
  <2>. HIDE DEF T, R
  <2>. QED  BY <1>1, <1>2, WFMin
<1>4. PICK x \in T : \A y \in T : ~(<<y, x>> \in R)
  BY <1>3
<1>5. \A y \in T : ~(y < x)
  BY <1>4 DEF OpToRel
<1>6. x # 0 /\ x - 1 \in Nat
  OBVIOUS
<1>7. x - 1 \in T
  BY <1>6
<1>. QED  BY <1>5, <1>6, <1>7

(* Induction over sequences: a set that holds the empty one, and with each one
   those that are an element longer, holds all.                              *)
LEMMA SeqInductionOnSets ==
    ASSUME NEW X, NEW P, <<>> \in P,
           \A s \in Seq(X), x \in X : s \in P => Append(s, x) \in P
    PROVE  Seq(X) \subseteq P
<1>. DEFINE Q == {n \in Nat : \A s \in Seq(X) : Len(s) = n => s \in P}
<1>1. 0 \in Q
  BY EmptySeq
<1>2. ASSUME NEW n \in Nat, n \in Q PROVE n + 1 \in Q
  <2>. SUFFICES ASSUME NEW s \in Seq(X), Len(s) = n + 1 PROVE s \in P
    OBVIOUS
  <2>1. PICK t \in Seq(X), x \in X : s = Append(t, x)
    BY SequenceEmptyOrAppend, EmptySeq
  <2>2. Len(t) = n
    BY <2>1, AppendProperties, LenProperties
  <2>. QED  BY <1>2, <2>1, <2>2
<1>3. Nat \subseteq Q
  <2>. HIDE DEF Q
  <2>. QED  BY <1>1, <1>2, NatInductionOnSets
<1>. QED  BY <1>3, LenProperties

(* f is the recursive function of Filter, up to m. *)
KeptIn(s, S, m, f) ==
    f = [n \in 0..m |-> IF n = 0 THEN <<>>
                        ELSE IF s[n] \in S THEN Append(f[n - 1], s[n])
                        ELSE f[n - 1]]

LEMMA KeptExists ==
    ASSUME NEW s, NEW S, NEW k \in Nat
    PROVE  \E f : KeptIn(s, S, k, f)
<1>. DEFINE Q == {m \in Nat : \E f : KeptIn(s, S, m, f)}
<1>1. 0 \in Q
  <2>1. KeptIn(s, S, 0, [n \in 0..0 |-> <<>>])
    BY DEF KeptIn
  <2>. QED  BY <2>1
<1>2. ASSUME NEW m \in Nat, m \in Q PROVE m + 1 \in Q
  <2>1. PICK f : KeptIn(s, S, m, f)
    BY <1>2
  <2>. DEFINE g == [n \in 0..(m + 1) |->
                       IF n <= m THEN f[n]
                       ELSE IF s[n] \in S THEN Append(f[m], s[n]) ELSE f[m]]
  <2>2. KeptIn(s, S, m + 1, g)
    <3>1. \A n \in 0..m : f[n] = IF n = 0 THEN <<>>
                        ELSE IF s[n] \in S THEN Append(f[n - 1], s[n])
                        ELSE f[n - 1]
      BY <2>1 DEF KeptIn
    <3>2. ASSUME NEW n \in 0..(m + 1)
          PROVE  g[n] = IF n = 0 THEN <<>>
                        ELSE IF s[n] \in S THEN Append(g[n - 1], s[n])
                        ELSE g[n - 1]
      BY <3>1, SMT
    <3>. QED  BY <3>2 DEF KeptIn
  <2>. QED  BY <2>2
<1>3. Nat \subseteq Q
  <2>. HIDE DEF Q
  <2>. QED  BY <1>1, <1>2, NatInductionOnSets
<1>. QED  BY <1>3

LEMMA FilterIs ==
    ASSUME NEW s, NEW S, Len(s) \in Nat
    PROVE  \E f : KeptIn(s, S, Len(s), f) /\ Filter(s, S) = f[Len(s)]
<1>. DEFINE f == CHOOSE f : KeptIn(s, S, Len(s), f)
<1>1. KeptIn(s, S, Len(s), f)
  BY KeptExists
<1>2. Filter(s, S) = f[Len(s)]
  BY DEF Filter, KeptIn
<1>. QED  BY <1>1, <1>2

LEMMA KeptUnique ==
    ASSUME NEW s, NEW t, NEW S, NEW k \in Nat, NEW m \in Nat, NEW f, NEW g,
           KeptIn(s, S, k, f), KeptIn(t, S, m, g), k <= m,
           \A i \in 1..k : s[i] = t[i]
    PROVE  \A n \in 0..k : f[n] = g[n]
<1>. DEFINE Q == {n \in Nat : n <= k => f[n] = g[n]}
<1>1. /\ \A n \in 0..k : f[n] = IF n = 0 THEN <<>>
                                ELSE IF s[n] \in S THEN Append(f[n - 1], s[n])
                                ELSE f[n - 1]
      /\ \A n \in 0..m : g[n] = IF n = 0 THEN <<>>
                                ELSE IF t[n] \in S THEN Append(g[n - 1], t[n])
                                ELSE g[n - 1]
  BY DEF KeptIn
<1>2. 0 \in Q
  BY <1>1
<1>3. ASSUME NEW n \in Nat, n \in Q PROVE n + 1 \in Q
  <2>. SUFFICES ASSUME n + 1 <= k PROVE f[n + 1] = g[n + 1]
    OBVIOUS
  <2>1. f[n] = g[n] /\ n + 1 \in 0..k /\ n + 1 \in 0..m /\ n + 1 # 0 /\ (n + 1) - 1 = n
    BY <1>3
  <2>2. s[n + 1] = t[n + 1]
    BY <2>1
  <2>. QED  BY <1>1, <2>1, <2>2
<1>4. Nat \subseteq Q
  <2>. HIDE DEF Q
  <2>. QED  BY <1>2, <1>3, NatInductionOnSets
<1>. QED  BY <1>4

(* The two equations of Filter. *)
LEMMA FilterEmpty == \A S : Filter(<<>>, S) = <<>>
<1>. SUFFICES ASSUME NEW S PROVE Filter(<<>>, S) = <<>>
  OBVIOUS
<1>1. PICK f : KeptIn(<<>>, S, 0, f) /\ Filter(<<>>, S) = f[0]
  BY FilterIs
<1>. QED  BY <1>1 DEF KeptIn

LEMMA FilterAppend ==
    ASSUME NEW X, NEW S, NEW s \in Seq(X), NEW x \in X
    PROVE  Filter(Append(s, x), S) = IF x \in S THEN Append(Filter(s, S), x) ELSE Filter(s, S)
<1>. DEFINE t == Append(s, x)
            m == Len(s)
<1>1. /\ m \in Nat /\ Len(t) = m + 1 /\ t[m + 1] = x
      /\ \A i \in 1..m : s[i] = t[i]
  BY LenProperties, AppendProperties
<1>. HIDE DEF t, m
<1>2. PICK f : KeptIn(s, S, m, f) /\ Filter(s, S) = f[m]
  BY <1>1, FilterIs DEF m
<1>3. PICK g : KeptIn(t, S, m + 1, g) /\ Filter(t, S) = g[m + 1]
  BY <1>1, FilterIs
<1>4. \A n \in 0..m : f[n] = g[n]
  BY <1>1, <1>2, <1>3, KeptUnique
<1>5. g[m + 1] = IF t[m + 1] \in S THEN Append(g[m], t[m + 1]) ELSE g[m]
  <2>1. \A n \in 0..(m + 1) : g[n] = IF n = 0 THEN <<>>
                                    ELSE IF t[n] \in S THEN Append(g[n - 1], t[n])
                                    ELSE g[n - 1]
    BY <1>3 DEF KeptIn
  <2>2. m + 1 \in 0..(m + 1) /\ m + 1 # 0 /\ (m + 1) - 1 = m
    BY <1>1
  <2>. QED  BY <2>1, <2>2
<1>6. f[m] = g[m]
  BY <1>1, <1>4
<1>. QED  BY <1>1, <1>2, <1>3, <1>5, <1>6 DEF t

LEMMA FilterType ==
    ASSUME NEW X, NEW S, NEW s \in Seq(X)
    PROVE  Filter(s, S) \in Seq(X \cap S)
<1>. DEFINE P == {u \in Seq(X) : Filter(u, S) \in Seq(X \cap S)}
<1>1. <<>> \in P
  BY FilterEmpty, EmptySeq
<1>2. ASSUME NEW u \in Seq(X), NEW x \in X, u \in P PROVE Append(u, x) \in P
  <2>1. Append(u, x) \in Seq(X)
    BY AppendProperties
  <2>2. Filter(Append(u, x), S) = IF x \in S THEN Append(Filter(u, S), x) ELSE Filter(u, S)
    BY FilterAppend
  <2>3. x \in S => Append(Filter(u, S), x) \in Seq(X \cap S)
    BY <1>2, AppendProperties
  <2>4. Filter(u, S) \in Seq(X \cap S)
    BY <1>2
  <2>. QED  BY <2>1, <2>2, <2>3, <2>4
<1>3. Seq(X) \subseteq P
  <2>. HIDE DEF P
  <2>. QED  BY <1>1, <1>2, SeqInductionOnSets
<1>. QED  BY <1>3

LEMMA FilterInSeq ==
    ASSUME NEW X, NEW S, NEW s \in Seq(X)
    PROVE  Filter(s, S) \in Seq(X)
<1>1. Filter(s, S) \in Seq(X \cap S) /\ X \cap S \subseteq X
  BY FilterType
<1>. QED  BY <1>1, SeqMonotonic

LEMMA ConcatAppend ==
    ASSUME NEW X, NEW s \in Seq(X), NEW t \in Seq(X), NEW x \in X
    PROVE  s \o Append(t, x) = Append(s \o t, x)
OBVIOUS

LEMMA FilterConcat ==
    ASSUME NEW X, NEW S, NEW s \in Seq(X), NEW t \in Seq(X)
    PROVE  Filter(s \o t, S) = Filter(s, S) \o Filter(t, S)
<1>1. \A u \in Seq(X) : Filter(u, S) \in Seq(X)
  BY FilterInSeq
<1>2. Filter(s \o <<>>, S) = Filter(s, S) \o Filter(<<>>, S)
  BY <1>1, ConcatEmptySeq, FilterEmpty
<1>3. ASSUME NEW u \in Seq(X), NEW x \in X, Filter(s \o u, S) = Filter(s, S) \o Filter(u, S)
      PROVE  Filter(s \o Append(u, x), S) = Filter(s, S) \o Filter(Append(u, x), S)
  <2>. DEFINE v == s \o u
              a == Filter(s, S)
              b == Filter(u, S)
  <2>1. v \in Seq(X) /\ a \in Seq(X) /\ b \in Seq(X) /\ Filter(v, S) = a \o b
    BY <1>1, <1>3, ConcatProperties
  <2>2. s \o Append(u, x) = Append(v, x)
    BY ConcatAppend
  <2>. HIDE DEF v, a, b
  <2>4. a \o Append(b, x) = Append(a \o b, x)
    BY <2>1, ConcatAppend
  <2>5. Filter(Append(v, x), S) = IF x \in S THEN Append(a \o b, x) ELSE a \o b
    BY <2>1, FilterAppend
  <2>6. Filter(Append(u, x), S) = IF x \in S THEN Append(b, x) ELSE b
    BY FilterAppend DEF b
  <2>7. Filter(Append(v, x), S) = a \o Filter(Append(u, x), S)
    BY <2>4, <2>5, <2>6
  <2>. QED  BY <2>2, <2>7 DEF a
<1>. DEFINE P == {u \in Seq(X) : Filter(s \o u, S) = Filter(s, S) \o Filter(u, S)}
<1>4. <<>> \in P
  BY <1>2, EmptySeq
<1>5. ASSUME NEW u \in Seq(X), NEW x \in X, u \in P PROVE Append(u, x) \in P
  BY <1>3, <1>5, AppendProperties
<1>6. Seq(X) \subseteq P
  <2>. HIDE DEF P
  <2>. QED  BY <1>4, <1>5, SeqInductionOnSets
<1>. QED  BY <1>6

(* Sets that agree on the elements filter the same. *)
LEMMA FilterSame ==
    ASSUME NEW X, NEW S, NEW T, NEW s \in Seq(X), \A i \in 1..Len(s) : s[i] \in S <=> s[i] \in T
    PROVE  Filter(s, S) = Filter(s, T)
<1>. DEFINE P == {u \in Seq(X) : (\A i \in 1..Len(u) : u[i] \in S <=> u[i] \in T)
                                     => Filter(u, S) = Filter(u, T)}
<1>1. <<>> \in P
  BY FilterEmpty, EmptySeq
<1>2. ASSUME NEW u \in Seq(X), NEW x \in X, u \in P PROVE Append(u, x) \in P
  <2>. DEFINE v == Append(u, x)
  <2>1. /\ v \in Seq(X) /\ Len(v) = Len(u) + 1 /\ Len(u) \in Nat /\ v[Len(u) + 1] = x
        /\ \A i \in 1..Len(u) : v[i] = u[i]
    BY AppendProperties, LenProperties
  <2>2. /\ Filter(v, S) = IF x \in S THEN Append(Filter(u, S), x) ELSE Filter(u, S)
        /\ Filter(v, T) = IF x \in T THEN Append(Filter(u, T), x) ELSE Filter(u, T)
    BY FilterAppend
  <2>. HIDE DEF v
  <2>3. ASSUME \A i \in 1..Len(v) : v[i] \in S <=> v[i] \in T
        PROVE  Filter(v, S) = Filter(v, T)
    <3>1. \A i \in 1..Len(u) : u[i] \in S <=> u[i] \in T
      BY <2>1, <2>3
    <3>2. x \in S <=> x \in T
      BY <2>1, <2>3
    <3>. QED  BY <1>2, <2>2, <3>1, <3>2
  <2>. QED  BY <2>1, <2>3 DEF v
<1>3. Seq(X) \subseteq P
  <2>. HIDE DEF P
  <2>. QED  BY <1>1, <1>2, SeqInductionOnSets
<1>. QED  BY <1>3

LEMMA FilterAll ==
    ASSUME NEW X, NEW S, NEW s \in Seq(X), \A i \in 1..Len(s) : s[i] \in S
    PROVE  Filter(s, S) = s
<1>. DEFINE P == {u \in Seq(X) : Filter(u, X) = u}
<1>1. <<>> \in P
  BY FilterEmpty, EmptySeq
<1>2. ASSUME NEW u \in Seq(X), NEW x \in X, u \in P PROVE Append(u, x) \in P
  BY <1>2, FilterAppend, AppendProperties
<1>3. Seq(X) \subseteq P
  <2>. HIDE DEF P
  <2>. QED  BY <1>1, <1>2, SeqInductionOnSets
<1>4. Filter(s, S) = Filter(s, X)
  BY FilterSame, ElementOfSeq
<1>. QED  BY <1>3, <1>4

LEMMA FilterNone ==
    ASSUME NEW X, NEW S, NEW s \in Seq(X), \A i \in 1..Len(s) : s[i] \notin S
    PROVE  Filter(s, S) = <<>>
<1>. DEFINE P == {u \in Seq(X) : Filter(u, {}) = <<>>}
<1>1. <<>> \in P
  BY FilterEmpty, EmptySeq
<1>2. ASSUME NEW u \in Seq(X), NEW x \in X, u \in P PROVE Append(u, x) \in P
  BY <1>2, FilterAppend, AppendProperties
<1>3. Seq(X) \subseteq P
  <2>. HIDE DEF P
  <2>. QED  BY <1>1, <1>2, SeqInductionOnSets
<1>4. Filter(s, S) = Filter(s, {})
  BY FilterSame
<1>. QED  BY <1>3, <1>4

LEMMA FilterTwice ==
    ASSUME NEW X, NEW S, NEW T, NEW s \in Seq(X)
    PROVE  Filter(Filter(s, S), T) = Filter(s, S \cap T)
<1>1. ASSUME NEW u \in Seq(X), NEW x \in X, Filter(Filter(u, S), T) = Filter(u, S \cap T)
      PROVE  Filter(Filter(Append(u, x), S), T) = Filter(Append(u, x), S \cap T)
  <2>1. Filter(u, S) \in Seq(X)
    BY FilterInSeq
  <2>2. /\ Filter(Append(u, x), S) = IF x \in S THEN Append(Filter(u, S), x) ELSE Filter(u, S)
        /\ Filter(Append(u, x), S \cap T) = IF x \in S \cap T THEN Append(Filter(u, S \cap T), x)
                                            ELSE Filter(u, S \cap T)
    BY FilterAppend
  <2>3. Filter(Append(Filter(u, S), x), T) = IF x \in T THEN Append(Filter(Filter(u, S), T), x)
                                             ELSE Filter(Filter(u, S), T)
    BY <2>1, FilterAppend
  <2>4. CASE x \in S
    <3>1. Filter(Append(u, x), S) = Append(Filter(u, S), x)
      BY <2>2, <2>4
    <3>2. x \in S \cap T <=> x \in T
      BY <2>4
    <3>. QED  BY <1>1, <2>2, <2>3, <3>1, <3>2, Zenon
  <2>5. CASE x \notin S
    BY <1>1, <2>2, <2>5
  <2>. QED  BY <2>4, <2>5
<1>. DEFINE P == {u \in Seq(X) : Filter(Filter(u, S), T) = Filter(u, S \cap T)}
<1>2. <<>> \in P
  BY FilterEmpty, EmptySeq
<1>3. ASSUME NEW u \in Seq(X), NEW x \in X, u \in P PROVE Append(u, x) \in P
  BY <1>1, <1>3, AppendProperties
<1>4. Seq(X) \subseteq P
  <2>. HIDE DEF P
  <2>. QED  BY <1>2, <1>3, SeqInductionOnSets
<1>. QED  BY <1>4

(* The map of JavaScript's arrays. *)
Mapped(f, s) == [i \in DOMAIN s |-> f[s[i]]]

LEMMA FilterMapped ==
    ASSUME NEW X, NEW S, NEW T, NEW f, NEW s \in Seq(X),
           \A x \in X : x \in T <=> f[x] \in S
    PROVE  Filter(Mapped(f, s), S) = Mapped(f, Filter(s, T))
<1>. DEFINE Image(u) == Mapped(f, u)
            Y == {f[x] : x \in X}
<1>1. \A u \in Seq(X) : Image(u) \in Seq(Y)
  BY LenProperties, ElementOfSeq DEF Mapped
<1>2. \A u \in Seq(X), x \in X : Image(Append(u, x)) = Append(Image(u), f[x])
  BY LenProperties, ElementOfSeq, AppendProperties DEF Mapped
<1>3. Image(<<>>) = <<>>
  BY DEF Mapped
<1>4. \A u \in Seq(X) : Filter(u, T) \in Seq(X)
  BY FilterInSeq
<1>5. \A x \in X : f[x] \in Y /\ (x \in T <=> f[x] \in S)
  OBVIOUS
<1>. HIDE DEF Image, Y
<1>6. ASSUME NEW u \in Seq(X), NEW x \in X, Filter(Image(u), S) = Image(Filter(u, T))
      PROVE  Filter(Image(Append(u, x)), S) = Image(Filter(Append(u, x), T))
  <2>1. Filter(Append(u, x), T) = IF x \in T THEN Append(Filter(u, T), x) ELSE Filter(u, T)
    BY FilterAppend
  <2>2. Filter(Append(Image(u), f[x]), S) = IF f[x] \in S THEN Append(Filter(Image(u), S), f[x])
                                            ELSE Filter(Image(u), S)
    <3>1. Image(u) \in Seq(Y) /\ f[x] \in Y
      BY <1>1, <1>5
    <3>2. \A v \in Seq(Y), y \in Y :
             Filter(Append(v, y), S) = IF y \in S THEN Append(Filter(v, S), y) ELSE Filter(v, S)
      BY FilterAppend
    <3>. QED  BY <3>1, <3>2
  <2>3. CASE x \in T
    BY <1>2, <1>4, <1>5, <1>6, <2>1, <2>2, <2>3, Zenon
  <2>4. CASE x \notin T
    BY <1>2, <1>5, <1>6, <2>1, <2>2, <2>4, Zenon
  <2>. QED  BY <2>3, <2>4
<1>. DEFINE P == {u \in Seq(X) : Filter(Image(u), S) = Image(Filter(u, T))}
<1>7. <<>> \in P
  BY <1>3, FilterEmpty, EmptySeq
<1>8. ASSUME NEW u \in Seq(X), NEW x \in X, u \in P PROVE Append(u, x) \in P
  BY <1>6, <1>8, AppendProperties
<1>9. Seq(X) \subseteq P
  <2>. HIDE DEF P
  <2>. QED  BY <1>7, <1>8, SeqInductionOnSets
<1>. QED  BY <1>9 DEF Image

(* Nothing that is in S is left out, ... *)
LEMMA FilterKeeps ==
    ASSUME NEW X, NEW S, NEW s \in Seq(X), NEW i \in 1..Len(s), s[i] \in S
    PROVE  \E j \in 1..Len(Filter(s, S)) : Filter(s, S)[j] = s[i]
<1>. SUFFICES ASSUME \A j \in 1..Len(Filter(s, S)) : Filter(s, S)[j] # s[i]
              PROVE  FALSE
  OBVIOUS
<1>. DEFINE P == {u \in Seq(X) : \A k \in 1..Len(u) :
                      u[k] \in S => \E j \in 1..Len(Filter(u, S)) : Filter(u, S)[j] = u[k]}
<1>1. <<>> \in P
  BY EmptySeq
<1>2. ASSUME NEW u \in Seq(X), NEW x \in X, u \in P PROVE Append(u, x) \in P
  <2>. DEFINE v == Append(u, x)
              own == Filter(u, S)
  <2>1. /\ v \in Seq(X) /\ Len(v) = Len(u) + 1 /\ Len(u) \in Nat /\ v[Len(u) + 1] = x
        /\ \A i_1 \in 1..Len(u) : v[i_1] = u[i_1]
    BY AppendProperties, LenProperties
  <2>2. Filter(v, S) = IF x \in S THEN Append(own, x) ELSE own
    BY FilterAppend
  <2>3. own \in Seq(X) /\ Len(own) \in Nat
    BY FilterInSeq, LenProperties
  <2>4. /\ Len(Append(own, x)) = Len(own) + 1
        /\ Append(own, x)[Len(own) + 1] = x
        /\ \A j \in 1..Len(own) : Append(own, x)[j] = own[j]
    BY <2>3, AppendProperties
  <2>. HIDE DEF v
  <2>5. ASSUME NEW k \in 1..Len(v), v[k] \in S
        PROVE  \E j \in 1..Len(Filter(v, S)) : Filter(v, S)[j] = v[k]
    <3>1. CASE k = Len(u) + 1
      BY <2>1, <2>2, <2>3, <2>4, <2>5, <3>1
    <3>2. CASE k \in 1..Len(u)
      <4>1. PICK j \in 1..Len(own) : own[j] = u[k]
        BY <1>2, <2>1, <2>5, <3>2
      <4>2. j \in 1..Len(Filter(v, S)) /\ Filter(v, S)[j] = own[j]
        <5>. HIDE DEF own
        <5>. QED BY <2>2, <2>3, <2>4
      <4>. QED  BY <2>1, <3>2, <4>1, <4>2
    <3>3. k = Len(u) + 1 \/ k \in 1..Len(u)
      BY <2>1
    <3>. QED  BY <3>1, <3>2, <3>3, Zenon
  <2>. QED  BY <2>1, <2>5 DEF v
<1>3. Seq(X) \subseteq P
  <2>. HIDE DEF P
  <2>. QED  BY <1>1, <1>2, SeqInductionOnSets
<1>. QED  BY <1>3

(* g tells for each element of own its place in s. *)
Places(s, own, g) ==
    /\ g \in [1..Len(own) -> 1..Len(s)]
    /\ \A i \in 1..Len(own) : own[i] = s[g[i]]
    /\ \A i, j \in 1..Len(own) : i < j => g[i] < g[j]

(* Each element of s that is in S has its place in own. *)
Covers(s, S, own, g) ==
    \A k \in 1..Len(s) : s[k] \in S => \E i \in 1..Len(own) : g[i] = k

(* ... and the rest stays in its order. *)
LEMMA FilterPlaces ==
    ASSUME NEW X, NEW S, NEW s \in Seq(X)
    PROVE  \E g : Places(s, Filter(s, S), g) /\ Covers(s, S, Filter(s, S), g)
<1>. DEFINE P == {u \in Seq(X) : \E g : Places(u, Filter(u, S), g) /\ Covers(u, S, Filter(u, S), g)}
<1>1. <<>> \in P
  <2>1. Places(<<>>, <<>>, <<>>) /\ Covers(<<>>, S, <<>>, <<>>)
    BY DEF Places, Covers
  <2>. QED  BY <2>1, FilterEmpty, EmptySeq
<1>2. ASSUME NEW u \in Seq(X), NEW x \in X, u \in P PROVE Append(u, x) \in P
  <2>. DEFINE v == Append(u, x)
              own == Filter(u, S)
              m == Len(own)
              n == Len(u)
  <2>1. PICK g : Places(u, own, g) /\ Covers(u, S, own, g)
    BY <1>2
  <2>2. /\ v \in Seq(X) /\ Len(v) = n + 1 /\ n \in Nat /\ v[n + 1] = x
        /\ \A k \in 1..n : v[k] = u[k]
    BY AppendProperties, LenProperties
  <2>3. Filter(v, S) = IF x \in S THEN Append(own, x) ELSE own
    BY FilterAppend
  <2>4. own \in Seq(X) /\ m \in Nat
    BY FilterInSeq, LenProperties
  <2>5. /\ Len(Append(own, x)) = m + 1
        /\ Append(own, x)[m + 1] = x
        /\ \A j \in 1..m : Append(own, x)[j] = own[j]
    BY <2>4, AppendProperties
  <2>6. /\ g \in [1..m -> 1..n]
        /\ \A i \in 1..m : own[i] = u[g[i]]
        /\ \A i, j \in 1..m : i < j => g[i] < g[j]
        /\ \A k \in 1..n : u[k] \in S => \E i \in 1..m : g[i] = k
    BY <2>1 DEF Places, Covers
  <2>. DEFINE w == Append(own, x)
              h == [i \in 1..(m + 1) |-> IF i <= m THEN g[i] ELSE n + 1]
  <2>. HIDE DEF v, own, m, n, w
  <2>7. CASE x \notin S
    <3>1. g \in [1..m -> 1..(n + 1)]
      BY <2>2, <2>4, <2>6
    <3>2. \A i \in 1..m : own[i] = v[g[i]]
      BY <2>2, <2>4, <2>6
    <3>3. Places(v, own, g)
      BY <2>2, <2>6, <3>1, <3>2 DEF m, Places
    <3>4. ASSUME NEW k \in 1..(n + 1), v[k] \in S PROVE \E i \in 1..m : g[i] = k
      <4>1. k \in 1..n
        BY <2>2, <2>7, <3>4
      <4>. QED  BY <2>2, <2>6, <3>4, <4>1
    <3>5. Covers(v, S, own, g)
      BY <2>2, <3>4 DEF m, Covers
    <3>. QED  BY <2>2, <2>3, <2>7, <3>3, <3>5 DEF v
  <2>8. CASE x \in S
    <3>1. Len(w) = m + 1 /\ w[m + 1] = x /\ \A j \in 1..m : w[j] = own[j]
      BY <2>5 DEF w
    <3>2. h \in [1..(m + 1) -> 1..(n + 1)]
      BY <2>2, <2>4, <2>6
    <3>3. \A i \in 1..(m + 1) : w[i] = v[h[i]]
      <4>. TAKE i \in 1..(m + 1)
      <4>1. CASE i = m + 1
        BY <2>2, <2>4, <3>1, <4>1
      <4>2. CASE i \in 1..m
        <5>1. h[i] = g[i] /\ g[i] \in 1..n
          BY <2>4, <2>6, <4>2
        <5>. HIDE DEF h
        <5>. QED  BY <2>2, <2>6, <3>1, <4>2, <5>1
      <4>. QED  BY <2>4, <4>1, <4>2
    <3>4. \A i, j \in 1..(m + 1) : i < j => h[i] < h[j]
      BY <2>2, <2>4, <2>6
    <3>5. Places(v, w, h)
      <4>. HIDE DEF h
      <4>. QED  BY <2>2, <3>1, <3>2, <3>3, <3>4 DEF Places
    <3>6. ASSUME NEW k \in 1..(n + 1), v[k] \in S PROVE \E i \in 1..(m + 1) : h[i] = k
      <4>1. CASE k = n + 1
        <5>1. m + 1 \in 1..(m + 1) /\ h[m + 1] = n + 1
          BY <2>4
        <5>. HIDE DEF h
        <5>. QED  BY <4>1, <5>1
      <4>2. CASE k \in 1..n
        <5>1. PICK i \in 1..m : g[i] = k
          BY <2>2, <2>6, <3>6, <4>2
        <5>2. i \in 1..(m + 1) /\ h[i] = g[i]
          BY <2>4
        <5>. HIDE DEF h
        <5>. QED  BY <5>1, <5>2
      <4>. QED  BY <2>2, <4>1, <4>2
    <3>7. Covers(v, S, w, h)
      <4>. HIDE DEF h
      <4>. QED  BY <2>2, <3>1, <3>6 DEF Covers
    <3>. QED  BY <2>2, <2>3, <2>8, <3>5, <3>7 DEF v, w
  <2>. QED  BY <2>7, <2>8
<1>3. Seq(X) \subseteq P
  <2>. HIDE DEF P
  <2>. QED  BY <1>1, <1>2, SeqInductionOnSets
<1>. QED  BY <1>3

-----------------------------------------------------------------------------
(* The page polls, and its rides store, as NotificationPolling says. *)

(* The dispatch of a ride touches neither the page nor its polls. *)
LEMMA DispatchFrame ==
    ASSUME NEW r \in Rides, StoreStep(r) \/ DeliveredAgain(r)
    PROVE  UNCHANGED pageVars /\ UNCHANGED <<cursor, poll, shown, overlapped>>
<1>1. CASE Reads(r) \/ StoresNothing(r) \/ StoreFails(r) \/ DeliveredAgain(r)
  BY <1>1 DEF Reads, StoresNothing, StoreFails, DeliveredAgain, Read, GiveUp, pollVars
<1>2. ASSUME NEW l \in seen[r], Stores(r, l) \/ StoresSame(r, l)
      PROVE  UNCHANGED pageVars /\ UNCHANGED <<cursor, poll, shown, overlapped>>
  BY <1>2 DEF Stores, StoresSame, Write, GiveUp
<1>. QED  BY <1>1, <1>2 DEF StoreStep

LEMMA StepsOfPolls == [Next]_vars => [PollNext]_pollVars
<1>. SUFFICES ASSUME [Next]_vars PROVE [PollNext]_pollVars
  OBVIOUS
<1>1. CASE FormStep
  BY <1>1 DEF FormStep, SplashAnswered, SplashFails, SelectPickup, SelectDropoff, Select,
              RequestDrive
<1>2. CASE Effects
  BY <1>2 DEF Effects
<1>3. CASE KeyExpires
  BY <1>3 DEF KeyExpires, PollNext
<1>4. ASSUME NEW r \in Rides, RideStep(r)
      PROVE  [PollNext]_pollVars
  <2>1. r \in Writers
    BY WritersAssumption
  <2>2. CASE PostAnswered(r) \/ PostFails(r) \/ StoresNothing(r) \/ DeliveredAgain(r)
    BY <2>2 DEF PostAnswered, PostFails, StoresNothing, DeliveredAgain
  <2>3. CASE Reads(r)
    BY <2>1, <2>3 DEF Reads, PollNext
  <2>4. CASE StoreFails(r)
    BY <2>1, <2>4 DEF StoreFails, PollNext
  <2>5. ASSUME NEW l \in seen[r], Stores(r, l) \/ StoresSame(r, l)
        PROVE  [PollNext]_pollVars
    BY <2>1, <2>5 DEF Stores, StoresSame, PollNext
  <2>. QED  BY <1>4, <2>2, <2>3, <2>4, <2>5 DEF RideStep, StoreStep
<1>5. ASSUME NEW p \in Polls, PagePollStep(p)
      PROVE  [PollNext]_pollVars
  BY <1>5 DEF PagePollStep, Asks, IsAnswered, Shows, Fails, PollNext, PollStep
<1>6. CASE UNCHANGED vars
  BY <1>6 DEF vars
<1>. QED  BY <1>1, <1>2, <1>3, <1>4, <1>5, <1>6 DEF Next

(* Whatever rides are requested and dispatched, what is proved about the polls
   holds for the page.                                                       *)
THEOREM PagePolls == Spec => PollSpec
<1>1. Init => PollInit
  BY DEF Init
<1>. QED  BY <1>1, StepsOfPolls, PTL DEF Spec, PollSpec

-----------------------------------------------------------------------------
(* The driver's time *)

(* A time below an hour reads back as it was written. *)
THEOREM TimesReadBack == \A eta \in Readable : Seconds(Duration(eta)) = eta
<1>. SUFFICES ASSUME NEW eta \in Readable PROVE Seconds(Duration(eta)) = eta
  OBVIOUS
<1>. DEFINE all == IF eta < 0 THEN -eta ELSE eta
            d == Duration(eta)
<1>1. eta \in Int /\ all \in Nat /\ all < 3600
  BY DEF Readable
<1>2. /\ d.hours = all \div 3600
      /\ d.minutes = (all % 3600) \div 60
      /\ d.seconds = all % 60
  BY DEF Duration
<1>3. all = IF eta < 0 THEN -eta ELSE eta
  OBVIOUS
<1>. HIDE DEF all, d
<1>4. all \div 3600 = 0 /\ all % 3600 = all
  BY <1>1
<1>5. d.hours = 0 /\ d.minutes * 60 + d.seconds = all
  <2>1. (all \div 60) * 60 + (all % 60) = all
    BY <1>1
  <2>. QED  BY <1>2, <1>4, <2>1
<1>6. Seconds(d) = IF d.negative THEN -all ELSE all
  BY <1>5 DEF Seconds
<1>7. Seconds(d) = eta
  <2>1. CASE eta < 0
    <3>1. d.negative
      BY <2>1 DEF d, Duration
    <3>. QED  BY <1>1, <1>3, <1>6, <2>1, <3>1
  <2>2. CASE ~(eta < 0)
    <3>1. ~d.negative
      BY <2>2 DEF d, Duration
    <3>. QED  BY <1>1, <1>3, <1>6, <2>2, <3>1
  <2>. QED  BY <2>1, <2>2
<1>. QED  BY <1>7 DEF d

-----------------------------------------------------------------------------
(* The rides.  Each has a log of its own, with a number of its own. *)

Held == {logs[i] : i \in DOMAIN logs}

Selection == [pickup : locations \cup {Unselected, NaN}, dropoff : locations \cup {Unselected, NaN}]

LogsInv == /\ logs \in Seq(Held)
           /\ lastRequestID = Len(logs) + 1
           /\ \A i \in DOMAIN logs : /\ DOMAIN logs[i] = {"requestID", "pickup", "dropoff", "entries"}
                                     /\ logs[i].requestID = Len(logs) + 1 - i
           /\ KnownLocations
           /\ selected \in Selection
           /\ page = "loading" => locations = {} /\ logs = <<>>

LEMMA LogsInvInit == Init => LogsInv
<1>. SUFFICES ASSUME Init PROVE LogsInv
  OBVIOUS
<1>1. logs = <<>> /\ locations = {} /\ lastRequestID = 1 /\ selected = NothingSelected
  BY DEF Init
<1>2. logs \in Seq(Held) /\ Len(logs) = 0 /\ DOMAIN logs = {}
  BY <1>1, EmptySeq
<1>3. selected \in Selection
  BY <1>1 DEF Selection, NothingSelected
<1>. QED  BY <1>1, <1>2, <1>3 DEF LogsInv, KnownLocations

(* Entries leave the rest of a log as it is. *)
LEMMA EntriesKeepLogs ==
    ASSUME LogsInv, NEW new, logs' = AddEntries(logs, new),
           UNCHANGED <<page, locations, selected, lastRequestID>>
    PROVE  LogsInv'
<1>1. /\ DOMAIN logs = 1..Len(logs) /\ Len(logs) \in Nat
  BY LenProperties DEF LogsInv
<1>2. logs' = [i \in 1..Len(logs) |-> [logs[i] EXCEPT !.entries = @ \o new[logs[i].requestID]]]
  BY <1>1 DEF AddEntries
<1>3. DOMAIN logs' = 1..Len(logs)
  BY <1>2
<1>4. \A i \in 1..Len(logs) : logs'[i] \in Held'
  BY <1>3 DEF Held
<1>5. logs' \in [1..Len(logs) -> Held']
  BY <1>2, <1>4
<1>6. logs' \in Seq(Held') /\ Len(logs') = Len(logs)
  BY <1>1, <1>3, <1>5, SeqDef, LenProperties
<1>7. \A i \in 1..Len(logs) : /\ DOMAIN logs'[i] = DOMAIN logs[i]
                              /\ logs'[i].requestID = logs[i].requestID
                              /\ logs'[i].pickup = logs[i].pickup
                              /\ logs'[i].dropoff = logs[i].dropoff
  BY <1>1, <1>2 DEF LogsInv
<1>. QED  BY <1>1, <1>3, <1>6, <1>7 DEF LogsInv, KnownLocations, Selection

(* The new log comes first and takes the next number. *)
LEMMA RideKeepsLogs == LogsInv /\ RequestDrive => LogsInv'
<1>. SUFFICES ASSUME LogsInv, RequestDrive PROVE LogsInv'
  OBVIOUS
<1>. DEFINE new == [requestID |-> lastRequestID, pickup |-> selected.pickup,
                    dropoff |-> selected.dropoff, entries |-> <<Requested>>]
            S == Held \cup {new}
<1>1. selected.pickup \in locations /\ selected.dropoff \in locations
  BY DEF LogsInv, RequestDrive, Enabled, Selection
<1>2. logs' = <<new>> \o logs
  BY <1>1 DEF RequestDrive, AddNewLog, Find, GetLastRequestID
<1>. HIDE DEF new
<1>3. logs \in Seq(S) /\ <<new>> \in Seq(S) /\ Len(<<new>>) = 1 /\ <<new>>[1] = new
  <2>1. \A i \in 1..Len(logs) : logs[i] \in S
    BY LenProperties DEF LogsInv, Held
  <2>. QED  BY <2>1, LenProperties, SeqDef DEF LogsInv
<1>4. /\ logs' \in Seq(S) /\ Len(logs') = Len(logs) + 1 /\ Len(logs) \in Nat
      /\ logs'[1] = new
      /\ \A i \in 1..Len(logs) : logs'[i + 1] = logs[i]
  BY <1>2, <1>3, ConcatProperties, LenProperties
<1>5. /\ DOMAIN logs = 1..Len(logs) /\ DOMAIN logs' = 1..(Len(logs) + 1)
  BY <1>3, <1>4, LenProperties
<1>6. logs' \in Seq(Held')
  <2>1. \A i \in 1..Len(logs') : logs'[i] \in Held'
    BY <1>4, <1>5 DEF Held
  <2>. QED  BY <1>4, <1>5, <2>1, SeqDef, LenProperties
<1>7. /\ DOMAIN new = {"requestID", "pickup", "dropoff", "entries"}
      /\ new.requestID = Len(logs) + 1
      /\ new.pickup \in locations /\ new.dropoff \in locations
  BY <1>1 DEF new, LogsInv
<1>8. /\ \A i \in 1..(Len(logs) + 1) :
            /\ DOMAIN logs'[i] = {"requestID", "pickup", "dropoff", "entries"}
            /\ logs'[i].requestID = Len(logs) + 1 + 1 - i
            /\ {logs'[i].pickup, logs'[i].dropoff} \subseteq locations
  <2>. SUFFICES ASSUME NEW i \in 1..(Len(logs) + 1), i # 1
                PROVE  /\ DOMAIN logs'[i] = {"requestID", "pickup", "dropoff", "entries"}
                       /\ logs'[i].requestID = Len(logs) + 1 + 1 - i
                       /\ {logs'[i].pickup, logs'[i].dropoff} \subseteq locations
    BY <1>4, <1>7
  <2>1. i - 1 \in 1..Len(logs) /\ logs'[i] = logs[i - 1]
    <3>1. i - 1 \in 1..Len(logs) /\ (i - 1) + 1 = i
      BY <1>4
    <3>. QED  BY <1>4, <3>1
  <2>. QED  BY <1>4, <1>5, <2>1 DEF LogsInv, KnownLocations
<1>9. selected' \in Selection'
  BY DEF RequestDrive, NothingSelected, Selection
<1>10. lastRequestID' = Len(logs') + 1 /\ page' # "loading" /\ locations' = locations
  BY <1>4 DEF RequestDrive, LogsInv
<1>. QED  BY <1>4, <1>5, <1>6, <1>8, <1>9, <1>10 DEF LogsInv, KnownLocations

LEMMA LogsInvStep == LogsInv /\ [Next]_vars => LogsInv'
<1>. SUFFICES ASSUME LogsInv, [Next]_vars PROVE LogsInv'
  OBVIOUS
<1>1. ASSUME UNCHANGED <<formVars, logs>>
      PROVE  LogsInv'
  BY <1>1 DEF formVars, LogsInv, Held, KnownLocations, Selection
<1>2. CASE SplashAnswered \/ SplashFails
  BY <1>2, EmptySeq DEF SplashAnswered, SplashFails, PageWith, LogsInv, Held, KnownLocations, Selection
<1>3. ASSUME NEW id \in Choices,
             Select([selected EXCEPT !.pickup = id]) \/ Select([selected EXCEPT !.dropoff = id])
      PROVE  LogsInv'
  <2>1. selected' \in Selection'
    BY <1>3 DEF Select, Choices, LogsInv, Selection
  <2>. QED  BY <1>3, <2>1 DEF Select, LogsInv, Held, KnownLocations
<1>4. CASE RequestDrive
  BY <1>4, RideKeepsLogs
<1>5. CASE Effects \/ KeyExpires \/ UNCHANGED vars
  BY <1>1, <1>5 DEF Effects, KeyExpires, pageVars, vars
<1>6. ASSUME NEW r \in Rides, PostFails(r)
      PROVE  LogsInv'
  BY <1>6, EntriesKeepLogs DEF PostFails, AddErrorEntry, formVars
<1>7. ASSUME NEW r \in Rides, PostAnswered(r) \/ StoreStep(r) \/ DeliveredAgain(r)
      PROVE  LogsInv'
  BY <1>1, <1>7, DispatchFrame DEF PostAnswered, pageVars
<1>8. ASSUME NEW p \in Polls, Shows(p)
      PROVE  LogsInv'
  BY <1>8, EntriesKeepLogs DEF Shows, formVars
<1>9. ASSUME NEW p \in Polls, Asks(p) \/ IsAnswered(p) \/ Fails(p)
      PROVE  LogsInv'
  BY <1>1, <1>9 DEF Asks, IsAnswered, Fails, pageVars
<1>. QED
  BY <1>2, <1>3, <1>4, <1>5, <1>6, <1>7, <1>8, <1>9
     DEF Next, FormStep, RideStep, PagePollStep, SelectPickup, SelectDropoff

(* Every ride in the logs has two locations that exist. *)
THEOREM RidesKnowLocations == Spec => []KnownLocations
<1>1. LogsInv => KnownLocations
  BY DEF LogsInv
<1>. QED  BY <1>1, LogsInvInit, LogsInvStep, PTL DEF Spec

(* No two logs have the same number: an entry goes into one log only. *)
NumbersDiffer == \A i, j \in DOMAIN logs : logs[i].requestID = logs[j].requestID => i = j

THEOREM OneLogPerRide == Spec => []NumbersDiffer
<1>1. LogsInv => NumbersDiffer
  <2>. SUFFICES ASSUME LogsInv, NEW i \in DOMAIN logs, NEW j \in DOMAIN logs,
                       logs[i].requestID = logs[j].requestID
                PROVE  i = j
    BY DEF NumbersDiffer
  <2>1. i \in Int /\ j \in Int /\ Len(logs) \in Int
    BY LenProperties DEF LogsInv
  <2>2. Len(logs) + 1 - i = Len(logs) + 1 - j
    BY DEF LogsInv
  <2>. QED  BY <2>1, <2>2
<1>. QED  BY <1>1, LogsInvInit, LogsInvStep, PTL DEF Spec

-----------------------------------------------------------------------------
(* The dispatch of a ride goes through its Stores. *)
FlowTyped == /\ flow \in [Rides -> 1..(Len(Order) + 1)]
             /\ missed \in BOOLEAN
             /\ disturbed \in 0..MaxDisturbed

LEMMA OrderIs == Len(Order) = 6 /\ DOMAIN Order = 1..6 /\ \A n \in 1..6 : Order[n] \in 1..5
BY DEF Order

LEMMA ProceedTyped ==
    ASSUME FlowTyped, NEW r \in Rides, Dispatching(r), Proceed(r)
    PROVE  /\ flow' \in [Rides -> 1..(Len(Order) + 1)]
           /\ \A w \in Rides : seen'[w] = {} \/ flow'[w] = flow[w]
           /\ flow'[r] \in {flow[r], flow[r] + 1} /\ \A w \in Rides \ {r} : flow'[w] = flow[w]
<1>1. flow \in [Rides -> 1..7] /\ flow[r] \in 1..6 /\ Len(Order) = 6
  BY OrderIs DEF Dispatching, FlowTyped
<1>2. CASE seen'[r] = {} /\ flow' = [flow EXCEPT ![r] = flow[r] + 1]
  BY <1>1, <1>2
<1>3. CASE UNCHANGED flow
  BY <1>1, <1>3
<1>. QED  BY <1>2, <1>3 DEF Proceed

LEMMA FlowTypedStep == FlowTyped /\ [Next]_vars => FlowTyped'
<1>. SUFFICES ASSUME FlowTyped, [Next]_vars PROVE FlowTyped'
  OBVIOUS
<1>1. ASSUME UNCHANGED <<flow, missed, disturbed>>
      PROVE  FlowTyped'
  BY <1>1 DEF FlowTyped
<1>2. CASE FormStep \/ Effects \/ UNCHANGED vars
  BY <1>1, <1>2 DEF FormStep, SplashAnswered, SplashFails, SelectPickup, SelectDropoff, Select,
                    RequestDrive, Effects, flowVars, vars
<1>3. Disturb => disturbed' \in 0..MaxDisturbed
  BY MaxDisturbedAssumption DEF Disturb, FlowTyped
<1>4. CASE KeyExpires
  BY <1>3, <1>4 DEF KeyExpires, FlowTyped
<1>5. ASSUME NEW r \in Rides, NEW l \in seen[r], Stores(r, l) \/ StoresSame(r, l)
      PROVE  FlowTyped'
  <2>1. flow' \in [Rides -> 1..(Len(Order) + 1)]
    BY <1>5, ProceedTyped DEF Stores, StoresSame
  <2>. QED  BY <1>5, <2>1 DEF Stores, StoresSame, FlowTyped
<1>6. ASSUME NEW r \in Rides, StoresNothing(r) \/ StoreFails(r)
      PROVE  FlowTyped'
  <2>1. flow' \in [Rides -> 1..(Len(Order) + 1)]
    BY <1>6, ProceedTyped DEF StoresNothing, StoreFails
  <2>. QED  BY <1>6, <2>1 DEF StoresNothing, StoreFails, FlowTyped
<1>7. ASSUME NEW r \in Rides, DeliveredAgain(r)
      PROVE  FlowTyped'
  <2>1. flow' \in [Rides -> 1..(Len(Order) + 1)]
    BY <1>7, OrderIs DEF DeliveredAgain, Finding, FlowTyped
  <2>. QED  BY <1>3, <1>7, <2>1 DEF DeliveredAgain, FlowTyped
<1>8. ASSUME NEW r \in Rides, PostAnswered(r) \/ PostFails(r) \/ Reads(r)
      PROVE  FlowTyped'
  BY <1>1, <1>8 DEF PostAnswered, PostFails, Reads, flowVars
<1>9. ASSUME NEW p \in Polls, PagePollStep(p)
      PROVE  FlowTyped'
  BY <1>1, <1>9 DEF PagePollStep, Asks, IsAnswered, Shows, Fails, flowVars
<1>. QED  BY <1>2, <1>4, <1>5, <1>6, <1>7, <1>8, <1>9 DEF Next, RideStep, StoreStep

(* The notifications of the rides.  Store looks for a notification in the list,
   so a repeated delivery adds to it only what it does not hold.  What a Store has
   read is put back later with the notification, which is not in it either.  *)

SameInfo(k, n) == about[k].request = about[n].request /\ about[k].step = about[n].step

(* No notification is twice in the list l. *)
HeldOnce(l) == \A i, j \in DOMAIN l : SameInfo(l[i], l[j]) => i = j

Lacks(l, r, step) == \A i \in DOMAIN l : ~(about[l[i]].request = r /\ about[l[i]].step = step)

(* What the Stores under way have read. *)
SeenInv == \A r \in Rides : \A l \in seen[r] : HeldOnce(l) /\ Lacks(l, r, Step(r))

AboutInv == /\ TypeInv
            /\ about \in Seq(Notification)
            /\ Len(about) = stored
            /\ HeldOnce(log)
            /\ SeenInv
            /\ FlowTyped

LEMMA AboutInvInit == Init => AboutInv
<1>. SUFFICES ASSUME Init PROVE AboutInv
  OBVIOUS
<1>1. TypeInv
  BY TypeInvInit DEF Init
<1>2. about = <<>> /\ log = <<>> /\ stored = 0 /\ \A r \in Rides : seen[r] = {}
  BY WritersAssumption DEF Init, PollInit
<1>3. FlowTyped
  <2>1. flow = [r \in Rides |-> 1] /\ missed = FALSE /\ disturbed = 0
    BY DEF Init
  <2>2. 1 \in 1..(Len(Order) + 1) /\ 0 \in 0..MaxDisturbed
    BY OrderIs, MaxDisturbedAssumption
  <2>3. flow \in [Rides -> 1..(Len(Order) + 1)]
    BY <2>1, <2>2
  <2>. QED  BY <2>1, <2>2, <2>3 DEF FlowTyped
<1>. QED  BY <1>1, <1>2, <1>3, EmptySeq DEF AboutInv, HeldOnce, SeenInv

(* Only Stores adds a notification, and it adds the ride's next. *)
LEMMA AboutChanges ==
    [Next]_vars => about' = about \/ \E r \in Rides : \E l \in seen[r] : Stores(r, l)
BY DEF Next, FormStep, SplashAnswered, SplashFails, SelectPickup, SelectDropoff, Select,
       RequestDrive, Effects, KeyExpires, RideStep, PostAnswered, PostFails, StoreStep, Reads,
       StoresSame, StoresNothing, StoreFails, DeliveredAgain, PagePollStep, Asks, IsAnswered, Shows,
       Fails, flowVars, vars

LEMMA StepIs ==
    ASSUME NEW r \in Rides, Dispatching(r)
    PROVE  flow[r] \in 1..6 /\ Step(r) \in 1..5
BY OrderIs DEF Dispatching, Step

LEMMA StoresOne ==
    ASSUME AboutInv, NEW r \in Rides, NEW l, Stores(r, l)
    PROVE  \E new \in Notification :
              /\ new.request = r /\ new.step = Step(r) /\ new.plate \in Plates(Step(r))
              /\ DOMAIN about = 1..stored /\ DOMAIN about' = 1..(stored + 1) /\ stored \in Nat
              /\ about'[stored + 1] = new
              /\ \A k \in 1..stored : about'[k] = about[k]
<1>1. PICK plate \in Plates(Step(r)) : about' = Append(about, Info(r, Step(r), plate))
  BY DEF Stores
<1>. DEFINE new == Info(r, Step(r), plate)
<1>2. new \in Notification
  <2>1. DOMAIN Services = 1..5
    BY DEF Services
  <2>2. Step(r) \in 1..5
    BY StepIs DEF Stores
  <2>. QED  BY <2>1, <2>2 DEF Plates, Notification, Info
<1>3. new.request = r /\ new.step = Step(r) /\ new.plate \in Plates(Step(r))
  BY DEF Info
<1>. HIDE DEF new
<1>4. /\ DOMAIN about = 1..stored /\ DOMAIN about' = 1..(stored + 1) /\ stored \in Nat
      /\ about'[stored + 1] = new
      /\ \A k \in 1..stored : about'[k] = about[k]
  BY <1>1, <1>2, AppendProperties, LenProperties DEF new, AboutInv
<1>. QED  BY <1>2, <1>3, <1>4

(* A Store that ends leaves what others have read. *)
LEMMA EndsOne ==
    ASSUME TypeInv, NEW r \in Rides, NEW l, Ends(r, l)
    PROVE  \A w \in Rides : seen'[w] \subseteq seen[w]
BY EndsKeeps, WritersAssumption

(* What is stored later says nothing else of a list of what was stored. *)
LEMMA ListStays ==
    ASSUME NEW l, l \in Seq(Entries), Within(l, stored), stored \in Nat, NEW r, NEW step,
           \A k \in 1..stored : about'[k] = about[k]
    PROVE  /\ \A i \in DOMAIN l : about'[l[i]] = about[l[i]]
           /\ HeldOnce(l) => HeldOnce(l)'
           /\ Lacks(l, r, step) => Lacks(l, r, step)'
<1>1. \A i \in DOMAIN l : l[i] \in 1..stored
  <2>1. \A i \in 1..Len(l) : l[i] \in Entries /\ l[i] <= stored
    BY ElementOfSeq DEF Within
  <2>. QED  BY <2>1, LenProperties, MaxStoredAssumption DEF Entries
<1>2. \A i \in DOMAIN l : about'[l[i]] = about[l[i]]
  BY <1>1
<1>. QED  BY <1>2 DEF HeldOnce, SameInfo, Lacks

(* What was read stays as it is as long as the ride's Store is under way. *)
LEMMA SeenInvStays ==
    ASSUME AboutInv, \A k \in 1..stored : about'[k] = about[k],
           \A w \in Rides : \A l \in seen'[w] :
               (l \in seen[w] \/ (l = log /\ Lacks(log, w, Step(w)))) /\ flow'[w] = flow[w]
    PROVE  SeenInv'
<1>. SUFFICES ASSUME NEW w \in Rides, NEW l \in seen'[w]
              PROVE  HeldOnce(l)' /\ Lacks(l, w, Step(w))'
  BY DEF SeenInv
<1>1. HeldOnce(l) /\ Lacks(l, w, Step(w)) /\ Step(w)' = Step(w)
  BY DEF AboutInv, SeenInv, Step
<1>2. l \in Seq(Entries) /\ Within(l, stored) /\ stored \in Nat
  BY WritersAssumption, MaxStoredAssumption DEF AboutInv, TypeInv, PollTypeOK, LogOK
<1>3. PICK step : step = Step(w) /\ step = Step(w)'
  BY <1>1
<1>4. HeldOnce(l)' /\ Lacks(l, w, step)'
  BY <1>1, <1>2, <1>3, ListStays
<1>. QED  BY <1>3, <1>4

(* The list that a Store writes holds no notification twice. *)
LEMMA StoresKeepsAbout ==
    ASSUME AboutInv, NEW r \in Rides, NEW l \in seen[r], Stores(r, l), TypeInv', FlowTyped'
    PROVE  AboutInv'
<1>1. PICK new \in Notification :
         /\ new.request = r /\ new.step = Step(r)
         /\ DOMAIN about = 1..stored /\ DOMAIN about' = 1..(stored + 1) /\ stored \in Nat
         /\ about'[stored + 1] = new
         /\ \A k \in 1..stored : about'[k] = about[k]
  BY StoresOne
<1>2. /\ l \in Seq(Entries) /\ Len(l) \in Nat /\ DOMAIN l = 1..Len(l) /\ Within(l, stored)
      /\ \A i \in 1..Len(l) : l[i] \in 1..stored
  <2>1. l \in Seq(Entries) /\ Within(l, stored)
    BY WritersAssumption DEF AboutInv, TypeInv, PollTypeOK, LogOK
  <2>2. \A i \in 1..Len(l) : l[i] \in Entries
    BY <2>1, ElementOfSeq
  <2>. QED  BY <1>1, <2>1, <2>2, LenProperties DEF Within, Entries
<1>3. HeldOnce(l) /\ Lacks(l, r, Step(r))
  BY DEF AboutInv, SeenInv
<1>4. about' \in Seq(Notification) /\ Len(about') = stored + 1
  <2>1. PICK plate \in Plates(Step(r)) : about' = Append(about, Info(r, Step(r), plate))
    BY DEF Stores
  <2>2. about'[stored + 1] = Info(r, Step(r), plate)
    BY <2>1 DEF AboutInv
  <2>. QED  BY <1>1, <2>1, <2>2, AppendProperties DEF AboutInv
<1>5. /\ stored' = stored + 1 /\ log' = Append(l, stored + 1) /\ stored + 1 \in Entries
      /\ \A w \in Rides : seen'[w] \subseteq seen[w]
  BY <1>1, EndsOne, MaxStoredAssumption DEF Stores, Write, Entries, AboutInv
<1>6. /\ DOMAIN log' = 1..(Len(l) + 1)
      /\ log'[Len(l) + 1] = stored + 1
      /\ \A i \in 1..Len(l) : log'[i] = l[i]
  <2>1. log' \in Seq(Entries) /\ Len(log') = Len(l) + 1
    BY <1>2, <1>5, AppendProperties
  <2>. QED  BY <1>2, <1>5, <2>1, AppendProperties, LenProperties
<1>7. \A i \in 1..Len(l) : ~(about[l[i]].request = r /\ about[l[i]].step = Step(r))
  BY <1>2, <1>3 DEF Lacks
<1>8. HeldOnce(log)'
  <2>. SUFFICES ASSUME NEW i \in 1..(Len(l) + 1), NEW j \in 1..(Len(l) + 1), i # j,
                       about'[log'[i]].request = about'[log'[j]].request,
                       about'[log'[i]].step = about'[log'[j]].step
                PROVE  FALSE
    BY <1>6 DEF HeldOnce, SameInfo
  <2>1. CASE i = Len(l) + 1
    <3>1. j \in 1..Len(l)
      BY <1>2, <2>1
    <3>. QED  BY <1>1, <1>2, <1>6, <1>7, <2>1, <3>1
  <2>2. CASE j = Len(l) + 1
    <3>1. i \in 1..Len(l)
      BY <1>2, <2>2
    <3>. QED  BY <1>1, <1>2, <1>6, <1>7, <2>2, <3>1
  <2>3. CASE i # Len(l) + 1 /\ j # Len(l) + 1
    <3>1. i \in 1..Len(l) /\ j \in 1..Len(l)
      BY <1>2, <2>3
    <3>2. about'[log'[i]] = about[l[i]] /\ about'[log'[j]] = about[l[j]]
      BY <1>1, <1>2, <1>6, <3>1
    <3>3. SameInfo(l[i], l[j])
      BY <3>2 DEF SameInfo
    <3>. QED  BY <1>2, <1>3, <3>1, <3>3 DEF HeldOnce
  <2>. QED  BY <2>1, <2>2, <2>3
<1>9. \A w \in Rides : seen'[w] = {} \/ flow'[w] = flow[w]
  BY ProceedTyped DEF Stores, AboutInv
<1>10. SeenInv'
  BY <1>1, <1>5, <1>9, SeenInvStays
<1>. QED  BY <1>4, <1>5, <1>8, <1>10 DEF AboutInv

LEMMA AboutInvStep == AboutInv /\ [Next]_vars => AboutInv'
<1>. SUFFICES ASSUME AboutInv, [Next]_vars PROVE AboutInv'
  OBVIOUS
<1>1. TypeInv' /\ FlowTyped'
  BY StepsOfPolls, TypeInvStep, FlowTypedStep DEF AboutInv
<1>2. ASSUME UNCHANGED <<about, log, stored, seen, flow>>
      PROVE  AboutInv'
  BY <1>1, <1>2 DEF AboutInv, HeldOnce, SameInfo, SeenInv, Lacks, Step
<1>3. CASE FormStep
  BY <1>2, <1>3 DEF FormStep, SplashAnswered, SplashFails, SelectPickup, SelectDropoff, Select,
                    RequestDrive, pollVars, storeVars, flowVars
<1>4. CASE Effects \/ UNCHANGED vars
  BY <1>2, <1>4 DEF Effects, vars, pollVars, storeVars, flowVars
<1>5. CASE KeyExpires
  BY <1>1, <1>5 DEF KeyExpires, Expire, AboutInv, HeldOnce, SameInfo, SeenInv, Lacks, Step
<1>6. ASSUME NEW r \in Rides, NEW l \in seen[r], Stores(r, l)
      PROVE  AboutInv'
  BY <1>1, <1>6, StoresKeepsAbout
<1>7. ASSUME UNCHANGED <<about, log, stored>>,
             \A w \in Rides : \A l \in seen'[w] :
                 (l \in seen[w] \/ (l = log /\ Lacks(log, w, Step(w)))) /\ flow'[w] = flow[w]
      PROVE  AboutInv'
  <2>1. SeenInv'
    BY <1>7, SeenInvStays
  <2>. QED  BY <1>1, <1>7, <2>1 DEF AboutInv, HeldOnce, SameInfo
<1>8. ASSUME NEW r \in Rides, Reads(r)
      PROVE  AboutInv'
  <2>1. seen \in [Rides -> SUBSET Seq(Entries)]
    BY WritersAssumption DEF AboutInv, TypeInv, PollTypeOK
  <2>2. /\ seen' = [seen EXCEPT ![r] = seen[r] \cup {log}]
        /\ Lacks(log, r, Step(r)) /\ UNCHANGED <<about, log, stored, flow>>
    BY <1>8 DEF Reads, Read, Listed, Lacks, flowVars
  <2>. QED  BY <1>7, <2>1, <2>2
<1>9. ASSUME NEW r \in Rides, NEW l \in seen[r], StoresSame(r, l)
      PROVE  AboutInv'
  <2>1. \A w \in Rides : seen'[w] = {} \/ flow'[w] = flow[w]
    BY <1>9, ProceedTyped DEF StoresSame, AboutInv
  <2>2. \A w \in Rides : seen'[w] \subseteq seen[w]
    BY <1>9, EndsOne DEF StoresSame, GiveUp, AboutInv
  <2>. QED  BY <1>7, <1>9, <2>1, <2>2 DEF StoresSame, GiveUp
<1>10. ASSUME NEW r \in Rides, StoresNothing(r) \/ StoreFails(r)
       PROVE  AboutInv'
  <2>1. \A w \in Rides : seen'[w] = {} \/ flow'[w] = flow[w]
    BY <1>10, ProceedTyped DEF StoresNothing, StoreFails, AboutInv
  <2>2. \A w \in Rides : seen'[w] \subseteq seen[w]
    <3>1. CASE UNCHANGED pollVars
      BY <3>1 DEF pollVars, storeVars
    <3>2. CASE \E l \in seen[r] : GiveUp(r, l)
      BY <3>2, EndsOne DEF GiveUp, AboutInv
    <3>. QED  BY <1>10, <3>1, <3>2 DEF StoresNothing, StoreFails
  <2>3. UNCHANGED <<about, log, stored>>
    BY <1>10 DEF StoresNothing, StoreFails, GiveUp, pollVars, storeVars
  <2>. QED  BY <1>7, <2>1, <2>2, <2>3
<1>11. ASSUME NEW r \in Rides, DeliveredAgain(r)
       PROVE  AboutInv'
  <2>1. flow' = [flow EXCEPT ![r] = Finding] /\ flow \in [Rides -> 1..(Len(Order) + 1)]
    BY <1>11 DEF DeliveredAgain, AboutInv, FlowTyped
  <2>2. seen[r] = {} /\ UNCHANGED <<about, log, stored, seen>>
    BY <1>11 DEF DeliveredAgain, pollVars, storeVars
  <2>. QED  BY <1>7, <2>1, <2>2
<1>12. ASSUME NEW r \in Rides, PostAnswered(r) \/ PostFails(r)
      PROVE  AboutInv'
  BY <1>2, <1>12 DEF PostAnswered, PostFails, pollVars, storeVars, flowVars
<1>13. ASSUME NEW p \in Polls, PagePollStep(p)
      PROVE  AboutInv'
  BY <1>2, <1>13 DEF PagePollStep, Asks, IsAnswered, Shows, Fails, StartPoll, Answer, Show,
                     PollFails, storeVars, flowVars
<1>. QED
  BY <1>3, <1>4, <1>5, <1>6, <1>8, <1>9, <1>10, <1>11, <1>12, <1>13
     DEF Next, RideStep, StoreStep

(* The page, as long as the list is kept and the polls did not overlap, receives
   no notification of a ride twice, however often its message is delivered and
   although the Stores of two rides overlap.                                 *)
ReceivedOnce == Kept /\ ~overlapped =>
                    \A i, j \in DOMAIN shown : SameInfo(shown[i], shown[j]) => i = j

THEOREM RidesReceiveOnce == Spec => []ReceivedOnce
<1>1. Spec => []ExactlyOnce
  BY PagePolls, SinglePollExactlyOnce, PTL
<1>2. Spec => []NoGap
  BY PagePolls, PollingLeavesNoGap, PTL
<1>3. Spec => []AboutInv
  BY AboutInvInit, AboutInvStep, PTL DEF Spec
<1>4. ExactlyOnce /\ NoGap /\ AboutInv => ReceivedOnce
  <2>. SUFFICES ASSUME ExactlyOnce, NoGap, AboutInv, Kept, ~overlapped
                PROVE  \A i, j \in DOMAIN shown : SameInfo(shown[i], shown[j]) => i = j
    BY DEF ReceivedOnce
  <2>1. /\ log \in Seq(Entries) /\ DOMAIN log = 1..Len(log) /\ Len(log) \in Nat
        /\ cursor \in Int /\ cursor >= -1
    BY LenProperties, MaxStoredAssumption DEF AboutInv, TypeInv, PollTypeOK, Cursors
  <2>2. \A i \in 1..(cursor + 1) : i \in DOMAIN log /\ log[i] \in Entries
    BY <2>1, ElementOfSeq DEF NoGap
  <2>3. shown = SubSeq(log, 1, cursor + 1)
    BY DEF ExactlyOnce
  <2>4. /\ shown \in Seq(Entries)
        /\ Len(shown) = IF 1 <= cursor + 1 THEN cursor + 1 - 1 + 1 ELSE 0
        /\ \A i \in 1..(cursor + 1 - 1 + 1) : shown[i] = log[1 + i - 1]
    BY <2>1, <2>2, <2>3, SubSeqProperties
  <2>5. \A i \in DOMAIN shown : i \in DOMAIN log /\ shown[i] = log[i]
    BY <2>1, <2>2, <2>4, LenProperties
  <2>. QED  BY <2>5 DEF AboutInv, HeldOnce, SameInfo
<1>. QED  BY <1>1, <1>2, <1>3, <1>4, PTL

-----------------------------------------------------------------------------
(* What the page holds of the notifications was stored. *)

SourceInv == /\ log \in Seq(1..stored)
             /\ \A w \in Writers : \A l \in seen[w] : l \in Seq(1..stored)
             /\ shown \in Seq(1..stored)
             /\ \A p \in Polls : poll[p].stage = "answer" =>
                                     poll[p].resp.notifications \in Seq(1..stored)

LEMMA SourceInvInit == PollInit => SourceInv
BY EmptySeq DEF PollInit, SourceInv, NoPoll

LEMMA SourceInvStep == TypeInv /\ SourceInv /\ [PollNext]_pollVars => SourceInv'
<1>. SUFFICES ASSUME TypeInv, SourceInv, [PollNext]_pollVars PROVE SourceInv'
  OBVIOUS
<1>1. ASSUME NEW w \in Writers, NEW l \in seen[w], Write(w, l)
      PROVE  SourceInv'
  <2>1. stored \in Nat /\ stored' = stored + 1 /\ log' = Append(l, stored + 1)
    BY <1>1, MaxStoredAssumption DEF Write, TypeInv, PollTypeOK
  <2>2. \A s \in Seq(1..stored) : s \in Seq(1..stored')
    <3>1. 1..stored \subseteq 1..stored'
      BY <2>1
    <3>. QED  BY <3>1, SeqMonotonic
  <2>3. Append(l, stored + 1) \in Seq(1..stored')
    BY <2>1, <2>2, AppendProperties DEF SourceInv
  <2>4. \A v \in Writers : seen'[v] \subseteq seen[v]
    BY <1>1, EndsKeeps DEF Write
  <2>5. \A v \in Writers : \A k \in seen'[v] : k \in Seq(1..stored')
    BY <2>2, <2>4 DEF SourceInv
  <2>6. UNCHANGED <<poll, shown>>
    BY <1>1 DEF Write
  <2>. QED  BY <2>1, <2>2, <2>3, <2>5, <2>6 DEF SourceInv
<1>2. CASE Expire
  BY <1>2, EmptySeq DEF Expire, SourceInv
<1>3. ASSUME NEW p \in Polls, StartPoll(p) \/ PollFails(p)
      PROVE  SourceInv'
  <2>1. UNCHANGED <<log, stored, seen, shown>>
    BY <1>3 DEF StartPoll, PollFails, storeVars
  <2>2. \A q \in Polls : poll'[q].stage = "answer" => poll'[q] = poll[q]
    BY <1>3 DEF StartPoll, PollFails, Asking, NoPoll, TypeInv, PollTypeOK
  <2>. QED  BY <2>1, <2>2 DEF SourceInv
<1>4. ASSUME NEW p \in Polls, Answer(p)
      PROVE  SourceInv'
  <2>. DEFINE from == StartIndex(log, poll[p].cursor)
              ns == ListResponse(log, poll[p].cursor).notifications
  <2>1. log \in Seq(Entries) /\ Len(log) <= MaxStored /\ poll[p].cursor \in Cursors
    <3>1. poll[p].cursor \in Cursors
      BY <1>4 DEF TypeInv, PollTypeOK, Answer, PollStates
    <3>. QED  BY <3>1, LenProperties, MaxStoredAssumption DEF TypeInv, PollTypeOK, LogOK, Within
  <2>2. /\ ns \in Seq(Entries)
        /\ from \in Cursors
        /\ Len(ns) = IF from + 1 < Len(log) THEN Len(log) - from - 1 ELSE 0
        /\ \A i \in 1..Len(ns) : ns[i] = log[from + 1 + i]
    BY <2>1, ListResponseIs DEF Responses
  <2>3. from \in Int /\ from >= -1 /\ Len(log) \in Nat /\ Len(ns) \in Nat
    BY <2>1, <2>2, LenProperties, MaxStoredAssumption DEF Cursors
  <2>4. \A i \in 1..Len(log) : log[i] \in 1..stored
    BY ElementOfSeq DEF SourceInv
  <2>. HIDE DEF from, ns
  <2>5. \A i \in 1..Len(ns) : from + 1 + i \in 1..Len(log)
    BY <2>2, <2>3
  <2>6. ns \in Seq(1..stored)
    <3>1. \A i \in 1..Len(ns) : ns[i] \in 1..stored
      BY <2>2, <2>4, <2>5
    <3>2. ns \in [1..Len(ns) -> 1..stored]
      BY <2>2, <3>1, LenProperties
    <3>. QED  BY <2>3, <3>2, SeqDef
  <2>. QED  BY <1>4, <2>6 DEF ns, Answer, Answered, storeVars, SourceInv, TypeInv, PollTypeOK
<1>5. ASSUME NEW p \in Polls, Show(p)
      PROVE  SourceInv'
  <2>1. shown \o poll[p].resp.notifications \in Seq(1..stored)
    BY <1>5, ConcatProperties DEF Show, SourceInv
  <2>. QED  BY <1>5, <2>1 DEF Show, NoPoll, storeVars, SourceInv, TypeInv, PollTypeOK
<1>6. CASE UNCHANGED pollVars
  BY <1>6 DEF pollVars, storeVars, SourceInv
<1>7. ASSUME NEW w \in Writers, Read(w)
      PROVE  SourceInv'
  <2>1. \A v \in Writers : \A k \in seen'[v] : k \in seen[v] \/ k = log
    BY <1>7 DEF Read, TypeInv, PollTypeOK
  <2>. QED  BY <1>7, <2>1 DEF Read, SourceInv
<1>8. ASSUME NEW w \in Writers, NEW l \in seen[w], GiveUp(w, l)
      PROVE  SourceInv'
  <2>1. \A v \in Writers : seen'[v] \subseteq seen[v]
    BY <1>8, EndsKeeps DEF GiveUp
  <2>. QED  BY <1>8, <2>1 DEF GiveUp, SourceInv
<1>. QED  BY <1>1, <1>2, <1>3, <1>4, <1>5, <1>6, <1>7, <1>8 DEF PollNext, PollStep

-----------------------------------------------------------------------------
(* Types of what the page computes. *)

LEMMA DurationTyped == \A eta \in Int : Duration(eta) \in Durations
<1>. SUFFICES ASSUME NEW eta \in Int PROVE Duration(eta) \in Durations
  OBVIOUS
<1>. DEFINE all == IF eta < 0 THEN -eta ELSE eta
<1>1. all \in Nat
  OBVIOUS
<1>. HIDE DEF all
<1>2. /\ all \div 3600 \in Nat
      /\ (all % 3600) \div 60 \in 0..59
      /\ all % 60 \in 0..59
  BY <1>1
<1>3. Duration(eta) = [negative |-> eta < 0, hours |-> all \div 3600,
                       minutes |-> (all % 3600) \div 60, seconds |-> all % 60]
  BY DEF Duration, all
<1>4. (eta < 0) \in BOOLEAN
  OBVIOUS
<1>. QED  BY <1>2, <1>3, <1>4 DEF Durations

LEMMA StatusTyped ==
    \A plate \in Drivers \cup {Undefined} :
        Status(plate) \in [plate : Drivers \cup {Undefined}, time : Durations \cup {Undefined}]
<1>1. \A plate \in Drivers : ETA[plate] \in Int
  <2>1. Readable \subseteq Int
    BY DEF Readable
  <2>. QED  BY <2>1, ETAAssumption
<1>. QED  BY <1>1, DurationTyped DEF Status

LEMMA RequestedTyped == Requested \in OfType("info") /\ RequestFailed \in OfType("error")
<1>1. Status(Undefined) \in [plate : Drivers \cup {Undefined}, time : Durations \cup {Undefined}]
  BY StatusTyped
<1>. QED  BY <1>1 DEF Requested, RequestFailed, OfType, LogEntry

LEMMA EntryTyped ==
    ASSUME about \in Seq(Notification), NEW k \in DOMAIN about
    PROVE  Entry(k) \in OfType("info")
<1>1. about[k] \in Notification
  BY LenProperties, ElementOfSeq
<1>2. Status(about[k].plate) \in [plate : Drivers \cup {Undefined}, time : Durations \cup {Undefined}]
  BY <1>1, StatusTyped DEF Notification
<1>3. Services[about[k].step] \in {"browser", "api", "frontend", "location", "driver", "route"}
  BY <1>1 DEF Notification, Services
<1>. QED  BY <1>2, <1>3 DEF Entry, OfType, LogEntry

LEMMA EntriesTyped ==
    ASSUME about \in Seq(Notification), NEW ks \in Seq(1..Len(about)), NEW r \in Rides
    PROVE  EntriesOf(ks)[r] \in Seq(OfType("info"))
<1>. DEFINE own == Filter(ks, Of(r))
<1>1. own \in Seq(1..Len(about)) /\ DOMAIN about = 1..Len(about)
  BY FilterInSeq, LenProperties
<1>. HIDE DEF own
<1>2. \A i \in DOMAIN own : Entry(own[i]) \in OfType("info")
  BY <1>1, LenProperties, ElementOfSeq, EntryTyped
<1>3. [i \in DOMAIN own |-> Entry(own[i])] \in Seq(OfType("info"))
  <2>1. DOMAIN own = 1..Len(own) /\ Len(own) \in Nat
    BY <1>1, LenProperties
  <2>2. [i \in DOMAIN own |-> Entry(own[i])] \in [1..Len(own) -> OfType("info")]
    BY <1>2, <2>1
  <2>. QED  BY <2>1, <2>2, SeqDef
<1>. QED  BY <1>3 DEF EntriesOf, own

LEMMA EntriesGiven ==
    ASSUME NEW ls \in Seq(Log), NEW new \in [Rides -> Seq(LogEntry)]
    PROVE  /\ AddEntries(ls, new) \in Seq(Log)
           /\ DOMAIN AddEntries(ls, new) = DOMAIN ls
           /\ \A i \in DOMAIN ls :
                 /\ AddEntries(ls, new)[i].requestID = ls[i].requestID
                 /\ AddEntries(ls, new)[i].entries = ls[i].entries \o new[ls[i].requestID]
<1>1. DOMAIN ls = 1..Len(ls) /\ Len(ls) \in Nat /\ \A i \in 1..Len(ls) : ls[i] \in Log
  BY LenProperties, ElementOfSeq
<1>2. \A i \in 1..Len(ls) : ls[i].entries \o new[ls[i].requestID] \in Seq(LogEntry)
  BY <1>1, ConcatProperties DEF Log
<1>3. \A i \in 1..Len(ls) : [ls[i] EXCEPT !.entries = @ \o new[ls[i].requestID]] \in Log
  BY <1>1, <1>2 DEF Log
<1>4. AddEntries(ls, new) \in Seq(Log)
  <2>1. AddEntries(ls, new) \in [1..Len(ls) -> Log]
    BY <1>1, <1>3 DEF AddEntries
  <2>. QED  BY <1>1, <2>1, SeqDef
<1>. QED  BY <1>1, <1>4 DEF AddEntries, Log

Arrivals == [arrival : Int \cup {Undefined}, plate : Drivers \cup {Undefined}]

LEMMA ArrivalTyped ==
    ASSUME NEW ls \in Seq(Log), ls # <<>>
    PROVE  RequestArrival(ls) \in Arrivals
<1>. DEFINE timed == Filter(ls[1].entries, Timed)
            named == Filter(ls[1].entries, Named)
<1>1. ls[1].entries \in Seq(LogEntry)
  <2>1. 1 \in 1..Len(ls)
    BY EmptySeq, LenProperties
  <2>2. ls[1] \in Log
    BY <2>1, ElementOfSeq
  <2>. QED  BY <2>2 DEF Log
<1>2. timed \in Seq(LogEntry \cap Timed) /\ named \in Seq(LogEntry \cap Named)
  BY <1>1, FilterType
<1>3. RequestArrival(ls) = [arrival |-> IF timed = <<>> THEN Undefined ELSE ParseDriverLog(Head(timed)),
                            plate   |-> IF named = <<>> THEN Undefined ELSE Head(named).status.plate]
  BY DEF RequestArrival
<1>. HIDE DEF timed, named
<1>4. timed # <<>> => Head(timed) \in LogEntry \cap Timed
  BY <1>2, HeadTailProperties
<1>5. named # <<>> => Head(named) \in LogEntry
  BY <1>2, HeadTailProperties
<1>6. \A d \in Durations : Seconds(d) \in Int
  <2>. SUFFICES ASSUME NEW d \in Durations PROVE Seconds(d) \in Int
    OBVIOUS
  <2>. DEFINE total == d.minutes * 60 + d.seconds
  <2>1. total \in Int
    <3>1. d.minutes \in 0..59 /\ d.seconds \in 0..59
      BY DEF Durations
    <3>2. \A m, n \in 0..59 : m * 60 + n \in Int
      OBVIOUS
    <3>. QED  BY <3>1, <3>2
  <2>2. Seconds(d) = IF d.negative /\ d.hours = 0 THEN -total ELSE total
    BY DEF Seconds
  <2>. HIDE DEF total
  <2>. QED  BY <2>1, <2>2
<1>7. \A e \in LogEntry \cap Timed : ParseDriverLog(e) \in Int
  BY <1>6 DEF Timed, ParseDriverLog, LogEntry
<1>8. \A e \in LogEntry : e.status.plate \in Drivers \cup {Undefined}
  BY DEF LogEntry
<1>. QED  BY <1>3, <1>4, <1>5, <1>7, <1>8 DEF Arrivals

LEMMA RouteTyped ==
    ASSUME NEW sel \in [pickup : Locations \cup {Unselected, NaN},
                        dropoff : Locations \cup {Unselected, NaN}]
    PROVE  Route(sel) \subseteq Locations \X Locations
<1>1. \A c \in COORDINATES : c # Unselected /\ c # NaN
  BY LocationsAssumption DEF COORDINATES, Unselected
<1>. QED  BY <1>1 DEF Route

-----------------------------------------------------------------------------
(* Type correctness. *)

TypedInv == TypeOK /\ AboutInv /\ LogsInv /\ SourceInv

LEMMA TypedInvInit == Init => TypedInv
<1>. SUFFICES ASSUME Init PROVE TypedInv
  OBVIOUS
<1>1. AboutInv /\ LogsInv /\ SourceInv
  BY AboutInvInit, LogsInvInit, SourceInvInit DEF Init
<1>2. PollTypeOK /\ about \in Seq(Notification) /\ Len(about) = stored
  BY <1>1 DEF AboutInv, TypeInv
<1>3. /\ page = "loading" /\ locations = {} /\ selected = NothingSelected
      /\ lastRequestID = 1 /\ logs = <<>> /\ post = [r \in Rides |-> "none"]
      /\ flow = [r \in Rides |-> 1] /\ missed = FALSE /\ disturbed = 0
      /\ driver = NoDriver /\ drawn = {} /\ viewed = {} /\ stale = FALSE
  BY DEF Init
<1>4. selected \in [pickup : Locations \cup {Unselected, NaN},
                    dropoff : Locations \cup {Unselected, NaN}]
  BY <1>3 DEF NothingSelected
<1>5. driver \in [arrival : Int \cup {Undefined}, plate : Drivers \cup {Undefined}]
  BY <1>3 DEF NoDriver
<1>6. lastRequestID \in 1..(MaxRides + 1)
  BY <1>3, MaxRidesAssumption
<1>7. disturbed \in 0..MaxDisturbed
  BY <1>3, MaxDisturbedAssumption
<1>8. flow \in [Rides -> 1..(Len(Order) + 1)]
  BY <1>1 DEF AboutInv, FlowTyped
<1>9. logs \in Seq(Log)
  BY <1>3, EmptySeq
<1>10. post \in [Rides -> {"none", "sent", "answered", "failed"}]
  BY <1>3
<1>11. TypeOK
  BY <1>2, <1>3, <1>4, <1>5, <1>6, <1>7, <1>8, <1>9, <1>10 DEF TypeOK
<1>. QED  BY <1>1, <1>11 DEF TypedInv

(* The parts of TypeOK that are not about the polls, by the actions that
   change them.                                                              *)
FormTyped == /\ page \in {"loading", "failed", "ready", "crashed"}
             /\ locations \in SUBSET Locations
             /\ selected \in [pickup : Locations \cup {Unselected, NaN},
                              dropoff : Locations \cup {Unselected, NaN}]
             /\ lastRequestID \in 1..(MaxRides + 1)

RidesTyped == /\ logs \in Seq(Log)
              /\ post \in [Rides -> {"none", "sent", "answered", "failed"}]

ViewTyped == /\ driver \in [arrival : Int \cup {Undefined}, plate : Drivers \cup {Undefined}]
             /\ drawn \in SUBSET (Locations \X Locations)
             /\ viewed \in SUBSET (Locations \X Locations)
             /\ stale \in BOOLEAN

LEMMA TypeParts ==
    AboutInv => (TypeOK <=> FormTyped /\ RidesTyped /\ FlowTyped /\ ViewTyped)
BY DEF AboutInv, TypeInv, TypeOK, FormTyped, RidesTyped, FlowTyped, ViewTyped

LEMMA FormTypedStep == TypedInv /\ FormTyped /\ [Next]_vars => FormTyped'
<1>. SUFFICES ASSUME TypedInv, FormTyped, [Next]_vars PROVE FormTyped'
  OBVIOUS
<1>1. ASSUME UNCHANGED formVars
      PROVE  FormTyped'
  BY <1>1 DEF formVars, FormTyped
<1>2. CASE SplashAnswered \/ SplashFails
  BY <1>2 DEF SplashAnswered, SplashFails, PageWith, Tables, FormTyped
<1>3. CASE SelectPickup \/ SelectDropoff
  BY <1>3 DEF SelectPickup, SelectDropoff, Select, Choices, FormTyped
<1>4. CASE RequestDrive
  <2>1. lastRequestID' \in 1..(MaxRides + 1)
    BY <1>4, MaxRidesAssumption DEF RequestDrive, FormTyped, Rides
  <2>. QED  BY <1>4, <2>1 DEF RequestDrive, NothingSelected, FormTyped
<1>5. CASE Effects \/ KeyExpires \/ UNCHANGED vars
  BY <1>1, <1>5 DEF Effects, KeyExpires, pageVars, vars
<1>6. ASSUME NEW r \in Rides, RideStep(r)
      PROVE  FormTyped'
  BY <1>1, <1>6, DispatchFrame DEF RideStep, PostAnswered, PostFails, pageVars
<1>7. ASSUME NEW p \in Polls, PagePollStep(p)
      PROVE  FormTyped'
  BY <1>1, <1>7 DEF PagePollStep, Asks, IsAnswered, Shows, Fails, pageVars
<1>. QED  BY <1>2, <1>3, <1>4, <1>5, <1>6, <1>7 DEF Next, FormStep

(* The entries of an answer, and the entry of a request that failed, as they
   are given to the logs.                                                    *)
LEMMA AnswersTyped ==
    ASSUME TypedInv, NEW p \in Polls, Shows(p)
    PROVE  /\ poll[p].resp.notifications \in Seq(1..Len(about))
           /\ EntriesOf(poll[p].resp.notifications) \in [Rides -> Seq(OfType("info"))]
           /\ EntriesOf(poll[p].resp.notifications) \in [Rides -> Seq(LogEntry)]
<1>. DEFINE ns == poll[p].resp.notifications
<1>1. ns \in Seq(1..Len(about)) /\ about \in Seq(Notification)
  BY DEF Shows, Show, TypedInv, SourceInv, AboutInv
<1>2. \A r \in Rides : EntriesOf(ns)[r] \in Seq(OfType("info"))
  BY <1>1, EntriesTyped
<1>3. \A r \in Rides : EntriesOf(ns)[r] \in Seq(LogEntry)
  <2>1. OfType("info") \subseteq LogEntry
    BY DEF OfType
  <2>. QED  BY <1>2, <2>1, SeqMonotonic
<1>4. EntriesOf(ns) = [r \in Rides |-> EntriesOf(ns)[r]]
  BY DEF EntriesOf
<1>. QED  BY <1>1, <1>2, <1>3, <1>4

LEMMA ErrorTyped ==
    ASSUME NEW r \in Rides
    PROVE  [q \in Rides |-> IF q = r THEN <<RequestFailed>> ELSE <<>>] \in [Rides -> Seq(LogEntry)]
<1>1. RequestFailed \in LogEntry
  BY RequestedTyped DEF OfType
<1>2. <<RequestFailed>> \in Seq(LogEntry) /\ <<>> \in Seq(LogEntry)
  BY <1>1, EmptySeq
<1>. QED  BY <1>2

(* The log of the ride that is requested. *)
LEMMA NewLog ==
    ASSUME TypedInv, RequestDrive
    PROVE  \E new \in Log : /\ new.requestID = lastRequestID
                            /\ new.entries = <<Requested>>
                            /\ logs' = <<new>> \o logs
<1>. DEFINE new == [requestID |-> lastRequestID, pickup |-> selected.pickup,
                    dropoff |-> selected.dropoff, entries |-> <<Requested>>]
<1>1. selected.pickup \in locations /\ selected.dropoff \in locations
  BY DEF TypedInv, LogsInv, RequestDrive, Enabled, Selection
<1>2. logs' = <<new>> \o logs
  BY <1>1 DEF RequestDrive, AddNewLog, Find, GetLastRequestID
<1>3. <<Requested>> \in Seq(LogEntry)
  <2>1. Requested \in LogEntry
    BY RequestedTyped DEF OfType
  <2>. QED  BY <2>1
<1>4. lastRequestID \in Rides /\ locations \subseteq Locations
  BY DEF RequestDrive, TypedInv, TypeOK
<1>5. new \in Log
  BY <1>1, <1>3, <1>4 DEF Log
<1>6. new.requestID = lastRequestID /\ new.entries = <<Requested>>
  OBVIOUS
<1>. HIDE DEF new
<1>. QED  BY <1>2, <1>5, <1>6

LEMMA RidesTypedStep == TypedInv /\ RidesTyped /\ [Next]_vars => RidesTyped'
<1>. SUFFICES ASSUME TypedInv, RidesTyped, [Next]_vars PROVE RidesTyped'
  OBVIOUS
<1>1. ASSUME UNCHANGED <<logs, post>>
      PROVE  RidesTyped'
  BY <1>1 DEF RidesTyped
<1>2. CASE SplashAnswered \/ SplashFails \/ SelectPickup \/ SelectDropoff
  BY <1>1, <1>2 DEF SplashAnswered, SplashFails, SelectPickup, SelectDropoff, Select
<1>3. CASE RequestDrive
  <2>1. PICK new \in Log : logs' = <<new>> \o logs
    BY <1>3, NewLog
  <2>2. logs' \in Seq(Log)
    <3>1. <<new>> \in Seq(Log)
      OBVIOUS
    <3>. QED  BY <2>1, <3>1, ConcatProperties DEF RidesTyped
  <2>. QED  BY <1>3, <2>2 DEF RequestDrive, RidesTyped
<1>4. CASE Effects \/ KeyExpires \/ UNCHANGED vars
  BY <1>1, <1>4 DEF Effects, KeyExpires, pageVars, vars
<1>5. ASSUME NEW r \in Rides, PostAnswered(r)
      PROVE  RidesTyped'
  BY <1>5 DEF PostAnswered, RidesTyped
<1>6. ASSUME NEW r \in Rides, PostFails(r)
      PROVE  RidesTyped'
  <2>1. logs' \in Seq(Log)
    BY <1>6, ErrorTyped, EntriesGiven DEF PostFails, AddErrorEntry, RidesTyped
  <2>. QED  BY <1>6, <2>1 DEF PostFails, RidesTyped
<1>7. ASSUME NEW r \in Rides, StoreStep(r) \/ DeliveredAgain(r)
      PROVE  RidesTyped'
  BY <1>1, <1>7, DispatchFrame DEF pageVars
<1>8. ASSUME NEW p \in Polls, Shows(p)
      PROVE  RidesTyped'
  <2>1. logs' \in Seq(Log)
    BY <1>8, AnswersTyped, EntriesGiven DEF Shows, RidesTyped
  <2>. QED  BY <1>8, <2>1 DEF Shows, RidesTyped
<1>9. ASSUME NEW p \in Polls, Asks(p) \/ IsAnswered(p) \/ Fails(p)
      PROVE  RidesTyped'
  BY <1>1, <1>9 DEF Asks, IsAnswered, Fails, pageVars
<1>. QED  BY <1>2, <1>3, <1>4, <1>5, <1>6, <1>7, <1>8, <1>9 DEF Next, FormStep, RideStep, PagePollStep

LEMMA ViewTypedStep == TypedInv /\ ViewTyped /\ [Next]_vars => ViewTyped'
<1>. SUFFICES ASSUME TypedInv, ViewTyped, [Next]_vars PROVE ViewTyped'
  OBVIOUS
<1>1. ASSUME UNCHANGED viewVars, stale' \in {stale, TRUE}
      PROVE  ViewTyped'
  BY <1>1 DEF viewVars, ViewTyped
<1>2. CASE FormStep
  BY <1>1, <1>2 DEF FormStep, SplashAnswered, SplashFails, SelectPickup, SelectDropoff, Select,
                    RequestDrive
<1>3. CASE Effects
  <2>1. driver' \in [arrival : Int \cup {Undefined}, plate : Drivers \cup {Undefined}]
    BY <1>3, ArrivalTyped DEF Effects, ViewTyped, Arrivals, TypedInv, TypeOK
  <2>2. Route(selected) \subseteq Locations \X Locations
    BY RouteTyped DEF TypedInv, TypeOK
  <2>. QED  BY <1>3, <2>1, <2>2 DEF Effects, Centre, ViewTyped
<1>4. CASE KeyExpires \/ UNCHANGED vars
  BY <1>1, <1>4 DEF KeyExpires, pageVars, vars
<1>5. ASSUME NEW r \in Rides, RideStep(r)
      PROVE  ViewTyped'
  BY <1>1, <1>5, DispatchFrame DEF RideStep, PostAnswered, PostFails, pageVars, ViewTyped
<1>6. ASSUME NEW p \in Polls, PagePollStep(p)
      PROVE  ViewTyped'
  <2>1. stale' \in {stale, TRUE}
    BY <1>6 DEF PagePollStep, Asks, IsAnswered, Shows, Fails, pageVars, ViewTyped
  <2>. QED  BY <1>1, <1>6, <2>1 DEF PagePollStep, Asks, IsAnswered, Shows, Fails, pageVars
<1>. QED  BY <1>2, <1>3, <1>4, <1>5, <1>6 DEF Next

LEMMA TypedInvStep == TypedInv /\ [Next]_vars => TypedInv'
<1>. SUFFICES ASSUME TypedInv, [Next]_vars PROVE TypedInv'
  OBVIOUS
<1>1. AboutInv' /\ LogsInv' /\ SourceInv'
  BY AboutInvStep, LogsInvStep, SourceInvStep, StepsOfPolls DEF TypedInv, AboutInv
<1>2. FormTyped' /\ RidesTyped' /\ FlowTyped' /\ ViewTyped'
  BY TypeParts, FormTypedStep, RidesTypedStep, FlowTypedStep, ViewTypedStep DEF TypedInv
<1>3. TypeOK'
  BY <1>1, <1>2 DEF AboutInv, TypeInv, TypeOK, FormTyped, RidesTyped, FlowTyped, ViewTyped
<1>. QED  BY <1>1, <1>3 DEF TypedInv

(* The page, its polls and its rides are always well formed. *)
THEOREM PageTypeCorrect == Spec => []TypeOK
<1>1. TypedInv => TypeOK
  BY DEF TypedInv
<1>. QED  BY <1>1, TypedInvInit, TypedInvStep, PTL DEF Spec

-----------------------------------------------------------------------------
(* The entries of the logs. *)

(* A ride has been requested or has no notifications. *)
PostInv == /\ \A r \in Rides : r >= lastRequestID => post[r] = "none"
           /\ \A k \in DOMAIN about : post[about[k].request] # "none"

LEMMA PostInvStep == TypedInv /\ PostInv /\ [Next]_vars => PostInv'
<1>. SUFFICES ASSUME TypedInv, PostInv, [Next]_vars PROVE PostInv'
  OBVIOUS
<1>1. ASSUME UNCHANGED <<post, about, lastRequestID>>
      PROVE  PostInv'
  BY <1>1 DEF PostInv
<1>2. \A k \in DOMAIN about : about[k].request \in Rides
  <2>1. \A k \in DOMAIN about : about[k] \in Notification
    BY LenProperties, ElementOfSeq DEF TypedInv, TypeOK
  <2>. QED  BY <2>1 DEF Notification
<1>3. post \in [Rides -> {"none", "sent", "answered", "failed"}]
  BY DEF TypedInv, TypeOK
<1>4. CASE RequestDrive
  <2>1. lastRequestID \in Nat /\ lastRequestID' = lastRequestID + 1 /\ about' = about
    BY <1>4 DEF RequestDrive, flowVars, TypedInv, TypeOK
  <2>2. post' = [post EXCEPT ![lastRequestID] = "sent"]
    BY <1>4 DEF RequestDrive, GetLastRequestID
  <2>3. \A r \in Rides : r >= lastRequestID + 1 => r >= lastRequestID /\ r # lastRequestID
    BY <2>1 DEF Rides
  <2>4. \A r \in Rides : r >= lastRequestID' => post'[r] = "none"
    BY <1>3, <2>1, <2>2, <2>3 DEF PostInv
  <2>5. \A r \in Rides : post'[r] = post[r] \/ post'[r] = "sent"
    BY <1>3, <2>2
  <2>. QED  BY <1>2, <2>1, <2>4, <2>5 DEF PostInv
<1>5. ASSUME NEW r \in Rides, PostAnswered(r) \/ PostFails(r)
      PROVE  PostInv'
  BY <1>2, <1>3, <1>5 DEF PostAnswered, PostFails, formVars, flowVars, PostInv
<1>6. ASSUME NEW r \in Rides, NEW l \in seen[r], Stores(r, l)
      PROVE  PostInv'
  <2>1. PICK new \in Notification :
           /\ new.request = r
           /\ DOMAIN about = 1..stored /\ DOMAIN about' = 1..(stored + 1) /\ stored \in Nat
           /\ about'[stored + 1] = new
           /\ \A k \in 1..stored : about'[k] = about[k]
    BY <1>6, StoresOne DEF TypedInv
  <2>2. post[r] # "none" /\ post' = post /\ lastRequestID' = lastRequestID
    BY <1>6 DEF Stores, Dispatching, pageVars, formVars
  <2>3. ASSUME NEW k \in DOMAIN about' PROVE post'[about'[k].request] # "none"
    <3>1. CASE k \in 1..stored
      BY <2>1, <2>2, <3>1 DEF PostInv
    <3>2. CASE k = stored + 1
      BY <2>1, <2>2, <3>2
    <3>. QED  BY <2>1, <3>1, <3>2
  <2>. QED  BY <2>2, <2>3 DEF PostInv
<1>7. CASE SplashAnswered \/ SplashFails \/ SelectPickup \/ SelectDropoff \/ Effects
  BY <1>1, <1>7 DEF SplashAnswered, SplashFails, SelectPickup, SelectDropoff, Select, Effects,
                    flowVars, formVars
<1>8. CASE KeyExpires \/ UNCHANGED vars
  BY <1>1, <1>8 DEF KeyExpires, vars, pageVars, formVars, flowVars
<1>9. ASSUME NEW r \in Rides, StoreStep(r) \/ DeliveredAgain(r), UNCHANGED about
      PROVE  PostInv'
  BY <1>1, <1>9, DispatchFrame DEF pageVars, formVars
<1>11. ASSUME NEW r \in Rides, StoreStep(r) \/ DeliveredAgain(r)
       PROVE  PostInv'
  <2>1. UNCHANGED about \/ (\E l \in seen[r] : Stores(r, l))
    BY <1>11 DEF StoreStep, Reads, StoresSame, StoresNothing, StoreFails, DeliveredAgain, flowVars
  <2>. QED  BY <1>6, <1>9, <1>11, <2>1
<1>10. ASSUME NEW p \in Polls, PagePollStep(p)
      PROVE  PostInv'
  BY <1>1, <1>10 DEF PagePollStep, Asks, IsAnswered, Shows, Fails, flowVars, pageVars, formVars
<1>. QED  BY <1>4, <1>5, <1>7, <1>8, <1>10, <1>11 DEF Next, FormStep, RideStep

(* What is stored later does not change the entries of what was stored. *)
LEMMA EntriesStay ==
    ASSUME AboutInv, [Next]_vars, NEW ks \in Seq(1..stored)
    PROVE  EntriesOf(ks)' = EntriesOf(ks)
<1>1. CASE about' = about
  BY <1>1 DEF EntriesOf, Of, Entry
<1>2. ASSUME NEW r \in Rides, NEW l \in seen[r], Stores(r, l)
      PROVE  EntriesOf(ks)' = EntriesOf(ks)
  <2>4. /\ \A k \in 1..stored : about'[k] = about[k]
        /\ DOMAIN about' = 1..(stored + 1) /\ DOMAIN about = 1..stored /\ stored \in Nat
    BY <1>2, StoresOne
  <2>5. \A q \in Rides, k \in 1..stored : k \in Of(q)' <=> k \in Of(q)
    BY <2>4 DEF Of
  <2>6. \A i \in 1..Len(ks) : ks[i] \in 1..stored
    BY ElementOfSeq
  <2>7. ASSUME NEW q \in Rides
        PROVE  Filter(ks, Of(q)') = Filter(ks, Of(q))
    <3>1. \A i \in 1..Len(ks) : ks[i] \in Of(q)' <=> ks[i] \in Of(q)
      BY <2>5, <2>6
    <3>. QED  BY <3>1, FilterSame
  <2>8. \A k \in 1..stored : Entry(k)' = Entry(k)
    BY <2>4 DEF Entry
  <2>9. ASSUME NEW q \in Rides
        PROVE  EntriesOf(ks)'[q] = EntriesOf(ks)[q]
    <3>1. PICK own : own = Filter(ks, Of(q)) /\ own = Filter(ks, Of(q)')
      BY <2>7
    <3>2. \A i \in DOMAIN own : own[i] \in 1..stored
      <4>1. own \in Seq(1..stored)
        BY <3>1, FilterInSeq
      <4>. QED  BY <4>1, LenProperties, ElementOfSeq
    <3>3. EntriesOf(ks)[q] = [i \in DOMAIN own |-> Entry(own[i])]
      BY <3>1 DEF EntriesOf
    <3>4. EntriesOf(ks)'[q] = [i \in DOMAIN own |-> Entry(own[i])']
      BY <3>1 DEF EntriesOf
    <3>5. [i \in DOMAIN own |-> Entry(own[i])'] = [i \in DOMAIN own |-> Entry(own[i])]
      BY <2>8, <3>2
    <3>. QED  BY <3>3, <3>4, <3>5
  <2>10. /\ EntriesOf(ks)' = [q \in Rides |-> EntriesOf(ks)'[q]]
         /\ EntriesOf(ks) = [q \in Rides |-> EntriesOf(ks)[q]]
    BY DEF EntriesOf
  <2>. QED  BY <2>9, <2>10
<1>. QED  BY <1>1, <1>2, AboutChanges

LEMMA EntriesConcat ==
    ASSUME about \in Seq(Notification), NEW ks \in Seq(1..Len(about)), NEW ns \in Seq(1..Len(about)),
           NEW r \in Rides
    PROVE  EntriesOf(ks \o ns)[r] = EntriesOf(ks)[r] \o EntriesOf(ns)[r]
<1>. DEFINE a == Filter(ks, Of(r))
            b == Filter(ns, Of(r))
            A == [i \in DOMAIN a |-> Entry(a[i])]
            B == [i \in DOMAIN b |-> Entry(b[i])]
            C == [i \in DOMAIN (a \o b) |-> Entry((a \o b)[i])]
<1>1. a \in Seq(1..Len(about)) /\ b \in Seq(1..Len(about)) /\ Filter(ks \o ns, Of(r)) = a \o b
  BY FilterInSeq, FilterConcat
<1>2. EntriesOf(ks)[r] = A /\ EntriesOf(ns)[r] = B /\ EntriesOf(ks \o ns)[r] = C
  BY <1>1 DEF EntriesOf
<1>. HIDE DEF a, b
<1>3. /\ DOMAIN a = 1..Len(a) /\ DOMAIN b = 1..Len(b) /\ Len(a) \in Nat /\ Len(b) \in Nat
      /\ DOMAIN (a \o b) = 1..(Len(a) + Len(b))
      /\ \A i \in 1..Len(a) : (a \o b)[i] = a[i]
      /\ \A i \in (Len(a) + 1)..(Len(a) + Len(b)) : (a \o b)[i] = b[i - Len(a)]
  BY <1>1, LenProperties, ConcatProperties
<1>4. A \in Seq(OfType("info")) /\ B \in Seq(OfType("info")) /\ C \in Seq(OfType("info"))
  BY <1>2, EntriesTyped, ConcatProperties
<1>5. Len(A) = Len(a) /\ Len(B) = Len(b) /\ Len(C) = Len(a) + Len(b)
  BY <1>3, <1>4, LenProperties
<1>6. /\ \A i \in 1..Len(a) : A[i] = Entry(a[i])
      /\ \A i \in 1..Len(b) : B[i] = Entry(b[i])
      /\ \A i \in 1..(Len(a) + Len(b)) : C[i] = Entry((a \o b)[i])
  BY <1>3
<1>. HIDE DEF A, B, C
<1>7. \A i \in 1..(Len(a) + Len(b)) : C[i] = IF i <= Len(a) THEN A[i] ELSE B[i - Len(a)]
  <2>. TAKE i \in 1..(Len(a) + Len(b))
  <2>1. CASE i <= Len(a)
    BY <1>3, <1>6, <2>1
  <2>2. CASE ~(i <= Len(a))
    <3>1. i \in (Len(a) + 1)..(Len(a) + Len(b)) /\ i - Len(a) \in 1..Len(b)
      BY <1>3, <2>2
    <3>. QED  BY <1>3, <1>6, <2>2, <3>1
  <2>. QED  BY <2>1, <2>2
<1>8. C = A \o B
  <2>1. /\ A \o B \in Seq(OfType("info")) /\ Len(A \o B) = Len(a) + Len(b)
        /\ \A i \in 1..(Len(a) + Len(b)) :
              (A \o B)[i] = IF i <= Len(a) THEN A[i] ELSE B[i - Len(a)]
    <3>1. /\ A \o B \in Seq(OfType("info")) /\ Len(A \o B) = Len(A) + Len(B)
          /\ \A i \in 1..(Len(A) + Len(B)) :
                (A \o B)[i] = IF i <= Len(A) THEN A[i] ELSE B[i - Len(A)]
      BY <1>4, ConcatProperties
    <3>. QED  BY <1>5, <3>1, Zenon
  <2>. QED  BY <1>4, <1>5, <1>7, <2>1, SeqEqual
<1>. QED  BY <1>2, <1>8

(* What the page has received of a ride, when nothing is received, ... *)
LEMMA ReceivedStays ==
    ASSUME TypedInv, [Next]_vars, shown' = shown
    PROVE  EntriesOf(shown)' = EntriesOf(shown)
<1>1. PICK ks : ks = shown
  OBVIOUS
<1>2. ks \in Seq(1..stored) /\ AboutInv
  BY <1>1 DEF TypedInv, SourceInv
<1>3. EntriesOf(ks)' = EntriesOf(ks)
  BY <1>2, EntriesStay
<1>4. EntriesOf(shown)' = EntriesOf(ks)' /\ EntriesOf(shown) = EntriesOf(ks)
  BY <1>1 DEF EntriesOf
<1>. QED  BY <1>3, <1>4

(* ... and when an answer is. *)
LEMMA ReceivedGrows ==
    ASSUME TypedInv, NEW p \in Polls, Shows(p), NEW r \in Rides
    PROVE  EntriesOf(shown)'[r] = EntriesOf(shown)[r] \o EntriesOf(poll[p].resp.notifications)[r]
<1>1. PICK ns : ns = poll[p].resp.notifications
  OBVIOUS
<1>2. PICK ks : ks = shown \o ns
  OBVIOUS
<1>3. ns \in Seq(1..stored) /\ shown \in Seq(1..stored) /\ about \in Seq(Notification) /\ Len(about) = stored
  BY <1>1 DEF Shows, Show, TypedInv, SourceInv, AboutInv
<1>4. shown' = ks /\ about' = about
  BY <1>1, <1>2 DEF Shows, Show, flowVars
<1>5. EntriesOf(shown)' = EntriesOf(ks)
  BY <1>4 DEF EntriesOf, Of, Entry
<1>6. EntriesOf(shown \o ns)[r] = EntriesOf(shown)[r] \o EntriesOf(ns)[r]
  BY <1>3, EntriesConcat
<1>. QED  BY <1>1, <1>2, <1>5, <1>6

LEMMA InLogs ==
    \A ls \in Seq(Log) : \A i \in DOMAIN ls :
        ls[i].requestID \in Rides /\ ls[i].entries \in Seq(LogEntry)
<1>1. \A ls \in Seq(Log) : \A i \in DOMAIN ls : ls[i] \in Log
  BY LenProperties, ElementOfSeq
<1>. QED  BY <1>1 DEF Log

(* The entries of one type, when entries are added. *)
LEMMA AddedOfType ==
    ASSUME NEW ls \in Seq(Log), NEW new \in [Rides -> Seq(LogEntry)], NEW i \in DOMAIN ls, NEW S
    PROVE  /\ ls[i].requestID \in Rides
           /\ Filter(AddEntries(ls, new)[i].entries, S) =
                 Filter(ls[i].entries, S) \o Filter(new[ls[i].requestID], S)
<1>1. ls[i].requestID \in Rides /\ ls[i].entries \in Seq(LogEntry)
  BY InLogs
<1>2. new[ls[i].requestID] \in Seq(LogEntry)
  BY <1>1
<1>3. AddEntries(ls, new)[i].entries = ls[i].entries \o new[ls[i].requestID]
  BY EntriesGiven
<1>. QED  BY <1>1, <1>2, <1>3, FilterConcat

(* Infos are no errors. *)
LEMMA OfOneType ==
    /\ \A s \in Seq(OfType("info")) :
          Filter(s, OfType("info")) = s /\ Filter(s, OfType("error")) = <<>>
    /\ \A s \in Seq(OfType("error")) :
          Filter(s, OfType("error")) = s /\ Filter(s, OfType("info")) = <<>>
<1>1. \A e \in OfType("info") : e \notin OfType("error")
  BY DEF OfType
<1>2. \A s \in Seq(OfType("info")) : \A i \in 1..Len(s) : s[i] \in OfType("info")
  BY ElementOfSeq
<1>3. \A s \in Seq(OfType("error")) : \A i \in 1..Len(s) : s[i] \in OfType("error")
  BY ElementOfSeq
<1>. QED  BY <1>1, <1>2, <1>3, FilterAll, FilterNone

CompleteInv == TypedInv /\ PostInv /\ LogsComplete

LEMMA CompleteInvInit == Init => CompleteInv
<1>. SUFFICES ASSUME Init PROVE CompleteInv
  OBVIOUS
<1>1. logs = <<>> /\ about = <<>> /\ post = [r \in Rides |-> "none"]
  BY DEF Init
<1>2. LogsComplete /\ PostInv
  BY <1>1 DEF LogsComplete, PostInv
<1>. QED  BY <1>2, TypedInvInit DEF CompleteInv

(* A ride that is requested has received nothing yet. *)
LEMMA NothingReceived ==
    ASSUME TypedInv, PostInv, NEW r \in Rides, post[r] = "none"
    PROVE  EntriesOf(shown)[r] = <<>>
<1>1. shown \in Seq(1..stored) /\ DOMAIN about = 1..stored
  BY LenProperties DEF TypedInv, SourceInv, AboutInv
<1>2. \A i \in 1..Len(shown) : shown[i] \notin Of(r)
  BY <1>1, ElementOfSeq DEF Of, PostInv
<1>3. Filter(shown, Of(r)) = <<>>
  BY <1>1, <1>2, FilterNone
<1>. QED  BY <1>3 DEF EntriesOf

LEMMA RequestKeepsComplete ==
    ASSUME CompleteInv, RequestDrive
    PROVE  LogsComplete'
<1>. DEFINE n == lastRequestID
<1>1. PICK new \in Log : /\ new.requestID = n
                         /\ new.entries = <<Requested>>
                         /\ logs' = <<new>> \o logs
  BY NewLog DEF CompleteInv
<1>2. logs \in Seq(Log) /\ <<new>> \in Seq(Log) /\ Len(<<new>>) = 1 /\ <<new>>[1] = new
  BY DEF CompleteInv, TypedInv, TypeOK
<1>3. /\ Len(logs') = Len(logs) + 1 /\ Len(logs) \in Nat
      /\ DOMAIN logs' = 1..Len(logs') /\ DOMAIN logs = 1..Len(logs)
      /\ logs'[1] = new
      /\ \A i \in 1..Len(logs) : logs'[i + 1] = logs[i]
  BY <1>1, <1>2, ConcatProperties, LenProperties
<1>4. /\ n \in Rides /\ post[n] = "none" /\ post' = [post EXCEPT ![n] = "sent"]
      /\ post \in [Rides -> {"none", "sent", "answered", "failed"}]
  BY DEF RequestDrive, GetLastRequestID, CompleteInv, PostInv, TypedInv, TypeOK, Rides
<1>5. EntriesOf(shown)' = EntriesOf(shown)
  <2>1. shown' = shown /\ [Next]_vars
    BY DEF RequestDrive, pollVars, Next, FormStep
  <2>. QED  BY <2>1, ReceivedStays DEF CompleteInv
<1>6. EntriesOf(shown)[n] = <<>>
  BY <1>4, NothingReceived DEF CompleteInv
<1>7. <<Requested>> \in Seq(OfType("info"))
  BY RequestedTyped
<1>8. /\ Filter(new.entries, OfType("info")) = <<Requested>> \o EntriesOf(shown)'[n]
      /\ Filter(new.entries, OfType("error")) = <<>>
  BY <1>1, <1>5, <1>6, <1>7, OfOneType, ConcatEmptySeq
<1>9. \A i \in 1..Len(logs) : logs[i].requestID \in Rides
  BY <1>2, <1>3, InLogs
<1>10. \A q \in Rides : post'[q] = "failed" <=> post[q] = "failed"
  BY <1>4
<1>. HIDE DEF n
<1>11. ASSUME NEW i \in DOMAIN logs'
       PROVE  /\ Filter(logs'[i].entries, OfType("info")) =
                    <<Requested>> \o EntriesOf(shown)'[logs'[i].requestID]
              /\ Filter(logs'[i].entries, OfType("error")) =
                    IF post'[logs'[i].requestID] = "failed" THEN <<RequestFailed>> ELSE <<>>
  <2>1. CASE i = 1
    BY <1>1, <1>3, <1>4, <1>8, <2>1
  <2>2. CASE i # 1
    <3>1. i - 1 \in 1..Len(logs) /\ (i - 1) + 1 = i
      BY <1>3, <2>2
    <3>2. logs'[i] = logs[i - 1]
      BY <1>3, <3>1
    <3>. QED  BY <1>3, <1>5, <1>9, <1>10, <3>1, <3>2 DEF CompleteInv, LogsComplete
  <2>. QED  BY <2>1, <2>2
<1>. QED  BY <1>11 DEF LogsComplete, OfType, LogEntry, Requested, RequestFailed, Status

LEMMA FailureKeepsComplete ==
    ASSUME CompleteInv, NEW r \in Rides, PostFails(r)
    PROVE  LogsComplete'
<1>. DEFINE new == [q \in Rides |-> IF q = r THEN <<RequestFailed>> ELSE <<>>]
<1>1. /\ logs \in Seq(Log) /\ new \in [Rides -> Seq(LogEntry)] /\ logs' = AddEntries(logs, new)
      /\ post \in [Rides -> {"none", "sent", "answered", "failed"}]
      /\ post[r] = "sent" /\ post' = [post EXCEPT ![r] = "failed"]
  BY ErrorTyped DEF CompleteInv, TypedInv, TypeOK, PostFails, AddErrorEntry
<1>2. DOMAIN logs' = DOMAIN logs /\ \A i \in DOMAIN logs : logs'[i].requestID = logs[i].requestID
  BY <1>1, EntriesGiven
<1>3. EntriesOf(shown)' = EntriesOf(shown)
  <2>1. shown' = shown /\ [Next]_vars
    BY DEF PostFails, pollVars, Next, RideStep
  <2>. QED  BY <2>1, ReceivedStays DEF CompleteInv
<1>4. \A q \in Rides : /\ Filter(new[q], OfType("info")) = <<>>
                       /\ Filter(new[q], OfType("error")) = new[q]
  <2>1. <<RequestFailed>> \in Seq(OfType("error"))
    BY RequestedTyped
  <2>. QED  BY <2>1, OfOneType, FilterEmpty
<1>5. \A q \in Rides : new[q] = IF q = r THEN <<RequestFailed>> ELSE <<>>
  OBVIOUS
<1>. HIDE DEF new
<1>6. ASSUME NEW i \in DOMAIN logs
      PROVE  /\ Filter(logs'[i].entries, OfType("info")) =
                   <<Requested>> \o EntriesOf(shown)[logs[i].requestID]
             /\ Filter(logs'[i].entries, OfType("error")) =
                   IF post'[logs[i].requestID] = "failed" THEN <<RequestFailed>> ELSE <<>>
  <2>. DEFINE q == logs[i].requestID
              e == logs[i].entries
  <2>1. /\ q \in Rides
        /\ Filter(logs'[i].entries, OfType("info")) = Filter(e, OfType("info")) \o <<>>
        /\ Filter(logs'[i].entries, OfType("error")) = Filter(e, OfType("error")) \o new[q]
    <3>1. /\ q \in Rides
          /\ \A S : Filter(AddEntries(logs, new)[i].entries, S) =
                        Filter(e, S) \o Filter(new[q], S)
      BY <1>1, AddedOfType
    <3>. QED  BY <1>1, <1>4, <3>1
  <2>2. e \in Seq(LogEntry)
    BY <1>1, InLogs
  <2>3. /\ Filter(e, OfType("info")) = <<Requested>> \o EntriesOf(shown)[q]
        /\ Filter(e, OfType("error")) = IF post[q] = "failed" THEN <<RequestFailed>> ELSE <<>>
    BY DEF CompleteInv, LogsComplete
  <2>. HIDE DEF q, e
  <2>4. Filter(e, OfType("info")) \o <<>> = Filter(e, OfType("info"))
    BY <2>2, FilterInSeq, ConcatEmptySeq
  <2>5. Filter(e, OfType("error")) \o new[q] =
            IF post'[q] = "failed" THEN <<RequestFailed>> ELSE <<>>
    <3>1. CASE q = r
      <4>1. <<>> \o <<RequestFailed>> = <<RequestFailed>>
        OBVIOUS
      <4>. QED  BY <1>1, <1>5, <2>1, <2>3, <3>1, <4>1
    <3>2. CASE q # r
      <4>1. Filter(e, OfType("error")) \o <<>> = Filter(e, OfType("error"))
        BY <2>2, FilterInSeq, ConcatEmptySeq
      <4>. QED  BY <1>1, <1>5, <2>1, <2>3, <3>2, <4>1
    <3>. QED  BY <3>1, <3>2
  <2>. QED  BY <2>1, <2>3, <2>4, <2>5 DEF q
<1>. QED  BY <1>2, <1>3, <1>6 DEF LogsComplete, OfType, LogEntry, Requested, RequestFailed, Status

LEMMA AnswerKeepsComplete ==
    ASSUME CompleteInv, NEW p \in Polls, Shows(p)
    PROVE  LogsComplete'
<1>. DEFINE new == EntriesOf(poll[p].resp.notifications)
<1>1. /\ logs \in Seq(Log) /\ logs' = AddEntries(logs, new) /\ post' = post
      /\ new \in [Rides -> Seq(LogEntry)] /\ new \in [Rides -> Seq(OfType("info"))]
      /\ \A q \in Rides : EntriesOf(shown)'[q] = EntriesOf(shown)[q] \o new[q]
  <2>1. new \in [Rides -> Seq(LogEntry)] /\ new \in [Rides -> Seq(OfType("info"))]
    BY AnswersTyped DEF CompleteInv
  <2>2. \A q \in Rides : EntriesOf(shown)'[q] = EntriesOf(shown)[q] \o new[q]
    BY ReceivedGrows DEF CompleteInv
  <2>. QED  BY <2>1, <2>2 DEF CompleteInv, TypedInv, TypeOK, Shows
<1>2. DOMAIN logs' = DOMAIN logs /\ \A i \in DOMAIN logs : logs'[i].requestID = logs[i].requestID
  BY <1>1, EntriesGiven
<1>3. \A q \in Rides : /\ Filter(new[q], OfType("info")) = new[q]
                       /\ Filter(new[q], OfType("error")) = <<>>
  BY <1>1, OfOneType
<1>. HIDE DEF new
<1>4. ASSUME NEW i \in DOMAIN logs
      PROVE  /\ Filter(logs'[i].entries, OfType("info")) =
                   <<Requested>> \o EntriesOf(shown)'[logs[i].requestID]
             /\ Filter(logs'[i].entries, OfType("error")) =
                   IF post[logs[i].requestID] = "failed" THEN <<RequestFailed>> ELSE <<>>
  <2>. DEFINE q == logs[i].requestID
              e == logs[i].entries
  <2>1. /\ q \in Rides
        /\ Filter(logs'[i].entries, OfType("info")) = Filter(e, OfType("info")) \o new[q]
        /\ Filter(logs'[i].entries, OfType("error")) = Filter(e, OfType("error")) \o <<>>
    <3>1. /\ q \in Rides
          /\ \A S : Filter(AddEntries(logs, new)[i].entries, S) =
                        Filter(e, S) \o Filter(new[q], S)
      BY <1>1, AddedOfType
    <3>. QED  BY <1>1, <1>3, <3>1
  <2>2. e \in Seq(LogEntry)
    BY <1>1, InLogs
  <2>3. /\ Filter(e, OfType("info")) = <<Requested>> \o EntriesOf(shown)[q]
        /\ Filter(e, OfType("error")) = IF post[q] = "failed" THEN <<RequestFailed>> ELSE <<>>
    BY DEF CompleteInv, LogsComplete
  <2>4. Filter(e, OfType("error")) \o <<>> = Filter(e, OfType("error"))
    BY <2>2, FilterInSeq, ConcatEmptySeq
  <2>5. EntriesOf(shown)[q] \in Seq(OfType("info"))
    BY <2>1, EntriesTyped DEF CompleteInv, TypedInv, SourceInv, AboutInv
  <2>. HIDE DEF q, e
  <2>6. (<<Requested>> \o EntriesOf(shown)[q]) \o new[q] = <<Requested>> \o EntriesOf(shown)'[q]
    <3>1. <<Requested>> \in Seq(OfType("info")) /\ new[q] \in Seq(OfType("info"))
      BY <1>1, <2>1, RequestedTyped
    <3>2. (<<Requested>> \o EntriesOf(shown)[q]) \o new[q] =
              <<Requested>> \o (EntriesOf(shown)[q] \o new[q])
      <4>1. \A s, t, u \in Seq(OfType("info")) : (s \o t) \o u = s \o (t \o u)
        BY ConcatAssociative
      <4>. QED  BY <2>5, <3>1, <4>1, Zenon
    <3>. QED  BY <1>1, <2>1, <3>2
  <2>. QED  BY <2>1, <2>3, <2>4, <2>6 DEF q
<1>. QED  BY <1>1, <1>2, <1>4 DEF LogsComplete, OfType, LogEntry, Requested, RequestFailed, Status

LEMMA CompleteInvStep == CompleteInv /\ [Next]_vars => CompleteInv'
<1>. SUFFICES ASSUME CompleteInv, [Next]_vars PROVE CompleteInv'
  OBVIOUS
<1>1. TypedInv' /\ PostInv'
  BY TypedInvStep, PostInvStep DEF CompleteInv
<1>. SUFFICES LogsComplete'
  BY <1>1 DEF CompleteInv
<1>2. ASSUME UNCHANGED <<logs, shown>>,
             \A q \in Rides : post'[q] = "failed" <=> post[q] = "failed"
      PROVE  LogsComplete'
  <2>1. EntriesOf(shown)' = EntriesOf(shown)
    BY <1>2, ReceivedStays DEF CompleteInv
  <2>2. \A i \in DOMAIN logs : logs[i].requestID \in Rides
    BY InLogs DEF CompleteInv, TypedInv, TypeOK
  <2>. QED  BY <1>2, <2>1, <2>2 DEF CompleteInv, LogsComplete, OfType, LogEntry, Requested,
                                    RequestFailed, Status
<1>3. CASE SplashAnswered \/ SplashFails \/ SelectPickup \/ SelectDropoff \/ Effects
  BY <1>2, <1>3 DEF SplashAnswered, SplashFails, SelectPickup, SelectDropoff, Select, Effects,
                    pollVars
<1>4. CASE RequestDrive
  BY <1>4, RequestKeepsComplete
<1>5. CASE KeyExpires \/ UNCHANGED vars
  BY <1>2, <1>5 DEF KeyExpires, Expire, vars, pageVars, pollVars
<1>6. ASSUME NEW r \in Rides, PostAnswered(r)
      PROVE  LogsComplete'
  <2>1. post \in [Rides -> {"none", "sent", "answered", "failed"}]
    BY DEF CompleteInv, TypedInv, TypeOK
  <2>. QED  BY <1>2, <1>6, <2>1 DEF PostAnswered, pollVars
<1>7. ASSUME NEW r \in Rides, PostFails(r)
      PROVE  LogsComplete'
  BY <1>7, FailureKeepsComplete
<1>8. ASSUME NEW r \in Rides, StoreStep(r) \/ DeliveredAgain(r)
      PROVE  LogsComplete'
  BY <1>2, <1>8, DispatchFrame DEF pageVars
<1>9. ASSUME NEW p \in Polls, Shows(p)
      PROVE  LogsComplete'
  BY <1>9, AnswerKeepsComplete
<1>10. ASSUME NEW p \in Polls, Asks(p) \/ IsAnswered(p) \/ Fails(p)
      PROVE  LogsComplete'
  BY <1>2, <1>10 DEF Asks, IsAnswered, Fails, StartPoll, Answer, PollFails, pageVars
<1>. QED
  BY <1>3, <1>4, <1>5, <1>6, <1>7, <1>8, <1>9, <1>10 DEF Next, FormStep, RideStep, PagePollStep

(* Each log holds what the page has received of its ride, in the order
   received, and an error if the request failed: nothing is lost or misfiled. *)
THEOREM NothingMisfiled == Spec => []LogsComplete
<1>1. CompleteInv => LogsComplete
  BY DEF CompleteInv
<1>. QED  BY <1>1, CompleteInvInit, CompleteInvStep, PTL DEF Spec

-----------------------------------------------------------------------------
(* The driver on the page. *)

(* Only the notification that a driver is dispatched names one. *)
PlatesInv == \A k \in DOMAIN about : about[k].plate \in Plates(about[k].step)

LEMMA PlatesInvStep == TypedInv /\ PlatesInv /\ [Next]_vars => PlatesInv'
<1>. SUFFICES ASSUME TypedInv, PlatesInv, [Next]_vars PROVE PlatesInv'
  OBVIOUS
<1>1. CASE about' = about
  BY <1>1 DEF PlatesInv
<1>2. ASSUME NEW r \in Rides, NEW l \in seen[r], Stores(r, l)
      PROVE  PlatesInv'
  <2>1. PICK new \in Notification :
           /\ new.step = Step(r) /\ new.plate \in Plates(Step(r))
           /\ DOMAIN about = 1..stored /\ DOMAIN about' = 1..(stored + 1) /\ stored \in Nat
           /\ about'[stored + 1] = new
           /\ \A k \in 1..stored : about'[k] = about[k]
    BY <1>2, StoresOne DEF TypedInv
  <2>2. ASSUME NEW k \in DOMAIN about' PROVE about'[k].plate \in Plates(about'[k].step)
    <3>1. CASE k \in 1..stored
      BY <2>1, <3>1 DEF PlatesInv
    <3>2. CASE k = stored + 1
      BY <2>1, <3>2
    <3>. QED  BY <2>1, <3>1, <3>2
  <2>. QED  BY <2>2 DEF PlatesInv, Plates
<1>. QED  BY <1>1, <1>2, AboutChanges

(* The effects have run since the logs changed. *)
DriverInv == ~stale /\ logs # <<>> => driver = RequestArrival(logs)

(* An answer without notifications leaves the logs as they are. *)
LEMMA NothingAdded ==
    ASSUME NEW ls \in Seq(Log)
    PROVE  AddEntries(ls, EntriesOf(<<>>)) = ls
<1>1. \A r \in Rides : EntriesOf(<<>>)[r] = <<>>
  BY FilterEmpty DEF EntriesOf
<1>2. DOMAIN ls = 1..Len(ls) /\ Len(ls) \in Nat /\ ls = [i \in 1..Len(ls) |-> ls[i]]
  BY LenProperties, SeqDef
<1>3. ASSUME NEW i \in DOMAIN ls
      PROVE  [ls[i] EXCEPT !.entries = @ \o EntriesOf(<<>>)[ls[i].requestID]] = ls[i]
  <2>1. ls[i].entries \o EntriesOf(<<>>)[ls[i].requestID] = ls[i].entries
    BY <1>1, InLogs, ConcatEmptySeq
  <2>2. ls[i] \in Log
    BY <1>2, ElementOfSeq
  <2>. QED  BY <2>1, <2>2 DEF Log
<1>. QED  BY <1>2, <1>3 DEF AddEntries

LEMMA DriverInvStep == TypedInv /\ DriverInv /\ [Next]_vars => DriverInv'
<1>. SUFFICES ASSUME TypedInv, DriverInv, [Next]_vars PROVE DriverInv'
  OBVIOUS
<1>1. ASSUME UNCHANGED <<driver, logs, stale>>
      PROVE  DriverInv'
  BY <1>1 DEF DriverInv, RequestArrival
<1>2. ASSUME stale'
      PROVE  DriverInv'
  BY <1>2 DEF DriverInv
<1>3. CASE FormStep
  BY <1>1, <1>2, <1>3 DEF FormStep, SplashAnswered, SplashFails, SelectPickup, SelectDropoff,
                          Select, RequestDrive, viewVars
<1>4. CASE Effects
  BY <1>4 DEF Effects, DriverInv, RequestArrival
<1>5. CASE KeyExpires \/ UNCHANGED vars
  BY <1>1, <1>5 DEF KeyExpires, vars, pageVars, viewVars
<1>6. ASSUME NEW r \in Rides, RideStep(r)
      PROVE  DriverInv'
  BY <1>1, <1>2, <1>6, DispatchFrame DEF RideStep, PostAnswered, PostFails, pageVars, viewVars
<1>7. ASSUME NEW p \in Polls, Asks(p) \/ IsAnswered(p) \/ Fails(p)
      PROVE  DriverInv'
  BY <1>1, <1>7 DEF Asks, IsAnswered, Fails, pageVars, viewVars
<1>8. ASSUME NEW p \in Polls, Shows(p)
      PROVE  DriverInv'
  <2>1. CASE poll[p].resp.notifications # <<>>
    BY <1>2, <1>8, <2>1 DEF Shows
  <2>2. CASE poll[p].resp.notifications = <<>>
    <3>1. logs' = logs
      BY <1>8, <2>2, NothingAdded DEF Shows, TypedInv, TypeOK
    <3>2. stale' = stale
      BY <1>8, <2>2 DEF Shows, TypedInv, TypeOK
    <3>. QED  BY <1>1, <1>8, <3>1, <3>2 DEF Shows, viewVars
  <2>. QED  BY <2>1, <2>2
<1>. QED  BY <1>3, <1>4, <1>5, <1>6, <1>7, <1>8 DEF Next, PagePollStep

(* A log's entries are infos, and the errors of failed requests. *)
LEMMA EntriesAre ==
    ASSUME CompleteInv, NEW i \in DOMAIN logs, NEW j \in 1..Len(logs[i].entries)
    PROVE  /\ logs[i].entries[j] \in LogEntry
           /\ logs[i].entries[j] \in OfType("info") \/ logs[i].entries[j] = RequestFailed
<1>. DEFINE e == logs[i].entries
            errors == Filter(e, OfType("error"))
<1>1. e \in Seq(LogEntry)
  BY InLogs DEF CompleteInv, TypedInv, TypeOK
<1>2. e[j] \in LogEntry
  BY <1>1, ElementOfSeq
<1>3. errors = <<RequestFailed>> \/ errors = <<>>
  BY DEF CompleteInv, LogsComplete
<1>. HIDE DEF e
<1>4. e[j] \in OfType("error") => \E k \in 1..Len(errors) : errors[k] = e[j]
  BY <1>1, FilterKeeps DEF e
<1>. HIDE DEF errors
<1>5. e[j] \in OfType("error") => e[j] = RequestFailed
  BY <1>3, <1>4, EmptySeq
<1>6. e[j] \in OfType("info") \/ e[j] \in OfType("error")
  BY <1>2 DEF OfType, LogEntry
<1>. QED  BY <1>2, <1>5, <1>6 DEF e

(* The notifications of ride r that a driver is dispatched, of those in ks. *)
DispatchesOf(ks, r) == Filter(ks, {k \in Of(r) : about[k].step = Dispatched})

(* What is looked for is found in the entries of these, and nowhere else. *)
LEMMA FoundInDispatches ==
    ASSUME CompleteInv, NEW i \in DOMAIN logs, NEW S, Requested \notin S, RequestFailed \notin S,
           \A k \in 1..stored : Entry(k) \in S <=> about[k].step = Dispatched
    PROVE  LET own == DispatchesOf(shown, logs[i].requestID)
           IN  /\ own \in Seq(1..stored)
               /\ \A j \in DOMAIN own : about[own[j]].step = Dispatched
               /\ Filter(logs[i].entries, S) = [j \in DOMAIN own |-> Entry(own[j])]
<1>. DEFINE r == logs[i].requestID
            e == logs[i].entries
            D == {k \in 1..stored : about[k].step = Dispatched}
            mine == Filter(shown, Of(r))
            f == [k \in 1..stored |-> Entry(k)]
            info == OfType("info")
            received == EntriesOf(shown)[r]
<1>1. r \in Rides /\ e \in Seq(LogEntry)
  BY InLogs DEF CompleteInv, TypedInv, TypeOK
<1>2. /\ about \in Seq(Notification) /\ Len(about) = stored /\ shown \in Seq(1..stored)
      /\ DOMAIN about = 1..stored
  BY LenProperties DEF CompleteInv, TypedInv, SourceInv, AboutInv
<1>3. Filter(e, info) = <<Requested>> \o received
  BY DEF CompleteInv, LogsComplete
<1>4. \A j \in 1..Len(e) : e[j] \in info \/ e[j] = RequestFailed
  BY EntriesAre
<1>5. received \in Seq(info) /\ <<Requested>> \in Seq(info)
  BY <1>1, <1>2, EntriesTyped, RequestedTyped
<1>6. mine \in Seq(1..stored)
  BY <1>2, FilterInSeq
<1>7. received = Mapped(f, mine)
  <2>1. received = [j \in DOMAIN mine |-> Entry(mine[j])]
    BY <1>1 DEF EntriesOf
  <2>2. \A j \in DOMAIN mine : mine[j] \in 1..stored
    BY <1>6, LenProperties, ElementOfSeq
  <2>. HIDE DEF mine, received
  <2>. QED  BY <2>1, <2>2 DEF Mapped
<1>8. Filter(e, S) = Filter(received, S)
  <2>. HIDE DEF e, info, received
  <2>1. Filter(e, S) = Filter(e, info \cap S)
    BY <1>1, <1>4, FilterSame
  <2>2. Filter(e, info \cap S) = Filter(Filter(e, info), S)
    BY <1>1, FilterTwice
  <2>3. Filter(<<Requested>> \o received, S) = Filter(<<Requested>>, S) \o Filter(received, S)
    BY <1>5, FilterConcat
  <2>4. Filter(<<Requested>>, S) = <<>>
    <3>1. \A j \in 1..Len(<<Requested>>) : <<Requested>>[j] \notin S
      OBVIOUS
    <3>. QED  BY <1>5, <3>1, FilterNone
  <2>5. Filter(received, S) \in Seq(info)
    BY <1>5, FilterInSeq
  <2>6. <<>> \o Filter(received, S) = Filter(received, S)
    BY <2>5, ConcatEmptySeq
  <2>. QED  BY <1>3, <2>1, <2>2, <2>3, <2>4, <2>6
<1>9. Filter(received, S) = Mapped(f, Filter(mine, D))
  <2>1. \A k \in 1..stored : k \in D <=> f[k] \in S
    OBVIOUS
  <2>. HIDE DEF f, mine, received, D, info
  <2>2. Filter(Mapped(f, mine), S) = Mapped(f, Filter(mine, D))
    <3>1. PICK X, g, T, s : X = 1..stored /\ g = f /\ T = D /\ s = mine
      OBVIOUS
    <3>2. s \in Seq(X) /\ \A x \in X : x \in T <=> g[x] \in S
      BY <1>6, <2>1, <3>1
    <3>3. Filter(Mapped(g, s), S) = Mapped(g, Filter(s, T))
      BY <3>2, FilterMapped
    <3>. QED  BY <3>1, <3>3
  <2>. QED  BY <1>7, <2>2
<1>10. Filter(mine, D) = DispatchesOf(shown, r)
  <2>1. Filter(mine, D) = Filter(shown, Of(r) \cap D)
    BY <1>2, FilterTwice
  <2>2. Of(r) \cap D = {k \in Of(r) : about[k].step = Dispatched}
    BY <1>2 DEF Of
  <2>. QED  BY <2>1, <2>2 DEF DispatchesOf
<1>11. DispatchesOf(shown, r) \in Seq(1..stored \cap D)
  <2>. HIDE DEF mine, D
  <2>1. Filter(mine, D) \in Seq(1..stored \cap D)
    BY <1>6, FilterType
  <2>. QED  BY <1>10, <2>1
<1>. DEFINE own == DispatchesOf(shown, r)
<1>12. \A j \in DOMAIN own : own[j] \in 1..stored /\ own[j] \in D
  BY <1>11, LenProperties, ElementOfSeq
<1>13. own \in Seq(1..stored)
  BY <1>6, <1>10, FilterInSeq
<1>14. Filter(e, S) = Mapped(f, own)
  BY <1>8, <1>9, <1>10
<1>. HIDE DEF own, e, r
<1>15. Mapped(f, own) = [j \in DOMAIN own |-> Entry(own[j])]
  BY <1>12 DEF Mapped
<1>. QED  BY <1>12, <1>13, <1>14, <1>15 DEF own, e, r

(* What the page reads of an entry that a driver is dispatched, and that it
   finds a time and a plate in no other entry.                               *)
LEMMA DispatchedRead ==
    ASSUME about \in Seq(Notification), PlatesInv, NEW k \in DOMAIN about
    PROVE  /\ Entry(k) \in Timed <=> about[k].step = Dispatched
           /\ Entry(k) \in Named <=> about[k].step = Dispatched
           /\ about[k].step = Dispatched =>
                 /\ ParseDriverLog(Entry(k)) = ETA[about[k].plate]
                 /\ Entry(k).status.plate = about[k].plate
<1>. DEFINE plate == about[k].plate
<1>1. Entry(k) \in LogEntry
  BY EntryTyped DEF OfType
<1>2. /\ Entry(k).service = Services[about[k].step]
      /\ Entry(k).status.plate = plate
      /\ Entry(k).status.time = IF plate = Undefined THEN Undefined ELSE Duration(ETA[plate])
  BY DEF Entry, Status
<1>3. plate \in Plates(about[k].step)
  BY DEF PlatesInv
<1>4. CASE about[k].step = Dispatched
  <2>1. plate \in Drivers /\ plate # Undefined /\ Services[about[k].step] = "driver"
    BY <1>3, <1>4, UndefinedAssumption DEF Plates, Dispatched, Services
  <2>2. ETA[plate] \in Readable /\ ETA[plate] \in Int
    <3>1. Readable \subseteq Int
      BY DEF Readable
    <3>. QED  BY <2>1, <3>1, ETAAssumption
  <2>3. Duration(ETA[plate]) # Undefined /\ Seconds(Duration(ETA[plate])) = ETA[plate]
    BY <2>2, DurationTyped, TimesReadBack, UndefinedAssumption
  <2>4. ParseDriverLog(Entry(k)) = ETA[plate] /\ ETA[plate] # Undefined
    BY <1>2, <2>1, <2>2, <2>3, UndefinedAssumption DEF ParseDriverLog
  <2>. QED  BY <1>1, <1>2, <1>4, <2>1, <2>4 DEF Timed, Named
<1>5. CASE about[k].step # Dispatched
  <2>1. plate = Undefined
    BY <1>3, <1>5 DEF Plates
  <2>. QED  BY <1>2, <1>5, <2>1 DEF Timed, Named, ParseDriverLog
<1>. QED  BY <1>4, <1>5

LEMMA ShownIsFirst == CompleteInv /\ PlatesInv /\ DriverInv => FirstDriverShown
<1>. SUFFICES ASSUME CompleteInv, PlatesInv, DriverInv, ~stale, logs # <<>>
              PROVE  LET own == DispatchesOf(shown, logs[1].requestID)
                     IN  driver = IF own = <<>> THEN NoDriver
                                  ELSE [arrival |-> ETA[about[Head(own)].plate],
                                        plate   |-> about[Head(own)].plate]
  BY DEF FirstDriverShown, DispatchesOf
<1>. DEFINE own == DispatchesOf(shown, logs[1].requestID)
            timed == Filter(logs[1].entries, Timed)
            named == Filter(logs[1].entries, Named)
<1>1. 1 \in DOMAIN logs
  BY EmptySeq, LenProperties DEF CompleteInv, TypedInv, TypeOK
<1>2. about \in Seq(Notification) /\ DOMAIN about = 1..stored
  BY LenProperties DEF CompleteInv, TypedInv, AboutInv
<1>3. /\ Requested \notin Timed /\ RequestFailed \notin Timed
      /\ Requested \notin Named /\ RequestFailed \notin Named
  BY DEF Requested, RequestFailed, Timed, Named, ParseDriverLog
<1>4. /\ \A k \in 1..stored : Entry(k) \in Timed <=> about[k].step = Dispatched
      /\ \A k \in 1..stored : Entry(k) \in Named <=> about[k].step = Dispatched
      /\ \A k \in 1..stored : about[k].step = Dispatched =>
            /\ ParseDriverLog(Entry(k)) = ETA[about[k].plate]
            /\ Entry(k).status.plate = about[k].plate
  BY <1>2, DispatchedRead
<1>5. /\ own \in Seq(1..stored)
      /\ \A j \in DOMAIN own : about[own[j]].step = Dispatched
      /\ timed = [j \in DOMAIN own |-> Entry(own[j])]
  BY <1>1, <1>3, <1>4, FoundInDispatches
<1>6. named = [j \in DOMAIN own |-> Entry(own[j])]
  BY <1>1, <1>3, <1>4, FoundInDispatches
<1>7. driver = [arrival |-> IF timed = <<>> THEN Undefined ELSE ParseDriverLog(Head(timed)),
                plate   |-> IF named = <<>> THEN Undefined ELSE Head(named).status.plate]
  BY DEF DriverInv, RequestArrival
<1>. HIDE DEF own, timed, named
<1>8. CASE own = <<>>
  BY <1>5, <1>6, <1>7, <1>8 DEF NoDriver, own
<1>9. CASE own # <<>>
  <2>1. 1 \in DOMAIN own /\ own[1] \in 1..stored /\ DOMAIN own = 1..Len(own) /\ Len(own) \in Nat
    <3>1. DOMAIN own = 1..Len(own) /\ Len(own) \in Nat /\ Len(own) # 0
      BY <1>5, <1>9, EmptySeq, LenProperties
    <3>2. own \in Seq(1..stored) /\ 1 \in 1..Len(own)
      BY <1>5, <3>1
    <3>3. own[1] \in 1..stored
      BY <3>2, ElementOfSeq
    <3>. QED  BY <3>1, <3>2, <3>3
  <2>2. /\ timed # <<>> /\ Head(timed) = Entry(own[1]) /\ Head(own) = own[1]
        /\ named # <<>> /\ Head(named) = Entry(own[1])
    BY <1>5, <1>6, <2>1
  <2>3. /\ ParseDriverLog(Entry(own[1])) = ETA[about[own[1]].plate]
        /\ Entry(own[1]).status.plate = about[own[1]].plate
    BY <1>4, <1>5, <2>1
  <2>. QED  BY <1>7, <1>9, <2>2, <2>3 DEF own
<1>. QED  BY <1>8, <1>9

(* The driver on the page is the first one received for the ride requested last,
   plate and time of the same notification, with the time announced.         *)
THEOREM FirstDriverStays == Spec => []FirstDriverShown
<1>. DEFINE Inv == CompleteInv /\ PlatesInv /\ DriverInv
<1>1. Init => Inv
  BY CompleteInvInit DEF Init, PlatesInv, DriverInv
<1>2. Inv /\ [Next]_vars => Inv'
  BY CompleteInvStep, PlatesInvStep, DriverInvStep DEF CompleteInv
<1>3. Inv => FirstDriverShown
  BY ShownIsFirst
<1>. HIDE DEF Inv
<1>. QED  BY <1>1, <1>2, <1>3, PTL DEF Spec

(* The page has received the driver of the ride requested last. *)
DriverReceived == logs # <<>> /\ DispatchesOf(shown, logs[1].requestID) # <<>>

CountdownFollows ==
    ~stale /\ DriverReceived => CountdownShown /\ driver.plate \in Drivers

LEMMA CountdownOfReceived ==
    CompleteInv /\ PlatesInv /\ FirstDriverShown => CountdownFollows
<1>. SUFFICES ASSUME CompleteInv, PlatesInv, FirstDriverShown, ~stale, DriverReceived
              PROVE  CountdownShown /\ driver.plate \in Drivers
  BY DEF CountdownFollows
<1>. DEFINE own == DispatchesOf(shown, logs[1].requestID)
            plate == about[own[1]].plate
<1>1. 1 \in DOMAIN logs
  BY EmptySeq, LenProperties DEF CompleteInv, TypedInv, TypeOK, DriverReceived
<1>2. DOMAIN about = 1..stored
  BY LenProperties DEF CompleteInv, TypedInv, AboutInv
<1>3. own \in Seq(1..stored) /\ \A j \in DOMAIN own : about[own[j]].step = Dispatched
  <2>1. \A k \in 1..stored : Entry(k) \in Named <=> about[k].step = Dispatched
    BY <1>2, DispatchedRead DEF CompleteInv, TypedInv, AboutInv
  <2>2. Requested \notin Named /\ RequestFailed \notin Named
    BY DEF Requested, RequestFailed, Named
  <2>. QED  BY <1>1, <2>1, <2>2, FoundInDispatches
<1>4. own # <<>> /\ driver = [arrival |-> ETA[plate], plate |-> plate]
  BY DEF FirstDriverShown, DispatchesOf, DriverReceived
<1>5. 1 \in DOMAIN own /\ own[1] \in 1..stored
  <2>1. DOMAIN own = 1..Len(own) /\ Len(own) \in Nat /\ Len(own) # 0
    BY <1>3, <1>4, EmptySeq, LenProperties
  <2>2. own \in Seq(1..stored) /\ 1 \in 1..Len(own)
    BY <1>3, <2>1
  <2>3. own[1] \in 1..stored
    BY <2>2, ElementOfSeq
  <2>. QED  BY <2>1, <2>3
<1>6. plate \in Drivers
  BY <1>2, <1>3, <1>5 DEF PlatesInv, Plates
<1>7. ETA[plate] \in Int /\ ETA[plate] # 0
  <2>1. Readable \subseteq Int
    BY DEF Readable
  <2>. QED  BY <1>6, <2>1, ETAAssumption
<1>. QED  BY <1>4, <1>6, <1>7, UndefinedAssumption DEF CountdownShown

(* As soon as the driver of the ride requested last has been received and the
   effects have run, the page counts down and names a driver, whatever came
   between the two and whatever comes of it again.                           *)
THEOREM CountdownAppears == Spec => []CountdownFollows
<1>. DEFINE Inv == CompleteInv /\ PlatesInv
<1>1. Init => Inv
  BY CompleteInvInit DEF Init, PlatesInv
<1>2. Inv /\ [Next]_vars => Inv'
  BY CompleteInvStep, PlatesInvStep DEF CompleteInv
<1>3. Inv /\ FirstDriverShown => CountdownFollows
  BY CountdownOfReceived
<1>. HIDE DEF Inv
<1>. QED  BY <1>1, <1>2, <1>3, FirstDriverStays, PTL DEF Spec

-----------------------------------------------------------------------------
(* The rows of a panel. *)

LEMMA RowOf ==
    ASSUME about \in Seq(Notification), PlatesInv, NEW k \in DOMAIN about
    PROVE  /\ Row(Entry(k)).service = Services[about[k].step]
           /\ NamesDriver(Row(Entry(k))) <=> about[k].step = Dispatched
<1>1. about[k].step \in 1..5 /\ about[k].plate \in Plates(about[k].step)
  <2>1. about[k] \in Notification
    BY LenProperties, ElementOfSeq
  <2>. QED  BY <2>1 DEF Notification, Services, PlatesInv
<1>2. /\ Row(Entry(k)).service = Services[about[k].step]
      /\ Row(Entry(k)).status.plate = about[k].plate
  BY DEF Row, Entry, Status
<1>3. about[k].step = Dispatched => Services[about[k].step] = "driver" /\ about[k].plate # Undefined
  BY <1>1, UndefinedAssumption DEF Dispatched, Services, Plates
<1>4. about[k].step # Dispatched => about[k].plate = Undefined
  BY <1>1 DEF Plates
<1>. QED  BY <1>2, <1>3, <1>4 DEF NamesDriver

(* The infos of a log: the request, and what was received of the ride. *)
LEMMA InfosAre ==
    ASSUME CompleteInv, NEW i \in DOMAIN logs
    PROVE  LET mine == Filter(shown, Of(logs[i].requestID))
               infos == Filter(logs[i].entries, OfType("info"))
           IN  /\ mine \in Seq(1..stored) /\ infos \in Seq(LogEntry)
               /\ Len(infos) = Len(mine) + 1
               /\ infos[1] = Requested
               /\ \A j \in 1..Len(mine) : infos[j + 1] = Entry(mine[j])
<1>. DEFINE r == logs[i].requestID
            mine == Filter(shown, Of(r))
            info == OfType("info")
            infos == Filter(logs[i].entries, info)
            received == EntriesOf(shown)[r]
<1>1. r \in Rides /\ logs[i].entries \in Seq(LogEntry)
  BY InLogs DEF CompleteInv, TypedInv, TypeOK
<1>2. /\ about \in Seq(Notification) /\ Len(about) = stored /\ shown \in Seq(1..stored)
      /\ mine \in Seq(1..stored)
  BY FilterInSeq DEF CompleteInv, TypedInv, SourceInv, AboutInv
<1>3. infos = <<Requested>> \o received /\ infos \in Seq(LogEntry)
  BY <1>1, FilterInSeq DEF CompleteInv, LogsComplete
<1>4. received \in Seq(info) /\ <<Requested>> \in Seq(info)
  BY <1>1, <1>2, EntriesTyped, RequestedTyped
<1>5. received = [j \in DOMAIN mine |-> Entry(mine[j])]
  BY <1>1 DEF EntriesOf
<1>. HIDE DEF info, received, mine, infos
<1>6. DOMAIN received = 1..Len(mine) /\ Len(received) = Len(mine) /\ Len(mine) \in Nat
  BY <1>2, <1>4, <1>5, LenProperties
<1>7. /\ Len(infos) = Len(mine) + 1 /\ infos[1] = Requested
      /\ \A j \in 1..Len(mine) : infos[j + 1] = received[j]
  BY <1>3, <1>4, <1>6, ConcatProperties, LenProperties
<1>8. \A j \in 1..Len(mine) : infos[j + 1] = Entry(mine[j])
  BY <1>5, <1>6, <1>7
<1>. QED  BY <1>2, <1>3, <1>7, <1>8 DEF mine, infos, info

(* The panel of a ride whose request did not fail holds nothing else. *)
LEMMA RowsAre ==
    ASSUME CompleteInv, NEW i \in DOMAIN logs, post[logs[i].requestID] # "failed"
    PROVE  LET mine == Filter(shown, Of(logs[i].requestID))
               rows == Panel(logs[i])
           IN  /\ mine \in Seq(1..stored) /\ Len(rows) = Len(mine) + 1
               /\ \A j \in 1..Len(mine) : rows[j + 1] = Row(Entry(mine[j]))
<1>. DEFINE e == logs[i].entries
            mine == Filter(shown, Of(logs[i].requestID))
<1>1. e \in Seq(LogEntry)
  BY InLogs DEF CompleteInv, TypedInv, TypeOK
<1>2. Filter(e, OfType("error")) = <<>>
  BY DEF CompleteInv, LogsComplete
<1>3. \A j \in 1..Len(e) : e[j] \in OfType("info")
  <2>. SUFFICES ASSUME NEW j \in 1..Len(e), e[j] \notin OfType("info") PROVE FALSE
    OBVIOUS
  <2>1. e[j] \in OfType("error")
    BY EntriesAre, RequestedTyped
  <2>. HIDE DEF e
  <2>2. \E k \in 1..Len(Filter(e, OfType("error"))) : Filter(e, OfType("error"))[k] = e[j]
    BY <1>1, <2>1, FilterKeeps
  <2>. QED  BY <1>2, <2>2, EmptySeq
<1>4. Filter(e, OfType("info")) = e
  BY <1>1, <1>3, FilterAll
<1>5. /\ mine \in Seq(1..stored) /\ Len(e) = Len(mine) + 1
      /\ \A j \in 1..Len(mine) : e[j + 1] = Entry(mine[j])
  BY <1>4, InfosAre
<1>6. Panel(logs[i]) = [j \in DOMAIN e |-> Row(e[j])]
  BY DEF Panel
<1>. HIDE DEF e, mine
<1>7. DOMAIN e = 1..(Len(mine) + 1) /\ Len(mine) \in Nat
  BY <1>1, <1>5, LenProperties
<1>8. Panel(logs[i]) \in Seq({Row(e[j]) : j \in DOMAIN e})
  BY <1>6, <1>7, SeqDef
<1>9. Len(Panel(logs[i])) = Len(mine) + 1
  BY <1>6, <1>7, <1>8, LenProperties
<1>10. \A j \in 1..Len(mine) : Panel(logs[i])[j + 1] = Row(Entry(mine[j]))
  <2>1. \A j \in 1..Len(mine) : j + 1 \in DOMAIN e
    BY <1>7
  <2>. QED  BY <1>5, <1>6, <2>1
<1>. QED  BY <1>5, <1>9, <1>10 DEF mine

(* Two infos of a log have different rows. *)
LEMMA InfosDiffer ==
    ASSUME CompleteInv, PlatesInv, ReceivedOnce, Kept, ~overlapped, NEW l \in DOMAIN logs
    PROVE  LET infos == Filter(logs[l].entries, OfType("info"))
           IN  /\ infos \in Seq(LogEntry)
               /\ \A i \in 1..Len(infos) : infos[i].service # "api"
               /\ \A i, j \in 1..Len(infos) :
                     /\ Row(infos[i]).service = Row(infos[j]).service
                     /\ NamesDriver(Row(infos[i])) = NamesDriver(Row(infos[j]))
                     => i = j
<1>. DEFINE r == logs[l].requestID
            mine == Filter(shown, Of(r))
            infos == Filter(logs[l].entries, OfType("info"))
<1>1. /\ mine \in Seq(1..stored) /\ Len(mine) \in Nat /\ infos \in Seq(LogEntry)
      /\ Len(infos) = Len(mine) + 1
      /\ infos[1] = Requested
      /\ \A n \in 1..Len(mine) : infos[n + 1] = Entry(mine[n])
  BY InfosAre, LenProperties
<1>2. /\ about \in Seq(Notification) /\ DOMAIN about = 1..stored
      /\ shown \in Seq(1..stored) /\ DOMAIN shown = 1..Len(shown)
  BY LenProperties DEF CompleteInv, TypedInv, SourceInv, AboutInv
<1>3. PICK g : Places(shown, mine, g)
  BY <1>2, FilterPlaces
<1>4. mine \in Seq(1..stored \cap Of(r))
  BY <1>2, FilterType
<1>. HIDE DEF mine, infos, r
<1>5. \A n \in 1..Len(mine) : mine[n] \in DOMAIN about /\ about[mine[n]].request = r
  BY <1>2, <1>4, ElementOfSeq DEF Of
<1>6. \A n \in 1..Len(mine) :
         /\ Row(infos[n + 1]).service = Services[about[mine[n]].step]
         /\ NamesDriver(Row(infos[n + 1])) <=> about[mine[n]].step = Dispatched
         /\ about[mine[n]].step \in 1..5
  <2>1. \A k \in DOMAIN about : about[k].step \in 1..5
    <3>1. \A k \in DOMAIN about : about[k] \in Notification
      BY <1>2, LenProperties, ElementOfSeq
    <3>. QED  BY <3>1 DEF Notification, Services
  <2>. QED  BY <1>1, <1>2, <1>5, <2>1, RowOf
<1>7. Row(infos[1]).service = "browser"
  BY <1>1 DEF Row, Requested
<1>8. \A n \in 1..(Len(mine) + 1) : n = 1 \/ (n - 1 \in 1..Len(mine) /\ (n - 1) + 1 = n)
  BY <1>1
<1>9. \A n \in 1..Len(mine) : Row(infos[n + 1]).service \notin {"browser", "api"}
  BY <1>6 DEF Services
<1>10. ASSUME NEW i \in 1..(Len(mine) + 1), NEW j \in 1..(Len(mine) + 1),
              Row(infos[i]).service = Row(infos[j]).service,
              NamesDriver(Row(infos[i])) = NamesDriver(Row(infos[j]))
       PROVE  i = j
  <2>1. CASE i = 1 \/ j = 1
    <3>1. \A n \in 1..(Len(mine) + 1) : Row(infos[n]).service = "browser" => n = 1
      BY <1>8, <1>9
    <3>. QED  BY <1>7, <1>10, <2>1, <3>1
  <2>2. CASE i # 1 /\ j # 1
    <3>1. PICK a \in 1..Len(mine), b \in 1..Len(mine) : i = a + 1 /\ j = b + 1
      BY <1>8, <2>2
    <3>2. about[mine[a]].step = about[mine[b]].step
      <4>1. \A s, t \in 1..5 : /\ Services[s] = Services[t]
                               /\ (s = Dispatched) = (t = Dispatched)
                               => s = t
        BY DEF Services, Dispatched
      <4>2. /\ Services[about[mine[a]].step] = Services[about[mine[b]].step]
            /\ (about[mine[a]].step = Dispatched) = (about[mine[b]].step = Dispatched)
            /\ about[mine[a]].step \in 1..5 /\ about[mine[b]].step \in 1..5
        BY <1>6, <1>10, <3>1
      <4>. QED  BY <4>1, <4>2
    <3>3. SameInfo(mine[a], mine[b])
      BY <1>5, <3>2 DEF SameInfo
    <3>4. /\ g[a] \in DOMAIN shown /\ g[b] \in DOMAIN shown
          /\ mine[a] = shown[g[a]] /\ mine[b] = shown[g[b]]
          /\ a < b => g[a] < g[b]
          /\ b < a => g[b] < g[a]
      BY <1>2, <1>3 DEF Places
    <3>5. g[a] = g[b]
      BY <3>3, <3>4 DEF ReceivedOnce
    <3>6. g[a] \in Int /\ a \in Int /\ b \in Int
      BY <1>2, <3>4
    <3>7. a = b
      BY <3>4, <3>5, <3>6
    <3>. QED  BY <3>1, <3>7
  <2>. QED  BY <2>1, <2>2
<1>11. \A n \in 1..(Len(mine) + 1) : infos[n].service # "api"
  <2>1. \A n \in 1..(Len(mine) + 1) : infos[n].service = Row(infos[n]).service
    BY DEF Row
  <2>. QED  BY <1>7, <1>8, <1>9, <2>1
<1>. QED  BY <1>1, <1>10, <1>11 DEF infos

(* The rows of a panel differ: the infos among each other, and an error, of which
   there is at most one, from them.                                          *)
LEMMA RowsDiffer == CompleteInv /\ PlatesInv /\ ReceivedOnce => RowsOnce
<1>. SUFFICES ASSUME CompleteInv, PlatesInv, ReceivedOnce, Kept, ~overlapped,
                     NEW l \in DOMAIN logs,
                     NEW i \in DOMAIN Panel(logs[l]), NEW j \in DOMAIN Panel(logs[l]),
                     Panel(logs[l])[i].service = Panel(logs[l])[j].service,
                     NamesDriver(Panel(logs[l])[i]) = NamesDriver(Panel(logs[l])[j])
              PROVE  i = j
  BY DEF RowsOnce
<1>. DEFINE e == logs[l].entries
            infos == Filter(e, OfType("info"))
            errors == Filter(e, OfType("error"))
<1>1. e \in Seq(LogEntry) /\ DOMAIN e = 1..Len(e)
  BY InLogs, LenProperties DEF CompleteInv, TypedInv, TypeOK
<1>2. /\ i \in 1..Len(e) /\ j \in 1..Len(e)
      /\ Row(e[i]).service = Row(e[j]).service
      /\ NamesDriver(Row(e[i])) = NamesDriver(Row(e[j]))
  BY <1>1 DEF Panel
<1>3. \A k \in 1..Len(e) : e[k] \in OfType("info") \/ e[k] = RequestFailed
  BY EntriesAre
<1>4. /\ \A a \in 1..Len(infos) : infos[a].service # "api"
      /\ \A a, b \in 1..Len(infos) : /\ Row(infos[a]).service = Row(infos[b]).service
                                     /\ NamesDriver(Row(infos[a])) = NamesDriver(Row(infos[b]))
                                     => a = b
  BY InfosDiffer
<1>5. errors = <<>> \/ errors = <<RequestFailed>>
  BY DEF CompleteInv, LogsComplete
<1>. HIDE DEF e
<1>6. PICK g : Places(e, infos, g) /\ Covers(e, OfType("info"), infos, g)
  BY <1>1, FilterPlaces
<1>7. PICK h : Places(e, errors, h) /\ Covers(e, OfType("error"), errors, h)
  BY <1>1, FilterPlaces
<1>. HIDE DEF infos, errors
<1>8. \A k \in 1..Len(e) : e[k] \in OfType("info") =>
          \E a \in 1..Len(infos) : g[a] = k /\ infos[a] = e[k]
  BY <1>6 DEF Places, Covers
<1>9. \A k, n \in 1..Len(e) : e[k] = RequestFailed /\ e[n] = RequestFailed => k = n
  <2>. SUFFICES ASSUME NEW k \in 1..Len(e), NEW n \in 1..Len(e),
                       e[k] = RequestFailed, e[n] = RequestFailed
                PROVE  k = n
    OBVIOUS
  <2>1. e[k] \in OfType("error") /\ e[n] \in OfType("error")
    BY RequestedTyped
  <2>2. /\ \E a \in 1..Len(errors) : h[a] = k
        /\ \E b \in 1..Len(errors) : h[b] = n
    BY <1>7, <2>1 DEF Covers
  <2>3. Len(errors) = 0 \/ Len(errors) = 1
    BY <1>5, EmptySeq
  <2>4. 1..Len(errors) \subseteq {1}
    <3>1. 1..0 = {} /\ 1..1 = {1}
      OBVIOUS
    <3>. QED  BY <2>3, <3>1, Zenon
  <2>. QED  BY <2>2, <2>4
<1>10. RequestFailed.service = "api" /\ \A x : Row(x).service = x.service
  BY DEF RequestFailed, Row
<1>11. CASE e[i] = RequestFailed \/ e[j] = RequestFailed
  BY <1>2, <1>3, <1>4, <1>8, <1>9, <1>10, <1>11
<1>12. CASE e[i] \in OfType("info") /\ e[j] \in OfType("info")
  BY <1>2, <1>4, <1>8, <1>12
<1>. QED  BY <1>2, <1>3, <1>11, <1>12

(* No notification has two rows in a panel while the list is kept and the polls
   do not overlap, however often its message is delivered, also when the request
   or a Store failed and when two rides of the page store at once.           *)
THEOREM NoRowTwice == Spec => []RowsOnce
<1>. DEFINE Inv == CompleteInv /\ PlatesInv
<1>1. Init => Inv
  BY CompleteInvInit DEF Init, PlatesInv
<1>2. Inv /\ [Next]_vars => Inv'
  BY CompleteInvStep, PlatesInvStep DEF CompleteInv
<1>3. Inv /\ ReceivedOnce => RowsOnce
  BY RowsDiffer
<1>. HIDE DEF Inv
<1>. QED  BY <1>1, <1>2, <1>3, RidesReceiveOnce, PTL DEF Spec

-----------------------------------------------------------------------------
(* The sixth row. *)

(* The notifications of ride r in the list. *)
ListOf(r) == Filter(log, Of(r))

(* The notifications that the dispatch has stored before its f-th Store. *)
Before == <<0, 1, 2, 2, 3, 4, 5>>

(* Those of a ride are in the order of its dispatch, without a gap, when every
   one was stored and the list was kept.                                     *)
StepsInv == Kept /\ ~missed =>
                \A r \in Rides : /\ Len(ListOf(r)) >= Before[flow[r]]
                                 /\ \A i \in DOMAIN ListOf(r) : about[ListOf(r)[i]].step = i

LEMMA BeforeIs ==
    /\ \A f \in 1..7 : Before[f] \in Nat
    /\ \A f \in 1..6 : /\ Order[f] \in Nat /\ Before[f + 1] = Order[f]
                       /\ Before[f] <= Order[f] /\ Order[f] <= Before[f] + 1
    /\ \A f \in 5..7 : Before[Finding] <= Before[f]
BY DEF Before, Order, Finding

(* What a ride's dispatch finds in the list is among the ride's. *)
LEMMA ListedIs ==
    ASSUME TypedInv, StepsInv, Kept, ~missed, NEW r \in Rides, NEW step, Listed(r, step)
    PROVE  step \in 1..Len(ListOf(r))
<1>1. PICK i \in DOMAIN log : about[log[i]].request = r /\ about[log[i]].step = step
  BY DEF Listed
<1>2. /\ log \in Seq(1..stored) /\ DOMAIN log = 1..Len(log) /\ DOMAIN about = 1..stored
  BY LenProperties DEF TypedInv, SourceInv, AboutInv
<1>3. log[i] \in 1..stored
  BY <1>2, ElementOfSeq
<1>4. log[i] \in Of(r)
  BY <1>1, <1>2, <1>3 DEF Of
<1>5. PICK j \in 1..Len(ListOf(r)) : ListOf(r)[j] = log[i]
  BY <1>2, <1>4, FilterKeeps DEF ListOf
<1>6. DOMAIN ListOf(r) = 1..Len(ListOf(r))
  BY <1>2, FilterInSeq, LenProperties DEF ListOf
<1>. QED  BY <1>1, <1>5, <1>6 DEF StepsInv

LEMMA StoresKeepsSteps ==
    ASSUME TypedInv, StepsInv, Kept, ~missed, NEW r \in Rides,
           NEW l \in seen[r], Stores(r, l), Kept'
    PROVE  StepsInv'
<1>1. PICK new \in Notification :
         /\ new.request = r /\ new.step = Step(r)
         /\ DOMAIN about = 1..stored /\ DOMAIN about' = 1..(stored + 1) /\ stored \in Nat
         /\ about'[stored + 1] = new
         /\ \A k \in 1..stored : about'[k] = about[k]
  BY StoresOne DEF TypedInv
<1>2. log \in Seq(1..stored) /\ log' = Append(log, stored + 1) /\ l = log
  <2>1. l = log
    BY DEF Stores, Write, Kept
  <2>. QED  BY <2>1 DEF Stores, Write, TypedInv, SourceInv
<1>3. /\ flow[r] \in 1..6 /\ flow'[r] \in {flow[r], flow[r] + 1}
      /\ \A q \in Rides \ {r} : flow'[q] = flow[q]
      /\ Step(r) = Order[flow[r]]
      /\ ~Listed(r, Step(r))
  <2>1. flow'[r] \in {flow[r], flow[r] + 1} /\ \A q \in Rides \ {r} : flow'[q] = flow[q]
    BY ProceedTyped DEF Stores, TypedInv, AboutInv
  <2>2. Lacks(log, r, Step(r))
    BY <1>2 DEF TypedInv, AboutInv, SeenInv
  <2>. QED  BY <2>1, <2>2, StepIs DEF Stores, Step, Lacks, Listed
<1>4. ASSUME NEW q \in Rides
      PROVE  /\ Len(ListOf(q)') >= Before[flow'[q]]
             /\ \A i \in DOMAIN ListOf(q)' : about'[ListOf(q)'[i]].step = i
  <2>1. PICK own : own = ListOf(q)
    OBVIOUS
  <2>2. /\ own \in Seq(1..stored) /\ DOMAIN own = 1..Len(own) /\ Len(own) \in Nat
        /\ \A i \in 1..Len(own) : own[i] \in 1..stored
    <3>1. own \in Seq(1..stored)
      BY <1>2, <2>1, FilterInSeq DEF ListOf
    <3>. QED  BY <3>1, LenProperties, ElementOfSeq
  <2>3. Len(own) >= Before[flow[q]] /\ \A i \in 1..Len(own) : about[own[i]].step = i
    BY <2>1, <2>2 DEF StepsInv
  <2>4. PICK T : T = Of(q)'
    OBVIOUS
  <2>5. Filter(log, T) = own
    <3>1. \A i \in 1..Len(log) : log[i] \in 1..stored
      BY <1>2, ElementOfSeq
    <3>2. \A i \in 1..Len(log) : log[i] \in Of(q) <=> log[i] \in T
      BY <1>1, <2>4, <3>1 DEF Of
    <3>. QED  BY <1>2, <2>1, <3>2, FilterSame DEF ListOf
  <2>6. stored + 1 \in T <=> q = r
    BY <1>1, <2>4 DEF Of
  <2>7. ListOf(q)' = IF q = r THEN Append(own, stored + 1) ELSE own
    <3>1. log \in Seq(1..(stored + 1)) /\ stored + 1 \in 1..(stored + 1)
      <4>1. 1..stored \subseteq 1..(stored + 1)
        BY <1>1
      <4>. QED  BY <1>1, <1>2, <4>1, SeqMonotonic
    <3>2. Filter(Append(log, stored + 1), T) =
              IF stored + 1 \in T THEN Append(Filter(log, T), stored + 1) ELSE Filter(log, T)
      <4>1. PICK X, s, n : X = 1..(stored + 1) /\ s = log /\ n = stored + 1
        OBVIOUS
      <4>2. s \in Seq(X) /\ n \in X
        BY <3>1, <4>1
      <4>3. Filter(Append(s, n), T) = IF n \in T THEN Append(Filter(s, T), n) ELSE Filter(s, T)
        BY <4>2, FilterAppend
      <4>. QED  BY <4>1, <4>3
    <3>3. ListOf(q)' = Filter(Append(log, stored + 1), T)
      BY <1>2, <2>4 DEF ListOf
    <3>. QED  BY <2>5, <2>6, <3>2, <3>3
  <2>8. CASE q # r
    <3>1. ListOf(q)' = own /\ flow'[q] = flow[q]
      BY <1>3, <2>7, <2>8
    <3>2. \A i \in 1..Len(own) : about'[own[i]].step = i
      BY <1>1, <2>2, <2>3
    <3>. QED  BY <2>2, <2>3, <3>1, <3>2
  <2>9. CASE q = r
    <3>1. Len(own) = Step(r) - 1
      <4>1. ~(Step(r) \in 1..Len(own))
        <5>. SUFFICES ASSUME Step(r) \in 1..Len(own) PROVE Listed(r, Step(r))
          BY <1>3
        <5>1. PICK n \in 1..Len(own) : n = Step(r)
          OBVIOUS
        <5>2. about[own[n]].step = n
          BY <2>3
        <5>3. PICK g : Places(log, own, g)
          BY <1>2, <2>1, FilterPlaces DEF ListOf
        <5>4. g[n] \in 1..Len(log) /\ log[g[n]] = own[n]
          BY <5>3 DEF Places
        <5>5. about[own[n]].request = r
          <6>1. own \in Seq(1..stored \cap Of(r))
            BY <1>2, <2>1, <2>9, FilterType DEF ListOf
          <6>. QED  BY <6>1, ElementOfSeq DEF Of
        <5>6. DOMAIN log = 1..Len(log)
          BY <1>2, LenProperties
        <5>. QED  BY <5>1, <5>2, <5>4, <5>5, <5>6 DEF Listed
      <4>2. PICK f \in 1..6 : f = flow[r]
        BY <1>3
      <4>3. Step(r) = Order[f] /\ Len(own) >= Before[f]
        BY <1>3, <2>3, <2>9, <4>2
      <4>4. Order[f] \in 1..5 /\ Before[f] \in Nat /\ Order[f] <= Before[f] + 1
        BY BeforeIs, OrderIs
      <4>. QED  BY <2>2, <4>1, <4>3, <4>4
    <3>2. /\ Len(Append(own, stored + 1)) = Len(own) + 1
          /\ DOMAIN Append(own, stored + 1) = 1..(Len(own) + 1)
          /\ Append(own, stored + 1)[Len(own) + 1] = stored + 1
          /\ \A i \in 1..Len(own) : Append(own, stored + 1)[i] = own[i]
      OBVIOUS
    <3>3. ListOf(q)' = Append(own, stored + 1)
      BY <2>7, <2>9
    <3>4. about'[stored + 1].step = Len(own) + 1
      <4>1. Step(r) \in 1..5
        BY StepIs DEF Stores
      <4>2. about'[stored + 1].step = Step(r)
        BY <1>1
      <4>. QED  BY <2>2, <3>1, <4>1, <4>2
    <3>5. \A i \in 1..Len(own) : about'[own[i]].step = i
      BY <1>1, <2>2, <2>3
    <3>6. \A i \in 1..(Len(own) + 1) : about'[Append(own, stored + 1)[i]].step = i
      <4>. TAKE i \in 1..(Len(own) + 1)
      <4>1. i = Len(own) + 1 \/ i \in 1..Len(own)
        BY <2>2
      <4>. QED  BY <3>2, <3>4, <3>5, <4>1
    <3>7. Len(own) + 1 >= Before[flow'[q]]
      <4>1. PICK f \in 1..6 : f = flow[r] /\ flow'[r] \in {f, f + 1}
        BY <1>3
      <4>2. /\ Before[f] <= Order[f] /\ Before[f + 1] = Order[f] /\ Order[f] \in Nat
            /\ Before[f] \in Nat
        BY BeforeIs
      <4>3. Len(own) + 1 = Order[f]
        BY <1>3, <2>2, <3>1, <4>1, <4>2
      <4>. QED  BY <2>9, <4>1, <4>2, <4>3
    <3>. QED  BY <3>2, <3>3, <3>6, <3>7
  <2>. QED  BY <2>8, <2>9
<1>. QED  BY <1>4 DEF StepsInv

LEMMA StepsInvStep == TypedInv /\ StepsInv /\ [Next]_vars => StepsInv'
<1>. SUFFICES ASSUME TypedInv, StepsInv, [Next]_vars, Kept', ~missed'
              PROVE  StepsInv'
  BY DEF StepsInv
<1>1. Kept
  BY StepsOfPolls, KeptBefore DEF TypedInv, AboutInv
<1>2. ~missed
  BY DEF Next, FormStep, SplashAnswered, SplashFails, SelectPickup, SelectDropoff, Select,
         RequestDrive, Effects, KeyExpires, RideStep, PostAnswered, PostFails, StoreStep, Reads,
         Stores, StoresSame, StoresNothing, StoreFails, DeliveredAgain, PagePollStep, Asks,
         IsAnswered, Shows, Fails, flowVars, vars
<1>3. /\ flow \in [Rides -> 1..7]
      /\ \A r \in Rides : /\ ListOf(r) \in Seq(1..stored) /\ Len(ListOf(r)) \in Nat
                          /\ Len(ListOf(r)) >= Before[flow[r]]
  <2>1. flow \in [Rides -> 1..7]
    BY OrderIs DEF TypedInv, TypeOK
  <2>2. \A r \in Rides : ListOf(r) \in Seq(1..stored)
    BY FilterInSeq DEF ListOf, TypedInv, SourceInv
  <2>. QED  BY <1>1, <1>2, <2>1, <2>2, LenProperties DEF StepsInv
<1>4. ASSUME UNCHANGED <<log, about>>, \A r \in Rides : Len(ListOf(r)) >= Before[flow'[r]]
      PROVE  StepsInv'
  <2>1. \A r \in Rides : ListOf(r)' = ListOf(r)
    BY <1>4 DEF ListOf, Of
  <2>. QED  BY <1>1, <1>2, <1>4, <2>1 DEF StepsInv
<1>5. ASSUME UNCHANGED <<log, about, flow>>
      PROVE  StepsInv'
  BY <1>3, <1>4, <1>5
<1>6. CASE FormStep \/ Effects \/ UNCHANGED vars
  BY <1>5, <1>6 DEF FormStep, SplashAnswered, SplashFails, SelectPickup, SelectDropoff, Select,
                    RequestDrive, Effects, pollVars, storeVars, flowVars, vars
<1>7. CASE KeyExpires
  <2>1. log' = <<>> /\ stored' = stored /\ log # <<>>
    BY <1>7 DEF KeyExpires, Expire
  <2>2. Len(log') = 0 /\ Len(log) # 0
    BY <2>1, EmptySeq DEF TypedInv, SourceInv
  <2>. QED  BY <1>1, <2>1, <2>2 DEF Kept
<1>8. ASSUME NEW r \in Rides, NEW l \in seen[r], Stores(r, l)
      PROVE  StepsInv'
  BY <1>1, <1>2, <1>8, StoresKeepsSteps
(* A Store that changes nothing finds its notification in the list. *)
<1>9. ASSUME NEW r \in Rides, Dispatching(r), Listed(r, Step(r)), Proceed(r),
             UNCHANGED <<log, about>>
      PROVE  StepsInv'
  <2>1. Step(r) \in 1..Len(ListOf(r))
    BY <1>1, <1>2, <1>9, ListedIs
  <2>2. /\ flow[r] \in 1..6 /\ flow'[r] \in {flow[r], flow[r] + 1}
        /\ \A q \in Rides \ {r} : flow'[q] = flow[q]
    BY <1>9, ProceedTyped, StepIs DEF TypedInv, AboutInv
  <2>3. PICK f \in 1..6 : f = flow[r] /\ flow'[r] \in {f, f + 1}
    BY <2>2
  <2>4. /\ Before[f + 1] = Order[f] /\ Order[f] \in Nat /\ Step(r) = Order[f]
        /\ Before[f] \in Nat /\ Len(ListOf(r)) >= Before[f]
    BY <1>3, <2>3, BeforeIs DEF Step
  <2>5. Len(ListOf(r)) >= Before[flow'[r]]
    BY <1>3, <2>1, <2>3, <2>4
  <2>6. \A q \in Rides : Len(ListOf(q)) >= Before[flow'[q]]
    BY <1>3, <2>2, <2>5
  <2>. QED  BY <1>4, <1>9, <2>6
<1>10. ASSUME NEW r \in Rides, StoresNothing(r)
       PROVE  StepsInv'
  BY <1>9, <1>10 DEF StoresNothing, pollVars, storeVars
<1>11. ASSUME NEW r \in Rides, NEW l \in seen[r], StoresSame(r, l)
       PROVE  StepsInv'
  <2>1. PICK k \in DOMAIN about : log = Append(l, k) /\ about[k] = Info(r, Step(r), Undefined)
    BY <1>11 DEF StoresSame, InPlace
  <2>2. /\ l \in Seq(1..stored) /\ DOMAIN about = 1..stored
    BY WritersAssumption, LenProperties DEF TypedInv, SourceInv, AboutInv
  <2>3. Len(l) + 1 \in DOMAIN log /\ log[Len(l) + 1] = k
    BY <2>1, <2>2, AppendProperties, LenProperties
  <2>4. Listed(r, Step(r))
    BY <2>1, <2>3 DEF Listed, Info
  <2>. QED  BY <1>9, <1>11, <2>4 DEF StoresSame, GiveUp
<1>12. ASSUME NEW r \in Rides, Reads(r)
       PROVE  StepsInv'
  BY <1>5, <1>12 DEF Reads, Read, flowVars
<1>13. ASSUME NEW r \in Rides, DeliveredAgain(r)
       PROVE  StepsInv'
  <2>1. flow' = [flow EXCEPT ![r] = Finding] /\ flow[r] > Finding /\ UNCHANGED <<log, about>>
    BY <1>13 DEF DeliveredAgain, pollVars, storeVars
  <2>2. flow'[r] = Finding /\ \A q \in Rides \ {r} : flow'[q] = flow[q]
    BY <1>3, <2>1
  <2>3. PICK f \in 5..7 : f = flow[r]
    BY <1>3, <2>1 DEF Finding
  <2>4. /\ Before[f] \in Nat /\ Before[Finding] \in Nat /\ Before[Finding] <= Before[f]
        /\ Len(ListOf(r)) >= Before[f]
    <3>1. f \in 1..7 /\ Finding \in 1..7 /\ Len(ListOf(r)) >= Before[f]
      BY <1>3, <2>3 DEF Finding
    <3>. QED  BY <3>1, BeforeIs
  <2>5. Len(ListOf(r)) >= Before[Finding]
    BY <1>3, <2>4
  <2>6. \A q \in Rides : Len(ListOf(q)) >= Before[flow'[q]]
    BY <1>3, <2>2, <2>5
  <2>. QED  BY <1>4, <2>1, <2>6
<1>14. ASSUME NEW r \in Rides, StoreFails(r)
       PROVE  StepsInv'
  BY <1>14 DEF StoreFails
<1>15. ASSUME NEW r \in Rides, PostAnswered(r) \/ PostFails(r)
       PROVE  StepsInv'
  BY <1>5, <1>15 DEF PostAnswered, PostFails, pollVars, storeVars, flowVars
<1>16. ASSUME NEW p \in Polls, PagePollStep(p)
       PROVE  StepsInv'
  BY <1>5, <1>16 DEF PagePollStep, Asks, IsAnswered, Shows, Fails, StartPoll, Answer, Show,
                     PollFails, storeVars, flowVars
<1>. QED
  BY <1>6, <1>7, <1>8, <1>10, <1>11, <1>12, <1>13, <1>14, <1>15, <1>16
     DEF Next, RideStep, StoreStep

(* As long as the list is kept and polls do not overlap, what the page has
   received is the front of the list.                                        *)
LEMMA ShownIsFront ==
    ASSUME TypedInv, ExactlyOnce, NoGap, Kept, ~overlapped
    PROVE  \E rest \in Seq(1..stored) : log = shown \o rest
<1>. DEFINE rest == SubSeq(log, cursor + 2, Len(log))
<1>1. /\ log \in Seq(1..stored) /\ DOMAIN log = 1..Len(log) /\ Len(log) \in Nat
      /\ cursor \in Int /\ cursor >= -1
  BY LenProperties, MaxStoredAssumption
     DEF TypedInv, SourceInv, AboutInv, TypeInv, PollTypeOK, Cursors
<1>2. cursor + 1 <= Len(log)
  <2>1. cursor + 1 >= 1 => cursor + 1 \in 1..Len(log)
    BY <1>1 DEF NoGap
  <2>. QED  BY <1>1, <2>1
<1>3. \A i \in 1..Len(log) : log[i] \in 1..stored
  BY <1>1, ElementOfSeq
<1>4. PICK n \in Nat : n = cursor + 1 /\ n <= Len(log)
  BY <1>1, <1>2
<1>5. shown = SubSeq(log, 1, n)
  BY <1>4 DEF ExactlyOnce
<1>6. rest = SubSeq(log, n + 1, Len(log))
  <2>1. cursor + 2 = n + 1
    BY <1>1, <1>4
  <2>. QED  BY <2>1
<1>7. /\ shown \in Seq(1..stored) /\ Len(shown) = n
      /\ \A i \in 1..n : shown[i] = log[i]
  BY <1>1, <1>3, <1>4, <1>5, SubSeqProperties
<1>. HIDE DEF rest
<1>8. /\ rest \in Seq(1..stored) /\ Len(rest) = Len(log) - n
      /\ \A i \in 1..(Len(log) - n) : rest[i] = log[n + i]
  <2>1. n + 1 \in 1..(Len(log) + 1) /\ \A i \in (n + 1)..Len(log) : log[i] \in 1..stored
    BY <1>1, <1>3, <1>4
  <2>2. /\ rest \in Seq(1..stored)
        /\ Len(rest) = IF n + 1 <= Len(log) THEN Len(log) - (n + 1) + 1 ELSE 0
        /\ \A i \in 1..(Len(log) - (n + 1) + 1) : rest[i] = log[(n + 1) + i - 1]
    BY <1>1, <1>4, <1>6, <2>1, SubSeqProperties
  <2>3. \A i \in 1..(Len(log) - n) : i \in 1..(Len(log) - (n + 1) + 1) /\ (n + 1) + i - 1 = n + i
    BY <1>1, <1>4
  <2>4. \A i \in 1..(Len(log) - n) : rest[i] = log[n + i]
    BY <2>2, <2>3
  <2>5. Len(rest) = Len(log) - n
    <3>1. CASE n + 1 <= Len(log)
      <4>1. Len(rest) = Len(log) - (n + 1) + 1
        BY <2>2, <3>1
      <4>2. Len(log) - (n + 1) + 1 = Len(log) - n
        BY <1>1, <1>4
      <4>. QED  BY <4>1, <4>2
    <3>2. CASE ~(n + 1 <= Len(log))
      <4>1. Len(rest) = 0
        BY <2>2, <3>2
      <4>2. Len(log) - n = 0
        <5>1. \A m \in Nat : n <= m /\ ~(n + 1 <= m) => m - n = 0
          OBVIOUS
        <5>. QED  BY <1>1, <1>4, <3>2, <5>1
      <4>. QED  BY <4>1, <4>2
    <3>. QED  BY <3>1, <3>2
  <2>. QED  BY <2>2, <2>4, <2>5
<1>9. /\ shown \o rest \in Seq(1..stored) /\ Len(shown \o rest) = Len(log)
      /\ \A i \in 1..Len(log) : (shown \o rest)[i] = IF i <= n THEN shown[i] ELSE rest[i - n]
  <2>1. /\ shown \o rest \in Seq(1..stored) /\ Len(shown \o rest) = Len(shown) + Len(rest)
        /\ \A i \in 1..(Len(shown) + Len(rest)) :
              (shown \o rest)[i] = IF i <= Len(shown) THEN shown[i] ELSE rest[i - Len(shown)]
    BY <1>7, <1>8, ConcatProperties
  <2>2. Len(shown) + Len(rest) = Len(log)
    BY <1>1, <1>7, <1>8
  <2>. QED  BY <1>7, <2>1, <2>2, Zenon
<1>10. \A i \in 1..Len(log) : (shown \o rest)[i] = log[i]
  <2>. TAKE i \in 1..Len(log)
  <2>1. CASE i <= n
    BY <1>7, <1>9, <2>1
  <2>2. CASE ~(i <= n)
    <3>1. i - n \in 1..(Len(log) - n) /\ n + (i - n) = i
      BY <1>1, <1>4, <2>2
    <3>. QED  BY <1>8, <1>9, <2>2, <3>1
  <2>. QED  BY <2>1, <2>2
<1>11. log = shown \o rest
  BY <1>1, <1>9, <1>10, SeqEqual
<1>. QED  BY <1>8, <1>11

LEMMA SixthNames ==
    CompleteInv /\ PlatesInv /\ StepsInv /\ ExactlyOnce /\ NoGap => SixthRow
<1>. SUFFICES ASSUME CompleteInv, PlatesInv, StepsInv, ExactlyOnce, NoGap,
                     Kept, ~overlapped, ~missed,
                     NEW l \in DOMAIN logs, post[logs[l].requestID] # "failed",
                     Len(Panel(logs[l])) >= 6
              PROVE  NamesDriver(Panel(logs[l])[6])
  BY DEF SixthRow, Panels
<1>. DEFINE r == logs[l].requestID
            mine == Filter(shown, Of(r))
<1>1. /\ mine \in Seq(1..stored) /\ Len(mine) \in Nat
      /\ Len(Panel(logs[l])) = Len(mine) + 1
      /\ \A n \in 1..Len(mine) : Panel(logs[l])[n + 1] = Row(Entry(mine[n]))
  BY RowsAre, LenProperties
<1>2. r \in Rides
  BY InLogs DEF CompleteInv, TypedInv, TypeOK
<1>3. PICK rest \in Seq(1..stored) : log = shown \o rest
  BY ShownIsFront DEF CompleteInv
<1>4. Filter(rest, Of(r)) \in Seq(1..stored) /\ ListOf(r) = mine \o Filter(rest, Of(r))
  <2>1. shown \in Seq(1..stored)
    BY DEF CompleteInv, TypedInv, SourceInv
  <2>. QED  BY <1>3, <2>1, FilterInSeq, FilterConcat DEF ListOf
<1>5. about \in Seq(Notification) /\ DOMAIN about = 1..stored
  BY LenProperties DEF CompleteInv, TypedInv, AboutInv
<1>. HIDE DEF mine, r
<1>6. 5 \in 1..Len(mine) /\ Panel(logs[l])[6] = Row(Entry(mine[5]))
  BY <1>1
<1>7. mine[5] \in 1..stored
  BY <1>1, <1>6, ElementOfSeq
<1>8. 5 \in DOMAIN ListOf(r) /\ ListOf(r)[5] = mine[5]
  BY <1>1, <1>4, <1>6, ConcatProperties, LenProperties
<1>9. about[mine[5]].step = Dispatched
  BY <1>2, <1>8 DEF StepsInv, Dispatched
<1>. QED  BY <1>5, <1>6, <1>7, <1>9, RowOf

(* The sixth row of a panel names the driver, when the list was kept, no polls
   overlapped, every notification was stored and the request did not fail.   *)
THEOREM SixthRowNames == Spec => []SixthRow
<1>. DEFINE Inv == CompleteInv /\ PlatesInv /\ StepsInv
<1>1. Init => Inv
  <2>. SUFFICES ASSUME Init PROVE Inv
    OBVIOUS
  <2>1. log = <<>> /\ flow = [r \in Rides |-> 1]
    BY DEF Init, PollInit
  <2>2. StepsInv
    BY <2>1, FilterEmpty, EmptySeq DEF StepsInv, ListOf, Before
  <2>. QED  BY <2>2, CompleteInvInit DEF Init, PlatesInv
<1>2. Inv /\ [Next]_vars => Inv'
  BY CompleteInvStep, PlatesInvStep, StepsInvStep DEF CompleteInv
<1>3. Spec => []ExactlyOnce
  BY PagePolls, SinglePollExactlyOnce, PTL
<1>4. Spec => []NoGap
  BY PagePolls, PollingLeavesNoGap, PTL
<1>5. Inv /\ ExactlyOnce /\ NoGap => SixthRow
  BY SixthNames
<1>. HIDE DEF Inv
<1>. QED  BY <1>1, <1>2, <1>3, <1>4, <1>5, PTL DEF Spec
=============================================================================
